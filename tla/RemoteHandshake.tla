---------------------------- MODULE RemoteHandshake ----------------------------
(***************************************************************************)
(* Pairing and session establishment between the Mac's relay helper (the   *)
(* Go agent) and the phones, through the relay.                            *)
(*                                                                         *)
(*   agent   the helper's session state.  It is written by the relay       *)
(*           goroutine alone, so one received frame is one atomic step.    *)
(*   ios     one RemoteClient + RemoteSessionController per phone, both on *)
(*           the main actor, so again one frame or timer is one step.      *)
(*   toMac, toIos  frames in flight through the relay, which forwards them *)
(*           verbatim and in order and keeps nothing for an absent peer.   *)
(*   attached  the phone whose socket the relay forwards to; a new iOS     *)
(*           socket replaces the one before it.                            *)
(*                                                                         *)
(* A session key is the triple it is derived from: the iOS public key and  *)
(* the two HELLO nonces.  Sequence numbers are the subject of SealedFrames:*)
(* nothing here is replayed, and both ends restart their counters with the *)
(* key.  A nonce is drawn among the values nothing in the state refers to, *)
(* which is all that "16 random bytes" promises.                           *)
(***************************************************************************)
EXTENDS Naturals, Sequences, Functions, RemoteReplayGuard

CONSTANTS
  Phones,                 \* iOS identities (a phone is its public key)
  InitiallyPaired,        \* the phones in the state file at start
  Nonces,                 \* bound: distinct live nonces
  MaxCodes,               \* bound: pairing codes shown during a run
  MaxPairFailures,        \* refused requests before the lockout (5)
  MaxAttempts,            \* HELLOs before the handshake timeout (12 s / 1 s)
  RepairFallbackAttempt,  \* attempt at which a trusted phone re-pairs (3)
  MaxReconnectAttempts,   \* reconnect backoff limit (5)
  MaxInFlight,            \* bound: frames in flight when a timer sends more
  FaultKinds,             \* the faults that may happen in this instance
  MaxFaults               \* bound: how many of them

IosNonces   == [owner : Phones, value : Nonces]
Keys        == [pub : Phones, mac : Nonces, ios : IosNonces]

ASSUME HandshakeAssumption ==
  /\ InitiallyPaired \subseteq Phones
  /\ Nonces \subseteq Nat
  /\ None \notin Phones \cup Nonces \cup IosNonces \cup Keys
  /\ MaxPairFailures \in Nat \ {0}

VARIABLES agent, ios, attached, toMac, toIos, pairingCode, faults

vars == <<agent, ios, attached, toMac, toIos, pairingCode, faults>>

--------------------------------------------------------------------------------
(* Frames.  `pub` on a HELLO stands for the fingerprint of that key.       *)

IosHello(p, n)    == [type |-> "hello", pub |-> p, nonce |-> n]
PairRequest(p, c) == [type |-> "pairRequest", pub |-> p, code |-> c]
MacHello(n)       == [type |-> "hello", nonce |-> n]
PairAccept        == [type |-> "pairAccept"]
PairReject        == [type |-> "pairReject"]
SessionReady(k)   == [type |-> "sessionReady", key |-> k]

Key(p, m, n) == [pub |-> p, mac |-> m, ios |-> n]

IosNonce(p, n) == [owner |-> p, value |-> n]

(* Fresh nonces: the least value no key, nonce or frame still mentions.    *)
KeysInUse ==
  ( {agent.crypto} \cup {ios[p].crypto : p \in Phones}
    \cup {f.key : f \in {g \in Range(toMac) \cup Range(toIos) : g.type = "sessionReady"}} )
  \ {None}

MacNoncesInUse ==
  {agent.macNonce} \cup {k.mac : k \in KeysInUse}
    \cup {ios[p].nonceMac : p \in Phones} \cup {ios[p].guard.nonce : p \in Phones}
    \cup {f.nonce : f \in {g \in Range(toIos) : g.type = "hello"}}

IosNoncesInUse(p) ==
  {ios[p].nonceIOS}
    \cup {n.value : n \in {m \in ({agent.iosNonce} \cup {k.ios : k \in KeysInUse}) \ {None} :
                              m.owner = p}}
    \cup {f.nonce : f \in {g \in Range(toMac) : g.type = "hello" /\ g.pub = p}}

Least(S) == {n \in S : \A m \in S : n <= m}
MintMac    == Least(Nonces \ MacNoncesInUse)
MintIOS(p) == Least(Nonces \ IosNoncesInUse(p))

--------------------------------------------------------------------------------
(* The agent.  a.pub is currentIOSPub, a.peer currentPeerID; a.pending and *)
(* a.stale are the provisional identity and whether its 60 s are over.     *)
(* a.paired is the list of devices in its memory, a.stored the one in the  *)
(* state file; a.ending: SIGTERM is on its way.                            *)

ResetSessionEpochState(a) == [a EXCEPT !.pending = None, !.stale = FALSE]

ResetSession(a) ==
  ResetSessionEpochState(
    [a EXCEPT !.crypto = None, !.macNonce = None, !.iosNonce = None,
              !.pub = None, !.peer = None, !.ready = FALSE])

(* sendCurrentHello: a Mac nonce is minted only when there is none.        *)
WithMacNonce(a, m) == IF a.macNonce = None THEN [a EXCEPT !.macNonce = m] ELSE a

(* MarkPairedDeviceConnected or UpdatePushRegistration of the peer, and    *)
(* SaveState of all that is in memory.                                     *)
SavesPeer(a) == IF a.peer = None THEN a ELSE [a EXCEPT !.stored = a.paired]

EstablishSession(a) ==
  IF /\ a.crypto = None
     /\ a.macNonce # None
     /\ a.iosNonce # None
     /\ a.pub # None
    THEN SavesPeer([a EXCEPT !.crypto = Key(a.pub, a.macNonce, a.iosNonce), !.ready = FALSE])
    ELSE a

ReadyFrames(a) == IF a.crypto # None THEN <<SessionReady(a.crypto)>> ELSE <<>>

(* handleHello ignores an unknown identity while some identity is current. *)
IgnoresHello(a, p) == p \notin a.paired /\ a.pub # None

(* Faulty variant: a fresh iOS nonce does not retire the old epoch.        *)
AfterHello_NeverRekeys(a, p, n, m) ==
  LET b == IF p \in a.paired THEN [a EXCEPT !.pub = p, !.peer = p] ELSE a
      c == IF a.crypto = None THEN [b EXCEPT !.iosNonce = IosNonce(p, n)] ELSE b
  IN EstablishSession(WithMacNonce(c, m))

(* Faulty variant: the new epoch is taken for confirmed like the old one.  *)
AfterHello_StaysReady(a, p, n, m) ==
  LET b == IF p \in a.paired THEN [a EXCEPT !.pub = p, !.peer = p] ELSE a
      c == ResetSessionEpochState([b EXCEPT !.crypto = None, !.iosNonce = IosNonce(p, n)])
  IN [EstablishSession(WithMacNonce(c, m)) EXCEPT !.ready = a.ready]

AfterHello(a, p, n, m) ==
  LET nonce == IosNonce(p, n)
      b == IF p \in a.paired THEN [a EXCEPT !.pub = p, !.peer = p] ELSE a
      c == IF a.crypto # None /\ a.iosNonce # nonce
             THEN ResetSessionEpochState([b EXCEPT !.crypto = None, !.ready = FALSE])
             ELSE b
  IN EstablishSession(WithMacNonce([c EXCEPT !.iosNonce = nonce], m))

Authorized(a, p, c) == c = pairingCode \/ p \in a.paired

AfterRefusal(a) ==
  IF a.attempts + 1 >= MaxPairFailures
    THEN [a EXCEPT !.attempts = 0, !.locked = TRUE]
    ELSE [a EXCEPT !.attempts = @ + 1]

(* Faulty variants: the key, or only the nonce, of the identity before     *)
(* outlives the change; the claim is trusted on arrival.                   *)
AfterPairRequest_KeepsKey(a, p, m) ==
  EstablishSession(WithMacNonce(
    [a EXCEPT !.attempts = 0, !.pending = p, !.stale = FALSE, !.pub = p, !.peer = None], m))

AfterPairRequest_KeepsNonce(a, p, m) ==
  LET b == IF a.pub # None /\ a.pub # p
             THEN [a EXCEPT !.crypto = None, !.ready = FALSE]
             ELSE a
  IN AfterPairRequest_KeepsKey(b, p, m)

AfterPairRequest_TrustsClaim(a, p, m) ==
  AfterPairRequest_KeepsNonce([a EXCEPT !.paired = @ \cup {p}], p, m)

AfterPairRequest(a, p, m) ==
  LET b == IF a.pub # None /\ a.pub # p
             THEN ResetSessionEpochState(
                    [a EXCEPT !.crypto = None, !.iosNonce = None, !.ready = FALSE])
             ELSE a
      c == [b EXCEPT !.attempts = 0, !.pending = p, !.stale = FALSE,
                     !.pub = p, !.peer = None]
  IN EstablishSession(WithMacNonce(c, m))

(* confirmPendingPair and the rest of the SESSION_READY case.              *)
Confirmed(a) ==
  \/ a.pending = None
  \/ ~a.stale /\ a.pub = a.pending

NeedsSave(a) == a.pending # None /\ a.pending \notin a.paired

(* Faulty variant: the session goes ready and nothing is persisted.        *)
AfterConfirm_NotPersisted(a) ==
  [a EXCEPT !.pending = None, !.stale = FALSE, !.ready = TRUE]

AfterConfirm(a) ==
  LET b == IF a.pending = None
             THEN a
             ELSE [a EXCEPT !.paired = @ \cup {a.pending}, !.peer = a.pending,
                            !.stored = IF NeedsSave(a) THEN a.paired \cup {a.pending} ELSE @]
  IN [b EXCEPT !.pending = None, !.stale = FALSE, !.ready = TRUE]

--------------------------------------------------------------------------------
(* A phone.  s.retry: the HELLO retry and timeout tasks run; s.attempt:    *)
(* how many HELLOs they sent; s.reconnect: a reconnect task is scheduled;  *)
(* s.trusted: hasStoredTrust; s.code: the pairing code it scanned.         *)

InvalidateSession(s) == [s EXCEPT !.crypto = None, !.guard = NewGuard]

ClearHandshakeMaterial(s) ==
  [s EXCEPT !.nonceIOS = None, !.nonceMac = None, !.pairAccepted = FALSE]

(* Faulty variant: the old key stays in use under the fresh nonce.         *)
ResetForRehandshake_KeepsKey(s, n) ==
  [s EXCEPT !.nonceMac = None, !.guard = NewGuard, !.nonceIOS = n]

ResetForRehandshake(s, n) ==
  [s EXCEPT !.crypto = None, !.nonceMac = None, !.guard = NewGuard, !.nonceIOS = n]

(* scheduleHandshake, unless both tasks run already.                       *)
EnsureHandshakeRecoveryRunning(s) ==
  IF s.open /\ ~s.connected /\ ~s.retry
    THEN [s EXCEPT !.retry = TRUE, !.attempt = 0]
    ELSE s

BeginHandshakeRecovery(s) == EnsureHandshakeRecoveryRunning([s EXCEPT !.connected = FALSE])

CanDerive(s) == s.crypto = None /\ s.nonceIOS # None /\ s.nonceMac # None

EstablishIfPossible(s, p) ==
  IF CanDerive(s)
    THEN EnsureHandshakeRecoveryRunning(
           [s EXCEPT !.crypto = Key(p, s.nonceMac, IosNonce(p, s.nonceIOS)), !.backoff = 0])
    ELSE s

(* The optimistic SESSION_READY sent as soon as the key is derived.        *)
OptimisticReady(before, after) ==
  IF CanDerive(before) THEN <<SessionReady(after.crypto)>> ELSE <<>>

Closed(s) ==
  [InvalidateSession(s) EXCEPT !.open = FALSE, !.connected = FALSE, !.retry = FALSE]

HandleDisconnect(s) ==
  IF s.reconnect
    THEN s
    ELSE IF s.backoff < MaxReconnectAttempts
      THEN [Closed(s) EXCEPT !.reconnect = TRUE, !.backoff = @ + 1]
      ELSE Closed(s)

(* disconnect() followed by transport.open and scheduleHandshake.          *)
StartConnection(s) ==
  [ClearHandshakeMaterial(Closed(s)) EXCEPT
     !.reconnect = FALSE, !.open = TRUE, !.retry = TRUE, !.attempt = 0]

ShouldSendPairRequest(s) ==
  /\ ~s.pairAccepted
  /\ s.trusted => s.attempt >= RepairFallbackAttempt

--------------------------------------------------------------------------------
Fault(kind) == kind \in FaultKinds /\ faults < MaxFaults /\ faults' = faults + 1

PhoneSends(p, out) == toMac' = IF attached = p THEN toMac \o out ELSE toMac

Detach(p) == attached' = IF attached = p THEN None ELSE attached

NewAgent(paired) ==
  [up |-> FALSE, crypto |-> None, macNonce |-> None, iosNonce |-> None,
   pub |-> None, peer |-> None, ready |-> FALSE, pending |-> None, stale |-> FALSE,
   paired |-> paired, stored |-> paired, ending |-> FALSE, attempts |-> 0, locked |-> FALSE]

NewPhone(p) ==
  [open |-> FALSE, crypto |-> None, nonceIOS |-> None, nonceMac |-> None,
   guard |-> NewGuard, pairAccepted |-> FALSE, connected |-> FALSE,
   retry |-> FALSE, attempt |-> 0, reconnect |-> FALSE, backoff |-> 0,
   trusted |-> p \in InitiallyPaired, code |-> 0]

Init ==
  /\ agent = NewAgent(InitiallyPaired)
  /\ ios = [p \in Phones |-> NewPhone(p)]
  /\ attached = None
  /\ toMac = <<>>
  /\ toIos = <<>>
  /\ pairingCode = 1
  /\ faults = 0

(* The relay goroutine: dial, reset, greet if any device is paired.        *)
MacConnect ==
  /\ ~agent.up
  /\ \E m \in MintMac :
       LET a == [ResetSession(agent) EXCEPT !.up = TRUE]
       IN IF a.paired # {}
            THEN /\ agent' = [a EXCEPT !.macNonce = m]
                 /\ toIos' = Append(toIos, MacHello(m))
            ELSE /\ agent' = a
                 /\ UNCHANGED toIos
  /\ UNCHANGED <<ios, attached, toMac, pairingCode, faults>>

MacDisconnect ==
  /\ agent.up
  /\ Fault("macDrop")
  /\ agent' = [ResetSession(agent) EXCEPT !.up = FALSE]
  /\ UNCHANGED <<ios, attached, toMac, toIos, pairingCode>>

(* Within the bound, and with a code kept for a restart that is under way. *)
MayShowCode == pairingCode + (IF agent.ending THEN 1 ELSE 0) < MaxCodes

(* revoke: the device is taken out of the state file behind the helper's   *)
(* back, which then is told to end; until it does it goes on as before.    *)
Revoke(p) ==
  /\ p \in agent.stored /\ MayShowCode
  /\ Fault("revoke")
  /\ agent' = [agent EXCEPT !.stored = @ \ {p}, !.ending = TRUE]
  /\ UNCHANGED <<ios, attached, toMac, toIos, pairingCode>>

(* The helper process is restarted, for a new code or a changed relay or   *)
(* after a revocation: only the state file survives.                       *)
AgentRestart ==
  /\ \/ agent.ending /\ UNCHANGED faults
     \/ MayShowCode /\ Fault("agentRestart")
  /\ agent' = NewAgent(agent.stored)
  /\ pairingCode' = pairingCode + 1
  /\ UNCHANGED <<ios, attached, toMac, toIos>>

MacRecvHello ==
  /\ agent.up /\ toMac # <<>> /\ Head(toMac).type = "hello"
  /\ toMac' = Tail(toMac)
  /\ LET f == Head(toMac) IN
     IF IgnoresHello(agent, f.pub)
       THEN UNCHANGED <<agent, toIos>>
       ELSE \E m \in MintMac :
              LET a == AfterHello(agent, f.pub, f.nonce, m)
              IN /\ agent' = a
                 /\ toIos' = toIos \o <<MacHello(a.macNonce)>> \o ReadyFrames(a)
  /\ UNCHANGED <<ios, attached, pairingCode, faults>>

MacRecvPairRequest ==
  /\ agent.up /\ toMac # <<>> /\ Head(toMac).type = "pairRequest"
  /\ toMac' = Tail(toMac)
  /\ LET f == Head(toMac) IN
     \/ /\ agent.locked
        /\ toIos' = Append(toIos, PairReject)
        /\ UNCHANGED agent
     \/ /\ ~agent.locked /\ ~Authorized(agent, f.pub, f.code)
        /\ agent' = AfterRefusal(agent)
        /\ toIos' = Append(toIos, PairReject)
     \/ /\ ~agent.locked /\ Authorized(agent, f.pub, f.code)
        /\ \E m \in MintMac :
             LET a == AfterPairRequest(agent, f.pub, m)
             IN /\ agent' = a
                /\ toIos' = toIos \o <<PairAccept, MacHello(a.macNonce)>> \o ReadyFrames(a)
  /\ UNCHANGED <<ios, attached, pairingCode, faults>>

(* decryptPayload refuses a frame sealed under any other key.              *)
MacRecvUndecryptable ==
  /\ agent.up /\ toMac # <<>> /\ Head(toMac).type = "sessionReady"
  /\ Head(toMac).key # agent.crypto
  /\ toMac' = Tail(toMac)
  /\ UNCHANGED <<agent, ios, attached, toIos, pairingCode, faults>>

MacRecvSessionReady ==
  /\ agent.up /\ toMac # <<>> /\ Head(toMac).type = "sessionReady"
  /\ Head(toMac).key = agent.crypto
  /\ toMac' = Tail(toMac)
  /\ \/ /\ Confirmed(agent)
        /\ agent' = AfterConfirm(agent)
        /\ UNCHANGED faults
     \/ /\ ~Confirmed(agent)
        /\ agent' = ResetSession(agent)
        /\ UNCHANGED faults
     \/ /\ Confirmed(agent) /\ NeedsSave(agent)
        /\ Fault("saveFails")
        /\ agent' = ResetSession(agent)
  /\ UNCHANGED <<ios, attached, toIos, pairingCode>>

(* CLIENT_STATE, whenever the phone's app state changes: the peer's push   *)
(* registration is saved.                                                  *)
MacRecvClientState ==
  /\ agent.ready
  /\ agent' = SavesPeer(agent)
  /\ UNCHANGED <<ios, attached, toMac, toIos, pairingCode, faults>>

(* Clocks: the provisional identity's 60 s, the lockout's 60 s, the code's *)
(* ten minutes (the ticker shows a new code when the old one expires).     *)
PendingPairExpires ==
  /\ agent.pending # None /\ ~agent.stale
  /\ Fault("claimExpires")
  /\ agent' = [agent EXCEPT !.stale = TRUE]
  /\ UNCHANGED <<ios, attached, toMac, toIos, pairingCode>>

LockoutEnds ==
  /\ agent.locked
  /\ agent' = [agent EXCEPT !.locked = FALSE]
  /\ UNCHANGED <<ios, attached, toMac, toIos, pairingCode, faults>>

RefreshPairingCode ==
  /\ MayShowCode
  /\ pairingCode' = pairingCode + 1
  /\ UNCHANGED <<agent, ios, attached, toMac, toIos, faults>>

--------------------------------------------------------------------------------
(* A new iOS socket replaces the attached one; frames already handed to    *)
(* the old socket are lost, later ones reach the new phone.                *)
Connects(p, s) ==
  /\ ios' = [ios EXCEPT ![p] = StartConnection(s)]
  /\ attached' = p
  /\ \E k \in 0..Len(toIos) : toIos' = SubSeq(toIos, k + 1, Len(toIos))
  /\ UNCHANGED <<agent, toMac, pairingCode, faults>>

(* The user scans the QR code; or, already paired, opens the app or taps an*)
(* alert, and connectIfNeeded reuses the stored pairing.                   *)
UserConnects(p) ==
  /\ ~ios[p].open /\ ~ios[p].reconnect
  /\ \E c \in {pairingCode} \cup (IF ios[p].trusted THEN {ios[p].code} ELSE {}) :
       Connects(p, [ios[p] EXCEPT !.code = c, !.backoff = 0])

Reconnects(p) ==
  /\ ios[p].reconnect
  /\ Connects(p, ios[p])

(* The socket fails, or the relay closed it for a newer one.               *)
PhoneDrops(p) ==
  /\ ios[p].open
  /\ \/ attached # p /\ UNCHANGED faults
     \/ attached = p /\ Fault("phoneDrop")
  /\ ios' = [ios EXCEPT ![p] = HandleDisconnect(@)]
  /\ Detach(p)
  /\ UNCHANGED <<agent, toMac, toIos, pairingCode>>

(* One turn of the retry loop: HELLO, then PAIR_REQUEST when needed.       *)
HandshakeRetry(p) ==
  LET s == ios[p] IN
  /\ s.open /\ s.retry /\ ~s.connected /\ s.attempt < MaxAttempts
  /\ Len(toMac) + Len(toIos) < MaxInFlight
  /\ \E n \in IF s.nonceIOS = None THEN MintIOS(p) ELSE {s.nonceIOS} :
       /\ ios' = [ios EXCEPT ![p].nonceIOS = n, ![p].attempt = @ + 1]
       /\ PhoneSends(p, <<IosHello(p, n)>> \o
            (IF ShouldSendPairRequest(s) THEN <<PairRequest(p, s.code)>> ELSE <<>>))
  /\ UNCHANGED <<agent, attached, toIos, pairingCode, faults>>

(* The timeout follows the last retry.  Firing while an answer is still on *)
(* its way counts as a fault: twelve seconds are long against a round trip.*)
HandshakeTimeout(p) ==
  /\ ios[p].open /\ ios[p].retry /\ ~ios[p].connected /\ ios[p].attempt = MaxAttempts
  /\ \/ toMac = <<>> /\ toIos = <<>> /\ UNCHANGED faults
     \/ toMac \o toIos # <<>> /\ Fault("earlyTimeout")
  /\ ios' = [ios EXCEPT ![p] = HandleDisconnect(@)]
  /\ Detach(p)
  /\ UNCHANGED <<agent, toMac, toIos, pairingCode>>

PhoneReceives(p, type) ==
  /\ attached = p /\ ios[p].open
  /\ toIos # <<>> /\ Head(toIos).type = type
  /\ toIos' = Tail(toIos)
  /\ UNCHANGED <<agent, pairingCode, faults>>

(* What follows a guard verdict: re-key in place, or give the socket up.   *)
Rehandshakes(p, s, verdict, n) ==
  CASE verdict = "resetSession" -> BeginHandshakeRecovery(ResetForRehandshake(s, n))
    [] verdict = "escalate"     -> HandleDisconnect(ResetForRehandshake(s, n))
    [] OTHER                    -> s

PhoneRecvHello(p) ==
  /\ PhoneReceives(p, "hello")
  /\ \E n \in MintIOS(p), kept \in InWindow(ios[p].guard) :
       LET s == ios[p]
           r == EvaluateHello(s.guard, Head(toIos).nonce, s.crypto # None, kept)
           t == Rehandshakes(p, [s EXCEPT !.guard = r.guard], r.verdict, n)
           u == [t EXCEPT !.nonceMac = Head(toIos).nonce]
           v == EstablishIfPossible(u, p)
       IN IF r.verdict = "escalate"
            THEN /\ ios' = [ios EXCEPT ![p] = t]
                 /\ Detach(p)
                 /\ UNCHANGED toMac
            ELSE /\ ios' = [ios EXCEPT ![p] = v]
                 /\ PhoneSends(p,
                      (IF r.verdict = "resetSession" THEN <<IosHello(p, n)>> ELSE <<>>)
                      \o OptimisticReady(u, v))
                 /\ UNCHANGED attached

PhoneRecvPairAccept(p) ==
  /\ PhoneReceives(p, "pairAccept")
  /\ LET s == [ios[p] EXCEPT !.pairAccepted = TRUE, !.trusted = TRUE]
         t == EstablishIfPossible(s, p)
     IN /\ ios' = [ios EXCEPT ![p] = EnsureHandshakeRecoveryRunning(t)]
        /\ PhoneSends(p, OptimisticReady(s, t))
  /\ UNCHANGED attached

(* endHandshakeForBrokenPairing: no reconnect, the user has to re-pair.    *)
PhoneRecvPairReject(p) ==
  /\ PhoneReceives(p, "pairReject")
  /\ ios' = [ios EXCEPT ![p] = [Closed(@) EXCEPT !.reconnect = FALSE]]
  /\ Detach(p)
  /\ UNCHANGED toMac

PhoneRecvSessionReady(p) ==
  /\ PhoneReceives(p, "sessionReady")
  /\ Head(toIos).key = ios[p].crypto
  /\ ios' = [ios EXCEPT ![p].connected = TRUE, ![p].retry = FALSE,
                        ![p].guard = NoteDecryptSuccess(@)]
  /\ PhoneSends(p, <<SessionReady(ios[p].crypto)>>)
  /\ UNCHANGED attached

PhoneRecvUndecryptable(p) ==
  /\ PhoneReceives(p, "sessionReady")
  /\ Head(toIos).key # ios[p].crypto
  /\ \E n \in MintIOS(p), kept \in InWindow(ios[p].guard) :
       LET r == NoteDecryptFailure(ios[p].guard, kept)
           t == Rehandshakes(p, [ios[p] EXCEPT !.guard = r.guard], r.verdict, n)
       IN /\ ios' = [ios EXCEPT ![p] = t]
          /\ IF r.verdict = "escalate" THEN Detach(p) ELSE UNCHANGED attached
          /\ PhoneSends(p, IF r.verdict = "resetSession" THEN <<IosHello(p, n)>> ELSE <<>>)

(* The relay keeps nothing for a peer that is not there.                   *)
RelayDropsForMac ==
  /\ ~agent.up /\ toMac # <<>>
  /\ toMac' = Tail(toMac)
  /\ UNCHANGED <<agent, ios, attached, toIos, pairingCode, faults>>

RelayDropsForPhone ==
  /\ attached = None /\ toIos # <<>>
  /\ toIos' = Tail(toIos)
  /\ UNCHANGED <<agent, ios, attached, toMac, pairingCode, faults>>

--------------------------------------------------------------------------------
MacStep ==
  \/ MacConnect \/ MacDisconnect \/ AgentRestart \/ (\E p \in Phones : Revoke(p))
  \/ MacRecvHello \/ MacRecvPairRequest \/ MacRecvUndecryptable \/ MacRecvSessionReady
  \/ MacRecvClientState
  \/ PendingPairExpires \/ LockoutEnds \/ RefreshPairingCode

PhoneStep(p) ==
  \/ UserConnects(p) \/ Reconnects(p) \/ PhoneDrops(p)
  \/ HandshakeRetry(p) \/ HandshakeTimeout(p)
  \/ PhoneRecvHello(p) \/ PhoneRecvPairAccept(p) \/ PhoneRecvPairReject(p)
  \/ PhoneRecvSessionReady(p) \/ PhoneRecvUndecryptable(p)

Next ==
  \/ MacStep
  \/ \E p \in Phones : PhoneStep(p)
  \/ RelayDropsForMac \/ RelayDropsForPhone

Spec == Init /\ [][Next]_vars

(* Both run loops keep dialling and reading, the relay keeps forwarding,   *)
(* timers fire, and the user keeps the app open.  Faults are never fair.   *)
Fairness ==
  /\ WF_vars(MacConnect)
  /\ WF_vars(MacRecvHello \/ MacRecvPairRequest \/ MacRecvUndecryptable \/ MacRecvSessionReady)
  /\ WF_vars(LockoutEnds) /\ WF_vars(agent.ending /\ AgentRestart)
  /\ WF_vars(RelayDropsForMac \/ RelayDropsForPhone)
  /\ \A p \in Phones :
       /\ WF_vars(UserConnects(p))
       /\ WF_vars(Reconnects(p))
       /\ WF_vars(HandshakeRetry(p))
       /\ WF_vars(toMac = <<>> /\ toIos = <<>> /\ HandshakeTimeout(p))
       /\ WF_vars(ios[p].open /\ attached # p /\ PhoneDrops(p))
       /\ WF_vars(PhoneRecvHello(p) \/ PhoneRecvPairAccept(p) \/ PhoneRecvPairReject(p)
                    \/ PhoneRecvSessionReady(p) \/ PhoneRecvUndecryptable(p))

FairSpec == Spec /\ Fairness

--------------------------------------------------------------------------------
(* Types.                                                                  *)
NonceOrNone == Nonces \cup {None}

AgentType ==
  [up : BOOLEAN, crypto : Keys \cup {None}, macNonce : NonceOrNone,
   iosNonce : IosNonces \cup {None}, pub : Phones \cup {None}, peer : Phones \cup {None},
   ready : BOOLEAN, pending : Phones \cup {None}, stale : BOOLEAN,
   paired : SUBSET Phones, stored : SUBSET Phones, ending : BOOLEAN,
   attempts : 0..(MaxPairFailures - 1), locked : BOOLEAN]

GuardType ==
  [maxSeq : Nat, failures : 0..(DecryptFailureThreshold - 1),
   nonce : NonceOrNone, resets : 0..MaxEpochResets]

PhoneType ==
  [open : BOOLEAN, crypto : Keys \cup {None}, nonceIOS : NonceOrNone,
   nonceMac : NonceOrNone, guard : GuardType, pairAccepted : BOOLEAN,
   connected : BOOLEAN, retry : BOOLEAN, attempt : Nat, reconnect : BOOLEAN,
   backoff : Nat, trusted : BOOLEAN, code : Nat]

ToMacFrames ==
  [type : {"hello"}, pub : Phones, nonce : Nonces]
    \cup [type : {"pairRequest"}, pub : Phones, code : Nat]
    \cup [type : {"sessionReady"}, key : Keys]

ToIosFrames ==
  [type : {"hello"}, nonce : Nonces]
    \cup [type : {"pairAccept", "pairReject"}]
    \cup [type : {"sessionReady"}, key : Keys]

(* Type invariant of the agent, the phones and the frames in flight.       *)
TypeOK ==
  /\ agent \in AgentType
  /\ ios \in [Phones -> PhoneType]
  /\ attached \in Phones \cup {None}
  /\ toMac \in Seq(ToMacFrames)
  /\ toIos \in Seq(ToIosFrames)
  /\ pairingCode \in Nat
  /\ faults \in Nat

--------------------------------------------------------------------------------
(* Properties.                                                             *)

(* A derived key always belongs to the identity the agent calls current,   *)
(* and to the two nonces it holds: no order of HELLOs and pair requests of *)
(* several phones leaves the key of one under the name of another.         *)
KeyMatchesPeer ==
  agent.crypto # None =>
    agent.crypto = Key(agent.pub, agent.macNonce, agent.iosNonce)

(* A session that forwards terminal data belongs to a device the helper    *)
(* trusts: confirmPendingPair stands before every way of becoming ready, and *)
(* no later HELLO or pair request of another phone puts an unproven        *)
(* identity, or another trusted one, in its place.                         *)
ReadyPeerIsTrusted ==
  agent.ready =>
    /\ agent.crypto # None
    /\ agent.pub \in agent.paired
    /\ agent.peer \in {None, agent.pub}

(* An identity becomes trusted only in the step that opened a frame sealed *)
(* with a key derived from that same identity; a restart, after whatever   *)
(* revocations and saves, brings in none.                                  *)
OnlyProvenTrusted ==
  [][ \A p \in agent'.paired \ agent.paired :
        /\ toMac # <<>>
        /\ Head(toMac).type = "sessionReady"
        /\ Head(toMac).key.pub = p
        /\ agent'.peer = p ]_vars

(* A phone shows "connected" only with a key; it never keeps the claim     *)
(* through a re-key, the key is made of its own current nonce, and a phone *)
(* with a socket has no reconnect scheduled that would replace it.         *)
ConnectedPhoneHasKey ==
  \A p \in Phones :
    /\ ios[p].connected => ios[p].crypto # None /\ ios[p].open
    /\ ios[p].crypto # None => ios[p].crypto.ios = IosNonce(p, ios[p].nonceIOS)
    /\ ios[p].reconnect => ~ios[p].open

(* The agent keeps the promise of PairingTrust, a session being live when  *)
(* sessionReady is set: a new identity is trusted and listed in the step   *)
(* its session goes live, trust ends only with the process, which comes    *)
(* back with what the file then lists, and two phones that fight over the  *)
(* relay never take a live session over from one another.                  *)
Trust == INSTANCE PairingTrust WITH
  Identities <- Phones, Nobody <- None,
  trusted <- agent.paired, listed <- agent.stored,
  active <- IF agent.ready THEN agent.pub ELSE None

KeepsPairingTrust == Trust!Spec

InSession(p) ==
  /\ agent.ready
  /\ ios[p].connected
  /\ agent.crypto = ios[p].crypto

(* Once faults stop, some phone and the Mac end up, and stay, in one       *)
(* confirmed session: no lost frame, re-key or restart leaves them waiting *)
(* for one another.                                                        *)
SessionRecovers == <>[](\E p \in Phones : InSession(p))

(* "changed pairing identity must wait for that peer's fresh iOS HELLO":   *)
(* a phone whose pair request the Mac accepted ends up a trusted device,   *)
(* as steps 4 to 6 of the pairing flow promise.                            *)
AcceptedPairingCompletes ==
  \A p \in Phones : ios[p].pairAccepted ~> p \in agent.paired

--------------------------------------------------------------------------------
(* The inductive strengthening behind KeyMatchesPeer, ReadyPeerIsTrusted   *)
(* and OnlyProvenTrusted.                                                  *)

IsHello(f, p)       == f.type = "hello" /\ f.pub = p
IsPairRequest(f, p) == f.type = "pairRequest" /\ f.pub = p

(* The iOS nonce the agent holds is the current identity's own.            *)
NonceOfPeer ==
  agent.pub # None /\ agent.iosNonce # None => agent.iosNonce.owner = agent.pub

(* A pair request travels right behind a HELLO of the same phone ...       *)
BehindHello(q) ==
  \A i \in 2..Len(q) : \A p \in Phones : IsPairRequest(q[i], p) => IsHello(q[i - 1], p)

PairRequestsBehindHello == BehindHello(toMac)

(* ... so it meets that phone's nonce, or none, when nobody is current.    *)
PairRequestMeetsOwnNonce ==
  \A p \in Phones :
    /\ toMac # <<>>
    /\ IsPairRequest(Head(toMac), p)
    /\ agent.pub = None
    => agent.iosNonce = None \/ agent.iosNonce.owner = p

(* The current identity is trusted, or it is the provisional one.          *)
PeerIsTrustedOrPending ==
  /\ agent.pub # None => agent.pub \in agent.paired \/ agent.pending = agent.pub
  /\ agent.peer # None => agent.peer = agent.pub /\ agent.peer \in agent.paired

(* A key exists only with everything it is derived from.                   *)
KeyHasMaterial ==
  /\ agent.crypto # None =>
       agent.pub # None /\ agent.macNonce # None /\ agent.iosNonce # None
  /\ agent.ready => agent.crypto # None /\ agent.pub \in agent.paired
  /\ ~agent.up => agent.pub = None /\ agent.iosNonce = None

(* The file lists only devices the helper trusts.                          *)
FileWithinMemory == agent.stored \subseteq agent.paired

HandshakeInv ==
  /\ TypeOK
  /\ FileWithinMemory
  /\ KeyMatchesPeer
  /\ NonceOfPeer
  /\ PairRequestsBehindHello
  /\ PairRequestMeetsOwnNonce
  /\ PeerIsTrustedOrPending
  /\ KeyHasMaterial

================================================================================
