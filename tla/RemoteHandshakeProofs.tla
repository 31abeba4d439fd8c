-------------------------- MODULE RemoteHandshakeProofs --------------------------
(***************************************************************************)
(* Machine-checked proofs about RemoteHandshake, for every set of phones,  *)
(* every nonce space and every bound.                                      *)
(***************************************************************************)
EXTENDS RemoteHandshake, TLAPS

--------------------------------------------------------------------------------
(* The replay guard returns guards: its counters stay inside their bounds. *)

(* A fresh guard (RemoteReplayGuard.reset) is a guard.                     *)
LEMMA NewGuardType == NewGuard \in GuardType
  BY GuardAssumption DEF GuardAssumption, NewGuard, GuardType, NonceOrNone

(* Clearing the counters keeps the recorded epoch resets.                  *)
LEMMA ResetCountersType ==
  ASSUME NEW g \in GuardType
  PROVE  ResetCounters(g) \in GuardType /\ ResetCounters(g).resets = g.resets
<1>1. 0 \in 0..(DecryptFailureThreshold - 1)
  BY GuardAssumption DEF GuardAssumption
<1>2. QED
  BY <1>1 DEF ResetCounters, GuardType

(* Counting one more epoch reset never exceeds MaxEpochResets.             *)
LEMMA AdmitEpochResetType ==
  ASSUME NEW g \in GuardType, NEW kept \in 0..g.resets
  PROVE  /\ AdmitEpochReset(g, kept).guard \in GuardType
         /\ AdmitEpochReset(g, kept).verdict \in {"resetSession", "escalate"}
  BY GuardAssumption DEF GuardAssumption, AdmitEpochReset, GuardType

(* A Mac HELLO leaves a guard, whatever its verdict.                       *)
LEMMA EvaluateHelloType ==
  ASSUME NEW g \in GuardType, NEW m \in Nonces, NEW hasKey \in BOOLEAN,
         NEW kept \in 0..g.resets
  PROVE  EvaluateHello(g, m, hasKey, kept).guard \in GuardType
<1>1. ResetCounters(g) \in GuardType /\ ResetCounters(g).resets = g.resets
  BY ResetCountersType
<1>2. AdmitEpochReset(ResetCounters(g), kept).guard \in GuardType
  BY <1>1, AdmitEpochResetType
<1>3. QED
  BY <1>1, <1>2 DEF EvaluateHello, AdmitEpochReset, GuardType, NonceOrNone

(* A frame that does not open leaves a guard.                              *)
LEMMA NoteDecryptFailureType ==
  ASSUME NEW g \in GuardType, NEW kept \in 0..g.resets
  PROVE  NoteDecryptFailure(g, kept).guard \in GuardType
<1>1. ResetCounters(g) \in GuardType /\ ResetCounters(g).resets = g.resets
  BY ResetCountersType
<1>2. AdmitEpochReset(ResetCounters(g), kept).guard \in GuardType
  BY <1>1, AdmitEpochResetType
<1>3. QED
  BY <1>1, <1>2, GuardAssumption DEF GuardAssumption, NoteDecryptFailure, GuardType

--------------------------------------------------------------------------------
(* Keys and nonces.                                                        *)

(* None is neither an identity, a nonce nor a key.                         *)
LEMMA NoneIsNothing ==
  None \notin Phones /\ None \notin Nonces /\ None \notin IosNonces /\ None \notin Keys
  BY HandshakeAssumption DEF HandshakeAssumption

(* A key derived from an identity and two nonces belongs to the identity.  *)
LEMMA KeyType ==
  ASSUME NEW p \in Phones, NEW m \in Nonces, NEW n \in IosNonces
  PROVE  Key(p, m, n) \in Keys /\ Key(p, m, n).pub = p
  BY DEF Key, Keys

(* A phone's nonce is tagged with the phone.                               *)
LEMMA IosNonceType ==
  ASSUME NEW p \in Phones, NEW n \in Nonces
  PROVE  IosNonce(p, n) \in IosNonces /\ IosNonce(p, n).owner = p
  BY DEF IosNonce, IosNonces

(* Freshly minted nonces are nonces.                                       *)
LEMMA MintType == MintMac \subseteq Nonces /\ \A p \in Phones : MintIOS(p) \subseteq Nonces
  BY DEF MintMac, MintIOS, Least

--------------------------------------------------------------------------------
(* The agent's operators return agents.                                    *)

(* A restarted helper with any state file is an agent.                     *)
LEMMA NewAgentType ==
  ASSUME NEW S \in SUBSET Phones
  PROVE  NewAgent(S) \in AgentType
<1>1. 0 \in 0..(MaxPairFailures - 1)
  BY HandshakeAssumption DEF HandshakeAssumption
<1>2. QED
  BY <1>1 DEF NewAgent, AgentType, NonceOrNone

(* resetSession leaves the state file and the relay socket alone.          *)
LEMMA ResetSessionType ==
  ASSUME NEW a \in AgentType
  PROVE  /\ ResetSession(a) \in AgentType
         /\ ResetSession(a).paired = a.paired
         /\ ResetSession(a).up = a.up
  BY DEF ResetSession, ResetSessionEpochState, AgentType, NonceOrNone

(* ensureMacNonce leaves the helper with a nonce.                          *)
LEMMA WithMacNonceType ==
  ASSUME NEW a \in AgentType, NEW m \in Nonces
  PROVE  WithMacNonce(a, m) \in AgentType /\ WithMacNonce(a, m).macNonce \in Nonces
  BY HandshakeAssumption DEF HandshakeAssumption, WithMacNonce, AgentType, NonceOrNone

(* Saving the state file touches nothing in memory.                        *)
LEMMA SavesPeerFields ==
  ASSUME NEW a \in AgentType
  PROVE  LET r == SavesPeer(a)
         IN /\ r \in AgentType
            /\ r.crypto = a.crypto /\ r.macNonce = a.macNonce /\ r.iosNonce = a.iosNonce
            /\ r.pub = a.pub /\ r.peer = a.peer /\ r.ready = a.ready
            /\ r.pending = a.pending /\ r.paired = a.paired /\ r.up = a.up
            /\ r.stored = a.stored \/ r.stored = a.paired
  BY DEF SavesPeer, AgentType

(* establishSession derives a key of the right type, or none.              *)
LEMMA EstablishSessionType ==
  ASSUME NEW a \in AgentType
  PROVE  /\ EstablishSession(a) \in AgentType
         /\ EstablishSession(a).macNonce = a.macNonce
<1>1. CASE a.crypto = None /\ a.macNonce # None /\ a.iosNonce # None /\ a.pub # None
  <2> DEFINE k == Key(a.pub, a.macNonce, a.iosNonce)
             b == [a EXCEPT !.crypto = k, !.ready = FALSE]
  <2>1. k \in Keys
    BY <1>1, KeyType DEF AgentType, NonceOrNone
  <2>2. EstablishSession(a) = SavesPeer(b)
    BY <1>1 DEF EstablishSession
  <2> HIDE DEF k
  <2>3. b \in AgentType /\ b.macNonce = a.macNonce
    BY <2>1 DEF AgentType
  <2> HIDE DEF b
  <2>4. QED
    BY <2>2, <2>3, SavesPeerFields
<1>2. CASE ~(a.crypto = None /\ a.macNonce # None /\ a.iosNonce # None /\ a.pub # None)
  BY <1>2 DEF EstablishSession
<1>3. QED
  BY <1>1, <1>2

(* handleHello returns an agent that has a Mac nonce.                      *)
LEMMA AfterHelloType ==
  ASSUME NEW a \in AgentType, NEW p \in Phones, NEW n \in Nonces, NEW m \in Nonces
  PROVE  AfterHello(a, p, n, m) \in AgentType /\ AfterHello(a, p, n, m).macNonce \in Nonces
<1> DEFINE nonce == IosNonce(p, n)
           b == IF p \in a.paired THEN [a EXCEPT !.pub = p, !.peer = p] ELSE a
           c == IF a.crypto # None /\ a.iosNonce # nonce
                  THEN ResetSessionEpochState([b EXCEPT !.crypto = None, !.ready = FALSE])
                  ELSE b
           d == [c EXCEPT !.iosNonce = nonce]
<1>1. nonce \in IosNonces
  BY IosNonceType
<1>2. b \in AgentType
  BY DEF AgentType
<1>3. c \in AgentType
  <2> HIDE DEF b, nonce
  <2>1. CASE a.crypto # None /\ a.iosNonce # nonce
    <3>1. c = [b EXCEPT !.crypto = None, !.ready = FALSE, !.pending = None, !.stale = FALSE]
      BY <1>2, <2>1 DEF AgentType, ResetSessionEpochState
    <3>2. QED
      BY <1>2, <3>1 DEF AgentType
  <2>2. QED
    BY <1>2, <2>1
<1>4. d \in AgentType
  BY <1>1, <1>3 DEF AgentType
<1>5. WithMacNonce(d, m) \in AgentType /\ WithMacNonce(d, m).macNonce \in Nonces
  BY <1>4, WithMacNonceType
<1>6. QED
  BY <1>5, EstablishSessionType DEF AfterHello

(* A refused pair request keeps the failure count below its limit.         *)
LEMMA AfterRefusalType ==
  ASSUME NEW a \in AgentType
  PROVE  AfterRefusal(a) \in AgentType
<1>1. 0 \in 0..(MaxPairFailures - 1)
  BY HandshakeAssumption DEF HandshakeAssumption
<1>2. a.attempts + 1 < MaxPairFailures => a.attempts + 1 \in 0..(MaxPairFailures - 1)
  BY HandshakeAssumption DEF HandshakeAssumption, AgentType
<1>3. a.attempts \in Nat /\ MaxPairFailures \in Nat
  BY HandshakeAssumption DEF HandshakeAssumption, AgentType
<1>4. CASE a.attempts + 1 >= MaxPairFailures
  <2>1. AfterRefusal(a) = [a EXCEPT !.attempts = 0, !.locked = TRUE]
    BY <1>4 DEF AfterRefusal
  <2>2. QED
    BY <1>1, <2>1 DEF AgentType
<1>5. CASE ~(a.attempts + 1 >= MaxPairFailures)
  <2>1. AfterRefusal(a) = [a EXCEPT !.attempts = a.attempts + 1]
    BY <1>5 DEF AfterRefusal
  <2>2. a.attempts + 1 \in 0..(MaxPairFailures - 1)
    BY <1>2, <1>3, <1>5
  <2>3. QED
    BY <2>1, <2>2 DEF AgentType
<1>6. QED
  BY <1>4, <1>5

(* An accepted pair request returns an agent that has a Mac nonce.         *)
LEMMA AfterPairRequestType ==
  ASSUME NEW a \in AgentType, NEW p \in Phones, NEW m \in Nonces
  PROVE  /\ AfterPairRequest(a, p, m) \in AgentType
         /\ AfterPairRequest(a, p, m).macNonce \in Nonces
<1> DEFINE b == IF a.pub # None /\ a.pub # p
                  THEN ResetSessionEpochState(
                         [a EXCEPT !.crypto = None, !.iosNonce = None, !.ready = FALSE])
                  ELSE a
           c == [b EXCEPT !.attempts = 0, !.pending = p, !.stale = FALSE,
                          !.pub = p, !.peer = None]
<1>1. b \in AgentType
  BY DEF AgentType, ResetSessionEpochState
<1>2. 0 \in 0..(MaxPairFailures - 1)
  BY HandshakeAssumption DEF HandshakeAssumption
<1> HIDE DEF b
<1>3. c \in AgentType
  BY <1>1, <1>2 DEF AgentType
<1>4. WithMacNonce(c, m) \in AgentType /\ WithMacNonce(c, m).macNonce \in Nonces
  BY <1>3, WithMacNonceType
<1>5. AfterPairRequest(a, p, m) = EstablishSession(WithMacNonce(c, m))
  BY DEF AfterPairRequest, b
<1> HIDE DEF c
<1>6. QED
  BY <1>4, <1>5, EstablishSessionType

(* SESSION_READY returns an agent.                                         *)
LEMMA AfterConfirmType ==
  ASSUME NEW a \in AgentType
  PROVE  AfterConfirm(a) \in AgentType
<1> DEFINE b == IF a.pending = None
                  THEN a
                  ELSE [a EXCEPT !.paired = @ \cup {a.pending}, !.peer = a.pending,
                                 !.stored = IF NeedsSave(a) THEN a.paired \cup {a.pending} ELSE @]
<1>1. b \in AgentType
  <2> DEFINE P == a.paired \cup {a.pending}
             F == IF NeedsSave(a) THEN P ELSE a.stored
  <2>1. CASE a.pending = None
    BY <2>1
  <2>2. CASE a.pending # None
    <3>1. a.pending \in Phones /\ P \in SUBSET Phones /\ F \in SUBSET Phones
      BY <2>2 DEF AgentType
    <3>2. b = [a EXCEPT !.paired = P, !.peer = a.pending, !.stored = F]
      BY <2>2
    <3> HIDE DEF P, F, b
    <3>3. QED
      BY <3>1, <3>2 DEF AgentType
  <2>3. QED
    BY <2>1, <2>2
<1>2. AfterConfirm(a) = [b EXCEPT !.pending = None, !.stale = FALSE, !.ready = TRUE]
  BY DEF AfterConfirm
<1> HIDE DEF b
<1>3. QED
  BY <1>1, <1>2 DEF AgentType

--------------------------------------------------------------------------------
(* The phone's operators return phones.                                    *)

(* A phone that has just been launched is a phone.                         *)
LEMMA NewPhoneType == \A p \in Phones : NewPhone(p) \in PhoneType
  BY NewGuardType DEF NewPhone, PhoneType, NonceOrNone

(* Closing the connection returns a phone.                                 *)
LEMMA ClosedType ==
  ASSUME NEW s \in PhoneType
  PROVE  Closed(s) \in PhoneType
  BY NewGuardType DEF Closed, InvalidateSession, PhoneType

(* handleDisconnect returns a phone with a larger back-off.                *)
LEMMA HandleDisconnectType ==
  ASSUME NEW s \in PhoneType
  PROVE  HandleDisconnect(s) \in PhoneType
<1>1. Closed(s) \in PhoneType
  BY ClosedType
<1>2. \A c \in PhoneType, k \in Nat : [c EXCEPT !.reconnect = TRUE, !.backoff = k] \in PhoneType
  BY DEF PhoneType
<1>3. Closed(s).backoff + 1 \in Nat
  BY <1>1 DEF PhoneType
<1>4. QED
  BY <1>1, <1>2, <1>3 DEF HandleDisconnect

(* startConnection returns a phone.                                        *)
LEMMA StartConnectionType ==
  ASSUME NEW s \in PhoneType
  PROVE  StartConnection(s) \in PhoneType
<1>1. \A c \in PhoneType : ClearHandshakeMaterial(c) \in PhoneType
  BY DEF ClearHandshakeMaterial, PhoneType, NonceOrNone
<1>2. \A c \in PhoneType :
        [c EXCEPT !.reconnect = FALSE, !.open = TRUE, !.retry = TRUE, !.attempt = 0] \in PhoneType
  BY DEF PhoneType
<1>3. QED
  BY <1>1, <1>2, ClosedType DEF StartConnection

(* Starting the handshake recovery returns a phone.                        *)
LEMMA RecoveryType ==
  ASSUME NEW s \in PhoneType
  PROVE  /\ EnsureHandshakeRecoveryRunning(s) \in PhoneType
         /\ BeginHandshakeRecovery(s) \in PhoneType
<1>1. \A c \in PhoneType : EnsureHandshakeRecoveryRunning(c) \in PhoneType
  BY DEF EnsureHandshakeRecoveryRunning, PhoneType
<1>2. [s EXCEPT !.connected = FALSE] \in PhoneType
  BY DEF PhoneType
<1>3. QED
  BY <1>1, <1>2 DEF BeginHandshakeRecovery

(* An in-place re-key returns a phone with a fresh nonce.                  *)
LEMMA ResetForRehandshakeType ==
  ASSUME NEW s \in PhoneType, NEW n \in Nonces
  PROVE  ResetForRehandshake(s, n) \in PhoneType
  BY NewGuardType DEF ResetForRehandshake, PhoneType, NonceOrNone

(* Carrying out any verdict of the guard returns a phone.                  *)
LEMMA RehandshakesType ==
  ASSUME NEW p, NEW s \in PhoneType, NEW v, NEW n \in Nonces
  PROVE  Rehandshakes(p, s, v, n) \in PhoneType
<1>1. ResetForRehandshake(s, n) \in PhoneType
  BY ResetForRehandshakeType
<1>2. QED
  BY <1>1, RecoveryType, HandleDisconnectType DEF Rehandshakes

(* With both nonces at hand the phone derives a key.                       *)
LEMMA EstablishIfPossibleType ==
  ASSUME NEW p \in Phones, NEW s \in PhoneType
  PROVE  /\ EstablishIfPossible(s, p) \in PhoneType
         /\ CanDerive(s) => EstablishIfPossible(s, p).crypto \in Keys
<1>1. CASE CanDerive(s)
  <2> DEFINE k == Key(p, s.nonceMac, IosNonce(p, s.nonceIOS))
  <2>1. s.nonceMac \in Nonces /\ s.nonceIOS \in Nonces
    BY <1>1 DEF CanDerive, PhoneType, NonceOrNone
  <2>2. k \in Keys
    BY <2>1, KeyType, IosNonceType
  <2> HIDE DEF k
  <2>3. [s EXCEPT !.crypto = k, !.backoff = 0] \in PhoneType
    BY <2>2 DEF PhoneType
  <2>4. [s EXCEPT !.crypto = k, !.backoff = 0].crypto = k
    BY DEF PhoneType
  <2>5. \A c \in PhoneType : EnsureHandshakeRecoveryRunning(c).crypto = c.crypto
    BY DEF EnsureHandshakeRecoveryRunning, PhoneType
  <2>6. EstablishIfPossible(s, p) =
          EnsureHandshakeRecoveryRunning([s EXCEPT !.crypto = k, !.backoff = 0])
    BY <1>1 DEF EstablishIfPossible, k
  <2>7. QED
    BY <2>2, <2>3, <2>4, <2>5, <2>6, RecoveryType
<1>2. CASE ~CanDerive(s)
  BY <1>2 DEF EstablishIfPossible
<1>3. QED
  BY <1>1, <1>2

(* A frame that opens clears the counters of the guard.                    *)
LEMMA NoteDecryptSuccessType ==
  ASSUME NEW g \in GuardType
  PROVE  NoteDecryptSuccess(g) \in GuardType
<1>1. 0 \in 0..(DecryptFailureThreshold - 1) /\ 0 \in 0..MaxEpochResets
  BY GuardAssumption DEF GuardAssumption
<1>2. QED
  BY <1>1 DEF NoteDecryptSuccess, GuardType

(* The window keeps no more resets than were recorded.                     *)
LEMMA InWindowType == \A g \in GuardType : InWindow(g) \subseteq 0..g.resets
  BY DEF InWindow, GuardType

--------------------------------------------------------------------------------
(* Frames.                                                                 *)

(* Every frame either side builds is a frame of its channel.               *)
LEMMA FrameTypes ==
  /\ \A p \in Phones, n \in Nonces : IosHello(p, n) \in ToMacFrames
  /\ \A p \in Phones, c \in Nat : PairRequest(p, c) \in ToMacFrames
  /\ \A k \in Keys : SessionReady(k) \in ToMacFrames /\ SessionReady(k) \in ToIosFrames
  /\ \A n \in Nonces : MacHello(n) \in ToIosFrames
  /\ PairAccept \in ToIosFrames /\ PairReject \in ToIosFrames
  BY DEF IosHello, PairRequest, SessionReady, MacHello, PairAccept, PairReject,
         ToMacFrames, ToIosFrames

(* What the helper reads from a frame of each type.                        *)
LEMMA ToMacFields ==
  ASSUME NEW f \in ToMacFrames
  PROVE  /\ f.type = "hello" => f.pub \in Phones /\ f.nonce \in Nonces
         /\ f.type = "pairRequest" => f.pub \in Phones /\ f.code \in Nat
         /\ f.type = "sessionReady" => f.key \in Keys
  BY DEF ToMacFrames

(* What the phone reads from a frame of each type.                         *)
LEMMA ToIosFields ==
  ASSUME NEW f \in ToIosFrames
  PROVE  /\ f.type = "hello" => f.nonce \in Nonces
         /\ f.type = "sessionReady" => f.key \in Keys
  BY DEF ToIosFrames

(* The helper's SESSION_READY is a frame for the phone.                    *)
LEMMA ReadyFramesType ==
  ASSUME NEW a \in AgentType
  PROVE  ReadyFrames(a) \in Seq(ToIosFrames)
  BY FrameTypes DEF ReadyFrames, AgentType

(* The phone's SESSION_READY is a frame for the helper.                    *)
LEMMA OptimisticReadyType ==
  ASSUME NEW s, NEW t, CanDerive(s) => t.crypto \in Keys
  PROVE  OptimisticReady(s, t) \in Seq(ToMacFrames)
  BY FrameTypes DEF OptimisticReady

--------------------------------------------------------------------------------
(* Every action keeps the types.                                           *)

(* Taking the first frame leaves a channel.                                *)
LEMMA ChannelTypes ==
  ASSUME TypeOK
  PROVE  /\ toMac # <<>> => Head(toMac) \in ToMacFrames /\ Tail(toMac) \in Seq(ToMacFrames)
         /\ toIos # <<>> => Head(toIos) \in ToIosFrames /\ Tail(toIos) \in Seq(ToIosFrames)
  BY DEF TypeOK

(* A phone's send leaves a channel.                                        *)
LEMMA PhoneSendsType ==
  ASSUME TypeOK, NEW p, NEW out \in Seq(ToMacFrames), PhoneSends(p, out)
  PROVE  toMac' \in Seq(ToMacFrames)
  BY DEF TypeOK, PhoneSends

(* At most one phone is attached after one leaves.                         *)
LEMMA DetachType ==
  ASSUME TypeOK, NEW p \in Phones, Detach(p)
  PROVE  attached' \in Phones \cup {None}
  BY DEF TypeOK, Detach

(* Every step of the helper keeps the types.                               *)
LEMMA MacStepType ==
  ASSUME TypeOK, MacStep
  PROVE  TypeOK'
<1> USE DEF TypeOK
<1>1. CASE MacConnect
  <2> DEFINE a == [ResetSession(agent) EXCEPT !.up = TRUE]
  <2>1. PICK m \in MintMac :
          \/ /\ agent' = [a EXCEPT !.macNonce = m]
             /\ toIos' = Append(toIos, MacHello(m))
          \/ agent' = a /\ UNCHANGED toIos
    BY <1>1 DEF MacConnect
  <2>2. m \in Nonces
    BY MintType
  <2>3. \A b \in AgentType : /\ [b EXCEPT !.up = TRUE] \in AgentType
                             /\ [b EXCEPT !.macNonce = m] \in AgentType
    BY <2>2 DEF AgentType, NonceOrNone
  <2>4. a \in AgentType
    BY <2>3, ResetSessionType
  <2>5. MacHello(m) \in ToIosFrames
    BY <2>2, FrameTypes
  <2> HIDE DEF a
  <2>6. agent' \in AgentType
    BY <2>1, <2>3, <2>4
  <2>7. toIos' \in Seq(ToIosFrames)
    BY <2>1, <2>5
  <2>8. QED
    BY <1>1, <2>6, <2>7 DEF MacConnect
<1>2. CASE MacDisconnect
  <2>1. \A a \in AgentType : [a EXCEPT !.up = FALSE] \in AgentType
    BY DEF AgentType
  <2>2. agent' \in AgentType
    BY <1>2, <2>1, ResetSessionType DEF MacDisconnect
  <2>3. QED
    BY <1>2, <2>2 DEF MacDisconnect, Fault
<1>3. CASE AgentRestart
  <2>1. agent.stored \in SUBSET Phones
    BY DEF AgentType
  <2>2. agent' \in AgentType
    BY <1>3, <2>1, NewAgentType DEF AgentRestart
  <2>3. QED
    BY <1>3, <2>2 DEF AgentRestart, Fault
<1>4. CASE MacRecvHello
  <2>1. Head(toMac).pub \in Phones /\ Head(toMac).nonce \in Nonces
    BY <1>4, ChannelTypes, ToMacFields DEF MacRecvHello
  <2>2. toMac' \in Seq(ToMacFrames)
    BY <1>4, ChannelTypes DEF MacRecvHello
  <2>3. CASE IgnoresHello(agent, Head(toMac).pub)
    BY <1>4, <2>2, <2>3 DEF MacRecvHello
  <2>4. CASE ~IgnoresHello(agent, Head(toMac).pub)
    <3>1. PICK m \in MintMac :
            LET a == AfterHello(agent, Head(toMac).pub, Head(toMac).nonce, m)
            IN /\ agent' = a
               /\ toIos' = toIos \o <<MacHello(a.macNonce)>> \o ReadyFrames(a)
      BY <1>4, <2>4 DEF MacRecvHello
    <3>2. agent' \in AgentType /\ agent'.macNonce \in Nonces
      BY <2>1, <3>1, MintType, AfterHelloType
    <3>3. MacHello(agent'.macNonce) \in ToIosFrames /\ ReadyFrames(agent') \in Seq(ToIosFrames)
      BY <3>2, FrameTypes, ReadyFramesType
    <3>4. toIos' = toIos \o <<MacHello(agent'.macNonce)>> \o ReadyFrames(agent')
      BY <3>1
    <3>5. toIos' \in Seq(ToIosFrames)
      BY <3>3, <3>4
    <3>6. QED
      BY <1>4, <2>2, <3>2, <3>5 DEF MacRecvHello
  <2>5. QED
    BY <2>3, <2>4
<1>5. CASE MacRecvPairRequest
  <2>1. Head(toMac).pub \in Phones
    BY <1>5, ChannelTypes, ToMacFields DEF MacRecvPairRequest
  <2>2. toMac' \in Seq(ToMacFrames)
    BY <1>5, ChannelTypes DEF MacRecvPairRequest
  <2>3. CASE UNCHANGED agent /\ toIos' = Append(toIos, PairReject)
    BY <1>5, <2>2, <2>3, FrameTypes DEF MacRecvPairRequest
  <2>4. CASE agent' = AfterRefusal(agent) /\ toIos' = Append(toIos, PairReject)
    BY <1>5, <2>2, <2>4, FrameTypes, AfterRefusalType DEF MacRecvPairRequest
  <2>5. CASE \E m \in MintMac :
               LET a == AfterPairRequest(agent, Head(toMac).pub, m)
               IN /\ agent' = a
                  /\ toIos' = toIos \o <<PairAccept, MacHello(a.macNonce)>> \o ReadyFrames(a)
    <3>1. PICK m \in MintMac :
            LET a == AfterPairRequest(agent, Head(toMac).pub, m)
            IN /\ agent' = a
               /\ toIos' = toIos \o <<PairAccept, MacHello(a.macNonce)>> \o ReadyFrames(a)
      BY <2>5
    <3>2. agent' \in AgentType /\ agent'.macNonce \in Nonces
      BY <2>1, <3>1, MintType, AfterPairRequestType
    <3>3. /\ MacHello(agent'.macNonce) \in ToIosFrames
          /\ PairAccept \in ToIosFrames
          /\ ReadyFrames(agent') \in Seq(ToIosFrames)
      BY <3>2, FrameTypes, ReadyFramesType
    <3>4. toIos' = toIos \o <<PairAccept, MacHello(agent'.macNonce)>> \o ReadyFrames(agent')
      BY <3>1
    <3>5. toIos' \in Seq(ToIosFrames)
      BY <3>3, <3>4
    <3>6. QED
      BY <1>5, <2>2, <3>2, <3>5 DEF MacRecvPairRequest
  <2>6. QED
    BY <1>5, <2>3, <2>4, <2>5 DEF MacRecvPairRequest
<1>6. CASE MacRecvUndecryptable
  BY <1>6, ChannelTypes DEF MacRecvUndecryptable
<1>7. CASE MacRecvSessionReady
  <2>1. agent' \in AgentType
    BY <1>7, AfterConfirmType, ResetSessionType DEF MacRecvSessionReady
  <2>2. QED
    BY <1>7, <2>1, ChannelTypes DEF MacRecvSessionReady, Fault
<1>8. CASE PendingPairExpires
  <2>1. agent' \in AgentType
    BY <1>8 DEF PendingPairExpires, AgentType
  <2>2. QED
    BY <1>8, <2>1 DEF PendingPairExpires, Fault
<1>9. CASE LockoutEnds
  <2>1. agent' \in AgentType
    BY <1>9 DEF LockoutEnds, AgentType
  <2>2. QED
    BY <1>9, <2>1 DEF LockoutEnds
<1>10. CASE RefreshPairingCode
  BY <1>10 DEF RefreshPairingCode
<1>11. CASE \E p \in Phones : Revoke(p)
  <2>1. agent' \in AgentType
    BY <1>11 DEF Revoke, AgentType
  <2>2. QED
    BY <1>11, <2>1 DEF Revoke, Fault
<1>12. CASE MacRecvClientState
  <2>1. agent' \in AgentType
    BY <1>12, SavesPeerFields DEF MacRecvClientState
  <2>2. QED
    BY <1>12, <2>1 DEF MacRecvClientState
<1>13. QED
  BY <1>1, <1>2, <1>3, <1>4, <1>5, <1>6, <1>7, <1>8, <1>9, <1>10, <1>11, <1>12, MacStep
     DEF MacStep

(* The phone a Mac HELLO leaves behind, after the guard's verdict and the  *)
(* attempt to derive a key.                                                *)
LEMMA PhoneHelloType ==
  ASSUME TypeOK, NEW p \in Phones, PhoneReceives(p, "hello"),
         NEW n \in MintIOS(p), NEW kept \in InWindow(ios[p].guard)
  PROVE  LET r == EvaluateHello(ios[p].guard, Head(toIos).nonce, ios[p].crypto # None, kept)
             t == Rehandshakes(p, [ios[p] EXCEPT !.guard = r.guard], r.verdict, n)
             u == [t EXCEPT !.nonceMac = Head(toIos).nonce]
             v == EstablishIfPossible(u, p)
         IN t \in PhoneType /\ v \in PhoneType /\ (CanDerive(u) => v.crypto \in Keys)
<1> DEFINE r == EvaluateHello(ios[p].guard, Head(toIos).nonce, ios[p].crypto # None, kept)
           t == Rehandshakes(p, [ios[p] EXCEPT !.guard = r.guard], r.verdict, n)
           u == [t EXCEPT !.nonceMac = Head(toIos).nonce]
           v == EstablishIfPossible(u, p)
<1>1. ios[p] \in PhoneType
  BY DEF TypeOK
<1>2. n \in Nonces /\ Head(toIos).nonce \in Nonces /\ kept \in 0..ios[p].guard.resets
  BY <1>1, MintType, ChannelTypes, ToIosFields, InWindowType DEF PhoneReceives, PhoneType
<1>3. r.guard \in GuardType
  BY <1>1, <1>2, EvaluateHelloType DEF PhoneType
<1>4. t \in PhoneType
  <2>1. \A g \in GuardType : [ios[p] EXCEPT !.guard = g] \in PhoneType
    BY <1>1 DEF PhoneType
  <2>2. QED
    BY <1>2, <1>3, <2>1, RehandshakesType
<1>5. u \in PhoneType
  <2> HIDE DEF t
  <2>1. QED
    BY <1>2, <1>4 DEF PhoneType, NonceOrNone
<1>6. v \in PhoneType /\ (CanDerive(u) => v.crypto \in Keys)
  <2> HIDE DEF u
  <2>1. QED
    BY <1>5, EstablishIfPossibleType
<1>7. QED
  BY <1>4, <1>6

(* Every step of a phone keeps the types.                                  *)
LEMMA PhoneStepType ==
  ASSUME TypeOK, NEW p \in Phones, PhoneStep(p)
  PROVE  TypeOK'
<1> USE DEF TypeOK
<1>0. /\ ios[p] \in PhoneType
      /\ \A s \in PhoneType : [ios EXCEPT ![p] = s] \in [Phones -> PhoneType]
  OBVIOUS
<1>1. ASSUME NEW s \in PhoneType, Connects(p, s)
      PROVE  TypeOK'
  <2>1. ios' \in [Phones -> PhoneType]
    BY <1>0, <1>1, StartConnectionType DEF Connects
  <2>2. toIos' \in Seq(ToIosFrames)
    <3>1. PICK k \in 0..Len(toIos) : toIos' = SubSeq(toIos, k + 1, Len(toIos))
      BY <1>1 DEF Connects
    <3>2. QED
      BY <3>1
  <2>3. QED
    BY <1>1, <2>1, <2>2 DEF Connects
<1>2. CASE UserConnects(p)
  <2>1. PICK c \in {pairingCode} \cup (IF ios[p].trusted THEN {ios[p].code} ELSE {}) :
          Connects(p, [ios[p] EXCEPT !.code = c, !.backoff = 0])
    BY <1>2 DEF UserConnects
  <2>2. c \in Nat
    BY <1>0 DEF PhoneType
  <2>3. [ios[p] EXCEPT !.code = c, !.backoff = 0] \in PhoneType
    BY <1>0, <2>2 DEF PhoneType
  <2>4. QED
    BY <1>1, <2>1, <2>3
<1>3. CASE Reconnects(p)
  BY <1>0, <1>1, <1>3 DEF Reconnects
<1>4. CASE PhoneDrops(p)
  <2>1. ios' \in [Phones -> PhoneType]
    BY <1>0, <1>4, HandleDisconnectType DEF PhoneDrops
  <2>2. QED
    BY <1>4, <2>1, DetachType DEF PhoneDrops, Fault
<1>5. CASE HandshakeRetry(p)
  <2>1. PICK n \in IF ios[p].nonceIOS = None THEN MintIOS(p) ELSE {ios[p].nonceIOS} :
          /\ ios' = [ios EXCEPT ![p].nonceIOS = n, ![p].attempt = @ + 1]
          /\ PhoneSends(p, <<IosHello(p, n)>> \o
               (IF ShouldSendPairRequest(ios[p]) THEN <<PairRequest(p, ios[p].code)>> ELSE <<>>))
    BY <1>5 DEF HandshakeRetry
  <2>2. n \in Nonces
    BY <1>0, MintType DEF PhoneType, NonceOrNone
  <2>3. ios[p].attempt + 1 \in Nat /\ ios[p].code \in Nat
    BY <1>0 DEF PhoneType
  <2>4. [ios[p] EXCEPT !.nonceIOS = n, !.attempt = ios[p].attempt + 1] \in PhoneType
    BY <1>0, <2>2, <2>3 DEF PhoneType, NonceOrNone
  <2>5. ios' = [ios EXCEPT ![p] = [ios[p] EXCEPT !.nonceIOS = n, !.attempt = ios[p].attempt + 1]]
    BY <1>0, <2>1 DEF PhoneType
  <2>6. ios' \in [Phones -> PhoneType]
    BY <1>0, <2>4, <2>5
  <2>7. IosHello(p, n) \in ToMacFrames /\ PairRequest(p, ios[p].code) \in ToMacFrames
    BY <2>2, <2>3, FrameTypes
  <2>8. toMac' \in Seq(ToMacFrames)
    <3>1. <<IosHello(p, n)>> \o
            (IF ShouldSendPairRequest(ios[p]) THEN <<PairRequest(p, ios[p].code)>> ELSE <<>>)
              \in Seq(ToMacFrames)
      BY <2>7
    <3>2. QED
      BY <2>1, <3>1, PhoneSendsType
  <2>9. QED
    BY <1>5, <2>6, <2>8 DEF HandshakeRetry
<1>6. CASE HandshakeTimeout(p)
  <2>1. ios' \in [Phones -> PhoneType]
    BY <1>0, <1>6, HandleDisconnectType DEF HandshakeTimeout
  <2>2. QED
    BY <1>6, <2>1, DetachType DEF HandshakeTimeout, Fault
<1>7. CASE PhoneRecvHello(p)
  <2>1. PICK n \in MintIOS(p), kept \in InWindow(ios[p].guard) :
          LET s == ios[p]
              r == EvaluateHello(s.guard, Head(toIos).nonce, s.crypto # None, kept)
              t == Rehandshakes(p, [s EXCEPT !.guard = r.guard], r.verdict, n)
              u == [t EXCEPT !.nonceMac = Head(toIos).nonce]
              v == EstablishIfPossible(u, p)
          IN IF r.verdict = "escalate"
               THEN /\ ios' = [ios EXCEPT ![p] = t]
                    /\ Detach(p)
                    /\ UNCHANGED toMac
               ELSE /\ ios' = [ios EXCEPT ![p] = v]
                    /\ PhoneSends(p,
                         (IF r.verdict = "resetSession" THEN <<IosHello(p, n)>> ELSE <<>>)
                         \o OptimisticReady(u, v))
                    /\ UNCHANGED attached
    BY <1>7 DEF PhoneRecvHello
  <2> DEFINE r == EvaluateHello(ios[p].guard, Head(toIos).nonce, ios[p].crypto # None, kept)
             t == Rehandshakes(p, [ios[p] EXCEPT !.guard = r.guard], r.verdict, n)
             u == [t EXCEPT !.nonceMac = Head(toIos).nonce]
             v == EstablishIfPossible(u, p)
  <2>2. n \in Nonces
    BY MintType
  <2>7. t \in PhoneType /\ v \in PhoneType /\ (CanDerive(u) => v.crypto \in Keys)
    BY <1>7, PhoneHelloType DEF PhoneRecvHello
  <2>8. OptimisticReady(u, v) \in Seq(ToMacFrames) /\ IosHello(p, n) \in ToMacFrames
    <3> HIDE DEF u, v
    <3>1. QED
      BY <2>2, <2>7, OptimisticReadyType, FrameTypes
  <2>9. \/ ios' = [ios EXCEPT ![p] = t] /\ Detach(p) /\ UNCHANGED toMac
        \/ /\ ios' = [ios EXCEPT ![p] = v]
           /\ PhoneSends(p, (IF r.verdict = "resetSession" THEN <<IosHello(p, n)>> ELSE <<>>)
                              \o OptimisticReady(u, v))
           /\ UNCHANGED attached
    BY <2>1
  <2>10. ASSUME NEW out \in Seq(ToMacFrames)
         PROVE  (IF r.verdict = "resetSession" THEN <<IosHello(p, n)>> ELSE <<>>) \o out
                  \in Seq(ToMacFrames)
    <3> HIDE DEF r
    <3>1. QED
      BY <2>8, <2>10
  <2> HIDE DEF r, t, u, v
  <2>11. ios' \in [Phones -> PhoneType] /\ attached' \in Phones \cup {None}
    BY <1>0, <2>7, <2>9, DetachType
  <2>12. toMac' \in Seq(ToMacFrames)
    BY <2>8, <2>9, <2>10, PhoneSendsType
  <2>13. QED
    BY <1>7, <2>11, <2>12, ChannelTypes DEF PhoneRecvHello, PhoneReceives
<1>8. CASE PhoneRecvPairAccept(p)
  <2> DEFINE s == [ios[p] EXCEPT !.pairAccepted = TRUE, !.trusted = TRUE]
             t == EstablishIfPossible(s, p)
  <2>1. s \in PhoneType
    BY <1>0 DEF PhoneType
  <2>2. /\ ios' = [ios EXCEPT ![p] = EnsureHandshakeRecoveryRunning(t)]
        /\ PhoneSends(p, OptimisticReady(s, t))
    BY <1>8 DEF PhoneRecvPairAccept
  <2> HIDE DEF s
  <2>3. t \in PhoneType /\ (CanDerive(s) => t.crypto \in Keys)
    BY <2>1, EstablishIfPossibleType
  <2> HIDE DEF t
  <2>4. ios' \in [Phones -> PhoneType]
    BY <1>0, <2>2, <2>3, RecoveryType
  <2>5. toMac' \in Seq(ToMacFrames)
    BY <2>2, <2>3, OptimisticReadyType, PhoneSendsType
  <2>6. QED
    BY <1>8, <2>4, <2>5, ChannelTypes DEF PhoneRecvPairAccept, PhoneReceives
<1>9. CASE PhoneRecvPairReject(p)
  <2>1. \A s \in PhoneType : [s EXCEPT !.reconnect = FALSE] \in PhoneType
    BY DEF PhoneType
  <2>2. ios' \in [Phones -> PhoneType]
    BY <1>0, <1>9, <2>1, ClosedType DEF PhoneRecvPairReject
  <2>3. QED
    BY <1>9, <2>2, ChannelTypes, DetachType DEF PhoneRecvPairReject, PhoneReceives
<1>10. CASE PhoneRecvSessionReady(p)
  <2> DEFINE s == [ios[p] EXCEPT !.connected = TRUE, !.retry = FALSE,
                                 !.guard = NoteDecryptSuccess(ios[p].guard)]
  <2>1. ios[p].guard \in GuardType
    BY <1>0 DEF PhoneType
  <2>2. \A g \in GuardType :
          [ios[p] EXCEPT !.connected = TRUE, !.retry = FALSE, !.guard = g] \in PhoneType
    BY <1>0 DEF PhoneType
  <2>3. s \in PhoneType
    BY <2>1, <2>2, NoteDecryptSuccessType
  <2>4. ios' = [ios EXCEPT ![p] = s]
    BY <1>0, <1>10 DEF PhoneRecvSessionReady, PhoneType
  <2>5. ios' \in [Phones -> PhoneType]
    BY <1>0, <2>3, <2>4
  <2>6. ios[p].crypto \in Keys
    BY <1>10, ChannelTypes, ToIosFields DEF PhoneRecvSessionReady, PhoneReceives
  <2>7. toMac' \in Seq(ToMacFrames)
    <3>1. <<SessionReady(ios[p].crypto)>> \in Seq(ToMacFrames)
      BY <2>6, FrameTypes
    <3>2. QED
      BY <1>10, <3>1, PhoneSendsType DEF PhoneRecvSessionReady
  <2>8. QED
    BY <1>10, <2>5, <2>7, ChannelTypes DEF PhoneRecvSessionReady, PhoneReceives
<1>11. CASE PhoneRecvUndecryptable(p)
  <2>1. PICK n \in MintIOS(p), kept \in InWindow(ios[p].guard) :
          LET r == NoteDecryptFailure(ios[p].guard, kept)
              t == Rehandshakes(p, [ios[p] EXCEPT !.guard = r.guard], r.verdict, n)
          IN /\ ios' = [ios EXCEPT ![p] = t]
             /\ IF r.verdict = "escalate" THEN Detach(p) ELSE UNCHANGED attached
             /\ PhoneSends(p, IF r.verdict = "resetSession" THEN <<IosHello(p, n)>> ELSE <<>>)
    BY <1>11 DEF PhoneRecvUndecryptable
  <2> DEFINE r == NoteDecryptFailure(ios[p].guard, kept)
             t == Rehandshakes(p, [ios[p] EXCEPT !.guard = r.guard], r.verdict, n)
  <2>2. n \in Nonces /\ kept \in 0..ios[p].guard.resets /\ ios[p].guard \in GuardType
    BY <1>0, MintType, InWindowType DEF PhoneType
  <2>3. r.guard \in GuardType
    BY <2>2, NoteDecryptFailureType
  <2>4. \A g \in GuardType : [ios[p] EXCEPT !.guard = g] \in PhoneType
    BY <1>0 DEF PhoneType
  <2>5. t \in PhoneType
    BY <2>2, <2>3, <2>4, RehandshakesType
  <2>6. /\ ios' = [ios EXCEPT ![p] = t]
        /\ Detach(p) \/ UNCHANGED attached
        /\ PhoneSends(p, <<IosHello(p, n)>>) \/ PhoneSends(p, <<>>)
    BY <2>1
  <2> HIDE DEF r, t
  <2>7. ios' \in [Phones -> PhoneType] /\ attached' \in Phones \cup {None}
    BY <1>0, <2>5, <2>6, DetachType
  <2>8. toMac' \in Seq(ToMacFrames)
    <3>1. <<IosHello(p, n)>> \in Seq(ToMacFrames) /\ <<>> \in Seq(ToMacFrames)
      BY <2>2, FrameTypes
    <3>2. QED
      BY <2>6, <3>1, PhoneSendsType
  <2>9. QED
    BY <1>11, <2>7, <2>8, ChannelTypes DEF PhoneRecvUndecryptable, PhoneReceives
<1>12. QED
  BY <1>2, <1>3, <1>4, <1>5, <1>6, <1>7, <1>8, <1>9, <1>10, <1>11 DEF PhoneStep

(* Every reachable state of the agent, the phones and the channels is of   *)
(* the declared type, whatever the phones, nonces, bounds and faults.      *)
THEOREM TypeCorrect == Spec => []TypeOK
<1>1. Init => TypeOK
  <2>1. NewAgent(InitiallyPaired) \in AgentType
    BY HandshakeAssumption, NewAgentType DEF HandshakeAssumption
  <2>2. QED
    BY <2>1, NewPhoneType DEF Init, TypeOK
<1>2. TypeOK /\ [Next]_vars => TypeOK'
  <2> SUFFICES ASSUME TypeOK, [Next]_vars
               PROVE  TypeOK'
    OBVIOUS
  <2>1. CASE RelayDropsForMac
    BY <2>1, ChannelTypes DEF RelayDropsForMac, TypeOK
  <2>2. CASE RelayDropsForPhone
    BY <2>2, ChannelTypes DEF RelayDropsForPhone, TypeOK
  <2>3. CASE UNCHANGED vars
    BY <2>3 DEF vars, TypeOK
  <2>4. QED
    BY <2>1, <2>2, <2>3, MacStepType, PhoneStepType DEF Next
<1>3. QED
  BY <1>1, <1>2, PTL DEF Spec

--------------------------------------------------------------------------------
(* What the agent's operators do to the fields the invariant talks about.  *)

(* resetSession forgets the epoch and keeps the state file.                *)
LEMMA ResetSessionFields ==
  ASSUME NEW a \in AgentType
  PROVE  LET r == ResetSession(a)
         IN /\ r.crypto = None /\ r.macNonce = None /\ r.iosNonce = None
            /\ r.pub = None /\ r.peer = None /\ ~r.ready /\ r.pending = None
            /\ r.paired = a.paired /\ r.stored = a.stored /\ r.up = a.up
  BY DEF ResetSession, ResetSessionEpochState, AgentType

(* ensureMacNonce touches nothing else and never replaces a nonce.         *)
LEMMA WithMacNonceFields ==
  ASSUME NEW a \in AgentType, NEW m \in Nonces
  PROVE  LET r == WithMacNonce(a, m)
         IN /\ r.crypto = a.crypto /\ r.iosNonce = a.iosNonce /\ r.pub = a.pub
            /\ r.peer = a.peer /\ r.ready = a.ready /\ r.pending = a.pending
            /\ r.paired = a.paired /\ r.stored = a.stored /\ r.up = a.up
            /\ a.macNonce # None => r.macNonce = a.macNonce
  BY DEF WithMacNonce, AgentType

(* establishSession keeps the session or makes an unconfirmed key.         *)
LEMMA EstablishSessionFields ==
  ASSUME NEW a \in AgentType
  PROVE  LET r == EstablishSession(a)
         IN /\ r.macNonce = a.macNonce /\ r.iosNonce = a.iosNonce /\ r.pub = a.pub
            /\ r.peer = a.peer /\ r.pending = a.pending
            /\ r.paired = a.paired /\ r.up = a.up
            /\ r.stored = a.stored \/ r.stored = a.paired
            /\ \/ r.crypto = a.crypto /\ r.ready = a.ready /\ r.stored = a.stored
               \/ /\ a.macNonce # None /\ a.iosNonce # None /\ a.pub # None
                  /\ r.crypto = Key(a.pub, a.macNonce, a.iosNonce) /\ ~r.ready
<1>1. CASE a.crypto = None /\ a.macNonce # None /\ a.iosNonce # None /\ a.pub # None
  <2> DEFINE k == Key(a.pub, a.macNonce, a.iosNonce)
             b == [a EXCEPT !.crypto = k, !.ready = FALSE]
  <2>1. k \in Keys
    BY <1>1, KeyType DEF AgentType, NonceOrNone
  <2>2. EstablishSession(a) = SavesPeer(b)
    BY <1>1 DEF EstablishSession
  <2> HIDE DEF k
  <2>3. /\ b \in AgentType /\ b.macNonce = a.macNonce /\ b.iosNonce = a.iosNonce
        /\ b.pub = a.pub /\ b.peer = a.peer /\ b.pending = a.pending
        /\ b.paired = a.paired /\ b.stored = a.stored /\ b.up = a.up
        /\ b.crypto = k /\ ~b.ready
    BY <2>1 DEF AgentType
  <2> HIDE DEF b
  <2>4. QED
    BY <1>1, <2>2, <2>3, SavesPeerFields DEF k
<1>2. CASE ~(a.crypto = None /\ a.macNonce # None /\ a.iosNonce # None /\ a.pub # None)
  BY <1>2 DEF EstablishSession
<1>3. QED
  BY <1>1, <1>2

(* A HELLO keeps the epoch if it carries the nonce of the key in use, and  *)
(* leaves no key or a fresh one otherwise.                                 *)
LEMMA AfterHelloFields ==
  ASSUME NEW a \in AgentType, NEW p \in Phones, NEW n \in Nonces, NEW m \in Nonces
  PROVE  LET r == AfterHello(a, p, n, m)
         IN /\ r.iosNonce = IosNonce(p, n)
            /\ r.paired = a.paired /\ r.up = a.up
            /\ r.pub = IF p \in a.paired THEN p ELSE a.pub
            /\ r.peer = IF p \in a.paired THEN p ELSE a.peer
            /\ a.crypto = None => r.pending = a.pending
            /\ a.iosNonce = IosNonce(p, n) => r.pending = a.pending
            /\ a.macNonce # None => r.macNonce = a.macNonce
            /\ r.stored = a.stored \/ r.stored = a.paired
            /\ \/ /\ r.crypto = a.crypto /\ r.ready = a.ready /\ r.stored = a.stored
                  /\ a.crypto # None => a.iosNonce = IosNonce(p, n)
               \/ r.crypto = None /\ ~r.ready
               \/ /\ r.macNonce # None /\ r.pub # None
                  /\ r.crypto = Key(r.pub, r.macNonce, r.iosNonce) /\ ~r.ready
<1> DEFINE nonce == IosNonce(p, n)
           b == IF p \in a.paired THEN [a EXCEPT !.pub = p, !.peer = p] ELSE a
           c == IF a.crypto # None /\ a.iosNonce # nonce
                  THEN ResetSessionEpochState([b EXCEPT !.crypto = None, !.ready = FALSE])
                  ELSE b
           d == [c EXCEPT !.iosNonce = nonce]
           e == WithMacNonce(d, m)
<1>1. nonce \in IosNonces
  BY IosNonceType
<1>2. /\ b \in AgentType
      /\ b.paired = a.paired /\ b.stored = a.stored /\ b.up = a.up /\ b.macNonce = a.macNonce
      /\ b.pub = (IF p \in a.paired THEN p ELSE a.pub)
      /\ b.peer = (IF p \in a.paired THEN p ELSE a.peer)
      /\ b.pending = a.pending /\ b.crypto = a.crypto /\ b.ready = a.ready
  BY DEF AgentType
<1>3. /\ c \in AgentType
      /\ c.paired = b.paired /\ c.stored = b.stored /\ c.up = b.up /\ c.macNonce = b.macNonce
      /\ c.pub = b.pub /\ c.peer = b.peer
      /\ \/ a.crypto # None /\ a.iosNonce # nonce /\ c.crypto = None /\ ~c.ready
         \/ /\ ~(a.crypto # None /\ a.iosNonce # nonce)
            /\ c.pending = b.pending /\ c.crypto = b.crypto /\ c.ready = b.ready
  <2> HIDE DEF b, nonce
  <2>1. CASE a.crypto # None /\ a.iosNonce # nonce
    <3>1. c = [b EXCEPT !.crypto = None, !.ready = FALSE, !.pending = None, !.stale = FALSE]
      BY <1>2, <2>1 DEF AgentType, ResetSessionEpochState
    <3>2. QED
      BY <1>2, <2>1, <3>1 DEF AgentType
  <2>2. CASE ~(a.crypto # None /\ a.iosNonce # nonce)
    BY <1>2, <2>2
  <2>3. QED
    BY <2>1, <2>2
<1>4. /\ d \in AgentType
      /\ d.paired = c.paired /\ d.stored = c.stored /\ d.up = c.up /\ d.macNonce = c.macNonce
      /\ d.pub = c.pub /\ d.peer = c.peer /\ d.iosNonce = nonce
      /\ d.pending = c.pending /\ d.crypto = c.crypto /\ d.ready = c.ready
  <2> HIDE DEF c, nonce
  <2>1. QED
    BY <1>1, <1>3 DEF AgentType
<1>5. AfterHello(a, p, n, m) = EstablishSession(e)
  BY DEF AfterHello
<1> HIDE DEF nonce, b, c, d
<1>6. e \in AgentType
  BY <1>4, WithMacNonceType
<1>7. /\ e.paired = a.paired /\ e.stored = a.stored /\ e.up = a.up /\ e.iosNonce = nonce
      /\ e.pub = (IF p \in a.paired THEN p ELSE a.pub)
      /\ e.peer = (IF p \in a.paired THEN p ELSE a.peer)
      /\ a.macNonce # None => e.macNonce = a.macNonce
      /\ \/ /\ a.crypto # None /\ a.iosNonce # nonce
            /\ e.crypto = None /\ ~e.ready
         \/ /\ ~(a.crypto # None /\ a.iosNonce # nonce)
            /\ e.pending = a.pending /\ e.crypto = a.crypto /\ e.ready = a.ready
  BY <1>2, <1>3, <1>4, WithMacNonceFields
<1> HIDE DEF e
<1> DEFINE r == EstablishSession(e)
<1>8. /\ r.macNonce = e.macNonce /\ r.iosNonce = e.iosNonce /\ r.pub = e.pub
      /\ r.peer = e.peer /\ r.pending = e.pending
      /\ r.paired = e.paired /\ r.up = e.up
      /\ r.stored = e.stored \/ r.stored = e.paired
      /\ \/ r.crypto = e.crypto /\ r.ready = e.ready /\ r.stored = e.stored
         \/ /\ e.macNonce # None /\ e.iosNonce # None /\ e.pub # None
            /\ r.crypto = Key(e.pub, e.macNonce, e.iosNonce) /\ ~r.ready
  BY <1>6, EstablishSessionFields
<1> HIDE DEF r
<1>9. AfterHello(a, p, n, m) = r
  BY <1>5 DEF r
<1>10. CASE a.crypto # None /\ a.iosNonce # nonce
  BY <1>7, <1>8, <1>9, <1>10 DEF nonce
<1>11. CASE ~(a.crypto # None /\ a.iosNonce # nonce)
  BY <1>7, <1>8, <1>9, <1>11 DEF nonce
<1>12. QED
  BY <1>10, <1>11

(* An accepted pair request makes the identity current and provisional; a  *)
(* change of identity leaves neither key nor nonce behind.                 *)
LEMMA AfterPairRequestFields ==
  ASSUME NEW a \in AgentType, NEW p \in Phones, NEW m \in Nonces
  PROVE  LET r == AfterPairRequest(a, p, m)
         IN /\ r.paired = a.paired /\ r.up = a.up
            /\ r.pub = p /\ r.peer = None /\ r.pending = p
            /\ a.macNonce # None => r.macNonce = a.macNonce
            /\ IF a.pub # None /\ a.pub # p
                 THEN r.iosNonce = None
                 ELSE r.iosNonce = a.iosNonce
            /\ r.stored = a.stored \/ r.stored = a.paired
            /\ \/ /\ r.crypto = a.crypto /\ r.ready = a.ready /\ r.stored = a.stored
                  /\ ~(a.pub # None /\ a.pub # p)
               \/ r.crypto = None /\ ~r.ready
               \/ /\ r.macNonce # None /\ r.iosNonce # None
                  /\ r.crypto = Key(r.pub, r.macNonce, r.iosNonce) /\ ~r.ready
<1> DEFINE b == IF a.pub # None /\ a.pub # p
                  THEN ResetSessionEpochState(
                         [a EXCEPT !.crypto = None, !.iosNonce = None, !.ready = FALSE])
                  ELSE a
           c == [b EXCEPT !.attempts = 0, !.pending = p, !.stale = FALSE,
                          !.pub = p, !.peer = None]
           e == WithMacNonce(c, m)
<1>1. /\ b \in AgentType
      /\ b.paired = a.paired /\ b.stored = a.stored /\ b.up = a.up /\ b.macNonce = a.macNonce
      /\ IF a.pub # None /\ a.pub # p
           THEN b.crypto = None /\ b.iosNonce = None /\ ~b.ready
           ELSE b.crypto = a.crypto /\ b.iosNonce = a.iosNonce /\ b.ready = a.ready
  BY DEF AgentType, ResetSessionEpochState
<1>2. 0 \in 0..(MaxPairFailures - 1)
  BY HandshakeAssumption DEF HandshakeAssumption
<1>3. AfterPairRequest(a, p, m) = EstablishSession(e)
  BY DEF AfterPairRequest
<1> HIDE DEF b
<1>4. /\ c \in AgentType
      /\ c.paired = b.paired /\ c.stored = b.stored /\ c.up = b.up /\ c.macNonce = b.macNonce
      /\ c.pub = p /\ c.peer = None /\ c.pending = p
      /\ c.crypto = b.crypto /\ c.iosNonce = b.iosNonce /\ c.ready = b.ready
  BY <1>1, <1>2 DEF AgentType
<1> HIDE DEF c
<1>5. e \in AgentType
  BY <1>4, WithMacNonceType
<1>6. /\ e.paired = a.paired /\ e.stored = a.stored /\ e.up = a.up
      /\ a.macNonce # None => e.macNonce = a.macNonce
      /\ e.pub = p /\ e.peer = None /\ e.pending = p
      /\ IF a.pub # None /\ a.pub # p
           THEN e.crypto = None /\ e.iosNonce = None /\ ~e.ready
           ELSE e.crypto = a.crypto /\ e.iosNonce = a.iosNonce /\ e.ready = a.ready
  BY <1>1, <1>4, WithMacNonceFields
<1> HIDE DEF e
<1> DEFINE r == EstablishSession(e)
<1>7. /\ r.macNonce = e.macNonce /\ r.iosNonce = e.iosNonce /\ r.pub = e.pub
      /\ r.peer = e.peer /\ r.pending = e.pending
      /\ r.paired = e.paired /\ r.up = e.up
      /\ r.stored = e.stored \/ r.stored = e.paired
      /\ \/ r.crypto = e.crypto /\ r.ready = e.ready /\ r.stored = e.stored
         \/ /\ e.macNonce # None /\ e.iosNonce # None /\ e.pub # None
            /\ r.crypto = Key(e.pub, e.macNonce, e.iosNonce) /\ ~r.ready
  BY <1>5, EstablishSessionFields
<1> HIDE DEF r
<1>8. AfterPairRequest(a, p, m) = r
  BY <1>3 DEF r
<1>9. QED
  BY <1>6, <1>7, <1>8

(* SESSION_READY persists the provisional identity and no other.           *)
LEMMA AfterConfirmFields ==
  ASSUME NEW a \in AgentType
  PROVE  LET r == AfterConfirm(a)
         IN /\ r.crypto = a.crypto /\ r.macNonce = a.macNonce /\ r.iosNonce = a.iosNonce
            /\ r.pub = a.pub /\ r.up = a.up /\ r.ready /\ r.pending = None
            /\ r.stored = IF NeedsSave(a) THEN r.paired ELSE a.stored
            /\ IF a.pending = None
                 THEN r.paired = a.paired /\ r.peer = a.peer
                 ELSE r.paired = a.paired \cup {a.pending} /\ r.peer = a.pending
  BY DEF AfterConfirm, AgentType, NeedsSave

--------------------------------------------------------------------------------
(* The invariant.                                                          *)

(* Reading a frame keeps pair requests behind their HELLO.                 *)
LEMMA HeadTail ==
  ASSUME NEW S, NEW q \in Seq(S), q # <<>>, BehindHello(q)
  PROVE  /\ BehindHello(Tail(q))
         /\ \A p \in Phones :
              Tail(q) # <<>> /\ IsPairRequest(Head(Tail(q)), p) => IsHello(Head(q), p)
<1>1. /\ Len(Tail(q)) = Len(q) - 1 /\ Len(q) \in Nat /\ Len(q) # 0
      /\ \A i \in 1..Len(Tail(q)) : Tail(q)[i] = q[i + 1]
  OBVIOUS
<1>2. BehindHello(Tail(q))
  <2>1. SUFFICES ASSUME NEW i \in 2..Len(Tail(q)), NEW p \in Phones,
                        IsPairRequest(Tail(q)[i], p)
                 PROVE  IsHello(Tail(q)[i - 1], p)
    BY DEF BehindHello
  <2>2. i + 1 \in 2..Len(q) /\ i \in 1..Len(Tail(q)) /\ i - 1 \in 1..Len(Tail(q))
    BY <1>1
  <2>3. Tail(q)[i] = q[i + 1] /\ Tail(q)[i - 1] = q[(i + 1) - 1]
    BY <1>1, <2>2
  <2>4. QED
    BY <2>1, <2>2, <2>3 DEF BehindHello
<1>3. ASSUME NEW p \in Phones, Tail(q) # <<>>, IsPairRequest(Head(Tail(q)), p)
      PROVE  IsHello(Head(q), p)
  <2>1. Head(Tail(q)) = q[2] /\ Head(q) = q[2 - 1] /\ 2 \in 2..Len(q)
    BY <1>3
  <2>2. QED
    BY <1>3, <2>1 DEF BehindHello
<1>4. QED
  BY <1>2, <1>3

(* A phone never opens what it appends with a pair request.                *)
LEMMA AppendKeepsOrder ==
  ASSUME NEW S, NEW q \in Seq(S), NEW out \in Seq(S), BehindHello(q), BehindHello(out),
         out # <<>> => out[1].type # "pairRequest"
  PROVE  BehindHello(q \o out)
<1> DEFINE r == q \o out
<1>1. SUFFICES ASSUME NEW i \in 2..Len(r), NEW p \in Phones, IsPairRequest(r[i], p)
               PROVE  IsHello(r[i - 1], p)
  BY DEF BehindHello
<1>2. Len(q) \in Nat /\ Len(out) \in Nat /\ Len(r) = Len(q) + Len(out)
  OBVIOUS
<1>3. CASE i <= Len(q)
  <2>1. i \in 2..Len(q) /\ r[i] = q[i] /\ r[i - 1] = q[i - 1]
    BY <1>2, <1>3
  <2>2. QED
    BY <1>1, <2>1 DEF BehindHello
<1>4. CASE i = Len(q) + 1
  <2>1. r[i] = out[1] /\ out # <<>>
    BY <1>2, <1>4
  <2>2. QED
    BY <1>1, <2>1 DEF IsPairRequest
<1>5. CASE i > Len(q) + 1
  <2> DEFINE j == i - Len(q)
  <2>1. j \in 2..Len(out)
    BY <1>2, <1>5
  <2>2. r[i] = out[j] /\ r[i - 1] = out[j - 1]
    BY <1>2, <1>5
  <2>3. QED
    BY <1>1, <2>1, <2>2 DEF BehindHello
<1>6. QED
  BY <1>2, <1>3, <1>4, <1>5

(* The parts of the invariant that speak of the agent alone, as a          *)
(* predicate of its record.                                                *)
Consistent(a) ==
  /\ a.crypto # None =>
       /\ a.pub # None /\ a.macNonce # None /\ a.iosNonce # None
       /\ a.crypto = Key(a.pub, a.macNonce, a.iosNonce)
  /\ a.pub # None /\ a.iosNonce # None => a.iosNonce.owner = a.pub
  /\ a.pub # None => a.pub \in a.paired \/ a.pending = a.pub
  /\ a.peer # None => a.peer = a.pub /\ a.peer \in a.paired
  /\ a.ready => a.crypto # None /\ a.pub \in a.paired
  /\ ~a.up => a.pub = None /\ a.iosNonce = None
  /\ a.stored \subseteq a.paired

(* The invariant, with its conjuncts about the agent taken together.       *)
LEMMA InvParts ==
  HandshakeInv <=> /\ TypeOK
                   /\ Consistent(agent)
                   /\ PairRequestsBehindHello
                   /\ PairRequestMeetsOwnNonce
  BY DEF HandshakeInv, Consistent, KeyMatchesPeer, NonceOfPeer, PeerIsTrustedOrPending,
         KeyHasMaterial, FileWithinMemory

(* A reset agent is consistent.                                            *)
LEMMA ResetConsistent ==
  ASSUME NEW a \in AgentType, Consistent(a)
  PROVE  Consistent(ResetSession(a))
  BY ResetSessionFields DEF Consistent

(* A HELLO keeps the agent consistent.                                     *)
LEMMA AfterHelloConsistent ==
  ASSUME NEW a \in AgentType, Consistent(a), a.up,
         NEW p \in Phones, NEW n \in Nonces, NEW m \in Nonces, ~IgnoresHello(a, p)
  PROVE  /\ Consistent(AfterHello(a, p, n, m))
         /\ AfterHello(a, p, n, m).iosNonce.owner = p
<1> DEFINE r == AfterHello(a, p, n, m)
<1>1. /\ r.iosNonce = IosNonce(p, n)
      /\ r.paired = a.paired /\ r.up = a.up
      /\ r.pub = IF p \in a.paired THEN p ELSE a.pub
      /\ r.peer = IF p \in a.paired THEN p ELSE a.peer
      /\ a.crypto = None => r.pending = a.pending
      /\ a.iosNonce = IosNonce(p, n) => r.pending = a.pending
      /\ a.macNonce # None => r.macNonce = a.macNonce
      /\ r.stored = a.stored \/ r.stored = a.paired
      /\ \/ /\ r.crypto = a.crypto /\ r.ready = a.ready /\ r.stored = a.stored
            /\ a.crypto # None => a.iosNonce = IosNonce(p, n)
         \/ r.crypto = None /\ ~r.ready
         \/ /\ r.macNonce # None /\ r.pub # None
            /\ r.crypto = Key(r.pub, r.macNonce, r.iosNonce) /\ ~r.ready
  BY AfterHelloFields
<1>2. IosNonce(p, n).owner = p /\ IosNonce(p, n) # None /\ p # None
  BY IosNonceType, NoneIsNothing
<1>3. CASE p \in a.paired
  <2>1. r.pub = p /\ r.peer = p
    BY <1>1, <1>3
  <2> HIDE DEF r
  <2>2. r.crypto # None =>
          /\ r.pub # None /\ r.macNonce # None /\ r.iosNonce # None
          /\ r.crypto = Key(r.pub, r.macNonce, r.iosNonce)
    BY <1>1, <1>2, <2>1 DEF Consistent
  <2>3. r.ready => r.crypto # None /\ r.pub \in r.paired
    BY <1>1, <1>3, <2>1 DEF Consistent
  <2>4. QED
    BY <1>1, <1>2, <1>3, <2>1, <2>2, <2>3 DEF Consistent, r
<1>4. CASE p \notin a.paired /\ a.pub = None
  <2>1. a.crypto = None /\ ~a.ready /\ a.peer = None
    BY <1>4 DEF Consistent
  <2>2. r.pub = None /\ r.peer = None /\ r.pending = a.pending
    BY <1>1, <1>4, <2>1
  <2> HIDE DEF r
  <2>3. r.crypto = None /\ ~r.ready
    BY <1>1, <2>1, <2>2
  <2>4. QED
    BY <1>1, <1>2, <2>2, <2>3 DEF Consistent, r
<1>5. QED
  BY <1>3, <1>4 DEF IgnoresHello

(* A pair request that meets its own nonce keeps it consistent.            *)
LEMMA AfterPairRequestConsistent ==
  ASSUME NEW a \in AgentType, Consistent(a), a.up,
         NEW p \in Phones, NEW m \in Nonces,
         a.pub = None => a.iosNonce = None \/ a.iosNonce.owner = p
  PROVE  Consistent(AfterPairRequest(a, p, m))
<1> DEFINE r == AfterPairRequest(a, p, m)
<1>1. /\ r.paired = a.paired /\ r.up = a.up
      /\ r.pub = p /\ r.peer = None /\ r.pending = p
      /\ a.macNonce # None => r.macNonce = a.macNonce
      /\ IF a.pub # None /\ a.pub # p
           THEN r.iosNonce = None
           ELSE r.iosNonce = a.iosNonce
      /\ r.stored = a.stored \/ r.stored = a.paired
      /\ \/ /\ r.crypto = a.crypto /\ r.ready = a.ready /\ r.stored = a.stored
            /\ ~(a.pub # None /\ a.pub # p)
         \/ r.crypto = None /\ ~r.ready
         \/ /\ r.macNonce # None /\ r.iosNonce # None
            /\ r.crypto = Key(r.pub, r.macNonce, r.iosNonce) /\ ~r.ready
  BY AfterPairRequestFields
<1>2. p # None
  BY NoneIsNothing
<1> HIDE DEF r
<1>3. r.iosNonce # None => r.iosNonce.owner = p
  BY <1>1 DEF Consistent
<1>4. r.crypto # None =>
        /\ r.macNonce # None /\ r.iosNonce # None
        /\ r.crypto = Key(r.pub, r.macNonce, r.iosNonce)
  BY <1>1, <1>2 DEF Consistent
<1>5. r.ready => r.crypto # None /\ r.pub \in r.paired
  BY <1>1 DEF Consistent
<1>6. QED
  BY <1>1, <1>2, <1>3, <1>4, <1>5 DEF Consistent, r

(* A confirmation keeps the agent consistent.                              *)
LEMMA AfterConfirmConsistent ==
  ASSUME NEW a \in AgentType, Consistent(a), a.up, a.crypto # None, Confirmed(a)
  PROVE  Consistent(AfterConfirm(a))
<1> DEFINE r == AfterConfirm(a)
<1>1. /\ r.crypto = a.crypto /\ r.macNonce = a.macNonce /\ r.iosNonce = a.iosNonce
      /\ r.pub = a.pub /\ r.up = a.up /\ r.ready /\ r.pending = None
      /\ r.stored = IF NeedsSave(a) THEN r.paired ELSE a.stored
      /\ IF a.pending = None
           THEN r.paired = a.paired /\ r.peer = a.peer
           ELSE r.paired = a.paired \cup {a.pending} /\ r.peer = a.pending
  BY AfterConfirmFields
<1> HIDE DEF r
<1>2. CASE a.pending = None
  BY <1>1, <1>2 DEF Consistent, r
<1>3. CASE a.pending # None
  <2>1. a.pub = a.pending
    BY <1>3 DEF Confirmed
  <2>2. QED
    BY <1>1, <1>3, <2>1 DEF Consistent, r
<1>4. QED
  BY <1>2, <1>3

(* When the agent takes a frame that is no HELLO, or is down, the next     *)
(* frame is no pair request that could meet a foreign nonce.               *)
LEMMA TakeFrame ==
  ASSUME HandshakeInv, toMac # <<>>, toMac' = Tail(toMac),
         \/ \A p \in Phones : ~IsHello(Head(toMac), p)
         \/ agent'.iosNonce = None
         \/ agent'.pub # None
         \/ \E p \in Phones : IsHello(Head(toMac), p) /\ agent'.iosNonce.owner = p
  PROVE  PairRequestsBehindHello' /\ PairRequestMeetsOwnNonce'
<1>1. toMac \in Seq(ToMacFrames) /\ BehindHello(toMac)
  BY DEF HandshakeInv, TypeOK, PairRequestsBehindHello
<1>2. /\ BehindHello(Tail(toMac))
      /\ \A p \in Phones : Tail(toMac) # <<>> /\ IsPairRequest(Head(Tail(toMac)), p)
                             => IsHello(Head(toMac), p)
  BY <1>1, HeadTail
<1>3. PairRequestsBehindHello'
  BY <1>2 DEF PairRequestsBehindHello
<1>4. PairRequestMeetsOwnNonce'
  BY <1>2 DEF PairRequestMeetsOwnNonce, IsHello
<1>5. QED
  BY <1>3, <1>4

(* A step that leaves the channel, the identity and the nonce keeps both.  *)
LEMMA KeepFrames ==
  ASSUME HandshakeInv, UNCHANGED toMac, agent'.pub = agent.pub, agent'.iosNonce = agent.iosNonce
  PROVE  PairRequestsBehindHello' /\ PairRequestMeetsOwnNonce'
  BY DEF HandshakeInv, PairRequestsBehindHello, PairRequestMeetsOwnNonce, BehindHello

(* A helper without a nonce meets no pair request out of turn.             *)
LEMMA BlankNonce ==
  ASSUME HandshakeInv, UNCHANGED toMac, agent'.iosNonce = None
  PROVE  PairRequestsBehindHello' /\ PairRequestMeetsOwnNonce'
  BY DEF HandshakeInv, PairRequestsBehindHello, PairRequestMeetsOwnNonce, BehindHello

(* Every step of the helper keeps the invariant.                           *)
LEMMA MacStepInv ==
  ASSUME HandshakeInv, MacStep
  PROVE  HandshakeInv'
<1>1. TypeOK /\ agent \in AgentType /\ Consistent(agent)
  BY InvParts DEF TypeOK
<1>2. TypeOK'
  BY <1>1, MacStepType
<1>3. SUFFICES Consistent(agent') /\ PairRequestsBehindHello' /\ PairRequestMeetsOwnNonce'
  BY <1>2, InvParts DEF HandshakeInv, Consistent, KeyMatchesPeer, NonceOfPeer,
                        PeerIsTrustedOrPending, KeyHasMaterial, FileWithinMemory
<1>4. CASE MacConnect
  <2> DEFINE a == [ResetSession(agent) EXCEPT !.up = TRUE]
  <2>1. PICK m \in MintMac : agent' = [a EXCEPT !.macNonce = m] \/ agent' = a
    BY <1>4 DEF MacConnect
  <2>2. /\ a.crypto = None /\ a.pub = None /\ a.peer = None /\ a.iosNonce = None
        /\ ~a.ready /\ a.up /\ a \in AgentType /\ a.stored \subseteq a.paired
    BY <1>1, ResetSessionFields, ResetSessionType DEF AgentType, Consistent
  <2> HIDE DEF a
  <2>3. /\ agent'.crypto = None /\ agent'.pub = None /\ agent'.peer = None
        /\ agent'.iosNonce = None /\ ~agent'.ready /\ agent'.up
        /\ agent'.stored \subseteq agent'.paired
    BY <2>1, <2>2 DEF AgentType
  <2>4. Consistent(agent')
    BY <2>3 DEF Consistent
  <2>5. QED
    BY <1>4, <2>3, <2>4, BlankNonce DEF MacConnect
<1>5. CASE MacDisconnect
  <2> DEFINE a == ResetSession(agent)
  <2>1. /\ a.crypto = None /\ a.pub = None /\ a.peer = None /\ a.iosNonce = None
        /\ ~a.ready /\ a \in AgentType /\ a.stored \subseteq a.paired
    BY <1>1, ResetSessionFields, ResetSessionType DEF Consistent
  <2>2. agent' = [a EXCEPT !.up = FALSE]
    BY <1>5 DEF MacDisconnect
  <2> HIDE DEF a
  <2>3. /\ agent'.crypto = None /\ agent'.pub = None /\ agent'.peer = None
        /\ agent'.iosNonce = None /\ ~agent'.ready /\ agent'.stored \subseteq agent'.paired
    BY <2>1, <2>2 DEF AgentType
  <2>4. Consistent(agent')
    BY <2>3 DEF Consistent
  <2>5. QED
    BY <1>5, <2>3, <2>4, BlankNonce DEF MacDisconnect
<1>6. CASE AgentRestart
  <2>1. /\ agent'.crypto = None /\ agent'.pub = None /\ agent'.peer = None
        /\ agent'.iosNonce = None /\ ~agent'.ready /\ agent'.stored \subseteq agent'.paired
    BY <1>6 DEF AgentRestart, NewAgent
  <2>2. Consistent(agent')
    BY <2>1 DEF Consistent
  <2>3. QED
    BY <1>6, <2>1, <2>2, BlankNonce DEF AgentRestart
<1>7. CASE MacRecvHello
  <2> DEFINE f == Head(toMac)
  <2>1. /\ f.pub \in Phones /\ f.nonce \in Nonces /\ f.type = "hello"
        /\ agent.up /\ toMac # <<>> /\ toMac' = Tail(toMac)
    BY <1>1, <1>7, ChannelTypes, ToMacFields DEF MacRecvHello
  <2>2. CASE IgnoresHello(agent, f.pub)
    <3>1. UNCHANGED agent /\ agent.pub # None
      BY <1>7, <2>2 DEF MacRecvHello, IgnoresHello
    <3>2. QED
      BY <1>1, <2>1, <3>1, TakeFrame
  <2>3. CASE ~IgnoresHello(agent, f.pub)
    <3>1. PICK m \in MintMac : agent' = AfterHello(agent, f.pub, f.nonce, m)
      BY <1>7, <2>3 DEF MacRecvHello
    <3>2. Consistent(agent') /\ agent'.iosNonce.owner = f.pub
      BY <1>1, <2>1, <2>3, <3>1, MintType, AfterHelloConsistent
    <3>3. IsHello(Head(toMac), f.pub)
      BY <2>1 DEF IsHello
    <3>4. QED
      BY <2>1, <3>2, <3>3, TakeFrame
  <2>4. QED
    BY <2>2, <2>3
<1>8. CASE MacRecvPairRequest
  <2> DEFINE f == Head(toMac)
  <2>1. /\ f.pub \in Phones /\ f.type = "pairRequest"
        /\ agent.up /\ toMac # <<>> /\ toMac' = Tail(toMac)
    BY <1>1, <1>8, ChannelTypes, ToMacFields DEF MacRecvPairRequest
  <2>2. \A p \in Phones : ~IsHello(Head(toMac), p)
    BY <2>1 DEF IsHello
  <2>3. CASE UNCHANGED agent
    BY <1>1, <2>1, <2>2, <2>3, TakeFrame
  <2>4. CASE agent' = AfterRefusal(agent)
    <3>1. /\ agent'.crypto = agent.crypto /\ agent'.macNonce = agent.macNonce
          /\ agent'.iosNonce = agent.iosNonce /\ agent'.pub = agent.pub
          /\ agent'.peer = agent.peer /\ agent'.ready = agent.ready /\ agent'.up = agent.up
          /\ agent'.paired = agent.paired /\ agent'.pending = agent.pending
          /\ agent'.stored = agent.stored
      BY <1>1, <2>4 DEF AfterRefusal, AgentType
    <3>2. Consistent(agent')
      BY <1>1, <3>1 DEF Consistent
    <3>3. QED
      BY <2>1, <2>2, <3>2, TakeFrame
  <2>5. CASE \E m \in MintMac : agent' = AfterPairRequest(agent, f.pub, m)
    <3>1. agent.pub = None => agent.iosNonce = None \/ agent.iosNonce.owner = f.pub
      BY <2>1, InvParts DEF PairRequestMeetsOwnNonce, IsPairRequest
    <3>2. Consistent(agent')
      BY <1>1, <2>1, <2>5, <3>1, MintType, AfterPairRequestConsistent
    <3>3. QED
      BY <2>1, <2>2, <3>2, TakeFrame
  <2>6. QED
    BY <1>8, <2>3, <2>4, <2>5 DEF MacRecvPairRequest
<1>9. CASE MacRecvUndecryptable
  <2>1. \A p \in Phones : ~IsHello(Head(toMac), p)
    BY <1>9 DEF MacRecvUndecryptable, IsHello
  <2>2. QED
    BY <1>1, <1>9, <2>1, TakeFrame DEF MacRecvUndecryptable
<1>10. CASE MacRecvSessionReady
  <2>1. /\ \A p \in Phones : ~IsHello(Head(toMac), p)
        /\ toMac # <<>> /\ toMac' = Tail(toMac) /\ agent.up
    BY <1>10 DEF MacRecvSessionReady, IsHello
  <2>2. agent.crypto # None
    BY <1>1, <1>10, ChannelTypes, ToMacFields, NoneIsNothing DEF MacRecvSessionReady
  <2>3. Consistent(agent')
    BY <1>1, <1>10, <2>1, <2>2, AfterConfirmConsistent, ResetConsistent DEF MacRecvSessionReady
  <2>4. QED
    BY <2>1, <2>3, TakeFrame
<1>11. CASE PendingPairExpires \/ LockoutEnds \/ RefreshPairingCode
  <2>1. /\ agent'.crypto = agent.crypto /\ agent'.macNonce = agent.macNonce
        /\ agent'.iosNonce = agent.iosNonce /\ agent'.pub = agent.pub
        /\ agent'.peer = agent.peer /\ agent'.ready = agent.ready /\ agent'.up = agent.up
        /\ agent'.paired = agent.paired /\ agent'.pending = agent.pending
        /\ agent'.stored = agent.stored /\ UNCHANGED toMac
    BY <1>1, <1>11 DEF PendingPairExpires, LockoutEnds, RefreshPairingCode, AgentType
  <2>2. Consistent(agent')
    BY <1>1, <2>1 DEF Consistent
  <2>3. QED
    BY <2>1, <2>2, KeepFrames
<1>12. CASE MacRecvClientState \/ \E p \in Phones : Revoke(p)
  <2>1. /\ agent'.crypto = agent.crypto /\ agent'.macNonce = agent.macNonce
        /\ agent'.iosNonce = agent.iosNonce /\ agent'.pub = agent.pub
        /\ agent'.peer = agent.peer /\ agent'.ready = agent.ready /\ agent'.up = agent.up
        /\ agent'.paired = agent.paired /\ agent'.pending = agent.pending
        /\ agent'.stored \subseteq agent.stored \/ agent'.stored = agent.paired
        /\ UNCHANGED toMac
    <3>1. CASE MacRecvClientState
      BY <1>1, <3>1, SavesPeerFields DEF MacRecvClientState
    <3>2. CASE \E p \in Phones : Revoke(p)
      BY <1>1, <3>2 DEF Revoke, AgentType
    <3>3. QED
      BY <1>12, <3>1, <3>2
  <2>2. Consistent(agent')
    BY <1>1, <2>1 DEF Consistent
  <2>3. QED
    BY <2>1, <2>2, KeepFrames
<1>13. QED
  BY <1>4, <1>5, <1>6, <1>7, <1>8, <1>9, <1>10, <1>11, <1>12 DEF MacStep

(* What a phone does to the invariant's state: it appends to toMac, and    *)
(* never starts with a pair request.                                       *)
Orderly(out) ==
  /\ out \in Seq(ToMacFrames)
  /\ BehindHello(out)
  /\ out # <<>> => out[1].type # "pairRequest"

(* What a phone sends keeps its pair requests behind its HELLOs.           *)
LEMMA OrderlySends ==
  /\ Orderly(<<>>)
  /\ \A f \in ToMacFrames : f.type # "pairRequest" => Orderly(<<f>>)
  /\ \A f, g \in ToMacFrames :
       /\ f.type # "pairRequest"
       /\ g.type = "pairRequest" => f.type = "hello" /\ f.pub = g.pub
       => Orderly(<<f>> \o <<g>>)
  BY DEF Orderly, BehindHello, IsPairRequest, IsHello

(* A phone's step leaves the agent alone and sends in order.               *)
LEMMA PhoneStepFrame ==
  ASSUME TypeOK, NEW p \in Phones, PhoneStep(p)
  PROVE  UNCHANGED agent /\ (UNCHANGED toMac \/ \E out : Orderly(out) /\ PhoneSends(p, out))
<1>0. ios[p] \in PhoneType
  BY DEF TypeOK
<1>1. CASE UserConnects(p) \/ Reconnects(p) \/ PhoneDrops(p) \/ HandshakeTimeout(p)
             \/ PhoneRecvPairReject(p)
  BY <1>1 DEF UserConnects, Reconnects, Connects, PhoneDrops, HandshakeTimeout,
              PhoneRecvPairReject, PhoneReceives
<1>2. CASE HandshakeRetry(p)
  <2>1. PICK n \in IF ios[p].nonceIOS = None THEN MintIOS(p) ELSE {ios[p].nonceIOS} :
          PhoneSends(p, <<IosHello(p, n)>> \o
            (IF ShouldSendPairRequest(ios[p]) THEN <<PairRequest(p, ios[p].code)>> ELSE <<>>))
    BY <1>2 DEF HandshakeRetry
  <2>2. n \in Nonces /\ ios[p].code \in Nat
    BY <1>0, MintType DEF PhoneType, NonceOrNone
  <2>3. /\ IosHello(p, n) \in ToMacFrames /\ PairRequest(p, ios[p].code) \in ToMacFrames
        /\ IosHello(p, n).type = "hello" /\ IosHello(p, n).pub = p
        /\ PairRequest(p, ios[p].code).type = "pairRequest" /\ PairRequest(p, ios[p].code).pub = p
    BY <2>2, FrameTypes DEF IosHello, PairRequest
  <2>4. /\ Orderly(<<IosHello(p, n)>>)
        /\ Orderly(<<IosHello(p, n)>> \o <<PairRequest(p, ios[p].code)>>)
    BY <2>3, OrderlySends
  <2>5. \/ PhoneSends(p, <<IosHello(p, n)>>)
        \/ PhoneSends(p, <<IosHello(p, n)>> \o <<PairRequest(p, ios[p].code)>>)
    <3>1. <<IosHello(p, n)>> \o <<>> = <<IosHello(p, n)>>
      OBVIOUS
    <3>2. QED
      BY <2>1, <3>1
  <2>6. QED
    BY <1>2, <2>4, <2>5 DEF HandshakeRetry
<1>3. CASE PhoneRecvHello(p)
  <2>1. PICK n \in MintIOS(p), kept \in InWindow(ios[p].guard) :
          LET s == ios[p]
              r == EvaluateHello(s.guard, Head(toIos).nonce, s.crypto # None, kept)
              t == Rehandshakes(p, [s EXCEPT !.guard = r.guard], r.verdict, n)
              u == [t EXCEPT !.nonceMac = Head(toIos).nonce]
              v == EstablishIfPossible(u, p)
          IN IF r.verdict = "escalate"
               THEN UNCHANGED toMac
               ELSE PhoneSends(p,
                      (IF r.verdict = "resetSession" THEN <<IosHello(p, n)>> ELSE <<>>)
                      \o OptimisticReady(u, v))
    BY <1>3 DEF PhoneRecvHello
  <2> DEFINE r == EvaluateHello(ios[p].guard, Head(toIos).nonce, ios[p].crypto # None, kept)
             t == Rehandshakes(p, [ios[p] EXCEPT !.guard = r.guard], r.verdict, n)
             u == [t EXCEPT !.nonceMac = Head(toIos).nonce]
             v == EstablishIfPossible(u, p)
             h == IosHello(p, n)
             k == SessionReady(v.crypto)
  <2>2. CanDerive(u) => v.crypto \in Keys
    BY <1>3, PhoneHelloType DEF PhoneRecvHello
  <2>3. h \in ToMacFrames /\ h.type # "pairRequest"
    BY MintType, FrameTypes DEF IosHello
  <2>4. CanDerive(u) => k \in ToMacFrames /\ k.type # "pairRequest"
    <3> HIDE DEF u, v
    <3>1. QED
      BY <2>2, FrameTypes DEF SessionReady
  <2>5. OptimisticReady(u, v) = IF CanDerive(u) THEN <<k>> ELSE <<>>
    BY DEF OptimisticReady
  <2>6. \/ UNCHANGED toMac
        \/ PhoneSends(p, (IF r.verdict = "resetSession" THEN <<h>> ELSE <<>>)
                           \o OptimisticReady(u, v))
    BY <2>1
  <2> HIDE DEF r, t, u, v, h, k
  <2>7. <<h>> \o <<>> = <<h>> /\ <<>> \o <<k>> = <<k>> /\ <<>> \o <<>> = <<>>
    OBVIOUS
  <2>8. Orderly((IF r.verdict = "resetSession" THEN <<h>> ELSE <<>>) \o OptimisticReady(u, v))
    BY <2>3, <2>4, <2>5, <2>7, OrderlySends
  <2>9. QED
    BY <1>3, <2>6, <2>8 DEF PhoneRecvHello, PhoneReceives
<1>4. CASE PhoneRecvPairAccept(p)
  <2> DEFINE s == [ios[p] EXCEPT !.pairAccepted = TRUE, !.trusted = TRUE]
             t == EstablishIfPossible(s, p)
             k == SessionReady(t.crypto)
  <2>1. s \in PhoneType
    BY <1>0 DEF PhoneType
  <2>2. PhoneSends(p, OptimisticReady(s, t))
    BY <1>4 DEF PhoneRecvPairAccept
  <2> HIDE DEF s
  <2>3. CanDerive(s) => t.crypto \in Keys
    BY <2>1, EstablishIfPossibleType
  <2> HIDE DEF t
  <2>4. CanDerive(s) => k \in ToMacFrames /\ k.type # "pairRequest"
    BY <2>3, FrameTypes DEF SessionReady
  <2>5. OptimisticReady(s, t) = IF CanDerive(s) THEN <<k>> ELSE <<>>
    BY DEF OptimisticReady
  <2> HIDE DEF k
  <2>6. Orderly(OptimisticReady(s, t))
    BY <2>4, <2>5, OrderlySends
  <2>7. QED
    BY <1>4, <2>2, <2>6 DEF PhoneRecvPairAccept, PhoneReceives
<1>5. CASE PhoneRecvSessionReady(p)
  <2>1. ios[p].crypto \in Keys
    BY <1>5, ChannelTypes, ToIosFields DEF PhoneRecvSessionReady, PhoneReceives
  <2>2. Orderly(<<SessionReady(ios[p].crypto)>>)
    BY <2>1, FrameTypes, OrderlySends DEF SessionReady
  <2>3. QED
    BY <1>5, <2>2 DEF PhoneRecvSessionReady, PhoneReceives
<1>6. CASE PhoneRecvUndecryptable(p)
  <2>1. PICK n \in MintIOS(p) : PhoneSends(p, <<IosHello(p, n)>>) \/ PhoneSends(p, <<>>)
    BY <1>6 DEF PhoneRecvUndecryptable
  <2>2. IosHello(p, n) \in ToMacFrames /\ IosHello(p, n).type # "pairRequest"
    BY MintType, FrameTypes DEF IosHello
  <2>3. Orderly(<<IosHello(p, n)>>) /\ Orderly(<<>>)
    BY <2>2, OrderlySends
  <2>4. QED
    BY <1>6, <2>1, <2>3 DEF PhoneRecvUndecryptable, PhoneReceives
<1>7. QED
  BY <1>1, <1>2, <1>3, <1>4, <1>5, <1>6 DEF PhoneStep

(* Every step of a phone keeps the invariant.                              *)
LEMMA PhoneStepInv ==
  ASSUME HandshakeInv, NEW p \in Phones, PhoneStep(p)
  PROVE  HandshakeInv'
<1>1. TypeOK /\ Consistent(agent) /\ BehindHello(toMac) /\ toMac \in Seq(ToMacFrames)
  BY InvParts DEF TypeOK, PairRequestsBehindHello
<1>2. TypeOK'
  BY <1>1, PhoneStepType
<1>3. UNCHANGED agent
  BY <1>1, PhoneStepFrame
<1>4. PairRequestsBehindHello' /\ PairRequestMeetsOwnNonce'
  <2>1. CASE UNCHANGED toMac
    BY <1>3, <2>1, KeepFrames
  <2>2. CASE \E out : Orderly(out) /\ PhoneSends(p, out)
    <3>1. PICK out : Orderly(out) /\ PhoneSends(p, out)
      BY <2>2
    <3>2. CASE attached # p
      BY <1>3, <3>1, <3>2, KeepFrames DEF PhoneSends
    <3>3. CASE attached = p
      <4>1. toMac' = toMac \o out
        BY <3>1, <3>3 DEF PhoneSends
      <4>2. BehindHello(toMac \o out)
        BY <1>1, <3>1, AppendKeepsOrder DEF Orderly
      <4>3. CASE toMac # <<>>
        <5>1. toMac' # <<>> /\ Head(toMac') = Head(toMac)
          BY <1>1, <3>1, <4>1, <4>3 DEF Orderly
        <5>2. PairRequestMeetsOwnNonce'
          BY <1>3, <4>3, <5>1 DEF HandshakeInv, PairRequestMeetsOwnNonce
        <5>3. QED
          BY <4>1, <4>2, <5>2 DEF PairRequestsBehindHello
      <4>4. CASE toMac = <<>>
        <5>1. toMac' = out
          BY <3>1, <4>1, <4>4 DEF Orderly
        <5>2. PairRequestMeetsOwnNonce'
          BY <3>1, <5>1 DEF Orderly, PairRequestMeetsOwnNonce, IsPairRequest
        <5>3. QED
          BY <4>1, <4>2, <5>2 DEF PairRequestsBehindHello
      <4>5. QED
        BY <4>3, <4>4
    <3>4. QED
      BY <3>2, <3>3
  <2>3. QED
    BY <1>1, <2>1, <2>2, PhoneStepFrame
<1>5. Consistent(agent')
  BY <1>1, <1>3
<1>6. QED
  BY <1>2, <1>4, <1>5 DEF HandshakeInv, Consistent, KeyMatchesPeer, NonceOfPeer,
                          PeerIsTrustedOrPending, KeyHasMaterial, FileWithinMemory

(* HandshakeInv is inductive, for any number of phones, any interleaving of*)
(* their HELLOs and pair requests, and any faults.                         *)
THEOREM HandshakeInvariance == Spec => []HandshakeInv
<1>1. Init => HandshakeInv
  <2> SUFFICES ASSUME Init PROVE HandshakeInv
    OBVIOUS
  <2>1. TypeOK
    <3>1. NewAgent(InitiallyPaired) \in AgentType
      BY HandshakeAssumption, NewAgentType DEF HandshakeAssumption
    <3>2. QED
      BY <3>1, NewPhoneType DEF Init, TypeOK
  <2>2. Consistent(agent)
    BY DEF Init, NewAgent, Consistent
  <2>3. PairRequestsBehindHello /\ PairRequestMeetsOwnNonce
    BY DEF Init, PairRequestsBehindHello, BehindHello, PairRequestMeetsOwnNonce
  <2>4. QED
    BY <2>1, <2>2, <2>3, InvParts
<1>2. HandshakeInv /\ [Next]_vars => HandshakeInv'
  <2> SUFFICES ASSUME HandshakeInv, [Next]_vars
               PROVE  HandshakeInv'
    OBVIOUS
  <2>0. TypeOK /\ Consistent(agent)
    BY InvParts
  <2>1. CASE RelayDropsForMac
    <3>1. agent.iosNonce = None
      BY <2>0, <2>1 DEF RelayDropsForMac, Consistent
    <3>2. PairRequestsBehindHello' /\ PairRequestMeetsOwnNonce'
      BY <2>1, <3>1, TakeFrame DEF RelayDropsForMac
    <3>3. TypeOK'
      BY <2>0, <2>1, ChannelTypes DEF RelayDropsForMac, TypeOK
    <3>4. QED
      BY <2>1, <3>2, <3>3 DEF RelayDropsForMac, HandshakeInv, KeyMatchesPeer, NonceOfPeer,
                              PeerIsTrustedOrPending, KeyHasMaterial, FileWithinMemory
  <2>2. CASE RelayDropsForPhone
    <3>1. TypeOK'
      BY <2>0, <2>2, ChannelTypes DEF RelayDropsForPhone, TypeOK
    <3>2. QED
      BY <2>2, <3>1, KeepFrames
         DEF RelayDropsForPhone, HandshakeInv, KeyMatchesPeer, NonceOfPeer,
             PeerIsTrustedOrPending, KeyHasMaterial, FileWithinMemory
  <2>3. CASE UNCHANGED vars
    <3>1. TypeOK'
      BY <2>0, <2>3 DEF vars, TypeOK
    <3>2. QED
      BY <2>3, <3>1, KeepFrames
         DEF vars, HandshakeInv, KeyMatchesPeer, NonceOfPeer,
             PeerIsTrustedOrPending, KeyHasMaterial, FileWithinMemory
  <2>4. QED
    BY <2>1, <2>2, <2>3, MacStepInv, PhoneStepInv DEF Next
<1>3. QED
  BY <1>1, <1>2, PTL DEF Spec

(* No order of HELLOs and pair requests of several phones leaves the key   *)
(* of one phone under the name of another.                                 *)
THEOREM KeyAlwaysMatchesPeer == Spec => []KeyMatchesPeer
<1>1. HandshakeInv => KeyMatchesPeer
  BY DEF HandshakeInv
<1>2. QED
  BY <1>1, HandshakeInvariance, PTL

(* A session that forwards terminal data belongs to a persisted device.    *)
THEOREM ReadyPeerAlwaysTrusted == Spec => []ReadyPeerIsTrusted
<1>1. HandshakeInv => ReadyPeerIsTrusted
  BY DEF HandshakeInv, PeerIsTrustedOrPending, KeyHasMaterial, ReadyPeerIsTrusted
<1>2. QED
  BY <1>1, HandshakeInvariance, PTL

--------------------------------------------------------------------------------
(* What a step may do to trust and to the live session.                    *)

Quiet == /\ agent'.paired = agent.paired
         /\ agent'.stored = agent.stored
         /\ agent'.ready = agent.ready
         /\ agent.ready => agent'.pub = agent.pub

Dark == /\ agent'.paired = agent.paired /\ ~agent'.ready
        /\ agent'.stored = agent.stored \/ agent'.stored = agent.paired

(* The state file changes under a session that goes on.                    *)
Filed == /\ agent'.paired = agent.paired
         /\ agent'.ready = agent.ready
         /\ agent'.pub = agent.pub
         /\ \/ agent'.stored = agent.paired
            \/ \E p \in Phones : agent'.stored = agent.stored \ {p}

Reloaded == /\ agent'.paired = agent.stored
            /\ agent'.stored = agent.stored
            /\ ~agent'.ready

Proven ==
  /\ MacRecvSessionReady
  /\ agent'.ready
  /\ agent'.pub = agent.pub
  /\ agent'.paired = agent.paired \cup {agent.pub}
  /\ agent'.stored = IF agent.pub \in agent.paired THEN agent.stored ELSE agent'.paired
  /\ agent'.peer = agent.pub \/ agent.pub \in agent.paired

(* A step of the helper stutters, ends the session, proves an identity,    *)
(* writes the state file or starts over from it.                           *)
LEMMA MacStepTrust ==
  ASSUME HandshakeInv, MacStep
  PROVE  Quiet \/ Dark \/ Proven \/ Filed \/ Reloaded
<1>1. TypeOK /\ agent \in AgentType /\ Consistent(agent)
  BY InvParts DEF TypeOK
<1>2. CASE MacConnect
  <2> DEFINE a == [ResetSession(agent) EXCEPT !.up = TRUE]
  <2>1. PICK m \in MintMac : agent' = [a EXCEPT !.macNonce = m] \/ agent' = a
    BY <1>2 DEF MacConnect
  <2>2. ~a.ready /\ a.paired = agent.paired /\ a.stored = agent.stored /\ a \in AgentType
    BY <1>1, ResetSessionFields, ResetSessionType DEF AgentType
  <2> HIDE DEF a
  <2>3. ~agent'.ready /\ agent'.paired = agent.paired /\ agent'.stored = agent.stored
    BY <2>1, <2>2 DEF AgentType
  <2>4. QED
    BY <2>3 DEF Dark
<1>3. CASE MacDisconnect
  <2> DEFINE a == ResetSession(agent)
  <2>1. ~a.ready /\ a.paired = agent.paired /\ a.stored = agent.stored /\ a \in AgentType
    BY <1>1, ResetSessionFields, ResetSessionType
  <2>2. agent' = [a EXCEPT !.up = FALSE]
    BY <1>3 DEF MacDisconnect
  <2> HIDE DEF a
  <2>3. ~agent'.ready /\ agent'.paired = agent.paired /\ agent'.stored = agent.stored
    BY <2>1, <2>2 DEF AgentType
  <2>4. QED
    BY <2>3 DEF Dark
<1>4. CASE AgentRestart
  BY <1>4 DEF AgentRestart, NewAgent, Reloaded
<1>5. CASE MacRecvHello
  <2> DEFINE f == Head(toMac)
  <2>1. f.pub \in Phones /\ f.nonce \in Nonces
    BY <1>1, <1>5, ChannelTypes, ToMacFields DEF MacRecvHello
  <2>2. CASE IgnoresHello(agent, f.pub)
    BY <1>5, <2>2 DEF MacRecvHello, Quiet
  <2>3. CASE ~IgnoresHello(agent, f.pub)
    <3>1. PICK m \in MintMac : agent' = AfterHello(agent, f.pub, f.nonce, m)
      BY <1>5, <2>3 DEF MacRecvHello
    <3>2. /\ agent'.paired = agent.paired
          /\ agent'.pub = IF f.pub \in agent.paired THEN f.pub ELSE agent.pub
          /\ agent'.stored = agent.stored \/ agent'.stored = agent.paired
          /\ \/ /\ agent'.ready = agent.ready /\ agent'.stored = agent.stored
                /\ agent.crypto # None => agent.iosNonce = IosNonce(f.pub, f.nonce)
             \/ ~agent'.ready
      BY <1>1, <2>1, <3>1, MintType, AfterHelloFields
    <3>3. IosNonce(f.pub, f.nonce).owner = f.pub
      BY <2>1, IosNonceType
    <3>4. agent.ready => agent.crypto # None /\ agent.iosNonce.owner = agent.pub
      BY <1>1 DEF Consistent
    <3>5. QED
      BY <3>2, <3>3, <3>4 DEF Quiet, Dark
  <2>4. QED
    BY <2>2, <2>3
<1>6. CASE MacRecvPairRequest
  <2> DEFINE f == Head(toMac)
  <2>1. f.pub \in Phones
    BY <1>1, <1>6, ChannelTypes, ToMacFields DEF MacRecvPairRequest
  <2>2. CASE UNCHANGED agent
    BY <2>2 DEF Quiet
  <2>3. CASE agent' = AfterRefusal(agent)
    BY <1>1, <2>3 DEF AfterRefusal, AgentType, Quiet
  <2>4. CASE \E m \in MintMac : agent' = AfterPairRequest(agent, f.pub, m)
    <3>1. /\ agent'.paired = agent.paired /\ agent'.pub = f.pub
          /\ agent'.stored = agent.stored \/ agent'.stored = agent.paired
          /\ \/ /\ agent'.ready = agent.ready /\ agent'.stored = agent.stored
                /\ ~(agent.pub # None /\ agent.pub # f.pub)
             \/ ~agent'.ready
      BY <1>1, <2>1, <2>4, MintType, AfterPairRequestFields
    <3>2. agent.ready => agent.pub # None
      BY <1>1 DEF Consistent
    <3>3. QED
      BY <3>1, <3>2 DEF Quiet, Dark
  <2>5. QED
    BY <1>6, <2>2, <2>3, <2>4 DEF MacRecvPairRequest
<1>7. CASE MacRecvSessionReady
  <2>1. agent.crypto # None
    BY <1>1, <1>7, ChannelTypes, ToMacFields, NoneIsNothing DEF MacRecvSessionReady
  <2>2. CASE Confirmed(agent) /\ agent' = AfterConfirm(agent)
    <3>1. /\ agent'.pub = agent.pub /\ agent'.ready
          /\ agent'.stored = IF NeedsSave(agent) THEN agent'.paired ELSE agent.stored
          /\ IF agent.pending = None
               THEN agent'.paired = agent.paired /\ agent'.peer = agent.peer
               ELSE agent'.paired = agent.paired \cup {agent.pending} /\ agent'.peer = agent.pending
      BY <1>1, <2>2, AfterConfirmFields
    <3>2. CASE agent.pending = None
      <4>1. agent.pub \in agent.paired
        BY <1>1, <2>1, <3>2 DEF Consistent
      <4>2. QED
        BY <1>7, <3>1, <3>2, <4>1 DEF Proven, NeedsSave
    <3>3. CASE agent.pending # None
      <4>1. agent.pub = agent.pending
        BY <2>2, <3>3 DEF Confirmed
      <4>2. QED
        BY <1>7, <3>1, <3>3, <4>1 DEF Proven, NeedsSave
    <3>4. QED
      BY <3>2, <3>3
  <2>3. CASE agent' = ResetSession(agent)
    BY <1>1, <2>3, ResetSessionFields DEF Dark
  <2>4. QED
    BY <1>7, <2>2, <2>3 DEF MacRecvSessionReady
<1>8. CASE MacRecvUndecryptable
  BY <1>8 DEF MacRecvUndecryptable, Quiet
<1>9. CASE PendingPairExpires \/ LockoutEnds \/ RefreshPairingCode
  BY <1>1, <1>9 DEF PendingPairExpires, LockoutEnds, RefreshPairingCode, AgentType, Quiet
<1>10. CASE MacRecvClientState
  BY <1>1, <1>10, SavesPeerFields DEF MacRecvClientState, Quiet, Filed
<1>11. CASE \E p \in Phones : Revoke(p)
  BY <1>1, <1>11 DEF Revoke, AgentType, Filed
<1>12. QED
  BY <1>2, <1>3, <1>4, <1>5, <1>6, <1>7, <1>8, <1>9, <1>10, <1>11 DEF MacStep

(* So does every step.                                                     *)
LEMMA StepTrust ==
  ASSUME HandshakeInv, [Next]_vars
  PROVE  Quiet \/ Dark \/ Proven \/ Filed \/ Reloaded
<1>1. CASE MacStep
  BY <1>1, MacStepTrust
<1>2. ASSUME NEW p \in Phones, PhoneStep(p)
      PROVE  Quiet
  BY <1>2, PhoneStepFrame DEF HandshakeInv, Quiet
<1>3. CASE RelayDropsForMac \/ RelayDropsForPhone \/ UNCHANGED vars
  BY <1>3 DEF RelayDropsForMac, RelayDropsForPhone, vars, Quiet
<1>4. QED
  BY <1>1, <1>2, <1>3 DEF Next

(* An identity becomes trusted only in the step that opens a frame sealed  *)
(* with a key derived from that identity, whatever is revoked, saved and   *)
(* read again meanwhile.                                                   *)
THEOREM OnlyProvenIdentitiesTrusted == Spec => OnlyProvenTrusted
<1> DEFINE A == \A p \in agent'.paired \ agent.paired :
                  /\ toMac # <<>>
                  /\ Head(toMac).type = "sessionReady"
                  /\ Head(toMac).key.pub = p
                  /\ agent'.peer = p
<1>1. HandshakeInv /\ [Next]_vars => [A]_vars
  <2> SUFFICES ASSUME HandshakeInv, [Next]_vars
               PROVE  A
    OBVIOUS
  <2>1. CASE Quiet \/ Dark \/ Filed \/ Reloaded
    BY <2>1 DEF Quiet, Dark, Filed, Reloaded, HandshakeInv, FileWithinMemory
  <2>2. CASE Proven
    <3>1. /\ toMac # <<>> /\ Head(toMac).type = "sessionReady"
          /\ Head(toMac).key = agent.crypto
      BY <2>2 DEF Proven, MacRecvSessionReady
    <3>2. agent.crypto # None
      BY <3>1, ChannelTypes, ToMacFields, NoneIsNothing DEF HandshakeInv
    <3>3. agent.crypto.pub = agent.pub
      BY <3>2 DEF HandshakeInv, KeyMatchesPeer, Key
    <3>4. QED
      BY <2>2, <3>1, <3>3 DEF Proven
  <2>3. QED
    BY <2>1, <2>2, StepTrust
<1>2. QED
  BY <1>1, HandshakeInvariance, PTL DEF Spec, OnlyProvenTrusted

(* The handshake implements PairingTrust, revocations included: the        *)
(* refinement mapping sends every step to GoLive, GoDark, Save, Revoke,    *)
(* Reload or a stutter.                                                    *)
THEOREM HandshakeImplementsTrust == Spec => KeepsPairingTrust
<1> DEFINE Active == IF agent.ready THEN agent.pub ELSE None
<1>1. Init => Trust!Init
  BY HandshakeAssumption DEF HandshakeAssumption, Init, NewAgent, Trust!Init
<1>2. HandshakeInv /\ [Next]_vars => [Trust!Next]_<<agent.paired, agent.stored, Active>>
  <2> SUFFICES ASSUME HandshakeInv, [Next]_vars
               PROVE  [Trust!Next]_<<agent.paired, agent.stored, Active>>
    OBVIOUS
  <2>1. CASE Quiet
    BY <2>1 DEF Quiet
  <2>2. CASE Dark
    BY <2>2 DEF Dark, Trust!Next, Trust!GoDark
  <2>3. CASE Proven
    <3>1. agent.crypto # None
      BY <2>3, ChannelTypes, ToMacFields, NoneIsNothing
         DEF Proven, MacRecvSessionReady, HandshakeInv
    <3>2. agent.pub \in Phones
      BY <3>1 DEF HandshakeInv, TypeOK, AgentType, KeyHasMaterial
    <3>3. CASE agent.ready
      <4>1. agent.pub \in agent.paired
        BY <3>3 DEF HandshakeInv, KeyHasMaterial
      <4>2. QED
        BY <2>3, <3>3, <4>1 DEF Proven
    <3>4. CASE ~agent.ready
      <4>1. Trust!GoLive(agent.pub)
        BY <2>3, <3>4 DEF Proven, Trust!GoLive
      <4>2. QED
        BY <3>2, <4>1 DEF Trust!Next
    <3>5. QED
      BY <3>3, <3>4
  <2>4. CASE Filed
    BY <2>4 DEF Filed, Trust!Next, Trust!Save, Trust!Revoke
  <2>5. CASE Reloaded
    BY <2>5 DEF Reloaded, Trust!Next, Trust!Reload
  <2>6. QED
    BY <2>1, <2>2, <2>3, <2>4, <2>5, StepTrust
<1>3. QED
  BY <1>1, <1>2, HandshakeInvariance, PTL DEF Spec, KeepsPairingTrust, Trust!Spec

--------------------------------------------------------------------------------
(* The phones.                                                             *)

(* What ConnectedPhoneHasKey says of phone p in state s.                   *)
PhoneSound(p, s) ==
  /\ s.connected => s.crypto # None /\ s.open
  /\ s.crypto # None => s.crypto.ios = IosNonce(p, s.nonceIOS)
  /\ s.reconnect => ~s.open

(* A phone without key and connection is sound if its reconnect task is.   *)
LEMMA KeylessSound ==
  ASSUME NEW p, NEW s, s.crypto = None, ~s.connected, s.reconnect => ~s.open
  PROVE  PhoneSound(p, s)
  BY DEF PhoneSound

(* Closing drops the key, the connection and the socket.                   *)
LEMMA ClosedFields ==
  ASSUME NEW s \in PhoneType
  PROVE  /\ Closed(s).crypto = None /\ ~Closed(s).connected /\ ~Closed(s).open
         /\ Closed(s) \in PhoneType
  BY ClosedType DEF Closed, InvalidateSession, PhoneType

(* handleDisconnect of an open phone.                                      *)
LEMMA DisconnectSound ==
  ASSUME NEW p, NEW s \in PhoneType, ~s.reconnect
  PROVE  PhoneSound(p, HandleDisconnect(s))
<1>1. HandleDisconnect(s) = Closed(s)
        \/ HandleDisconnect(s) = [Closed(s) EXCEPT !.reconnect = TRUE, !.backoff = @ + 1]
  BY DEF HandleDisconnect
<1>2. \A c \in PhoneType : \A k :
        LET d == [c EXCEPT !.reconnect = TRUE, !.backoff = k]
        IN d.crypto = c.crypto /\ d.connected = c.connected /\ d.open = c.open
  BY DEF PhoneType
<1>3. LET d == HandleDisconnect(s) IN d.crypto = None /\ ~d.connected /\ ~d.open
  BY <1>1, <1>2, ClosedFields
<1>4. QED
  BY <1>3, KeylessSound

(* startConnection leaves a phone without a key and with a socket.         *)
LEMMA StartSound ==
  ASSUME NEW p, NEW s \in PhoneType
  PROVE  PhoneSound(p, StartConnection(s))
<1>1. \A c \in PhoneType :
        LET d == StartConnection(s)
        IN Closed(s) = c => d.crypto = c.crypto /\ d.connected = c.connected /\ ~d.reconnect
  BY DEF StartConnection, ClearHandshakeMaterial, PhoneType
<1>2. LET d == StartConnection(s) IN d.crypto = None /\ ~d.connected /\ ~d.reconnect
  BY <1>1, ClosedFields
<1>3. QED
  BY <1>2, KeylessSound

(* Starting the retry and timeout tasks changes nothing of this.           *)
LEMMA RecoveryFields ==
  ASSUME NEW s \in PhoneType
  PROVE  LET d == EnsureHandshakeRecoveryRunning(s)
         IN /\ d.connected = s.connected /\ d.crypto = s.crypto /\ d.open = s.open
            /\ d.nonceIOS = s.nonceIOS /\ d.reconnect = s.reconnect
  BY DEF EnsureHandshakeRecoveryRunning, PhoneType

LEMMA RecoverySound ==
  ASSUME NEW p, NEW s \in PhoneType, PhoneSound(p, s)
  PROVE  PhoneSound(p, EnsureHandshakeRecoveryRunning(s))
  BY RecoveryFields DEF PhoneSound

(* An in-place re-key drops the key and, with it, the claim of being       *)
(* connected.                                                              *)
LEMMA RehandshakesSound ==
  ASSUME NEW p, NEW s \in PhoneType, PhoneSound(p, s), s.open, NEW v, NEW n \in Nonces
  PROVE  PhoneSound(p, Rehandshakes(p, s, v, n))
<1> DEFINE d == ResetForRehandshake(s, n)
<1>1. d \in PhoneType /\ d.crypto = None /\ d.reconnect = s.reconnect
  BY ResetForRehandshakeType DEF ResetForRehandshake, PhoneType
<1>2. ~d.reconnect
  BY <1>1 DEF PhoneSound
<1> HIDE DEF d
<1>3. PhoneSound(p, HandleDisconnect(d))
  BY <1>1, <1>2, DisconnectSound
<1>4. PhoneSound(p, BeginHandshakeRecovery(d))
  <2> DEFINE e == [d EXCEPT !.connected = FALSE]
  <2>1. e \in PhoneType /\ e.crypto = None /\ ~e.connected /\ ~e.reconnect
    BY <1>1, <1>2 DEF PhoneType
  <2> HIDE DEF e
  <2>2. PhoneSound(p, EnsureHandshakeRecoveryRunning(e))
    BY <2>1, KeylessSound, RecoverySound
  <2>3. QED
    BY <2>2 DEF BeginHandshakeRecovery, e
<1>5. QED
  BY <1>3, <1>4 DEF Rehandshakes, d

(* A key is derived from the phone's current nonce.                        *)
LEMMA EstablishSound ==
  ASSUME NEW p \in Phones, NEW s \in PhoneType, PhoneSound(p, s)
  PROVE  PhoneSound(p, EstablishIfPossible(s, p))
<1>1. CASE CanDerive(s)
  <2> DEFINE k == Key(p, s.nonceMac, IosNonce(p, s.nonceIOS))
             d == [s EXCEPT !.crypto = k, !.backoff = 0]
  <2>1. s.nonceMac \in Nonces /\ s.nonceIOS \in Nonces
    BY <1>1 DEF CanDerive, PhoneType, NonceOrNone
  <2>2. k \in Keys /\ k.ios = IosNonce(p, s.nonceIOS) /\ k # None
    BY <2>1, KeyType, IosNonceType, NoneIsNothing DEF Key
  <2> HIDE DEF k
  <2>3. /\ d \in PhoneType /\ d.crypto = k /\ d.connected = s.connected /\ d.open = s.open
        /\ d.reconnect = s.reconnect /\ d.nonceIOS = s.nonceIOS
    BY <2>2 DEF PhoneType
  <2>4. EstablishIfPossible(s, p) = EnsureHandshakeRecoveryRunning(d)
    BY <1>1 DEF EstablishIfPossible, k
  <2> HIDE DEF d
  <2>5. PhoneSound(p, d)
    BY <2>2, <2>3 DEF PhoneSound
  <2>6. QED
    BY <2>3, <2>4, <2>5, RecoverySound
<1>2. CASE ~CanDerive(s)
  BY <1>2 DEF EstablishIfPossible
<1>3. QED
  BY <1>1, <1>2

(* Another guard, or another Mac nonce, changes nothing of this.           *)
LEMMA GuardSound ==
  ASSUME NEW p, NEW s \in PhoneType, PhoneSound(p, s)
  PROVE  /\ \A g \in GuardType : PhoneSound(p, [s EXCEPT !.guard = g])
                                 /\ [s EXCEPT !.guard = g] \in PhoneType
                                 /\ [s EXCEPT !.guard = g].open = s.open
         /\ \A m \in Nonces : PhoneSound(p, [s EXCEPT !.nonceMac = m])
                              /\ [s EXCEPT !.nonceMac = m] \in PhoneType
  BY DEF PhoneSound, PhoneType, NonceOrNone

(* Every step of a phone leaves it sound.                                  *)
LEMMA PhoneStepSound ==
  ASSUME TypeOK, NEW p \in Phones, PhoneSound(p, ios[p]), PhoneStep(p)
  PROVE  \E s : ios' = [ios EXCEPT ![p] = s] /\ PhoneSound(p, s)
<1>1. ios[p] \in PhoneType /\ ios \in [Phones -> PhoneType]
  BY DEF TypeOK
<1>2. CASE UserConnects(p)
  <2>1. PICK c \in {pairingCode} \cup (IF ios[p].trusted THEN {ios[p].code} ELSE {}) :
          Connects(p, [ios[p] EXCEPT !.code = c, !.backoff = 0])
    BY <1>2 DEF UserConnects
  <2>2. c \in Nat
    BY <1>1 DEF PhoneType, TypeOK
  <2>3. [ios[p] EXCEPT !.code = c, !.backoff = 0] \in PhoneType
    BY <1>1, <2>2 DEF PhoneType
  <2>4. QED
    BY <2>1, <2>3, StartSound DEF Connects
<1>3. CASE Reconnects(p)
  BY <1>1, <1>3, StartSound DEF Reconnects, Connects
<1>4. CASE PhoneDrops(p) \/ HandshakeTimeout(p)
  <2>1. ~ios[p].reconnect /\ ios' = [ios EXCEPT ![p] = HandleDisconnect(ios[p])]
    BY <1>1, <1>4 DEF PhoneDrops, HandshakeTimeout, PhoneSound
  <2>2. QED
    BY <1>1, <2>1, DisconnectSound
<1>5. CASE HandshakeRetry(p)
  <2>1. PICK n \in IF ios[p].nonceIOS = None THEN MintIOS(p) ELSE {ios[p].nonceIOS} :
          ios' = [ios EXCEPT ![p].nonceIOS = n, ![p].attempt = @ + 1]
    BY <1>5 DEF HandshakeRetry
  <2>2. PICK k : k = ios[p].attempt + 1
    OBVIOUS
  <2> DEFINE s == [ios[p] EXCEPT !.nonceIOS = n, !.attempt = k]
  <2>3. ios' = [ios EXCEPT ![p] = s]
    BY <1>1, <2>1, <2>2 DEF PhoneType
  <2>4. ios[p].crypto # None => n = ios[p].nonceIOS
    <3> SUFFICES ASSUME ios[p].crypto # None PROVE n = ios[p].nonceIOS
      OBVIOUS
    <3>1. ios[p].crypto.ios \in IosNonces
      BY <1>1 DEF PhoneType, Keys
    <3>2. ios[p].crypto.ios = IosNonce(p, ios[p].nonceIOS)
      BY DEF PhoneSound
    <3>3. ios[p].nonceIOS \in Nonces
      BY <3>1, <3>2 DEF IosNonce, IosNonces
    <3>4. QED
      BY <2>1, <3>3, NoneIsNothing
  <2>5. /\ s.connected = ios[p].connected /\ s.crypto = ios[p].crypto /\ s.open = ios[p].open
        /\ s.reconnect = ios[p].reconnect /\ s.nonceIOS = n
    BY <1>1 DEF PhoneType
  <2> HIDE DEF s
  <2>6. PhoneSound(p, s)
    BY <2>4, <2>5 DEF PhoneSound
  <2>7. QED
    BY <2>3, <2>6
<1>6. CASE PhoneRecvHello(p)
  <2>1. PICK n \in MintIOS(p), kept \in InWindow(ios[p].guard) :
          LET r == EvaluateHello(ios[p].guard, Head(toIos).nonce, ios[p].crypto # None, kept)
              t == Rehandshakes(p, [ios[p] EXCEPT !.guard = r.guard], r.verdict, n)
              u == [t EXCEPT !.nonceMac = Head(toIos).nonce]
              v == EstablishIfPossible(u, p)
          IN ios' = [ios EXCEPT ![p] = t] \/ ios' = [ios EXCEPT ![p] = v]
    BY <1>6 DEF PhoneRecvHello
  <2> DEFINE r == EvaluateHello(ios[p].guard, Head(toIos).nonce, ios[p].crypto # None, kept)
             g == [ios[p] EXCEPT !.guard = r.guard]
             t == Rehandshakes(p, g, r.verdict, n)
             u == [t EXCEPT !.nonceMac = Head(toIos).nonce]
             v == EstablishIfPossible(u, p)
  <2>2. /\ n \in Nonces /\ Head(toIos).nonce \in Nonces /\ kept \in 0..ios[p].guard.resets
        /\ ios[p].open
    BY <1>1, <1>6, MintType, ChannelTypes, ToIosFields, InWindowType
    DEF PhoneRecvHello, PhoneReceives, PhoneType
  <2>3. r.guard \in GuardType
    BY <1>1, <2>2, EvaluateHelloType DEF PhoneType
  <2>4. ios' = [ios EXCEPT ![p] = t] \/ ios' = [ios EXCEPT ![p] = v]
    BY <2>1
  <2> HIDE DEF r
  <2>5. PhoneSound(p, g) /\ g \in PhoneType /\ g.open
    BY <1>1, <2>2, <2>3, GuardSound
  <2> HIDE DEF g
  <2>6. PhoneSound(p, t) /\ t \in PhoneType
    BY <2>2, <2>5, RehandshakesSound, RehandshakesType
  <2> HIDE DEF t
  <2>7. PhoneSound(p, u) /\ u \in PhoneType
    BY <2>2, <2>6, GuardSound
  <2> HIDE DEF u
  <2>8. PhoneSound(p, v)
    BY <2>7, EstablishSound
  <2> HIDE DEF v
  <2>9. QED
    BY <2>4, <2>6, <2>8
<1>7. CASE PhoneRecvPairAccept(p)
  <2> DEFINE s == [ios[p] EXCEPT !.pairAccepted = TRUE, !.trusted = TRUE]
             t == EstablishIfPossible(s, p)
  <2>1. s \in PhoneType /\ PhoneSound(p, s)
    BY <1>1 DEF PhoneType, PhoneSound
  <2>2. ios' = [ios EXCEPT ![p] = EnsureHandshakeRecoveryRunning(t)]
    BY <1>7 DEF PhoneRecvPairAccept
  <2> HIDE DEF s
  <2>3. t \in PhoneType /\ PhoneSound(p, t)
    BY <2>1, EstablishIfPossibleType, EstablishSound
  <2> HIDE DEF t
  <2>4. QED
    BY <2>2, <2>3, RecoverySound
<1>8. CASE PhoneRecvPairReject(p)
  <2> DEFINE c == Closed(ios[p])
             s == [c EXCEPT !.reconnect = FALSE]
  <2>1. ios' = [ios EXCEPT ![p] = s]
    BY <1>8 DEF PhoneRecvPairReject
  <2>2. c \in PhoneType /\ c.crypto = None /\ ~c.connected /\ ~c.open
    BY <1>1, ClosedFields
  <2> HIDE DEF c
  <2>3. s.crypto = None /\ ~s.connected /\ ~s.open
    BY <2>2 DEF PhoneType
  <2> HIDE DEF s
  <2>4. QED
    BY <2>1, <2>3, KeylessSound
<1>9. CASE PhoneRecvSessionReady(p)
  <2>1. PICK g : g = NoteDecryptSuccess(ios[p].guard)
    OBVIOUS
  <2> DEFINE s == [ios[p] EXCEPT !.connected = TRUE, !.retry = FALSE, !.guard = g]
  <2>2. ios' = [ios EXCEPT ![p] = s]
    BY <1>1, <1>9, <2>1 DEF PhoneRecvSessionReady, PhoneType
  <2>3. ios[p].crypto \in Keys /\ ios[p].open
    BY <1>9, ChannelTypes, ToIosFields DEF PhoneRecvSessionReady, PhoneReceives
  <2>4. ios[p].crypto # None
    BY <2>3, NoneIsNothing
  <2>5. /\ s.crypto = ios[p].crypto /\ s.open = ios[p].open
        /\ s.reconnect = ios[p].reconnect /\ s.nonceIOS = ios[p].nonceIOS
    BY <1>1 DEF PhoneType
  <2> HIDE DEF s
  <2>6. PhoneSound(p, s)
    BY <2>3, <2>4, <2>5 DEF PhoneSound
  <2>7. QED
    BY <2>2, <2>6
<1>10. CASE PhoneRecvUndecryptable(p)
  <2>1. PICK n \in MintIOS(p), kept \in InWindow(ios[p].guard) :
          LET r == NoteDecryptFailure(ios[p].guard, kept)
          IN ios' = [ios EXCEPT ![p] =
                       Rehandshakes(p, [ios[p] EXCEPT !.guard = r.guard], r.verdict, n)]
    BY <1>10 DEF PhoneRecvUndecryptable
  <2> DEFINE r == NoteDecryptFailure(ios[p].guard, kept)
             g == [ios[p] EXCEPT !.guard = r.guard]
  <2>2. n \in Nonces /\ kept \in 0..ios[p].guard.resets /\ ios[p].guard \in GuardType
        /\ ios[p].open
    BY <1>1, <1>10, MintType, InWindowType DEF PhoneType, PhoneRecvUndecryptable, PhoneReceives
  <2>3. r.guard \in GuardType
    BY <2>2, NoteDecryptFailureType
  <2>4. ios' = [ios EXCEPT ![p] = Rehandshakes(p, g, r.verdict, n)]
    BY <2>1
  <2> HIDE DEF r
  <2>5. PhoneSound(p, g) /\ g \in PhoneType /\ g.open
    BY <1>1, <2>2, <2>3, GuardSound
  <2> HIDE DEF g
  <2>6. QED
    BY <2>2, <2>4, <2>5, RehandshakesSound
<1>11. QED
  BY <1>2, <1>3, <1>4, <1>5, <1>6, <1>7, <1>8, <1>9, <1>10 DEF PhoneStep

(* A phone that calls itself connected has a socket and a key of its own   *)
(* current nonce, through any re-key, timeout, drop or refusal, and a phone*)
(* that is to reconnect has no socket yet.                                 *)
THEOREM ConnectedPhonesHaveKeys == Spec => []ConnectedPhoneHasKey
<1>1. ConnectedPhoneHasKey <=> \A p \in Phones : PhoneSound(p, ios[p])
  BY DEF ConnectedPhoneHasKey, PhoneSound
<1>2. Init => ConnectedPhoneHasKey
  BY DEF Init, NewPhone, ConnectedPhoneHasKey
<1>3. TypeOK /\ ConnectedPhoneHasKey /\ [Next]_vars => ConnectedPhoneHasKey'
  <2> SUFFICES ASSUME TypeOK, ConnectedPhoneHasKey, [Next]_vars
               PROVE  ConnectedPhoneHasKey'
    OBVIOUS
  <2>1. CASE UNCHANGED ios
    BY <2>1 DEF ConnectedPhoneHasKey
  <2>2. ASSUME NEW p \in Phones, PhoneStep(p)
        PROVE  ConnectedPhoneHasKey'
    <3>1. PICK s : ios' = [ios EXCEPT ![p] = s] /\ PhoneSound(p, s)
      BY <1>1, <2>2, PhoneStepSound
    <3>2. \A q \in Phones : ios'[q] = IF q = p THEN s ELSE ios[q]
      BY <3>1 DEF TypeOK
    <3>3. \A q \in Phones : PhoneSound(q, ios'[q])
      BY <1>1, <3>1, <3>2
    <3>4. QED
      BY <3>3 DEF ConnectedPhoneHasKey, PhoneSound
  <2>3. CASE MacStep \/ RelayDropsForMac \/ RelayDropsForPhone
    BY <2>1, <2>3 DEF MacStep, MacConnect, MacDisconnect, AgentRestart, Revoke,
       MacRecvHello, MacRecvClientState,
       MacRecvPairRequest, MacRecvUndecryptable, MacRecvSessionReady, PendingPairExpires,
       LockoutEnds, RefreshPairingCode, RelayDropsForMac, RelayDropsForPhone
  <2>4. CASE UNCHANGED vars
    BY <2>1, <2>4 DEF vars
  <2>5. QED
    BY <2>2, <2>3, <2>4 DEF Next
<1>4. QED
  BY TypeCorrect, <1>2, <1>3, PTL DEF Spec

================================================================================
