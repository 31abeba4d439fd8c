------------------------------ MODULE SealedFrames ------------------------------
(***************************************************************************)
(* The sealed data path of one paired phone, step by step.                 *)
(*                                                                         *)
(* RemoteHandshake treats a handler as one step.  Here the agent's two     *)
(* goroutines interleave: "relay" reads the relay socket, re-keys and seals*)
(* SESSION_READY; "ipc" reads the app's socket and seals terminal data.    *)
(* They meet in encryptedRelaySendMu, in sendSeq and in the session fields.*)
(* On the phone a frame is opened by a detached task under the key of that *)
(* moment and applied later on the main actor.                             *)
(*                                                                         *)
(* A key is the pair of HELLO nonces; nonces are minted in order.  `mark`  *)
(* (the last number sealed in a direction under a key) and `reused` only   *)
(* observe.  Unsealed frames take numbers of the agent's counter as well:  *)
(* HELLO does here, the others would only widen the gaps.                  *)
(***************************************************************************)
EXTENDS Naturals, Sequences, RemoteReplayGuard

CONSTANTS
  MaxNonce,     \* bound: HELLO nonces minted by each side
  MaxSendSeq,   \* bound: the agent's sequence numbers
  MaxPhoneSeq,  \* bound: the phone's sequence numbers under one key
  MaxInFlight,  \* bound: frames in flight when a timer, a user or the app sends more
  FaultKinds,   \* the faults that may happen in this instance
  MaxFaults     \* bound: how many of them

ASSUME SealedAssumption ==
  /\ None \notin Nat \cup (Nat \X Nat) \cup {"relay", "ipc"}
  /\ MaxNonce \in Nat /\ MaxSendSeq \in Nat /\ MaxPhoneSeq \in Nat

VARIABLES
  agent,   \* session fields of the helper, and sendSeq
  pc,      \* where each goroutine is in sendEncryptedToRelay
  slot,    \* the frame it sealed and has not written yet
  mutex,   \* who holds encryptedRelaySendMu
  todo,    \* what the relay goroutine's handler still has to do
  phone,   \* the phone's session and transport
  opening, \* frames whose detached decrypt is under way
  toMac, toIos, minted, mark, reused, faults

vars == <<agent, pc, slot, mutex, todo, phone, opening, toMac, toIos, minted, mark, reused, faults>>

agentVars == <<agent, pc, slot, mutex, todo>>
phoneVars == <<phone, opening>>

Goroutines == {"relay", "ipc"}
Nonces     == 1..MaxNonce
Keys       == Nonces \X Nonces

Hello(n)           == [type |-> "hello", nonce |-> n]
Sealed(type, k, s) == [type |-> type, key |-> k, seq |-> s]
IsSealed(f)        == f.type # "hello"

Fault(kind) == kind \in FaultKinds /\ faults < MaxFaults /\ faults' = faults + 1

(* Sealing uses up one number of that direction and key.                   *)
UseNumber(dir, k, n) ==
  /\ mark' = [mark EXCEPT ![dir][k] = n]
  /\ reused' = (reused \/ n <= mark[dir][k])

--------------------------------------------------------------------------------
(* The agent.                                                              *)

NewAgent ==
  [conn |-> FALSE, key |-> None, macNonce |-> None, iosNonce |-> None,
   ready |-> FALSE, sendSeq |-> 1, maxRecv |-> 0]

ResetSession(a) ==
  [a EXCEPT !.key = None, !.macNonce = None, !.iosNonce = None,
            !.ready = FALSE, !.maxRecv = 0]

(* Faulty variant: the high-water mark of the old epoch survives a re-key. *)
AfterHello_KeepsMark(a, n) ==
  IF a.key # None /\ a.iosNonce # n
    THEN [a EXCEPT !.key = None, !.ready = FALSE, !.iosNonce = n]
    ELSE [a EXCEPT !.iosNonce = n]

AfterHello(a, n) ==
  IF a.key # None /\ a.iosNonce # n
    THEN [a EXCEPT !.key = None, !.ready = FALSE, !.maxRecv = 0, !.iosNonce = n]
    ELSE [a EXCEPT !.iosNonce = n]

EstablishSession(a) ==
  IF a.key = None /\ a.macNonce # None /\ a.iosNonce # None
    THEN [a EXCEPT !.key = <<a.macNonce, a.iosNonce>>, !.ready = FALSE]
    ELSE a

TakeSeq(a) == [a EXCEPT !.sendSeq = @ + 1]

RelayIdle == pc["relay"] = "idle" /\ todo = <<>>

MacConnect ==
  /\ ~agent.conn /\ RelayIdle /\ minted.mac < MaxNonce
  /\ minted' = [minted EXCEPT !.mac = @ + 1]
  /\ agent' = [ResetSession(agent) EXCEPT !.conn = TRUE, !.macNonce = minted.mac + 1]
  /\ todo' = <<"hello">>
  /\ UNCHANGED <<pc, slot, mutex, phoneVars, toMac, toIos, mark, reused, faults>>

MacDisconnect ==
  /\ agent.conn /\ RelayIdle
  /\ Fault("macDrop")
  /\ agent' = [ResetSession(agent) EXCEPT !.conn = FALSE]
  /\ UNCHANGED <<pc, slot, mutex, todo, phoneVars, toMac, toIos, minted, mark, reused>>

(* A new process: the counter starts at 1 again, whatever the phone saw.   *)
AgentRestart ==
  /\ Fault("agentRestart")
  /\ agent' = NewAgent
  /\ pc' = [g \in Goroutines |-> "idle"]
  /\ slot' = [g \in Goroutines |-> None]
  /\ mutex' = None
  /\ todo' = <<>>
  /\ UNCHANGED <<phoneVars, toMac, toIos, minted, mark, reused>>

MacReads(type) ==
  /\ agent.conn /\ RelayIdle
  /\ toMac # <<>> /\ Head(toMac).type = type
  /\ toMac' = Tail(toMac)
  /\ UNCHANGED <<pc, slot, mutex, phoneVars, toIos, minted, mark, reused, faults>>

(* handleHello retires the old epoch, then greets, derives and confirms;   *)
(* the other goroutine may run between any two of these.                   *)
MacReadsHello ==
  /\ MacReads("hello")
  /\ agent' = AfterHello(agent, Head(toMac).nonce)
  /\ todo' = <<"hello", "establish", "ready">>

(* decryptPayload: not a replay, and sealed under the current key.         *)
Admits(a, f) == f.seq > a.maxRecv /\ f.key = a.key

(* Faulty variant: the phone's echo of SESSION_READY reopens an epoch that *)
(* its first SESSION_READY had confirmed.                                  *)
Confirm_Reopens(a) == [a EXCEPT !.ready = ~a.ready]

Confirm(a) == [a EXCEPT !.ready = TRUE]

(* SESSION_READY confirms the epoch and is announced to the app (nextSeq); *)
(* the other types go to the app as they are.                              *)
MacReadsReady ==
  /\ MacReads("ready")
  /\ agent' = IF Admits(agent, Head(toMac))
                THEN TakeSeq([Confirm(agent) EXCEPT !.maxRecv = Head(toMac).seq])
                ELSE agent
  /\ UNCHANGED todo

MacReadsData ==
  /\ MacReads("data")
  /\ agent' = IF Admits(agent, Head(toMac))
                THEN [agent EXCEPT !.maxRecv = Head(toMac).seq]
                ELSE agent
  /\ UNCHANGED todo

RelayDoes(what) ==
  /\ pc["relay"] = "idle" /\ todo # <<>> /\ Head(todo) = what
  /\ todo' = Tail(todo)
  /\ UNCHANGED <<slot, mutex, phoneVars, toMac, minted, mark, reused, faults>>

RelaySendsHello ==
  /\ RelayDoes("hello")
  /\ agent' = TakeSeq(agent)
  /\ toIos' = Append(toIos, Hello(agent.macNonce))
  /\ UNCHANGED pc

RelayEstablishes ==
  /\ RelayDoes("establish")
  /\ agent' = EstablishSession(agent)
  /\ UNCHANGED <<pc, toIos>>

RelaySendsReady ==
  /\ RelayDoes("ready")
  /\ pc' = IF agent.key # None THEN [pc EXCEPT !["relay"] = "lock"] ELSE pc
  /\ UNCHANGED <<agent, toIos>>

(* handleIPCFrame: isSessionReady is asked first, under its own lock.      *)
IpcForwards ==
  /\ pc["ipc"] = "idle" /\ Len(toIos) < MaxInFlight
  /\ agent.key # None /\ agent.ready
  /\ pc' = [pc EXCEPT !["ipc"] = "lock"]
  /\ UNCHANGED <<agent, slot, mutex, todo, phoneVars, toMac, toIos, minted, mark, reused, faults>>

SealedType(g) == IF g = "relay" THEN "ready" ELSE "data"

(* Faulty variant: sealing does not wait for the other's write.            *)
MayLock_NoMutex(g) == TRUE

MayLock(g) == mutex = None

(* sendEncryptedToRelay: lock, seal under sessionMu with the next number.  *)
LockAndSeal(g) ==
  /\ pc[g] = "lock" /\ MayLock(g)
  /\ IF agent.key = None
       THEN /\ pc' = [pc EXCEPT ![g] = "idle"]
            /\ UNCHANGED <<agent, slot, mutex, mark, reused>>
       ELSE /\ agent.sendSeq < MaxSendSeq
            /\ mutex' = g
            /\ pc' = [pc EXCEPT ![g] = "write"]
            /\ slot' = [slot EXCEPT ![g] = Sealed(SealedType(g), agent.key, agent.sendSeq)]
            /\ UseNumber("mac", agent.key, agent.sendSeq)
            /\ agent' = TakeSeq(agent)
  /\ UNCHANGED <<todo, phoneVars, toMac, toIos, minted, faults>>

(* sendToRelay: written to whatever socket is open by then, then unlock.   *)
WriteAndUnlock(g) ==
  /\ pc[g] = "write"
  /\ toIos' = IF agent.conn THEN Append(toIos, slot[g]) ELSE toIos
  /\ slot' = [slot EXCEPT ![g] = None]
  /\ pc' = [pc EXCEPT ![g] = "idle"]
  /\ mutex' = None
  /\ UNCHANGED <<agent, todo, phoneVars, toMac, minted, mark, reused, faults>>

--------------------------------------------------------------------------------
(* The phone.                                                              *)

NewPhone ==
  [open |-> FALSE, key |-> None, nonceIOS |-> None, nonceMac |-> None,
   guard |-> NewGuard, seq |-> 1, connected |-> FALSE]

InvalidateSession(s) == [s EXCEPT !.key = None, !.seq = 1, !.guard = NewGuard]

ResetForRehandshake(s, n) ==
  [s EXCEPT !.key = None, !.seq = 1, !.nonceMac = None, !.guard = NewGuard, !.nonceIOS = n]

Closed(s) == [InvalidateSession(s) EXCEPT !.open = FALSE, !.connected = FALSE]

(* transport.close() moves on to the next generation.                      *)
NextGeneration(os) == {[o EXCEPT !.live = FALSE] : o \in os}

(* Faulty variant: a reconnect goes on with the handshake it was in.       *)
StartConnection_KeepsNonces(s) == [Closed(s) EXCEPT !.open = TRUE]

StartConnection(s) == [Closed(s) EXCEPT !.nonceIOS = None, !.nonceMac = None, !.open = TRUE]

CanDerive(s) == s.key = None /\ s.nonceIOS # None /\ s.nonceMac # None

Derive(s) == [s EXCEPT !.key = <<s.nonceMac, s.nonceIOS>>]

PhoneRests == UNCHANGED <<agentVars, minted, mark, reused, faults>>

(* The next frame of the phone takes number s.seq.                         *)
Counted(s) == [s EXCEPT !.seq = @ + 1]

PhoneConnects ==
  /\ ~phone.open
  /\ phone' = StartConnection(phone)
  /\ \E k \in 0..Len(toIos) : toIos' = SubSeq(toIos, k + 1, Len(toIos))
  /\ UNCHANGED <<opening, toMac>>
  /\ PhoneRests

PhoneDrops ==
  /\ phone.open
  /\ Fault("phoneDrop")
  /\ phone' = Closed(phone)
  /\ opening' = NextGeneration(opening)
  /\ UNCHANGED <<toMac, toIos>>
  /\ UNCHANGED <<agentVars, minted, mark, reused>>

(* scheduleHandshake's retry: HELLO with the nonce of this handshake.      *)
PhoneSendsHello ==
  /\ phone.open /\ ~phone.connected /\ phone.seq < MaxPhoneSeq
  /\ Len(toMac) < MaxInFlight
  /\ IF phone.nonceIOS = None
       THEN /\ minted.ios < MaxNonce
            /\ minted' = [minted EXCEPT !.ios = @ + 1]
            /\ phone' = Counted([phone EXCEPT !.nonceIOS = minted.ios + 1])
       ELSE /\ phone' = Counted(phone)
            /\ UNCHANGED minted
  /\ toMac' = Append(toMac, Hello(phone'.nonceIOS))
  /\ UNCHANGED <<agentVars, opening, toIos, mark, reused, faults>>

(* Input, client state, approval responses: only in a confirmed session.   *)
PhoneSendsData ==
  /\ phone.connected /\ phone.key # None /\ phone.seq < MaxPhoneSeq
  /\ Len(toMac) < MaxInFlight
  /\ toMac' = Append(toMac, Sealed("data", phone.key, phone.seq))
  /\ UseNumber("ios", phone.key, phone.seq)
  /\ phone' = Counted(phone)
  /\ UNCHANGED <<agentVars, opening, toIos, minted, faults>>

(* processIncomingMessage: the detached task gets the key of this moment.  *)
PhoneOpens ==
  /\ phone.open /\ toIos # <<>>
  /\ \A o \in opening : ~o.live
  /\ opening' = opening \cup {[frame |-> Head(toIos), key |-> phone.key, live |-> TRUE]}
  /\ toIos' = Tail(toIos)
  /\ UNCHANGED <<phone, toMac>>
  /\ PhoneRests

(* Faulty variant: a result is applied whatever socket it came from.       *)
IsCurrent_NoFence(o) == phone.open

(* The fence after the await.                                              *)
IsCurrent(o) == o.live

Applies(o) == o \in opening /\ opening' = opening \ {o} /\ UNCHANGED toIos

PhoneDiscards(o) ==
  /\ Applies(o) /\ ~IsCurrent(o)
  /\ UNCHANGED <<phone, toMac>>
  /\ PhoneRests

(* A reset ordered by the guard: re-key in place and greet, or close.      *)
Minting(yes) ==
  IF yes
    THEN minted.ios < MaxNonce /\ minted' = [minted EXCEPT !.ios = @ + 1]
    ELSE UNCHANGED minted

Rekeyed(s) ==
  Counted([ResetForRehandshake(s, minted.ios + 1) EXCEPT !.connected = FALSE])

Greeting == <<Hello(minted.ios + 1)>>

(* A HELLO sets the Mac nonce; a fresh key is announced at once.           *)
PhoneAppliesHello(o) ==
  /\ Applies(o) /\ IsCurrent(o) /\ ~IsSealed(o.frame)
  /\ phone.seq < MaxPhoneSeq
  /\ LET r == EvaluateHello(phone.guard, o.frame.nonce, phone.key # None, phone.guard.resets)
         s == [phone EXCEPT !.guard = r.guard]
         accepts == r.verdict = "accept"
         t == [(IF accepts THEN s ELSE Rekeyed(s)) EXCEPT !.nonceMac = o.frame.nonce]
         u == Derive(t)
         greeting == IF accepts THEN <<>> ELSE Greeting
     IN /\ Minting(~accepts)
        /\ IF r.verdict = "escalate"
             THEN /\ phone' = Closed(Rekeyed(s))
                  /\ UNCHANGED <<toMac, mark, reused>>
             ELSE IF CanDerive(t)
               THEN /\ phone' = Counted(u)
                    /\ toMac' = toMac \o greeting \o <<Sealed("ready", u.key, u.seq)>>
                    /\ UseNumber("ios", u.key, u.seq)
               ELSE /\ phone' = t
                    /\ toMac' = toMac \o greeting
                    /\ UNCHANGED <<mark, reused>>
  /\ UNCHANGED <<agentVars, faults>>

Opened(o) == IsSealed(o.frame) /\ o.key = o.frame.key

PhoneFailsToOpen(o) ==
  /\ Applies(o) /\ IsCurrent(o) /\ IsSealed(o.frame) /\ ~Opened(o)
  /\ LET r == NoteDecryptFailure(phone.guard, phone.guard.resets)
         s == [phone EXCEPT !.guard = r.guard]
     IN /\ Minting(r.verdict # "drop")
        /\ phone' = CASE r.verdict = "drop"         -> s
                      [] r.verdict = "resetSession" -> Rekeyed(s)
                      [] OTHER                      -> Closed(Rekeyed(s))
        /\ toMac' = IF r.verdict = "resetSession" THEN toMac \o Greeting ELSE toMac
  /\ UNCHANGED <<agentVars, mark, reused, faults>>

(* An opened frame passes the replay guard; SESSION_READY is echoed.       *)
PhoneAppliesSealed(o) ==
  /\ Applies(o) /\ IsCurrent(o) /\ Opened(o) /\ phone.key # None
  /\ phone.seq < MaxPhoneSeq
  /\ LET r == EvaluateEncryptedFrame(phone.guard, o.frame.seq)
         s == [phone EXCEPT !.guard = NoteDecryptSuccess(r.guard)]
     IN IF r.verdict = "accept" /\ o.frame.type = "ready"
          THEN /\ phone' = Counted([s EXCEPT !.connected = TRUE])
               /\ toMac' = Append(toMac, Sealed("ready", s.key, s.seq))
               /\ UseNumber("ios", s.key, s.seq)
          ELSE /\ phone' = IF r.verdict = "accept" THEN s ELSE phone
               /\ UNCHANGED <<toMac, mark, reused>>
  /\ UNCHANGED <<agentVars, minted, faults>>

(* The relay keeps nothing for a peer that is not there.                   *)
RelayDrops ==
  /\ \/ ~agent.conn /\ toMac # <<>> /\ toMac' = Tail(toMac) /\ UNCHANGED toIos
     \/ ~phone.open /\ toIos # <<>> /\ toIos' = Tail(toIos) /\ UNCHANGED toMac
  /\ UNCHANGED <<agentVars, phoneVars, minted, mark, reused, faults>>

--------------------------------------------------------------------------------
Init ==
  /\ agent = NewAgent
  /\ pc = [g \in Goroutines |-> "idle"]
  /\ slot = [g \in Goroutines |-> None]
  /\ mutex = None
  /\ todo = <<>>
  /\ phone = NewPhone
  /\ opening = {}
  /\ toMac = <<>>
  /\ toIos = <<>>
  /\ minted = [mac |-> 0, ios |-> 0]
  /\ mark = [d \in {"mac", "ios"} |-> [k \in Keys |-> 0]]
  /\ reused = FALSE
  /\ faults = 0

AgentStep ==
  \/ MacConnect \/ MacDisconnect \/ AgentRestart
  \/ MacReadsHello \/ MacReadsReady \/ MacReadsData
  \/ RelaySendsHello \/ RelayEstablishes \/ RelaySendsReady
  \/ IpcForwards
  \/ \E g \in Goroutines : LockAndSeal(g) \/ WriteAndUnlock(g)

PhoneStep ==
  \/ PhoneConnects \/ PhoneDrops \/ PhoneSendsHello \/ PhoneSendsData \/ PhoneOpens
  \/ \E o \in opening :
       \/ PhoneDiscards(o) \/ PhoneAppliesHello(o)
       \/ PhoneFailsToOpen(o) \/ PhoneAppliesSealed(o)

Next == AgentStep \/ PhoneStep \/ RelayDrops

Spec == Init /\ [][Next]_vars

--------------------------------------------------------------------------------
(* Types.                                                                  *)
NonceOrNone == Nonces \cup {None}
KeyOrNone   == Keys \cup {None}
HelloFrames  == [type : {"hello"}, nonce : Nonces]
SealedFrame  == [type : {"ready", "data"}, key : Keys, seq : Nat]
Frames       == HelloFrames \cup SealedFrame

AgentType ==
  [conn : BOOLEAN, key : KeyOrNone, macNonce : NonceOrNone, iosNonce : NonceOrNone,
   ready : BOOLEAN, sendSeq : Nat \ {0}, maxRecv : Nat]

GuardType ==
  [maxSeq : Nat, failures : 0..(DecryptFailureThreshold - 1), nonce : NonceOrNone,
   resets : 0..MaxEpochResets]

PhoneType ==
  [open : BOOLEAN, key : KeyOrNone, nonceIOS : NonceOrNone, nonceMac : NonceOrNone,
   guard : GuardType, seq : Nat \ {0}, connected : BOOLEAN]

(* Type invariant of both ends, the goroutines and the frames in flight.   *)
TypeOK ==
  /\ agent \in AgentType
  /\ pc \in [Goroutines -> {"idle", "lock", "write"}]
  /\ slot \in [Goroutines -> Frames \cup {None}]
  /\ mutex \in Goroutines \cup {None}
  /\ todo \in Seq({"hello", "establish", "ready"})
  /\ phone \in PhoneType
  /\ opening \subseteq [frame : Frames, key : KeyOrNone, live : BOOLEAN]
  /\ toMac \in Seq(Frames)
  /\ toIos \in Seq(Frames)
  /\ minted \in [mac : 0..MaxNonce, ios : 0..MaxNonce]
  /\ mark \in [{"mac", "ios"} -> [Keys -> Nat]]
  /\ reused \in BOOLEAN
  /\ faults \in Nat

--------------------------------------------------------------------------------
(* Properties.                                                             *)

(* "keeps outbound encrypted sequence assignment and WebSocket writes in   *)
(* the same order": of two sealed frames of one key on their way to the    *)
(* phone, the later one has the larger number, whichever goroutine wrote   *)
(* it and whatever re-key happened between its seal and its write.         *)
SealedInOrder ==
  \A i, j \in 1..Len(toIos) :
    i < j /\ IsSealed(toIos[i]) /\ IsSealed(toIos[j]) /\ toIos[i].key = toIos[j].key
      => toIos[i].seq < toIos[j].seq

(* "a client that kept its high-water mark would then drop every           *)
(* subsequent frame": a frame the phone opened under its own key is never  *)
(* taken for a replay, through re-keys, restarts of the agent's counter    *)
(* and decrypts that finish after their socket is gone.                    *)
PhoneDropsNoAuthenticFrame ==
  \A o \in opening :
    IsCurrent(o) /\ Opened(o) => o.frame.seq > phone.guard.maxSeq /\ o.key = phone.key

(* The same for the agent's maxReceivedSeq and the phone's counter, which  *)
(* starts at 1 with every key.                                             *)
MacDropsNoAuthenticFrame ==
  toMac # <<>> /\ IsSealed(Head(toMac)) /\ Head(toMac).key = agent.key
    => Head(toMac).seq > agent.maxRecv

(* No number is sealed twice, or out of order, under one key and direction *)
(* (it is the AEAD nonce): both counters restart, so every restart must    *)
(* come with a new key.                                                    *)
NonceUsedOnce == ~reused

(* Input reaches the app only in a confirmed epoch: handleRelayFrame does  *)
(* not ask for sessionReady, the phone's SESSION_READY has to come first.  *)
InputAfterConfirmation ==
  /\ toMac # <<>>
  /\ Head(toMac).type = "data"
  /\ Admits(agent, Head(toMac))
  => agent.ready

--------------------------------------------------------------------------------
(* Why the properties hold: an inductive invariant in parts.               *)

(* The agent's key is made of its two nonces; the socket and the nonce of  *)
(* its connection come and go together; without a key nothing was received.*)
AgentEpoch ==
  /\ agent.conn <=> agent.macNonce # None
  /\ agent.macNonce # None => agent.macNonce <= minted.mac
  /\ agent.iosNonce # None => agent.iosNonce <= minted.ios
  /\ agent.key # None =>
       /\ agent.macNonce # None /\ agent.iosNonce # None
       /\ agent.key = <<agent.macNonce, agent.iosNonce>>
  /\ agent.key = None => agent.maxRecv = 0
  /\ todo # <<>> => agent.conn

(* The phone's nonce is the newest it minted, and its key was made of it.  *)
PhoneEpoch ==
  /\ phone.nonceIOS # None => phone.nonceIOS = minted.ios
  /\ phone.key # None => phone.open /\ phone.nonceIOS # None /\ phone.key[2] = phone.nonceIOS
  /\ phone.key = None => phone.guard.maxSeq = 0 /\ ~phone.connected

(* What the agent may still seal is above what it sealed: keys of nonces   *)
(* not yet minted are unused, and its counter is above every number it used*)
(* under the nonce of its connection.                                      *)
MacNumbers ==
  \A k \in Keys :
    /\ k[1] > minted.mac => mark["mac"][k] = 0
    /\ k[1] = agent.macNonce => mark["mac"][k] < agent.sendSeq

(* The same for the phone, whose counter starts again with every key.      *)
IosNumbers ==
  /\ \A k \in Keys : k[2] > minted.ios => mark["ios"][k] = 0
  /\ phone.key # None => mark["ios"][phone.key] < phone.seq
  /\ phone.open /\ phone.key = None /\ phone.nonceIOS # None =>
       \A k \in Keys : k[2] = phone.nonceIOS => mark["ios"][k] = 0

(* HELLOs reach the agent in the order their nonces were minted ...        *)
HellosInOrder ==
  /\ \A i \in 1..Len(toMac) : ~IsSealed(toMac[i]) =>
       /\ toMac[i].nonce <= minted.ios
       /\ agent.iosNonce # None => agent.iosNonce <= toMac[i].nonce
  /\ \A i, j \in 1..Len(toMac) :
       i < j /\ ~IsSealed(toMac[i]) /\ ~IsSealed(toMac[j]) => toMac[i].nonce <= toMac[j].nonce

(* ... so the agent never goes back to a key it sealed with and retired.   *)
KeysRetireForGood ==
  \A k \in Keys :
    k[1] = agent.macNonce /\ mark["mac"][k] > 0 =>
      /\ agent.iosNonce # None
      /\ k[2] < agent.iosNonce \/ k = agent.key

(* encryptedRelaySendMu: whoever has a sealed frame in hand holds it.      *)
WriterHoldsMutex ==
  \A g \in Goroutines : pc[g] = "write" => mutex = g /\ slot[g] \in SealedFrame

(* At most one decrypt is current, under the key the phone still has.      *)
OneCurrentDecrypt ==
  /\ \A o \in opening : o.live => phone.open /\ o.key = phone.key
  /\ \A o, q \in opening : o.live /\ q.live => o = q

(* Sealed by the agent, and above all that the phone accepted under f.key. *)
FreshForPhone(f) ==
  /\ 0 < f.seq /\ f.seq <= mark["mac"][f.key]
  /\ f.key = phone.key => phone.guard.maxSeq < f.seq

(* f reaches the phone before e.                                           *)
Before(f, e) == IsSealed(f) /\ IsSealed(e) /\ f.key = e.key => f.seq < e.seq

(* The frames on their way to the phone: being opened, in flight, in hand. *)
PhoneAhead ==
  /\ \A i \in 1..Len(toIos) : IsSealed(toIos[i]) => FreshForPhone(toIos[i])
  /\ \A g \in Goroutines : pc[g] = "write" =>
       /\ FreshForPhone(slot[g])
       /\ \A i \in 1..Len(toIos) : Before(toIos[i], slot[g])
  /\ \A o \in opening : o.live =>
       /\ IsSealed(o.frame) => FreshForPhone(o.frame)
       /\ \A i \in 1..Len(toIos) : Before(o.frame, toIos[i])
       /\ \A g \in Goroutines : pc[g] = "write" => Before(o.frame, slot[g])
  /\ phone.key # None => phone.guard.maxSeq <= mark["mac"][phone.key]

(* The frames on their way to the agent.                                   *)
MacAhead ==
  /\ \A i \in 1..Len(toMac) : IsSealed(toMac[i]) =>
       /\ 0 < toMac[i].seq /\ toMac[i].seq <= mark["ios"][toMac[i].key]
       /\ toMac[i].key = agent.key => agent.maxRecv < toMac[i].seq
  /\ \A i, j \in 1..Len(toMac) : i < j => Before(toMac[i], toMac[j])
  /\ agent.key # None => agent.maxRecv <= mark["ios"][agent.key]

(* A ready frame of the agent's key is among the first n for the agent.    *)
ReadyWithin(n) ==
  \E j \in 1..n : toMac[j].type = "ready" /\ toMac[j].key = agent.key

(* Input is sealed only after the agent sealed SESSION_READY under the same*)
(* key, and travels behind the phone's own SESSION_READY.                  *)
ConfirmationFirst ==
  /\ phone.connected => mark["mac"][phone.key] > 0
  /\ phone.connected /\ phone.key = agent.key => agent.ready \/ ReadyWithin(Len(toMac))
  /\ \A i \in 1..Len(toMac) : toMac[i].type = "data" =>
       /\ mark["mac"][toMac[i].key] > 0
       /\ toMac[i].key = agent.key => agent.ready \/ ReadyWithin(i - 1)

(* The inductive invariant: two goroutines, two counters that restart and  *)
(* decrypts that finish late never meet under one key.                     *)
SealedInv ==
  /\ TypeOK /\ NonceUsedOnce /\ SealedInOrder
  /\ AgentEpoch /\ PhoneEpoch /\ MacNumbers /\ IosNumbers
  /\ HellosInOrder /\ KeysRetireForGood /\ WriterHoldsMutex /\ OneCurrentDecrypt
  /\ PhoneAhead /\ MacAhead /\ ConfirmationFirst

================================================================================
