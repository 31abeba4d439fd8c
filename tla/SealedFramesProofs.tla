--------------------------- MODULE SealedFramesProofs ---------------------------
(***************************************************************************)
(* Machine-checked proofs about SealedFrames: for any number of nonces,    *)
(* sequence numbers, frames in flight and faults.                          *)
(***************************************************************************)
EXTENDS SealedFrames, TLAPS

--------------------------------------------------------------------------------
(* Channels: what an index means after a frame was read, lost or written.  *)

(* Reading takes the first frame and moves the others up.                  *)
LEMMA TailOfChannel ==
  ASSUME NEW s \in Seq(Frames), s # <<>>
  PROVE  /\ Tail(s) \in Seq(Frames)
         /\ Len(s) \in Nat /\ Len(s) >= 1
         /\ Len(Tail(s)) = Len(s) - 1
         /\ Head(s) = s[1] /\ Head(s) \in Frames
         /\ \A i \in 1..Len(Tail(s)) : Tail(s)[i] = s[i + 1]
  OBVIOUS

(* Writing puts one frame behind the others.                               *)
LEMMA AppendToChannel ==
  ASSUME NEW s \in Seq(Frames), NEW f \in Frames
  PROVE  /\ Append(s, f) \in Seq(Frames)
         /\ Len(s) \in Nat
         /\ Len(Append(s, f)) = Len(s) + 1
         /\ Append(s, f)[Len(s) + 1] = f
         /\ \A i \in 1..Len(s) : Append(s, f)[i] = s[i]
  OBVIOUS

(* A HELLO and a sealed frame written in one step.                         *)
LEMMA TwoToChannel ==
  ASSUME NEW s \in Seq(Frames), NEW h \in Frames, NEW f \in Frames
  PROVE  LET t == s \o <<h>> \o <<f>>
         IN  /\ t \in Seq(Frames) /\ Len(s) \in Nat /\ Len(t) = Len(s) + 1 + 1
             /\ t[Len(s) + 1] = h /\ t[Len(s) + 1 + 1] = f
             /\ \A i \in 1..Len(s) : t[i] = s[i]
<1> DEFINE q == Append(s, h)
           t == Append(q, f)
<1>1. s \o <<h>> \o <<f>> = t
  OBVIOUS
<1>2. /\ q \in Seq(Frames) /\ Len(s) \in Nat /\ Len(q) = Len(s) + 1
      /\ q[Len(s) + 1] = h /\ \A i \in 1..Len(s) : q[i] = s[i]
  BY AppendToChannel
<1> HIDE DEF q
<1>3. /\ t \in Seq(Frames) /\ Len(t) = Len(q) + 1
      /\ t[Len(q) + 1] = f /\ \A i \in 1..Len(q) : t[i] = q[i]
  BY <1>2, AppendToChannel
<1> HIDE DEF t
<1>4. /\ Len(t) = Len(s) + 1 + 1 /\ t[Len(s) + 1] = h /\ t[Len(s) + 1 + 1] = f
      /\ \A i \in 1..Len(s) : t[i] = s[i]
  BY <1>2, <1>3
<1>5. QED
  BY <1>1, <1>2, <1>3, <1>4

(* Frames lost before a connection are the first ones.                     *)
LEMMA SuffixOfChannel ==
  ASSUME NEW s \in Seq(Frames), NEW k \in 0..Len(s)
  PROVE  LET t == SubSeq(s, k + 1, Len(s))
         IN  /\ t \in Seq(Frames)
             /\ Len(s) \in Nat /\ Len(t) = Len(s) - k
             /\ \A i \in 1..Len(t) : t[i] = s[i + k]
  OBVIOUS

(* A frame is a HELLO or a sealed one; None is none of the session's values.*)
LEMMA FrameKinds ==
  /\ \A f \in Frames : IsSealed(f) <=> f \in SealedFrame
  /\ \A f \in Frames : ~IsSealed(f) <=> f \in HelloFrames
  BY DEF Frames, HelloFrames, SealedFrame, IsSealed

(* An absent nonce or key is none of the nonces and keys.                  *)
LEMMA NoneIsNothing == None \notin Nonces /\ None \notin Keys
  BY SealedAssumption DEF SealedAssumption, Nonces, Keys

(* Sealed builds a sealed frame, Hello a HELLO.                            *)
LEMMA SealedIsFrame ==
  ASSUME NEW t \in {"ready", "data"}, NEW k \in Keys, NEW n \in Nat
  PROVE  /\ Sealed(t, k, n) \in SealedFrame /\ Sealed(t, k, n) \in Frames
         /\ IsSealed(Sealed(t, k, n))
         /\ Sealed(t, k, n).type = t /\ Sealed(t, k, n).key = k /\ Sealed(t, k, n).seq = n
  BY DEF Sealed, SealedFrame, Frames, IsSealed

LEMMA HelloIsFrame ==
  ASSUME NEW n \in Nonces
  PROVE  /\ Hello(n) \in HelloFrames /\ Hello(n) \in Frames
         /\ ~IsSealed(Hello(n)) /\ Hello(n).nonce = n /\ Hello(n).type = "hello"
  BY DEF Hello, HelloFrames, Frames, IsSealed

--------------------------------------------------------------------------------
(* The replay guard.                                                       *)

(* The guard after a reset, and after its counters are set back.           *)
LEMMA NewGuardType == NewGuard \in GuardType /\ NewGuard.maxSeq = 0
  BY GuardAssumption DEF GuardAssumption, NewGuard, GuardType, NonceOrNone

LEMMA ResetCountersType ==
  ASSUME NEW g \in GuardType
  PROVE  ResetCounters(g) \in GuardType /\ ResetCounters(g).resets = g.resets
<1>1. 0 \in 0..(DecryptFailureThreshold - 1)
  BY GuardAssumption DEF GuardAssumption
<1>2. QED
  BY <1>1 DEF ResetCounters, GuardType

(* admitEpochReset stays within the budget of resets.                      *)
LEMMA AdmitEpochResetType ==
  ASSUME NEW g \in GuardType, NEW kept \in 0..g.resets
  PROVE  /\ AdmitEpochReset(g, kept).guard \in GuardType
         /\ AdmitEpochReset(g, kept).verdict \in {"resetSession", "escalate"}
  BY GuardAssumption DEF GuardAssumption, AdmitEpochReset, GuardType

(* A HELLO that is accepted leaves the high-water mark alone.              *)
LEMMA EvaluateHelloType ==
  ASSUME NEW g \in GuardType, NEW m \in Nonces, NEW hasKey \in BOOLEAN
  PROVE  LET r == EvaluateHello(g, m, hasKey, g.resets)
         IN  /\ r.guard \in GuardType
             /\ r.verdict \in {"accept", "resetSession", "escalate"}
             /\ r.verdict = "accept" => r.guard.maxSeq = g.maxSeq
             /\ ~hasKey => r.verdict = "accept"
<1> DEFINE a == AdmitEpochReset(ResetCounters(g), g.resets)
           c == hasKey /\ g.nonce # None /\ g.nonce # m
           q == IF c THEN a ELSE [guard |-> g, verdict |-> "accept"]
           r == EvaluateHello(g, m, hasKey, g.resets)
<1>1. a.guard \in GuardType /\ a.verdict \in {"resetSession", "escalate"}
  <2>1. ResetCounters(g) \in GuardType /\ g.resets \in 0..ResetCounters(g).resets
    BY ResetCountersType DEF GuardType
  <2>2. QED
    BY <2>1, AdmitEpochResetType
<1>2. a = [guard |-> a.guard, verdict |-> a.verdict]
  BY DEF AdmitEpochReset
<1> HIDE DEF a
<1>3. q.guard \in GuardType /\ q = [guard |-> q.guard, verdict |-> q.verdict]
  BY <1>1, <1>2
<1>4. r = [q EXCEPT !.guard.nonce = m]
  BY DEF EvaluateHello, a
<1>5. q.verdict = "accept" => q.guard = g
  BY <1>1
<1>6. ~hasKey => q.verdict = "accept"
  OBVIOUS
<1>7. q.verdict \in {"accept", "resetSession", "escalate"}
  BY <1>1
<1> HIDE DEF q, r
<1>8. r.guard = [q.guard EXCEPT !.nonce = m] /\ r.verdict = q.verdict
  BY <1>3, <1>4
<1>9. r.guard \in GuardType /\ r.guard.maxSeq = q.guard.maxSeq
  BY <1>3, <1>8 DEF GuardType, NonceOrNone
<1>10. QED
  BY <1>5, <1>6, <1>7, <1>8, <1>9 DEF r

(* A frame that does not open leaves the high-water mark alone or orders a *)
(* reset.                                                                  *)
LEMMA NoteDecryptFailureType ==
  ASSUME NEW g \in GuardType
  PROVE  LET r == NoteDecryptFailure(g, g.resets)
         IN  /\ r.guard \in GuardType
             /\ r.verdict \in {"drop", "resetSession", "escalate"}
             /\ r.verdict = "drop" => r.guard.maxSeq = g.maxSeq
<1>1. ResetCounters(g) \in GuardType /\ g.resets \in 0..ResetCounters(g).resets
  BY ResetCountersType DEF GuardType
<1>2. /\ AdmitEpochReset(ResetCounters(g), g.resets).guard \in GuardType
      /\ AdmitEpochReset(ResetCounters(g), g.resets).verdict \in {"resetSession", "escalate"}
  BY <1>1, AdmitEpochResetType
<1>3. QED
  BY <1>2, GuardAssumption DEF GuardAssumption, NoteDecryptFailure, GuardType

(* A frame above the mark is accepted and becomes the mark.                *)
LEMMA AcceptedFrameType ==
  ASSUME NEW g \in GuardType, NEW n \in Nat
  PROVE  LET r == EvaluateEncryptedFrame(g, n)
             h == NoteDecryptSuccess(r.guard)
         IN  /\ h \in GuardType
             /\ r.verdict = "accept" <=> n > g.maxSeq
             /\ r.verdict = "accept" => h.maxSeq = n
<1> DEFINE r == EvaluateEncryptedFrame(g, n)
           h == NoteDecryptSuccess(r.guard)
<1>1. 0 \in 0..(DecryptFailureThreshold - 1) /\ 0 \in 0..MaxEpochResets
  BY GuardAssumption DEF GuardAssumption
<1>2. /\ r.guard \in GuardType
      /\ r.verdict = "accept" <=> n > g.maxSeq
      /\ r.verdict = "accept" => r.guard.maxSeq = n
  BY DEF EvaluateEncryptedFrame, GuardType
<1> HIDE DEF r
<1>3. h \in GuardType /\ h.maxSeq = r.guard.maxSeq
  BY <1>1, <1>2 DEF NoteDecryptSuccess, GuardType
<1>4. QED
  BY <1>2, <1>3 DEF r

--------------------------------------------------------------------------------
(* Parts of the invariant that a step leaves alone.                        *)

LEMMA PhoneEpochKept ==
  ASSUME PhoneEpoch, UNCHANGED phone, minted'.ios = minted.ios
  PROVE  PhoneEpoch'
  BY DEF PhoneEpoch

LEMMA IosNumbersKept ==
  ASSUME IosNumbers, UNCHANGED phone, minted'.ios = minted.ios, mark'["ios"] = mark["ios"]
  PROVE  IosNumbers'
  BY DEF IosNumbers

LEMMA MacNumbersKept ==
  ASSUME MacNumbers, agent'.macNonce = agent.macNonce, agent'.sendSeq = agent.sendSeq,
         minted'.mac = minted.mac, mark'["mac"] = mark["mac"]
  PROVE  MacNumbers'
  BY DEF MacNumbers

LEMMA KeysRetireKept ==
  ASSUME KeysRetireForGood, agent'.macNonce = agent.macNonce,
         agent'.iosNonce = agent.iosNonce, agent'.key = agent.key,
         mark'["mac"] = mark["mac"]
  PROVE  KeysRetireForGood'
  BY DEF KeysRetireForGood

LEMMA WriterKept ==
  ASSUME WriterHoldsMutex, UNCHANGED <<pc, slot, mutex>>
  PROVE  WriterHoldsMutex'
  BY DEF WriterHoldsMutex

LEMMA CurrentDecryptKept ==
  ASSUME OneCurrentDecrypt, phone'.open = phone.open, phone'.key = phone.key, UNCHANGED opening
  PROVE  OneCurrentDecrypt'
  BY DEF OneCurrentDecrypt

LEMMA SealedInOrderKept ==
  ASSUME SealedInOrder, UNCHANGED toIos
  PROVE  SealedInOrder'
  BY DEF SealedInOrder, IsSealed

LEMMA HellosKept ==
  ASSUME HellosInOrder, UNCHANGED toMac, agent'.iosNonce = agent.iosNonce,
         minted'.ios = minted.ios
  PROVE  HellosInOrder'
  BY DEF HellosInOrder, IsSealed

LEMMA MacAheadKept ==
  ASSUME MacAhead, UNCHANGED toMac, agent'.key = agent.key, agent'.maxRecv = agent.maxRecv,
         mark'["ios"] = mark["ios"]
  PROVE  MacAhead'
  BY DEF MacAhead, Before, IsSealed

LEMMA ConfirmationKept ==
  ASSUME ConfirmationFirst, UNCHANGED <<toMac, phone>>, agent'.key = agent.key,
         agent'.ready = agent.ready, mark'["mac"] = mark["mac"]
  PROVE  ConfirmationFirst'
  BY DEF ConfirmationFirst, ReadyWithin

LEMMA PhoneAheadKept ==
  ASSUME PhoneAhead, UNCHANGED <<toIos, pc, slot, opening, phone>>, mark'["mac"] = mark["mac"]
  PROVE  PhoneAhead'
  BY DEF PhoneAhead, FreshForPhone, Before, IsSealed

--------------------------------------------------------------------------------
(* Steps that shorten the way to the phone, or give it a new epoch: the    *)
(* frames that remain are as fresh as before.                              *)
LEMMA PhoneAheadShrinks ==
  ASSUME TypeOK, TypeOK', PhoneAhead, SealedInOrder, WriterHoldsMutex,
         NEW k \in Nat, Len(toIos') = Len(toIos) - k,
         \A i \in 1..Len(toIos') : toIos'[i] = toIos[i + k],
         mark'["mac"] = mark["mac"],
         \A g \in Goroutines : pc'[g] = "write" => pc[g] = "write" /\ slot'[g] = slot[g],
         \A o \in opening' : o.live => o \in opening,
         \/ phone'.guard.maxSeq = 0
         \/ phone'.key = phone.key /\ phone'.guard.maxSeq = phone.guard.maxSeq
  PROVE  PhoneAhead' /\ SealedInOrder'
<1> USE DEF IsSealed
<1>1. Len(toIos) \in Nat /\ Len(toIos') \in Nat
  BY DEF TypeOK
<1>2. \A i \in 1..Len(toIos') : i + k \in 1..Len(toIos)
  BY <1>1
<1>3. SealedInOrder'
  BY <1>1, <1>2 DEF SealedInOrder
<1> DEFINE Fresh(f) == /\ 0 < f.seq /\ f.seq <= mark'["mac"][f.key]
                       /\ f.key = phone'.key => phone'.guard.maxSeq < f.seq
<1>4. \A f \in SealedFrame : FreshForPhone(f) => Fresh(f)
  BY DEF FreshForPhone, TypeOK, SealedFrame
<1>5. \A i \in 1..Len(toIos') : IsSealed(toIos'[i]) => Fresh(toIos'[i])
  <2> SUFFICES ASSUME NEW i \in 1..Len(toIos'), IsSealed(toIos'[i])
               PROVE  Fresh(toIos'[i])
    OBVIOUS
  <2>1. i + k \in 1..Len(toIos) /\ toIos'[i] = toIos[i + k]
    BY <1>2
  <2>2. toIos[i + k] \in SealedFrame
    BY <2>1, FrameKinds DEF TypeOK
  <2>3. QED
    BY <1>4, <2>1, <2>2 DEF PhoneAhead
<1>6. ASSUME NEW g \in Goroutines, pc'[g] = "write"
      PROVE  /\ Fresh(slot'[g])
             /\ \A i \in 1..Len(toIos') : Before(toIos'[i], slot'[g])
  BY <1>2, <1>4, <1>6 DEF PhoneAhead, WriterHoldsMutex
<1>7. ASSUME NEW o \in opening', o.live
      PROVE  /\ IsSealed(o.frame) => Fresh(o.frame)
             /\ \A i \in 1..Len(toIos') : Before(o.frame, toIos'[i])
             /\ \A g \in Goroutines : pc'[g] = "write" => Before(o.frame, slot'[g])
  <2>1. o \in opening /\ (IsSealed(o.frame) => o.frame \in SealedFrame)
    BY <1>7, FrameKinds DEF TypeOK
  <2>2. QED
    BY <1>2, <1>4, <1>7, <2>1 DEF PhoneAhead
<1>8. phone'.key # None => phone'.guard.maxSeq <= mark'["mac"][phone'.key]
  BY DEF PhoneAhead, TypeOK, PhoneType, KeyOrNone
<1>9. QED
  BY <1>3, <1>5, <1>6, <1>7, <1>8 DEF PhoneAhead, FreshForPhone, Before

--------------------------------------------------------------------------------
(* The agent's steps.                                                      *)

(* After resetSession there is no key a frame could be taken under.        *)
LEMMA KeylessAgent ==
  ASSUME SealedInv, agent'.key = None, agent'.maxRecv = 0, agent'.iosNonce = None,
         UNCHANGED <<toMac, phone, mark>>, minted'.ios = minted.ios
  PROVE  MacAhead' /\ ConfirmationFirst' /\ HellosInOrder'
<1> USE DEF IsSealed
<1>1. \A i \in 1..Len(toMac) : toMac[i] \in Frames
  BY DEF SealedInv, TypeOK
<1>2. \A i \in 1..Len(toMac) : IsSealed(toMac[i]) => toMac[i].key # None
  BY <1>1, FrameKinds, NoneIsNothing DEF SealedFrame
<1>3. MacAhead'
  BY <1>2 DEF SealedInv, MacAhead, Before
<1>4. phone.connected => phone.key # None
  BY DEF SealedInv, PhoneEpoch
<1>5. ConfirmationFirst'
  BY <1>2, <1>4 DEF SealedInv, ConfirmationFirst
<1>6. HellosInOrder'
  BY DEF SealedInv, HellosInOrder
<1>7. QED
  BY <1>3, <1>5, <1>6

(* handleRelayConnected: a fresh nonce makes every key of it unused.       *)
LEMMA MacConnectStep ==
  ASSUME SealedInv, MacConnect
  PROVE  SealedInv'
<1> USE DEF SealedInv
<1>1. /\ minted' = [minted EXCEPT !.mac = @ + 1] /\ minted.mac < MaxNonce
      /\ minted.mac \in Nat /\ minted.mac + 1 \in Nonces
      /\ minted'.mac = minted.mac + 1 /\ minted'.ios = minted.ios
  BY SealedAssumption DEF SealedAssumption, MacConnect, TypeOK, Nonces
<1>2. /\ agent' \in AgentType
      /\ agent'.conn /\ agent'.key = None /\ agent'.macNonce = minted.mac + 1
      /\ agent'.iosNonce = None /\ agent'.maxRecv = 0 /\ agent'.sendSeq = agent.sendSeq
  BY <1>1 DEF MacConnect, ResetSession, TypeOK, AgentType, NonceOrNone, KeyOrNone
<1>3. UNCHANGED <<pc, slot, mutex, phone, opening, toMac, toIos, mark, reused, faults>>
  BY DEF MacConnect, phoneVars
<1>4. TypeOK'
  <2>1. minted' \in [mac : 0..MaxNonce, ios : 0..MaxNonce]
    <3>1. minted.mac + 1 \in 0..MaxNonce
      BY <1>1 DEF Nonces
    <3>2. QED
      BY <1>1, <3>1 DEF TypeOK
  <2>2. todo' \in Seq({"hello", "establish", "ready"})
    BY DEF MacConnect
  <2>3. QED
    BY <1>2, <1>3, <2>1, <2>2 DEF TypeOK
<1>5. AgentEpoch'
  BY <1>1, <1>2, NoneIsNothing DEF AgentEpoch
<1>6. MacNumbers' /\ KeysRetireForGood'
  <2>1. \A k \in Keys : k[1] \in Nat
    BY DEF Keys, Nonces
  <2>2. \A k \in Keys : k[1] > minted.mac => mark'["mac"][k] = 0
    BY <1>3 DEF MacNumbers
  <2>3. agent'.sendSeq \in Nat \ {0}
    BY <1>2 DEF AgentType
  <2>4. QED
    BY <1>1, <1>2, <2>1, <2>2, <2>3 DEF MacNumbers, KeysRetireForGood
<1>7. MacAhead' /\ ConfirmationFirst' /\ HellosInOrder'
  BY <1>1, <1>2, <1>3, KeylessAgent
<1>8. PhoneEpoch' /\ IosNumbers' /\ WriterHoldsMutex' /\ OneCurrentDecrypt' /\ SealedInOrder'
      /\ PhoneAhead' /\ NonceUsedOnce'
  BY <1>1, <1>3, PhoneEpochKept, IosNumbersKept, WriterKept, CurrentDecryptKept,
     SealedInOrderKept, PhoneAheadKept DEF NonceUsedOnce
<1>9. QED
  BY <1>4, <1>5, <1>6, <1>7, <1>8

(* The relay socket is gone: the session goes with it.                     *)
LEMMA MacDisconnectStep ==
  ASSUME SealedInv, MacDisconnect
  PROVE  SealedInv'
<1> USE DEF SealedInv
<1>1. /\ agent' \in AgentType
      /\ ~agent'.conn /\ agent'.key = None /\ agent'.macNonce = None
      /\ agent'.iosNonce = None /\ agent'.maxRecv = 0
  BY DEF MacDisconnect, ResetSession, TypeOK, AgentType, NonceOrNone, KeyOrNone
<1>2. UNCHANGED <<pc, slot, mutex, todo, phone, opening, toMac, toIos, minted, mark, reused>>
  BY DEF MacDisconnect, phoneVars
<1>3. TypeOK'
  BY <1>1, <1>2 DEF MacDisconnect, Fault, TypeOK
<1>4. AgentEpoch'
  BY <1>1, <1>2 DEF AgentEpoch, MacDisconnect, RelayIdle
<1>5. MacNumbers' /\ KeysRetireForGood'
  BY <1>1, <1>2, NoneIsNothing DEF MacNumbers, KeysRetireForGood, Keys
<1>6. MacAhead' /\ ConfirmationFirst' /\ HellosInOrder'
  BY <1>1, <1>2, KeylessAgent
<1>7. PhoneEpoch' /\ IosNumbers' /\ WriterHoldsMutex' /\ OneCurrentDecrypt' /\ SealedInOrder'
      /\ PhoneAhead' /\ NonceUsedOnce'
  BY <1>2, PhoneEpochKept, IosNumbersKept, WriterKept, CurrentDecryptKept,
     SealedInOrderKept, PhoneAheadKept DEF NonceUsedOnce
<1>8. QED
  BY <1>3, <1>4, <1>5, <1>6, <1>7

(* A restarted process counts from 1, but has no key to count under.       *)
LEMMA AgentRestartStep ==
  ASSUME SealedInv, AgentRestart
  PROVE  SealedInv'
<1> USE DEF SealedInv
<1>1. /\ agent' \in AgentType
      /\ ~agent'.conn /\ agent'.key = None /\ agent'.macNonce = None
      /\ agent'.iosNonce = None /\ agent'.maxRecv = 0
  BY DEF AgentRestart, NewAgent, AgentType, NonceOrNone, KeyOrNone
<1>2. /\ UNCHANGED <<phone, opening, toMac, toIos, minted, mark, reused>>
      /\ todo' = <<>> /\ pc' = [g \in Goroutines |-> "idle"]
      /\ slot' = [g \in Goroutines |-> None] /\ mutex' = None
  BY DEF AgentRestart, phoneVars
<1>3. TypeOK'
  BY <1>1, <1>2 DEF AgentRestart, Fault, TypeOK
<1>4. AgentEpoch'
  BY <1>1, <1>2 DEF AgentEpoch
<1>5. MacNumbers' /\ KeysRetireForGood'
  BY <1>1, <1>2, NoneIsNothing DEF MacNumbers, KeysRetireForGood, Keys
<1>6. MacAhead' /\ ConfirmationFirst' /\ HellosInOrder'
  BY <1>1, <1>2, KeylessAgent
<1>7. WriterHoldsMutex'
  BY <1>2 DEF WriterHoldsMutex
<1>8. PhoneAhead' /\ SealedInOrder'
  <2>1. Len(toIos') = Len(toIos) - 0 /\ \A i \in 1..Len(toIos') : toIos'[i] = toIos[i + 0]
    BY <1>2 DEF TypeOK
  <2>2. \A g \in Goroutines : pc'[g] # "write"
    BY <1>2
  <2>3. QED
    BY <1>2, <1>3, <2>1, <2>2, PhoneAheadShrinks
<1>9. PhoneEpoch' /\ IosNumbers' /\ OneCurrentDecrypt' /\ NonceUsedOnce'
  BY <1>2, PhoneEpochKept, IosNumbersKept, CurrentDecryptKept DEF NonceUsedOnce
<1>10. QED
  BY <1>3, <1>4, <1>5, <1>6, <1>7, <1>8, <1>9

(* A frame leaves the channel to the agent: the order of the rest holds.   *)
LEMMA MacAheadShrinks ==
  ASSUME TypeOK, TypeOK', MacAhead, toMac # <<>>, toMac' = Tail(toMac),
         mark'["ios"] = mark["ios"],
         \/ agent'.maxRecv = 0
         \/ /\ agent'.key = agent.key
            /\ \/ agent'.maxRecv = agent.maxRecv
               \/ /\ IsSealed(toMac[1]) /\ toMac[1].key = agent.key
                  /\ agent'.maxRecv = toMac[1].seq
  PROVE  MacAhead'
<1> USE DEF IsSealed
<1>1. /\ Len(toMac) \in Nat /\ Len(toMac) >= 1 /\ Len(toMac') = Len(toMac) - 1
      /\ toMac[1] \in Frames
      /\ \A i \in 1..Len(toMac') : toMac'[i] = toMac[i + 1] /\ i + 1 \in 1..Len(toMac)
  BY TailOfChannel DEF TypeOK
<1>2. \A i \in 1..Len(toMac) : IsSealed(toMac[i]) => toMac[i] \in SealedFrame
  BY FrameKinds DEF TypeOK
<1>3. \A i, j \in 1..Len(toMac') : i < j => Before(toMac'[i], toMac'[j])
  BY <1>1 DEF MacAhead
<1>4. ASSUME NEW i \in 1..Len(toMac'), IsSealed(toMac'[i])
      PROVE  /\ 0 < toMac'[i].seq /\ toMac'[i].seq <= mark'["ios"][toMac'[i].key]
             /\ toMac'[i].key = agent'.key => agent'.maxRecv < toMac'[i].seq
  <2>1. toMac'[i] = toMac[i + 1] /\ i + 1 \in 1..Len(toMac) /\ 1 \in 1..Len(toMac) /\ 1 < i + 1
    BY <1>1
  <2>2. toMac[i + 1] \in SealedFrame
    BY <1>2, <1>4, <2>1
  <2>3. /\ 0 < toMac[i + 1].seq /\ toMac[i + 1].seq <= mark["ios"][toMac[i + 1].key]
        /\ toMac[i + 1].key = agent.key => agent.maxRecv < toMac[i + 1].seq
    BY <1>4, <2>1 DEF MacAhead
  <2>4. Before(toMac[1], toMac[i + 1])
    BY <2>1 DEF MacAhead
  <2>5. QED
    BY <1>4, <2>1, <2>3, <2>4 DEF Before
<1>5. agent'.key # None => agent'.maxRecv <= mark'["ios"][agent'.key]
  <2>1. agent'.key # None => mark["ios"][agent'.key] \in Nat
    BY DEF TypeOK, AgentType, KeyOrNone
  <2>2. IsSealed(toMac[1]) => toMac[1].seq <= mark["ios"][toMac[1].key]
    BY <1>1 DEF MacAhead
  <2>3. QED
    BY <2>1, <2>2 DEF MacAhead
<1>6. QED
  BY <1>3, <1>4, <1>5 DEF MacAhead, Before

(* HELLOs stay in order when one is taken, as the agent's nonce or not.    *)
LEMMA HellosShrink ==
  ASSUME TypeOK, HellosInOrder, toMac # <<>>, toMac' = Tail(toMac), UNCHANGED minted,
         \/ agent'.iosNonce = agent.iosNonce
         \/ ~IsSealed(toMac[1]) /\ agent'.iosNonce = toMac[1].nonce
  PROVE  HellosInOrder'
<1> USE DEF IsSealed
<1>1. /\ Len(toMac) \in Nat /\ Len(toMac) >= 1 /\ Len(toMac') = Len(toMac) - 1
      /\ \A i \in 1..Len(toMac') : toMac'[i] = toMac[i + 1] /\ i + 1 \in 1..Len(toMac)
  BY TailOfChannel DEF TypeOK
<1>2. ASSUME NEW i \in 1..Len(toMac'), ~IsSealed(toMac'[i])
      PROVE  /\ toMac'[i].nonce <= minted'.ios
             /\ agent'.iosNonce # None => agent'.iosNonce <= toMac'[i].nonce
  <2>1. toMac'[i] = toMac[i + 1] /\ i + 1 \in 1..Len(toMac) /\ 1 \in 1..Len(toMac) /\ 1 < i + 1
    BY <1>1
  <2>2. QED
    BY <1>2, <2>1 DEF HellosInOrder
<1>3. \A i, j \in 1..Len(toMac') :
        i < j /\ ~IsSealed(toMac'[i]) /\ ~IsSealed(toMac'[j]) => toMac'[i].nonce <= toMac'[j].nonce
  BY <1>1 DEF HellosInOrder
<1>4. QED
  BY <1>2, <1>3 DEF HellosInOrder

(* Input stays behind a confirmation: the frame that is taken is none, or  *)
(* confirms the epoch.                                                     *)
LEMMA ConfirmationShrinks ==
  ASSUME TypeOK, PhoneEpoch, ConfirmationFirst, toMac # <<>>, toMac' = Tail(toMac),
         UNCHANGED <<phone, mark>>,
         \/ agent'.key = None
         \/ /\ agent'.key = agent.key /\ (agent.ready => agent'.ready)
            /\ toMac[1].type = "ready" /\ toMac[1].key = agent.key => agent'.ready
  PROVE  ConfirmationFirst'
<1>1. /\ Len(toMac) \in Nat /\ Len(toMac) >= 1 /\ Len(toMac') = Len(toMac) - 1
      /\ Len(toMac') \in Nat
      /\ \A i \in 1..Len(toMac') : toMac'[i] = toMac[i + 1] /\ i + 1 \in 1..Len(toMac)
  BY TailOfChannel DEF TypeOK
<1>2. \A i \in 1..Len(toMac) : toMac[i].type = "data" => toMac[i].key # None
  <2>1. \A i \in 1..Len(toMac) : toMac[i] \in Frames
    BY DEF TypeOK
  <2>2. \A f \in Frames : f.type = "data" => f.key # None
    BY NoneIsNothing DEF Frames, HelloFrames, SealedFrame
  <2>3. QED
    BY <2>1, <2>2
<1>3. ASSUME agent'.key = agent.key, NEW n \in 1..Len(toMac), ReadyWithin(n)
      PROVE  agent'.ready \/ ReadyWithin(n - 1)' \/ agent'.key = None
  <2>1. PICK j \in 1..n : toMac[j].type = "ready" /\ toMac[j].key = agent.key
    BY <1>3 DEF ReadyWithin
  <2>2. CASE j = 1
    BY <2>1, <2>2
  <2>3. CASE j # 1
    <3>1. j - 1 \in 1..(n - 1) /\ j - 1 \in 1..Len(toMac') /\ toMac'[j - 1] = toMac[j]
      BY <1>1, <2>3
    <3>2. QED
      BY <1>3, <2>1, <3>1 DEF ReadyWithin
  <2>4. QED
    BY <2>2, <2>3
<1>4. phone'.connected => mark'["mac"][phone'.key] > 0
  BY DEF ConfirmationFirst
<1>5. ASSUME phone'.connected, phone'.key = agent'.key
      PROVE  agent'.ready \/ ReadyWithin(Len(toMac))'
  <2>1. agent'.key # None /\ agent'.key = agent.key
    BY <1>5 DEF PhoneEpoch
  <2>2. agent.ready \/ ReadyWithin(Len(toMac))
    BY <1>5, <2>1 DEF ConfirmationFirst
  <2>3. PICK n \in 1..Len(toMac) : n = Len(toMac)
    <3>1. Len(toMac) \in 1..Len(toMac)
      BY <1>1
    <3>2. QED
      BY <3>1, Zenon
  <2>4. agent'.ready \/ ReadyWithin(n - 1)'
    BY <1>3, <2>1, <2>2, <2>3
  <2>5. QED
    BY <1>1, <2>3, <2>4 DEF ReadyWithin
<1>6. ASSUME NEW i \in 1..Len(toMac'), toMac'[i].type = "data"
      PROVE  /\ mark'["mac"][toMac'[i].key] > 0
             /\ toMac'[i].key = agent'.key => agent'.ready \/ ReadyWithin(i - 1)'
  <2>1. toMac'[i] = toMac[i + 1] /\ i + 1 \in 1..Len(toMac) /\ i \in 1..Len(toMac)
    BY <1>1
  <2>2. mark["mac"][toMac[i + 1].key] > 0
    BY <1>6, <2>1 DEF ConfirmationFirst
  <2>3. ASSUME toMac'[i].key = agent'.key PROVE agent'.ready \/ ReadyWithin(i - 1)'
    <3>1. agent'.key # None /\ agent'.key = agent.key
      BY <1>2, <1>6, <2>1, <2>3
    <3>2. agent.ready \/ ReadyWithin(i)
      BY <1>6, <2>1, <2>3, <3>1 DEF ConfirmationFirst
    <3>3. QED
      BY <1>3, <2>1, <3>1, <3>2
  <2>4. QED
    BY <2>1, <2>2, <2>3
<1>7. QED
  BY <1>4, <1>5, <1>6 DEF ConfirmationFirst

(* Reading leaves the goroutines, the phone and the numbers alone.         *)
LEMMA MacReadsFacts ==
  ASSUME SealedInv, NEW t, MacReads(t)
  PROVE  /\ agent.conn /\ toMac # <<>> /\ toMac' = Tail(toMac) /\ todo = <<>>
         /\ toMac[1] = Head(toMac) /\ toMac[1] \in Frames /\ toMac[1].type = t
         /\ 1 \in 1..Len(toMac) /\ toMac' \in Seq(Frames)
         /\ UNCHANGED <<pc, slot, mutex, phone, opening, toIos, minted, mark, reused, faults>>
         /\ PhoneEpoch' /\ IosNumbers' /\ WriterHoldsMutex' /\ OneCurrentDecrypt'
         /\ SealedInOrder' /\ PhoneAhead' /\ NonceUsedOnce'
<1> USE DEF SealedInv
<1>1. /\ agent.conn /\ toMac # <<>> /\ toMac' = Tail(toMac) /\ todo = <<>>
      /\ Head(toMac).type = t
      /\ UNCHANGED <<pc, slot, mutex, phone, opening, toIos, minted, mark, reused, faults>>
  BY DEF MacReads, RelayIdle, phoneVars
<1>2. /\ toMac[1] = Head(toMac) /\ toMac[1] \in Frames /\ 1 \in 1..Len(toMac)
      /\ toMac' \in Seq(Frames)
  BY <1>1, TailOfChannel DEF TypeOK
<1>3. PhoneEpoch' /\ IosNumbers' /\ WriterHoldsMutex' /\ OneCurrentDecrypt' /\ SealedInOrder'
      /\ PhoneAhead' /\ NonceUsedOnce'
  BY <1>1, PhoneEpochKept, IosNumbersKept, WriterKept, CurrentDecryptKept,
     SealedInOrderKept, PhoneAheadKept DEF NonceUsedOnce
<1>4. QED
  BY <1>1, <1>2, <1>3

(* handleHello: an old key is retired, and a newer nonce never brings it   *)
(* back.                                                                   *)
LEMMA MacReadsHelloStep ==
  ASSUME SealedInv, MacReadsHello
  PROVE  SealedInv'
<1> USE DEF SealedInv
<1> DEFINE n == toMac[1].nonce
<1>1. MacReads("hello") /\ agent' = AfterHello(agent, Head(toMac).nonce)
      /\ todo' = <<"hello", "establish", "ready">>
  BY DEF MacReadsHello
<1>2. /\ agent.conn /\ toMac # <<>> /\ toMac' = Tail(toMac)
      /\ toMac[1] = Head(toMac) /\ toMac[1] \in Frames /\ toMac[1].type = "hello"
      /\ 1 \in 1..Len(toMac) /\ toMac' \in Seq(Frames)
      /\ UNCHANGED <<pc, slot, mutex, phone, opening, toIos, minted, mark, reused, faults>>
      /\ PhoneEpoch' /\ IosNumbers' /\ WriterHoldsMutex' /\ OneCurrentDecrypt'
      /\ SealedInOrder' /\ PhoneAhead' /\ NonceUsedOnce'
  BY <1>1, MacReadsFacts
<1>3. n \in Nonces /\ ~IsSealed(toMac[1])
  BY <1>2, FrameKinds DEF HelloFrames, IsSealed
<1>4. n <= minted.ios /\ (agent.iosNonce # None => agent.iosNonce <= n)
  BY <1>2, <1>3 DEF HellosInOrder
<1>5. /\ agent' \in AgentType /\ agent'.conn = agent.conn
      /\ agent'.macNonce = agent.macNonce /\ agent'.iosNonce = n
      /\ agent'.sendSeq = agent.sendSeq
  BY <1>1, <1>2, <1>3 DEF AfterHello, TypeOK, AgentType, NonceOrNone, KeyOrNone
<1>6. \/ /\ agent.key # None /\ agent.iosNonce # n
         /\ agent'.key = None /\ agent'.maxRecv = 0
      \/ /\ agent.key = None \/ agent.iosNonce = n
         /\ agent'.key = agent.key /\ agent'.maxRecv = agent.maxRecv
         /\ agent'.ready = agent.ready
  BY <1>1, <1>2 DEF AfterHello, TypeOK, AgentType
<1>7. TypeOK'
  BY <1>1, <1>2, <1>5 DEF TypeOK
<1>8. AgentEpoch'
  <2>1. agent'.key # None => agent.key # None /\ agent.iosNonce = n /\ agent'.key = agent.key
    BY <1>6
  <2>2. agent'.key = None => agent'.maxRecv = 0
    BY <1>6 DEF AgentEpoch
  <2>3. QED
    BY <1>2, <1>4, <1>5, <2>1, <2>2 DEF AgentEpoch
<1>9. MacNumbers'
  BY <1>2, <1>5, MacNumbersKept
<1>10. KeysRetireForGood'
  <2> SUFFICES ASSUME NEW k \in Keys, k[1] = agent.macNonce, mark["mac"][k] > 0
               PROVE  n # None /\ (k[2] < n \/ k = agent'.key)
    BY <1>2, <1>5 DEF KeysRetireForGood
  <2>1. agent.iosNonce # None /\ (k[2] < agent.iosNonce \/ k = agent.key)
    BY DEF KeysRetireForGood
  <2>2. k[2] \in Nat /\ n \in Nat /\ agent.iosNonce \in Nat /\ n # None
    BY <1>3, <2>1, NoneIsNothing DEF Keys, Nonces, TypeOK, AgentType, NonceOrNone
  <2>3. CASE k[2] < agent.iosNonce
    BY <1>4, <2>1, <2>2, <2>3
  <2>4. CASE k = agent.key
    <3>1. agent.key # None /\ k[2] = agent.iosNonce
      BY <2>4, NoneIsNothing DEF AgentEpoch
    <3>2. QED
      BY <1>4, <1>6, <2>1, <2>2, <2>4, <3>1
  <2>5. QED
    BY <2>1, <2>3, <2>4
<1>11. MacAhead'
  BY <1>2, <1>6, <1>7, MacAheadShrinks
<1>12. HellosInOrder'
  BY <1>2, <1>3, <1>5, HellosShrink
<1>13. ConfirmationFirst'
  BY <1>2, <1>6, ConfirmationShrinks
<1>14. QED
  BY <1>2, <1>7, <1>8, <1>9, <1>10, <1>11, <1>12, <1>13

(* decryptPayload and handleSessionReady: every authentic SESSION_READY is *)
(* admitted, so the frames behind it find a confirmed epoch.               *)
LEMMA MacReadsReadyStep ==
  ASSUME SealedInv, MacReadsReady
  PROVE  SealedInv'
<1> USE DEF SealedInv
<1> DEFINE f == toMac[1]
<1>1. MacReads("ready") /\ UNCHANGED todo
      /\ agent' = IF Admits(agent, Head(toMac))
                    THEN TakeSeq([Confirm(agent) EXCEPT !.maxRecv = Head(toMac).seq])
                    ELSE agent
  BY DEF MacReadsReady
<1>2. /\ agent.conn /\ toMac # <<>> /\ toMac' = Tail(toMac)
      /\ f = Head(toMac) /\ f \in Frames /\ f.type = "ready"
      /\ 1 \in 1..Len(toMac) /\ toMac' \in Seq(Frames)
      /\ UNCHANGED <<pc, slot, mutex, phone, opening, toIos, minted, mark, reused, faults>>
      /\ PhoneEpoch' /\ IosNumbers' /\ WriterHoldsMutex' /\ OneCurrentDecrypt'
      /\ SealedInOrder' /\ PhoneAhead' /\ NonceUsedOnce'
  BY <1>1, MacReadsFacts
<1>3. IsSealed(f) /\ f \in SealedFrame
  BY <1>2, FrameKinds DEF IsSealed
<1>4. f.key = agent.key => Admits(agent, f)
  BY <1>2, <1>3 DEF Admits, MacAhead
<1>5. /\ agent' \in AgentType /\ agent'.conn = agent.conn /\ agent'.key = agent.key
      /\ agent'.macNonce = agent.macNonce /\ agent'.iosNonce = agent.iosNonce
      /\ agent'.sendSeq \in Nat \ {0} /\ agent'.sendSeq >= agent.sendSeq
      /\ agent.ready => agent'.ready
  <2>1. agent \in AgentType /\ f.seq \in Nat
    BY <1>3 DEF TypeOK, SealedFrame
  <2>2. CASE Admits(agent, f)
    <3>1. agent' = [agent EXCEPT !.ready = TRUE, !.maxRecv = f.seq, !.sendSeq = agent.sendSeq + 1]
      BY <1>1, <1>2, <2>1, <2>2 DEF TakeSeq, Confirm, AgentType
    <3> DEFINE n == agent.sendSeq + 1
    <3>a. n \in Nat \ {0}
      BY <2>1 DEF AgentType
    <3>b. agent' = [agent EXCEPT !.ready = TRUE, !.maxRecv = f.seq, !.sendSeq = n]
      BY <3>1
    <3> HIDE DEF n
    <3>2. agent' \in AgentType /\ agent'.ready
      BY <2>1, <3>a, <3>b DEF AgentType
    <3>3. /\ agent'.conn = agent.conn /\ agent'.key = agent.key
          /\ agent'.macNonce = agent.macNonce /\ agent'.iosNonce = agent.iosNonce
          /\ agent'.sendSeq \in Nat \ {0} /\ agent'.sendSeq >= agent.sendSeq
      BY <2>1, <3>1 DEF AgentType
    <3>4. QED
      BY <3>2, <3>3
  <2>3. CASE ~Admits(agent, f)
    <3>1. agent' = agent
      BY <1>1, <1>2, <2>3
    <3>2. agent.sendSeq \in Nat \ {0} /\ agent.sendSeq >= agent.sendSeq
      BY <2>1 DEF AgentType
    <3>3. QED
      BY <2>1, <3>1, <3>2
  <2>4. QED
    BY <2>2, <2>3
<1>6. \/ f.key = agent.key /\ agent'.maxRecv = f.seq /\ agent'.ready
      \/ f.key # agent.key /\ agent' = agent
  BY <1>1, <1>2, <1>4 DEF Admits, TakeSeq, Confirm, TypeOK, AgentType
<1>7. TypeOK'
  BY <1>1, <1>2, <1>5 DEF TypeOK
<1>8. AgentEpoch'
  <2>1. agent.key = None => agent'.maxRecv = 0
    BY <1>3, <1>6, NoneIsNothing DEF AgentEpoch, SealedFrame
  <2>2. QED
    BY <1>1, <1>2, <1>5, <2>1 DEF AgentEpoch
<1>9. MacNumbers'
  <2>1. \A k \in Keys : mark["mac"][k] \in Nat
    BY DEF TypeOK
  <2>2. agent.sendSeq \in Nat
    BY DEF TypeOK, AgentType
  <2>3. QED
    BY <1>2, <1>5, <2>1, <2>2 DEF MacNumbers
<1>10. KeysRetireForGood'
  BY <1>2, <1>5, KeysRetireKept
<1>11. MacAhead'
  BY <1>2, <1>3, <1>5, <1>6, <1>7, MacAheadShrinks
<1>12. HellosInOrder'
  BY <1>2, <1>5, HellosShrink
<1>13. ConfirmationFirst'
  BY <1>2, <1>5, <1>6, ConfirmationShrinks
<1>14. QED
  BY <1>2, <1>7, <1>8, <1>9, <1>10, <1>11, <1>12, <1>13

(* Input: maxReceivedSeq rises to its number.                              *)
LEMMA MacReadsDataStep ==
  ASSUME SealedInv, MacReadsData
  PROVE  SealedInv'
<1> USE DEF SealedInv
<1> DEFINE f == toMac[1]
<1>1. MacReads("data") /\ UNCHANGED todo
      /\ agent' = IF Admits(agent, Head(toMac))
                    THEN [agent EXCEPT !.maxRecv = Head(toMac).seq]
                    ELSE agent
  BY DEF MacReadsData
<1>2. /\ agent.conn /\ toMac # <<>> /\ toMac' = Tail(toMac)
      /\ f = Head(toMac) /\ f \in Frames /\ f.type = "data"
      /\ 1 \in 1..Len(toMac) /\ toMac' \in Seq(Frames)
      /\ UNCHANGED <<pc, slot, mutex, phone, opening, toIos, minted, mark, reused, faults>>
      /\ PhoneEpoch' /\ IosNumbers' /\ WriterHoldsMutex' /\ OneCurrentDecrypt'
      /\ SealedInOrder' /\ PhoneAhead' /\ NonceUsedOnce'
  BY <1>1, MacReadsFacts
<1>3. IsSealed(f) /\ f \in SealedFrame
  BY <1>2, FrameKinds DEF IsSealed
<1>4. /\ agent' \in AgentType /\ agent'.conn = agent.conn /\ agent'.key = agent.key
      /\ agent'.macNonce = agent.macNonce /\ agent'.iosNonce = agent.iosNonce
      /\ agent'.sendSeq = agent.sendSeq /\ agent'.ready = agent.ready
  BY <1>1, <1>2, <1>3 DEF TypeOK, AgentType, SealedFrame
<1>5. \/ f.key = agent.key /\ agent'.maxRecv = f.seq
      \/ agent' = agent
  BY <1>1, <1>2 DEF Admits, TypeOK, AgentType
<1>6. TypeOK'
  BY <1>1, <1>2, <1>4 DEF TypeOK
<1>7. AgentEpoch'
  <2>1. agent.key = None => agent'.maxRecv = 0
    BY <1>3, <1>5, NoneIsNothing DEF AgentEpoch, SealedFrame
  <2>2. QED
    BY <1>1, <1>2, <1>4, <2>1 DEF AgentEpoch
<1>8. MacNumbers' /\ KeysRetireForGood'
  BY <1>2, <1>4, MacNumbersKept, KeysRetireKept
<1>9. MacAhead'
  BY <1>2, <1>3, <1>4, <1>5, <1>6, MacAheadShrinks
<1>10. HellosInOrder'
  BY <1>2, <1>4, HellosShrink
<1>11. ConfirmationFirst'
  BY <1>2, <1>4, ConfirmationShrinks
<1>12. QED
  BY <1>2, <1>6, <1>7, <1>8, <1>9, <1>10, <1>11

(* nextSeq takes a number and leaves the session alone.                    *)
LEMMA TakeSeqType ==
  ASSUME NEW a \in AgentType
  PROVE  /\ TakeSeq(a) \in AgentType
         /\ TakeSeq(a).conn = a.conn /\ TakeSeq(a).key = a.key
         /\ TakeSeq(a).macNonce = a.macNonce /\ TakeSeq(a).iosNonce = a.iosNonce
         /\ TakeSeq(a).ready = a.ready /\ TakeSeq(a).maxRecv = a.maxRecv
         /\ TakeSeq(a).sendSeq = a.sendSeq + 1
<1> DEFINE n == a.sendSeq + 1
<1>1. n \in Nat \ {0}
  BY DEF AgentType
<1>2. TakeSeq(a) = [a EXCEPT !.sendSeq = n]
  BY DEF TakeSeq
<1> HIDE DEF n
<1>3. TakeSeq(a) \in AgentType /\ TakeSeq(a).sendSeq = n
  BY <1>1, <1>2 DEF AgentType
<1>4. /\ TakeSeq(a).conn = a.conn /\ TakeSeq(a).key = a.key
      /\ TakeSeq(a).macNonce = a.macNonce /\ TakeSeq(a).iosNonce = a.iosNonce
      /\ TakeSeq(a).ready = a.ready /\ TakeSeq(a).maxRecv = a.maxRecv
  BY <1>2 DEF AgentType
<1>5. QED
  BY <1>3, <1>4 DEF n

(* A frame is written to the phone: it is fresh and comes after the others.*)
LEMMA PhoneAheadGrows ==
  ASSUME TypeOK, TypeOK', PhoneAhead, SealedInOrder, NEW f \in Frames,
         toIos' = Append(toIos, f), UNCHANGED <<opening, phone, mark>>,
         IsSealed(f) => FreshForPhone(f),
         \A i \in 1..Len(toIos) : Before(toIos[i], f),
         \A o \in opening : o.live => Before(o.frame, f),
         \A g \in Goroutines : pc'[g] = "write" =>
           pc[g] = "write" /\ slot'[g] = slot[g] /\ Before(f, slot[g])
  PROVE  PhoneAhead' /\ SealedInOrder'
<1>1. /\ Len(toIos) \in Nat /\ Len(toIos') = Len(toIos) + 1
      /\ toIos'[Len(toIos) + 1] = f /\ \A i \in 1..Len(toIos) : toIos'[i] = toIos[i]
  BY AppendToChannel DEF TypeOK
<1>2. \A i \in 1..Len(toIos') : i \in 1..Len(toIos) \/ i = Len(toIos) + 1
  BY <1>1
<1>3. SealedInOrder'
  <2> SUFFICES ASSUME NEW i \in 1..Len(toIos'), NEW j \in 1..Len(toIos'), i < j
               PROVE  Before(toIos'[i], toIos'[j])
    BY DEF SealedInOrder, Before, IsSealed
  <2>1. i \in 1..Len(toIos) /\ toIos'[i] = toIos[i]
    BY <1>1
  <2>2. CASE j \in 1..Len(toIos)
    BY <1>1, <2>1, <2>2 DEF SealedInOrder, Before
  <2>3. CASE j = Len(toIos) + 1
    BY <1>1, <2>1, <2>3
  <2>4. QED
    BY <1>2, <2>2, <2>3
<1>4. \A i \in 1..Len(toIos') : IsSealed(toIos'[i]) => FreshForPhone(toIos'[i])
  BY <1>1, <1>2 DEF PhoneAhead
<1>5. ASSUME NEW g \in Goroutines, pc'[g] = "write"
      PROVE  /\ FreshForPhone(slot'[g])
             /\ \A i \in 1..Len(toIos') : Before(toIos'[i], slot'[g])
  BY <1>1, <1>2, <1>5 DEF PhoneAhead
<1>6. ASSUME NEW o \in opening, o.live
      PROVE  /\ IsSealed(o.frame) => FreshForPhone(o.frame)
             /\ \A i \in 1..Len(toIos') : Before(o.frame, toIos'[i])
             /\ \A g \in Goroutines : pc'[g] = "write" => Before(o.frame, slot'[g])
  BY <1>1, <1>2, <1>6 DEF PhoneAhead
<1>7. PhoneAhead'
  BY <1>4, <1>5, <1>6 DEF PhoneAhead, FreshForPhone, Before, IsSealed
<1>8. QED
  BY <1>3, <1>7

(* What every step of the relay goroutine's handler leaves alone.          *)
LEMMA RelayDoesFacts ==
  ASSUME SealedInv, NEW w, RelayDoes(w)
  PROVE  /\ agent.conn /\ agent.macNonce \in Nonces
         /\ todo' \in Seq({"hello", "establish", "ready"})
         /\ pc["relay"] = "idle"
         /\ UNCHANGED <<slot, mutex, phone, opening, toMac, minted, mark, reused, faults>>
         /\ PhoneEpoch' /\ IosNumbers' /\ OneCurrentDecrypt' /\ NonceUsedOnce'
<1> USE DEF SealedInv
<1>1. UNCHANGED <<slot, mutex, phone, opening, toMac, minted, mark, reused, faults>>
  BY DEF RelayDoes, phoneVars
<1>2. agent.conn /\ agent.macNonce \in Nonces
  BY DEF RelayDoes, AgentEpoch, TypeOK, AgentType, NonceOrNone
<1>3. todo' \in Seq({"hello", "establish", "ready"}) /\ pc["relay"] = "idle"
  BY DEF RelayDoes, TypeOK
<1>4. PhoneEpoch' /\ IosNumbers' /\ OneCurrentDecrypt' /\ NonceUsedOnce'
  BY <1>1, PhoneEpochKept, IosNumbersKept, CurrentDecryptKept DEF NonceUsedOnce
<1>5. QED
  BY <1>1, <1>2, <1>3, <1>4

(* handleHello's own HELLO takes a number and is not sealed.               *)
LEMMA RelaySendsHelloStep ==
  ASSUME SealedInv, RelaySendsHello
  PROVE  SealedInv'
<1> USE DEF SealedInv
<1>1. RelayDoes("hello") /\ agent' = TakeSeq(agent)
      /\ toIos' = Append(toIos, Hello(agent.macNonce)) /\ UNCHANGED pc
  BY DEF RelaySendsHello
<1>2. /\ agent.conn /\ agent.macNonce \in Nonces
      /\ todo' \in Seq({"hello", "establish", "ready"})
      /\ UNCHANGED <<slot, mutex, phone, opening, toMac, minted, mark, reused, faults>>
      /\ PhoneEpoch' /\ IosNumbers' /\ OneCurrentDecrypt' /\ NonceUsedOnce'
  BY <1>1, RelayDoesFacts
<1>3. Hello(agent.macNonce) \in Frames /\ ~IsSealed(Hello(agent.macNonce))
  BY <1>2, HelloIsFrame
<1>4. /\ agent' \in AgentType /\ agent'.conn = agent.conn /\ agent'.key = agent.key
      /\ agent'.macNonce = agent.macNonce /\ agent'.iosNonce = agent.iosNonce
      /\ agent'.ready = agent.ready /\ agent'.maxRecv = agent.maxRecv
      /\ agent'.sendSeq = agent.sendSeq + 1
  BY <1>1, TakeSeqType DEF TypeOK
<1>5. TypeOK'
  BY <1>1, <1>2, <1>3, <1>4, AppendToChannel DEF TypeOK
<1>6. AgentEpoch'
  BY <1>2, <1>4 DEF AgentEpoch
<1>7. MacNumbers'
  <2>1. \A k \in Keys : mark["mac"][k] \in Nat
    BY DEF TypeOK
  <2>2. agent.sendSeq \in Nat
    BY DEF TypeOK, AgentType
  <2>3. QED
    BY <1>2, <1>4, <2>1, <2>2 DEF MacNumbers
<1>8. KeysRetireForGood' /\ HellosInOrder' /\ MacAhead' /\ ConfirmationFirst' /\ WriterHoldsMutex'
  BY <1>1, <1>2, <1>4, KeysRetireKept, HellosKept, MacAheadKept, ConfirmationKept, WriterKept
<1>9. PhoneAhead' /\ SealedInOrder'
  BY <1>1, <1>2, <1>3, <1>5, PhoneAheadGrows DEF Before
<1>10. QED
  BY <1>2, <1>5, <1>6, <1>7, <1>8, <1>9

(* establishSession: nothing was sealed under the new key, so no input in  *)
(* flight can be under it.                                                 *)
LEMMA RelayEstablishesStep ==
  ASSUME SealedInv, RelayEstablishes
  PROVE  SealedInv'
<1> USE DEF SealedInv
<1> DEFINE k == <<agent.macNonce, agent.iosNonce>>
<1>1. RelayDoes("establish") /\ agent' = EstablishSession(agent) /\ UNCHANGED <<pc, toIos>>
  BY DEF RelayEstablishes
<1>2. /\ agent.conn /\ agent.macNonce \in Nonces
      /\ todo' \in Seq({"hello", "establish", "ready"})
      /\ UNCHANGED <<slot, mutex, phone, opening, toMac, minted, mark, reused, faults>>
      /\ PhoneEpoch' /\ IosNumbers' /\ OneCurrentDecrypt' /\ NonceUsedOnce'
  BY <1>1, RelayDoesFacts
<1>3. WriterHoldsMutex' /\ PhoneAhead' /\ SealedInOrder'
  BY <1>1, <1>2, WriterKept, PhoneAheadKept, SealedInOrderKept
<1>4. CASE agent' = agent
  <2>1. TypeOK' /\ AgentEpoch'
    BY <1>1, <1>2, <1>4 DEF TypeOK, AgentEpoch
  <2>2. QED
    BY <1>2, <1>3, <1>4, <2>1, MacNumbersKept, KeysRetireKept, HellosKept, MacAheadKept,
       ConfirmationKept
<1>5. CASE agent' # agent
  <2>1. /\ agent.key = None /\ agent.macNonce # None /\ agent.iosNonce # None
        /\ agent' = [agent EXCEPT !.key = k, !.ready = FALSE]
    BY <1>1, <1>5 DEF EstablishSession
  <2>2. agent.iosNonce \in Nonces /\ k \in Keys /\ k # None /\ k[1] = agent.macNonce
        /\ k[2] = agent.iosNonce
    BY <1>2, <2>1, NoneIsNothing DEF TypeOK, AgentType, NonceOrNone, Keys
  <2>3. /\ agent' \in AgentType /\ agent'.conn = agent.conn /\ agent'.key = k
        /\ agent'.macNonce = agent.macNonce /\ agent'.iosNonce = agent.iosNonce
        /\ agent'.sendSeq = agent.sendSeq /\ agent'.maxRecv = agent.maxRecv
    BY <2>1, <2>2 DEF TypeOK, AgentType, KeyOrNone
  <2>4. agent.maxRecv = 0
    BY <2>1 DEF AgentEpoch
  <2>5. mark["mac"][k] = 0
    <3>1. agent.iosNonce \in Nat /\ mark["mac"][k] \in Nat
      BY <2>2 DEF TypeOK, Nonces
    <3>2. mark["mac"][k] > 0 => k[2] < agent.iosNonce \/ k = agent.key
      BY <2>2 DEF KeysRetireForGood
    <3>3. QED
      BY <2>1, <2>2, <3>1, <3>2
  <2>6. TypeOK'
    BY <1>1, <1>2, <2>3 DEF TypeOK
  <2>7. AgentEpoch'
    BY <1>2, <2>1, <2>2, <2>3 DEF AgentEpoch
  <2>8. MacNumbers' /\ HellosInOrder'
    BY <1>2, <2>3, MacNumbersKept, HellosKept
  <2>9. KeysRetireForGood'
    BY <1>2, <2>1, <2>2, <2>3, NoneIsNothing DEF KeysRetireForGood
  <2>10. MacAhead'
    <3>1. mark["ios"][k] \in Nat
      BY <2>2 DEF TypeOK
    <3>2. QED
      BY <1>2, <2>3, <2>4, <3>1 DEF MacAhead, Before, IsSealed
  <2>11. ConfirmationFirst'
    <3>1. phone.connected => phone.key # k
      BY <2>5 DEF ConfirmationFirst
    <3>2. \A i \in 1..Len(toMac) : toMac[i].type = "data" => toMac[i].key # k
      BY <2>5 DEF ConfirmationFirst
    <3>3. QED
      BY <1>2, <2>3, <3>1, <3>2 DEF ConfirmationFirst
  <2>12. QED
    BY <1>2, <1>3, <2>6, <2>7, <2>8, <2>9, <2>10, <2>11
<1>6. QED
  BY <1>4, <1>5

(* Nobody new gets to write: what is ahead of the phone stays.             *)
LEMMA OnlyPcStep ==
  ASSUME SealedInv, UNCHANGED <<agent, slot, mutex, phone, opening, toMac, toIos, minted,
                                mark, reused, faults>>,
         todo' \in Seq({"hello", "establish", "ready"}), todo' # <<>> => todo # <<>>,
         pc' \in [Goroutines -> {"idle", "lock", "write"}],
         \A g \in Goroutines : pc'[g] = "write" => pc[g] = "write"
  PROVE  SealedInv'
<1> USE DEF SealedInv
<1>1. TypeOK'
  BY DEF TypeOK
<1>2. AgentEpoch'
  BY DEF AgentEpoch
<1>3. WriterHoldsMutex'
  BY DEF WriterHoldsMutex
<1>4. PhoneAhead' /\ SealedInOrder'
  <2>1. Len(toIos') = Len(toIos) - 0 /\ \A i \in 1..Len(toIos') : toIos'[i] = toIos[i + 0]
    BY DEF TypeOK
  <2>2. QED
    BY <1>1, <2>1, PhoneAheadShrinks
<1>5. QED
  BY <1>1, <1>2, <1>3, <1>4, PhoneEpochKept, IosNumbersKept, CurrentDecryptKept, MacNumbersKept,
     KeysRetireKept, HellosKept, MacAheadKept, ConfirmationKept DEF NonceUsedOnce

(* SESSION_READY and terminal data wait for the mutex.                     *)
LEMMA RelaySendsReadyStep ==
  ASSUME SealedInv, RelaySendsReady
  PROVE  SealedInv'
<1> USE DEF SealedInv
<1>1. RelayDoes("ready") /\ UNCHANGED <<agent, toIos>>
      /\ pc' = IF agent.key # None THEN [pc EXCEPT !["relay"] = "lock"] ELSE pc
  BY DEF RelaySendsReady
<1>2. /\ todo' \in Seq({"hello", "establish", "ready"}) /\ todo # <<>>
      /\ UNCHANGED <<slot, mutex, phone, opening, toMac, minted, mark, reused, faults>>
  BY <1>1, RelayDoesFacts DEF RelayDoes
<1>3. /\ pc' \in [Goroutines -> {"idle", "lock", "write"}]
      /\ \A g \in Goroutines : pc'[g] = "write" => pc[g] = "write"
  BY <1>1 DEF TypeOK, Goroutines
<1>4. QED
  BY <1>1, <1>2, <1>3, OnlyPcStep

LEMMA IpcForwardsStep ==
  ASSUME SealedInv, IpcForwards
  PROVE  SealedInv'
<1>1. UNCHANGED <<agent, slot, mutex, phone, opening, toMac, toIos, minted, mark, reused,
                  faults, todo>>
  BY DEF IpcForwards, phoneVars
<1>2. /\ pc' \in [Goroutines -> {"idle", "lock", "write"}]
      /\ \A g \in Goroutines : pc'[g] = "write" => pc[g] = "write"
  BY DEF IpcForwards, SealedInv, TypeOK, Goroutines
<1>3. todo' \in Seq({"hello", "establish", "ready"})
  BY <1>1 DEF SealedInv, TypeOK
<1>4. QED
  BY <1>1, <1>2, <1>3, OnlyPcStep

(* sendEncryptedToRelay seals: the counter is above every number used under*)
(* the key, and the mutex keeps the other goroutine's frame from being     *)
(* overtaken.                                                              *)
LEMMA LockAndSealStep ==
  ASSUME SealedInv, NEW g \in Goroutines, LockAndSeal(g)
  PROVE  SealedInv'
<1> USE DEF SealedInv
<1> DEFINE k == agent.key
           n == agent.sendSeq
           f == Sealed(SealedType(g), k, n)
<1>1. /\ pc[g] = "lock" /\ mutex = None
      /\ UNCHANGED <<todo, phone, opening, toMac, toIos, minted, faults>>
  BY DEF LockAndSeal, MayLock, phoneVars
<1>2. CASE agent.key = None
  <2>1. pc' = [pc EXCEPT ![g] = "idle"] /\ UNCHANGED <<agent, slot, mutex, mark, reused>>
    BY <1>2 DEF LockAndSeal
  <2>2. /\ pc' \in [Goroutines -> {"idle", "lock", "write"}]
        /\ \A h \in Goroutines : pc'[h] = "write" => pc[h] = "write"
    BY <2>1 DEF TypeOK
  <2>3. todo' \in Seq({"hello", "establish", "ready"})
    BY <1>1 DEF TypeOK
  <2>4. QED
    BY <1>1, <2>1, <2>2, <2>3, OnlyPcStep
<1>3. CASE agent.key # None
  <2>1. /\ mutex' = g /\ pc' = [pc EXCEPT ![g] = "write"]
        /\ slot' = [slot EXCEPT ![g] = f]
        /\ mark' = [mark EXCEPT !["mac"][k] = n]
        /\ reused' = (reused \/ n <= mark["mac"][k])
        /\ agent' = TakeSeq(agent)
    BY <1>3 DEF LockAndSeal, UseNumber
  <2>2. k \in Keys /\ n \in Nat \ {0} /\ k[1] = agent.macNonce /\ k[2] = agent.iosNonce
        /\ agent.iosNonce # None
    BY <1>3 DEF TypeOK, AgentType, KeyOrNone, AgentEpoch
  <2>3. mark["mac"][k] < n /\ mark["mac"][k] \in Nat
    BY <2>2 DEF MacNumbers, TypeOK
  <2>4. /\ agent' \in AgentType /\ agent'.conn = agent.conn /\ agent'.key = agent.key
        /\ agent'.macNonce = agent.macNonce /\ agent'.iosNonce = agent.iosNonce
        /\ agent'.ready = agent.ready /\ agent'.maxRecv = agent.maxRecv
        /\ agent'.sendSeq = n + 1
    BY <2>1, TakeSeqType DEF TypeOK
  <2>5. /\ f \in SealedFrame /\ f \in Frames /\ f.key = k /\ f.seq = n
    BY <2>2, SealedIsFrame DEF SealedType
  <2>6. /\ mark' \in [{"mac", "ios"} -> [Keys -> Nat]] /\ mark'["ios"] = mark["ios"]
        /\ mark'["mac"] = [mark["mac"] EXCEPT ![k] = n]
    BY <2>1, <2>2 DEF TypeOK
  <2>7. /\ mark'["mac"][k] = n
        /\ \A l \in Keys : l # k => mark'["mac"][l] = mark["mac"][l]
        /\ \A l \in Keys : mark["mac"][l] \in Nat /\ mark["mac"][l] <= mark'["mac"][l]
    BY <2>2, <2>3, <2>6 DEF TypeOK
  <2>8. NonceUsedOnce'
    <3>1. ~(n <= mark["mac"][k])
      BY <2>2, <2>3
    <3>2. QED
      BY <2>1, <3>1 DEF NonceUsedOnce
  <2>9. /\ pc' \in [Goroutines -> {"idle", "lock", "write"}] /\ pc'[g] = "write"
        /\ slot' \in [Goroutines -> Frames \cup {None}] /\ slot'[g] = f
        /\ \A h \in Goroutines : h # g => pc'[h] # "write"
    <3>1. \A h \in Goroutines : pc[h] # "write"
      BY <1>1, SealedAssumption DEF SealedAssumption, Goroutines, WriterHoldsMutex
    <3>2. QED
      BY <2>1, <2>5, <3>1 DEF TypeOK
  <2>10. TypeOK'
    BY <1>1, <2>1, <2>4, <2>6, <2>8, <2>9 DEF TypeOK, NonceUsedOnce
  <2>11. AgentEpoch'
    BY <1>1, <2>4 DEF AgentEpoch
  <2>12. MacNumbers'
    <3> SUFFICES ASSUME NEW l \in Keys
                 PROVE  /\ l[1] > minted.mac => mark'["mac"][l] = 0
                        /\ l[1] = agent.macNonce => mark'["mac"][l] < n + 1
      BY <1>1, <2>4 DEF MacNumbers
    <3>1. CASE l = k
      <4>1. l[1] \in Nat /\ minted.mac \in Nat /\ l[1] <= minted.mac
        BY <2>2, <3>1, NoneIsNothing DEF AgentEpoch, TypeOK, Keys, Nonces
      <4>2. QED
        BY <2>2, <2>7, <3>1, <4>1
    <3>2. CASE l # k
      BY <2>2, <2>7, <3>2 DEF MacNumbers
    <3>3. QED
      BY <3>1, <3>2
  <2>13. KeysRetireForGood'
    BY <2>2, <2>4, <2>7 DEF KeysRetireForGood
  <2>14. WriterHoldsMutex'
    BY <2>1, <2>5, <2>9 DEF WriterHoldsMutex
  <2>15. ConfirmationFirst'
    <3>1. phone.connected => mark'["mac"][phone.key] > 0
      <4>1. phone.connected => phone.key \in Keys
        BY DEF PhoneEpoch, TypeOK, PhoneType, KeyOrNone
      <4>2. QED
        BY <2>2, <2>7, <4>1 DEF ConfirmationFirst
    <3>2. \A i \in 1..Len(toMac) : toMac[i].type = "data" => mark'["mac"][toMac[i].key] > 0
      <4>1. \A i \in 1..Len(toMac) : toMac[i].type = "data" => toMac[i].key \in Keys
        <5>1. \A i \in 1..Len(toMac) : toMac[i] \in Frames
          BY DEF TypeOK
        <5>2. \A e \in Frames : e.type = "data" => e.key \in Keys
          BY DEF Frames, HelloFrames, SealedFrame
        <5>3. QED
          BY <5>1, <5>2
      <4>2. QED
        BY <2>2, <2>7, <4>1 DEF ConfirmationFirst
    <3>3. QED
      BY <1>1, <2>4, <3>1, <3>2 DEF ConfirmationFirst, ReadyWithin
  <2>16. PhoneAhead'
    <3> DEFINE Fresh(e) == /\ 0 < e.seq /\ e.seq <= mark'["mac"][e.key]
                           /\ e.key = phone.key => phone.guard.maxSeq < e.seq
    <3>1. \A e \in SealedFrame : FreshForPhone(e) => Fresh(e) /\ Before(e, f)
      BY <2>2, <2>3, <2>5, <2>7 DEF FreshForPhone, SealedFrame, Before
    <3>2. Fresh(f)
      <4>1. phone.key # None => phone.guard.maxSeq <= mark["mac"][phone.key]
        BY DEF PhoneAhead
      <4>2. phone.guard.maxSeq \in Nat
        BY DEF TypeOK, PhoneType, GuardType
      <4>3. QED
        BY <1>3, <2>2, <2>3, <2>5, <2>7, <4>1, <4>2
    <3>3. \A e \in Frames : ~IsSealed(e) => Before(e, f)
      BY DEF Before
    <3>4. \A i \in 1..Len(toIos) :
            /\ IsSealed(toIos[i]) => Fresh(toIos[i])
            /\ Before(toIos[i], f)
      <4>1. \A i \in 1..Len(toIos) : toIos[i] \in Frames
        BY DEF TypeOK
      <4>2. QED
        BY <3>1, <3>3, <4>1, FrameKinds DEF PhoneAhead
    <3>5. \A o \in opening : o.live =>
            /\ IsSealed(o.frame) => Fresh(o.frame)
            /\ \A i \in 1..Len(toIos) : Before(o.frame, toIos[i])
            /\ Before(o.frame, f)
      <4>1. \A o \in opening : o.frame \in Frames
        BY DEF TypeOK
      <4>2. QED
        BY <3>1, <3>3, <4>1, FrameKinds DEF PhoneAhead
    <3>6. phone.key # None => phone.guard.maxSeq <= mark'["mac"][phone.key]
      <4>1. phone.key # None => phone.key \in Keys /\ phone.guard.maxSeq \in Nat
        BY DEF TypeOK, PhoneType, GuardType, KeyOrNone
      <4>2. QED
        BY <2>2, <2>7, <4>1 DEF PhoneAhead
    <3> HIDE DEF f
    <3>7. QED
      BY <1>1, <2>9, <3>2, <3>4, <3>5, <3>6 DEF PhoneAhead, FreshForPhone, Before, IsSealed
  <2>17. PhoneEpoch' /\ IosNumbers' /\ OneCurrentDecrypt' /\ SealedInOrder' /\ HellosInOrder'
         /\ MacAhead'
    BY <1>1, <2>4, <2>6, PhoneEpochKept, IosNumbersKept, CurrentDecryptKept, SealedInOrderKept,
       HellosKept, MacAheadKept
  <2>18. QED
    BY <2>8, <2>10, <2>11, <2>12, <2>13, <2>14, <2>15, <2>16, <2>17
<1>4. QED
  BY <1>2, <1>3

(* sendToRelay writes what was sealed last, whatever the epoch is by now.  *)
LEMMA WriteAndUnlockStep ==
  ASSUME SealedInv, NEW g \in Goroutines, WriteAndUnlock(g)
  PROVE  SealedInv'
<1> USE DEF SealedInv
<1>1. /\ pc[g] = "write" /\ mutex = g /\ slot[g] \in SealedFrame
      /\ pc' = [pc EXCEPT ![g] = "idle"] /\ slot' = [slot EXCEPT ![g] = None] /\ mutex' = None
      /\ toIos' = IF agent.conn THEN Append(toIos, slot[g]) ELSE toIos
      /\ UNCHANGED <<agent, todo, phone, opening, toMac, minted, mark, reused, faults>>
  BY DEF WriteAndUnlock, phoneVars, WriterHoldsMutex
<1>2. \A h \in Goroutines : pc'[h] # "write"
  BY <1>1 DEF WriterHoldsMutex, TypeOK
<1>3. slot[g] \in Frames /\ IsSealed(slot[g])
  BY <1>1, FrameKinds DEF Frames, SealedFrame, IsSealed
<1>4. TypeOK'
  <2>1. toIos' \in Seq(Frames)
    BY <1>1, <1>3, AppendToChannel DEF TypeOK
  <2>2. pc' \in [Goroutines -> {"idle", "lock", "write"}]
        /\ slot' \in [Goroutines -> Frames \cup {None}]
    BY <1>1 DEF TypeOK
  <2>3. QED
    BY <1>1, <2>1, <2>2 DEF TypeOK
<1>5. WriterHoldsMutex'
  BY <1>2 DEF WriterHoldsMutex
<1>6. PhoneAhead' /\ SealedInOrder'
  <2>1. CASE agent.conn
    BY <1>1, <1>2, <1>3, <1>4, <2>1, PhoneAheadGrows DEF PhoneAhead
  <2>2. CASE ~agent.conn
    <3>1. Len(toIos') = Len(toIos) - 0 /\ \A i \in 1..Len(toIos') : toIos'[i] = toIos[i + 0]
      BY <1>1, <2>2 DEF TypeOK
    <3>2. QED
      BY <1>1, <1>2, <1>4, <3>1, PhoneAheadShrinks
  <2>3. QED
    BY <2>1, <2>2
<1>7. AgentEpoch'
  BY <1>1 DEF AgentEpoch
<1>8. PhoneEpoch' /\ IosNumbers' /\ OneCurrentDecrypt' /\ MacNumbers' /\ KeysRetireForGood'
      /\ HellosInOrder' /\ MacAhead' /\ ConfirmationFirst' /\ NonceUsedOnce'
  BY <1>1, PhoneEpochKept, IosNumbersKept, CurrentDecryptKept, MacNumbersKept, KeysRetireKept,
     HellosKept, MacAheadKept, ConfirmationKept DEF NonceUsedOnce
<1>9. QED
  BY <1>4, <1>5, <1>6, <1>7, <1>8

(* The relay drops the first frame for an absent peer.                     *)
LEMMA RelayDropsStep ==
  ASSUME SealedInv, RelayDrops
  PROVE  SealedInv'
<1> USE DEF SealedInv
<1>1. UNCHANGED <<agent, pc, slot, mutex, todo, phone, opening, minted, mark, reused, faults>>
  BY DEF RelayDrops, agentVars, phoneVars
<1>2. AgentEpoch' /\ PhoneEpoch' /\ IosNumbers' /\ OneCurrentDecrypt' /\ MacNumbers'
      /\ KeysRetireForGood' /\ WriterHoldsMutex' /\ NonceUsedOnce'
  BY <1>1, PhoneEpochKept, IosNumbersKept, CurrentDecryptKept, MacNumbersKept, KeysRetireKept,
     WriterKept DEF NonceUsedOnce, AgentEpoch
<1>3. CASE ~agent.conn /\ toMac # <<>> /\ toMac' = Tail(toMac) /\ UNCHANGED toIos
  <2>1. TypeOK'
    BY <1>1, <1>3, TailOfChannel DEF TypeOK
  <2>2. agent'.key = None
    BY <1>1, <1>3 DEF AgentEpoch
  <2>3. PhoneAhead' /\ SealedInOrder'
    BY <1>1, <1>3, PhoneAheadKept, SealedInOrderKept
  <2>4. MacAhead' /\ HellosInOrder' /\ ConfirmationFirst'
    BY <1>1, <1>3, <2>1, <2>2, MacAheadShrinks, HellosShrink, ConfirmationShrinks
  <2>5. QED
    BY <1>2, <2>1, <2>3, <2>4
<1>4. CASE ~phone.open /\ toIos # <<>> /\ toIos' = Tail(toIos) /\ UNCHANGED toMac
  <2>1. /\ toIos' \in Seq(Frames) /\ Len(toIos') = Len(toIos) - 1
        /\ \A i \in 1..Len(toIos') : toIos'[i] = toIos[i + 1]
    BY <1>4, TailOfChannel DEF TypeOK
  <2>2. TypeOK'
    BY <1>1, <1>4, <2>1 DEF TypeOK
  <2>3. PhoneAhead' /\ SealedInOrder'
    BY <1>1, <2>1, <2>2, PhoneAheadShrinks
  <2>4. MacAhead' /\ HellosInOrder' /\ ConfirmationFirst'
    BY <1>1, <1>4, MacAheadKept, HellosKept, ConfirmationKept
  <2>5. QED
    BY <1>2, <2>2, <2>3, <2>4
<1>5. QED
  BY <1>3, <1>4 DEF RelayDrops

--------------------------------------------------------------------------------
(* The phone's steps.                                                      *)

(* A sent frame takes a number and leaves the session alone.               *)
LEMMA CountedType ==
  ASSUME NEW s \in PhoneType
  PROVE  /\ Counted(s) \in PhoneType /\ Counted(s).seq = s.seq + 1
         /\ Counted(s).open = s.open /\ Counted(s).key = s.key
         /\ Counted(s).nonceIOS = s.nonceIOS /\ Counted(s).nonceMac = s.nonceMac
         /\ Counted(s).guard = s.guard /\ Counted(s).connected = s.connected
<1> DEFINE n == s.seq + 1
<1>1. n \in Nat \ {0}
  BY DEF PhoneType
<1>2. Counted(s) = [s EXCEPT !.seq = n]
  BY DEF Counted
<1> HIDE DEF n
<1>3. Counted(s) \in PhoneType /\ Counted(s).seq = n
  BY <1>1, <1>2 DEF PhoneType
<1>4. /\ Counted(s).open = s.open /\ Counted(s).key = s.key
      /\ Counted(s).nonceIOS = s.nonceIOS /\ Counted(s).nonceMac = s.nonceMac
      /\ Counted(s).guard = s.guard /\ Counted(s).connected = s.connected
  BY <1>2 DEF PhoneType
<1>5. QED
  BY <1>3, <1>4 DEF n

(* A closed session has no key, no mark and no confirmation.               *)
LEMMA ClosedType ==
  ASSUME NEW s \in PhoneType
  PROVE  /\ Closed(s) \in PhoneType /\ ~Closed(s).open /\ ~Closed(s).connected
         /\ Closed(s).key = None /\ Closed(s).guard = NewGuard
         /\ Closed(s).nonceIOS = s.nonceIOS
<1>1. Closed(s) = [s EXCEPT !.key = None, !.seq = 1, !.guard = NewGuard, !.open = FALSE,
                            !.connected = FALSE]
  BY DEF Closed, InvalidateSession, PhoneType
<1>2. None \in KeyOrNone /\ NewGuard \in GuardType /\ 1 \in Nat \ {0}
  BY NewGuardType DEF KeyOrNone
<1>3. Closed(s) \in PhoneType
  BY <1>1, <1>2 DEF PhoneType
<1>4. /\ ~Closed(s).open /\ ~Closed(s).connected /\ Closed(s).key = None
      /\ Closed(s).guard = NewGuard /\ Closed(s).nonceIOS = s.nonceIOS
  BY <1>1 DEF PhoneType
<1>5. QED
  BY <1>3, <1>4

(* A new connection also forgets both nonces.                              *)
LEMMA StartConnectionType ==
  ASSUME NEW s \in PhoneType
  PROVE  /\ StartConnection(s) \in PhoneType /\ ~StartConnection(s).connected
         /\ StartConnection(s).key = None /\ StartConnection(s).guard = NewGuard
         /\ StartConnection(s).nonceIOS = None
<1>1. Closed(s) \in PhoneType /\ ~Closed(s).connected /\ Closed(s).key = None
      /\ Closed(s).guard = NewGuard
  BY ClosedType
<1>2. QED
  BY <1>1 DEF StartConnection, PhoneType, NonceOrNone

(* A re-key in place: no key, no mark, a fresh nonce that is about to be   *)
(* greeted with.                                                           *)
LEMMA RekeyedType ==
  ASSUME NEW s \in PhoneType, minted.ios + 1 \in Nonces
  PROVE  /\ Rekeyed(s) \in PhoneType /\ Rekeyed(s).open = s.open /\ ~Rekeyed(s).connected
         /\ Rekeyed(s).key = None /\ Rekeyed(s).guard = NewGuard
         /\ Rekeyed(s).nonceIOS = minted.ios + 1
<1> DEFINE n == minted.ios + 1
           t == [s EXCEPT !.key = None, !.seq = 1, !.nonceMac = None, !.guard = NewGuard,
                          !.nonceIOS = n, !.connected = FALSE]
<1>1. Rekeyed(s) = Counted(t)
  BY DEF Rekeyed, ResetForRehandshake, PhoneType
<1>2. n \in NonceOrNone /\ None \in NonceOrNone /\ None \in KeyOrNone
      /\ NewGuard \in GuardType /\ 1 \in Nat \ {0}
  BY NewGuardType DEF NonceOrNone, KeyOrNone
<1> HIDE DEF n
<1>3. t \in PhoneType
  BY <1>2 DEF PhoneType
<1>4. t.open = s.open /\ ~t.connected /\ t.key = None /\ t.guard = NewGuard /\ t.nonceIOS = n
  BY DEF PhoneType
<1> HIDE DEF t
<1>5. QED
  BY <1>1, <1>3, <1>4, CountedType DEF n

(* What a step of the phone does to the channel to the agent: h HELLOs of  *)
(* its newest nonce, then e sealed frames with a number not used before.   *)
Grown(h, e) ==
  /\ h \in {0, 1} /\ e \in {0, 1}
  /\ toMac' \in Seq(Frames) /\ Len(toMac') = Len(toMac) + h + e
  /\ \A i \in 1..Len(toMac) : toMac'[i] = toMac[i]
  /\ h = 1 => ~IsSealed(toMac'[Len(toMac) + 1]) /\ toMac'[Len(toMac) + 1].nonce = minted'.ios
  /\ e = 0 => mark'["ios"] = mark["ios"]
  /\ e = 1 => LET f == toMac'[Len(toMac) + h + 1]
              IN  /\ f \in SealedFrame /\ f.seq > mark["ios"][f.key]
                  /\ mark'["ios"] = [mark["ios"] EXCEPT ![f.key] = f.seq]

(* The agent sees HELLOs and numbers in order.                             *)
LEMMA MacAheadGrows ==
  ASSUME SealedInv, UNCHANGED agent, NEW h, NEW e, Grown(h, e),
         minted'.ios \in Nat, minted'.ios >= minted.ios
  PROVE  MacAhead' /\ HellosInOrder'
<1> USE DEF SealedInv
<1> DEFINE n == Len(toMac)
           f == toMac'[n + h + 1]
<1>1. /\ n \in Nat /\ h \in {0, 1} /\ e \in {0, 1} /\ Len(toMac') = n + h + e
      /\ \A i \in 1..n : toMac'[i] = toMac[i] /\ toMac[i] \in Frames
  BY DEF Grown, TypeOK
<1>2. \A i \in 1..Len(toMac') : \/ i \in 1..n
                                \/ i = n + 1 /\ h = 1
                                \/ i = n + h + 1 /\ e = 1
  BY <1>1
<1>3. \A k \in Keys : mark["ios"][k] \in Nat /\ mark'["ios"][k] \in Nat
                      /\ mark["ios"][k] <= mark'["ios"][k]
  <2>1. CASE e = 0
    BY <2>1 DEF Grown, TypeOK
  <2>2. CASE e = 1
    <3>1. f \in SealedFrame /\ f.seq > mark["ios"][f.key]
          /\ mark'["ios"] = [mark["ios"] EXCEPT ![f.key] = f.seq]
      BY <2>2 DEF Grown
    <3>2. f.key \in Keys /\ f.seq \in Nat
      BY <3>1 DEF SealedFrame
    <3>3. mark["ios"] \in [Keys -> Nat]
      BY DEF TypeOK
    <3> HIDE DEF f
    <3>4. QED
      BY <3>1, <3>2, <3>3
  <2>3. QED
    BY <1>1, <2>1, <2>2
<1>4. e = 1 => /\ f \in SealedFrame /\ IsSealed(f) /\ f.seq > mark["ios"][f.key]
               /\ mark'["ios"][f.key] = f.seq
  <2> SUFFICES ASSUME e = 1
               PROVE  /\ f \in SealedFrame /\ IsSealed(f) /\ f.seq > mark["ios"][f.key]
                      /\ mark'["ios"][f.key] = f.seq
    OBVIOUS
  <2>1. f \in SealedFrame /\ f.seq > mark["ios"][f.key]
        /\ mark'["ios"] = [mark["ios"] EXCEPT ![f.key] = f.seq]
    BY DEF Grown
  <2>2. f.key \in Keys /\ IsSealed(f)
    BY <2>1 DEF SealedFrame, IsSealed
  <2>3. mark["ios"] \in [Keys -> Nat]
    BY DEF TypeOK
  <2> HIDE DEF f
  <2>4. QED
    BY <2>1, <2>2, <2>3
<1>5. h = 1 => ~IsSealed(toMac'[n + 1]) /\ toMac'[n + 1].nonce = minted'.ios
  BY DEF Grown
<1>6. \A i \in 1..n : IsSealed(toMac[i]) =>
        /\ toMac[i].key \in Keys /\ toMac[i].seq \in Nat
        /\ 0 < toMac[i].seq /\ toMac[i].seq <= mark["ios"][toMac[i].key]
        /\ toMac[i].key = agent.key => agent.maxRecv < toMac[i].seq
  BY <1>1, FrameKinds DEF MacAhead, SealedFrame
<1> HIDE DEF f, n
<1>7. ASSUME NEW i \in 1..Len(toMac'), IsSealed(toMac'[i])
      PROVE  /\ 0 < toMac'[i].seq /\ toMac'[i].seq <= mark'["ios"][toMac'[i].key]
             /\ toMac'[i].key = agent.key => agent.maxRecv < toMac'[i].seq
  <2>1. CASE i \in 1..n
    BY <1>1, <1>3, <1>6, <1>7, <2>1
  <2>2. CASE i = n + h + 1 /\ e = 1
    <3>1. toMac'[i] = f /\ f.key \in Keys /\ f.seq \in Nat
      BY <1>4, <2>2 DEF f, SealedFrame
    <3>2. agent.key # None => agent.maxRecv <= mark["ios"][agent.key]
      BY DEF MacAhead
    <3>3. f.key # None
      BY <3>1, NoneIsNothing
    <3>4. mark["ios"][f.key] \in Nat /\ agent.maxRecv \in Nat
      BY <1>3, <3>1 DEF TypeOK, AgentType
    <3>5. QED
      BY <1>4, <2>2, <3>1, <3>2, <3>3, <3>4
  <2>3. QED
    BY <1>2, <1>5, <1>7, <2>1, <2>2
<1>8. ASSUME NEW i \in 1..Len(toMac'), NEW j \in 1..Len(toMac'), i < j
      PROVE  Before(toMac'[i], toMac'[j])
  <2>1. CASE j \in 1..n
    BY <1>1, <1>8, <2>1 DEF MacAhead, n
  <2>2. CASE j = n + h + 1 /\ e = 1
    <3>1. CASE i \in 1..n
      <4> SUFFICES ASSUME IsSealed(toMac[i]), toMac[i].key = f.key
                   PROVE  toMac[i].seq < f.seq
        BY <1>1, <2>2, <3>1 DEF Before, f
      <4>1. f.seq \in Nat /\ toMac[i].seq \in Nat /\ mark["ios"][f.key] \in Nat
        BY <1>3, <1>4, <1>6, <2>2, <3>1 DEF SealedFrame
      <4>2. QED
        BY <1>4, <1>6, <2>2, <3>1, <4>1
    <3>2. CASE i \notin 1..n
      <4>1. i = n + 1 /\ h = 1
        BY <1>1, <1>2, <1>8, <2>2, <3>2
      <4>2. QED
        BY <1>5, <4>1 DEF Before
    <3>3. QED
      BY <3>1, <3>2
  <2>3. CASE j = n + 1 /\ h = 1
    BY <1>5, <2>3 DEF Before
  <2>4. QED
    BY <1>2, <2>1, <2>2, <2>3
<1>9. agent.key # None => agent.maxRecv <= mark'["ios"][agent.key]
  <2>1. agent.key # None => agent.key \in Keys /\ agent.maxRecv \in Nat
    BY DEF TypeOK, AgentType, KeyOrNone
  <2>2. QED
    BY <1>3, <2>1 DEF MacAhead
<1>10. MacAhead'
  BY <1>7, <1>8, <1>9 DEF MacAhead, Before, IsSealed
<1>11. agent.iosNonce # None => agent.iosNonce \in Nat /\ agent.iosNonce <= minted.ios
  BY DEF AgentEpoch, TypeOK, AgentType, NonceOrNone, Nonces
<1>12. minted.ios \in Nat /\ \A i \in 1..n : ~IsSealed(toMac[i]) => toMac[i].nonce \in Nat
  BY <1>1, FrameKinds DEF TypeOK, HelloFrames, Nonces
<1>13. ASSUME NEW i \in 1..Len(toMac'), ~IsSealed(toMac'[i])
       PROVE  /\ toMac'[i].nonce <= minted'.ios
              /\ agent.iosNonce # None => agent.iosNonce <= toMac'[i].nonce
  <2>1. CASE i \in 1..n
    <3>1. toMac[i].nonce <= minted.ios /\ (agent.iosNonce # None => agent.iosNonce <= toMac[i].nonce)
      BY <1>1, <1>13, <2>1 DEF HellosInOrder, n
    <3>2. QED
      BY <1>1, <1>12, <1>13, <2>1, <3>1
  <2>2. CASE i = n + 1 /\ h = 1
    BY <1>5, <1>11, <1>12, <2>2
  <2>3. QED
    BY <1>2, <1>4, <1>13, <2>1, <2>2 DEF f
<1>14. ASSUME NEW i \in 1..Len(toMac'), NEW j \in 1..Len(toMac'), i < j,
              ~IsSealed(toMac'[i]), ~IsSealed(toMac'[j])
       PROVE  toMac'[i].nonce <= toMac'[j].nonce
  <2>1. CASE j \in 1..n
    BY <1>1, <1>14, <2>1 DEF HellosInOrder, n
  <2>2. CASE j = n + 1 /\ h = 1
    <3>1. i \in 1..n
      BY <1>1, <1>14, <2>2
    <3>2. toMac[i].nonce <= minted.ios
      BY <1>1, <1>14, <3>1 DEF HellosInOrder, n
    <3>3. QED
      BY <1>1, <1>5, <1>12, <1>14, <2>2, <3>1, <3>2
  <2>3. QED
    BY <1>2, <1>4, <1>14, <2>1, <2>2 DEF f
<1>15. HellosInOrder'
  BY <1>13, <1>14 DEF HellosInOrder, IsSealed
<1>16. QED
  BY <1>10, <1>15

(* Input follows a confirmation: it is sent by a connected phone, and a    *)
(* phone becomes connected only with a ready frame of the same key.        *)
LEMMA ConfirmationGrows ==
  ASSUME SealedInv, UNCHANGED agent, mark'["mac"] = mark["mac"], NEW h, NEW e, Grown(h, e),
         phone'.connected =>
           \/ phone.connected /\ phone'.key = phone.key
           \/ /\ mark["mac"][phone'.key] > 0 /\ e = 1
              /\ toMac'[Len(toMac')].type = "ready" /\ toMac'[Len(toMac')].key = phone'.key,
         e = 1 /\ toMac'[Len(toMac')].type = "data" =>
           phone.connected /\ toMac'[Len(toMac')].key = phone.key
  PROVE  ConfirmationFirst'
<1> USE DEF SealedInv
<1>1. /\ Len(toMac) \in Nat /\ h \in {0, 1} /\ e \in {0, 1}
      /\ Len(toMac') = Len(toMac) + h + e /\ Len(toMac') \in Nat
      /\ \A i \in 1..Len(toMac) : toMac'[i] = toMac[i]
      /\ \A i \in 1..Len(toMac') : \/ i \in 1..Len(toMac)
                                   \/ i = Len(toMac) + 1 /\ h = 1
                                   \/ i = Len(toMac') /\ e = 1
  <2>1. /\ Len(toMac) \in Nat /\ h \in {0, 1} /\ e \in {0, 1}
        /\ Len(toMac') = Len(toMac) + h + e
        /\ \A i \in 1..Len(toMac) : toMac'[i] = toMac[i]
    BY DEF Grown, TypeOK
  <2>2. QED
    BY <2>1
<1>2. ASSUME NEW n \in 0..Len(toMac), NEW m \in Nat, n <= m, ReadyWithin(n)
      PROVE  ReadyWithin(m)'
  <2>1. PICK j \in 1..n : toMac[j].type = "ready" /\ toMac[j].key = agent.key
    BY <1>2 DEF ReadyWithin
  <2>2. j \in 1..m /\ j \in 1..Len(toMac) /\ toMac'[j] = toMac[j]
    BY <1>1, <1>2
  <2>3. QED
    BY <2>1, <2>2 DEF ReadyWithin
<1>3. ASSUME ReadyWithin(Len(toMac)), NEW m \in Nat, Len(toMac) <= m
      PROVE  ReadyWithin(m)'
  <2>1. Len(toMac) \in 0..Len(toMac)
    BY <1>1
  <2>2. QED
    BY <1>2, <1>3, <2>1
<1>4. phone'.connected => mark'["mac"][phone'.key] > 0
  BY DEF ConfirmationFirst
<1>5. ASSUME phone'.connected, phone'.key = agent.key
      PROVE  agent.ready \/ ReadyWithin(Len(toMac))'
  <2>1. PICK m \in Nat : m = Len(toMac')
    BY <1>1
  <2>2. CASE phone.connected /\ phone'.key = phone.key
    <3>1. agent.ready \/ ReadyWithin(Len(toMac))
      BY <1>5, <2>2 DEF ConfirmationFirst
    <3>2. ReadyWithin(Len(toMac)) => ReadyWithin(m)'
      BY <1>1, <1>3, <2>1
    <3>3. QED
      BY <2>1, <3>1, <3>2 DEF ReadyWithin
  <2>3. CASE /\ mark["mac"][phone'.key] > 0 /\ e = 1
             /\ toMac'[Len(toMac')].type = "ready" /\ toMac'[Len(toMac')].key = phone'.key
    <3>1. Len(toMac') \in 1..Len(toMac')
      BY <1>1, <2>3
    <3>2. QED
      BY <1>5, <2>3, <3>1 DEF ReadyWithin
  <2>4. QED
    BY <1>5, <2>2, <2>3
<1>6. ASSUME NEW i \in 1..Len(toMac'), toMac'[i].type = "data"
      PROVE  /\ mark["mac"][toMac'[i].key] > 0
             /\ toMac'[i].key = agent.key => agent.ready \/ ReadyWithin(i - 1)'
  <2>1. CASE i \in 1..Len(toMac)
    <3>1. /\ mark["mac"][toMac[i].key] > 0
          /\ toMac[i].key = agent.key => agent.ready \/ ReadyWithin(i - 1)
      BY <1>1, <1>6, <2>1 DEF ConfirmationFirst
    <3>2. i - 1 \in 0..Len(toMac) /\ i - 1 \in Nat /\ i - 1 <= i - 1
      BY <1>1, <2>1
    <3>3. ReadyWithin(i - 1) => ReadyWithin(i - 1)'
      BY <1>2, <3>2
    <3>4. QED
      BY <1>1, <2>1, <3>1, <3>3
  <2>2. CASE i = Len(toMac) + 1 /\ h = 1
    BY <1>6, <2>2 DEF Grown, IsSealed
  <2>3. CASE i = Len(toMac') /\ e = 1
    <3>1. phone.connected /\ toMac'[i].key = phone.key
      BY <1>6, <2>3
    <3>2. mark["mac"][phone.key] > 0
      BY <3>1 DEF ConfirmationFirst
    <3>3. phone.key = agent.key => agent.ready \/ ReadyWithin(Len(toMac))
      BY <3>1 DEF ConfirmationFirst
    <3>4. i - 1 \in Nat /\ Len(toMac) <= i - 1
      BY <1>1, <2>3
    <3>5. ReadyWithin(Len(toMac)) => ReadyWithin(i - 1)'
      BY <1>3, <3>4
    <3>6. QED
      BY <3>1, <3>2, <3>3, <3>5
  <2>4. QED
    BY <1>1, <2>1, <2>2, <2>3
<1>7. QED
  BY <1>4, <1>5, <1>6 DEF ConfirmationFirst

(* The agent's side of the invariant, in a step of the phone.              *)
LEMMA AgentSideKept ==
  ASSUME SealedInv, UNCHANGED agentVars, minted'.mac = minted.mac, minted'.ios \in Nat,
         minted'.ios >= minted.ios, mark'["mac"] = mark["mac"]
  PROVE  AgentEpoch' /\ MacNumbers' /\ KeysRetireForGood' /\ WriterHoldsMutex'
<1> USE DEF SealedInv, agentVars
<1>1. agent.iosNonce # None => agent.iosNonce \in Nat /\ agent.iosNonce <= minted.ios
  BY DEF AgentEpoch, TypeOK, AgentType, NonceOrNone, Nonces
<1>2. minted.ios \in Nat
  BY DEF TypeOK
<1>3. AgentEpoch'
  BY <1>1, <1>2 DEF AgentEpoch
<1>4. QED
  BY <1>3, MacNumbersKept, KeysRetireKept, WriterKept

(* Nothing is sent.                                                        *)
LEMMA NothingSent ==
  ASSUME SealedInv, UNCHANGED toMac, mark'["ios"] = mark["ios"]
  PROVE  Grown(0, 0)
  BY DEF SealedInv, TypeOK, Grown

(* startConnection: lost frames and a fresh session.                       *)
LEMMA PhoneConnectsStep ==
  ASSUME SealedInv, PhoneConnects
  PROVE  SealedInv'
<1> USE DEF SealedInv
<1>1. /\ ~phone.open /\ phone' = StartConnection(phone)
      /\ UNCHANGED <<opening, toMac, agentVars, minted, mark, reused, faults>>
  BY DEF PhoneConnects, PhoneRests
<1>2. PICK k \in 0..Len(toIos) : toIos' = SubSeq(toIos, k + 1, Len(toIos))
  BY DEF PhoneConnects
<1>3. /\ toIos' \in Seq(Frames) /\ Len(toIos') = Len(toIos) - k /\ k \in Nat
      /\ \A i \in 1..Len(toIos') : toIos'[i] = toIos[i + k]
  BY <1>2, SuffixOfChannel DEF TypeOK
<1>4. /\ phone' \in PhoneType /\ ~phone'.connected /\ phone'.key = None
      /\ phone'.guard.maxSeq = 0 /\ phone'.nonceIOS = None
  BY <1>1, StartConnectionType, NewGuardType DEF TypeOK
<1>5. TypeOK'
  BY <1>1, <1>3, <1>4 DEF TypeOK, agentVars
<1>6. minted'.ios \in Nat /\ minted'.ios >= minted.ios
  BY <1>1 DEF TypeOK
<1>7. PhoneEpoch' /\ IosNumbers'
  BY <1>1, <1>4 DEF PhoneEpoch, IosNumbers
<1>8. OneCurrentDecrypt'
  BY <1>1 DEF OneCurrentDecrypt
<1>9. PhoneAhead' /\ SealedInOrder'
  BY <1>1, <1>3, <1>4, <1>5, PhoneAheadShrinks DEF agentVars
<1>10. MacAhead' /\ HellosInOrder' /\ ConfirmationFirst'
  BY <1>1, <1>4, <1>6, NothingSent, MacAheadGrows, ConfirmationGrows DEF agentVars
<1>11. QED
  BY <1>1, <1>5, <1>6, <1>7, <1>8, <1>9, <1>10, AgentSideKept DEF NonceUsedOnce

(* transport.close: decrypts under way belong to an earlier generation.    *)
LEMMA PhoneDropsStep ==
  ASSUME SealedInv, PhoneDrops
  PROVE  SealedInv'
<1> USE DEF SealedInv
<1>1. /\ phone' = Closed(phone) /\ opening' = NextGeneration(opening)
      /\ UNCHANGED <<toMac, toIos, agentVars, minted, mark, reused>>
  BY DEF PhoneDrops
<1>2. /\ phone' \in PhoneType /\ ~phone'.connected /\ phone'.key = None /\ ~phone'.open
      /\ phone'.guard.maxSeq = 0 /\ phone'.nonceIOS = phone.nonceIOS
  BY <1>1, ClosedType, NewGuardType DEF TypeOK
<1>3. /\ opening' \subseteq [frame : Frames, key : KeyOrNone, live : BOOLEAN]
      /\ \A o \in opening' : ~o.live
  <2>1. ASSUME NEW o \in opening'
        PROVE  o \in [frame : Frames, key : KeyOrNone, live : BOOLEAN] /\ ~o.live
    <3>1. PICK p \in opening : o = [p EXCEPT !.live = FALSE]
      BY <1>1, <2>1 DEF NextGeneration
    <3>2. p \in [frame : Frames, key : KeyOrNone, live : BOOLEAN]
      BY DEF TypeOK
    <3>3. QED
      BY <3>1, <3>2
  <2>2. QED
    BY <2>1
<1>4. TypeOK'
  BY <1>1, <1>2, <1>3 DEF TypeOK, agentVars, PhoneDrops, Fault
<1>5. minted'.ios \in Nat /\ minted'.ios >= minted.ios
  BY <1>1 DEF TypeOK
<1>6. PhoneEpoch' /\ IosNumbers'
  BY <1>1, <1>2 DEF PhoneEpoch, IosNumbers
<1>7. OneCurrentDecrypt'
  BY <1>3 DEF OneCurrentDecrypt
<1>8. PhoneAhead' /\ SealedInOrder'
  <2>1. PICK k \in Nat : k = 0
    OBVIOUS
  <2>2. Len(toIos') = Len(toIos) - k /\ \A i \in 1..Len(toIos') : toIos'[i] = toIos[i + k]
    BY <1>1, <2>1 DEF TypeOK
  <2>3. /\ mark'["mac"] = mark["mac"] /\ pc' = pc /\ slot' = slot
        /\ \A o \in opening' : o.live => o \in opening
    BY <1>1, <1>3 DEF agentVars
  <2>4. QED
    BY <1>2, <1>4, <2>2, <2>3, PhoneAheadShrinks
<1>9. MacAhead' /\ HellosInOrder' /\ ConfirmationFirst'
  BY <1>1, <1>2, <1>5, NothingSent, MacAheadGrows, ConfirmationGrows DEF agentVars
<1>10. QED
  BY <1>1, <1>4, <1>5, <1>6, <1>7, <1>8, <1>9, AgentSideKept DEF NonceUsedOnce

(* A step of the phone that reads no frame leaves those under way alone.   *)
LEMMA PhoneAheadStays ==
  ASSUME SealedInv, TypeOK', UNCHANGED <<toIos, agentVars>>, mark'["mac"] = mark["mac"],
         \A o \in opening' : o.live => o \in opening,
         \/ phone'.guard.maxSeq = 0
         \/ phone'.key = phone.key /\ phone'.guard.maxSeq = phone.guard.maxSeq
  PROVE  PhoneAhead' /\ SealedInOrder'
<1> USE DEF SealedInv, agentVars
<1>1. PICK k \in Nat : k = 0
  OBVIOUS
<1>2. Len(toIos') = Len(toIos) - k /\ \A i \in 1..Len(toIos') : toIos'[i] = toIos[i + k]
  BY <1>1 DEF TypeOK
<1>3. QED
  BY <1>2, PhoneAheadShrinks

(* Sealing with a number above the mark of its key.                        *)
LEMMA IosNumberUsed ==
  ASSUME SealedInv, NEW k \in Keys, NEW n \in Nat, n > mark["ios"][k], UseNumber("ios", k, n)
  PROVE  /\ mark' \in [{"mac", "ios"} -> [Keys -> Nat]]
         /\ mark'["mac"] = mark["mac"] /\ mark'["ios"] = [mark["ios"] EXCEPT ![k] = n]
         /\ reused' = FALSE
<1> USE DEF SealedInv
<1>1. mark \in [{"mac", "ios"} -> [Keys -> Nat]] /\ mark["ios"][k] \in Nat
  BY DEF TypeOK
<1>2. mark' = [mark EXCEPT !["ios"][k] = n]
  BY DEF UseNumber
<1>3. /\ mark' \in [{"mac", "ios"} -> [Keys -> Nat]]
      /\ mark'["mac"] = mark["mac"] /\ mark'["ios"] = [mark["ios"] EXCEPT ![k] = n]
  BY <1>1, <1>2
<1>4. ~(n <= mark["ios"][k])
  BY <1>1
<1>5. reused' = FALSE
  BY <1>4 DEF UseNumber, NonceUsedOnce
<1>6. QED
  BY <1>3, <1>5

(* What the phone appends, as Grown says it.                               *)
LEMMA GrownByHello ==
  ASSUME SealedInv, minted'.ios \in Nonces, mark'["ios"] = mark["ios"],
         toMac' = Append(toMac, Hello(minted'.ios))
  PROVE  Grown(1, 0)
<1> USE DEF SealedInv
<1> DEFINE f == Hello(minted'.ios)
<1>1. f \in Frames /\ ~IsSealed(f) /\ f.nonce = minted'.ios
  BY HelloIsFrame DEF Hello, IsSealed
<1> HIDE DEF f
<1>2. /\ toMac' \in Seq(Frames) /\ Len(toMac) \in Nat /\ Len(toMac') = Len(toMac) + 1
      /\ toMac'[Len(toMac) + 1] = f /\ \A i \in 1..Len(toMac) : toMac'[i] = toMac[i]
  <2>1. toMac' = Append(toMac, f)
    BY DEF f
  <2>2. QED
    BY <1>1, <2>1, AppendToChannel DEF TypeOK
<1>3. QED
  BY <1>1, <1>2 DEF Grown

LEMMA GrownBySealed ==
  ASSUME SealedInv, NEW f \in SealedFrame, f.seq > mark["ios"][f.key],
         mark'["ios"] = [mark["ios"] EXCEPT ![f.key] = f.seq], toMac' = Append(toMac, f)
  PROVE  Grown(0, 1) /\ toMac'[Len(toMac')] = f
<1> USE DEF SealedInv
<1>1. /\ toMac' \in Seq(Frames) /\ Len(toMac) \in Nat /\ Len(toMac') = Len(toMac) + 1
      /\ toMac'[Len(toMac) + 1] = f /\ \A i \in 1..Len(toMac) : toMac'[i] = toMac[i]
  <2>1. f \in Frames
    BY DEF Frames
  <2>2. QED
    BY <2>1, AppendToChannel DEF TypeOK
<1>2. toMac'[Len(toMac) + 0 + 1] = f
  BY <1>1
<1>3. QED
  BY <1>1, <1>2 DEF Grown

LEMMA HelloAndSealed ==
  ASSUME NEW h \in Frames, ~IsSealed(h), h.nonce = minted'.ios,
         NEW f \in SealedFrame, f.seq > mark["ios"][f.key],
         mark'["ios"] = [mark["ios"] EXCEPT ![f.key] = f.seq],
         toMac' \in Seq(Frames), Len(toMac) \in Nat, Len(toMac') = Len(toMac) + 1 + 1,
         toMac'[Len(toMac) + 1] = h, toMac'[Len(toMac) + 1 + 1] = f,
         \A i \in 1..Len(toMac) : toMac'[i] = toMac[i]
  PROVE  Grown(1, 1)
  BY DEF Grown

(* A HELLO, and a sealed frame behind it.                                  *)
LEMMA GrownByBoth ==
  ASSUME SealedInv, minted'.ios \in Nonces, NEW f \in SealedFrame, f.seq > mark["ios"][f.key],
         mark'["ios"] = [mark["ios"] EXCEPT ![f.key] = f.seq],
         toMac' = toMac \o <<Hello(minted'.ios)>> \o <<f>>
  PROVE  Grown(1, 1) /\ toMac'[Len(toMac')] = f
<1> USE DEF SealedInv
<1> DEFINE h == Hello(minted'.ios)
<1>1. h \in Frames /\ f \in Frames /\ ~IsSealed(h) /\ h.nonce = minted'.ios
  BY HelloIsFrame DEF Frames
<1>2. toMac' = toMac \o <<h>> \o <<f>>
  OBVIOUS
<1> HIDE DEF h
<1>3. /\ toMac' \in Seq(Frames) /\ Len(toMac) \in Nat /\ Len(toMac') = Len(toMac) + 1 + 1
      /\ toMac'[Len(toMac) + 1] = h /\ toMac'[Len(toMac) + 1 + 1] = f
      /\ \A i \in 1..Len(toMac) : toMac'[i] = toMac[i]
  BY <1>1, <1>2, TwoToChannel DEF TypeOK
<1>4. toMac'[Len(toMac')] = f
  BY <1>3
<1>5. QED
  BY <1>1, <1>3, <1>4, HelloAndSealed

(* A fresh nonce of the phone.                                             *)
LEMMA MintIos ==
  ASSUME TypeOK, minted.ios < MaxNonce, minted' = [minted EXCEPT !.ios = @ + 1]
  PROVE  /\ minted' \in [mac : 0..MaxNonce, ios : 0..MaxNonce]
         /\ minted'.mac = minted.mac /\ minted'.ios = minted.ios + 1
         /\ minted.ios \in Nat /\ minted.ios + 1 \in Nonces
<1> DEFINE n == minted.ios + 1
<1>1. minted \in [mac : 0..MaxNonce, ios : 0..MaxNonce] /\ MaxNonce \in Nat
  BY SealedAssumption DEF TypeOK, SealedAssumption
<1>2. n \in 0..MaxNonce /\ minted.ios \in Nat /\ n \in Nonces
  BY <1>1 DEF Nonces
<1>3. minted' = [minted EXCEPT !.ios = n]
  OBVIOUS
<1> HIDE DEF n
<1>4. /\ minted' \in [mac : 0..MaxNonce, ios : 0..MaxNonce]
      /\ minted'.mac = minted.mac /\ minted'.ios = n
  BY <1>1, <1>2, <1>3
<1>5. QED
  BY <1>2, <1>4 DEF n

(* scheduleHandshake's retry: the nonce is the newest, fresh or not.       *)
LEMMA PhoneSendsHelloFacts ==
  ASSUME SealedInv, PhoneSendsHello
  PROVE  /\ phone' \in PhoneType /\ minted' \in [mac : 0..MaxNonce, ios : 0..MaxNonce]
         /\ phone'.open /\ ~phone'.connected /\ phone'.key = phone.key
         /\ phone'.guard = phone.guard /\ phone'.seq = phone.seq + 1
         /\ phone'.nonceIOS = minted'.ios /\ minted'.ios \in Nonces
         /\ minted.ios \in Nat /\ minted'.mac = minted.mac
         /\ \/ phone.nonceIOS = None /\ minted'.ios = minted.ios + 1
            \/ phone.nonceIOS # None /\ minted' = minted
<1> USE DEF SealedInv
<1>1. CASE phone.nonceIOS = None
  <2> DEFINE n == minted.ios + 1
             s == [phone EXCEPT !.nonceIOS = n]
  <2>1. phone' = Counted(s) /\ minted.ios < MaxNonce /\ minted' = [minted EXCEPT !.ios = @ + 1]
    BY <1>1 DEF PhoneSendsHello
  <2>2. /\ minted' \in [mac : 0..MaxNonce, ios : 0..MaxNonce]
        /\ minted'.mac = minted.mac /\ minted'.ios = n /\ minted.ios \in Nat /\ n \in Nonces
    BY <2>1, MintIos
  <2> HIDE DEF n
  <2>3. phone \in PhoneType /\ n \in NonceOrNone
    BY <2>2 DEF TypeOK, NonceOrNone
  <2>4. /\ s \in PhoneType /\ s.nonceIOS = n /\ s.key = phone.key /\ s.guard = phone.guard
        /\ s.seq = phone.seq /\ s.open = phone.open /\ s.connected = phone.connected
    BY <2>3 DEF PhoneType
  <2> HIDE DEF s
  <2>5. QED
    BY <1>1, <2>1, <2>2, <2>4, CountedType DEF n, PhoneSendsHello
<1>2. CASE phone.nonceIOS # None
  <2>1. phone' = Counted(phone) /\ minted' = minted
    BY <1>2 DEF PhoneSendsHello
  <2>2. phone \in PhoneType /\ minted \in [mac : 0..MaxNonce, ios : 0..MaxNonce]
        /\ phone.nonceIOS = minted.ios /\ phone.nonceIOS \in Nonces
    BY <1>2 DEF TypeOK, PhoneEpoch, PhoneType, NonceOrNone
  <2>3. QED
    BY <1>2, <2>1, <2>2, CountedType DEF PhoneSendsHello
<1>3. QED
  BY <1>1, <1>2

(* The retry of the handshake.                                             *)
LEMMA PhoneSendsHelloStep ==
  ASSUME SealedInv, PhoneSendsHello
  PROVE  SealedInv'
<1> USE DEF SealedInv
<1>1. /\ phone' \in PhoneType /\ minted' \in [mac : 0..MaxNonce, ios : 0..MaxNonce]
      /\ phone'.open /\ ~phone'.connected /\ phone'.key = phone.key
      /\ phone'.guard = phone.guard /\ phone'.seq = phone.seq + 1
      /\ phone'.nonceIOS = minted'.ios /\ minted'.ios \in Nonces
      /\ minted.ios \in Nat /\ minted'.mac = minted.mac
      /\ \/ phone.nonceIOS = None /\ minted'.ios = minted.ios + 1
         \/ phone.nonceIOS # None /\ minted' = minted
  BY PhoneSendsHelloFacts
<1>2. /\ toMac' = Append(toMac, Hello(minted'.ios)) /\ phone.open /\ ~phone.connected
      /\ UNCHANGED <<agentVars, opening, toIos, mark, reused, faults>>
  BY <1>1 DEF PhoneSendsHello
<1>3. Grown(1, 0)
  BY <1>1, <1>2, GrownByHello
<1>4. TypeOK'
  BY <1>1, <1>2, <1>3 DEF TypeOK, agentVars, Grown
<1>5. minted'.ios \in Nat /\ minted'.ios >= minted.ios
  BY <1>1 DEF Nonces
<1>6. PhoneEpoch'
  BY <1>1, <1>2, NoneIsNothing DEF PhoneEpoch
<1>7. IosNumbers'
  <2>1. mark["ios"] \in [Keys -> Nat] /\ \A k \in Keys : k[2] \in Nat
    BY DEF TypeOK, Keys, Nonces
  <2>2. phone'.key # None => mark'["ios"][phone'.key] < phone'.seq
    <3>1. phone.seq \in Nat /\ (phone.key # None => mark["ios"][phone.key] \in Nat)
      BY <2>1 DEF TypeOK, PhoneType, KeyOrNone
    <3>2. QED
      BY <1>1, <1>2, <3>1 DEF IosNumbers
  <2>3. ASSUME NEW k \in Keys, k[2] > minted'.ios
        PROVE  mark'["ios"][k] = 0
    BY <1>1, <1>2, <1>5, <2>1, <2>3 DEF IosNumbers
  <2>4. ASSUME phone'.key = None, NEW k \in Keys, k[2] = phone'.nonceIOS
        PROVE  mark'["ios"][k] = 0
    <3>1. CASE phone.nonceIOS = None /\ minted'.ios = minted.ios + 1
      BY <1>1, <1>2, <2>1, <2>4, <3>1 DEF IosNumbers
    <3>2. CASE phone.nonceIOS # None /\ minted' = minted
      <4>1. phone.nonceIOS = minted.ios
        BY <3>2 DEF PhoneEpoch
      <4>2. QED
        BY <1>1, <1>2, <2>4, <3>2, <4>1 DEF IosNumbers
    <3>3. QED
      BY <1>1, <3>1, <3>2
  <2>5. QED
    BY <2>2, <2>3, <2>4 DEF IosNumbers
<1>8. OneCurrentDecrypt'
  BY <1>1, <1>2 DEF OneCurrentDecrypt
<1>9. PhoneAhead' /\ SealedInOrder'
  BY <1>1, <1>2, <1>4, PhoneAheadStays
<1>10. MacAhead' /\ HellosInOrder' /\ ConfirmationFirst'
  <2>1. UNCHANGED agent /\ mark'["mac"] = mark["mac"]
    BY <1>2 DEF agentVars
  <2>2. PICK h, e : h = 1 /\ e = 0
    OBVIOUS
  <2>3. Grown(h, e)
    BY <1>3, <2>2
  <2>4. QED
    BY <1>1, <1>5, <2>1, <2>2, <2>3, MacAheadGrows, ConfirmationGrows
<1>11. QED
  BY <1>1, <1>2, <1>4, <1>5, <1>6, <1>7, <1>8, <1>9, <1>10, AgentSideKept DEF NonceUsedOnce

(* Input: only in a confirmed session, under its key.                      *)
LEMMA PhoneSendsDataStep ==
  ASSUME SealedInv, PhoneSendsData
  PROVE  SealedInv'
<1> USE DEF SealedInv
<1>1. /\ phone.connected /\ phone.key # None /\ phone' = Counted(phone)
      /\ toMac' = Append(toMac, Sealed("data", phone.key, phone.seq))
      /\ UNCHANGED <<agentVars, opening, toIos, minted, faults>>
  BY DEF PhoneSendsData
<1>2. /\ phone' \in PhoneType /\ phone'.seq = phone.seq + 1 /\ phone'.open = phone.open
      /\ phone'.key = phone.key /\ phone'.nonceIOS = phone.nonceIOS
      /\ phone'.guard = phone.guard /\ phone'.connected = phone.connected
  BY <1>1, CountedType DEF TypeOK
<1>3. phone.key \in Keys /\ phone.seq \in Nat /\ mark["ios"][phone.key] < phone.seq
  BY <1>1 DEF TypeOK, PhoneType, KeyOrNone, IosNumbers
<1>4. PICK f \in SealedFrame : /\ f = Sealed("data", phone.key, phone.seq) /\ f.key = phone.key
                               /\ f.seq = phone.seq /\ f.type = "data"
  BY <1>3, SealedIsFrame
<1>5. mark["ios"][phone.key] \in Nat /\ mark["ios"] \in [Keys -> Nat]
  BY <1>3 DEF TypeOK
<1>6. /\ mark' \in [{"mac", "ios"} -> [Keys -> Nat]]
      /\ mark'["mac"] = mark["mac"]
      /\ mark'["ios"] = [mark["ios"] EXCEPT ![phone.key] = phone.seq]
      /\ reused' = FALSE
  <2>1. phone.seq > mark["ios"][phone.key]
    BY <1>3, <1>5
  <2>2. UseNumber("ios", phone.key, phone.seq)
    BY DEF PhoneSendsData
  <2>3. QED
    BY <1>3, <2>1, <2>2, IosNumberUsed
<1>7. Grown(0, 1) /\ toMac'[Len(toMac')] = f
  BY <1>1, <1>3, <1>4, <1>5, <1>6, GrownBySealed
<1>8. TypeOK'
  BY <1>1, <1>2, <1>6, <1>7 DEF TypeOK, agentVars, Grown
<1>9. minted'.ios \in Nat /\ minted'.ios >= minted.ios
  BY <1>1 DEF TypeOK
<1>10. PhoneEpoch'
  BY <1>1, <1>2 DEF PhoneEpoch
<1>11. IosNumbers'
  <2>1. ASSUME NEW k \in Keys, k[2] > minted'.ios
        PROVE  mark'["ios"][k] = 0
    <3>1. phone.key[2] = minted.ios /\ minted.ios \in Nat /\ k[2] \in Nat
      BY <1>1, <2>1 DEF PhoneEpoch, TypeOK, Keys, Nonces
    <3>2. k # phone.key
      BY <1>1, <2>1, <3>1
    <3>3. QED
      BY <1>1, <1>5, <1>6, <2>1, <3>2 DEF IosNumbers
  <2>2. mark'["ios"][phone'.key] < phone'.seq
    BY <1>2, <1>3, <1>5, <1>6
  <2>3. QED
    BY <1>1, <1>2, <2>1, <2>2 DEF IosNumbers
<1>12. OneCurrentDecrypt'
  BY <1>1, <1>2 DEF OneCurrentDecrypt
<1>13. PhoneAhead' /\ SealedInOrder'
  BY <1>1, <1>2, <1>6, <1>8, PhoneAheadStays
<1>14. MacAhead' /\ HellosInOrder' /\ ConfirmationFirst'
  <2>1. UNCHANGED agent /\ mark'["mac"] = mark["mac"]
    BY <1>1, <1>6 DEF agentVars
  <2>2. PICK h, e : h = 0 /\ e = 1
    OBVIOUS
  <2>3. Grown(h, e)
    BY <1>7, <2>2
  <2>4. QED
    BY <1>1, <1>2, <1>4, <1>7, <1>9, <2>1, <2>3, MacAheadGrows, ConfirmationGrows
<1>15. QED
  BY <1>1, <1>6, <1>8, <1>9, <1>10, <1>11, <1>12, <1>13, <1>14, AgentSideKept DEF NonceUsedOnce

(* processIncomingMessage: the first frame in flight becomes the one being *)
(* opened, ahead of all others.                                            *)
LEMMA PhoneOpensStep ==
  ASSUME SealedInv, PhoneOpens
  PROVE  SealedInv'
<1> USE DEF SealedInv
<1> DEFINE o == [frame |-> Head(toIos), key |-> phone.key, live |-> TRUE]
<1>1. /\ phone.open /\ toIos # <<>> /\ (\A q \in opening : ~q.live)
      /\ opening' = opening \cup {o} /\ toIos' = Tail(toIos)
      /\ UNCHANGED <<phone, toMac, agentVars, minted, mark, reused, faults>>
  BY DEF PhoneOpens, PhoneRests
<1>2. /\ Tail(toIos) \in Seq(Frames) /\ Len(toIos) \in Nat /\ Len(toIos) >= 1
      /\ Len(toIos') = Len(toIos) - 1 /\ Head(toIos) = toIos[1] /\ Head(toIos) \in Frames
      /\ \A i \in 1..Len(toIos') : toIos'[i] = toIos[i + 1]
  BY <1>1, TailOfChannel DEF TypeOK
<1>3. /\ o \in [frame : Frames, key : KeyOrNone, live : BOOLEAN]
      /\ o.frame = toIos[1] /\ o.key = phone.key /\ o.live
  BY <1>2 DEF TypeOK, PhoneType
<1> HIDE DEF o
<1>4. TypeOK'
  BY <1>1, <1>2, <1>3 DEF TypeOK, agentVars
<1>5. \A i \in 1..Len(toIos') : i \in Nat /\ i + 1 \in 1..Len(toIos) /\ 1 < i + 1
  BY <1>2
<1>6. 1 \in 1..Len(toIos)
  BY <1>2
<1>7. \A q \in opening' : q.live => q = o
  BY <1>1
<1>8. OneCurrentDecrypt'
  BY <1>1, <1>3, <1>7 DEF OneCurrentDecrypt
<1>9. SealedInOrder'
  <2>1. ASSUME NEW i \in 1..Len(toIos'), NEW j \in 1..Len(toIos'), i < j
        PROVE  Before(toIos[i + 1], toIos[j + 1])
    <3>1. i + 1 \in 1..Len(toIos) /\ j + 1 \in 1..Len(toIos) /\ i + 1 < j + 1
      BY <1>5, <2>1
    <3>2. QED
      BY <3>1 DEF SealedInOrder, Before
  <2>2. QED
    BY <1>2, <2>1 DEF SealedInOrder, Before
<1>10. ASSUME NEW i \in 1..Len(toIos')
       PROVE  /\ IsSealed(toIos'[i]) => FreshForPhone(toIos'[i])
              /\ \A g \in Goroutines : pc'[g] = "write" => Before(toIos'[i], slot'[g])
              /\ Before(o.frame, toIos'[i])
  <2>1. i + 1 \in 1..Len(toIos) /\ 1 < i + 1 /\ toIos'[i] = toIos[i + 1]
    BY <1>2, <1>5
  <2>2. IsSealed(toIos[i + 1]) => FreshForPhone(toIos[i + 1])
    BY <2>1 DEF PhoneAhead
  <2>3. Before(toIos[1], toIos[i + 1])
    BY <1>6, <2>1 DEF SealedInOrder, Before
  <2>4. \A g \in Goroutines : pc[g] = "write" => Before(toIos[i + 1], slot[g])
    BY <2>1 DEF PhoneAhead
  <2>5. QED
    BY <1>1, <1>3, <2>1, <2>2, <2>3, <2>4 DEF agentVars
<1>11. ASSUME NEW g \in Goroutines, pc'[g] = "write"
       PROVE  FreshForPhone(slot'[g]) /\ Before(o.frame, slot'[g])
  BY <1>1, <1>3, <1>6, <1>11 DEF PhoneAhead, agentVars
<1>12. IsSealed(o.frame) => FreshForPhone(o.frame)
  BY <1>1, <1>3, <1>6 DEF PhoneAhead
<1>13. phone'.key # None => phone'.guard.maxSeq <= mark'["mac"][phone'.key]
  BY <1>1 DEF PhoneAhead
<1>14. PhoneAhead'
  BY <1>1, <1>7, <1>10, <1>11, <1>12, <1>13 DEF PhoneAhead, FreshForPhone, Before, IsSealed
<1>15. PhoneEpoch' /\ IosNumbers'
  BY <1>1, PhoneEpochKept, IosNumbersKept
<1>16. MacAhead' /\ HellosInOrder' /\ ConfirmationFirst'
  BY <1>1, MacAheadKept, HellosKept, ConfirmationKept DEF agentVars
<1>17. minted'.ios \in Nat /\ minted'.ios >= minted.ios
  BY <1>1 DEF TypeOK
<1>18. QED
  BY <1>1, <1>4, <1>8, <1>9, <1>14, <1>15, <1>16, <1>17, AgentSideKept DEF NonceUsedOnce

(* A result of an earlier generation changes nothing else.                 *)
LEMMA PhoneDiscardsStep ==
  ASSUME SealedInv, NEW o \in opening, PhoneDiscards(o)
  PROVE  SealedInv'
<1> USE DEF SealedInv
<1>1. /\ opening' = opening \ {o}
      /\ UNCHANGED <<phone, toMac, toIos, agentVars, minted, mark, reused, faults>>
  BY DEF PhoneDiscards, PhoneRests, Applies
<1>2. TypeOK'
  BY <1>1 DEF TypeOK, agentVars
<1>3. OneCurrentDecrypt'
  BY <1>1 DEF OneCurrentDecrypt
<1>4. PhoneAhead' /\ SealedInOrder'
  BY <1>1, <1>2, PhoneAheadStays
<1>5. PhoneEpoch' /\ IosNumbers'
  BY <1>1, PhoneEpochKept, IosNumbersKept
<1>6. MacAhead' /\ HellosInOrder' /\ ConfirmationFirst'
  BY <1>1, MacAheadKept, HellosKept, ConfirmationKept DEF agentVars
<1>7. minted'.ios \in Nat /\ minted'.ios >= minted.ios
  BY <1>1 DEF TypeOK
<1>8. QED
  BY <1>1, <1>2, <1>3, <1>4, <1>5, <1>6, <1>7, AgentSideKept DEF NonceUsedOnce

(* A result is applied: it was the only current one.                       *)
LEMMA AppliedFacts ==
  ASSUME SealedInv, NEW o \in opening, Applies(o), IsCurrent(o)
  PROVE  /\ o.frame \in Frames /\ o.key = phone.key /\ phone.open /\ UNCHANGED toIos
         /\ opening' \subseteq [frame : Frames, key : KeyOrNone, live : BOOLEAN]
         /\ \A q \in opening' : ~q.live
         /\ OneCurrentDecrypt'
<1> USE DEF SealedInv, IsCurrent
<1>1. /\ o.frame \in Frames /\ o.key = phone.key /\ phone.open
      /\ opening' = opening \ {o} /\ toIos' = toIos
      /\ opening' \subseteq [frame : Frames, key : KeyOrNone, live : BOOLEAN]
  BY DEF Applies, OneCurrentDecrypt, TypeOK
<1>2. \A q \in opening' : ~q.live
  BY <1>1 DEF OneCurrentDecrypt
<1>3. QED
  BY <1>1, <1>2 DEF OneCurrentDecrypt

(* A re-key that derives nothing yet: a fresh nonce under which nothing was*)
(* sealed, and no key.                                                     *)
LEMMA PhoneRekeys ==
  ASSUME SealedInv, UNCHANGED <<agentVars, mark, reused, faults, toIos>>,
         opening' \subseteq [frame : Frames, key : KeyOrNone, live : BOOLEAN],
         \A q \in opening' : ~q.live, OneCurrentDecrypt',
         minted.ios < MaxNonce, minted' = [minted EXCEPT !.ios = @ + 1],
         phone' \in PhoneType, ~phone'.connected, phone'.key = None,
         phone'.guard.maxSeq = 0, phone'.nonceIOS = minted.ios + 1,
         NEW h, Grown(h, 0)
  PROVE  SealedInv'
<1> USE DEF SealedInv
<1>1. /\ minted' \in [mac : 0..MaxNonce, ios : 0..MaxNonce] /\ minted'.mac = minted.mac
      /\ minted'.ios = minted.ios + 1 /\ minted.ios \in Nat
  BY MintIos
<1>2. minted'.ios \in Nat /\ minted'.ios >= minted.ios
  BY <1>1
<1>3. TypeOK'
  BY <1>1 DEF TypeOK, agentVars, Grown
<1>4. PhoneEpoch'
  BY <1>1 DEF PhoneEpoch
<1>5. IosNumbers'
  <2>1. \A k \in Keys : k[2] \in Nat
    BY DEF Keys, Nonces
  <2>2. \A k \in Keys : k[2] >= minted'.ios => mark'["ios"][k] = 0
    BY <1>1, <2>1 DEF IosNumbers
  <2>3. \A k \in Keys : k[2] > minted'.ios => mark'["ios"][k] = 0
    BY <1>2, <2>1, <2>2
  <2>4. \A k \in Keys : k[2] = phone'.nonceIOS => mark'["ios"][k] = 0
    BY <1>1, <1>2, <2>1, <2>2
  <2>5. QED
    BY <2>3, <2>4 DEF IosNumbers
<1>6. PhoneAhead' /\ SealedInOrder'
  BY <1>3, PhoneAheadStays
<1>7. MacAhead' /\ HellosInOrder' /\ ConfirmationFirst'
  <2>1. UNCHANGED agent /\ mark'["mac"] = mark["mac"]
    BY DEF agentVars
  <2>2. PICK e : e = 0
    OBVIOUS
  <2>3. Grown(h, e)
    BY <2>2
  <2>4. QED
    BY <1>2, <2>1, <2>2, <2>3, MacAheadGrows, ConfirmationGrows
<1>8. QED
  BY <1>1, <1>2, <1>3, <1>4, <1>5, <1>6, <1>7, AgentSideKept DEF NonceUsedOnce

(* Only the guard's failure count or nonces of the handshake change.       *)
LEMMA GuardMoves ==
  ASSUME SealedInv, UNCHANGED <<agentVars, mark, reused, faults, toIos, toMac, minted>>,
         opening' \subseteq [frame : Frames, key : KeyOrNone, live : BOOLEAN],
         \A q \in opening' : ~q.live, OneCurrentDecrypt',
         phone' \in PhoneType, phone'.open = phone.open, phone'.key = phone.key,
         phone'.nonceIOS = phone.nonceIOS, phone'.seq = phone.seq,
         phone'.connected = phone.connected, phone'.guard.maxSeq = phone.guard.maxSeq
  PROVE  SealedInv'
<1> USE DEF SealedInv
<1>1. TypeOK'
  BY DEF TypeOK, agentVars
<1>2. PhoneEpoch' /\ IosNumbers'
  BY DEF PhoneEpoch, IosNumbers
<1>3. PhoneAhead' /\ SealedInOrder'
  BY <1>1, PhoneAheadStays
<1>4. minted'.ios \in Nat /\ minted'.ios >= minted.ios
  BY DEF TypeOK
<1>5. MacAhead' /\ HellosInOrder' /\ ConfirmationFirst'
  <2>1. UNCHANGED agent /\ mark'["mac"] = mark["mac"]
    BY DEF agentVars
  <2>2. PICK h, e : h = 0 /\ e = 0
    OBVIOUS
  <2>3. Grown(h, e)
    BY <2>2, NothingSent
  <2>4. QED
    BY <1>4, <2>1, <2>2, <2>3, MacAheadGrows, ConfirmationGrows
<1>6. QED
  BY <1>1, <1>2, <1>3, <1>4, <1>5, AgentSideKept DEF NonceUsedOnce

(* A frame that did not open counts as a failure, or ends the epoch.       *)
LEMMA PhoneFailsToOpenStep ==
  ASSUME SealedInv, NEW o \in opening, PhoneFailsToOpen(o)
  PROVE  SealedInv'
<1> USE DEF SealedInv
<1> DEFINE r == NoteDecryptFailure(phone.guard, phone.guard.resets)
           s == [phone EXCEPT !.guard = r.guard]
<1>1. /\ Applies(o) /\ IsCurrent(o) /\ Minting(r.verdict # "drop")
      /\ phone' = CASE r.verdict = "drop"         -> s
                    [] r.verdict = "resetSession" -> Rekeyed(s)
                    [] OTHER                      -> Closed(Rekeyed(s))
      /\ toMac' = IF r.verdict = "resetSession" THEN toMac \o Greeting ELSE toMac
      /\ UNCHANGED <<agentVars, mark, reused, faults>>
  BY DEF PhoneFailsToOpen
<1>2. /\ r.guard \in GuardType /\ r.verdict \in {"drop", "resetSession", "escalate"}
      /\ r.verdict = "drop" => r.guard.maxSeq = phone.guard.maxSeq
  <2>1. phone.guard \in GuardType
    BY DEF TypeOK, PhoneType
  <2>2. QED
    BY <2>1, NoteDecryptFailureType
<1> HIDE DEF r
<1>3. /\ UNCHANGED toIos /\ \A q \in opening' : ~q.live
      /\ opening' \subseteq [frame : Frames, key : KeyOrNone, live : BOOLEAN]
      /\ OneCurrentDecrypt'
  BY <1>1, AppliedFacts
<1>4. phone \in PhoneType /\ s \in PhoneType /\ s.guard = r.guard /\ s.open = phone.open
      /\ s.key = phone.key /\ s.nonceIOS = phone.nonceIOS /\ s.seq = phone.seq
      /\ s.connected = phone.connected
  BY <1>2 DEF TypeOK, PhoneType
<1> HIDE DEF s
<1>5. CASE r.verdict = "drop"
  <2>1. phone' = s /\ toMac' = toMac /\ minted' = minted
    BY <1>1, <1>5 DEF Minting
  <2>2. QED
    BY <1>1, <1>2, <1>3, <1>4, <1>5, <2>1, GuardMoves
<1>6. CASE r.verdict # "drop"
  <2>1. minted.ios < MaxNonce /\ minted' = [minted EXCEPT !.ios = @ + 1]
    BY <1>1, <1>6 DEF Minting
  <2>2. /\ minted.ios + 1 \in Nonces /\ minted'.ios = minted.ios + 1
        /\ minted'.mac = minted.mac
    BY <2>1, MintIos
  <2>3. /\ Rekeyed(s) \in PhoneType /\ ~Rekeyed(s).connected
        /\ Rekeyed(s).key = None /\ Rekeyed(s).guard = NewGuard
        /\ Rekeyed(s).nonceIOS = minted.ios + 1
    BY <1>4, <2>2, RekeyedType
  <2>4. CASE r.verdict = "resetSession"
    <3>1. phone' = Rekeyed(s) /\ toMac' = toMac \o <<Hello(minted'.ios)>>
      BY <1>1, <2>2, <2>4 DEF Greeting
    <3>2. toMac' = Append(toMac, Hello(minted'.ios))
      <4>1. Hello(minted'.ios) \in Frames /\ toMac \in Seq(Frames)
        BY <2>2, HelloIsFrame DEF TypeOK
      <4>2. QED
        BY <3>1, <4>1
    <3>3. Grown(1, 0)
      BY <1>1, <2>2, <3>2, GrownByHello
    <3>4. QED
      BY <1>1, <1>3, <2>1, <2>3, <3>1, <3>3, NewGuardType, PhoneRekeys
  <2>5. CASE r.verdict = "escalate"
    <3>1. phone' = Closed(Rekeyed(s)) /\ toMac' = toMac
      BY <1>1, <2>5
    <3>2. /\ phone' \in PhoneType /\ ~phone'.connected /\ phone'.key = None
          /\ phone'.guard = NewGuard /\ phone'.nonceIOS = minted.ios + 1
      BY <2>3, <3>1, ClosedType
    <3>3. Grown(0, 0)
      BY <1>1, <3>1, NothingSent
    <3>4. QED
      BY <1>1, <1>3, <2>1, <3>2, <3>3, NewGuardType, PhoneRekeys
  <2>6. QED
    BY <1>2, <1>6, <2>4, <2>5
<1>7. QED
  BY <1>5, <1>6

(* A key is derived and announced: it was never sealed with.               *)
LEMMA PhoneDerives ==
  ASSUME SealedInv, UNCHANGED <<agentVars, faults, toIos>>,
         opening' \subseteq [frame : Frames, key : KeyOrNone, live : BOOLEAN],
         \A q \in opening' : ~q.live, OneCurrentDecrypt',
         minted' \in [mac : 0..MaxNonce, ios : 0..MaxNonce], minted'.mac = minted.mac,
         minted'.ios \in Nonces, minted'.ios >= minted.ios, minted.ios \in Nat,
         NEW u \in PhoneType, u.open, ~u.connected, u.guard.maxSeq = 0,
         u.nonceIOS = minted'.ios, u.key \in Keys, u.key[2] = minted'.ios,
         mark["ios"][u.key] = 0, phone' = Counted(u),
         UseNumber("ios", u.key, u.seq),
         \/ toMac' = Append(toMac, Sealed("ready", u.key, u.seq))
         \/ toMac' = toMac \o <<Hello(minted'.ios)>> \o <<Sealed("ready", u.key, u.seq)>>
  PROVE  SealedInv'
<1> USE DEF SealedInv
<1>1. /\ phone' \in PhoneType /\ phone'.seq = u.seq + 1 /\ phone'.open /\ phone'.key = u.key
      /\ phone'.nonceIOS = minted'.ios /\ phone'.guard.maxSeq = 0 /\ ~phone'.connected
  BY CountedType
<1>2. u.seq \in Nat /\ u.seq > mark["ios"][u.key] /\ u.seq > 0 /\ u.key # None
  BY NoneIsNothing DEF PhoneType
<1>3. /\ mark' \in [{"mac", "ios"} -> [Keys -> Nat]]
      /\ mark'["mac"] = mark["mac"]
      /\ mark'["ios"] = [mark["ios"] EXCEPT ![u.key] = u.seq]
      /\ reused' = FALSE
  BY <1>2, IosNumberUsed
<1>4. PICK f \in SealedFrame : /\ f = Sealed("ready", u.key, u.seq) /\ f.key = u.key
                               /\ f.seq = u.seq /\ f.type = "ready"
  BY <1>2, SealedIsFrame
<1>5. \E h : Grown(h, 1)
  <2>1. CASE toMac' = Append(toMac, f)
    <3>1. Grown(0, 1)
      BY <1>2, <1>3, <1>4, <2>1, GrownBySealed
    <3>2. QED
      BY <3>1
  <2>2. CASE toMac' = toMac \o <<Hello(minted'.ios)>> \o <<f>>
    <3>1. Grown(1, 1)
      BY <1>2, <1>3, <1>4, <2>2, GrownByBoth
    <3>2. QED
      BY <3>1
  <2>3. QED
    BY <1>4, <2>1, <2>2
<1>6. PICK h : Grown(h, 1)
  BY <1>5
<1>7. toMac'[Len(toMac')] = f
  <2>1. CASE toMac' = Append(toMac, f)
    BY <1>2, <1>3, <1>4, <2>1, GrownBySealed
  <2>2. CASE toMac' = toMac \o <<Hello(minted'.ios)>> \o <<f>>
    BY <1>2, <1>3, <1>4, <2>2, GrownByBoth
  <2>3. QED
    BY <1>4, <2>1, <2>2
<1>8. TypeOK'
  BY <1>1, <1>3, <1>6 DEF TypeOK, agentVars, Grown
<1>9. minted'.ios \in Nat
  BY DEF Nonces
<1>10. PhoneEpoch'
  BY <1>1, <1>2, NoneIsNothing DEF PhoneEpoch
<1>11. IosNumbers'
  <2>1. mark["ios"] \in [Keys -> Nat] /\ \A k \in Keys : k[2] \in Nat
    BY DEF TypeOK, Keys, Nonces
  <2>2. ASSUME NEW k \in Keys, k[2] > minted'.ios
        PROVE  mark'["ios"][k] = 0
    <3>1. k # u.key /\ k[2] > minted.ios
      BY <1>9, <2>1, <2>2
    <3>2. QED
      BY <1>3, <2>1, <2>2, <3>1 DEF IosNumbers
  <2>3. mark'["ios"][phone'.key] < phone'.seq
    BY <1>1, <1>2, <1>3, <2>1
  <2>4. QED
    BY <1>1, <1>2, <2>2, <2>3 DEF IosNumbers
<1>12. PhoneAhead' /\ SealedInOrder'
  BY <1>1, <1>3, <1>8, PhoneAheadStays
<1>13. MacAhead' /\ HellosInOrder' /\ ConfirmationFirst'
  <2>1. UNCHANGED agent /\ mark'["mac"] = mark["mac"]
    BY <1>3 DEF agentVars
  <2>2. PICK e : e = 1
    OBVIOUS
  <2>3. Grown(h, e)
    BY <1>6, <2>2
  <2>4. QED
    BY <1>1, <1>4, <1>7, <1>9, <2>1, <2>3, MacAheadGrows, ConfirmationGrows
<1>14. QED
  BY <1>3, <1>8, <1>9, <1>10, <1>11, <1>12, <1>13, AgentSideKept DEF NonceUsedOnce

(* Derive makes the key of the two nonces.                                 *)
LEMMA DeriveType ==
  ASSUME NEW t \in PhoneType, t.nonceIOS # None, t.nonceMac # None
  PROVE  /\ Derive(t) \in PhoneType /\ Derive(t).key = <<t.nonceMac, t.nonceIOS>>
         /\ Derive(t).key \in Keys /\ Derive(t).key[2] = t.nonceIOS
         /\ Derive(t).open = t.open /\ Derive(t).nonceIOS = t.nonceIOS
         /\ Derive(t).guard = t.guard /\ Derive(t).connected = t.connected
         /\ Derive(t).seq = t.seq
<1> DEFINE k == <<t.nonceMac, t.nonceIOS>>
<1>1. k \in Keys /\ k[2] = t.nonceIOS
  BY DEF PhoneType, NonceOrNone, Keys
<1>2. Derive(t) = [t EXCEPT !.key = k]
  BY DEF Derive
<1> HIDE DEF k
<1>3. k \in KeyOrNone
  BY <1>1 DEF KeyOrNone
<1>4. /\ Derive(t) \in PhoneType /\ Derive(t).key = k
      /\ Derive(t).open = t.open /\ Derive(t).nonceIOS = t.nonceIOS
      /\ Derive(t).guard = t.guard /\ Derive(t).connected = t.connected
      /\ Derive(t).seq = t.seq
  BY <1>2, <1>3 DEF PhoneType
<1>5. QED
  BY <1>1, <1>4 DEF k

(* A HELLO of the agent: nothing new, a key, or a new epoch.               *)
LEMMA PhoneAppliesHelloStep ==
  ASSUME SealedInv, NEW o \in opening, PhoneAppliesHello(o)
  PROVE  SealedInv'
<1> USE DEF SealedInv
<1> DEFINE r == EvaluateHello(phone.guard, o.frame.nonce, phone.key # None, phone.guard.resets)
           s == [phone EXCEPT !.guard = r.guard]
           accepts == r.verdict = "accept"
           t == [(IF accepts THEN s ELSE Rekeyed(s)) EXCEPT !.nonceMac = o.frame.nonce]
           u == Derive(t)
           greeting == IF accepts THEN <<>> ELSE Greeting
<1>1. /\ Applies(o) /\ IsCurrent(o) /\ ~IsSealed(o.frame) /\ Minting(~accepts)
      /\ UNCHANGED <<agentVars, faults>>
  BY DEF PhoneAppliesHello
<1>2. /\ r.verdict = "escalate" => /\ phone' = Closed(Rekeyed(s))
                                   /\ UNCHANGED <<toMac, mark, reused>>
      /\ r.verdict # "escalate" /\ CanDerive(t) =>
           /\ phone' = Counted(u)
           /\ toMac' = toMac \o greeting \o <<Sealed("ready", u.key, u.seq)>>
           /\ UseNumber("ios", u.key, u.seq)
      /\ r.verdict # "escalate" /\ ~CanDerive(t) =>
           phone' = t /\ toMac' = toMac \o greeting /\ UNCHANGED <<mark, reused>>
  BY DEF PhoneAppliesHello
<1>3. /\ o.frame \in Frames /\ phone.open /\ UNCHANGED toIos
      /\ opening' \subseteq [frame : Frames, key : KeyOrNone, live : BOOLEAN]
      /\ (\A q \in opening' : ~q.live) /\ OneCurrentDecrypt'
  BY <1>1, AppliedFacts
<1>4. o.frame.nonce \in Nonces
  BY <1>1, <1>3, FrameKinds DEF HelloFrames
<1>5. /\ r.guard \in GuardType /\ r.verdict \in {"accept", "resetSession", "escalate"}
      /\ r.verdict = "accept" => r.guard.maxSeq = phone.guard.maxSeq
  <2>1. phone.guard \in GuardType /\ (phone.key # None) \in BOOLEAN
    BY DEF TypeOK, PhoneType
  <2>2. QED
    BY <1>4, <2>1, EvaluateHelloType
<1> HIDE DEF r
<1>6. phone \in PhoneType /\ s \in PhoneType /\ s.guard = r.guard /\ s.open = phone.open
      /\ s.key = phone.key /\ s.nonceIOS = phone.nonceIOS /\ s.seq = phone.seq
      /\ s.connected = phone.connected
  BY <1>5 DEF TypeOK, PhoneType
<1> HIDE DEF s
<1>7. toMac \in Seq(Frames) /\ minted \in [mac : 0..MaxNonce, ios : 0..MaxNonce]
      /\ minted.ios \in Nat
  BY DEF TypeOK
<1>8. CASE r.verdict = "accept"
  <2>1. minted' = minted /\ t = [s EXCEPT !.nonceMac = o.frame.nonce] /\ greeting = <<>>
    BY <1>1, <1>8 DEF Minting
  <2> HIDE DEF t, greeting
  <2>2. /\ t \in PhoneType /\ t.guard = r.guard /\ t.open = phone.open
        /\ t.key = phone.key /\ t.nonceIOS = phone.nonceIOS /\ t.seq = phone.seq
        /\ t.connected = phone.connected /\ t.nonceMac = o.frame.nonce
    BY <1>4, <1>6, <2>1 DEF PhoneType, NonceOrNone
  <2>3. CASE ~CanDerive(t)
    <3>1. phone' = t /\ toMac' = toMac /\ UNCHANGED <<mark, reused>>
      BY <1>2, <1>7, <1>8, <2>1, <2>3
    <3>2. QED
      BY <1>1, <1>3, <1>5, <1>8, <2>1, <2>2, <3>1, GuardMoves
  <2>4. CASE CanDerive(t)
    <3>1. t.key = None /\ t.nonceIOS # None /\ t.nonceMac # None
      BY <2>4 DEF CanDerive
    <3>2. /\ u \in PhoneType /\ u.key \in Keys /\ u.key[2] = t.nonceIOS
          /\ u.open = t.open /\ u.nonceIOS = t.nonceIOS
          /\ u.guard = t.guard /\ u.connected = t.connected
      BY <2>2, <3>1, DeriveType
    <3>3. /\ phone' = Counted(u) /\ UseNumber("ios", u.key, u.seq)
          /\ toMac' = toMac \o <<>> \o <<Sealed("ready", u.key, u.seq)>>
      BY <1>2, <1>8, <2>1, <2>4
    <3> HIDE DEF u
    <3>4. phone.nonceIOS = minted.ios /\ minted'.ios \in Nonces /\ phone.guard.maxSeq = 0
          /\ ~phone.connected
      BY <2>1, <2>2, <3>1 DEF PhoneEpoch, TypeOK, PhoneType, NonceOrNone
    <3>5. mark["ios"][u.key] = 0
      BY <1>3, <2>2, <3>1, <3>2 DEF IosNumbers
    <3>6. toMac' = Append(toMac, Sealed("ready", u.key, u.seq))
      <4>1. u.seq \in Nat
        BY <3>2 DEF PhoneType
      <4>2. Sealed("ready", u.key, u.seq) \in Frames
        BY <3>2, <4>1, SealedIsFrame
      <4>3. QED
        BY <1>7, <3>3, <4>2
    <3>7. /\ minted' \in [mac : 0..MaxNonce, ios : 0..MaxNonce] /\ minted'.mac = minted.mac
          /\ minted'.ios >= minted.ios
      BY <1>7, <2>1
    <3>8. u.open /\ ~u.connected /\ u.guard.maxSeq = 0 /\ u.nonceIOS = minted'.ios
          /\ u.key[2] = minted'.ios
      BY <1>3, <1>5, <1>8, <2>1, <2>2, <3>2, <3>4
    <3>9. QED
      BY <1>1, <1>3, <1>7, <3>2, <3>3, <3>4, <3>5, <3>6, <3>7, <3>8, PhoneDerives
  <2>5. QED
    BY <2>3, <2>4
<1>9. CASE r.verdict # "accept"
  <2>1. minted.ios < MaxNonce /\ minted' = [minted EXCEPT !.ios = @ + 1]
    BY <1>1, <1>9 DEF Minting
  <2>2. /\ minted.ios + 1 \in Nonces /\ minted'.ios = minted.ios + 1
        /\ minted'.mac = minted.mac /\ minted' \in [mac : 0..MaxNonce, ios : 0..MaxNonce]
    BY <2>1, MintIos
  <2>3. /\ Rekeyed(s) \in PhoneType /\ ~Rekeyed(s).connected /\ Rekeyed(s).open = s.open
        /\ Rekeyed(s).key = None /\ Rekeyed(s).guard = NewGuard
        /\ Rekeyed(s).nonceIOS = minted.ios + 1
    BY <1>6, <2>2, RekeyedType
  <2>4. CASE r.verdict = "escalate"
    <3>1. phone' = Closed(Rekeyed(s)) /\ UNCHANGED <<toMac, mark, reused>>
      BY <1>2, <2>4
    <3>2. /\ phone' \in PhoneType /\ ~phone'.connected /\ phone'.key = None
          /\ phone'.guard = NewGuard /\ phone'.nonceIOS = minted.ios + 1
      BY <2>3, <3>1, ClosedType
    <3>3. Grown(0, 0)
      BY <3>1, NothingSent
    <3>4. QED
      BY <1>1, <1>3, <2>1, <3>1, <3>2, <3>3, NewGuardType, PhoneRekeys
  <2>5. CASE r.verdict = "resetSession"
    <3>1. /\ t = [Rekeyed(s) EXCEPT !.nonceMac = o.frame.nonce]
          /\ greeting = <<Hello(minted'.ios)>>
      BY <1>9, <2>2 DEF Greeting
    <3> HIDE DEF t, greeting
    <3>2. /\ t \in PhoneType /\ t.guard = NewGuard /\ t.open = s.open /\ ~t.connected
          /\ t.key = None /\ t.nonceIOS = minted.ios + 1 /\ t.nonceMac = o.frame.nonce
      BY <1>4, <2>3, <3>1 DEF PhoneType, NonceOrNone
    <3>3. t.nonceIOS # None /\ t.nonceMac # None /\ CanDerive(t)
      BY <1>4, <2>2, <3>2, NoneIsNothing DEF CanDerive
    <3>4. /\ u \in PhoneType /\ u.key \in Keys /\ u.key[2] = t.nonceIOS
          /\ u.open = t.open /\ u.nonceIOS = t.nonceIOS
          /\ u.guard = t.guard /\ u.connected = t.connected
      BY <3>2, <3>3, DeriveType
    <3>5. /\ phone' = Counted(u) /\ UseNumber("ios", u.key, u.seq)
          /\ toMac' = toMac \o <<Hello(minted'.ios)>> \o <<Sealed("ready", u.key, u.seq)>>
      BY <1>2, <2>5, <3>1, <3>3
    <3> HIDE DEF u
    <3>6. mark["ios"][u.key] = 0
      BY <1>7, <2>2, <3>2, <3>4 DEF IosNumbers
    <3>7. u.open /\ ~u.connected /\ u.guard.maxSeq = 0 /\ u.nonceIOS = minted'.ios
          /\ u.key[2] = minted'.ios
      BY <1>3, <1>6, <2>2, <3>2, <3>4, NewGuardType
    <3>8. minted'.ios >= minted.ios /\ minted'.ios \in Nonces
      BY <1>7, <2>2
    <3>9. QED
      BY <1>1, <1>3, <1>7, <2>2, <3>4, <3>5, <3>6, <3>7, <3>8, PhoneDerives
  <2>6. QED
    BY <1>5, <1>9, <2>4, <2>5
<1>10. QED
  BY <1>8, <1>9

(* The mark rises to the frame that was applied; what follows it under the *)
(* same key is above it.                                                   *)
LEMMA MarkRises ==
  ASSUME SealedInv, UNCHANGED <<toIos, agentVars>>, mark'["mac"] = mark["mac"],
         NEW o \in opening, o.live, IsSealed(o.frame), o.frame.key = phone.key,
         \A q \in opening' : ~q.live, phone.key # None,
         phone'.key = phone.key, phone'.guard.maxSeq = o.frame.seq
  PROVE  PhoneAhead' /\ SealedInOrder'
<1> USE DEF SealedInv
<1>1. /\ FreshForPhone(o.frame) /\ \A i \in 1..Len(toIos) : Before(o.frame, toIos[i])
      /\ \A g \in Goroutines : pc[g] = "write" => Before(o.frame, slot[g])
  BY DEF PhoneAhead
<1>2. ASSUME NEW f \in SealedFrame, FreshForPhone(f), Before(o.frame, f)
      PROVE  /\ 0 < f.seq /\ f.seq <= mark'["mac"][f.key]
             /\ f.key = phone'.key => phone'.guard.maxSeq < f.seq
  BY <1>2 DEF FreshForPhone, Before, SealedFrame, IsSealed
<1>3. ASSUME NEW i \in 1..Len(toIos), IsSealed(toIos[i])
      PROVE  /\ 0 < toIos[i].seq /\ toIos[i].seq <= mark'["mac"][toIos[i].key]
             /\ toIos[i].key = phone'.key => phone'.guard.maxSeq < toIos[i].seq
  <2>1. toIos[i] \in SealedFrame
    BY <1>3, FrameKinds DEF TypeOK
  <2>2. QED
    BY <1>1, <1>2, <1>3, <2>1 DEF PhoneAhead
<1>4. ASSUME NEW g \in Goroutines, pc[g] = "write"
      PROVE  /\ 0 < slot[g].seq /\ slot[g].seq <= mark'["mac"][slot[g].key]
             /\ slot[g].key = phone'.key => phone'.guard.maxSeq < slot[g].seq
  <2>1. slot[g] \in SealedFrame
    BY <1>4 DEF WriterHoldsMutex
  <2>2. QED
    BY <1>1, <1>2, <1>4, <2>1 DEF PhoneAhead
<1>5. phone'.guard.maxSeq <= mark'["mac"][phone'.key]
  BY <1>1 DEF FreshForPhone
<1>6. PhoneAhead'
  <2>1. \A i \in 1..Len(toIos) : \A g \in Goroutines :
          pc[g] = "write" => Before(toIos[i], slot[g])
    BY DEF PhoneAhead
  <2>2. QED
    BY <1>3, <1>4, <1>5, <2>1 DEF PhoneAhead, FreshForPhone, agentVars, IsSealed, Before
<1>7. QED
  BY <1>6, SealedInOrderKept

(* An opened frame is new to the guard, and a SESSION_READY is echoed.     *)
LEMMA PhoneAppliesSealedStep ==
  ASSUME SealedInv, NEW o \in opening, PhoneAppliesSealed(o)
  PROVE  SealedInv'
<1> USE DEF SealedInv
<1> DEFINE r == EvaluateEncryptedFrame(phone.guard, o.frame.seq)
           g == NoteDecryptSuccess(r.guard)
           s == [phone EXCEPT !.guard = g]
<1>1. /\ Applies(o) /\ IsCurrent(o) /\ Opened(o) /\ phone.key # None
      /\ UNCHANGED <<agentVars, minted, faults>>
  BY DEF PhoneAppliesSealed
<1>2. IF r.verdict = "accept" /\ o.frame.type = "ready"
        THEN /\ phone' = Counted([s EXCEPT !.connected = TRUE])
             /\ toMac' = Append(toMac, Sealed("ready", s.key, s.seq))
             /\ UseNumber("ios", s.key, s.seq)
        ELSE /\ phone' = IF r.verdict = "accept" THEN s ELSE phone
             /\ UNCHANGED <<toMac, mark, reused>>
  BY DEF PhoneAppliesSealed
<1>3. /\ o.frame \in Frames /\ o.key = phone.key /\ phone.open /\ UNCHANGED toIos
      /\ opening' \subseteq [frame : Frames, key : KeyOrNone, live : BOOLEAN]
      /\ (\A q \in opening' : ~q.live) /\ OneCurrentDecrypt'
  BY <1>1, AppliedFacts
<1>4. /\ IsSealed(o.frame) /\ o.frame \in SealedFrame /\ o.frame.key = phone.key
      /\ phone.key \in Keys /\ o.live
  BY <1>1, <1>3, FrameKinds DEF Opened, IsCurrent, SealedFrame
<1>5. /\ o.frame.seq \in Nat /\ 0 < o.frame.seq /\ phone.guard.maxSeq < o.frame.seq
      /\ o.frame.seq <= mark["mac"][phone.key] /\ mark["mac"][phone.key] \in Nat
  BY <1>4 DEF PhoneAhead, FreshForPhone, SealedFrame, TypeOK
<1>6. g \in GuardType /\ r.verdict = "accept" /\ g.maxSeq = o.frame.seq
  <2>1. phone.guard \in GuardType /\ phone.guard.maxSeq \in Nat
    BY DEF TypeOK, PhoneType, GuardType
  <2>2. /\ g \in GuardType
        /\ r.verdict = "accept" <=> o.frame.seq > phone.guard.maxSeq
        /\ r.verdict = "accept" => g.maxSeq = o.frame.seq
    BY <1>5, <2>1, AcceptedFrameType
  <2>3. o.frame.seq > phone.guard.maxSeq
    BY <1>5, <2>1
  <2>4. QED
    BY <2>2, <2>3
<1> HIDE DEF r, g
<1>7. phone \in PhoneType /\ s \in PhoneType /\ s.guard = g /\ s.open = phone.open
      /\ s.key = phone.key /\ s.nonceIOS = phone.nonceIOS /\ s.seq = phone.seq
      /\ s.connected = phone.connected
  BY <1>6 DEF TypeOK, PhoneType
<1> HIDE DEF s
<1>8. minted'.ios \in Nat /\ minted'.ios >= minted.ios /\ minted' = minted
  BY <1>1 DEF TypeOK
<1>9. phone.seq \in Nat /\ mark["ios"][phone.key] \in Nat /\ mark["ios"] \in [Keys -> Nat]
      /\ mark["ios"][phone.key] < phone.seq
  BY <1>1, <1>4 DEF TypeOK, PhoneType, IosNumbers
<1>10. CASE o.frame.type # "ready"
  <2>1. phone' = s /\ UNCHANGED <<toMac, mark, reused>>
    BY <1>2, <1>6, <1>10
  <2>2. TypeOK'
    BY <1>1, <1>3, <1>7, <2>1 DEF TypeOK, agentVars
  <2>3. PhoneEpoch' /\ IosNumbers'
    BY <1>1, <1>7, <2>1 DEF PhoneEpoch, IosNumbers
  <2>4. PhoneAhead' /\ SealedInOrder'
    BY <1>1, <1>3, <1>4, <1>6, <1>7, <2>1, MarkRises
  <2>5. MacAhead' /\ HellosInOrder' /\ ConfirmationFirst'
    <3>1. UNCHANGED agent /\ mark'["mac"] = mark["mac"]
      BY <1>1, <2>1 DEF agentVars
    <3>2. PICK h, e : h = 0 /\ e = 0
      OBVIOUS
    <3>3. Grown(h, e)
      BY <2>1, <3>2, NothingSent
    <3>4. QED
      BY <1>7, <1>8, <2>1, <3>1, <3>2, <3>3, MacAheadGrows, ConfirmationGrows
  <2>6. QED
    BY <1>1, <1>3, <1>8, <2>1, <2>2, <2>3, <2>4, <2>5, AgentSideKept DEF NonceUsedOnce
<1>11. CASE o.frame.type = "ready"
  <2> DEFINE t == [s EXCEPT !.connected = TRUE]
  <2>1. /\ phone' = Counted(t) /\ UseNumber("ios", phone.key, phone.seq)
        /\ toMac' = Append(toMac, Sealed("ready", phone.key, phone.seq))
    BY <1>2, <1>6, <1>7, <1>11
  <2>2. /\ t \in PhoneType /\ t.guard = g /\ t.open = phone.open
        /\ t.key = phone.key /\ t.nonceIOS = phone.nonceIOS /\ t.seq = phone.seq
        /\ t.connected
    BY <1>7 DEF PhoneType
  <2> HIDE DEF t
  <2>3. /\ phone' \in PhoneType /\ phone'.guard = g /\ phone'.open = phone.open
        /\ phone'.key = phone.key /\ phone'.nonceIOS = phone.nonceIOS
        /\ phone'.seq = phone.seq + 1
    BY <2>1, <2>2, CountedType
  <2>4. /\ mark' \in [{"mac", "ios"} -> [Keys -> Nat]]
        /\ mark'["mac"] = mark["mac"]
        /\ mark'["ios"] = [mark["ios"] EXCEPT ![phone.key] = phone.seq]
        /\ reused' = FALSE
    <3>1. phone.seq > mark["ios"][phone.key]
      BY <1>9
    <3>2. QED
      BY <1>4, <1>9, <2>1, <3>1, IosNumberUsed
  <2>5. PICK f \in SealedFrame : /\ f = Sealed("ready", phone.key, phone.seq)
                                 /\ f.key = phone.key /\ f.seq = phone.seq /\ f.type = "ready"
    BY <1>4, <1>9, SealedIsFrame
  <2>6. Grown(0, 1) /\ toMac'[Len(toMac')] = f
    BY <1>9, <2>1, <2>4, <2>5, GrownBySealed
  <2>7. TypeOK'
    BY <1>1, <1>3, <2>3, <2>4, <2>6 DEF TypeOK, agentVars, Grown
  <2>8. PhoneEpoch'
    BY <1>1, <1>8, <2>3 DEF PhoneEpoch
  <2>9. IosNumbers'
    <3>1. ASSUME NEW k \in Keys, k[2] > minted'.ios
          PROVE  mark'["ios"][k] = 0
      <4>1. phone.key[2] = minted.ios /\ minted.ios \in Nat /\ k[2] \in Nat
        BY <1>1, <3>1 DEF PhoneEpoch, TypeOK, Keys, Nonces
      <4>2. k # phone.key
        BY <1>8, <3>1, <4>1
      <4>3. QED
        BY <1>8, <1>9, <2>4, <3>1, <4>2 DEF IosNumbers
    <3>2. mark'["ios"][phone'.key] < phone'.seq
      BY <1>4, <1>9, <2>3, <2>4
    <3>3. QED
      BY <1>1, <2>3, <3>1, <3>2 DEF IosNumbers
  <2>10. PhoneAhead' /\ SealedInOrder'
    BY <1>1, <1>3, <1>4, <1>6, <2>3, <2>4, MarkRises
  <2>11. MacAhead' /\ HellosInOrder' /\ ConfirmationFirst'
    <3>1. UNCHANGED agent /\ mark'["mac"] = mark["mac"] /\ mark["mac"][phone.key] > 0
      BY <1>1, <1>5, <2>4 DEF agentVars
    <3>2. PICK h, e : h = 0 /\ e = 1
      OBVIOUS
    <3>3. Grown(h, e)
      BY <2>6, <3>2
    <3>4. QED
      BY <1>8, <2>3, <2>5, <2>6, <3>1, <3>2, <3>3, MacAheadGrows, ConfirmationGrows
  <2>12. QED
    BY <1>1, <1>3, <1>8, <2>4, <2>7, <2>8, <2>9, <2>10, <2>11, AgentSideKept DEF NonceUsedOnce
<1>12. QED
  BY <1>10, <1>11

--------------------------------------------------------------------------------
(* The theorems.                                                           *)

(* Nothing is keyed, sealed or in flight at first.                         *)
LEMMA InitInv == Init => SealedInv
<1> SUFFICES ASSUME Init PROVE SealedInv
  OBVIOUS
<1> USE DEF Init
<1>1. agent \in AgentType
  BY DEF NewAgent, AgentType, KeyOrNone, NonceOrNone
<1>2. phone \in PhoneType
  BY NewGuardType DEF NewPhone, PhoneType, KeyOrNone, NonceOrNone
<1>3. /\ minted \in [mac : 0..MaxNonce, ios : 0..MaxNonce]
      /\ mark \in [{"mac", "ios"} -> [Keys -> Nat]]
  BY SealedAssumption DEF SealedAssumption
<1>4. /\ toMac \in Seq(Frames) /\ toIos \in Seq(Frames) /\ Len(toMac) = 0 /\ Len(toIos) = 0
      /\ todo \in Seq({"hello", "establish", "ready"})
  OBVIOUS
<1>5. /\ pc \in [Goroutines -> {"idle", "lock", "write"}]
      /\ slot \in [Goroutines -> Frames \cup {None}]
      /\ \A g \in Goroutines : pc[g] # "write"
  OBVIOUS
<1>6. TypeOK
  BY <1>1, <1>2, <1>3, <1>4, <1>5 DEF TypeOK
<1>7. /\ ~agent.conn /\ agent.key = None /\ agent.macNonce = None /\ agent.iosNonce = None
      /\ agent.maxRecv = 0
  BY DEF NewAgent
<1>8. /\ ~phone.open /\ phone.key = None /\ phone.nonceIOS = None /\ phone.guard.maxSeq = 0
      /\ ~phone.connected
  BY NewGuardType DEF NewPhone
<1>9. \A k \in Keys : mark["mac"][k] = 0 /\ mark["ios"][k] = 0 /\ k[1] # None
  BY NoneIsNothing DEF Keys
<1>10. AgentEpoch /\ PhoneEpoch /\ NonceUsedOnce
  BY <1>7, <1>8 DEF AgentEpoch, PhoneEpoch, NonceUsedOnce
<1>11. MacNumbers /\ IosNumbers /\ KeysRetireForGood
  BY <1>7, <1>8, <1>9 DEF MacNumbers, IosNumbers, KeysRetireForGood
<1>12. HellosInOrder /\ SealedInOrder /\ WriterHoldsMutex /\ OneCurrentDecrypt
  BY <1>4, <1>5 DEF HellosInOrder, SealedInOrder, WriterHoldsMutex, OneCurrentDecrypt
<1>13. PhoneAhead /\ MacAhead /\ ConfirmationFirst
  BY <1>4, <1>5, <1>7, <1>8 DEF PhoneAhead, MacAhead, ConfirmationFirst
<1>14. QED
  BY <1>6, <1>10, <1>11, <1>12, <1>13 DEF SealedInv

(* Every action keeps the invariant.                                       *)
LEMMA NextInv ==
  ASSUME SealedInv, [Next]_vars
  PROVE  SealedInv'
<1>1. CASE UNCHANGED vars
  BY <1>1 DEF vars, SealedInv, TypeOK, NonceUsedOnce, SealedInOrder, AgentEpoch, PhoneEpoch,
              MacNumbers, IosNumbers, HellosInOrder, KeysRetireForGood, WriterHoldsMutex,
              OneCurrentDecrypt, PhoneAhead, MacAhead, ConfirmationFirst, FreshForPhone,
              ReadyWithin
<1>2. CASE MacConnect
  BY <1>2, MacConnectStep
<1>3. CASE MacDisconnect
  BY <1>3, MacDisconnectStep
<1>4. CASE AgentRestart
  BY <1>4, AgentRestartStep
<1>5. CASE MacReadsHello
  BY <1>5, MacReadsHelloStep
<1>6. CASE MacReadsReady
  BY <1>6, MacReadsReadyStep
<1>7. CASE MacReadsData
  BY <1>7, MacReadsDataStep
<1>8. CASE RelaySendsHello
  BY <1>8, RelaySendsHelloStep
<1>9. CASE RelayEstablishes
  BY <1>9, RelayEstablishesStep
<1>10. CASE RelaySendsReady
  BY <1>10, RelaySendsReadyStep
<1>11. CASE IpcForwards
  BY <1>11, IpcForwardsStep
<1>12. ASSUME NEW g \in Goroutines, LockAndSeal(g) PROVE SealedInv'
  BY <1>12, LockAndSealStep
<1>13. ASSUME NEW g \in Goroutines, WriteAndUnlock(g) PROVE SealedInv'
  BY <1>13, WriteAndUnlockStep
<1>14. CASE PhoneConnects
  BY <1>14, PhoneConnectsStep
<1>15. CASE PhoneDrops
  BY <1>15, PhoneDropsStep
<1>16. CASE PhoneSendsHello
  BY <1>16, PhoneSendsHelloStep
<1>17. CASE PhoneSendsData
  BY <1>17, PhoneSendsDataStep
<1>18. CASE PhoneOpens
  BY <1>18, PhoneOpensStep
<1>19. ASSUME NEW o \in opening, PhoneDiscards(o) PROVE SealedInv'
  BY <1>19, PhoneDiscardsStep
<1>20. ASSUME NEW o \in opening, PhoneAppliesHello(o) PROVE SealedInv'
  BY <1>20, PhoneAppliesHelloStep
<1>21. ASSUME NEW o \in opening, PhoneFailsToOpen(o) PROVE SealedInv'
  BY <1>21, PhoneFailsToOpenStep
<1>22. ASSUME NEW o \in opening, PhoneAppliesSealed(o) PROVE SealedInv'
  BY <1>22, PhoneAppliesSealedStep
<1>23. CASE RelayDrops
  BY <1>23, RelayDropsStep
<1>24. QED
  BY <1>1, <1>2, <1>3, <1>4, <1>5, <1>6, <1>7, <1>8, <1>9, <1>10, <1>11, <1>12, <1>13,
     <1>14, <1>15, <1>16, <1>17, <1>18, <1>19, <1>20, <1>21, <1>22, <1>23
     DEF Next, AgentStep, PhoneStep

(* The invariant of the sealed data path, for any number of nonces, of     *)
(* frames in flight and of faults: re-keys, restarts of the agent and its  *)
(* counter, reconnects, two goroutines that seal and decrypts that finish  *)
(* late never bring two uses of a number under one key.                    *)
THEOREM SealedInvariant == Spec => []SealedInv
  BY InitInv, NextInv, PTL DEF Spec

(* Type correctness of both ends and of every frame in flight.             *)
THEOREM SealedTypes == Spec => []TypeOK
<1>1. SealedInv => TypeOK
  BY DEF SealedInv
<1>2. QED
  BY <1>1, SealedInvariant, PTL

(* encodeAndEncrypt and encryptPayload: no AEAD nonce is used twice under  *)
(* one key, although both counters start again.                            *)
THEOREM NoNumberUsedTwice == Spec => []NonceUsedOnce
<1>1. SealedInv => NonceUsedOnce
  BY DEF SealedInv
<1>2. QED
  BY <1>1, SealedInvariant, PTL

(* encryptedRelaySendMu: the order of the numbers is the order of writes.  *)
THEOREM SealsArriveInOrder == Spec => []SealedInOrder
<1>1. SealedInv => SealedInOrder
  BY DEF SealedInv
<1>2. QED
  BY <1>1, SealedInvariant, PTL

(* evaluateEncryptedFrame never takes a frame of the phone's own key for a *)
(* replay: its mark belongs to that key and lies below all that is coming. *)
THEOREM PhoneAcceptsAuthentic == Spec => []PhoneDropsNoAuthenticFrame
<1>1. ASSUME SealedInv PROVE PhoneDropsNoAuthenticFrame
  <2>1. ASSUME NEW o \in opening, IsCurrent(o), Opened(o)
        PROVE  o.frame.seq > phone.guard.maxSeq /\ o.key = phone.key
    <3>1. o.live /\ IsSealed(o.frame) /\ o.key = o.frame.key
      BY <2>1 DEF IsCurrent, Opened
    <3>2. o.key = phone.key
      BY <1>1, <3>1 DEF SealedInv, OneCurrentDecrypt
    <3>3. o.frame \in SealedFrame
      BY <1>1, <3>1, FrameKinds DEF SealedInv, TypeOK
    <3>4. phone.guard.maxSeq \in Nat /\ o.frame.seq \in Nat
      BY <1>1, <3>3 DEF SealedInv, TypeOK, PhoneType, GuardType, SealedFrame
    <3>5. phone.guard.maxSeq < o.frame.seq
      BY <1>1, <3>1, <3>2 DEF SealedInv, PhoneAhead, FreshForPhone
    <3>6. QED
      BY <3>2, <3>4, <3>5
  <2>2. QED
    BY <2>1 DEF PhoneDropsNoAuthenticFrame
<1>2. QED
  BY <1>1, SealedInvariant, PTL

(* decryptPayload's maxReceivedSeq: the same for the agent.                *)
THEOREM MacAcceptsAuthentic == Spec => []MacDropsNoAuthenticFrame
<1>1. ASSUME SealedInv PROVE MacDropsNoAuthenticFrame
  <2> SUFFICES ASSUME toMac # <<>>, IsSealed(Head(toMac)), Head(toMac).key = agent.key
               PROVE  Head(toMac).seq > agent.maxRecv
    BY DEF MacDropsNoAuthenticFrame
  <2>1. 1 \in 1..Len(toMac) /\ Head(toMac) = toMac[1] /\ toMac[1] \in Frames
    BY <1>1, TailOfChannel DEF SealedInv, TypeOK
  <2>2. agent.maxRecv < toMac[1].seq
    BY <1>1, <2>1 DEF SealedInv, MacAhead
  <2>3. toMac[1] \in SealedFrame
    BY <2>1, FrameKinds
  <2>4. agent.maxRecv \in Nat /\ toMac[1].seq \in Nat
    BY <1>1, <2>3 DEF SealedInv, TypeOK, AgentType, SealedFrame
  <2>5. QED
    BY <2>1, <2>2, <2>4
<1>2. QED
  BY <1>1, SealedInvariant, PTL

(* handleRelayFrame forwards input only in an epoch that was confirmed.    *)
THEOREM InputNeedsConfirmation == Spec => []InputAfterConfirmation
<1>1. ASSUME SealedInv PROVE InputAfterConfirmation
  <2> SUFFICES ASSUME toMac # <<>>, Head(toMac).type = "data", Head(toMac).key = agent.key
               PROVE  agent.ready
    BY DEF InputAfterConfirmation, Admits
  <2>1. 1 \in 1..Len(toMac) /\ Head(toMac) = toMac[1]
    BY <1>1, TailOfChannel DEF SealedInv, TypeOK
  <2>2. agent.ready \/ ReadyWithin(1 - 1)
    BY <1>1, <2>1 DEF SealedInv, ConfirmationFirst
  <2>3. ~ReadyWithin(1 - 1)
    BY DEF ReadyWithin
  <2>4. QED
    BY <2>2, <2>3
<1>2. QED
  BY <1>1, SealedInvariant, PTL

================================================================================
