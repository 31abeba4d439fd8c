------------------------- MODULE PendingApprovalsProofs -------------------------
(***************************************************************************)
(* The approvals' way to the phone and back, proved for any finite set of  *)
(* requests, capacity of the ledger, number of fetches and of rare events. *)
(***************************************************************************)
EXTENDS PendingApprovals, FiniteSetTheorems, TLAPS

--------------------------------------------------------------------------------
(* Sequences made of sets: what is listed, and that all of it is.          *)

(* Requests are finite, and so is every set of them.                       *)
LEMMA RequestsFinite ==
  ASSUME NEW S \in SUBSET Requests
  PROVE  IsFiniteSet(S) /\ Cardinality(S) \in Nat
<1>1. IsFiniteSet(S)
  BY PendingAssumption, FS_Subset DEF PendingAssumption
<1>2. QED
  BY <1>1, FS_CardinalityType

(* SetToSeq lists each element of a finite set.                            *)
LEMMA SetToSeqFacts ==
  ASSUME NEW S, IsFiniteSet(S)
  PROVE  /\ Cardinality(S) \in Nat
         /\ SetToSeq(S) \in [1..Cardinality(S) -> S]
         /\ \A x \in S : \E i \in 1..Cardinality(S) : SetToSeq(S)[i] = x
<1> DEFINE n == Cardinality(S)
           q == SetToSeq(S)
<1>1. n \in Nat /\ ExistsBijection(1..n, S)
  BY FS_CardinalityType
<1>2. \E f \in [1..n -> S] : IsInjective(f)
  BY <1>1 DEF ExistsBijection, Bijection, Injection, IsInjective
<1>3. q \in [1..n -> S] /\ IsInjective(q)
  BY <1>2 DEF SetToSeq
<1> HIDE DEF n, q
<1>4. q \in Injection(1..n, S)
  BY <1>3 DEF Injection
<1>5. Cardinality(1..n) = n
  <2>1. 1 \in Int /\ n \in Int
    BY <1>1
  <2>2. Cardinality(1..n) = IF 1 > n THEN 0 ELSE n - 1 + 1
    BY <2>1, FS_Interval
  <2>3. QED
    BY <1>1, <2>2
<1>6. q \in Surjection(1..n, S)
  BY <1>4, <1>5, FS_Injection DEF n
<1>7. \A x \in S : \E i \in 1..n : q[i] = x
  BY <1>6 DEF Surjection
<1>8. QED
  BY <1>1, <1>3, <1>7 DEF n, q

(* send_initial_state lists what the host keeps.                           *)
LEMMA InitialStateType ==
  ASSUME mac \in MacType
  PROVE  InitialState(mac) \in Seq(AskFrames)
<1> DEFINE n == Cardinality(mac.host)
           q == SetToSeq(mac.host)
           c == Cardinality(mac.asked)
<1>1. IsFiniteSet(mac.host) /\ c \in Nat /\ mac.host \subseteq Requests
  BY RequestsFinite DEF MacType
<1>2. n \in Nat /\ q \in [1..n -> mac.host]
  BY <1>1, SetToSeqFacts
<1>3. InitialState(mac) = [i \in DOMAIN q |-> [arg |-> q[i], spine |-> c]]
  BY DEF InitialState, Ask
<1> HIDE DEF n, q, c
<1>4. InitialState(mac) \in [1..n -> AskFrames]
  BY <1>1, <1>2, <1>3 DEF AskFrames
<1>5. QED
  BY <1>2, <1>4

(* flushQueuedApprovalResponses hands over a frame for each answer.        *)
LEMMA AnswerFramesFacts ==
  ASSUME NEW p \in PhoneType
  PROVE  /\ AnswerFrames(p) \in Seq(MacFrames)
         /\ \A r \in Sendable(p) : \E i \in 1..Len(AnswerFrames(p)) :
              AnswerFrames(p)[i].kind = "answer" /\ AnswerFrames(p)[i].arg = r
<1> DEFINE S == Sendable(p)
           n == Cardinality(S)
           q == SetToSeq(S)
           a == AnswerFrames(p)
<1>1. S \in SUBSET Requests /\ p.session \in Nat
  BY DEF Sendable, PhoneType
<1>2. IsFiniteSet(S)
  BY <1>1, RequestsFinite
<1>3. n \in Nat /\ q \in [1..n -> S] /\ \A x \in S : \E i \in 1..n : q[i] = x
  BY <1>2, SetToSeqFacts
<1>4. a = [i \in DOMAIN q |-> [kind |-> "answer", session |-> p.session, arg |-> q[i]]]
  BY DEF AnswerFrames, Frame
<1> HIDE DEF S, n, q, a
<1>5. a \in [1..n -> MacFrames] /\ \A i \in 1..n : a[i].kind = "answer" /\ a[i].arg = q[i]
  BY <1>1, <1>3, <1>4 DEF MacFrames, About
<1>6. a \in Seq(MacFrames) /\ Len(a) = n
  BY <1>3, <1>5
<1>7. \A r \in S : \E i \in 1..Len(a) : a[i].kind = "answer" /\ a[i].arg = r
  BY <1>3, <1>5, <1>6
<1>8. QED
  BY <1>6, <1>7 DEF S, a

--------------------------------------------------------------------------------
(* The ledger of deferred answers.                                         *)

(* A finite strict total order has a least element: otherwise the numbers  *)
(* of older answers would lie in 1..n-1, two answers would share one, and  *)
(* the older of them would have fewer.                                     *)
LEMMA OldestExists ==
  ASSUME NEW D \in SUBSET Requests, NEW O, Ordered(D, O), D # {}
  PROVE  \E r \in D : \A t \in D : <<t, r>> \notin O
<1> SUFFICES ASSUME \A r \in D : \E t \in D : <<t, r>> \in O
             PROVE  FALSE
  OBVIOUS
<1> DEFINE older(r) == {t \in D : <<t, r>> \in O}
           n == Cardinality(D)
           f == [r \in D |-> Cardinality(older(r))]
<1>1. n \in Nat /\ IsFiniteSet(D) /\ n # 0
  BY RequestsFinite, FS_EmptySet
<1>2. ASSUME NEW r \in D
      PROVE  /\ IsFiniteSet(older(r)) /\ Cardinality(older(r)) \in Nat
             /\ 1 <= Cardinality(older(r)) /\ Cardinality(older(r)) <= n - 1
  <2>1. older(r) \in SUBSET Requests /\ older(r) # {} /\ older(r) \in SUBSET (D \ {r})
    BY <1>2 DEF Ordered
  <2>2. IsFiniteSet(older(r)) /\ Cardinality(older(r)) \in Nat /\ Cardinality(older(r)) # 0
    BY <2>1, RequestsFinite, FS_EmptySet
  <2>3. IsFiniteSet(D \ {r}) /\ Cardinality(D \ {r}) = n - 1
    BY <1>1, <1>2, FS_RemoveElement
  <2>4. Cardinality(older(r)) <= Cardinality(D \ {r})
    BY <2>1, <2>3, FS_Subset
  <2>5. QED
    BY <1>1, <2>2, <2>3, <2>4
<1>3. f \in [D -> 1..(n - 1)]
  <2> HIDE DEF older, n
  <2>1. \A r \in D : Cardinality(older(r)) \in 1..(n - 1)
    BY <1>1, <1>2
  <2>2. QED
    BY <2>1
<1>4. IsFiniteSet(1..(n - 1)) /\ Cardinality(1..(n - 1)) < n
  <2>1. 1 \in Int /\ n - 1 \in Int
    BY <1>1
  <2>2. /\ IsFiniteSet(1..(n - 1))
        /\ Cardinality(1..(n - 1)) = IF 1 > n - 1 THEN 0 ELSE (n - 1) - 1 + 1
    BY <2>1, FS_Interval
  <2>3. QED
    BY <1>1, <2>2
<1>5. PICK x, y \in D : x # y /\ f[x] = f[y]
  <2> HIDE DEF f, n
  <2>1. PICK T : T = 1..(n - 1)
    OBVIOUS
  <2>2. IsFiniteSet(T) /\ Cardinality(T) < Cardinality(D) /\ f \in [D -> T]
    BY <1>3, <1>4, <2>1 DEF n
  <2>3. QED
    BY <1>1, <2>2, FS_PigeonHole
<1>6. ASSUME NEW a \in D, NEW b \in D, <<a, b>> \in O
      PROVE  Cardinality(older(a)) < Cardinality(older(b))
  <2>1. older(a) \in SUBSET (older(b) \ {a}) /\ a \in older(b)
    BY <1>6 DEF Ordered
  <2>2. /\ IsFiniteSet(older(b) \ {a})
        /\ Cardinality(older(b) \ {a}) = Cardinality(older(b)) - 1
    BY <1>2, <2>1, FS_RemoveElement
  <2>3. Cardinality(older(a)) <= Cardinality(older(b) \ {a})
    BY <2>1, <2>2, FS_Subset
  <2>4. Cardinality(older(a)) \in Nat /\ Cardinality(older(b)) \in Nat
    BY <1>2
  <2>5. QED
    BY <2>2, <2>3, <2>4
<1>7. Cardinality(older(x)) = Cardinality(older(y))
  BY <1>5
<1>8. Cardinality(older(x)) \in Nat /\ Cardinality(older(y)) \in Nat
  BY <1>2
<1>9. <<x, y>> \in O \/ <<y, x>> \in O
  BY <1>5 DEF Ordered
<1> HIDE DEF older
<1>10. CASE <<x, y>> \in O
  BY <1>6, <1>7, <1>8, <1>10
<1>11. CASE <<y, x>> \in O
  BY <1>6, <1>7, <1>8, <1>11
<1>12. QED
  BY <1>9, <1>10, <1>11

(* Taking answers out of the ledger keeps the order of the others.         *)
LEMMA OrderedPart ==
  ASSUME NEW D, NEW O, Ordered(D, O), NEW E \in SUBSET D
  PROVE  Ordered(E, O \cap (E \X E))
  BY DEF Ordered

(* A new answer is the newest.                                             *)
LEMMA OrderedMore ==
  ASSUME NEW D, NEW O, Ordered(D, O), NEW r, r \notin D
  PROVE  Ordered(D \cup {r}, O \cup (D \X {r}))
  BY DEF Ordered

(* What every method leaves of the phone, the deferred answers apart.      *)
Sound(p) ==
  /\ p \in PhoneType
  /\ Cardinality(p.deferred) <= DeferredCapacity
  /\ Ordered(p.deferred, p.order)
  /\ p.queued \subseteq p.cards
  /\ p.sending \subseteq p.queued
  /\ p.session # 0 => p.open

(* The fields an approval's bookkeeping leaves alone.                      *)
SameElse(p, q) ==
  /\ p.open = q.open /\ p.session = q.session /\ p.fence = q.fence
  /\ p.startedAt = q.startedAt /\ p.since = q.since /\ p.cards = q.cards
  /\ p.resolved = q.resolved

(* A ledger within its capacity and in order is sound.                     *)
LEMMA HoldingType ==
  ASSUME NEW p, Sound(p), NEW D \in SUBSET Requests, Cardinality(D) <= DeferredCapacity,
         NEW O, O \subseteq Requests \X Requests, Ordered(D, O \cap (D \X D))
  PROVE  /\ Sound(Holding(p, D, O)) /\ SameElse(Holding(p, D, O), p)
         /\ Holding(p, D, O).deferred = D /\ Holding(p, D, O).queued = p.queued
         /\ Holding(p, D, O).sending = p.sending
<1> DEFINE o == O \cap (D \X D)
           h == Holding(p, D, O)
<1>1. h = [p EXCEPT !.deferred = D, !.order = o] /\ o \subseteq Requests \X Requests
  BY DEF Holding
<1>2. Ordered(D, o)
  OBVIOUS
<1> HIDE DEF o, h
<1>3. /\ h \in PhoneType /\ h.deferred = D /\ h.order = o /\ h.queued = p.queued
      /\ h.sending = p.sending /\ SameElse(h, p)
  BY <1>1 DEF Sound, PhoneType, SameElse
<1>4. QED
  BY <1>2, <1>3 DEF Sound, SameElse, h

(* takeReady leaves the ledger without the requests that are listed.       *)
LEMMA DrainedFacts ==
  ASSUME NEW p, Sound(p)
  PROVE  /\ Sound(Drained(p)) /\ SameElse(Drained(p), p)
         /\ Drained(p).deferred \cap Drained(p).cards = {}
         /\ Drained(p).sending = p.sending
<1> DEFINE D == p.deferred \ p.cards
           q == [p EXCEPT !.queued = @ \cup (p.deferred \cap p.cards)]
<1>1. Drained(p) = Holding(q, D, p.order)
  BY DEF Drained
<1>2. Sound(q) /\ SameElse(q, p) /\ q.sending = p.sending
  BY DEF Sound, PhoneType, SameElse
<1>3. D \in SUBSET Requests /\ p.order \subseteq Requests \X Requests /\ D \in SUBSET p.deferred
  BY DEF Sound, PhoneType
<1>4. Cardinality(D) <= DeferredCapacity
  <2>1. /\ IsFiniteSet(p.deferred) /\ Cardinality(p.deferred) \in Nat
        /\ Cardinality(D) \in Nat /\ DeferredCapacity \in Nat
    BY <1>3, RequestsFinite, PendingAssumption DEF Sound, PhoneType, PendingAssumption
  <2>2. Cardinality(D) <= Cardinality(p.deferred)
    BY <1>3, <2>1, FS_Subset
  <2>3. QED
    BY <2>1, <2>2 DEF Sound
<1>5. Ordered(D, p.order \cap (D \X D))
  BY <1>3, OrderedPart DEF Sound
<1> HIDE DEF q, D
<1>6. /\ Sound(Holding(q, D, p.order)) /\ SameElse(Holding(q, D, p.order), q)
      /\ Holding(q, D, p.order).deferred = D /\ Holding(q, D, p.order).sending = q.sending
  BY <1>2, <1>3, <1>4, <1>5, HoldingType
<1>7. QED
  BY <1>1, <1>2, <1>6 DEF SameElse, D

(* record: one answer more, and at most the capacity.                      *)
LEMMA RecordedFacts ==
  ASSUME NEW p, Sound(p), NEW r \in Requests, r \notin p.deferred
  PROVE  /\ Sound(Recorded(p, r)) /\ SameElse(Recorded(p, r), p)
         /\ Recorded(p, r).deferred \subseteq p.deferred \cup {r}
         /\ Recorded(p, r).sending = p.sending
<1> DEFINE all    == p.deferred \cup {r}
           order  == p.order \cup (p.deferred \X {r})
           oldest == {s \in all : \A t \in all : <<t, s>> \notin order}
           D      == IF Cardinality(all) > DeferredCapacity THEN all \ oldest ELSE all
<1>1. Recorded(p, r) = Holding(p, D, order)
  BY DEF Recorded
<1>2. /\ p.deferred \in SUBSET Requests /\ all \in SUBSET Requests
      /\ order \subseteq Requests \X Requests /\ D \in SUBSET all /\ D \in SUBSET Requests
  BY DEF Sound, PhoneType
<1>3. /\ IsFiniteSet(p.deferred) /\ Cardinality(p.deferred) \in Nat /\ IsFiniteSet(all)
      /\ Cardinality(all) = Cardinality(p.deferred) + 1 /\ DeferredCapacity \in Nat
  BY <1>2, RequestsFinite, FS_AddElement, PendingAssumption DEF PendingAssumption
<1>4. Ordered(all, order)
  BY OrderedMore DEF Sound
<1>5. Cardinality(D) <= DeferredCapacity
  <2>1. CASE Cardinality(all) > DeferredCapacity
    <3> HIDE DEF all, order
    <3>1. PICK s \in all : \A t \in all : <<t, s>> \notin order
      <4>1. all # {}
        BY DEF all
      <4>2. QED
        BY <1>2, <1>4, <4>1, OldestExists
    <3>2. oldest = {s}
      BY <1>4, <3>1 DEF Ordered
    <3>3. D = all \ {s}
      BY <2>1, <3>2
    <3>4. Cardinality(all \ {s}) = Cardinality(all) - 1
      BY <1>3, <3>1, FS_RemoveElement
    <3> HIDE DEF D
    <3>5. Cardinality(p.deferred) <= DeferredCapacity
      BY DEF Sound
    <3>6. QED
      BY <1>3, <3>3, <3>4, <3>5
  <2>2. CASE ~(Cardinality(all) > DeferredCapacity)
    BY <1>3, <2>2
  <2>3. QED
    BY <2>1, <2>2
<1> HIDE DEF D, order
<1>6. Ordered(D, order \cap (D \X D))
  BY <1>2, <1>4, OrderedPart
<1>7. /\ Sound(Holding(p, D, order)) /\ SameElse(Holding(p, D, order), p)
      /\ Holding(p, D, order).deferred = D /\ Holding(p, D, order).sending = p.sending
  BY <1>2, <1>5, <1>6, HoldingType
<1>8. QED
  BY <1>1, <1>2, <1>7

(* takeSendable forgets no answer here, as each has its card.              *)
LEMMA FlushedFacts ==
  ASSUME NEW p, Sound(p)
  PROVE  /\ Sound(Flushed(p)) /\ SameElse(Flushed(p), p)
         /\ Flushed(p).deferred = p.deferred
         /\ Flushed(p).sending = p.sending \cup Sendable(p)
         /\ Sendable(p) # {} => p.open
<1>1. CASE p.session = 0
  BY <1>1 DEF Flushed, Sendable, SameElse
<1>2. CASE p.session # 0
  <2> DEFINE Q == p.queued \ ((p.queued \ p.sending) \ p.cards)
             W == p.sending \cup Sendable(p)
             q == [p EXCEPT !.queued = Q, !.sending = W]
  <2>1. Flushed(p) = q
    BY <1>2 DEF Flushed
  <2>2. Q = p.queued /\ W \subseteq p.queued /\ Q \subseteq Requests /\ W \subseteq Requests
    BY <1>2 DEF Sound, PhoneType, Sendable
  <2> HIDE DEF Q, W
  <2>3. /\ q \in PhoneType /\ SameElse(q, p) /\ q.deferred = p.deferred /\ q.order = p.order
        /\ q.queued = Q /\ q.sending = W
    BY <2>2 DEF Sound, PhoneType, SameElse
  <2> HIDE DEF q
  <2>4. Sound(q)
    BY <2>2, <2>3 DEF Sound, SameElse
  <2>5. QED
    BY <1>2, <2>1, <2>3, <2>4 DEF W, Sound
<1>3. QED
  BY <1>1, <1>2

(* Each answer being sent has its frame in the open socket.                *)
OnWire(p, box) ==
  \A r \in p.sending :
    p.open /\ \E i \in 1..Len(box) : box[i].kind = "answer" /\ box[i].arg = r

(* Frames behind others are reached with their indices moved.              *)
LEMMA BehindOthers ==
  ASSUME NEW s \in Seq(MacFrames), NEW t \in Seq(MacFrames)
  PROVE  /\ s \o t \in Seq(MacFrames)
         /\ \A i \in 1..Len(s) : i \in 1..Len(s \o t) /\ (s \o t)[i] = s[i]
         /\ \A i \in 1..Len(t) : \E j \in 1..Len(s \o t) : (s \o t)[j] = t[i]
<1>1. /\ s \o t \in Seq(MacFrames) /\ Len(s \o t) = Len(s) + Len(t)
      /\ Len(s) \in Nat /\ Len(t) \in Nat
      /\ \A i \in 1..Len(s) : (s \o t)[i] = s[i]
      /\ \A i \in 1..Len(t) : (s \o t)[Len(s) + i] = t[i]
  OBVIOUS
<1>2. \A i \in 1..Len(t) : Len(s) + i \in 1..Len(s \o t)
  BY <1>1
<1>3. \A i \in 1..Len(s) : i \in 1..Len(s \o t)
  BY <1>1
<1>4. QED
  BY <1>1, <1>2, <1>3

(* Frames handed over later hide none that is there.                       *)
LEMMA WireKept ==
  ASSUME NEW p, NEW s \in Seq(MacFrames), NEW t \in Seq(MacFrames), OnWire(p, s)
  PROVE  OnWire(p, s \o t)
<1> DEFINE u == s \o t
<1>1. \A i \in 1..Len(s) : i \in 1..Len(u) /\ u[i] = s[i]
  BY BehindOthers
<1> HIDE DEF u
<1>2. OnWire(p, u)
  BY <1>1 DEF OnWire
<1>3. QED
  BY <1>2 DEF u

(* The phone goes on from p; its answers follow `first` on the wire.       *)
LEMMA PhoneBecomesFacts ==
  ASSUME NEW p, Sound(p), NEW first \in Seq(MacFrames), outbox \in Seq(MacFrames),
         OnWire(p, outbox), PhoneBecomes(p, first)
  PROVE  /\ Sound(phone') /\ SameElse(phone', p) /\ phone'.deferred = p.deferred
         /\ outbox' \in Seq(MacFrames) /\ OnWire(phone', outbox')
<1>1. phone' = Flushed(p) /\ outbox' = outbox \o first \o AnswerFrames(p)
  BY DEF PhoneBecomes
<1>2. /\ Sound(phone') /\ SameElse(phone', p) /\ phone'.deferred = p.deferred
      /\ phone'.sending = p.sending \cup Sendable(p) /\ (Sendable(p) # {} => p.open)
  BY <1>1, FlushedFacts
<1>3. PICK s : s = outbox \o first
  OBVIOUS
<1>4. PICK t : t = AnswerFrames(p)
  OBVIOUS
<1>5. s \in Seq(MacFrames) /\ OnWire(p, s)
  BY <1>3, WireKept
<1>6. /\ t \in Seq(MacFrames)
      /\ \A r \in Sendable(p) : \E i \in 1..Len(t) : t[i].kind = "answer" /\ t[i].arg = r
  BY <1>4, AnswerFramesFacts DEF Sound
<1>7. /\ outbox' \in Seq(MacFrames) /\ OnWire(p, outbox')
      /\ \A i \in 1..Len(t) : \E j \in 1..Len(outbox') : outbox'[j] = t[i]
  <2>1. outbox' = s \o t
    BY <1>1, <1>3, <1>4
  <2>2. OnWire(p, s \o t)
    BY <1>5, <1>6, WireKept
  <2>3. /\ s \o t \in Seq(MacFrames)
        /\ \A i \in 1..Len(t) : \E j \in 1..Len(s \o t) : (s \o t)[j] = t[i]
    BY <1>5, <1>6, BehindOthers
  <2>4. QED
    BY <2>1, <2>2, <2>3
<1>8. ASSUME NEW r \in phone'.sending
      PROVE  phone'.open /\ \E i \in 1..Len(outbox') : outbox'[i].kind = "answer" /\ outbox'[i].arg = r
  <2>1. CASE r \in p.sending
    BY <1>2, <1>7, <2>1 DEF OnWire, SameElse
  <2>2. CASE r \in Sendable(p)
    <3>1. PICK i \in 1..Len(t) : t[i].kind = "answer" /\ t[i].arg = r
      BY <1>6, <2>2
    <3>2. PICK j \in 1..Len(outbox') : outbox'[j] = t[i]
      BY <1>7
    <3>3. QED
      BY <1>2, <2>2, <3>1, <3>2 DEF SameElse
  <2>3. QED
    BY <1>2, <1>8, <2>1, <2>2
<1>9. QED
  BY <1>2, <1>7, <1>8 DEF OnWire

(* An APPROVAL_REQUEST lists its request.                                  *)
LEMMA UpsertedFacts ==
  ASSUME NEW p, Sound(p), NEW r \in Requests
  PROVE  /\ Sound(Upserted(p, r)) /\ Upserted(p, r).sending = p.sending
         /\ Upserted(p, r).open = p.open /\ Upserted(p, r).fence = p.fence
         /\ Upserted(p, r).startedAt = p.startedAt
         /\ Upserted(p, r).since = IF p.startedAt THEN p.since \cup {r} ELSE p.since
<1> DEFINE C == p.cards \cup {r}
           R == p.resolved \ {r}
           S == IF p.startedAt THEN p.since \cup {r} ELSE p.since
           u == Upserted(p, r)
<1>1. u = [p EXCEPT !.cards = C, !.resolved = R, !.since = S]
  BY DEF Upserted
<1>2. C \subseteq Requests /\ R \subseteq Requests /\ S \subseteq Requests /\ p.cards \subseteq C
  BY DEF Sound, PhoneType
<1> HIDE DEF C, R, S, u
<1>3. /\ u \in PhoneType /\ u.sending = p.sending /\ u.open = p.open /\ u.fence = p.fence
      /\ u.startedAt = p.startedAt /\ u.since = S /\ u.cards = C /\ u.queued = p.queued
      /\ u.deferred = p.deferred /\ u.order = p.order /\ u.session = p.session
  BY <1>1, <1>2 DEF Sound, PhoneType
<1>4. Sound(u)
  BY <1>2, <1>3 DEF Sound
<1>5. QED
  BY <1>3, <1>4 DEF u, S

(* A snapshot replaces the cards but for those of answers and of frames    *)
(* that came since the fetch began.                                        *)
LEMMA AppliedSnapshotFacts ==
  ASSUME NEW p, Sound(p), NEW s \in Snapshots
  PROVE  LET q == ApplySnapshotApprovals(p, s)
         IN  /\ Sound(q) /\ q.sending = p.sending /\ q.open = p.open
             /\ p.cards \cap p.since \subseteq q.cards
             /\ (q.cards \ p.cards) \cap p.resolved = {}
<1> DEFINE C == (s.approvals \ p.resolved) \cup {c \in p.cards : c \in p.since \/ c \in p.queued}
           q == ApplySnapshotApprovals(p, s)
<1>1. q = [p EXCEPT !.cards = C, !.startedAt = FALSE, !.since = {}]
  BY DEF ApplySnapshotApprovals
<1>2. /\ C \subseteq Requests /\ p.queued \subseteq C /\ p.cards \cap p.since \subseteq C
      /\ (C \ p.cards) \cap p.resolved = {}
  BY DEF Sound, PhoneType, Snapshots
<1> HIDE DEF C, q
<1>3. /\ q \in PhoneType /\ q.sending = p.sending /\ q.open = p.open /\ q.cards = C
      /\ q.queued = p.queued /\ q.deferred = p.deferred /\ q.order = p.order
      /\ q.session = p.session
  BY <1>1, <1>2 DEF Sound, PhoneType
<1>4. Sound(q)
  BY <1>2, <1>3 DEF Sound
<1>5. QED
  BY <1>2, <1>3, <1>4 DEF q

(* completeApprovalResponse: the answer is gone from every ledger.         *)
LEMMA CompletedFacts ==
  ASSUME NEW p, Sound(p), NEW r
  PROVE  LET q == Completed(p, r)
         IN  /\ Sound(q) /\ q.sending = p.sending \ {r} /\ q.open = p.open
             /\ q.deferred = p.deferred /\ q.cards \subseteq p.cards /\ q.fence = p.fence
             /\ q.startedAt = p.startedAt /\ p.since \ {r} \subseteq q.since
<1> DEFINE q == Completed(p, r)
           W == p.sending \ {r}
           Q == p.queued \ {r}
           C == p.cards \ {r}
           R == p.resolved \cup {r}
           S == p.since \ {r}
<1>1. CASE r \in p.queued /\ r \in p.cards
  <2>1. q = [p EXCEPT !.sending = W, !.queued = Q, !.cards = C, !.resolved = R, !.since = S]
    BY <1>1 DEF Completed
  <2>2. /\ W \subseteq Q /\ Q \subseteq C /\ C \subseteq p.cards /\ W \subseteq Requests
        /\ Q \subseteq Requests /\ C \subseteq Requests /\ R \subseteq Requests
        /\ S \subseteq Requests /\ p.since \ {r} \subseteq S
    BY <1>1 DEF Sound, PhoneType
  <2> HIDE DEF q, W, Q, C, R, S
  <2>3. /\ q \in PhoneType /\ q.sending = W /\ q.open = p.open /\ q.cards = C
        /\ q.queued = Q /\ q.deferred = p.deferred /\ q.order = p.order
        /\ q.session = p.session /\ q.fence = p.fence /\ q.startedAt = p.startedAt
        /\ q.since = S
    BY <2>1, <2>2 DEF Sound, PhoneType
  <2>4. Sound(q)
    BY <2>2, <2>3 DEF Sound
  <2>5. QED
    BY <2>2, <2>3, <2>4 DEF q, W
<1>2. CASE ~(r \in p.queued /\ r \in p.cards)
  <2>1. q = [p EXCEPT !.sending = W, !.queued = Q]
    BY <1>2 DEF Completed
  <2>2. W \subseteq Q /\ Q \subseteq p.cards /\ W \subseteq Requests /\ Q \subseteq Requests
    BY DEF Sound, PhoneType
  <2> HIDE DEF q, W, Q
  <2>3. /\ q \in PhoneType /\ q.sending = W /\ q.open = p.open /\ q.cards = p.cards
        /\ q.queued = Q /\ q.deferred = p.deferred /\ q.order = p.order
        /\ q.session = p.session /\ q.fence = p.fence /\ q.startedAt = p.startedAt
        /\ q.since = p.since
    BY <2>1, <2>2 DEF Sound, PhoneType
  <2>4. Sound(q)
    BY <2>2, <2>3 DEF Sound
  <2>5. QED
    BY <2>2, <2>3, <2>4 DEF q, W
<1>3. QED
  BY <1>1, <1>2

--------------------------------------------------------------------------------
(* The invariant in two halves: the phone, and what the others keep.       *)

AtWork == JobsFit /\ AwaitedOnce

SharedTypes ==
  /\ mac \in MacType /\ toAgent \in Seq(AskFrames) /\ toHost \in Seq(HostFrames)
  /\ agent \in AgentType /\ pc \in [Goroutines -> {"idle", "copy", "stamp", "wait", "finish"}]
  /\ job \in [Goroutines -> Jobs] /\ posts \subseteq Posts /\ store \in Snapshots
  /\ fetches \subseteq Fetches /\ outbox \in Seq(MacFrames) /\ toMac \in Seq(MacFrames)
  /\ toIos \in Seq(IosFrames) /\ used \in Used

(* The inductive invariant is these two halves.                            *)
LEMMA InvParts ==
  PendingInv <=> /\ SharedTypes /\ AtWork
                 /\ Sound(phone) /\ OnWire(phone, outbox) /\ DeferredAreUnknown
                 /\ FetchesNumbered /\ HeardIsKept
<1>1. outbox \in Seq(MacFrames) => DOMAIN outbox = 1..Len(outbox)
  OBVIOUS
<1>2. outbox \in Seq(MacFrames) =>
        (SendingIsOnTheWire <=> phone.sending \subseteq phone.queued /\ OnWire(phone, outbox))
  BY <1>1 DEF SendingIsOnTheWire, OnWire
<1>3. TypeOK <=> /\ SharedTypes /\ phone \in PhoneType
                 /\ Cardinality(phone.deferred) <= DeferredCapacity
  BY DEF TypeOK, SharedTypes
<1>4. SharedTypes => outbox \in Seq(MacFrames)
  BY DEF SharedTypes
<1>5. QED
  BY <1>2, <1>3, <1>4 DEF PendingInv, AtWork, Sound, QueuedAnswerKeepsCard, LedgerInOrder,
                          SessionNeedsSocket

(* The same for the state after a step.                                    *)
LEMMA InvPartsNext ==
  ASSUME SharedTypes', AtWork', Sound(phone'), OnWire(phone', outbox'),
         phone'.deferred \cap phone'.cards = {}, FetchesNumbered', HeardIsKept'
  PROVE  PendingInv'
<1>1. DOMAIN outbox' = 1..Len(outbox')
  BY DEF SharedTypes
<1>2. SendingIsOnTheWire'
  BY <1>1 DEF SendingIsOnTheWire, OnWire, Sound
<1>3. TypeOK'
  BY DEF TypeOK, SharedTypes, Sound
<1>4. QED
  BY <1>2, <1>3 DEF PendingInv, AtWork, Sound, QueuedAnswerKeepsCard, LedgerInOrder,
                    SessionNeedsSocket, DeferredAreUnknown

(* The app, the agent and the relay do not touch the phone.                *)
LEMMA PhoneSideKept ==
  ASSUME PendingInv, UNCHANGED phoneVars, used'.fetches = used.fetches, SharedTypes', AtWork'
  PROVE  PendingInv'
<1>1. /\ Sound(phone) /\ OnWire(phone, outbox) /\ DeferredAreUnknown
      /\ FetchesNumbered /\ HeardIsKept
  BY InvParts
<1>2. phone' = phone /\ outbox' = outbox /\ fetches' = fetches
  BY DEF phoneVars
<1>3. FetchesNumbered' /\ HeardIsKept'
  BY <1>1, <1>2 DEF FetchesNumbered, HeardIsKept
<1>4. QED
  BY <1>1, <1>2, <1>3, InvPartsNext DEF DeferredAreUnknown

--------------------------------------------------------------------------------
(* Counters.                                                               *)

(* Each counter goes up by one and keeps its type.                         *)
LEMMA RareUsed ==
  ASSUME NEW u \in Used, u.rare < MaxRare
  PROVE  [u EXCEPT !.rare = @ + 1] \in Used /\ [u EXCEPT !.rare = @ + 1].fetches = u.fetches
<1> DEFINE n == u.rare + 1
<1>1. n \in 0..MaxRare
  BY PendingAssumption DEF PendingAssumption, Used
<1> HIDE DEF n
<1>2. [u EXCEPT !.rare = n] \in Used /\ [u EXCEPT !.rare = n].fetches = u.fetches
  BY <1>1 DEF Used
<1>3. QED
  BY <1>2 DEF n

LEMMA EpochUsed ==
  ASSUME NEW u \in Used
  PROVE  /\ [u EXCEPT !.epochs = @ + 1] \in Used /\ u.epochs + 1 \in Nat
         /\ [u EXCEPT !.epochs = @ + 1].fetches = u.fetches
<1> DEFINE n == u.epochs + 1
<1>1. n \in Nat
  BY DEF Used
<1> HIDE DEF n
<1>2. [u EXCEPT !.epochs = n] \in Used /\ [u EXCEPT !.epochs = n].fetches = u.fetches
  BY <1>1 DEF Used
<1>3. QED
  BY <1>1, <1>2 DEF n

LEMMA NonceUsed ==
  ASSUME NEW u \in Used
  PROVE  /\ [u EXCEPT !.nonces = @ + 1] \in Used /\ u.nonces + 1 \in Nat
         /\ [u EXCEPT !.nonces = @ + 1].fetches = u.fetches
<1> DEFINE n == u.nonces + 1
<1>1. n \in Nat
  BY DEF Used
<1> HIDE DEF n
<1>2. [u EXCEPT !.nonces = n] \in Used /\ [u EXCEPT !.nonces = n].fetches = u.fetches
  BY <1>1 DEF Used
<1>3. QED
  BY <1>1, <1>2 DEF n

LEMMA RareEpochUsed ==
  ASSUME NEW u \in Used, u.rare < MaxRare
  PROVE  /\ [u EXCEPT !.rare = @ + 1, !.epochs = @ + 1] \in Used /\ u.epochs + 1 \in Nat
         /\ [u EXCEPT !.rare = @ + 1, !.epochs = @ + 1].fetches = u.fetches
<1> DEFINE m == u.rare + 1
           n == u.epochs + 1
<1>1. m \in 0..MaxRare /\ n \in Nat
  BY PendingAssumption DEF PendingAssumption, Used
<1> HIDE DEF m, n
<1>2. /\ [u EXCEPT !.rare = m, !.epochs = n] \in Used
      /\ [u EXCEPT !.rare = m, !.epochs = n].fetches = u.fetches
  BY <1>1 DEF Used
<1>3. QED
  BY <1>1, <1>2 DEF m, n

(* A frame for the phone goes to its socket or nowhere.                    *)
LEMMA ToIosType ==
  ASSUME toIos \in Seq(IosFrames), NEW f \in IosFrames
  PROVE  ToIos(f) \in Seq(IosFrames)
  BY DEF ToIos

LEMMA ToMacType ==
  ASSUME toMac \in Seq(MacFrames), NEW fs \in Seq(MacFrames)
  PROVE  ToMac(fs) \in Seq(MacFrames)
  BY DEF ToMac

--------------------------------------------------------------------------------
(* The app's steps.                                                        *)

(* The app's record with its IPC flag set, or with a request more.         *)
LEMMA MacIpcType ==
  ASSUME NEW m \in MacType, NEW b \in BOOLEAN
  PROVE  [m EXCEPT !.ipc = b] \in MacType
  BY DEF MacType

LEMMA MacAskedType ==
  ASSUME NEW m \in MacType, NEW A \in SUBSET Requests, NEW W \in SUBSET Requests,
         NEW S \in SUBSET Requests, NEW H \in SUBSET Requests
  PROVE  [m EXCEPT !.asked = A, !.waiting = W, !.shared = S, !.host = H] \in MacType
  BY DEF MacType

LEMMA MacDialogType ==
  ASSUME NEW m \in MacType, NEW A \in SUBSET Requests, NEW W \in SUBSET Requests
  PROVE  [m EXCEPT !.asked = A, !.waiting = W] \in MacType
  BY DEF MacType

(* IpcServer.send queues frames or drops them.                             *)
LEMMA SentType ==
  ASSUME toAgent \in Seq(AskFrames), NEW fs \in Seq(AskFrames)
  PROVE  Sent(fs) \in Seq(AskFrames)
  BY DEF Sent

(* Here the phone stays as it was; only the types are at stake.            *)
LEMMA MacAsksStep ==
  ASSUME PendingInv, NEW r \in Requests, MacAsks(r)
  PROVE  PendingInv'
<1>1. SharedTypes /\ AtWork
  BY InvParts
<1> DEFINE ask == [Ask(r) EXCEPT !.spine = @ + 1]
<1>2. UNCHANGED <<toHost, agentVars, relayVars, phoneVars, toMac, toIos>>
  BY DEF MacAsks
<1>3. toAgent' = Sent(<<ask>>) \/ toAgent' = toAgent
  BY DEF MacAsks
<1>4. used' = used \/ (used.rare < MaxRare /\ used' = [used EXCEPT !.rare = @ + 1])
  BY DEF MacAsks, Rare
<1>5. \/ mac' = [mac EXCEPT !.asked = @ \cup {r}, !.waiting = {r},
                           !.shared = @ \cup {r}, !.host = @ \cup {r}]
      \/ mac' = [mac EXCEPT !.asked = @ \cup {r}, !.waiting = {r}]
  BY DEF MacAsks
<1>6. mac' \in MacType
  <2> DEFINE A == mac.asked \cup {r}
             S == mac.shared \cup {r}
             H == mac.host \cup {r}
  <2>1. /\ mac \in MacType /\ A \in SUBSET Requests /\ S \in SUBSET Requests
        /\ H \in SUBSET Requests /\ {r} \in SUBSET Requests
    BY <1>1 DEF SharedTypes, MacType
  <2>2. \/ mac' = [mac EXCEPT !.asked = A, !.waiting = {r}, !.shared = S, !.host = H]
        \/ mac' = [mac EXCEPT !.asked = A, !.waiting = {r}]
    BY <1>5
  <2> HIDE DEF A, S, H
  <2>3. [mac EXCEPT !.asked = A, !.waiting = {r}] \in MacType
    BY <2>1, MacDialogType
  <2>4. [mac EXCEPT !.asked = A, !.waiting = {r}, !.shared = S, !.host = H] \in MacType
    BY <2>1, MacAskedType
  <2>5. QED
    BY <2>2, <2>3, <2>4
<1>7. toAgent' \in Seq(AskFrames)
  <2>1. Cardinality(mac.asked) + 1 \in Nat
    BY <1>1, RequestsFinite DEF SharedTypes, MacType
  <2>2. ask = [arg |-> r, spine |-> Cardinality(mac.asked) + 1]
    BY DEF Ask
  <2>3. ask \in AskFrames
    BY <2>1, <2>2 DEF AskFrames
  <2> HIDE DEF ask
  <2>4. <<ask>> \in Seq(AskFrames)
    BY <2>3
  <2>5. QED
    BY <1>1, <1>3, <2>4, SentType DEF SharedTypes
<1>8. used' \in Used /\ used'.fetches = used.fetches
  BY <1>1, <1>4, RareUsed DEF SharedTypes
<1>9. SharedTypes' /\ AtWork'
  BY <1>1, <1>2, <1>6, <1>7, <1>8
     DEF SharedTypes, AtWork, JobsFit, AwaitedOnce, agentVars, relayVars, phoneVars
<1>10. QED
  BY <1>2, <1>8, <1>9, PhoneSideKept

LEMMA MacAnswersStep ==
  ASSUME PendingInv, NEW r \in Requests, MacAnswers(r)
  PROVE  PendingInv'
<1>1. SharedTypes /\ AtWork
  BY InvParts
<1>2. /\ used.rare < MaxRare /\ used' = [used EXCEPT !.rare = @ + 1]
      /\ mac' = [mac EXCEPT !.waiting = @ \ {r}]
      /\ UNCHANGED <<toAgent, toHost, agentVars, relayVars, phoneVars, toMac, toIos>>
  BY DEF MacAnswers, Rare
<1>3. mac' \in MacType
  BY <1>1, <1>2 DEF SharedTypes, MacType
<1>4. used' \in Used /\ used'.fetches = used.fetches
  BY <1>1, <1>2, RareUsed DEF SharedTypes
<1>5. SharedTypes' /\ AtWork'
  BY <1>1, <1>2, <1>3, <1>4
     DEF SharedTypes, AtWork, JobsFit, AwaitedOnce, agentVars, relayVars, phoneVars
<1>6. QED
  BY <1>2, <1>4, <1>5, PhoneSideKept

LEMMA HostReadsAnswerStep ==
  ASSUME PendingInv, HostReadsAnswer
  PROVE  PendingInv'
<1>1. SharedTypes /\ AtWork
  BY InvParts
<1> DEFINE r == Head(toHost).arg
<1>2. /\ toHost # <<>> /\ toHost' = Tail(toHost)
      /\ mac' = [mac EXCEPT !.waiting = @ \ {r}, !.host = @ \ {r}]
      /\ UNCHANGED <<toAgent, agentVars, relayVars, phoneVars, toMac, toIos, used>>
  BY DEF HostReadsAnswer
<1> HIDE DEF r
<1>3. mac' \in MacType
  BY <1>1, <1>2 DEF SharedTypes, MacType
<1>4. toHost' \in Seq(HostFrames)
  BY <1>1, <1>2 DEF SharedTypes
<1>5. SharedTypes' /\ AtWork'
  BY <1>1, <1>2, <1>3, <1>4
     DEF SharedTypes, AtWork, JobsFit, AwaitedOnce, agentVars, relayVars, phoneVars
<1>6. QED
  BY <1>2, <1>5, PhoneSideKept

LEMMA HostReadsClientStateStep ==
  ASSUME PendingInv, HostReadsClientState
  PROVE  PendingInv'
<1>1. SharedTypes /\ AtWork
  BY InvParts
<1>2. /\ toHost # <<>> /\ toHost' = Tail(toHost)
      /\ toAgent' = Sent(InitialState(mac)) \/ toAgent' = toAgent
      /\ mac' = mac
      /\ UNCHANGED <<agentVars, relayVars, phoneVars, toMac, toIos, used>>
  BY DEF HostReadsClientState
<1>3. toHost' \in Seq(HostFrames) /\ mac' \in MacType
  BY <1>1, <1>2 DEF SharedTypes, MacType
<1>4. toAgent' \in Seq(AskFrames)
  <2>1. Sent(InitialState(mac)) \in Seq(AskFrames)
    BY <1>1, InitialStateType, SentType DEF SharedTypes
  <2>2. QED
    BY <1>1, <1>2, <2>1 DEF SharedTypes
<1>5. SharedTypes' /\ AtWork'
  BY <1>1, <1>2, <1>3, <1>4
     DEF SharedTypes, AtWork, JobsFit, AwaitedOnce, agentVars, relayVars, phoneVars
<1>6. QED
  BY <1>2, <1>5, PhoneSideKept

LEMMA HostReadsConnectedStep ==
  ASSUME PendingInv, HostReadsConnected
  PROVE  PendingInv'
<1>1. SharedTypes /\ AtWork
  BY InvParts
<1>2. /\ toHost # <<>> /\ toHost' = Tail(toHost)
      /\ toAgent' = Sent(InitialState(mac)) \/ toAgent' = toAgent
      /\ mac' = [mac EXCEPT !.ipc = TRUE]
      /\ UNCHANGED <<agentVars, relayVars, phoneVars, toMac, toIos, used>>
  BY DEF HostReadsConnected
<1>3. toHost' \in Seq(HostFrames) /\ mac' \in MacType
  <2>1. toHost' \in Seq(HostFrames)
    BY <1>1, <1>2 DEF SharedTypes
  <2>2. [mac EXCEPT !.ipc = TRUE] \in MacType
    BY <1>1, MacIpcType DEF SharedTypes
  <2>3. QED
    BY <1>2, <2>1, <2>2
<1>4. toAgent' \in Seq(AskFrames)
  <2>1. Sent(InitialState(mac)) \in Seq(AskFrames)
    BY <1>1, InitialStateType, SentType DEF SharedTypes
  <2>2. QED
    BY <1>1, <1>2, <2>1 DEF SharedTypes
<1>5. SharedTypes' /\ AtWork'
  BY <1>1, <1>2, <1>3, <1>4
     DEF SharedTypes, AtWork, JobsFit, AwaitedOnce, agentVars, relayVars, phoneVars
<1>6. QED
  BY <1>2, <1>5, PhoneSideKept

LEMMA HostReadsGoneStep ==
  ASSUME PendingInv, HostReadsGone
  PROVE  PendingInv'
<1>1. SharedTypes /\ AtWork
  BY InvParts
<1>2. /\ toHost # <<>> /\ toHost' = Tail(toHost)
      /\ toAgent' = Sent(InitialState(mac)) \/ toAgent' = toAgent
      /\ mac' = [mac EXCEPT !.ipc = FALSE]
      /\ UNCHANGED <<agentVars, relayVars, phoneVars, toMac, toIos, used>>
  BY DEF HostReadsGone
<1>3. toHost' \in Seq(HostFrames) /\ mac' \in MacType
  <2>1. toHost' \in Seq(HostFrames)
    BY <1>1, <1>2 DEF SharedTypes
  <2>2. [mac EXCEPT !.ipc = FALSE] \in MacType
    BY <1>1, MacIpcType DEF SharedTypes
  <2>3. QED
    BY <1>2, <2>1, <2>2
<1>4. toAgent' \in Seq(AskFrames)
  <2>1. Sent(InitialState(mac)) \in Seq(AskFrames)
    BY <1>1, InitialStateType, SentType DEF SharedTypes
  <2>2. QED
    BY <1>1, <1>2, <2>1 DEF SharedTypes
<1>5. SharedTypes' /\ AtWork'
  BY <1>1, <1>2, <1>3, <1>4
     DEF SharedTypes, AtWork, JobsFit, AwaitedOnce, agentVars, relayVars, phoneVars
<1>6. QED
  BY <1>2, <1>5, PhoneSideKept

--------------------------------------------------------------------------------
(* The agent's steps.                                                      *)

(* Types of what the agent starts from, and of every frame it sends.       *)
LEMMA NoJobType == NoSnapshot \in Snapshots /\ NoJob \in Jobs
  BY DEF NoSnapshot, Snapshots, NoJob, Jobs

LEMMA ResetEpochType ==
  ASSUME NEW a \in AgentType, NEW e \in Nat
  PROVE  ResetEpoch(a, e) \in AgentType
  BY DEF ResetEpoch, AgentType

LEMMA FrameTypes ==
  /\ \A n \in Nat : Frame("macHello", n, None) \in IosFrames
  /\ \A n, m \in Nat : Frame("ready", n, m) \in IosFrames
  /\ \A n \in Nat : \A r \in Requests : Frame("ask", n, r) \in IosFrames
  /\ \A n, m \in Nat : Frame("hello", n, m) \in MacFrames
  /\ \A n \in Nat : Frame("confirm", n, None) \in MacFrames
  /\ \A n \in Nat : \A k \in {"client", "connected", "gone"} : Frame(k, n, None) \in HostFrames
  /\ \A n \in Nat : \A r \in Requests : Frame("answer", n, r) \in HostFrames
  BY DEF Frame, IosFrames, MacFrames, HostFrames, Plain, Nonced, About

(* A new epoch leaves the jobs of the goroutines as they are.              *)
LEMMA AgentConnectsStep ==
  ASSUME PendingInv, AgentConnects
  PROVE  PendingInv'
<1>1. SharedTypes /\ AtWork
  BY InvParts
<1> DEFINE e == used.epochs + 1
<1>2. /\ used' = [used EXCEPT !.epochs = @ + 1]
      /\ agent' = [ResetEpoch(agent, e) EXCEPT !.conn = TRUE]
      /\ toIos' = ToIos(Frame("macHello", 0, None))
      /\ UNCHANGED <<macVars, pc, job, relayVars, phoneVars, toMac>>
  BY DEF AgentConnects
<1>3. used' \in Used /\ used'.fetches = used.fetches /\ e \in Nat
  BY <1>1, <1>2, EpochUsed DEF SharedTypes
<1> HIDE DEF e
<1>4. agent' \in AgentType
  <2>1. ResetEpoch(agent, e) \in AgentType
    BY <1>1, <1>3, ResetEpochType DEF SharedTypes
  <2>2. QED
    BY <1>2, <2>1 DEF AgentType
<1>5. toIos' \in Seq(IosFrames)
  BY <1>1, <1>2, FrameTypes, ToIosType DEF SharedTypes
<1>6. SharedTypes' /\ AtWork'
  BY <1>1, <1>2, <1>3, <1>4, <1>5
     DEF SharedTypes, AtWork, JobsFit, AwaitedOnce, macVars, relayVars, phoneVars
<1>7. QED
  BY <1>2, <1>3, <1>6, PhoneSideKept

LEMMA AgentDropsStep ==
  ASSUME PendingInv, AgentDrops
  PROVE  PendingInv'
<1>1. SharedTypes /\ AtWork
  BY InvParts
<1> DEFINE e == used.epochs + 1
<1>2. /\ used.rare < MaxRare /\ used' = [used EXCEPT !.rare = @ + 1, !.epochs = @ + 1]
      /\ agent' = [ResetEpoch(agent, e) EXCEPT !.conn = FALSE]
      /\ toMac' = <<>>
      /\ UNCHANGED <<macVars, pc, job, relayVars, phoneVars, toIos>>
  BY DEF AgentDrops, Rare
<1>3. used' \in Used /\ used'.fetches = used.fetches /\ e \in Nat
  BY <1>1, <1>2, RareEpochUsed DEF SharedTypes
<1> HIDE DEF e
<1>4. agent' \in AgentType
  <2>1. ResetEpoch(agent, e) \in AgentType
    BY <1>1, <1>3, ResetEpochType DEF SharedTypes
  <2>2. QED
    BY <1>2, <2>1 DEF AgentType
<1>5. SharedTypes' /\ AtWork'
  BY <1>1, <1>2, <1>3, <1>4
     DEF SharedTypes, AtWork, JobsFit, AwaitedOnce, macVars, relayVars, phoneVars
<1>6. QED
  BY <1>2, <1>3, <1>5, PhoneSideKept

(* A process that ends leaves nothing of its jobs.                         *)
LEMMA AgentEndsStep ==
  ASSUME PendingInv, NEW helper \in {"starting", "gone"}, used.rare < MaxRare, AgentEnds(helper),
         toHost' \in Seq(HostFrames), mac' \in MacType
  PROVE  PendingInv'
<1>1. SharedTypes /\ AtWork
  BY InvParts
<1>2. /\ used' = [used EXCEPT !.rare = @ + 1]
      /\ agent' = [NewAgent EXCEPT !.helper = helper]
      /\ pc' = [g \in Goroutines |-> "idle"] /\ job' = [g \in Goroutines |-> NoJob]
      /\ posts' = {} /\ store' \in {store} \cup {p.snap : p \in posts}
      /\ toAgent' = <<>> /\ toMac' = <<>>
      /\ UNCHANGED <<phoneVars, toIos>>
  BY DEF AgentEnds
<1>3. used' \in Used /\ used'.fetches = used.fetches
  BY <1>1, <1>2, RareUsed DEF SharedTypes
<1>4. agent' \in AgentType
  BY <1>2 DEF NewAgent, AgentType
<1>5. store' \in Snapshots
  BY <1>1, <1>2 DEF SharedTypes, Posts
<1>6. /\ pc' \in [Goroutines -> {"idle", "copy", "stamp", "wait", "finish"}]
      /\ job' \in [Goroutines -> Jobs] /\ AtWork'
  BY <1>2, NoJobType DEF AtWork, JobsFit, AwaitedOnce
<1>7. toAgent' \in Seq(AskFrames) /\ toMac' \in Seq(MacFrames) /\ posts' \subseteq Posts
  BY <1>2
<1>8. SharedTypes'
  BY <1>1, <1>2, <1>3, <1>4, <1>5, <1>6, <1>7 DEF SharedTypes, phoneVars
<1>9. QED
  BY <1>2, <1>3, <1>6, <1>8, PhoneSideKept

LEMMA AgentExitsStep ==
  ASSUME PendingInv, AgentExits
  PROVE  PendingInv'
<1>1. SharedTypes
  BY InvParts
<1>2. toHost' \in Seq(HostFrames) /\ mac' \in MacType
  BY <1>1, FrameTypes DEF AgentExits, SharedTypes
<1>3. QED
  BY <1>2, AgentEndsStep DEF AgentExits, Rare

LEMMA AgentRestartsStep ==
  ASSUME PendingInv, AgentRestarts
  PROVE  PendingInv'
<1>1. SharedTypes
  BY InvParts
<1>2. toHost' \in Seq(HostFrames) /\ mac' \in MacType
  <2>1. [mac EXCEPT !.ipc = FALSE] \in MacType
    BY <1>1, MacIpcType DEF SharedTypes
  <2>2. mac' = [mac EXCEPT !.ipc = FALSE] /\ toHost' = <<>>
    BY DEF AgentRestarts
  <2>3. QED
    BY <2>1, <2>2
<1>3. QED
  BY <1>2, AgentEndsStep DEF AgentRestarts, Rare

LEMMA AgentStartsStep ==
  ASSUME PendingInv, AgentStarts
  PROVE  PendingInv'
<1>1. SharedTypes /\ AtWork
  BY InvParts
<1> DEFINE e == used.epochs + 1
<1>2. /\ used' = [used EXCEPT !.epochs = @ + 1]
      /\ agent' = [NewAgent EXCEPT !.epoch = e]
      /\ toHost' = Append(toHost, Frame("connected", 0, None))
      /\ UNCHANGED <<mac, toAgent, pc, job, relayVars, phoneVars, toMac, toIos>>
  BY DEF AgentStarts
<1>3. used' \in Used /\ used'.fetches = used.fetches /\ e \in Nat
  BY <1>1, <1>2, EpochUsed DEF SharedTypes
<1> HIDE DEF e
<1>4. agent' \in AgentType
  BY <1>2, <1>3 DEF NewAgent, AgentType
<1>5. toHost' \in Seq(HostFrames)
  BY <1>1, <1>2, FrameTypes DEF SharedTypes
<1>6. SharedTypes' /\ AtWork'
  BY <1>1, <1>2, <1>3, <1>4, <1>5
     DEF SharedTypes, AtWork, JobsFit, AwaitedOnce, relayVars, phoneVars
<1>7. QED
  BY <1>2, <1>3, <1>6, PhoneSideKept

(* A frame the agent reads, and what its argument is.                      *)
LEMMA AgentReadsFacts ==
  ASSUME SharedTypes, NEW kind, AgentReads(kind)
  PROVE  /\ toMac' \in Seq(MacFrames) /\ Head(toMac) \in MacFrames /\ Head(toMac).kind = kind
         /\ kind = "hello" => Head(toMac).arg \in Nat
         /\ kind = "answer" => Head(toMac).arg \in Requests
         /\ UNCHANGED <<mac, toAgent, relayVars, phoneVars>> /\ pc["relay"] = "idle"
<1>1. /\ pc["relay"] = "idle" /\ toMac # <<>> /\ toMac' = Tail(toMac) /\ Head(toMac).kind = kind
      /\ UNCHANGED <<mac, toAgent, relayVars, phoneVars>>
  BY DEF AgentReads, RelayIdle
<1>2. Head(toMac) \in MacFrames /\ toMac' \in Seq(MacFrames)
  BY <1>1 DEF SharedTypes
<1>3. PICK f \in MacFrames : f = Head(toMac)
  BY <1>2
<1>4. (f.kind = "hello" => f.arg \in Nat) /\ (f.kind = "answer" => f.arg \in Requests)
  BY DEF MacFrames, Plain, Nonced, About
<1>5. QED
  BY <1>1, <1>2, <1>3, <1>4

LEMMA AgentReadsHelloStep ==
  ASSUME PendingInv, AgentReadsHello
  PROVE  PendingInv'
<1>1. SharedTypes /\ AtWork
  BY InvParts
<1> DEFINE n == Head(toMac).arg
           retires == agent.session # 0 /\ agent.nonce # n
           e == used.epochs + 1
           i == used.sessions + 1
           a == IF retires THEN ResetEpoch(agent, e) ELSE agent
           s == IF a.session = 0 THEN i ELSE a.session
           u == IF retires THEN e ELSE used.epochs
           v == IF a.session = 0 THEN i ELSE used.sessions
<1>2. /\ AgentReads("hello")
      /\ agent' = [a EXCEPT !.session = s, !.nonce = n]
      /\ used' = [used EXCEPT !.epochs = u, !.sessions = v]
      /\ toIos' = ToIos(Frame("ready", s, n))
      /\ UNCHANGED <<pc, job, toHost>>
  BY DEF AgentReadsHello
<1>3. /\ toMac' \in Seq(MacFrames) /\ n \in Nat
      /\ UNCHANGED <<mac, toAgent, relayVars, phoneVars>>
  BY <1>1, <1>2, AgentReadsFacts
<1> HIDE DEF n
<1>4. e \in Nat /\ i \in Nat /\ used.epochs \in Nat /\ used.sessions \in Nat
  BY <1>1 DEF SharedTypes, Used
<1> HIDE DEF e, i
<1>5. a \in AgentType
  BY <1>1, <1>4, ResetEpochType DEF SharedTypes
<1> HIDE DEF a, retires
<1>6. s \in Nat /\ u \in Nat /\ v \in Nat
  BY <1>4, <1>5 DEF AgentType
<1> HIDE DEF s, u, v
<1>7. agent' \in AgentType
  BY <1>2, <1>3, <1>5, <1>6 DEF AgentType
<1>8. used' \in Used /\ used'.fetches = used.fetches
  BY <1>1, <1>2, <1>6 DEF SharedTypes, Used
<1>9. toIos' \in Seq(IosFrames)
  BY <1>1, <1>2, <1>3, <1>6, FrameTypes, ToIosType DEF SharedTypes
<1>10. SharedTypes' /\ AtWork'
  BY <1>1, <1>2, <1>3, <1>7, <1>8, <1>9
     DEF SharedTypes, AtWork, JobsFit, AwaitedOnce, relayVars, phoneVars
<1>11. QED
  BY <1>3, <1>8, <1>10, PhoneSideKept

LEMMA AgentReadsConfirmStep ==
  ASSUME PendingInv, AgentReadsConfirm
  PROVE  PendingInv'
<1>1. SharedTypes /\ AtWork
  BY InvParts
<1>2. /\ AgentReads("confirm")
      /\ \/ /\ agent' = [agent EXCEPT !.ready = TRUE]
            /\ toHost' = Append(toHost, Frame("client", 0, None))
         \/ UNCHANGED <<agent, toHost>>
      /\ UNCHANGED <<pc, job, toIos, used>>
  BY DEF AgentReadsConfirm
<1>3. toMac' \in Seq(MacFrames) /\ UNCHANGED <<mac, toAgent, relayVars, phoneVars>>
  BY <1>1, <1>2, AgentReadsFacts
<1>4. agent' \in AgentType
  BY <1>1, <1>2 DEF SharedTypes, AgentType
<1>5. toHost' \in Seq(HostFrames)
  <2>1. PICK f \in HostFrames : f = Frame("client", 0, None)
    BY FrameTypes
  <2>2. toHost \in Seq(HostFrames) /\ (toHost' = toHost \/ toHost' = Append(toHost, f))
    BY <1>1, <1>2, <2>1 DEF SharedTypes
  <2>3. QED
    BY <2>2
<1>6. SharedTypes' /\ AtWork'
  BY <1>1, <1>2, <1>3, <1>4, <1>5
     DEF SharedTypes, AtWork, JobsFit, AwaitedOnce, relayVars, phoneVars
<1>7. QED
  BY <1>2, <1>3, <1>6, PhoneSideKept

(* A goroutine starts a job of its kind.                                   *)
LEMMA StartsJob ==
  ASSUME SharedTypes, AtWork, NEW g \in Goroutines, pc[g] = "idle", posts' = posts,
         NEW r \in Requests,
         NEW w, w = IF g = "ipc" THEN "ask" ELSE "answer",
         job' = [job EXCEPT ![g] = [NoJob EXCEPT !.what = w, !.arg = r]],
         pc' = [pc EXCEPT ![g] = "copy"]
  PROVE  /\ job' \in [Goroutines -> Jobs] /\ AtWork'
         /\ pc' \in [Goroutines -> {"idle", "copy", "stamp", "wait", "finish"}]
<1> DEFINE j == [NoJob EXCEPT !.what = w, !.arg = r]
<1>1. j \in Jobs /\ j.what = w /\ j.arg = r
  BY NoJobType DEF Jobs
<1> HIDE DEF j
<1>2. job' = [job EXCEPT ![g] = j]
  BY DEF j
<1>3. job' \in [Goroutines -> Jobs] /\ job'[g] = j /\ \A h \in Goroutines \ {g} : job'[h] = job[h]
  BY <1>1, <1>2 DEF SharedTypes
<1>4. /\ pc' \in [Goroutines -> {"idle", "copy", "stamp", "wait", "finish"}]
      /\ \A h \in Goroutines \ {g} : pc'[h] = pc[h]
  BY DEF SharedTypes
<1>5. JobsFit'
  BY <1>1, <1>3, <1>4 DEF AtWork, JobsFit
<1>6. AwaitedOnce'
  BY <1>4 DEF AtWork, AwaitedOnce, SharedTypes, Posts
<1>7. QED
  BY <1>3, <1>4, <1>5, <1>6 DEF AtWork

LEMMA AgentReadsAnswerStep ==
  ASSUME PendingInv, AgentReadsAnswer
  PROVE  PendingInv'
<1>1. SharedTypes /\ AtWork
  BY InvParts
<1> DEFINE r == Head(toMac).arg
<1>2. /\ AgentReads("answer")
      /\ \/ /\ agent' = [agent EXCEPT !.pending = @ \ {r}]
            /\ job' = [job EXCEPT !["relay"] = [NoJob EXCEPT !.what = "answer", !.arg = r]]
            /\ pc' = [pc EXCEPT !["relay"] = "copy"]
         \/ UNCHANGED <<agent, pc, job>>
      /\ UNCHANGED <<toHost, toIos, used>>
  BY DEF AgentReadsAnswer
<1>3. /\ toMac' \in Seq(MacFrames) /\ r \in Requests
      /\ UNCHANGED <<mac, toAgent, relayVars, phoneVars>> /\ pc["relay"] = "idle"
  BY <1>1, <1>2, AgentReadsFacts
<1> HIDE DEF r
<1>4. agent' \in AgentType
  <2>1. agent \in AgentType /\ (agent' = agent \/ agent' = [agent EXCEPT !.pending = @ \ {r}])
    BY <1>1, <1>2 DEF SharedTypes
  <2>2. QED
    BY <2>1 DEF AgentType
<1>5. /\ job' \in [Goroutines -> Jobs] /\ AtWork'
      /\ pc' \in [Goroutines -> {"idle", "copy", "stamp", "wait", "finish"}]
  <2>1. CASE UNCHANGED <<agent, pc, job>>
    BY <1>1, <1>3, <2>1 DEF relayVars, SharedTypes, AtWork, JobsFit, AwaitedOnce
  <2>2. CASE /\ job' = [job EXCEPT !["relay"] = [NoJob EXCEPT !.what = "answer", !.arg = r]]
             /\ pc' = [pc EXCEPT !["relay"] = "copy"]
    <3>1. PICK g \in Goroutines : g = "relay"
      BY DEF Goroutines
    <3>2. PICK w : w = "answer"
      OBVIOUS
    <3>3. w = IF g = "ipc" THEN "ask" ELSE "answer"
      BY <3>1, <3>2
    <3>4. /\ job' = [job EXCEPT ![g] = [NoJob EXCEPT !.what = w, !.arg = r]]
          /\ pc' = [pc EXCEPT ![g] = "copy"] /\ pc[g] = "idle" /\ posts' = posts
      BY <1>3, <2>2, <3>1, <3>2 DEF relayVars
    <3>5. QED
      BY <1>1, <1>3, <3>3, <3>4, StartsJob
  <2>3. QED
    BY <1>2, <2>1, <2>2
<1>6. SharedTypes'
  BY <1>1, <1>2, <1>3, <1>4, <1>5 DEF SharedTypes, relayVars, phoneVars
<1>7. QED
  BY <1>2, <1>3, <1>5, <1>6, PhoneSideKept

LEMMA LargerType ==
  ASSUME NEW m \in Nat, NEW n \in Nat
  PROVE  Larger(m, n) \in Nat
  BY DEF Larger

LEMMA AgentReadsIPCStep ==
  ASSUME PendingInv, AgentReadsIPC
  PROVE  PendingInv'
<1>1. SharedTypes /\ AtWork
  BY InvParts
<1> DEFINE f == Head(toAgent)
           n == Larger(agent.spine, f.spine)
<1>2. /\ pc["ipc"] = "idle" /\ toAgent # <<>> /\ toAgent' = Tail(toAgent)
      /\ agent' = [agent EXCEPT !.pending = @ \cup {f.arg}, !.spine = n]
      /\ job' = [job EXCEPT !["ipc"] = [NoJob EXCEPT !.what = "ask", !.arg = f.arg]]
      /\ pc' = [pc EXCEPT !["ipc"] = "copy"]
      /\ UNCHANGED <<mac, toHost, relayVars, phoneVars, toMac, toIos, used>>
  BY DEF AgentReadsIPC
<1>3. f \in AskFrames /\ toAgent' \in Seq(AskFrames)
  BY <1>1, <1>2 DEF SharedTypes
<1> HIDE DEF f
<1>4. n \in Nat /\ f.arg \in Requests
  BY <1>1, <1>3, LargerType DEF SharedTypes, AskFrames, AgentType
<1> HIDE DEF n
<1>5. agent' \in AgentType
  BY <1>1, <1>2, <1>4 DEF SharedTypes, AgentType
<1>6. /\ job' \in [Goroutines -> Jobs] /\ AtWork'
      /\ pc' \in [Goroutines -> {"idle", "copy", "stamp", "wait", "finish"}]
  <2>1. PICK g \in Goroutines : g = "ipc"
    BY DEF Goroutines
  <2>2. PICK w, r : w = "ask" /\ r = f.arg
    OBVIOUS
  <2>3. w = IF g = "ipc" THEN "ask" ELSE "answer"
    BY <2>1, <2>2
  <2>4. /\ job' = [job EXCEPT ![g] = [NoJob EXCEPT !.what = w, !.arg = r]]
        /\ pc' = [pc EXCEPT ![g] = "copy"] /\ pc[g] = "idle" /\ posts' = posts
    BY <1>2, <2>1, <2>2 DEF relayVars
  <2>5. r \in Requests
    BY <1>4, <2>2
  <2>6. QED
    BY <1>1, <2>3, <2>4, <2>5, StartsJob
<1>7. SharedTypes'
  BY <1>1, <1>2, <1>3, <1>5, <1>6 DEF SharedTypes, relayVars, phoneVars
<1>8. QED
  BY <1>2, <1>6, <1>7, PhoneSideKept

(* A goroutine goes on with the job it has.                                *)
LEMMA KeepsJob ==
  ASSUME SharedTypes, AtWork, NEW g \in Goroutines, pc[g] # "idle",
         NEW s \in {"idle", "copy", "stamp", "wait", "finish"},
         NEW j \in Snapshots,
         job' = [job EXCEPT ![g] = [job[g] EXCEPT !.snap = j]],
         pc' = [pc EXCEPT ![g] = s]
  PROVE  /\ job' \in [Goroutines -> Jobs] /\ JobsFit'
         /\ pc' \in [Goroutines -> {"idle", "copy", "stamp", "wait", "finish"}]
<1>1. job \in [Goroutines -> Jobs] /\ job[g] \in Jobs
  BY DEF SharedTypes
<1>2. PICK k : k = [job[g] EXCEPT !.snap = j]
  OBVIOUS
<1>3. k \in Jobs /\ k.what = job[g].what /\ k.arg = job[g].arg
  BY <1>1, <1>2 DEF Jobs
<1>4. job' \in [Goroutines -> Jobs] /\ job'[g] = k /\ \A h \in Goroutines \ {g} : job'[h] = job[h]
  BY <1>1, <1>2, <1>3
<1>5. /\ pc' \in [Goroutines -> {"idle", "copy", "stamp", "wait", "finish"}]
      /\ \A h \in Goroutines \ {g} : pc'[h] = pc[h]
  BY DEF SharedTypes
<1>6. JobsFit'
  BY <1>3, <1>4, <1>5 DEF AtWork, JobsFit
<1>7. QED
  BY <1>4, <1>5, <1>6

LEMMA CopiesStep ==
  ASSUME PendingInv, NEW g \in Goroutines, Copies(g)
  PROVE  PendingInv'
<1>1. SharedTypes /\ AtWork
  BY InvParts
<1>2. /\ pc[g] = "copy" /\ job' = [job EXCEPT ![g].snap.approvals = agent.pending]
      /\ pc' = [pc EXCEPT ![g] = "stamp"]
      /\ UNCHANGED <<macVars, agent, relayVars, phoneVars, toMac, toIos, used>>
  BY DEF Copies
<1>3. PICK j : j = [job[g].snap EXCEPT !.approvals = agent.pending]
  OBVIOUS
<1>4. j \in Snapshots
  <2>1. job[g].snap \in Snapshots /\ agent.pending \subseteq Requests
    BY <1>1 DEF SharedTypes, Jobs, AgentType
  <2>2. QED
    BY <1>3, <2>1 DEF Snapshots
<1>5. job' = [job EXCEPT ![g] = [job[g] EXCEPT !.snap = j]]
  BY <1>1, <1>2, <1>3 DEF SharedTypes, Jobs
<1>6. PICK s \in {"idle", "copy", "stamp", "wait", "finish"} : s = "stamp"
  OBVIOUS
<1>7. pc' = [pc EXCEPT ![g] = s] /\ pc[g] # "idle"
  BY <1>2, <1>6
<1>8. /\ job' \in [Goroutines -> Jobs] /\ JobsFit'
      /\ pc' \in [Goroutines -> {"idle", "copy", "stamp", "wait", "finish"}]
  BY <1>1, <1>4, <1>5, <1>7, KeepsJob
<1>9. AtWork'
  <2>1. AwaitedOnce'
    BY <1>1, <1>2 DEF AtWork, AwaitedOnce, SharedTypes, Posts, relayVars
  <2>2. QED
    BY <1>8, <2>1 DEF AtWork
<1>10. SharedTypes'
  BY <1>1, <1>2, <1>8 DEF SharedTypes, macVars, relayVars, phoneVars
<1>11. QED
  BY <1>2, <1>9, <1>10, PhoneSideKept

LEMMA StampsAndPostsStep ==
  ASSUME PendingInv, NEW g \in Goroutines, StampsAndPosts(g)
  PROVE  PendingInv'
<1>1. SharedTypes /\ AtWork
  BY InvParts
<1> DEFINE n == agent.version + 1
           v == Larger(n, agent.spine)
           t == [job[g].snap EXCEPT !.epoch = agent.epoch, !.version = v]
           p == [owner |-> g, snap |-> t, awaited |-> TRUE]
<1>2. /\ pc[g] = "stamp" /\ agent' = [agent EXCEPT !.version = v]
      /\ job' = [job EXCEPT ![g].snap = NoSnapshot]
      /\ posts' = posts \cup {p}
      /\ pc' = [pc EXCEPT ![g] = "wait"]
      /\ UNCHANGED <<macVars, store, phoneVars, toMac, toIos, used>>
  BY DEF StampsAndPosts
<1>3. n \in Nat
  BY <1>1 DEF SharedTypes, AgentType
<1> HIDE DEF n
<1>4. v \in Nat /\ agent.epoch \in Nat
  BY <1>1, <1>3, LargerType DEF SharedTypes, AgentType
<1> HIDE DEF v
<1>5. t \in Snapshots
  <2>1. job[g].snap \in Snapshots
    BY <1>1 DEF SharedTypes, Jobs
  <2>2. QED
    BY <1>4, <2>1 DEF Snapshots
<1> HIDE DEF t
<1>6. p \in Posts /\ p.owner = g
  BY <1>5 DEF Posts
<1> HIDE DEF p
<1>7. posts' \subseteq Posts
  BY <1>1, <1>2, <1>6 DEF SharedTypes
<1>8. agent' \in AgentType
  BY <1>1, <1>2, <1>4 DEF SharedTypes, AgentType
<1>9. PICK j \in Snapshots : j = NoSnapshot
  BY NoJobType
<1>10. job' = [job EXCEPT ![g] = [job[g] EXCEPT !.snap = j]]
  BY <1>1, <1>2, <1>9 DEF SharedTypes, Jobs
<1>11. PICK s \in {"idle", "copy", "stamp", "wait", "finish"} : s = "wait"
  OBVIOUS
<1>12. pc' = [pc EXCEPT ![g] = s] /\ pc[g] # "idle"
  BY <1>2, <1>11
<1>13. /\ job' \in [Goroutines -> Jobs] /\ JobsFit'
       /\ pc' \in [Goroutines -> {"idle", "copy", "stamp", "wait", "finish"}]
  BY <1>1, <1>10, <1>12, KeepsJob
<1>14. AtWork'
  <2>1. AwaitedOnce'
    BY <1>1, <1>2, <1>6 DEF AtWork, AwaitedOnce, SharedTypes, Posts
  <2>2. QED
    BY <1>13, <2>1 DEF AtWork
<1>15. SharedTypes'
  BY <1>1, <1>2, <1>7, <1>8, <1>13 DEF SharedTypes, macVars, phoneVars
<1>16. QED
  BY <1>2, <1>14, <1>15, PhoneSideKept

(* The job a goroutine kept through its POST says what it forwards.        *)
LEMMA ForwardsStep ==
  ASSUME PendingInv, NEW g \in Goroutines, Forwards(g)
  PROVE  PendingInv'
<1>1. SharedTypes /\ AtWork
  BY InvParts
<1>2. /\ pc[g] = "finish" /\ pc' = [pc EXCEPT ![g] = "idle"]
      /\ job' = [job EXCEPT ![g] = NoJob]
      /\ \/ toIos' = toIos
         \/ g = "ipc" /\ toIos' = ToIos(Frame(job[g].what, agent.session, job[g].arg))
      /\ \/ toHost' = toHost
         \/ toHost' = Append(toHost, Frame("answer", 0, job[g].arg))
      /\ UNCHANGED <<mac, toAgent, agent, relayVars, phoneVars, toMac, used>>
  BY DEF Forwards
<1>3. /\ job[g].arg \in Requests /\ (g = "ipc" => job[g].what = "ask") /\ agent.session \in Nat
  BY <1>1, <1>2 DEF AtWork, JobsFit, SharedTypes, AgentType
<1>4. toIos' \in Seq(IosFrames)
  <2>1. PICK f \in IosFrames : f = Frame("ask", agent.session, job[g].arg)
    BY <1>3, FrameTypes
  <2>2. toIos' = toIos \/ toIos' = ToIos(f)
    BY <1>2, <1>3, <2>1
  <2>3. ToIos(f) \in Seq(IosFrames) /\ toIos \in Seq(IosFrames)
    BY <1>1, ToIosType DEF SharedTypes
  <2>4. QED
    BY <2>2, <2>3
<1>5. toHost' \in Seq(HostFrames)
  <2>1. PICK f \in HostFrames : f = Frame("answer", 0, job[g].arg)
    BY <1>3, FrameTypes
  <2>2. toHost \in Seq(HostFrames) /\ (toHost' = toHost \/ toHost' = Append(toHost, f))
    BY <1>1, <1>2, <2>1 DEF SharedTypes
  <2>3. QED
    BY <2>2
<1>6. /\ job' \in [Goroutines -> Jobs] /\ \A h \in Goroutines \ {g} : job'[h] = job[h]
      /\ pc' \in [Goroutines -> {"idle", "copy", "stamp", "wait", "finish"}]
      /\ pc'[g] = "idle" /\ \A h \in Goroutines \ {g} : pc'[h] = pc[h]
  BY <1>1, <1>2, NoJobType DEF SharedTypes
<1>7. AtWork'
  <2>1. JobsFit'
    BY <1>1, <1>6 DEF AtWork, JobsFit
  <2>2. AwaitedOnce'
    BY <1>1, <1>2, <1>6 DEF AtWork, AwaitedOnce, SharedTypes, Posts, relayVars
  <2>3. QED
    BY <2>1, <2>2 DEF AtWork
<1>8. SharedTypes'
  BY <1>1, <1>2, <1>4, <1>5, <1>6 DEF SharedTypes, relayVars, phoneVars
<1>9. QED
  BY <1>2, <1>7, <1>8, PhoneSideKept

--------------------------------------------------------------------------------
(* The relay's steps.                                                      *)

(* A POST that was waited for lets its goroutine go on.                    *)
LEMMA PostAnswered ==
  ASSUME SharedTypes, AtWork, NEW p \in posts, p.awaited, job' = job,
         pc' = [pc EXCEPT ![p.owner] = "finish"],
         \A q \in posts' : q.awaited => q \in posts \ {p}
  PROVE  /\ AtWork'
         /\ pc' \in [Goroutines -> {"idle", "copy", "stamp", "wait", "finish"}]
<1>1. p \in Posts /\ p.owner \in Goroutines /\ pc[p.owner] = "wait"
  BY DEF SharedTypes, Posts, AtWork, AwaitedOnce
<1>2. /\ pc' \in [Goroutines -> {"idle", "copy", "stamp", "wait", "finish"}]
      /\ \A h \in Goroutines : h # p.owner => pc'[h] = pc[h]
  BY <1>1 DEF SharedTypes
<1>3. JobsFit'
  BY <1>1, <1>2 DEF AtWork, JobsFit
<1>4. \A q \in posts' : q.awaited => q \in posts /\ q.owner # p.owner
  BY DEF AtWork, AwaitedOnce
<1>5. AwaitedOnce'
  BY <1>2, <1>4 DEF AtWork, AwaitedOnce, SharedTypes, Posts
<1>6. QED
  BY <1>2, <1>3, <1>5 DEF AtWork

LEMMA RelayStoresStep ==
  ASSUME PendingInv, NEW p \in posts, RelayStores(p)
  PROVE  PendingInv'
<1>1. SharedTypes /\ AtWork
  BY InvParts
<1>2. /\ posts' = posts \ {p} /\ store' = p.snap
      /\ pc' = IF p.awaited THEN [pc EXCEPT ![p.owner] = "finish"] ELSE pc
      /\ UNCHANGED <<macVars, agent, job, phoneVars, toMac, toIos, used>>
  BY DEF RelayStores
<1>3. store' \in Snapshots /\ posts' \subseteq Posts
  BY <1>1, <1>2 DEF SharedTypes, Posts
<1>4. AtWork' /\ pc' \in [Goroutines -> {"idle", "copy", "stamp", "wait", "finish"}]
  <2>1. CASE p.awaited
    BY <1>1, <1>2, <2>1, PostAnswered
  <2>2. CASE ~p.awaited
    BY <1>1, <1>2, <2>2 DEF SharedTypes, AtWork, JobsFit, AwaitedOnce
  <2>3. QED
    BY <2>1, <2>2
<1>5. SharedTypes'
  BY <1>1, <1>2, <1>3, <1>4 DEF SharedTypes, macVars, phoneVars
<1>6. QED
  BY <1>2, <1>4, <1>5, PhoneSideKept

LEMMA PostFailsStep ==
  ASSUME PendingInv, NEW p \in posts, PostFails(p)
  PROVE  PendingInv'
<1>1. SharedTypes /\ AtWork
  BY InvParts
<1> DEFINE late == [p EXCEPT !.awaited = FALSE]
<1>2. /\ p.awaited /\ used.rare < MaxRare /\ used' = [used EXCEPT !.rare = @ + 1]
      /\ posts' = posts \ {p} \/ posts' = (posts \ {p}) \cup {late}
      /\ pc' = [pc EXCEPT ![p.owner] = "finish"]
      /\ UNCHANGED <<macVars, agent, job, store, phoneVars, toMac, toIos>>
  BY DEF PostFails, Rare
<1>3. late \in Posts /\ ~late.awaited
  BY <1>1 DEF SharedTypes, Posts
<1> HIDE DEF late
<1>4. posts' \subseteq Posts /\ \A q \in posts' : q.awaited => q \in posts \ {p}
  BY <1>1, <1>2, <1>3 DEF SharedTypes
<1>5. AtWork' /\ pc' \in [Goroutines -> {"idle", "copy", "stamp", "wait", "finish"}]
  BY <1>1, <1>2, <1>4, PostAnswered
<1>6. used' \in Used /\ used'.fetches = used.fetches
  BY <1>1, <1>2, RareUsed DEF SharedTypes
<1>7. SharedTypes'
  BY <1>1, <1>2, <1>4, <1>5, <1>6 DEF SharedTypes, macVars, phoneVars
<1>8. QED
  BY <1>2, <1>5, <1>6, <1>7, PhoneSideKept

(* A fetch takes the snapshot of its moment and keeps its number.          *)
LEMMA RelayRepliesStep ==
  ASSUME PendingInv, NEW f \in fetches, RelayReplies(f)
  PROVE  PendingInv'
<1>1. /\ SharedTypes /\ AtWork /\ Sound(phone) /\ OnWire(phone, outbox) /\ DeferredAreUnknown
      /\ FetchesNumbered /\ HeardIsKept
  BY InvParts
<1>2. PICK g : g = [f EXCEPT !.got = TRUE, !.snap = store]
  OBVIOUS
<1>3. /\ fetches' = (fetches \ {f}) \cup {g}
      /\ UNCHANGED <<macVars, agentVars, relayVars, phone, outbox, toMac, toIos, used>>
  BY <1>2 DEF RelayReplies
<1>4. g \in Fetches /\ g.id = f.id /\ g.heard = f.heard
  BY <1>1, <1>2 DEF SharedTypes, Fetches
<1>5. SharedTypes' /\ AtWork'
  <2>1. fetches' \subseteq Fetches
    BY <1>1, <1>3, <1>4 DEF SharedTypes
  <2>2. QED
    BY <1>1, <1>3, <2>1
       DEF SharedTypes, AtWork, JobsFit, AwaitedOnce, macVars, agentVars, relayVars
<1>6. FetchesNumbered'
  BY <1>1, <1>3, <1>4 DEF FetchesNumbered
<1>7. HeardIsKept'
  BY <1>1, <1>3, <1>4 DEF HeardIsKept
<1>8. QED
  BY <1>1, <1>3, <1>5, <1>6, <1>7, InvPartsNext DEF DeferredAreUnknown

--------------------------------------------------------------------------------
(* The phone's steps.                                                      *)

(* What a step of the phone leaves of the agent's work.                    *)
LEMMA WorkKept ==
  ASSUME AtWork, UNCHANGED <<pc, job, posts>>
  PROVE  AtWork'
  BY DEF AtWork, JobsFit, AwaitedOnce

(* Without an open socket nothing is being sent.                           *)
LEMMA PhoneOpensStep ==
  ASSUME PendingInv, PhoneOpens
  PROVE  PendingInv'
<1>1. /\ SharedTypes /\ AtWork /\ Sound(phone) /\ OnWire(phone, outbox) /\ DeferredAreUnknown
      /\ FetchesNumbered /\ HeardIsKept
  BY InvParts
<1>2. PICK n : n = used.nonces + 1
  OBVIOUS
<1>3. PICK z : z = 0
  OBVIOUS
<1>4. /\ ~phone.open /\ used' = [used EXCEPT !.nonces = @ + 1]
      /\ phone' = [phone EXCEPT !.open = TRUE, !.nonce = n, !.fence = z]
      /\ outbox' = <<Frame("hello", 0, n)>>
      /\ UNCHANGED <<macVars, agentVars, relayVars, fetches, toMac, toIos>>
  BY <1>2, <1>3 DEF PhoneOpens
<1>5. used' \in Used /\ n \in Nat /\ used'.fetches = used.fetches
  BY <1>1, <1>2, <1>4, NonceUsed DEF SharedTypes
<1>6. z \in Nat
  BY <1>3
<1>7. /\ phone' \in PhoneType /\ phone'.open /\ phone'.fence = z
      /\ phone'.session = phone.session /\ phone'.cards = phone.cards
      /\ phone'.queued = phone.queued /\ phone'.sending = phone.sending
      /\ phone'.deferred = phone.deferred /\ phone'.order = phone.order
      /\ phone'.startedAt = phone.startedAt /\ phone'.since = phone.since
  BY <1>1, <1>4, <1>5, <1>6 DEF Sound, PhoneType
<1>8. Sound(phone')
  BY <1>1, <1>7 DEF Sound
<1>9. OnWire(phone', outbox')
  BY <1>1, <1>4, <1>7 DEF OnWire
<1>10. outbox' \in Seq(MacFrames)
  <2>1. PICK f \in MacFrames : f = Frame("hello", 0, n)
    BY <1>5, FrameTypes
  <2>2. outbox' = <<f>>
    BY <1>4, <2>1
  <2>3. QED
    BY <2>2
<1>11. SharedTypes' /\ AtWork'
  <2>1. AtWork'
    BY <1>1, <1>4, WorkKept DEF agentVars, relayVars
  <2>2. SharedTypes'
    BY <1>1, <1>4, <1>5, <1>10 DEF SharedTypes, macVars, agentVars, relayVars
  <2>3. QED
    BY <2>1, <2>2
<1>12. FetchesNumbered'
  <2>1. used.fetches \in Nat
    BY <1>1, PendingAssumption DEF SharedTypes, Used, PendingAssumption
  <2>2. QED
    BY <1>1, <1>3, <1>4, <1>5, <1>7, <2>1 DEF FetchesNumbered
<1>13. HeardIsKept'
  <2>1. \A f \in fetches : 0 < f.id /\ f.id \in Nat
    BY <1>1 DEF FetchesNumbered, SharedTypes, Fetches
  <2>2. \A f \in fetches : f.id # z
    BY <1>3, <2>1
  <2>3. QED
    BY <1>4, <1>7, <2>2 DEF HeardIsKept
<1>14. QED
  BY <1>1, <1>7, <1>8, <1>9, <1>11, <1>12, <1>13, InvPartsNext DEF DeferredAreUnknown

(* A step of the phone: its own half, and nothing of the agent's work.     *)
LEMMA PhoneSideMoves ==
  ASSUME PendingInv, UNCHANGED <<macVars, agentVars, relayVars>>,
         Sound(phone'), OnWire(phone', outbox'), phone'.deferred \cap phone'.cards = {},
         fetches' \subseteq Fetches, outbox' \in Seq(MacFrames), toMac' \in Seq(MacFrames),
         toIos' \in Seq(IosFrames), used' \in Used, FetchesNumbered', HeardIsKept'
  PROVE  PendingInv'
<1>1. SharedTypes /\ AtWork
  BY InvParts
<1>2. AtWork'
  BY <1>1, WorkKept DEF agentVars, relayVars
<1>3. SharedTypes'
  BY <1>1 DEF SharedTypes, macVars, agentVars, relayVars
<1>4. QED
  BY <1>2, <1>3, InvPartsNext

(* Once the fence is down, no fetch is current any more.                   *)
LEMMA FenceDown ==
  ASSUME SharedTypes, FetchesNumbered, fetches' \subseteq fetches, phone'.fence = 0,
         used'.fetches = used.fetches
  PROVE  FetchesNumbered' /\ HeardIsKept'
<1>1. used.fetches \in Nat
  BY PendingAssumption DEF SharedTypes, Used, PendingAssumption
<1>2. \A f \in fetches : 0 < f.id /\ f.id \in Nat
  BY DEF FetchesNumbered, SharedTypes, Fetches
<1>3. \A f \in fetches' : f.id # phone'.fence
  BY <1>2
<1>4. FetchesNumbered'
  BY <1>1 DEF FetchesNumbered
<1>5. QED
  BY <1>3, <1>4 DEF HeardIsKept

LEMMA PhoneClosesFacts ==
  ASSUME SharedTypes, PhoneCloses, used.rare < MaxRare
  PROVE  /\ toMac' \in Seq(MacFrames) /\ outbox' \in Seq(MacFrames) /\ toIos' \in Seq(IosFrames)
         /\ used' \in Used /\ used'.fetches = used.fetches
         /\ fetches' = fetches /\ UNCHANGED <<macVars, agentVars, relayVars>>
<1>1. PICK k \in 0..Len(outbox) : toMac' = ToMac(SubSeq(outbox, 1, k))
  BY DEF PhoneCloses
<1>2. /\ outbox' = <<>> /\ toIos' = <<>> /\ used' = [used EXCEPT !.rare = @ + 1]
      /\ UNCHANGED <<macVars, agentVars, relayVars, fetches>>
  BY DEF PhoneCloses
<1>3. PICK fs : fs = SubSeq(outbox, 1, k)
  OBVIOUS
<1>4. fs \in Seq(MacFrames)
  BY <1>3 DEF SharedTypes
<1>5. toMac' \in Seq(MacFrames)
  BY <1>1, <1>3, <1>4, ToMacType DEF SharedTypes
<1>6. used' \in Used /\ used'.fetches = used.fetches
  BY <1>2, RareUsed DEF SharedTypes
<1>7. QED
  BY <1>2, <1>5, <1>6

(* releaseInFlight: nothing is being sent without a socket.                *)
LEMMA PhoneDropsStep ==
  ASSUME PendingInv, PhoneDrops
  PROVE  PendingInv'
<1>1. /\ SharedTypes /\ Sound(phone) /\ DeferredAreUnknown /\ FetchesNumbered
  BY InvParts
<1>2. PICK z : z = 0
  OBVIOUS
<1>3. /\ PhoneCloses /\ used.rare < MaxRare
      /\ phone' = [phone EXCEPT !.sending = {}, !.open = FALSE, !.session = z, !.fence = z]
  BY <1>1, <1>2 DEF PhoneDrops, Rare, Disconnected, ReleaseInFlight, Sound, PhoneType
<1>4. z \in Nat
  BY <1>2
<1>5. /\ phone' \in PhoneType /\ phone'.session = z /\ phone'.cards = phone.cards
      /\ phone'.queued = phone.queued /\ phone'.sending = {} /\ phone'.fence = z
      /\ phone'.deferred = phone.deferred /\ phone'.order = phone.order
  BY <1>1, <1>3, <1>4 DEF Sound, PhoneType
<1>6. Sound(phone') /\ OnWire(phone', outbox') /\ phone'.deferred \cap phone'.cards = {}
  BY <1>1, <1>2, <1>5 DEF Sound, OnWire, DeferredAreUnknown
<1>7. /\ toMac' \in Seq(MacFrames) /\ outbox' \in Seq(MacFrames) /\ toIos' \in Seq(IosFrames)
      /\ used' \in Used /\ used'.fetches = used.fetches
      /\ fetches' = fetches /\ UNCHANGED <<macVars, agentVars, relayVars>>
  BY <1>1, <1>3, PhoneClosesFacts
<1>8. FetchesNumbered' /\ HeardIsKept'
  BY <1>1, <1>2, <1>5, <1>7, FenceDown
<1>9. fetches' \subseteq Fetches
  BY <1>1, <1>7 DEF SharedTypes
<1>10. QED
  BY <1>6, <1>7, <1>8, <1>9, PhoneSideMoves

(* A phone without anything.                                               *)
LEMMA NewPhoneSound ==
  /\ Sound(NewPhone) /\ NewPhone.sending = {} /\ NewPhone.fence = 0
  /\ NewPhone.deferred = {} /\ NewPhone.cards = {}
<1>1. Cardinality({}) = 0 /\ DeferredCapacity \in Nat
  BY FS_EmptySet, PendingAssumption DEF PendingAssumption
<1>2. Ordered({}, {})
  BY DEF Ordered
<1>3. /\ NewPhone \in PhoneType /\ NewPhone.sending = {} /\ NewPhone.fence = 0
      /\ NewPhone.deferred = {} /\ NewPhone.cards = {} /\ NewPhone.queued = {}
      /\ NewPhone.order = {} /\ NewPhone.session = 0
  BY DEF NewPhone, PhoneType
<1>4. Cardinality(NewPhone.deferred) <= DeferredCapacity
  BY <1>1, <1>3
<1>5. Sound(NewPhone)
  BY <1>2, <1>3, <1>4 DEF Sound
<1>6. QED
  BY <1>3, <1>5

LEMMA UserDiscardsStep ==
  ASSUME PendingInv, UserDiscards
  PROVE  PendingInv'
<1>1. SharedTypes /\ FetchesNumbered
  BY InvParts
<1>2. PhoneCloses /\ used.rare < MaxRare /\ phone' = NewPhone
  BY DEF UserDiscards, Rare
<1>3. /\ toMac' \in Seq(MacFrames) /\ outbox' \in Seq(MacFrames) /\ toIos' \in Seq(IosFrames)
      /\ used' \in Used /\ used'.fetches = used.fetches
      /\ fetches' = fetches /\ UNCHANGED <<macVars, agentVars, relayVars>>
  BY <1>1, <1>2, PhoneClosesFacts
<1>4. /\ Sound(phone') /\ OnWire(phone', outbox') /\ phone'.deferred \cap phone'.cards = {}
      /\ phone'.fence = 0
  BY <1>2, NewPhoneSound DEF OnWire
<1>5. FetchesNumbered' /\ HeardIsKept'
  BY <1>1, <1>3, <1>4, FenceDown
<1>6. fetches' \subseteq Fetches
  BY <1>1, <1>3 DEF SharedTypes
<1>7. QED
  BY <1>3, <1>4, <1>5, <1>6, PhoneSideMoves

(* The retry only happens with an empty socket, so nothing is being sent.  *)
LEMMA PhoneRetriesHelloStep ==
  ASSUME PendingInv, PhoneRetriesHello
  PROVE  PendingInv'
<1>1. /\ SharedTypes /\ Sound(phone) /\ OnWire(phone, outbox) /\ DeferredAreUnknown
      /\ FetchesNumbered /\ HeardIsKept
  BY InvParts
<1>2. /\ outbox = <<>> /\ outbox' = <<Frame("hello", 0, phone.nonce)>>
      /\ UNCHANGED <<macVars, agentVars, relayVars, phone, fetches, toMac, toIos, used>>
  BY DEF PhoneRetriesHello
<1>3. outbox' \in Seq(MacFrames)
  <2>1. phone.nonce \in Nat
    BY <1>1 DEF Sound, PhoneType
  <2>2. PICK f \in MacFrames : f = Frame("hello", 0, phone.nonce)
    BY <2>1, FrameTypes
  <2>3. outbox' = <<f>>
    BY <1>2, <2>2
  <2>4. QED
    BY <2>3
<1>4. OnWire(phone', outbox')
  <2>1. phone.sending = {}
    BY <1>1, <1>2 DEF OnWire
  <2>2. QED
    BY <1>2, <2>1 DEF OnWire
<1>5. FetchesNumbered' /\ HeardIsKept'
  BY <1>1, <1>2 DEF FetchesNumbered, HeardIsKept
<1>6. /\ Sound(phone') /\ phone'.deferred \cap phone'.cards = {} /\ fetches' \subseteq Fetches
      /\ toMac' \in Seq(MacFrames) /\ toIos' \in Seq(IosFrames) /\ used' \in Used
      /\ UNCHANGED <<macVars, agentVars, relayVars>>
  BY <1>1, <1>2 DEF DeferredAreUnknown, SharedTypes
<1>7. QED
  BY <1>3, <1>4, <1>5, <1>6, PhoneSideMoves

(* The frame written was the first; every other is still there.            *)
LEMMA WireTail ==
  ASSUME NEW p, NEW q, NEW s \in Seq(MacFrames), s # <<>>, OnWire(p, s), q.open = p.open,
         q.sending = IF Head(s).kind = "answer" THEN p.sending \ {Head(s).arg} ELSE p.sending
  PROVE  OnWire(q, Tail(s))
<1>1. /\ Len(s) \in Nat /\ Len(Tail(s)) = Len(s) - 1 /\ Head(s) = s[1]
      /\ \A j \in 1..(Len(s) - 1) : Tail(s)[j] = s[j + 1]
  OBVIOUS
<1>2. ASSUME NEW r \in q.sending
      PROVE  q.open /\ \E i \in 1..Len(Tail(s)) : Tail(s)[i].kind = "answer" /\ Tail(s)[i].arg = r
  <2>1. r \in p.sending /\ ~(s[1].kind = "answer" /\ s[1].arg = r)
    BY <1>1, <1>2
  <2>2. PICK i \in 1..Len(s) : s[i].kind = "answer" /\ s[i].arg = r
    BY <2>1 DEF OnWire
  <2>3. PICK j : j = i - 1
    OBVIOUS
  <2>4. i # 1
    BY <2>1, <2>2
  <2>5. j \in 1..(Len(s) - 1) /\ j + 1 = i
    BY <1>1, <2>3, <2>4
  <2>6. j \in 1..Len(Tail(s)) /\ Tail(s)[j] = s[i]
    BY <1>1, <2>5
  <2>7. QED
    BY <2>1, <2>2, <2>6 DEF OnWire
<1>3. QED
  BY <1>2 DEF OnWire

(* A frame is noted with every fetch under way; the fetches stay.          *)
LEMMA FetchesMapped ==
  ASSUME FetchesNumbered, NEW m \in [fetches -> Fetches],
         \A f \in fetches : m[f].id = f.id,
         fetches' = {m[f] : f \in fetches}, phone'.fence = phone.fence,
         used'.fetches = used.fetches
  PROVE  FetchesNumbered' /\ fetches' \subseteq Fetches
<1>1. \A g \in fetches' : \E f \in fetches : g = m[f] /\ g.id = f.id
  OBVIOUS
<1>2. \A g \in fetches' : 0 < g.id /\ g.id <= used'.fetches
  BY <1>1 DEF FetchesNumbered
<1>3. \A g, h \in fetches' : g.id = h.id => g = h
  BY <1>1 DEF FetchesNumbered
<1>4. phone'.fence <= used'.fetches
  BY DEF FetchesNumbered
<1>5. QED
  BY <1>2, <1>3, <1>4 DEF FetchesNumbered

(* A written answer is no longer being sent nor heard of; the rest waits on. *)
LEMMA TransportWritesStep ==
  ASSUME PendingInv, TransportWrites
  PROVE  PendingInv'
<1>1. /\ SharedTypes /\ Sound(phone) /\ OnWire(phone, outbox) /\ DeferredAreUnknown
      /\ FetchesNumbered /\ HeardIsKept
  BY InvParts
<1>2. PICK h : h = Head(outbox)
  OBVIOUS
<1>3. PICK r : r = h.arg
  OBVIOUS
<1>4. /\ outbox # <<>> /\ toMac' = ToMac(<<h>>) /\ outbox' = Tail(outbox)
      /\ IF h.kind = "answer"
           THEN phone' = Completed(phone, r) /\ fetches' = {[f EXCEPT !.heard = @ \ {r}] : f \in fetches}
           ELSE UNCHANGED <<phone, fetches>>
      /\ UNCHANGED <<macVars, agentVars, relayVars, toIos, used>>
  BY <1>2, <1>3 DEF TransportWrites
<1>5. outbox \in Seq(MacFrames) /\ h \in MacFrames /\ outbox' \in Seq(MacFrames)
  BY <1>1, <1>2, <1>4 DEF SharedTypes
<1>6. toMac' \in Seq(MacFrames)
  <2>1. PICK fs : fs = <<h>>
    OBVIOUS
  <2>2. fs \in Seq(MacFrames)
    BY <1>5, <2>1
  <2>3. QED
    BY <1>1, <1>4, <2>1, <2>2, ToMacType DEF SharedTypes
<1>7. toIos' \in Seq(IosFrames) /\ used' \in Used /\ UNCHANGED <<macVars, agentVars, relayVars>>
  BY <1>1, <1>4 DEF SharedTypes
<1>8. CASE h.kind = "answer"
  <2>1. phone' = Completed(phone, r)
    BY <1>4, <1>8
  <2>2. /\ Sound(phone') /\ phone'.sending = phone.sending \ {r} /\ phone'.open = phone.open
        /\ phone'.deferred = phone.deferred /\ phone'.cards \subseteq phone.cards
        /\ phone'.fence = phone.fence /\ phone'.startedAt = phone.startedAt
        /\ phone.since \ {r} \subseteq phone'.since
    BY <1>1, <2>1, CompletedFacts
  <2>3. OnWire(phone', outbox')
    BY <1>1, <1>2, <1>3, <1>4, <1>5, <1>8, <2>2, WireTail
  <2>4. PICK m : m = [f \in fetches |-> [f EXCEPT !.heard = @ \ {r}]]
    OBVIOUS
  <2>5. /\ m \in [fetches -> Fetches]
        /\ \A f \in fetches : m[f].id = f.id /\ m[f].heard = f.heard \ {r}
    BY <1>1, <2>4 DEF SharedTypes, Fetches
  <2>6. fetches' = {m[f] : f \in fetches}
    BY <1>4, <1>8, <2>4
  <2>7. FetchesNumbered' /\ fetches' \subseteq Fetches
    BY <1>1, <1>4, <2>2, <2>5, <2>6, FetchesMapped
  <2>8. HeardIsKept'
    <3>1. ASSUME NEW g \in fetches', g.id = phone'.fence
          PROVE  phone'.startedAt /\ g.heard \subseteq phone'.since
      <4>1. PICK f \in fetches : g = m[f]
        BY <2>6
      <4>2. phone.startedAt /\ f.heard \subseteq phone.since
        BY <1>1, <2>2, <2>5, <3>1, <4>1 DEF HeardIsKept
      <4>3. QED
        BY <2>2, <2>5, <4>1, <4>2
    <3>2. QED
      BY <3>1 DEF HeardIsKept
  <2>9. phone'.deferred \cap phone'.cards = {}
    BY <1>1, <2>2 DEF DeferredAreUnknown
  <2>10. QED
    BY <1>5, <1>6, <1>7, <2>2, <2>3, <2>7, <2>8, <2>9, PhoneSideMoves
<1>9. CASE h.kind # "answer"
  <2>1. phone' = phone /\ fetches' = fetches /\ used' = used
    BY <1>4, <1>9
  <2>2. OnWire(phone', outbox')
    BY <1>1, <1>2, <1>4, <1>5, <1>9, <2>1, WireTail
  <2>3. FetchesNumbered' /\ HeardIsKept'
    BY <1>1, <2>1 DEF FetchesNumbered, HeardIsKept
  <2>4. Sound(phone') /\ phone'.deferred \cap phone'.cards = {} /\ fetches' \subseteq Fetches
    BY <1>1, <2>1 DEF DeferredAreUnknown, SharedTypes
  <2>5. QED
    BY <1>5, <1>6, <1>7, <2>2, <2>3, <2>4, PhoneSideMoves
<1>10. QED
  BY <1>8, <1>9

(* beginSnapshotFetch only touches the reconciler and the fence.           *)
LEMMA FetchingFacts ==
  ASSUME NEW p, Sound(p), used \in Used
  PROVE  /\ Sound(Fetching(p)) /\ Fetching(p).sending = p.sending
         /\ Fetching(p).open = p.open /\ Fetching(p).cards = p.cards
         /\ Fetching(p).deferred = p.deferred /\ Fetching(p).session = p.session
         /\ Fetching(p).resolved = p.resolved
         /\ MayFetch => /\ Fetching(p).fence = used.fetches + 1
                        /\ Fetching(p).startedAt = TRUE /\ Fetching(p).since = {}
         /\ ~MayFetch => Fetching(p) = p
<1>1. CASE ~MayFetch
  BY <1>1 DEF Fetching
<1>2. CASE MayFetch
  <2>1. PICK n : n = used.fetches + 1
    OBVIOUS
  <2>2. n \in Nat
    BY <2>1, PendingAssumption DEF Used, PendingAssumption
  <2>3. PICK q : q = [p EXCEPT !.fence = n, !.startedAt = TRUE, !.since = {}]
    OBVIOUS
  <2>4. Fetching(p) = q
    BY <1>2, <2>1, <2>3 DEF Fetching, BeginsFetch
  <2>5. /\ q \in PhoneType /\ q.sending = p.sending /\ q.open = p.open /\ q.cards = p.cards
        /\ q.deferred = p.deferred /\ q.session = p.session /\ q.queued = p.queued
        /\ q.order = p.order /\ q.fence = n /\ q.startedAt = TRUE /\ q.since = {}
        /\ q.resolved = p.resolved
    BY <2>2, <2>3 DEF Sound, PhoneType
  <2>6. Sound(q)
    BY <2>5 DEF Sound
  <2>7. QED
    BY <1>2, <2>1, <2>4, <2>5, <2>6
<1>3. QED
  BY <1>1, <1>2

(* A new fetch has a number of its own, and nothing was heard during it.   *)
LEMMA StartsFetchFacts ==
  ASSUME SharedTypes, FetchesNumbered, HeardIsKept, NEW k \in {0, 1}, StartsFetch(k),
         k = 1 => used.rare < MaxRare,
         NEW p, Sound(p), p.fence = phone.fence, p.startedAt = phone.startedAt,
         p.since = phone.since, phone'.fence = Fetching(p).fence,
         phone'.startedAt = Fetching(p).startedAt, phone'.since = Fetching(p).since
  PROVE  /\ FetchesNumbered' /\ HeardIsKept' /\ used' \in Used /\ fetches' \subseteq Fetches
         /\ \A f \in fetches : f \in fetches'
<1> DEFINE n == used.fetches + 1
           c == used.rare + k
<1>1. used \in Used /\ used.fetches \in Nat /\ n \in Nat /\ (MayFetch => n \in 0..MaxFetches)
  BY PendingAssumption DEF SharedTypes, Used, PendingAssumption, MayFetch
<1>2. c \in 0..MaxRare
  BY PendingAssumption DEF SharedTypes, Used, PendingAssumption
<1>3. used' = [used EXCEPT !.fetches = IF MayFetch THEN n ELSE @, !.rare = c]
  BY DEF StartsFetch
<1>4. fetches' = IF MayFetch THEN fetches \cup {Fetch(n)} ELSE fetches
  BY DEF StartsFetch
<1>5. /\ MayFetch => /\ Fetching(p).fence = n
                     /\ Fetching(p).startedAt = TRUE /\ Fetching(p).since = {}
      /\ ~MayFetch => Fetching(p) = p
  BY <1>1, FetchingFacts
<1>7. 0 < n /\ used.fetches < n
  BY <1>1
<1> HIDE DEF c
<1>8. CASE MayFetch
  <2> HIDE DEF n
  <2>1. used' = [used EXCEPT !.fetches = n, !.rare = c] /\ n \in 0..MaxFetches
    BY <1>1, <1>3, <1>8
  <2>2. used' \in Used /\ used'.fetches = n
    BY <1>1, <1>2, <2>1 DEF Used
  <2>3. PICK g : g = Fetch(n)
    OBVIOUS
  <2>4. g \in Fetches /\ g.id = n /\ g.heard = {}
    BY <1>1, <2>3, NoJobType DEF Fetch, Fetches
  <2>5. fetches' = fetches \cup {g}
    BY <1>4, <1>8, <2>3
  <2>6. fetches' \subseteq Fetches
    BY <2>4, <2>5 DEF SharedTypes
  <2>7. phone'.fence = n /\ phone'.startedAt = TRUE /\ phone'.since = {}
    BY <1>5, <1>8
  <2>8. \A f \in fetches : f.id \in Nat /\ 0 < f.id /\ f.id <= used.fetches
    BY DEF FetchesNumbered, SharedTypes, Fetches
  <2>9. \A f \in fetches : f.id # n /\ f.id <= n
    BY <1>1, <1>7, <2>8
  <2>10. FetchesNumbered'
    <3>1. \A f \in fetches' : 0 < f.id /\ f.id <= n
      BY <1>1, <1>7, <2>4, <2>5, <2>8, <2>9
    <3>2. \A f, h \in fetches' : f.id = h.id => f = h
      BY <2>4, <2>5, <2>9 DEF FetchesNumbered
    <3>3. n <= n
      BY <1>1
    <3>4. QED
      BY <2>2, <2>7, <3>1, <3>2, <3>3 DEF FetchesNumbered
  <2>11. HeardIsKept'
    BY <2>4, <2>5, <2>7, <2>9 DEF HeardIsKept
  <2>12. QED
    BY <2>2, <2>5, <2>6, <2>10, <2>11
<1>9. CASE ~MayFetch
  <2>1. fetches' = fetches /\ used' = [used EXCEPT !.rare = c]
    BY <1>1, <1>3, <1>4, <1>9 DEF Used
  <2>2. used' \in Used /\ used'.fetches = used.fetches
    BY <1>1, <1>2, <2>1 DEF Used
  <2>3. /\ phone'.fence = phone.fence /\ phone'.startedAt = phone.startedAt
        /\ phone'.since = phone.since
    BY <1>5, <1>9
  <2>4. FetchesNumbered' /\ HeardIsKept'
    BY <2>1, <2>2, <2>3 DEF FetchesNumbered, HeardIsKept
  <2>5. QED
    BY <2>1, <2>2, <2>4 DEF SharedTypes
<1>10. QED
  BY <1>8, <1>9

LEMMA PhoneFetchesStep ==
  ASSUME PendingInv, PhoneFetches
  PROVE  PendingInv'
<1>1. /\ SharedTypes /\ Sound(phone) /\ OnWire(phone, outbox) /\ DeferredAreUnknown
      /\ FetchesNumbered /\ HeardIsKept
  BY InvParts
<1>2. PICK k \in {0, 1} : k = 1
  OBVIOUS
<1>3. /\ used.rare < MaxRare /\ StartsFetch(k) /\ phone' = Fetching(phone)
      /\ UNCHANGED <<macVars, agentVars, relayVars, outbox, toMac, toIos>>
  BY <1>2 DEF PhoneFetches, Rare
<1>4. FetchesNumbered' /\ HeardIsKept' /\ used' \in Used /\ fetches' \subseteq Fetches
  BY <1>1, <1>3, StartsFetchFacts
<1>5. /\ Sound(phone') /\ phone'.sending = phone.sending /\ phone'.open = phone.open
      /\ phone'.cards = phone.cards /\ phone'.deferred = phone.deferred
  BY <1>1, <1>3, FetchingFacts DEF SharedTypes
<1>6. OnWire(phone', outbox') /\ phone'.deferred \cap phone'.cards = {}
  BY <1>1, <1>3, <1>5 DEF OnWire, DeferredAreUnknown
<1>7. outbox' \in Seq(MacFrames) /\ toMac' \in Seq(MacFrames) /\ toIos' \in Seq(IosFrames)
  BY <1>1, <1>3 DEF SharedTypes
<1>8. QED
  BY <1>3, <1>4, <1>5, <1>6, <1>7, PhoneSideMoves

(* Taking the fence down changes nothing else.                             *)
LEMMA FenceTakenDown ==
  ASSUME NEW p, Sound(p)
  PROVE  LET q == [p EXCEPT !.fence = 0]
         IN  /\ Sound(q) /\ q.fence = 0 /\ q.sending = p.sending /\ q.open = p.open
             /\ q.cards = p.cards /\ q.deferred = p.deferred
<1>1. PICK z : z = 0
  OBVIOUS
<1>2. PICK q : q = [p EXCEPT !.fence = z]
  OBVIOUS
<1>3. z \in Nat
  BY <1>1
<1>4. /\ q \in PhoneType /\ q.fence = z /\ q.sending = p.sending /\ q.open = p.open
      /\ q.cards = p.cards /\ q.deferred = p.deferred /\ q.session = p.session
      /\ q.queued = p.queued /\ q.order = p.order
  BY <1>2, <1>3 DEF Sound, PhoneType
<1>5. Sound(q)
  BY <1>4 DEF Sound
<1>6. QED
  BY <1>1, <1>2, <1>4, <1>5

(* A reply that is not used leaves the cards alone.                        *)
LEMMA PhoneIgnoresReplyStep ==
  ASSUME PendingInv, NEW f \in fetches, PhoneIgnoresReply(f)
  PROVE  PendingInv' /\ phone'.cards = phone.cards
<1>1. /\ SharedTypes /\ Sound(phone) /\ OnWire(phone, outbox) /\ DeferredAreUnknown
      /\ FetchesNumbered /\ HeardIsKept
  BY InvParts
<1>2. /\ fetches' = fetches \ {f}
      /\ phone' = IF f.id = phone.fence THEN [phone EXCEPT !.fence = 0] ELSE phone
      /\ UNCHANGED <<macVars, agentVars, relayVars, outbox, toMac, toIos, used>>
  BY DEF PhoneIgnoresReply, TakesReply
<1>3. /\ Sound(phone') /\ phone'.sending = phone.sending /\ phone'.open = phone.open
      /\ phone'.cards = phone.cards /\ phone'.deferred = phone.deferred
  BY <1>1, <1>2, FenceTakenDown
<1>4. FetchesNumbered' /\ HeardIsKept'
  <2>1. CASE f.id = phone.fence
    <3>1. phone'.fence = 0
      BY <1>1, <1>2, <2>1, FenceTakenDown
    <3>2. QED
      BY <1>1, <1>2, <3>1, FenceDown
  <2>2. CASE f.id # phone.fence
    BY <1>1, <1>2, <2>2 DEF FetchesNumbered, HeardIsKept
  <2>3. QED
    BY <2>1, <2>2
<1>5. OnWire(phone', outbox') /\ phone'.deferred \cap phone'.cards = {}
  BY <1>1, <1>2, <1>3 DEF OnWire, DeferredAreUnknown
<1>6. /\ outbox' \in Seq(MacFrames) /\ toMac' \in Seq(MacFrames) /\ toIos' \in Seq(IosFrames)
      /\ used' \in Used /\ fetches' \subseteq Fetches
  BY <1>1, <1>2 DEF SharedTypes
<1>7. QED
  BY <1>2, <1>3, <1>4, <1>5, <1>6, PhoneSideMoves

LEMMA EmptyIsSeq == \E first \in Seq(MacFrames) : first = <<>>
<1>1. <<>> \in Seq(MacFrames)
  OBVIOUS
<1>2. QED
  BY <1>1, Zenon

(* A snapshot that is used: deferred answers meet their requests, and the  *)
(* cards heard of since the fetch began stay.                              *)
LEMMA PhoneAppliesReplyStep ==
  ASSUME PendingInv, NEW f \in fetches, PhoneAppliesReply(f)
  PROVE  /\ PendingInv'
         /\ phone.cards \cap phone.since \subseteq phone'.cards
         /\ (phone'.cards \ phone.cards) \cap phone.resolved = {}
<1>1. /\ SharedTypes /\ Sound(phone) /\ OnWire(phone, outbox) /\ DeferredAreUnknown
      /\ FetchesNumbered /\ HeardIsKept
  BY InvParts
<1>2. PICK s : s = f.snap
  OBVIOUS
<1>3. PICK p : p = IF s.epoch = None THEN phone
                     ELSE [phone EXCEPT !.epoch = s.epoch, !.version = s.version]
  OBVIOUS
<1>4. PICK a : a = ApplySnapshotApprovals(p, s)
  OBVIOUS
<1>5. PICK q : q = Drained(a)
  OBVIOUS
<1>6. PICK e : e = [q EXCEPT !.fence = 0]
  OBVIOUS
<1>7. PICK first \in Seq(MacFrames) : first = <<>>
  BY EmptyIsSeq
<1>8. /\ fetches' = fetches \ {f} /\ PhoneBecomes(e, first)
      /\ UNCHANGED <<macVars, agentVars, relayVars, toMac, toIos, used>>
  BY <1>2, <1>3, <1>4, <1>5, <1>6, <1>7 DEF PhoneAppliesReply, TakesReply
<1>9. s \in Snapshots
  BY <1>1, <1>2 DEF SharedTypes, Fetches
<1>10. Sound(p) /\ SameElse(p, phone) /\ p.sending = phone.sending
  <2>1. /\ s.epoch \in Nat \cup {None} /\ s.version \in Nat
    BY <1>9 DEF Snapshots
  <2>2. /\ p \in PhoneType /\ SameElse(p, phone) /\ p.sending = phone.sending
        /\ p.deferred = phone.deferred /\ p.order = phone.order /\ p.queued = phone.queued
    BY <1>1, <1>3, <2>1 DEF Sound, PhoneType, SameElse
  <2>3. Sound(p)
    BY <1>1, <2>2 DEF Sound, SameElse
  <2>4. QED
    BY <2>2, <2>3
<1>11. /\ Sound(a) /\ a.sending = p.sending /\ a.open = p.open
       /\ p.cards \cap p.since \subseteq a.cards
       /\ (a.cards \ p.cards) \cap p.resolved = {}
  BY <1>4, <1>9, <1>10, AppliedSnapshotFacts
<1>12. Sound(q) /\ SameElse(q, a) /\ q.deferred \cap q.cards = {} /\ q.sending = a.sending
  BY <1>5, <1>11, DrainedFacts
<1>13. /\ Sound(e) /\ e.fence = 0 /\ e.sending = q.sending /\ e.open = q.open
       /\ e.cards = q.cards /\ e.deferred = q.deferred
  BY <1>6, <1>12, FenceTakenDown
<1>14. OnWire(e, outbox) /\ outbox \in Seq(MacFrames)
  <2>1. e.sending = phone.sending /\ e.open = phone.open
    BY <1>10, <1>11, <1>12, <1>13 DEF SameElse
  <2>2. QED
    BY <1>1, <2>1 DEF OnWire, SharedTypes
<1>15. /\ Sound(phone') /\ SameElse(phone', e) /\ phone'.deferred = e.deferred
       /\ outbox' \in Seq(MacFrames) /\ OnWire(phone', outbox')
  BY <1>8, <1>13, <1>14, PhoneBecomesFacts
<1>16. /\ phone'.cards = a.cards /\ phone'.fence = 0 /\ phone'.deferred \cap phone'.cards = {}
       /\ p.cards = phone.cards /\ p.since = phone.since /\ p.resolved = phone.resolved
  BY <1>10, <1>12, <1>13, <1>15 DEF SameElse
<1>17. FetchesNumbered' /\ HeardIsKept'
  BY <1>1, <1>8, <1>16, FenceDown
<1>18. /\ toMac' \in Seq(MacFrames) /\ toIos' \in Seq(IosFrames)
       /\ used' \in Used /\ fetches' \subseteq Fetches
  BY <1>1, <1>8 DEF SharedTypes
<1>19. PendingInv'
  BY <1>8, <1>15, <1>16, <1>17, <1>18, PhoneSideMoves
<1>20. QED
  BY <1>11, <1>16, <1>19

LEMMA ResolutionExpiresStep ==
  ASSUME PendingInv, NEW r \in Requests, ResolutionExpires(r)
  PROVE  PendingInv'
<1>1. /\ SharedTypes /\ Sound(phone) /\ OnWire(phone, outbox) /\ DeferredAreUnknown
      /\ FetchesNumbered /\ HeardIsKept
  BY InvParts
<1>2. /\ used.rare < MaxRare /\ used' = [used EXCEPT !.rare = @ + 1]
      /\ phone' = [phone EXCEPT !.resolved = @ \ {r}]
      /\ UNCHANGED <<macVars, agentVars, relayVars, fetches, outbox, toMac, toIos>>
  BY DEF ResolutionExpires, Rare
<1>3. used' \in Used /\ used'.fetches = used.fetches
  BY <1>1, <1>2, RareUsed DEF SharedTypes
<1>4. /\ phone' \in PhoneType /\ phone'.sending = phone.sending /\ phone'.open = phone.open
      /\ phone'.cards = phone.cards /\ phone'.deferred = phone.deferred
      /\ phone'.order = phone.order /\ phone'.queued = phone.queued
      /\ phone'.session = phone.session /\ phone'.fence = phone.fence
      /\ phone'.startedAt = phone.startedAt /\ phone'.since = phone.since
  BY <1>1, <1>2 DEF Sound, PhoneType
<1>5. Sound(phone') /\ OnWire(phone', outbox') /\ phone'.deferred \cap phone'.cards = {}
  BY <1>1, <1>2, <1>4 DEF Sound, OnWire, DeferredAreUnknown
<1>6. FetchesNumbered' /\ HeardIsKept'
  BY <1>1, <1>2, <1>3, <1>4 DEF FetchesNumbered, HeardIsKept
<1>7. /\ outbox' \in Seq(MacFrames) /\ toMac' \in Seq(MacFrames) /\ toIos' \in Seq(IosFrames)
      /\ fetches' \subseteq Fetches
  BY <1>1, <1>2 DEF SharedTypes
<1>8. QED
  BY <1>2, <1>3, <1>5, <1>6, <1>7, PhoneSideMoves

(* A frame the phone reads, and what its argument is.                      *)
LEMMA PhoneReadsFacts ==
  ASSUME SharedTypes, NEW kind, PhoneReads(kind)
  PROVE  /\ phone.open /\ toMac' \in Seq(MacFrames) /\ toIos' \in Seq(IosFrames)
         /\ Head(toIos).session \in Nat
         /\ kind = "ask" => Head(toIos).arg \in Requests
         /\ UNCHANGED <<macVars, agentVars, relayVars>>
<1>1. /\ phone.open /\ toIos # <<>> /\ toIos' = Tail(toIos) /\ Head(toIos).kind = kind
      /\ UNCHANGED <<macVars, agentVars, relayVars, toMac>>
  BY DEF PhoneReads
<1>2. Head(toIos) \in IosFrames /\ toIos' \in Seq(IosFrames) /\ toMac' \in Seq(MacFrames)
  BY <1>1 DEF SharedTypes
<1>3. PICK f \in IosFrames : f = Head(toIos)
  BY <1>2
<1>4. f.session \in Nat /\ (f.kind = "ask" => f.arg \in Requests)
  BY DEF IosFrames, Plain, Nonced, About
<1>5. QED
  BY <1>1, <1>2, <1>3, <1>4

(* A frame the phone drops leaves it as it was.                            *)
LEMMA PhoneSideStays ==
  ASSUME PendingInv, UNCHANGED <<macVars, agentVars, relayVars, phone, outbox, fetches, used>>,
         toMac' \in Seq(MacFrames), toIos' \in Seq(IosFrames)
  PROVE  PendingInv'
<1>1. /\ SharedTypes /\ Sound(phone) /\ OnWire(phone, outbox) /\ DeferredAreUnknown
      /\ FetchesNumbered /\ HeardIsKept
  BY InvParts
<1>2. FetchesNumbered' /\ HeardIsKept'
  BY <1>1 DEF FetchesNumbered, HeardIsKept
<1>3. /\ Sound(phone') /\ OnWire(phone', outbox') /\ phone'.deferred \cap phone'.cards = {}
      /\ fetches' \subseteq Fetches /\ outbox' \in Seq(MacFrames) /\ used' \in Used
  BY <1>1 DEF DeferredAreUnknown, SharedTypes
<1>4. QED
  BY <1>2, <1>3, PhoneSideMoves

(* Re-keyed in place, the socket still sends what it has.                  *)
LEMMA PhoneReadsMacHelloStep ==
  ASSUME PendingInv, PhoneReadsMacHello
  PROVE  PendingInv'
<1>1. /\ SharedTypes /\ Sound(phone) /\ OnWire(phone, outbox) /\ DeferredAreUnknown
      /\ FetchesNumbered /\ HeardIsKept
  BY InvParts
<1>2. PICK n, z : n = used.nonces + 1 /\ z = 0
  OBVIOUS
<1>3. PICK kind : kind = "macHello"
  OBVIOUS
<1>4. /\ PhoneReads(kind) /\ fetches' = fetches
      /\ IF phone.session # 0
           THEN /\ used' = [used EXCEPT !.nonces = @ + 1]
                /\ phone' = [phone EXCEPT !.session = z, !.nonce = n]
                /\ outbox' = Append(outbox, Frame("hello", 0, n))
           ELSE UNCHANGED <<used, phone, outbox>>
  BY <1>2, <1>3 DEF PhoneReadsMacHello
<1>5. /\ toMac' \in Seq(MacFrames) /\ toIos' \in Seq(IosFrames)
      /\ UNCHANGED <<macVars, agentVars, relayVars>>
  BY <1>1, <1>4, PhoneReadsFacts
<1>6. CASE phone.session = 0
  BY <1>4, <1>5, <1>6, PhoneSideStays
<1>7. CASE phone.session # 0
  <2>1. used' \in Used /\ n \in Nat /\ used'.fetches = used.fetches /\ z \in Nat
    BY <1>1, <1>2, <1>4, <1>7, NonceUsed DEF SharedTypes
  <2>2. phone' = [phone EXCEPT !.session = z, !.nonce = n]
    BY <1>4, <1>7
  <2>3. /\ phone' \in PhoneType /\ phone'.sending = phone.sending /\ phone'.open = phone.open
        /\ phone'.cards = phone.cards /\ phone'.deferred = phone.deferred
        /\ phone'.order = phone.order /\ phone'.queued = phone.queued
        /\ phone'.session = z /\ phone'.fence = phone.fence
        /\ phone'.startedAt = phone.startedAt /\ phone'.since = phone.since
    BY <1>1, <2>1, <2>2 DEF Sound, PhoneType
  <2>4. Sound(phone') /\ phone'.deferred \cap phone'.cards = {}
    BY <1>1, <1>2, <2>3 DEF Sound, DeferredAreUnknown
  <2>5. outbox' \in Seq(MacFrames) /\ OnWire(phone', outbox')
    <3>1. PICK f \in MacFrames : f = Frame("hello", 0, n)
      BY <2>1, FrameTypes
    <3>2. PICK t : t = <<f>>
      OBVIOUS
    <3>3. outbox \in Seq(MacFrames) /\ t \in Seq(MacFrames) /\ outbox' = outbox \o t
      <4>1. outbox' = Append(outbox, f) /\ outbox \in Seq(MacFrames)
        BY <1>1, <1>4, <1>7, <3>1 DEF SharedTypes
      <4>2. t \in Seq(MacFrames)
        BY <3>1, <3>2
      <4>3. Append(outbox, f) = outbox \o <<f>>
        BY <3>1, <4>1
      <4>4. QED
        BY <3>2, <4>1, <4>2, <4>3
    <3>4. OnWire(phone, outbox \o t) /\ outbox \o t \in Seq(MacFrames)
      BY <1>1, <3>3, WireKept
    <3>5. QED
      BY <2>3, <3>3, <3>4 DEF OnWire
  <2>6. FetchesNumbered' /\ HeardIsKept'
    BY <1>1, <1>4, <2>1, <2>3 DEF FetchesNumbered, HeardIsKept
  <2>7. fetches' \subseteq Fetches
    BY <1>1, <1>4 DEF SharedTypes
  <2>8. QED
    BY <1>5, <2>1, <2>4, <2>5, <2>6, <2>7, PhoneSideMoves
<1>8. QED
  BY <1>6, <1>7

(* A session on the open socket, the answers owed and a new fetch.         *)
LEMMA PhoneReadsReadyStep ==
  ASSUME PendingInv, PhoneReadsReady
  PROVE  PendingInv'
<1>1. /\ SharedTypes /\ Sound(phone) /\ OnWire(phone, outbox) /\ DeferredAreUnknown
      /\ FetchesNumbered /\ HeardIsKept
  BY InvParts
<1>2. PICK kind : kind = "ready"
  OBVIOUS
<1>3. PICK s : s = Head(toIos).session
  OBVIOUS
<1>4. PICK p : p = [phone EXCEPT !.session = s]
  OBVIOUS
<1>5. PICK first : first = IF phone.session = 0 THEN <<Frame("confirm", s, None)>> ELSE <<>>
  OBVIOUS
<1>6. PICK k \in {0, 1} : k = 0
  OBVIOUS
<1>7. PICK e : e = Fetching(p)
  OBVIOUS
<1>8. /\ PhoneReads(kind)
      /\ \/ PhoneBecomes(e, first) /\ StartsFetch(k)
         \/ UNCHANGED <<phone, outbox, fetches, used>>
  BY <1>2, <1>3, <1>4, <1>5, <1>6, <1>7 DEF PhoneReadsReady
<1>9. /\ phone.open /\ toMac' \in Seq(MacFrames) /\ toIos' \in Seq(IosFrames) /\ s \in Nat
      /\ UNCHANGED <<macVars, agentVars, relayVars>>
  BY <1>1, <1>3, <1>8, PhoneReadsFacts
<1>10. CASE UNCHANGED <<phone, outbox, fetches, used>>
  BY <1>9, <1>10, PhoneSideStays
<1>11. CASE PhoneBecomes(e, first) /\ StartsFetch(k)
  <2>1. first \in Seq(MacFrames)
    <3>1. PICK f \in MacFrames : f = Frame("confirm", s, None)
      BY <1>9, FrameTypes
    <3>2. first = <<f>> \/ first = <<>>
      BY <1>5, <3>1
    <3>3. <<f>> \in Seq(MacFrames) /\ <<>> \in Seq(MacFrames)
      BY <3>1
    <3>4. QED
      BY <3>2, <3>3
  <2>2. /\ p \in PhoneType /\ p.sending = phone.sending /\ p.open = phone.open
        /\ p.cards = phone.cards /\ p.deferred = phone.deferred
        /\ p.order = phone.order /\ p.queued = phone.queued
        /\ p.fence = phone.fence /\ p.startedAt = phone.startedAt /\ p.since = phone.since
    BY <1>1, <1>4, <1>9 DEF Sound, PhoneType
  <2>3. Sound(p)
    BY <1>1, <1>9, <2>2 DEF Sound
  <2>4. /\ Sound(e) /\ e.sending = p.sending /\ e.open = p.open
        /\ e.cards = p.cards /\ e.deferred = p.deferred
    BY <1>1, <1>7, <2>3, FetchingFacts DEF SharedTypes
  <2>5. OnWire(e, outbox) /\ outbox \in Seq(MacFrames)
    BY <1>1, <2>2, <2>4 DEF OnWire, SharedTypes
  <2>6. /\ Sound(phone') /\ SameElse(phone', e) /\ phone'.deferred = e.deferred
        /\ outbox' \in Seq(MacFrames) /\ OnWire(phone', outbox')
    BY <1>11, <2>1, <2>4, <2>5, PhoneBecomesFacts
  <2>7. /\ phone'.fence = e.fence /\ phone'.startedAt = e.startedAt /\ phone'.since = e.since
        /\ phone'.deferred \cap phone'.cards = {}
    BY <1>1, <2>2, <2>4, <2>6 DEF SameElse, DeferredAreUnknown
  <2>8. FetchesNumbered' /\ HeardIsKept' /\ used' \in Used /\ fetches' \subseteq Fetches
    BY <1>1, <1>6, <1>7, <1>11, <2>2, <2>3, <2>7, StartsFetchFacts
  <2>9. QED
    BY <1>9, <2>6, <2>7, <2>8, PhoneSideMoves
<1>12. QED
  BY <1>8, <1>10, <1>11

(* An APPROVAL_REQUEST meets its deferred answer; every fetch under way    *)
(* has heard of it, and so has the reconciler.                             *)
LEMMA PhoneReadsApprovalStep ==
  ASSUME PendingInv, PhoneReadsApproval
  PROVE  PendingInv'
<1>1. /\ SharedTypes /\ Sound(phone) /\ OnWire(phone, outbox) /\ DeferredAreUnknown
      /\ FetchesNumbered /\ HeardIsKept
  BY InvParts
<1>2. PICK kind : kind = "ask"
  OBVIOUS
<1>3. PICK r : r = Head(toIos).arg
  OBVIOUS
<1>4. PICK u : u = Upserted(phone, r)
  OBVIOUS
<1>5. PICK d : d = Drained(u)
  OBVIOUS
<1>6. PICK first \in Seq(MacFrames) : first = <<>>
  BY EmptyIsSeq
<1>7. /\ PhoneReads(kind) /\ used' = used
      /\ \/ PhoneBecomes(d, first) /\ fetches' = {[f EXCEPT !.heard = @ \cup {r}] : f \in fetches}
         \/ UNCHANGED <<phone, outbox, fetches>>
  BY <1>2, <1>3, <1>4, <1>5, <1>6 DEF PhoneReadsApproval
<1>8. /\ toMac' \in Seq(MacFrames) /\ toIos' \in Seq(IosFrames) /\ r \in Requests
      /\ UNCHANGED <<macVars, agentVars, relayVars>>
  BY <1>1, <1>2, <1>3, <1>7, PhoneReadsFacts
<1>9. CASE UNCHANGED <<phone, outbox, fetches>>
  BY <1>7, <1>8, <1>9, PhoneSideStays
<1>10. CASE PhoneBecomes(d, first) /\ fetches' = {[f EXCEPT !.heard = @ \cup {r}] : f \in fetches}
  <2>1. /\ Sound(u) /\ u.sending = phone.sending /\ u.open = phone.open /\ u.fence = phone.fence
        /\ u.startedAt = phone.startedAt
        /\ u.since = IF phone.startedAt THEN phone.since \cup {r} ELSE phone.since
    BY <1>1, <1>4, <1>8, UpsertedFacts
  <2>2. Sound(d) /\ SameElse(d, u) /\ d.deferred \cap d.cards = {} /\ d.sending = u.sending
    BY <1>5, <2>1, DrainedFacts
  <2>3. OnWire(d, outbox) /\ outbox \in Seq(MacFrames)
    BY <1>1, <2>1, <2>2 DEF OnWire, SharedTypes, SameElse
  <2>4. /\ Sound(phone') /\ SameElse(phone', d) /\ phone'.deferred = d.deferred
        /\ outbox' \in Seq(MacFrames) /\ OnWire(phone', outbox')
    BY <1>10, <2>2, <2>3, PhoneBecomesFacts
  <2>5. /\ phone'.fence = phone.fence /\ phone'.startedAt = phone.startedAt
        /\ phone'.since = IF phone.startedAt THEN phone.since \cup {r} ELSE phone.since
        /\ phone'.deferred \cap phone'.cards = {}
    BY <2>1, <2>2, <2>4 DEF SameElse
  <2>6. PICK m : m = [f \in fetches |-> [f EXCEPT !.heard = @ \cup {r}]]
    OBVIOUS
  <2>7. /\ m \in [fetches -> Fetches]
        /\ \A f \in fetches : m[f].id = f.id /\ m[f].heard = f.heard \cup {r}
    BY <1>1, <1>8, <2>6 DEF SharedTypes, Fetches
  <2>8. fetches' = {m[f] : f \in fetches}
    BY <1>10, <2>6
  <2>9. FetchesNumbered' /\ fetches' \subseteq Fetches
    BY <1>1, <1>7, <2>5, <2>7, <2>8, FetchesMapped
  <2>10. HeardIsKept'
    <3>1. ASSUME NEW g \in fetches', g.id = phone'.fence
          PROVE  phone'.startedAt /\ g.heard \subseteq phone'.since
      <4>1. PICK f \in fetches : g = m[f]
        BY <2>8
      <4>2. phone.startedAt /\ f.heard \subseteq phone.since
        BY <1>1, <2>5, <2>7, <3>1, <4>1 DEF HeardIsKept
      <4>3. QED
        BY <2>5, <2>7, <4>1, <4>2
    <3>2. QED
      BY <3>1 DEF HeardIsKept
  <2>11. used' \in Used
    BY <1>1, <1>7 DEF SharedTypes
  <2>12. QED
    BY <1>8, <2>4, <2>5, <2>9, <2>10, <2>11, PhoneSideMoves
<1>11. QED
  BY <1>7, <1>9, <1>10

LEMMA UserAnswersStep ==
  ASSUME PendingInv, NEW r \in Requests, UserAnswers(r)
  PROVE  PendingInv'
<1>1. /\ SharedTypes /\ Sound(phone) /\ OnWire(phone, outbox) /\ DeferredAreUnknown
      /\ FetchesNumbered /\ HeardIsKept
  BY InvParts
<1>2. PICK p : p = [phone EXCEPT !.queued = @ \cup {r}]
  OBVIOUS
<1>3. PICK first \in Seq(MacFrames) : first = <<>>
  BY EmptyIsSeq
<1>4. /\ r \in phone.cards /\ PhoneBecomes(p, first)
      /\ UNCHANGED <<macVars, agentVars, relayVars, fetches, toMac, toIos, used>>
  BY <1>2, <1>3 DEF UserAnswers
<1>5. /\ p \in PhoneType /\ SameElse(p, phone) /\ p.sending = phone.sending
      /\ p.deferred = phone.deferred /\ p.order = phone.order
      /\ p.queued = phone.queued \cup {r}
  BY <1>1, <1>2 DEF Sound, PhoneType, SameElse
<1>6. Sound(p)
  BY <1>1, <1>4, <1>5 DEF Sound, SameElse
<1>7. OnWire(p, outbox) /\ outbox \in Seq(MacFrames)
  BY <1>1, <1>5 DEF OnWire, SharedTypes, SameElse
<1>8. /\ Sound(phone') /\ SameElse(phone', p) /\ phone'.deferred = p.deferred
      /\ outbox' \in Seq(MacFrames) /\ OnWire(phone', outbox')
  BY <1>4, <1>6, <1>7, PhoneBecomesFacts
<1>9. /\ phone'.fence = phone.fence /\ phone'.startedAt = phone.startedAt
      /\ phone'.since = phone.since /\ phone'.deferred \cap phone'.cards = {}
  BY <1>1, <1>5, <1>8 DEF SameElse, DeferredAreUnknown
<1>10. FetchesNumbered' /\ HeardIsKept'
  BY <1>1, <1>4, <1>9 DEF FetchesNumbered, HeardIsKept
<1>11. /\ toMac' \in Seq(MacFrames) /\ toIos' \in Seq(IosFrames)
       /\ used' \in Used /\ fetches' \subseteq Fetches
  BY <1>1, <1>4 DEF SharedTypes
<1>12. QED
  BY <1>4, <1>8, <1>9, <1>10, <1>11, PhoneSideMoves

(* An answer ahead of its request goes to the ledger, and a fetch looks for it. *)
LEMMA UserAnswersAheadStep ==
  ASSUME PendingInv, NEW r \in Requests, UserAnswersAhead(r)
  PROVE  PendingInv'
<1>1. /\ SharedTypes /\ Sound(phone) /\ OnWire(phone, outbox) /\ DeferredAreUnknown
      /\ FetchesNumbered /\ HeardIsKept
  BY InvParts
<1>2. PICK p : p = Recorded(phone, r)
  OBVIOUS
<1>3. PICK k \in {0, 1} : k = 0
  OBVIOUS
<1>4. /\ r \notin phone.cards /\ r \notin phone.deferred
      /\ \/ phone' = Fetching(p) /\ StartsFetch(k)
         \/ phone' = p /\ UNCHANGED <<fetches, used>>
      /\ UNCHANGED <<macVars, agentVars, relayVars, outbox, toMac, toIos>>
  BY <1>2, <1>3 DEF UserAnswersAhead
<1>5. /\ Sound(p) /\ SameElse(p, phone) /\ p.deferred \subseteq phone.deferred \cup {r}
      /\ p.sending = phone.sending
  BY <1>1, <1>2, <1>4, RecordedFacts
<1>6. /\ Sound(phone') /\ phone'.sending = p.sending /\ phone'.open = p.open
      /\ phone'.cards = p.cards /\ phone'.deferred = p.deferred
  <2>1. phone' = p \/ phone' = Fetching(p)
    BY <1>4
  <2>2. /\ Sound(Fetching(p)) /\ Fetching(p).sending = p.sending /\ Fetching(p).open = p.open
        /\ Fetching(p).cards = p.cards /\ Fetching(p).deferred = p.deferred
    BY <1>1, <1>5, FetchingFacts DEF SharedTypes
  <2>3. QED
    BY <1>5, <2>1, <2>2
<1>7. OnWire(phone', outbox') /\ phone'.deferred \cap phone'.cards = {}
  BY <1>1, <1>4, <1>5, <1>6 DEF OnWire, DeferredAreUnknown, SameElse
<1>8. FetchesNumbered' /\ HeardIsKept' /\ used' \in Used /\ fetches' \subseteq Fetches
  <2>1. CASE phone' = Fetching(p) /\ StartsFetch(k)
    BY <1>1, <1>3, <1>5, <2>1, StartsFetchFacts DEF SameElse
  <2>2. CASE phone' = p /\ UNCHANGED <<fetches, used>>
    BY <1>1, <1>5, <2>2 DEF FetchesNumbered, HeardIsKept, SharedTypes, SameElse
  <2>3. QED
    BY <1>4, <2>1, <2>2
<1>9. outbox' \in Seq(MacFrames) /\ toMac' \in Seq(MacFrames) /\ toIos' \in Seq(IosFrames)
  BY <1>1, <1>4 DEF SharedTypes
<1>10. QED
  BY <1>4, <1>6, <1>7, <1>8, <1>9, PhoneSideMoves

--------------------------------------------------------------------------------
(* The invariant holds.                                                    *)

(* Nothing is pending anywhere at the start.                               *)
LEMMA InitInv ==
  ASSUME Init
  PROVE  PendingInv
<1>1. /\ mac = [asked |-> Settled, waiting |-> {}, shared |-> Settled, host |-> {}, ipc |-> TRUE]
      /\ toAgent = <<>>
      /\ toHost = <<>> /\ agent = NewAgent /\ pc = [g \in Goroutines |-> "idle"]
      /\ job = [g \in Goroutines |-> NoJob] /\ posts = {} /\ store = NoSnapshot
      /\ phone = NewPhone /\ fetches = {} /\ outbox = <<>> /\ toMac = <<>> /\ toIos = <<>>
      /\ used = [epochs |-> 0, sessions |-> 0, nonces |-> 0, fetches |-> 0, rare |-> 0]
  BY DEF Init
<1>2. mac \in MacType
  BY <1>1, PendingAssumption DEF MacType, PendingAssumption
<1>3. agent \in AgentType
  BY <1>1 DEF NewAgent, AgentType
<1>4. pc \in [Goroutines -> {"idle", "copy", "stamp", "wait", "finish"}]
  BY <1>1
<1>5. job \in [Goroutines -> Jobs] /\ store \in Snapshots
  BY <1>1, NoJobType
<1>6. used \in Used /\ used.fetches = 0
  <2>1. 0 \in 0..MaxFetches /\ 0 \in 0..MaxRare
    BY PendingAssumption DEF PendingAssumption
  <2>2. QED
    BY <1>1, <2>1 DEF Used
<1>7. /\ toAgent \in Seq(AskFrames) /\ toHost \in Seq(HostFrames) /\ outbox \in Seq(MacFrames)
      /\ toMac \in Seq(MacFrames) /\ toIos \in Seq(IosFrames)
  BY <1>1
<1>8. SharedTypes
  BY <1>1, <1>2, <1>3, <1>4, <1>5, <1>6, <1>7 DEF SharedTypes
<1>9. AtWork
  BY <1>1 DEF AtWork, JobsFit, AwaitedOnce
<1>10. Sound(phone) /\ OnWire(phone, outbox) /\ DeferredAreUnknown
  BY <1>1, NewPhoneSound DEF OnWire, DeferredAreUnknown
<1>11. FetchesNumbered /\ HeardIsKept
  BY <1>1, <1>6, NewPhoneSound DEF FetchesNumbered, HeardIsKept
<1>12. QED
  BY <1>8, <1>9, <1>10, <1>11, InvParts

LEMMA StutterInv ==
  ASSUME PendingInv, UNCHANGED vars
  PROVE  PendingInv'
<1>1. SharedTypes /\ AtWork
  BY InvParts
<1>2. AtWork'
  BY <1>1, WorkKept DEF vars
<1>3. UNCHANGED phoneVars /\ used'.fetches = used.fetches
  BY DEF vars, phoneVars
<1>4. SharedTypes'
  BY <1>1 DEF SharedTypes, vars
<1>5. QED
  BY <1>2, <1>3, <1>4, PhoneSideKept

(* Every step of the app, the agent, the relay and the phone.              *)
LEMMA NextInv ==
  ASSUME PendingInv, [Next]_vars
  PROVE  PendingInv'
<1>1. CASE MacStep
  BY <1>1, MacAsksStep, MacAnswersStep, HostReadsAnswerStep, HostReadsClientStateStep,
     HostReadsConnectedStep, HostReadsGoneStep DEF MacStep
<1>2. CASE AgentStep
  BY <1>2, AgentConnectsStep, AgentDropsStep, AgentExitsStep, AgentRestartsStep,
     AgentStartsStep, AgentReadsHelloStep,
     AgentReadsConfirmStep, AgentReadsAnswerStep, AgentReadsIPCStep, CopiesStep,
     StampsAndPostsStep, ForwardsStep DEF AgentStep
<1>3. CASE RelayStep
  BY <1>3, RelayStoresStep, PostFailsStep, RelayRepliesStep DEF RelayStep
<1>4. CASE PhoneStep
  BY <1>4, PhoneOpensStep, PhoneDropsStep, UserDiscardsStep, PhoneRetriesHelloStep,
     TransportWritesStep, PhoneReadsMacHelloStep, PhoneReadsReadyStep, PhoneReadsApprovalStep,
     PhoneFetchesStep, PhoneIgnoresReplyStep, PhoneAppliesReplyStep, UserAnswersStep,
     UserAnswersAheadStep, ResolutionExpiresStep DEF PhoneStep
<1>5. CASE UNCHANGED vars
  BY <1>5, StutterInv
<1>6. QED
  BY <1>1, <1>2, <1>3, <1>4, <1>5 DEF Next

(* The phone, the agent's two goroutines and the relay keep the inductive  *)
(* invariant, for any finite set of requests and any bounds.               *)
THEOREM PendingInvariant == Spec => []PendingInv
<1>1. Init => PendingInv
  BY InitInv
<1>2. PendingInv /\ [Next]_vars => PendingInv'
  BY NextInv
<1>3. QED
  BY <1>1, <1>2, PTL DEF Spec

(* Every variable keeps its type, and DeferredDecisionLedger, which evicts *)
(* its oldest answer, stays within its capacity.                           *)
THEOREM PendingTypes == Spec => []TypeOK
<1>1. PendingInv => TypeOK
  BY DEF PendingInv
<1>2. QED
  BY <1>1, PendingInvariant, PTL

(* A queued answer's card stays until the answer is sent, so takeSendable  *)
(* never finds an answer whose request is gone.                            *)
THEOREM QueuedKeepsCard == Spec => []QueuedAnswerKeepsCard
<1>1. PendingInv => QueuedAnswerKeepsCard
  BY DEF PendingInv
<1>2. QED
  BY <1>1, PendingInvariant, PTL

(* A card that says sending has its answer queued and a frame in the open  *)
(* socket, through re-keys, drops and discards.                            *)
THEOREM SendingOnTheWire == Spec => []SendingIsOnTheWire
<1>1. PendingInv => SendingIsOnTheWire
  BY DEF PendingInv
<1>2. QED
  BY <1>1, PendingInvariant, PTL

(* An answer given ahead leaves the ledger with the frame or the snapshot  *)
(* that lists its request.                                                 *)
THEOREM DeferredStayUnknown == Spec => []DeferredAreUnknown
<1>1. PendingInv => DeferredAreUnknown
  BY DEF PendingInv
<1>2. QED
  BY <1>1, PendingInvariant, PTL

--------------------------------------------------------------------------------
(* What a snapshot may do to the cards.                                    *)

(* A fetch that starts leaves the others; a frame or a reply on its way    *)
(* keeps their numbers.                                                    *)
LEMMA FetchesStay ==
  ASSUME PendingInv, NEW f \in fetches,
         \/ fetches' = fetches
         \/ \E k \in {0, 1} : StartsFetch(k)
         \/ \E g \in fetches : RelayReplies(g)
         \/ TransportWrites
         \/ PhoneReadsApproval
  PROVE  ~Replied(f)
<1>1. fetches \subseteq Fetches
  BY InvParts DEF SharedTypes
<1>2. CASE fetches' = fetches
  BY <1>2 DEF Replied
<1>3. CASE \E k \in {0, 1} : StartsFetch(k)
  BY <1>3 DEF Replied, StartsFetch
<1>4. ASSUME NEW g \in fetches, RelayReplies(g)
      PROVE  ~Replied(f)
  <2>1. PICK h : h = [g EXCEPT !.got = TRUE, !.snap = store]
    OBVIOUS
  <2>2. fetches' = (fetches \ {g}) \cup {h}
    BY <1>4, <2>1 DEF RelayReplies
  <2>3. h.id = g.id
    BY <1>1, <2>1 DEF Fetches
  <2>4. QED
    BY <2>2, <2>3 DEF Replied
<1>5. ASSUME NEW r, fetches' = {[g EXCEPT !.heard = @ \ {r}] : g \in fetches}
      PROVE  ~Replied(f)
  <2>1. [f EXCEPT !.heard = @ \ {r}].id = f.id
    BY <1>1 DEF Fetches
  <2>2. QED
    BY <1>5, <2>1 DEF Replied
<1>6. ASSUME NEW r, fetches' = {[g EXCEPT !.heard = @ \cup {r}] : g \in fetches}
      PROVE  ~Replied(f)
  <2>1. [f EXCEPT !.heard = @ \cup {r}].id = f.id
    BY <1>1 DEF Fetches
  <2>2. QED
    BY <1>6, <2>1 DEF Replied
<1>7. CASE TransportWrites
  <2>1. \/ fetches' = {[g EXCEPT !.heard = @ \ {Head(outbox).arg}] : g \in fetches}
        \/ fetches' = fetches
    BY <1>7 DEF TransportWrites
  <2>2. QED
    BY <1>2, <1>5, <2>1
<1>8. CASE PhoneReadsApproval
  <2>1. \/ fetches' = {[g EXCEPT !.heard = @ \cup {Head(toIos).arg}] : g \in fetches}
        \/ fetches' = fetches
    BY <1>8 DEF PhoneReadsApproval
  <2>2. QED
    BY <1>2, <1>6, <2>1
<1>9. QED
  BY <1>2, <1>3, <1>4, <1>7, <1>8

(* Only the two steps that take a reply end a fetch.                       *)
LEMMA RepliedBy ==
  ASSUME PendingInv, Next, NEW f \in fetches, Replied(f)
  PROVE  PhoneIgnoresReply(f) \/ PhoneAppliesReply(f)
<1>1. CASE MacStep
  <2>1. fetches' = fetches
    BY <1>1
       DEF MacStep, MacAsks, MacAnswers, HostReadsAnswer, HostReadsClientState,
           HostReadsConnected, HostReadsGone, phoneVars
  <2>2. QED
    BY <2>1, FetchesStay
<1>2. CASE AgentStep
  <2>1. fetches' = fetches
    BY <1>2 DEF AgentStep, AgentConnects, AgentDrops, AgentEnds, AgentExits, AgentRestarts,
                AgentStarts, AgentReads,
                AgentReadsHello, AgentReadsConfirm, AgentReadsAnswer, AgentReadsIPC,
                Copies, StampsAndPosts, Forwards, phoneVars
  <2>2. QED
    BY <2>1, FetchesStay
<1>3. CASE RelayStep
  <2>1. fetches' = fetches \/ \E g \in fetches : RelayReplies(g)
    BY <1>3 DEF RelayStep, RelayStores, PostFails, phoneVars
  <2>2. QED
    BY <2>1, FetchesStay
<1>4. CASE PhoneStep
  <2>1. CASE PhoneOpens \/ PhoneDrops \/ UserDiscards \/ PhoneRetriesHello \/ PhoneReadsMacHello
    <3>1. fetches' = fetches
      BY <2>1 DEF PhoneOpens, PhoneDrops, UserDiscards, PhoneCloses, PhoneRetriesHello,
                  PhoneReadsMacHello
    <3>2. QED
      BY <3>1, FetchesStay
  <2>2. CASE PhoneFetches \/ PhoneReadsReady
    <3>1. fetches' = fetches \/ StartsFetch(0) \/ StartsFetch(1)
      BY <2>2 DEF PhoneFetches, PhoneReadsReady
    <3>2. QED
      BY <3>1, FetchesStay
  <2>3. CASE TransportWrites \/ PhoneReadsApproval
    BY <2>3, FetchesStay
  <2>4. CASE \E r \in Requests : UserAnswers(r) \/ UserAnswersAhead(r) \/ ResolutionExpires(r)
    <3>1. fetches' = fetches \/ StartsFetch(0)
      BY <2>4 DEF UserAnswers, UserAnswersAhead, ResolutionExpires
    <3>2. QED
      BY <3>1, FetchesStay
  <2>5. ASSUME NEW g \in fetches, PhoneIgnoresReply(g) \/ PhoneAppliesReply(g)
        PROVE  PhoneIgnoresReply(f) \/ PhoneAppliesReply(f)
    <3>1. fetches' = fetches \ {g}
      BY <2>5 DEF PhoneIgnoresReply, PhoneAppliesReply, TakesReply
    <3>2. f = g
      BY <3>1 DEF Replied
    <3>3. QED
      BY <2>5, <3>2
  <2>6. QED
    BY <1>4, <2>1, <2>2, <2>3, <2>4, <2>5 DEF PhoneStep
<1>5. QED
  BY <1>1, <1>2, <1>3, <1>4 DEF Next

(* The reply behind the fence meets a reconciler that remembers what was heard. *)
LEMMA MergesStep ==
  ASSUME PendingInv, Next, NEW f \in fetches, Replied(f)
  PROVE  /\ f.heard \cap phone.cards \subseteq phone'.cards
         /\ (phone'.cards \ phone.cards) \cap phone.resolved = {}
<1>1. CASE PhoneIgnoresReply(f)
  BY <1>1, PhoneIgnoresReplyStep
<1>2. CASE PhoneAppliesReply(f)
  <2>1. f.heard \subseteq phone.since
    BY <1>2, InvParts DEF HeardIsKept, PhoneAppliesReply, IsCurrentFetch
  <2>2. /\ phone.cards \cap phone.since \subseteq phone'.cards
        /\ (phone'.cards \ phone.cards) \cap phone.resolved = {}
    BY <1>2, PhoneAppliesReplyStep
  <2>3. QED
    BY <2>1, <2>2
<1>3. QED
  BY <1>1, <1>2, RepliedBy

(* PendingStateReconciler: a snapshot removes no approval the socket       *)
(* brought since the fetch it answers began and re-adds none that was      *)
(* resolved, whatever fetches were cancelled or overtaken in between.      *)
THEOREM SnapshotsMerge == Spec => SnapshotMerges
<1>1. PendingInv /\ [Next]_vars =>
        [ \A f \in fetches : Replied(f) =>
            /\ f.heard \cap phone.cards \subseteq phone'.cards
            /\ (phone'.cards \ phone.cards) \cap phone.resolved = {} ]_vars
  BY MergesStep
<1>2. QED
  BY <1>1, PendingInvariant, PTL DEF Spec, SnapshotMerges

================================================================================
