-------------------------- MODULE RestoreCommitsProofs --------------------------
(***************************************************************************)
(* The committed captures of RestoreStore for any number of panes, texts,  *)
(* captures, failures, crashes and launches: an acknowledged capture       *)
(* survives a crash and the loss of one manifest, and when the writer's    *)
(* thread ends without a fault the final capture is on disk.               *)
(***************************************************************************)
EXTENDS RestoreTextsProofs

CommitSound == CommitOrder /\ Published /\ DurableKept

(* What a step does to the numbers that count.                             *)
SameNumbers ==
  /\ used'.gen = used.gen /\ used'.durable = used.durable /\ used'.damages = used.damages
  /\ used'.final = used.final
  /\ used'.failures >= used.failures

LEMMA Numbers ==
  ASSUME TypeOK
  PROVE  /\ used.gen \in Nat /\ used.durable \in Nat /\ used.damages \in Nat
         /\ used.final \in Nat /\ used.failures \in Nat /\ used.resets \in Nat
         /\ ui.sess.gen \in Nat /\ queue.pending.sess.gen \in Nat /\ writer.req.sess.gen \in Nat
         /\ bundle.sess.gen \in Nat /\ index.sess.gen \in Nat
         /\ \A t \in Threads : tx[t].sess.gen \in Nat
  BY DEF TypeOK, DiskOK, Usage, Uis, Queues, Writers, Request, Session, Manifest, Txs

LEMMA CountedNumbers ==
  ASSUME TypeOK, NEW r, r.ok \in BOOLEAN,
         used' \in {Counted(r), [Counted(r) EXCEPT !.token = @ + 1]}
  PROVE  SameNumbers /\ used'.failures = used.failures + (IF r.ok THEN 0 ELSE 1)
  <1> DEFINE n == used.failures + (IF r.ok THEN 0 ELSE 1)
  <1>1. n \in Nat /\ n >= used.failures
    BY Numbers
  <1>2. Counted(r) = [used EXCEPT !.failures = n]
    BY DEF Counted
  <1> HIDE DEF n
  <1>3. /\ used'.gen = used.gen /\ used'.durable = used.durable /\ used'.damages = used.damages
        /\ used'.final = used.final /\ used'.failures = n
    BY <1>1, <1>2 DEF TypeOK, Usage
  <1> QED BY <1>1, <1>3 DEF SameNumbers, n

--------------------------------------------------------------------------------
(* What the steps of a transaction do to the manifests.                    *)

Failing == used'.failures = used.failures + 1

(* Transaction t goes on with the rest of what it was asked for.           *)
SameTransaction(t) ==
  /\ tx'[t].sess = tx[t].sess /\ tx'[t].kind = tx[t].kind /\ tx'[t].clear = tx[t].clear
  /\ \A u \in Threads : u # t => tx'[u] = tx[u]

Locks(t) ==
  /\ tx[t].pc = "lock" /\ UNCHANGED <<bundle, index>>
  /\ \/ tx'[t].pc = "sidecars"
     \/ tx'[t].pc = "failed" /\ tx[t].sess.open = {} /\ ~tx[t].clear

Copies(t) ==
  /\ tx[t].pc = "sidecars" /\ UNCHANGED <<bundle, index>>
  /\ \/ tx'[t].pc = "sidecars"
     \/ tx'[t].pc = "failed" /\ (Failing \/ \E p \in tx[t].todo : file[p] = 0)

PublishesBundle(t) ==
  /\ tx[t].pc = "sidecars" /\ tx[t].kind = "save" /\ UNCHANGED index
  /\ bundle' = bundle \/ Holds(bundle', tx[t].sess)
  /\ \/ tx'[t].pc = "index" /\ Holds(bundle', tx[t].sess)
     \/ tx'[t].pc = "failed" /\ Failing

SkipsBundle(t) ==
  /\ tx[t].pc = "sidecars" /\ tx[t].kind = "source" /\ UNCHANGED <<bundle, index>>
  /\ tx'[t].pc = "latest"

PublishesIndex(t) ==
  /\ tx[t].pc = "index" /\ UNCHANGED bundle
  /\ index' = index \/ Holds(index', tx[t].sess)
  /\ \/ tx'[t].pc = "latest" /\ Holds(index', tx[t].sess)
     \/ tx'[t].pc = "failed" /\ Failing

BacksUp(t) ==
  /\ tx[t].pc \in {"latest", "archive", "prune"} /\ UNCHANGED <<bundle, index>>
  /\ tx'[t].pc \in {"archive", "prune", "done"}

Moves(t) ==
  /\ SameTransaction(t) /\ SameNumbers
  /\ \/ Locks(t) \/ Copies(t) \/ PublishesBundle(t) \/ SkipsBundle(t) \/ PublishesIndex(t)
     \/ BacksUp(t)

LEMMA SameUsed == ASSUME TypeOK, UNCHANGED used PROVE SameNumbers
  BY Numbers DEF SameNumbers

LEMMA TxLockMoves == ASSUME TypeOK, NEW t \in Threads, TxLock(t) PROVE Moves(t)
  <1>1. PICK pc, n : tx' = [tx EXCEPT ![t].pc = pc, ![t].prev = n]
    BY DEF TxLock
  <1>2. SameTransaction(t) /\ tx'[t].pc = pc
    BY <1>1 DEF TypeOK, Txs, SameTransaction
  <1>3. /\ tx[t].pc = "lock" /\ UNCHANGED <<bundle, index, used>>
        /\ tx' = [tx EXCEPT ![t].pc = IF tx[t].kind = "save" /\ ~tx[t].clear /\ tx[t].sess.open = {}
                                      THEN "failed" ELSE "sidecars",
                            ![t].prev = IF tx[t].kind = "save" THEN index.token ELSE 0]
    BY DEF TxLock, disk
  <1>4. tx'[t].pc = IF tx[t].kind = "save" /\ ~tx[t].clear /\ tx[t].sess.open = {}
                    THEN "failed" ELSE "sidecars"
    BY <1>3 DEF TypeOK, Txs
  <1>5. Locks(t)
    BY <1>3, <1>4 DEF Locks
  <1> QED BY <1>2, <1>3, <1>5, SameUsed DEF Moves

LEMMA TxSidecarMoves ==
  ASSUME TypeOK, NEW t \in Threads, NEW p \in Panes, TxSidecar(t, p)
  PROVE  Moves(t)
  <1>1. PICK r \in IF file[p] = 0 THEN {[now |-> sidecar, ok |-> FALSE]}
                   ELSE IF file[p] \in sidecar THEN {[now |-> sidecar, ok |-> TRUE]}
                   ELSE AtomicWrite(sidecar, sidecar \cup {file[p]}) :
          /\ tx' = [tx EXCEPT ![t].pc = IF r.ok THEN "sidecars" ELSE "failed",
                              ![t].todo = @ \ {p}, ![t].ctx[p] = file[p]]
          /\ used' = IF file[p] = 0 THEN used ELSE Counted(r)
    BY DEF TxSidecar
  <1>2. tx[t].pc = "sidecars" /\ p \in tx[t].todo /\ UNCHANGED <<bundle, index>>
    BY DEF TxSidecar
  <1>3. SameTransaction(t) /\ tx'[t].pc = IF r.ok THEN "sidecars" ELSE "failed"
    <2>1. PICK pc : pc = IF r.ok THEN "sidecars" ELSE "failed"
      OBVIOUS
    <2>2. tx' = [tx EXCEPT ![t].pc = pc, ![t].todo = @ \ {p}, ![t].ctx[p] = file[p]]
      BY <1>1, <2>1
    <2>3. SameTransaction(t) /\ tx'[t].pc = pc
      BY <2>2 DEF TypeOK, Txs, SameTransaction
    <2> QED BY <2>1, <2>3
  <1>4. CASE file[p] = 0
    <2>1. r.ok = FALSE /\ UNCHANGED used
      BY <1>1, <1>4
    <2>2. Copies(t)
      BY <1>2, <1>3, <1>4, <2>1 DEF Copies
    <2> QED BY <1>3, <2>1, <2>2, SameUsed DEF Moves
  <1>5. CASE file[p] # 0
    <2>1. r.ok \in BOOLEAN
      <3>1. CASE r = [now |-> sidecar, ok |-> TRUE]
        BY <3>1
      <3>2. CASE r \in AtomicWrite(sidecar, sidecar \cup {file[p]})
        BY <3>2, WriteType
      <3> QED BY <1>1, <1>5, <3>1, <3>2
    <2>2. used' = Counted(r)
      BY <1>1, <1>5
    <2>3. SameNumbers /\ used'.failures = used.failures + (IF r.ok THEN 0 ELSE 1)
      BY <2>1, <2>2, CountedNumbers
    <2>4. Copies(t)
      BY <1>2, <1>3, <2>1, <2>3 DEF Copies, Failing
    <2> QED BY <1>3, <2>3, <2>4 DEF Moves
  <1> QED BY <1>4, <1>5

LEMMA BundleHolds ==
  ASSUME NEW x, NEW n
  PROVE  /\ Holds(BundleOf(x, n), x.sess)
         /\ Holds([BundleOf(x, n) EXCEPT !.prev = 0, !.ctx = NoText], x.sess)
  BY DEF Holds, Readable, BundleOf

LEMMA TxBundleMoves == ASSUME TypeOK, NEW t \in Threads, TxBundle(t) PROVE Moves(t)
  <1> DEFINE new == BundleOf(tx[t], used.token + 1)
  <1>1. PICK r \in IF tx[t].kind = "save" THEN AtomicWrite(bundle, new)
                   ELSE {[now |-> bundle, ok |-> TRUE]} :
          /\ bundle' = r.now
          /\ tx' = [tx EXCEPT ![t].token = used.token + 1,
                              ![t].pc = IF ~r.ok THEN "failed"
                                        ELSE IF tx[t].kind = "save" THEN "index" ELSE "latest"]
          /\ used' = [Counted(r) EXCEPT !.token = @ + 1]
    BY DEF TxBundle
  <1>2. tx[t].pc = "sidecars" /\ UNCHANGED index
    BY DEF TxBundle
  <1>3. Holds(new, tx[t].sess)
    BY BundleHolds
  <1> HIDE DEF new
  <1>4. /\ SameTransaction(t)
        /\ tx'[t].pc = IF ~r.ok THEN "failed"
                       ELSE IF tx[t].kind = "save" THEN "index" ELSE "latest"
    <2>1. PICK pc, n : /\ pc = IF ~r.ok THEN "failed"
                               ELSE IF tx[t].kind = "save" THEN "index" ELSE "latest"
                       /\ n = used.token + 1
      OBVIOUS
    <2>2. tx' = [tx EXCEPT ![t].token = n, ![t].pc = pc]
      BY <1>1, <2>1
    <2>3. SameTransaction(t) /\ tx'[t].pc = pc
      BY <2>2 DEF TypeOK, Txs, SameTransaction
    <2> QED BY <2>1, <2>3
  <1>5. r.ok \in BOOLEAN /\ r.now \in {bundle, new} /\ (tx[t].kind = "save" /\ r.ok => r.now = new)
        /\ (tx[t].kind # "save" => r.ok /\ r.now = bundle)
    <2>1. CASE tx[t].kind = "save"
      <3>1. r \in AtomicWrite(bundle, new)
        BY <1>1, <2>1
      <3> QED BY <2>1, <3>1, WriteType
    <2>2. CASE tx[t].kind # "save"
      <3>1. r = [now |-> bundle, ok |-> TRUE]
        BY <1>1, <2>2
      <3>2. r.now = bundle /\ r.ok = TRUE
        BY <3>1
      <3> QED BY <2>2, <3>2
    <2> QED BY <2>1, <2>2
  <1>6. SameNumbers /\ used'.failures = used.failures + (IF r.ok THEN 0 ELSE 1)
    BY <1>1, <1>5, CountedNumbers
  <1>7. CASE tx[t].kind = "save"
    <2>1. PublishesBundle(t)
      BY <1>1, <1>2, <1>3, <1>4, <1>5, <1>6, <1>7 DEF PublishesBundle, Failing
    <2> QED BY <1>4, <1>6, <2>1 DEF Moves
  <1>8. CASE tx[t].kind # "save"
    <2>1. tx[t].kind = "source"
      BY <1>8 DEF TypeOK, Txs
    <2>2. SkipsBundle(t)
      BY <1>1, <1>2, <1>4, <1>5, <1>8, <2>1 DEF SkipsBundle
    <2> QED BY <1>4, <1>6, <2>2 DEF Moves
  <1> QED BY <1>7, <1>8

LEMMA ProceedMoves ==
  ASSUME TypeOK, NEW t \in Threads, NEW ok, NEW next, NEW otherwise,
         Proceed(t, ok, next, otherwise)
  PROVE  SameTransaction(t) /\ tx'[t].pc = IF ok THEN next ELSE otherwise
  <1>1. PICK pc : pc = IF ok THEN next ELSE otherwise
    OBVIOUS
  <1>2. tx' = [tx EXCEPT ![t].pc = pc]
    BY <1>1 DEF Proceed
  <1>3. SameTransaction(t) /\ tx'[t].pc = pc
    BY <1>2 DEF TypeOK, Txs, SameTransaction
  <1> QED BY <1>1, <1>3

LEMMA TxIndexMoves == ASSUME TypeOK, NEW t \in Threads, TxIndex(t) PROVE Moves(t)
  <1> DEFINE new == [BundleOf(tx[t], tx[t].token) EXCEPT !.prev = 0, !.ctx = NoText]
  <1>1. PICK r \in AtomicWrite(index, new) :
          index' = r.now /\ Proceed(t, r.ok, "latest", "failed") /\ used' = Counted(r)
    BY DEF TxIndex
  <1>2. tx[t].pc = "index" /\ UNCHANGED bundle
    BY DEF TxIndex
  <1>3. Holds(new, tx[t].sess)
    BY BundleHolds
  <1> HIDE DEF new
  <1>4. r.ok \in BOOLEAN /\ r.now \in {index, new} /\ (r.ok => r.now = new)
    BY <1>1, WriteType
  <1>5. SameTransaction(t) /\ tx'[t].pc = IF r.ok THEN "latest" ELSE "failed"
    BY <1>1, ProceedMoves
  <1>6. SameNumbers /\ used'.failures = used.failures + (IF r.ok THEN 0 ELSE 1)
    BY <1>1, <1>4, CountedNumbers
  <1>7. PublishesIndex(t)
    BY <1>1, <1>2, <1>3, <1>4, <1>5, <1>6 DEF PublishesIndex, Failing
  <1> QED BY <1>5, <1>6, <1>7 DEF Moves

LEMMA BackupMoves ==
  ASSUME TypeOK, NEW t \in Threads,
         TxLatest(t) \/ (\E due \in BOOLEAN : TxArchive(t, due))
           \/ (\E kept \in SUBSET archive : TxPrune(t, kept))
  PROVE  Moves(t)
  <1>1. CASE TxLatest(t)
    <2>1. PICK r \in AtomicWrite(latest, BundleOf(tx[t], tx[t].token)) :
            Proceed(t, r.ok, "archive", "done") /\ used' = Counted(r)
      BY <1>1 DEF TxLatest
    <2>2. r.ok \in BOOLEAN
      BY <2>1, WriteType
    <2>3. SameTransaction(t) /\ tx'[t].pc \in {"archive", "done"}
      BY <2>1, ProceedMoves
    <2>4. SameNumbers
      BY <2>1, <2>2, CountedNumbers
    <2>5. BacksUp(t)
      BY <1>1, <2>3 DEF BacksUp, TxLatest
    <2> QED BY <2>3, <2>4, <2>5 DEF Moves
  <1>2. CASE \E due \in BOOLEAN : TxArchive(t, due)
    <2>1. PICK due \in BOOLEAN : TxArchive(t, due)
      BY <1>2
    <2>2. PICK r \in IF due THEN AtomicWrite(archive, archive \cup {BundleOf(tx[t], tx[t].token)})
                     ELSE {[now |-> archive, ok |-> TRUE]} :
            Proceed(t, r.ok, "prune", "done") /\ used' = Counted(r)
      BY <2>1 DEF TxArchive
    <2>3. r.ok \in BOOLEAN
      <3>1. CASE due
        <4>1. r \in AtomicWrite(archive, archive \cup {BundleOf(tx[t], tx[t].token)})
          BY <2>2, <3>1
        <4> QED BY <4>1, WriteType
      <3>2. CASE ~due
        <4>1. r = [now |-> archive, ok |-> TRUE]
          BY <2>2, <3>2
        <4> QED BY <4>1
      <3> QED BY <3>1, <3>2
    <2>4. SameTransaction(t) /\ tx'[t].pc \in {"prune", "done"}
      BY <2>2, ProceedMoves
    <2>5. SameNumbers
      BY <2>2, <2>3, CountedNumbers
    <2>6. BacksUp(t)
      BY <2>1, <2>4 DEF BacksUp, TxArchive
    <2> QED BY <2>4, <2>5, <2>6 DEF Moves
  <1>3. CASE \E kept \in SUBSET archive : TxPrune(t, kept)
    <2>1. tx[t].pc = "prune" /\ Proceed(t, TRUE, "done", "done") /\ UNCHANGED <<bundle, index, used>>
      BY <1>3 DEF TxPrune
    <2>2. SameTransaction(t) /\ tx'[t].pc = "done"
      BY <2>1, ProceedMoves
    <2> QED BY <2>1, <2>2, SameUsed DEF Moves, BacksUp
  <1> QED BY <1>1, <1>2, <1>3

LEMMA TransactionMoves == ASSUME TypeOK, NEW t \in Threads, Transaction(t) PROVE Moves(t)
  BY TxLockMoves, TxSidecarMoves, TxBundleMoves, TxIndexMoves, BackupMoves DEF Transaction

--------------------------------------------------------------------------------
(* The order of the commits.                                               *)

LEMMA OrderFrame ==
  ASSUME CommitOrder, UNCHANGED <<queue, writer>>,
         used'.gen = used.gen, used'.durable = used.durable,
         ui'.pc = "capture" => ui.pc = "capture" /\ ui'.sess.gen = ui.sess.gen
  PROVE  CommitOrder'
  BY DEF CommitOrder, Queued, Committing

LEMMA ManifestFrame ==
  ASSUME Published, DurableKept, UNCHANGED <<bundle, index, tx>>,
         used'.durable = used.durable, used'.damages = used.damages
  PROVE  Published' /\ DurableKept'
  BY DEF Published, DurableKept, Holds, Readable

(* The session of the writer's transaction is no older than what was       *)
(* acknowledged.                                                           *)
LEMMA WriterSession ==
  ASSUME TypeOK, TextsSound, CommitOrder, tx["writer"].pc # "off"
  PROVE  tx["writer"].sess.gen >= used.durable /\ tx["writer"].sess = writer.req.sess
  <1>1. Committing /\ tx["writer"].sess = writer.req.sess
    BY DEF TextsSound, CopiesWanted, Committing
  <1> QED BY <1>1, Numbers DEF CommitOrder

LEMMA TransactionCommits ==
  ASSUME TypeOK, TextsSound, CommitSound, NEW t \in Threads, Transaction(t)
  PROVE  CommitSound'
  <1>1. Moves(t)
    BY TransactionMoves
  <1>2. SameTransaction(t) /\ SameNumbers
    BY <1>1 DEF Moves
  <1>3. UNCHANGED <<queue, writer, ui>>
    BY TransactionFrames
  <1>4. CommitOrder'
    BY <1>2, <1>3, OrderFrame DEF CommitSound, SameNumbers
  <1>5. "writer" \in Threads /\ "ui" \in Threads /\ t \in {"writer", "ui"}
    BY DEF Threads
  <1>6. CASE t = "ui"
    <2>1. tx'["writer"] = tx["writer"]
      BY <1>2, <1>5, <1>6 DEF SameTransaction
    <2>2. tx["ui"].pc # "off"
      BY <1>1, <1>6 DEF Moves, Locks, Copies, PublishesBundle, SkipsBundle, PublishesIndex, BacksUp
    <2>3. tx["ui"].kind = "source" /\ tx["ui"].pc # "index"
      BY <2>2 DEF CommitSound, Published
    <2>4. UNCHANGED <<bundle, index>> /\ tx'["ui"].pc # "index"
      BY <1>1, <1>6, <2>3 DEF Moves, Locks, Copies, PublishesBundle, SkipsBundle, PublishesIndex,
                              BacksUp
    <2>5. tx'["ui"].kind = "source"
      BY <1>2, <1>6, <2>3 DEF SameTransaction
    <2>6. Published'
      BY <2>1, <2>4, <2>5 DEF CommitSound, Published, Holds, Readable
    <2>7. DurableKept'
      BY <1>2, <2>4 DEF CommitSound, DurableKept, SameNumbers, Readable
    <2> QED BY <1>4, <2>6, <2>7 DEF CommitSound
  <1>7. CASE t = "writer"
    <2>1. tx'["ui"] = tx["ui"] /\ tx'["writer"].sess = tx["writer"].sess
          /\ tx'["writer"].kind = tx["writer"].kind
      BY <1>2, <1>5, <1>7 DEF SameTransaction
    <2>2. tx["writer"].pc # "off"
      BY <1>1, <1>7 DEF Moves, Locks, Copies, PublishesBundle, SkipsBundle, PublishesIndex, BacksUp
    <2>3. tx["writer"].kind = "save"
      BY <2>2 DEF CommitSound, Published
    <2>4. /\ bundle' = bundle \/ Holds(bundle', tx["writer"].sess)
          /\ index' = index \/ Holds(index', tx["writer"].sess)
      BY <1>1, <1>7 DEF Moves, Locks, Copies, PublishesBundle, SkipsBundle, PublishesIndex, BacksUp
    <2>5. Published'
      <3>1. tx'["writer"].pc \in {"index", "latest", "archive", "prune", "done"} =>
              Holds(bundle', tx["writer"].sess)
        BY <1>1, <1>7, <2>3 DEF Moves, Locks, Copies, PublishesBundle, SkipsBundle, PublishesIndex,
                                BacksUp, CommitSound, Published
      <3>2. tx'["writer"].pc \in {"latest", "archive", "prune", "done"} =>
              Holds(index', tx["writer"].sess)
        BY <1>1, <1>7, <2>3 DEF Moves, Locks, Copies, PublishesBundle, SkipsBundle, PublishesIndex,
                                BacksUp, CommitSound, Published
      <3> QED BY <2>1, <2>3, <3>1, <3>2 DEF CommitSound, Published, Holds, Readable
    <2>6. DurableKept'
      <3>1. tx["writer"].sess.gen >= used.durable
        BY <2>2, WriterSession DEF CommitSound
      <3>2. \A m \in {bundle', index'} : Readable(m) => m.sess.gen >= used.durable
        BY <2>4, <3>1 DEF CommitSound, DurableKept, Holds
      <3>3. (Readable(bundle) => Readable(bundle')) /\ (Readable(index) => Readable(index'))
        BY <2>4 DEF Holds
      <3> QED BY <1>2, <3>2, <3>3 DEF CommitSound, DurableKept, SameNumbers, Readable
    <2> QED BY <1>4, <2>5, <2>6 DEF CommitSound
  <1> QED BY <1>5, <1>6, <1>7

LEMMA NoRequestGen == NoRequest.sess.gen = 0 /\ NoTx.kind = "save"
  BY DEF NoRequest, NoSession, NoTx

LEMMA WriterCommits ==
  ASSUME TypeOK, TextsSound, CommitSound, Writer
  PROVE  CommitSound'
  <1>1. UNCHANGED <<bundle, index, ui>>
    BY DEF Writer, WriterTakes, WriterEnds, WriterSaves, WriterAcknowledges,
           WriterPrunes, WriterFails, WriteContext, disk
  <1>2. CASE WriterTakes
    <2>1. /\ writer.pc = "wait" /\ Queued /\ writer'.pc = "contexts" /\ writer'.req = queue.pending
          /\ queue'.pending = NoRequest /\ UNCHANGED <<used, tx>>
      BY <1>2 DEF WriterTakes, TypeOK, Queues, Queued
    <2>2. ~Queued'
      BY <2>1 DEF Queued
    <2>3. CommitOrder'
      BY <1>1, <2>1, <2>2 DEF CommitSound, CommitOrder
    <2> QED BY <1>1, <2>1, <2>3, ManifestFrame DEF CommitSound
  <1>3. CASE WriterEnds \/ WriterPrunes
    <2>1. UNCHANGED <<used, tx, queue>> /\ writer'.pc \in {"ended", "wait"}
      BY <1>3, IdleWriterFields DEF WriterEnds, WriterPrunes, TypeOK, Writers
    <2>2. ~Committing' /\ (Queued' <=> Queued)
      BY <2>1 DEF Committing, Queued
    <2>3. CommitOrder'
      BY <1>1, <2>1, <2>2 DEF CommitSound, CommitOrder
    <2> QED BY <1>1, <2>1, <2>3, ManifestFrame DEF CommitSound
  <1>4. CASE \E p \in Panes : WriteContext(p)
    <2>1. PICK p \in Panes : WriteContext(p)
      BY <1>4
    <2>2. PICK r \in AtomicWrite(file, [file EXCEPT ![p] = writer.req.contexts[p].text]) :
            /\ used' = Counted(r)
            /\ writer' = [writer EXCEPT !.todo = @ \ {p}, !.pc = IF r.ok THEN @ ELSE "failed"]
      BY <2>1 DEF WriteContext
    <2>3. r.ok \in BOOLEAN
      BY <2>2, WriteType
    <2>4. SameNumbers
      BY <2>2, <2>3, CountedNumbers
    <2>5. writer'.req = writer.req /\ writer.pc = "contexts" /\ UNCHANGED <<queue, tx>>
      BY <2>1, <2>2 DEF WriteContext, TypeOK, Writers
    <2>6. Committing /\ (Queued' <=> Queued)
      BY <2>5 DEF Committing, Queued
    <2>7. CommitOrder'
      BY <1>1, <2>4, <2>5, <2>6 DEF CommitSound, CommitOrder, SameNumbers
    <2> QED BY <1>1, <2>4, <2>5, <2>7, ManifestFrame DEF CommitSound, SameNumbers
  <1>5. CASE WriterSaves
    <2>1. /\ writer.pc = "contexts" /\ UNCHANGED <<used, queue>> /\ writer'.req = writer.req
          /\ Begin("writer", "save", writer.req.sess, writer.req.clear,
                   writer.req.final \/ writer.req.clear)
      BY <1>5 DEF WriterSaves, TypeOK, Writers
    <2>2. Committing /\ (Queued' <=> Queued)
      BY <2>1 DEF Committing, Queued
    <2>3. CommitOrder'
      BY <1>1, <2>1, <2>2 DEF CommitSound, CommitOrder
    <2>4. tx'["writer"].pc = "lock" /\ tx'["writer"].kind = "save" /\ tx'["ui"] = tx["ui"]
      BY <2>1 DEF Begin, TypeOK, Threads, NoTx
    <2>5. Published'
      BY <1>1, <2>4 DEF CommitSound, Published
    <2>6. DurableKept'
      BY <1>1, <2>1 DEF CommitSound, DurableKept, Readable
    <2> QED BY <2>3, <2>5, <2>6 DEF CommitSound
  <1>6. CASE WriterFails
    <2>1. UNCHANGED <<used, queue>> /\ writer'.pc = "wait" /\ tx' = [tx EXCEPT !["writer"] = NoTx]
      BY <1>6, IdleWriterFields DEF WriterFails
    <2>2. ~Committing' /\ (Queued' <=> Queued)
      BY <2>1 DEF Committing, Queued
    <2>3. CommitOrder'
      BY <1>1, <2>1, <2>2 DEF CommitSound, CommitOrder
    <2>4. tx'["writer"].pc = "off" /\ tx'["ui"] = tx["ui"]
      BY <2>1, NoRequestFields DEF TypeOK, Threads
    <2>5. Published'
      BY <1>1, <2>4 DEF CommitSound, Published
    <2>6. DurableKept'
      BY <1>1, <2>1 DEF CommitSound, DurableKept, Readable
    <2> QED BY <2>3, <2>5, <2>6 DEF CommitSound
  <1>7. CASE WriterAcknowledges
    <2>1. PICK k : writer' = [writer EXCEPT !.pc = "prune", !.keep = k]
      BY <1>7 DEF WriterAcknowledges
    <2>2. /\ writer.pc = "saving" /\ tx["writer"].pc = "done" /\ UNCHANGED queue
          /\ tx' = [tx EXCEPT !["writer"] = NoTx]
          /\ used' = [used EXCEPT !.durable = writer.req.sess.gen]
      BY <1>7 DEF WriterAcknowledges
    <2>3. writer'.pc = "prune"
      BY <2>1 DEF TypeOK, Writers
    <2>4. used'.durable = writer.req.sess.gen /\ used'.gen = used.gen /\ used'.damages = used.damages
      BY <2>2 DEF TypeOK, Usage
    <2>5. Committing /\ ~Committing' /\ (Queued' <=> Queued)
      BY <2>2, <2>3 DEF Committing, Queued
    <2>6. CommitOrder'
      BY <1>1, <2>2, <2>4, <2>5, Numbers DEF CommitSound, CommitOrder
    <2>7. tx'["writer"].pc = "off" /\ tx'["ui"] = tx["ui"]
      BY <2>2, NoRequestFields DEF TypeOK, Threads
    <2>8. Published'
      BY <1>1, <2>7 DEF CommitSound, Published
    <2>9. Holds(bundle, writer.req.sess) /\ Holds(index, writer.req.sess)
      BY <2>2, WriterSession DEF CommitSound, Published
    <2>10. DurableKept'
      BY <1>1, <2>4, <2>9, Numbers DEF DurableKept, Holds, Readable
    <2> QED BY <2>6, <2>8, <2>10 DEF CommitSound
  <1> QED BY <1>2, <1>3, <1>4, <1>5, <1>6, <1>7 DEF Writer

(* Steps of the UI thread that leave queue and transactions alone.         *)
LEMMA UiFrameCommits ==
  ASSUME CommitSound, SameNumbers, UNCHANGED <<bundle, index, queue, writer, tx>>,
         ui'.pc = "capture" => ui.pc = "capture" /\ ui'.sess.gen = ui.sess.gen
  PROVE  CommitSound'
  BY OrderFrame, ManifestFrame DEF CommitSound, SameNumbers

LEMMA CapturePaneGen ==
  ASSUME TypeOK, NEW p \in Panes, NEW t \in Texts, CapturePane(p, t)
  PROVE  /\ ui'.sess.gen = ui.sess.gen /\ ui'.sess.open = ui.sess.open
         /\ ui'.clear = ui.clear /\ ui'.hook = ui.hook /\ ui'.final = ui.final
         /\ ui.pc = "capture"
  <1>1. PICK has, h :
          ui' = [ui EXCEPT !.todo = @ \ {p}, !.keep = @ \cup has, !.sess.sb = @ \cup has,
                           !.sess.want[p] = h]
    BY DEF CapturePane
  <1>2. ui.pc = "capture"
    BY DEF CapturePane
  <1> QED BY <1>1, <1>2 DEF TypeOK, Uis, Session

(* load never leads to a capture.                                          *)
LEMMA LoadPc ==
  ASSUME TypeOK,
         \/ LoadIndex \/ LoadBundle \/ Decode \/ Hydrated \/ LoadByIndex \/ LoadBackup
         \/ OpenRestored \/ UiTxEnds \/ \E p \in Panes : Hydrate(p)
  PROVE  ui'.pc # "capture"
  <1>1. ui \in Uis
    BY DEF TypeOK
  <1>2. CASE LoadIndex
    BY <1>1, <1>2 DEF LoadIndex, Uis
  <1>3. CASE LoadBundle
    BY <1>1, <1>3 DEF LoadBundle, Uis
  <1>4. CASE Decode
    <2>1. ui' = [ui EXCEPT !.pc = "hydrate", !.todo = ui.src.sess.sb] \/ ui' = GiveUp
      BY <1>4 DEF Decode
    <2> QED BY <1>1, <2>1, GiveUpFields DEF Uis
  <1>5. CASE \E p \in Panes : Hydrate(p)
    <2>1. PICK p \in Panes : Hydrate(p)
      BY <1>5
    <2>2. ui.pc = "hydrate" /\ (ui' = [ui EXCEPT !.todo = @ \ {p}] \/ ui' = GiveUp)
      BY <2>1 DEF Hydrate
    <2> QED BY <1>1, <2>2, GiveUpFields DEF Uis
  <1>6. ASSUME NEW s, NEW remember, Return(s, remember) PROVE ui'.pc # "capture"
    BY <1>1, <1>6 DEF Return, Uis
  <1>7. CASE Hydrated
    BY <1>6, <1>7 DEF Hydrated
  <1>8. CASE LoadByIndex
    <2>1. CASE Readable(ui.idx)
      BY <1>6, <1>8, <2>1 DEF LoadByIndex
    <2>2. CASE ~Readable(ui.idx)
      <3>1. ui' = [ui EXCEPT !.pc = "backup", !.next = 1, !.src = Unreadable("missing")]
        BY <1>8, <2>2 DEF LoadByIndex
      <3> QED BY <1>1, <3>1 DEF Uis
    <2> QED BY <2>1, <2>2
  <1>9. CASE LoadBackup
    <2>1. \/ ui' = UiAt("idle") \/ ui' = [ui EXCEPT !.next = 2]
          \/ \E m : ui' = [ui EXCEPT !.pc = "decode", !.src = m, !.next = @ + 1]
      BY <1>9 DEF LoadBackup
    <2>2. ui.pc = "backup"
      BY <1>9 DEF LoadBackup
    <2>3. CASE \E m : ui' = [ui EXCEPT !.pc = "decode", !.src = m, !.next = @ + 1]
      <3>1. PICK m, n : ui' = [ui EXCEPT !.pc = "decode", !.src = m, !.next = n]
        BY <2>3
      <3> QED BY <1>1, <3>1 DEF Uis
    <2>4. CASE ui' = [ui EXCEPT !.next = 2]
      BY <1>1, <2>2, <2>4 DEF Uis
    <2>5. CASE ui' = UiAt("idle")
      BY <2>5, UiAtFields
    <2> QED BY <2>1, <2>3, <2>4, <2>5
  <1>10. CASE OpenRestored
    BY <1>10, UiAtFields DEF OpenRestored
  <1>11. CASE UiTxEnds
    <2>1. ui' = [ui EXCEPT !.pc = "loaded"] \/ ui' = UiAt("idle")
      BY <1>11 DEF UiTxEnds
    <2> QED BY <1>1, <2>1, UiAtFields DEF Uis
  <1> QED BY <1>2, <1>3, <1>4, <1>5, <1>7, <1>8, <1>9, <1>10, <1>11

LEMMA HydrateNumbers == ASSUME TypeOK, NEW p \in Panes, Hydrate(p) PROVE SameNumbers
  <1>1. PICK r \in AtomicWrite(file, [file EXCEPT ![p] = ui.src.ctx[p]]) : used' = Counted(r)
    BY DEF Hydrate
  <1>2. r.ok \in BOOLEAN
    BY <1>1, WriteType
  <1> QED BY <1>1, <1>2, CountedNumbers

LEMMA CloseTabNumbers ==
  ASSUME TypeOK, NEW p \in Panes, NEW t \in Texts, CloseTab(p, t)
  PROVE  SameNumbers
  <1>1. PICK n : used' = [used EXCEPT !.closes = n]
    BY DEF CloseTab
  <1>2. /\ used'.gen = used.gen /\ used'.durable = used.durable /\ used'.damages = used.damages
        /\ used'.final = used.final /\ used'.failures = used.failures
    BY <1>1 DEF TypeOK, Usage
  <1> QED BY <1>2, Numbers DEF SameNumbers

(* load returns, and may start to archive what it returns.                 *)
LEMMA ReturnCommits ==
  ASSUME TypeOK, CommitSound, NEW s, NEW remember, Return(s, remember), ui'.pc # "capture",
         UNCHANGED <<bundle, index, queue, writer, used>>
  PROVE  CommitSound'
  <1>1. CommitOrder'
    BY OrderFrame DEF CommitSound
  <1>2. DurableKept'
    BY DEF CommitSound, DurableKept, Readable
  <1>3. CASE UNCHANGED tx
    BY <1>1, <1>2, <1>3, ManifestFrame DEF CommitSound
  <1>4. CASE Begin("ui", "source", s, FALSE, TRUE)
    <2>1. tx'["ui"].pc = "lock" /\ tx'["ui"].kind = "source" /\ tx'["writer"] = tx["writer"]
      BY <1>4 DEF Begin, TypeOK, Threads, NoTx
    <2>2. Published'
      BY <2>1 DEF CommitSound, Published
    <2> QED BY <1>1, <1>2, <2>2 DEF CommitSound
  <1> QED BY <1>3, <1>4 DEF Return

LEMMA LoadCommits ==
  ASSUME TypeOK, TextsSound, CommitSound,
         \/ LoadIndex \/ LoadBundle \/ Decode \/ Hydrated \/ LoadByIndex \/ LoadBackup
         \/ OpenRestored \/ UiTxEnds \/ \E p \in Panes : Hydrate(p)
  PROVE  CommitSound'
  <1>1. ui'.pc # "capture"
    BY LoadPc
  <1>2. CASE LoadIndex \/ LoadBundle \/ Decode \/ LoadBackup \/ OpenRestored
    <2>1. UNCHANGED <<bundle, index, queue, writer, tx, used>>
      BY <1>2 DEF LoadIndex, LoadBundle, Decode, LoadBackup, OpenRestored, disk
    <2> QED BY <1>1, <2>1, SameUsed, UiFrameCommits
  <1>3. CASE \E p \in Panes : Hydrate(p)
    <2>1. UNCHANGED <<bundle, index, queue, writer, tx>> /\ SameNumbers
      BY <1>3, HydrateNumbers DEF Hydrate
    <2> QED BY <1>1, <2>1, UiFrameCommits
  <1>4. CASE Hydrated
    <2>1. UNCHANGED <<bundle, index, queue, writer, used>> /\ Return(ui.src.sess, TRUE)
      BY <1>4 DEF Hydrated, disk
    <2> QED BY <1>1, <2>1, ReturnCommits
  <1>5. CASE LoadByIndex
    <2>1. UNCHANGED <<bundle, index, queue, writer, used>>
      BY <1>5 DEF LoadByIndex, disk
    <2>2. (\E s, remember : Return(s, remember)) \/ UNCHANGED tx
      BY <1>5 DEF LoadByIndex
    <2> QED BY <1>1, <2>1, <2>2, SameUsed, ReturnCommits, UiFrameCommits
  <1>6. CASE UiTxEnds
    <2>1. UNCHANGED <<bundle, index, queue, writer, used>> /\ tx' = [tx EXCEPT !["ui"] = NoTx]
      BY <1>6 DEF UiTxEnds, disk
    <2>2. tx'["ui"].pc = "off" /\ tx'["writer"] = tx["writer"]
      BY <2>1, NoRequestFields DEF TypeOK, Threads
    <2>3. Published'
      BY <2>1, <2>2 DEF CommitSound, Published
    <2>4. CommitOrder' /\ DurableKept'
      BY <1>1, <2>1, OrderFrame DEF CommitSound, DurableKept, Readable
    <2> QED BY <2>3, <2>4 DEF CommitSound
  <1> QED BY <1>2, <1>3, <1>4, <1>5, <1>6

(* A new capture has the highest number.                                   *)
LEMMA CaptureGen ==
  ASSUME TypeOK, AutoSave \/ CloseWindow \/ \E hook \in BOOLEAN : Quit(hook)
  PROVE  /\ ui'.pc = "capture" /\ ui'.sess.gen = used.gen + 1 /\ used'.gen = used.gen + 1
         /\ used'.durable = used.durable /\ used'.damages = used.damages /\ used'.final = used.final
         /\ used'.failures = used.failures
         /\ UNCHANGED <<bundle, index, latest, archive, queue, writer, tx>>
  <1>1. PICK ts, final, hook : CaptureSession(ts, final, hook)
    BY DEF AutoSave, CloseWindow, Quit
  <1>2. ui'.pc = "capture" /\ ui'.sess.gen = used.gen + 1
    BY <1>1, CaptureFields
  <1>5. PICK n, m : used' \in {[used EXCEPT !.gen = @ + 1, !.captures = n],
                               [used EXCEPT !.gen = @ + 1, !.quits = m]}
    BY DEF AutoSave, CloseWindow, Quit
  <1>6. /\ used'.gen = used.gen + 1
        /\ used'.durable = used.durable /\ used'.damages = used.damages /\ used'.final = used.final
        /\ used'.failures = used.failures
    BY <1>5 DEF TypeOK, Usage
  <1>7. UNCHANGED <<bundle, index, latest, archive, queue, writer, tx>>
    BY DEF AutoSave, CloseWindow, Quit, disk
  <1> QED BY <1>2, <1>6, <1>7

LEMMA CaptureCommits ==
  ASSUME TypeOK, CommitSound, AutoSave \/ CloseWindow \/ \E hook \in BOOLEAN : Quit(hook)
  PROVE  CommitSound'
  <1>1. /\ ui'.pc = "capture" /\ ui'.sess.gen = used.gen + 1 /\ used'.gen = used.gen + 1
        /\ used'.durable = used.durable /\ used'.damages = used.damages
        /\ UNCHANGED <<bundle, index, queue, writer, tx>>
    BY CaptureGen
  <1>2. (Queued' <=> Queued) /\ (Committing' <=> Committing)
    BY <1>1 DEF Queued, Committing
  <1>3. CommitOrder'
    BY <1>1, <1>2, Numbers DEF CommitSound, CommitOrder
  <1> QED BY <1>1, <1>3, ManifestFrame DEF CommitSound

LEMMA SubmitFields ==
  ASSUME TypeOK, Submit
  PROVE  /\ ui.pc = "capture" /\ ui.todo = {} /\ ui'.pc \in {"quit", "idle"}
         /\ UNCHANGED <<bundle, index, latest, archive, writer, tx, saved, shown>>
         /\ used'.gen = used.gen /\ used'.durable = used.durable /\ used'.damages = used.damages
         /\ used'.failures = used.failures
         /\ \/ /\ Accepts(queue) /\ queue'.pending.sess = ui.sess
               /\ queue'.pending.clear = ui.clear
               /\ used'.final = IF ui.final THEN ui.sess.gen ELSE used.final
            \/ ~Accepts(queue) /\ queue'.pending = queue.pending /\ used'.final = used.final
         /\ queue'.final = (queue.final \/ (Accepts(queue) /\ ui.final))
         /\ queue'.closing = (queue.closing \/ ui.hook)
  <1>1. /\ ui.pc = "capture" /\ ui.todo = {} /\ ui' \in {UiAt("quit"), UiAt("idle")}
        /\ UNCHANGED <<bundle, index, latest, archive, writer, tx, saved, shown>>
    BY DEF Submit, disk, window
  <1>2. ui'.pc \in {"quit", "idle"}
    BY <1>1, UiAtFields
  <1>3. PICK n : /\ used' = [used EXCEPT !.final = n]
                 /\ n = IF Accepts(queue) /\ ui.final THEN ui.sess.gen ELSE used.final
    BY DEF Submit
  <1>4. /\ used'.gen = used.gen /\ used'.durable = used.durable /\ used'.damages = used.damages
        /\ used'.final = n /\ used'.failures = used.failures
    BY <1>3 DEF TypeOK, Usage
  <1>5. \/ /\ Accepts(queue) /\ queue'.pending.sess = ui.sess
           /\ queue'.pending.clear = ui.clear
        \/ ~Accepts(queue) /\ queue'.pending = queue.pending
    BY DEF Submit
  <1>6. /\ queue'.final = (queue.final \/ (Accepts(queue) /\ ui.final))
        /\ queue'.closing = (queue.closing \/ ui.hook)
    BY DEF Submit
  <1>7. \/ /\ Accepts(queue) /\ queue'.pending.sess = ui.sess
           /\ queue'.pending.clear = ui.clear
           /\ used'.final = IF ui.final THEN ui.sess.gen ELSE used.final
        \/ ~Accepts(queue) /\ queue'.pending = queue.pending /\ used'.final = used.final
    BY <1>3, <1>4, <1>5
  <1> QED BY <1>1, <1>2, <1>4, <1>6, <1>7

LEMMA SubmitCommits == ASSUME TypeOK, CommitSound, Submit PROVE CommitSound'
  <1>1. /\ ui.pc = "capture" /\ ui'.pc \in {"quit", "idle"}
        /\ UNCHANGED <<bundle, index, writer, tx>>
        /\ used'.gen = used.gen /\ used'.durable = used.durable /\ used'.damages = used.damages
        /\ queue'.pending.sess = ui.sess \/ queue'.pending = queue.pending
    BY SubmitFields
  <1>2. Committing' <=> Committing
    BY <1>1 DEF Committing
  <1>3. CommitOrder'
    <2>1. CASE queue'.pending = queue.pending
      BY <1>1, <1>2, <2>1 DEF CommitSound, CommitOrder, Queued
    <2>2. CASE queue'.pending.sess = ui.sess
      BY <1>1, <1>2, <2>2, Numbers DEF CommitSound, CommitOrder
    <2> QED BY <1>1, <2>1, <2>2
  <1> QED BY <1>1, <1>3, ManifestFrame DEF CommitSound

LEMMA UiCommits ==
  ASSUME TypeOK, TextsSound, CommitSound, Ui, ~Reset
  PROVE  CommitSound'
  <1>1. CASE \E p \in Panes : OpenTab(p) \/ Reopen(p) \/ Activate(p)
    <2>1. UNCHANGED <<bundle, index, queue, writer, tx, used, ui>>
      BY <1>1 DEF OpenTab, Reopen, Activate, disk
    <2> QED BY <2>1, SameUsed, UiFrameCommits
  <1>2. CASE \E p \in Panes, t \in Texts : CloseTab(p, t)
    <2>1. UNCHANGED <<bundle, index, queue, writer, tx, ui>> /\ SameNumbers
      BY <1>2, CloseTabNumbers DEF CloseTab, disk
    <2> QED BY <2>1, UiFrameCommits
  <1>3. CASE \E p \in Panes, t \in Texts : CapturePane(p, t)
    <2>1. /\ UNCHANGED <<bundle, index, queue, writer, tx, used>>
          /\ ui.pc = "capture" /\ ui'.sess.gen = ui.sess.gen
      BY <1>3, CapturePaneGen DEF CapturePane, disk
    <2> QED BY <2>1, SameUsed, UiFrameCommits
  <1>4. CASE \/ LoadIndex \/ LoadBundle \/ Decode \/ Hydrated \/ LoadByIndex \/ LoadBackup
             \/ OpenRestored \/ UiTxEnds \/ \E p \in Panes : Hydrate(p)
    BY <1>4, LoadCommits
  <1>5. CASE AutoSave \/ CloseWindow \/ \E hook \in BOOLEAN : Quit(hook)
    BY <1>5, CaptureCommits
  <1>6. CASE Submit
    BY <1>6, SubmitCommits
  <1>7. ~ResetSaves
    BY DEF ResetSaves, TextsSound, LoadShows
  <1> QED BY <1>1, <1>2, <1>3, <1>4, <1>5, <1>6, <1>7 DEF Ui

LEMMA EndCommits == ASSUME TypeOK, CommitSound, Crash \/ Exit PROVE CommitSound'
  <1>1. /\ ui' = UiAt("dead") /\ queue' = EmptyQueue /\ writer' = IdleWriter
        /\ tx' = [t \in Threads |-> NoTx] /\ UNCHANGED <<bundle, index, used>>
    BY DEF Crash, Exit, Forgotten, disk
  <1>2. ui'.pc = "dead" /\ ~Queued' /\ ~Committing'
    BY <1>1, UiAtFields, IdleWriterFields, NoRequestFields DEF Queued, Committing
  <1>3. tx'["writer"].pc = "off" /\ tx'["ui"].pc = "off"
    BY <1>1, NoRequestFields DEF Threads
  <1>4. CommitOrder'
    BY <1>1, <1>2 DEF CommitSound, CommitOrder
  <1>5. Published' /\ DurableKept'
    BY <1>1, <1>3 DEF CommitSound, Published, DurableKept, Readable
  <1> QED BY <1>4, <1>5 DEF CommitSound

LEMMA DamageCommits == ASSUME TypeOK, TextsSound, CommitSound, Damage PROVE CommitSound'
  <1> DEFINE bad == Unreadable("bad")
  <1>1. /\ ui.pc = "dead" /\ used' = [used EXCEPT !.damages = @ + 1]
        /\ \/ bundle' = bad /\ UNCHANGED index
           \/ index' = bad /\ UNCHANGED bundle
        /\ UNCHANGED <<queue, writer, ui, tx>>
    BY DEF Damage
  <1>2. ~Readable(bad)
    BY DEF Readable, Unreadable
  <1> HIDE DEF bad
  <1>3. /\ used'.gen = used.gen /\ used'.durable = used.durable
        /\ used'.damages = used.damages + 1
    BY <1>1 DEF TypeOK, Usage
  <1>4. CommitOrder'
    BY <1>1, <1>3, OrderFrame DEF CommitSound
  <1>5. \A t \in Threads : tx[t].pc = "off"
    BY <1>1, QuietLoad, QuietTx DEF TextsSound, Loading
  <1>6. Published'
    BY <1>1, <1>5 DEF Published, Threads
  <1>7. DurableKept'
    BY <1>1, <1>2, <1>3, Numbers DEF CommitSound, DurableKept, Readable
  <1> QED BY <1>4, <1>6, <1>7 DEF CommitSound

LEMMA LaunchCommits == ASSUME TypeOK, CommitSound, Launch PROVE CommitSound'
  <1>1. /\ ui' = UiAt("index") /\ used' = [used EXCEPT !.launches = @ + 1]
        /\ UNCHANGED <<bundle, index, queue, writer, tx>>
    BY DEF Launch, disk
  <1>2. ui'.pc = "index"
    BY <1>1, UiAtFields
  <1>3. /\ used'.gen = used.gen /\ used'.durable = used.durable /\ used'.damages = used.damages
        /\ used'.final = used.final /\ used'.failures = used.failures
    BY <1>1 DEF TypeOK, Usage
  <1> QED BY <1>1, <1>2, <1>3, Numbers, UiFrameCommits DEF SameNumbers

LEMMA CommitStep == StoreInv /\ TextInv /\ CommitInv /\ [Next]_vars => CommitInv'
  <1> SUFFICES ASSUME StoreInv, TextInv, CommitInv, [Next]_vars, used'.resets = 0
               PROVE  CommitSound'
    BY DEF CommitInv, CommitSound
  <1>1. TypeOK
    BY DEF StoreInv
  <1>2. TextsSound /\ CommitSound /\ ~Reset
    BY <1>1, ResetsCounted DEF TextInv, CommitInv, CommitSound
  <1>3. CASE \E t \in Threads : Transaction(t)
    BY <1>1, <1>2, <1>3, TransactionCommits
  <1>4. CASE UNCHANGED vars
    <2>1. UNCHANGED <<bundle, index, queue, writer, tx, used, ui>>
      BY <1>4 DEF vars
    <2> QED BY <1>1, <1>2, <2>1, SameUsed, UiFrameCommits
  <1> QED BY <1>1, <1>2, <1>3, <1>4, UiCommits, WriterCommits, EndCommits, DamageCommits,
             LaunchCommits DEF Next

LEMMA InitCommits == Init => CommitInv
  <1> SUFFICES ASSUME Init PROVE CommitSound
    BY DEF CommitInv, CommitSound
  <1>1. /\ ui = UiAt("index") /\ queue = EmptyQueue /\ writer = IdleWriter
        /\ tx = [t \in Threads |-> NoTx] /\ bundle = Unreadable("missing") /\ index = bundle
        /\ used.gen = 0 /\ used.durable = 0 /\ used.damages = 0
    BY DEF Init
  <1>2. ui.pc = "index" /\ ~Queued /\ ~Committing
    BY <1>1, UiAtFields, IdleWriterFields, NoRequestFields DEF Queued, Committing
  <1>3. tx["writer"].pc = "off" /\ tx["ui"].pc = "off" /\ ~Readable(bundle)
    BY <1>1, NoRequestFields DEF Threads, Readable, Unreadable
  <1> QED BY <1>1, <1>2, <1>3 DEF CommitSound, CommitOrder, Published, DurableKept

(* The commits go in the order of the captures, and the manifests follow   *)
(* them, for any number of panes, captures, failures, crashes, launches.   *)
THEOREM CommitsAlwaysInOrder == Spec => []CommitInv
  <1>1. (StoreInv /\ TextInv /\ CommitInv) /\ [Next]_vars => CommitInv'
    BY CommitStep
  <1> QED BY InitCommits, StoreAlwaysSound, TextsAlwaysSound, <1>1, PTL DEF Spec

(* What the ledger, the queue, the writer, the files and the manifests say *)
(* of a capture agrees, as long as nobody resets the window positions.     *)
THEOREM CapturesAlwaysSound == Spec => []CaptureInv
  <1>1. TextInv /\ CommitInv => CaptureInv
    BY DEF CaptureInv
  <1> QED BY TextsAlwaysSound, CommitsAlwaysInOrder, <1>1, PTL

(* Once RestoreWriter has acknowledged a capture, a launch after any crash *)
(* and with one manifest lost restores that capture or a later one, and    *)
(* from the bundle with the very texts of the panes.                       *)
THEOREM CommittedAlwaysSurvives == Spec => []CommittedSurvives
  <1>1. StoreInv /\ TextInv /\ CommitInv => CommittedSurvives
    <2> SUFFICES ASSUME StoreInv, TextsSound, CommitSound, used.damages <= 1, used.durable > 0
                 PROVE  /\ Readable(Restorable) /\ Restorable.sess.gen >= used.durable
                        /\ Restorable = bundle =>
                             \A p \in bundle.sess.sb : bundle.ctx[p] = bundle.sess.want[p]
      BY DEF CommittedSurvives, TextInv, CommitInv, CommitSound
    <2>1. used.damages \in {0, 1}
      BY Numbers DEF StoreInv
    <2>2. bundle \in Manifests
      BY DEF Manifests
    <2>3. \A p \in bundle.sess.sb : bundle.ctx[p] = bundle.sess.want[p]
      BY <2>2 DEF TextsSound, ManifestTexts
    <2>4. CASE Readable(bundle)
      <3>1. PrefersBundle(bundle, index) /\ Decodes(bundle)
        BY <2>2, <2>4 DEF StoreInv, BundleNeverBehind, ManifestsDecode
      <3>2. Restorable = bundle
        BY <3>1 DEF Restorable
      <3> QED BY <2>3, <2>4, <3>2 DEF CommitSound, DurableKept
    <2>5. CASE ~Readable(bundle)
      <3>1. Restorable = index
        BY <2>5 DEF Restorable, PrefersBundle
      <3>2. Readable(index)
        BY <2>1, <2>5 DEF CommitSound, DurableKept
      <3> QED BY <2>3, <3>1, <3>2 DEF CommitSound, DurableKept
    <2> QED BY <2>4, <2>5
  <1> QED BY StoreAlwaysSound, TextsAlwaysSound, CommitsAlwaysInOrder, <1>1, PTL

--------------------------------------------------------------------------------
(* The final capture, as long as no write failed and no manifest was lost. *)

FinalSound == TextsNonZero /\ BundleIsLoaded /\ NoCommitFails /\ FinalOnItsWay

NoFault ==
  used.failures = 0 /\ used.damages = 0 /\ used'.failures = 0 /\ used'.damages = 0

(* Faults are never forgotten.                                             *)
LEMMA FaultsCounted ==
  ASSUME TypeOK, [Next]_vars
  PROVE  used'.failures >= used.failures /\ used'.damages >= used.damages
  <1>1. ASSUME SameNumbers PROVE used'.failures >= used.failures /\ used'.damages >= used.damages
    BY <1>1, Numbers DEF SameNumbers
  <1>2. ASSUME UNCHANGED used PROVE used'.failures >= used.failures /\ used'.damages >= used.damages
    BY <1>1, <1>2, SameUsed
  <1>3. ASSUME used'.failures = used.failures, used'.damages \in {used.damages, used.damages + 1}
        PROVE  used'.failures >= used.failures /\ used'.damages >= used.damages
    BY <1>3, Numbers
  <1>4. used \in Usage
    BY DEF TypeOK
  <1>5. CASE Ui
    <2>1. CASE \E p \in Panes : OpenTab(p) \/ Reopen(p) \/ Activate(p)
      BY <1>2, <2>1 DEF OpenTab, Reopen, Activate
    <2>2. CASE \E p \in Panes : Hydrate(p)
      BY <1>1, <2>2, HydrateNumbers
    <2>3. CASE \E p \in Panes, t \in Texts : CloseTab(p, t)
      BY <1>1, <2>3, CloseTabNumbers
    <2>4. CASE \E p \in Panes, t \in Texts : CapturePane(p, t)
      BY <1>2, <2>4 DEF CapturePane
    <2>5. CASE AutoSave \/ CloseWindow \/ \E hook \in BOOLEAN : Quit(hook)
      BY <1>3, <2>5, CaptureGen
    <2>6. CASE Submit
      BY <1>3, <2>6, SubmitFields
    <2>7. CASE Reset
      BY <1>3, <1>4, <2>7 DEF Reset, Usage
    <2>8. CASE LoadIndex \/ LoadBundle \/ Decode \/ Hydrated \/ LoadByIndex \/ LoadBackup
               \/ OpenRestored \/ ResetSaves \/ UiTxEnds
      BY <1>2, <2>8 DEF LoadIndex, LoadBundle, Decode, Hydrated, LoadByIndex, LoadBackup,
                        OpenRestored, ResetSaves, UiTxEnds
    <2> QED BY <1>5, <2>1, <2>2, <2>3, <2>4, <2>5, <2>6, <2>7, <2>8 DEF Ui
  <1>6. CASE Writer
    <2>1. CASE WriterTakes \/ WriterEnds \/ WriterSaves \/ WriterPrunes \/ WriterFails
      BY <1>2, <2>1 DEF WriterTakes, WriterEnds, WriterSaves, WriterPrunes, WriterFails
    <2>2. CASE WriterAcknowledges
      BY <1>3, <1>4, <2>2 DEF WriterAcknowledges, Usage
    <2>3. CASE \E p \in Panes : WriteContext(p)
      <3>1. PICK p \in Panes : WriteContext(p)
        BY <2>3
      <3>2. PICK r \in AtomicWrite(file, [file EXCEPT ![p] = writer.req.contexts[p].text]) :
              used' = Counted(r)
        BY <3>1 DEF WriteContext
      <3>3. r.ok \in BOOLEAN
        BY <3>2, WriteType
      <3> QED BY <1>1, <3>2, <3>3, CountedNumbers
    <2> QED BY <1>6, <2>1, <2>2, <2>3 DEF Writer
  <1>7. CASE \E t \in Threads : Transaction(t)
    BY <1>1, <1>7, TransactionMoves DEF Moves
  <1>8. CASE Crash \/ Exit
    BY <1>2, <1>8 DEF Crash, Exit
  <1>9. CASE Damage \/ Launch
    BY <1>3, <1>4, <1>9 DEF Damage, Launch, Usage
  <1>10. CASE UNCHANGED vars
    BY <1>2, <1>10 DEF vars
  <1> QED BY <1>5, <1>6, <1>7, <1>8, <1>9, <1>10 DEF Next

(* What a transaction adds to the manifests is its own session.            *)
LEMMA TransactionManifests ==
  ASSUME TypeOK, NEW t \in Threads, Transaction(t)
  PROVE  \A m \in Manifests' : m \in Manifests \/ m.sess = tx[t].sess
  <1> DEFINE b == BundleOf(tx[t], tx[t].token)
  <1>1. b.sess = tx[t].sess
    BY DEF BundleOf
  <1>2. CASE TxLock(t) \/ TxIndex(t) \/ \E p \in Panes : TxSidecar(t, p)
    BY <1>2 DEF TxLock, TxIndex, TxSidecar, Manifests, disk
  <1>3. CASE TxBundle(t)
    <2>1. Moves(t) /\ tx[t].pc = "sidecars" /\ UNCHANGED <<latest, archive>>
      BY <1>3, TxBundleMoves DEF TxBundle
    <2>2. bundle' = bundle \/ bundle'.sess = tx[t].sess
      BY <2>1 DEF Moves, Locks, Copies, PublishesBundle, SkipsBundle, PublishesIndex, BacksUp, Holds
    <2> QED BY <2>1, <2>2 DEF Manifests
  <1>4. CASE TxLatest(t)
    <2>1. PICK r \in AtomicWrite(latest, b) : latest' = r.now
      BY <1>4 DEF TxLatest
    <2>2. latest' \in {latest, b}
      BY <2>1, WriteType
    <2> HIDE DEF b
    <2> QED BY <1>1, <1>4, <2>2 DEF TxLatest, Manifests
  <1>5. CASE \E due \in BOOLEAN : TxArchive(t, due)
    <2>1. PICK due \in BOOLEAN : TxArchive(t, due)
      BY <1>5
    <2>2. PICK r \in IF due THEN AtomicWrite(archive, archive \cup {b})
                     ELSE {[now |-> archive, ok |-> TRUE]} : archive' = r.now
      BY <2>1 DEF TxArchive
    <2>3. archive' \in {archive, archive \cup {b}}
      <3>1. CASE r \in AtomicWrite(archive, archive \cup {b})
        BY <2>2, <3>1, WriteType
      <3>2. CASE r = [now |-> archive, ok |-> TRUE]
        BY <2>2, <3>2
      <3> QED BY <2>2, <3>1, <3>2
    <2> HIDE DEF b
    <2> QED BY <1>1, <2>1, <2>3 DEF TxArchive, Manifests
  <1>6. CASE \E kept \in SUBSET archive : TxPrune(t, kept)
    BY <1>6 DEF TxPrune, Manifests
  <1> QED BY <1>2, <1>3, <1>4, <1>5, <1>6 DEF Transaction

LEMMA TransactionFinal ==
  ASSUME StoreInv, TextsSound, CommitSound, FinalSound, NoFault, NEW t \in Threads, Transaction(t)
  PROVE  FinalSound'
  <1>1. TypeOK /\ t \in {"writer", "ui"} /\ "writer" \in Threads
    BY DEF StoreInv, Threads
  <1>2. Moves(t) /\ SameTransaction(t) /\ SameNumbers /\ ~Failing
    BY <1>1, TransactionMoves DEF Moves, Failing, NoFault
  <1>3. UNCHANGED <<file, queue, writer, saved, shown, ui>>
    BY TransactionFrames
  <1>4. (Queued' <=> Queued) /\ (Committing' <=> Committing)
    BY <1>3 DEF Queued, Committing
  <1>5. tx[t].pc # "off"
    BY <1>2 DEF Moves, Locks, Copies, PublishesBundle, SkipsBundle, PublishesIndex, BacksUp
  <1>6. CASE t = "ui"
    <2>1. tx'["writer"] = tx["writer"] /\ ui.pc = "remember" /\ tx["ui"].sess = ui.sess
      BY <1>1, <1>2, <1>5, <1>6 DEF SameTransaction, TextsSound, CopiesWanted
    <2>2. UNCHANGED <<bundle, index>>
      BY <1>2, <1>5, <1>6 DEF Moves, Locks, Copies, PublishesBundle, SkipsBundle, PublishesIndex,
                              BacksUp, CommitSound, Published
    <2>3. TextsNonZero'
      <3>1. \A m \in Manifests' : m \in Manifests \/ m.sess = ui.sess
        BY <1>1, <1>6, <2>1, TransactionManifests
      <3> QED BY <1>3, <3>1 DEF FinalSound, TextsNonZero, NonZero
    <2>4. BundleIsLoaded'
      BY <1>3, <2>1, <2>2 DEF FinalSound, BundleIsLoaded, Readable
    <2>5. NoCommitFails'
      BY <1>3, <1>4, <2>1 DEF FinalSound, NoCommitFails, Clears
    <2>6. FinalOnItsWay'
      BY <1>2, <1>3, <1>4, <2>2 DEF FinalSound, FinalOnItsWay, SameNumbers
    <2> QED BY <2>3, <2>4, <2>5, <2>6 DEF FinalSound
  <1>7. CASE t = "writer"
    <2>1. writer.pc = "saving" /\ tx["writer"].sess = writer.req.sess /\ Committing
          /\ tx["writer"].kind = "save"
      BY <1>5, <1>7 DEF TextsSound, CopiesWanted, Committing, CommitSound, Published
    <2>2. ui.pc \notin Loading
      BY <2>1, IdleWriterFields DEF TextsSound, LoadShows
    <2>3. TextsNonZero'
      <3>1. \A m \in Manifests' : m \in Manifests \/ m.sess = writer.req.sess
        BY <1>1, <1>7, <2>1, TransactionManifests
      <3> QED BY <1>3, <3>1 DEF FinalSound, TextsNonZero, NonZero
    <2>4. BundleIsLoaded'
      <3>1. Readable(index') => Readable(bundle')
        BY <1>2, <1>7, <2>1 DEF Moves, Locks, Copies, PublishesBundle, SkipsBundle, PublishesIndex,
                          BacksUp, CommitSound, Published, FinalSound, BundleIsLoaded, Holds
      <3> QED BY <1>3, <2>2, <3>1 DEF BundleIsLoaded, Loading, Readable
    <2>5. tx'["writer"].pc # "lock"
      BY <1>2, <1>7 DEF Moves, Locks, Copies, PublishesBundle, SkipsBundle, PublishesIndex, BacksUp
    <2>6. tx["writer"].pc = "sidecars" => \A p \in tx["writer"].todo : file[p] # 0
      <3> SUFFICES ASSUME tx["writer"].pc = "sidecars", NEW p \in tx["writer"].todo
                   PROVE  file[p] # 0
        OBVIOUS
      <3>1. p \in tx["writer"].sess.sb
        BY <1>1 DEF TextsSound, CopiesWanted, Holding
      <3>2. file[p] = tx["writer"].sess.want[p]
        BY <1>1, <3>1, FileIsWanted
      <3> QED BY <2>1, <3>1, <3>2 DEF FinalSound, TextsNonZero, NonZero
    <2>7. tx["writer"].pc = "lock" => (tx["writer"].sess.open = {} => tx["writer"].clear)
      BY DEF FinalSound, NoCommitFails, Clears
    <2>8. tx'["writer"].pc # "failed"
      BY <1>2, <1>7, <2>6, <2>7 DEF Moves, Locks, Copies, PublishesBundle, SkipsBundle,
                                    PublishesIndex, BacksUp
    <2>9. NoCommitFails'
      BY <1>3, <1>4, <2>5, <2>8 DEF FinalSound, NoCommitFails, Clears
    <2>10. FinalOnItsWay'
      BY <1>2, <1>3, <1>4, <2>1 DEF FinalSound, FinalOnItsWay, SameNumbers
    <2> QED BY <2>3, <2>4, <2>9, <2>10 DEF FinalSound
  <1> QED BY <1>1, <1>6, <1>7

(* What a step of the writer has to show: it leaves manifests and window.  *)
LEMMA WriterFrameFinal ==
  ASSUME FinalSound, UNCHANGED <<bundle, index, latest, archive, ui, saved, shown>>,
         NonZero(queue'.pending.sess), NonZero(writer'.req.sess), NoCommitFails', FinalOnItsWay'
  PROVE  FinalSound'
  <1>1. TextsNonZero'
    BY DEF FinalSound, TextsNonZero, Manifests, NonZero
  <1>2. BundleIsLoaded'
    BY DEF FinalSound, BundleIsLoaded, Readable
  <1> QED BY <1>1, <1>2 DEF FinalSound

LEMMA NoSessionNonZero == NonZero(NoSession)
  BY NoRequestFields DEF NonZero

LEMMA WriterFinal ==
  ASSUME StoreInv, TextsSound, CommitSound, FinalSound, NoFault, Writer
  PROVE  FinalSound'
  <1>1. TypeOK
    BY DEF StoreInv
  <1>2. UNCHANGED <<bundle, index, latest, archive, ui, saved, shown>>
    BY DEF Writer, WriterTakes, WriterEnds, WriterSaves, WriterAcknowledges,
           WriterPrunes, WriterFails, WriteContext, disk, window
  <1>3. NonZero(queue.pending.sess) /\ NonZero(writer.req.sess)
    BY DEF FinalSound, TextsNonZero
  <1>4. NoCommitFails /\ FinalOnItsWay
    BY DEF FinalSound
  <1>5. CASE WriterTakes
    <2>1. /\ writer.pc = "wait" /\ Queued /\ writer'.pc = "contexts" /\ writer'.req = queue.pending
          /\ queue'.pending = NoRequest /\ queue'.final = queue.final
          /\ queue'.closing = queue.closing /\ UNCHANGED <<used, tx>>
      BY <1>1, <1>5 DEF WriterTakes, TypeOK, Queues, Queued
    <2>2. ~Queued' /\ Committing' /\ ~Committing
      BY <2>1 DEF Queued, Committing
    <2>3. NonZero(queue'.pending.sess) /\ NonZero(writer'.req.sess)
      BY <1>3, <2>1, NoRequestFields, NoSessionNonZero
    <2>4. NoCommitFails'
      BY <1>2, <1>4, <2>1, <2>2 DEF NoCommitFails, Clears
    <2>5. FinalOnItsWay'
      BY <1>2, <1>4, <2>1, <2>2 DEF FinalOnItsWay
    <2> QED BY <1>2, <2>3, <2>4, <2>5, WriterFrameFinal
  <1>6. CASE WriterEnds
    <2>1. /\ writer.pc = "wait" /\ writer'.pc = "ended" /\ writer'.req = writer.req
          /\ queue.pending = NoRequest /\ queue.closing /\ UNCHANGED <<used, tx, queue>>
      BY <1>1, <1>6 DEF WriterEnds, TypeOK, Writers
    <2>2. ~Queued /\ ~Queued' /\ ~Committing' /\ ~Committing
      BY <2>1 DEF Queued, Committing
    <2>3. NoCommitFails'
      BY <1>2, <1>4, <2>1, <2>2 DEF NoCommitFails, Clears
    <2>4. FinalOnItsWay'
      BY <1>2, <1>4, <2>1, <2>2 DEF FinalOnItsWay
    <2> QED BY <1>2, <1>3, <2>1, <2>3, <2>4, WriterFrameFinal
  <1>7. CASE WriterPrunes
    <2>1. /\ writer.pc = "prune" /\ writer'.pc = "wait" /\ writer'.req.sess = NoSession
          /\ UNCHANGED <<used, tx, queue>>
      BY <1>7, IdleWriterFields, NoRequestFields DEF WriterPrunes
    <2>2. (Queued' <=> Queued) /\ ~Committing' /\ ~Committing
      BY <2>1 DEF Queued, Committing
    <2>3. NoCommitFails'
      BY <1>2, <1>4, <2>1, <2>2 DEF NoCommitFails, Clears
    <2>4. FinalOnItsWay'
      BY <1>2, <1>4, <2>1, <2>2 DEF FinalOnItsWay
    <2> QED BY <1>2, <1>3, <2>1, <2>3, <2>4, NoSessionNonZero, WriterFrameFinal
  <1>8. CASE \E p \in Panes : WriteContext(p)
    <2>1. PICK p \in Panes : WriteContext(p)
      BY <1>8
    <2>2. PICK r \in AtomicWrite(file, [file EXCEPT ![p] = writer.req.contexts[p].text]) :
            /\ used' = Counted(r)
            /\ writer' = [writer EXCEPT !.todo = @ \ {p}, !.pc = IF r.ok THEN @ ELSE "failed"]
      BY <2>1 DEF WriteContext
    <2>3. r.ok \in BOOLEAN
      BY <2>2, WriteType
    <2>4. SameNumbers /\ used'.failures = used.failures + (IF r.ok THEN 0 ELSE 1)
      BY <1>1, <2>2, <2>3, CountedNumbers
    <2>5. r.ok
      BY <2>3, <2>4 DEF NoFault
    <2>6. /\ writer'.req = writer.req /\ writer.pc = "contexts" /\ writer'.pc = "contexts"
          /\ UNCHANGED <<queue, tx>>
      BY <1>1, <2>1, <2>2, <2>5 DEF WriteContext, TypeOK, Writers
    <2>7. (Queued' <=> Queued) /\ Committing' /\ Committing
      BY <2>6 DEF Queued, Committing
    <2>8. NoCommitFails'
      BY <1>2, <1>4, <2>6, <2>7 DEF NoCommitFails, Clears
    <2>9. FinalOnItsWay'
      BY <1>2, <1>4, <2>4, <2>6, <2>7 DEF FinalOnItsWay, SameNumbers
    <2> QED BY <1>2, <1>3, <2>6, <2>8, <2>9, WriterFrameFinal
  <1>9. CASE WriterSaves
    <2>1. /\ writer.pc = "contexts" /\ UNCHANGED <<used, queue>> /\ writer'.req = writer.req
          /\ writer'.pc = "saving"
          /\ Begin("writer", "save", writer.req.sess, writer.req.clear,
                   writer.req.final \/ writer.req.clear)
      BY <1>1, <1>9 DEF WriterSaves, TypeOK, Writers
    <2>2. tx'["writer"].pc = "lock" /\ tx'["writer"].sess = writer.req.sess
          /\ tx'["writer"].clear = writer.req.clear
      BY <1>1, <2>1 DEF Begin, TypeOK, Threads, NoTx
    <2>3. (Queued' <=> Queued) /\ Committing' /\ Committing
      BY <2>1 DEF Queued, Committing
    <2>4. NoCommitFails'
      BY <1>2, <1>4, <2>1, <2>2, <2>3 DEF NoCommitFails, Clears
    <2>5. FinalOnItsWay'
      BY <1>2, <1>4, <2>1, <2>3 DEF FinalOnItsWay
    <2> QED BY <1>2, <1>3, <2>1, <2>4, <2>5, WriterFrameFinal
  <1>10. CASE WriterAcknowledges
    <2>1. PICK k : writer' = [writer EXCEPT !.pc = "prune", !.keep = k]
      BY <1>10 DEF WriterAcknowledges
    <2>2. /\ writer.pc = "saving" /\ tx["writer"].pc = "done" /\ UNCHANGED queue
          /\ tx' = [tx EXCEPT !["writer"] = NoTx]
          /\ used' = [used EXCEPT !.durable = writer.req.sess.gen]
      BY <1>10 DEF WriterAcknowledges
    <2>3. writer'.pc = "prune" /\ writer'.req = writer.req
      BY <1>1, <2>1 DEF TypeOK, Writers
    <2>4. used'.durable = writer.req.sess.gen /\ used'.final = used.final
      BY <1>1, <2>2 DEF TypeOK, Usage
    <2>5. Committing /\ ~Committing' /\ (Queued' <=> Queued)
      BY <2>2, <2>3 DEF Committing, Queued
    <2>6. tx'["writer"].pc = "off"
      BY <1>1, <2>2, NoRequestFields DEF TypeOK, Threads
    <2>7. Holds(bundle, writer.req.sess) /\ Holds(index, writer.req.sess)
      BY <1>1, <2>2, WriterSession DEF CommitSound, Published
    <2>8. NoCommitFails'
      BY <1>2, <1>4, <2>2, <2>3, <2>5, <2>6 DEF NoCommitFails, Clears
    <2>9. FinalOnItsWay'
      BY <1>2, <1>4, <2>2, <2>3, <2>4, <2>5, <2>7 DEF FinalOnItsWay, Holds
    <2> QED BY <1>2, <1>3, <2>2, <2>3, <2>8, <2>9, WriterFrameFinal
  <1>11. ~WriterFails
    BY <1>4 DEF WriterFails, NoCommitFails
  <1> QED BY <1>5, <1>6, <1>7, <1>8, <1>9, <1>10, <1>11 DEF Writer

(* What a step of the UI thread has to show.                               *)
UiFinal ==
  /\ NonZero(ui.src.sess) /\ NonZero(ui.sess) /\ \A p \in saved : shown[p] # 0
  /\ ui.pc = "bundle" => ui.idx = index
  /\ ui.pc \in {"decode", "hydrate"} /\ ui.next = 0 => ui.src = bundle /\ Readable(bundle)
  /\ ui.pc = "byIndex" => ~Readable(ui.idx)
  /\ ui.pc = "capture" => Clears(ui.sess, ui.clear) /\ (ui.hook => ui.final)

LEMMA FinalGivesUi == ASSUME FinalSound PROVE UiFinal
  BY DEF FinalSound, UiFinal, TextsNonZero, BundleIsLoaded, NoCommitFails, FinalOnItsWay

LEMMA UiFrameFinal ==
  ASSUME FinalSound, UiFinal', UNCHANGED <<bundle, index, latest, archive, queue, writer>>,
         tx'["writer"] = tx["writer"], used'.durable = used.durable, used'.final = used.final
  PROVE  FinalSound'
  <1>1. (Queued' <=> Queued) /\ (Committing' <=> Committing)
    BY DEF Queued, Committing
  <1>2. TextsNonZero'
    BY DEF FinalSound, TextsNonZero, Manifests, NonZero, UiFinal
  <1>3. BundleIsLoaded'
    BY DEF FinalSound, BundleIsLoaded, Readable, UiFinal
  <1>4. NoCommitFails'
    BY <1>1 DEF FinalSound, NoCommitFails, Clears, UiFinal
  <1>5. FinalOnItsWay'
    BY <1>1 DEF FinalSound, FinalOnItsWay, UiFinal
  <1> QED BY <1>2, <1>3, <1>4, <1>5 DEF FinalSound

LEMMA UiSameFinal ==
  ASSUME UiFinal, UNCHANGED <<bundle, index, ui>>, \A p \in saved' : shown'[p] # 0
  PROVE  UiFinal'
  BY DEF UiFinal, NonZero, Readable, Clears

(* UiAt says nothing of a session.                                         *)
LEMMA UiAtFinal ==
  ASSUME NEW pc, ui' = UiAt(pc), pc \notin {"bundle", "decode", "hydrate", "byIndex", "capture"},
         \A p \in saved' : shown'[p] # 0
  PROVE  UiFinal'
  <1>1. ui'.pc = pc /\ ui'.sess = NoSession /\ ui'.src.sess = NoSession
    BY UiAtFields
  <1> QED BY <1>1, NoSessionNonZero DEF UiFinal, NonZero

(* The tabs of the window.                                                 *)
LEMMA TabsFinal ==
  ASSUME StoreInv, TextsSound, FinalSound, NEW p \in Panes,
         OpenTab(p) \/ Reopen(p) \/ Activate(p) \/ \E t \in Texts : CloseTab(p, t)
  PROVE  FinalSound'
  <1>1. TypeOK /\ UiFinal
    BY FinalGivesUi DEF StoreInv
  <1>2. UNCHANGED <<bundle, index, latest, archive, queue, writer, tx, ui>>
    BY DEF OpenTab, Reopen, Activate, CloseTab, disk
  <1>3. SameNumbers
    BY <1>1, SameUsed, CloseTabNumbers DEF OpenTab, Reopen, Activate
  <1>4. \A q \in saved' : shown'[q] # 0
    <2>1. CASE OpenTab(p) \/ Reopen(p)
      BY <1>1, <2>1 DEF OpenTab, Reopen, UiFinal
    <2>2. CASE Activate(p)
      <3>1. saved' = saved \ {p} /\ \A q \in Panes : q # p => shown'[q] = shown[q]
        BY <1>1, <2>2 DEF Activate, TypeOK, WindowOK
      <3> QED BY <1>1, <3>1 DEF UiFinal, TypeOK, WindowOK
    <2>3. ASSUME NEW t \in Texts, CloseTab(p, t) PROVE \A q \in saved' : shown'[q] # 0
      <3>1. CASE tabs[p] = "parked"
        BY <1>1, <2>3, <3>1 DEF CloseTab, UiFinal
      <3>2. CASE tabs[p] = "live"
        <4> DEFINE e == Recorded(ledger[p], t)
        <4>1. /\ saved' = IF HasContext(e) THEN saved \cup {p} ELSE saved
              /\ shown' = [shown EXCEPT ![p] = IF HasContext(e) THEN e.hash ELSE 0]
          BY <2>3, <3>2 DEF CloseTab
        <4> HIDE DEF e
        <4>2. p \notin saved
          BY <3>2 DEF TextsSound, SavedShows
        <4>3. /\ shown'[p] = IF HasContext(e) THEN e.hash ELSE 0
              /\ \A q \in Panes : q # p => shown'[q] = shown[q]
          BY <1>1, <4>1 DEF TypeOK, WindowOK
        <4> QED BY <1>1, <4>1, <4>2, <4>3 DEF UiFinal, HasContext, TypeOK, WindowOK
      <3> QED BY <2>3, <3>1, <3>2 DEF CloseTab
    <2> QED BY <2>1, <2>2, <2>3
  <1>5. UiFinal'
    BY <1>1, <1>2, <1>4, UiSameFinal
  <1> QED BY <1>2, <1>3, <1>5, UiFrameFinal DEF SameNumbers

LEMMA CapturePaneFinal ==
  ASSUME StoreInv, TextsSound, FinalSound, NEW p \in Panes, NEW t \in Texts, CapturePane(p, t)
  PROVE  FinalSound'
  <1> DEFINE e   == Recorded(ledger[p], t)
             has == IF HasContext(e) THEN {p} ELSE {}
             h   == IF HasContext(e) THEN e.hash ELSE 0
  <1>1. TypeOK /\ UiFinal
    BY FinalGivesUi DEF StoreInv
  <1>2. /\ UNCHANGED <<bundle, index, latest, archive, queue, writer, tx, used, saved>>
        /\ ui.pc = "capture" /\ p \in ui.todo
        /\ ui' = [ui EXCEPT !.todo = @ \ {p}, !.keep = @ \cup has, !.sess.sb = @ \cup has,
                            !.sess.want[p] = h]
        /\ shown' = [shown EXCEPT ![p] = h]
    BY DEF CapturePane, disk
  <1>3. has \in {{}, {p}} /\ (p \in has => h # 0)
    BY DEF HasContext
  <1> HIDE DEF h, has
  <1>4. p \notin saved /\ p \notin ui.sess.sb
    BY <1>2 DEF TextsSound, CaptureShows, SavedShows
  <1>5. /\ ui'.pc = "capture" /\ ui'.src = ui.src /\ ui'.sess.sb = ui.sess.sb \cup has
        /\ ui'.sess.want[p] = h /\ \A q \in Panes : q # p => ui'.sess.want[q] = ui.sess.want[q]
        /\ ui.sess.sb \subseteq Panes
    BY <1>1, <1>2 DEF TypeOK, Uis, Session
  <1>6. /\ ui'.sess.open = ui.sess.open
        /\ ui'.clear = ui.clear /\ ui'.hook = ui.hook /\ ui'.final = ui.final
    BY <1>1, CapturePaneGen
  <1>7. NonZero(ui'.sess)
    <2> SUFFICES ASSUME NEW q \in ui'.sess.sb PROVE ui'.sess.want[q] # 0
      BY DEF NonZero
    <2>1. CASE q \in has
      BY <1>3, <1>5, <2>1
    <2>2. CASE q \in ui.sess.sb
      BY <1>1, <1>4, <1>5, <2>2 DEF UiFinal, NonZero
    <2> QED BY <1>5, <2>1, <2>2
  <1>8. \A q \in saved' : shown'[q] # 0
    BY <1>1, <1>2, <1>4 DEF UiFinal, TypeOK, WindowOK
  <1>9. UiFinal'
    BY <1>1, <1>2, <1>5, <1>6, <1>7, <1>8 DEF UiFinal, Clears
  <1> QED BY <1>2, <1>9, UiFrameFinal

LEMMA CapturesFinal ==
  ASSUME StoreInv, FinalSound, AutoSave \/ CloseWindow \/ \E hook \in BOOLEAN : Quit(hook)
  PROVE  FinalSound'
  <1>1. TypeOK /\ UiFinal
    BY FinalGivesUi DEF StoreInv
  <1>2. PICK ts, final, hook : CaptureSession(ts, final, hook) /\ (hook => final)
    BY DEF AutoSave, CloseWindow, Quit
  <1>3. /\ used'.durable = used.durable /\ used'.final = used.final
        /\ UNCHANGED <<bundle, index, latest, archive, queue, writer, tx>>
    BY <1>1, CaptureGen
  <1>4. UNCHANGED shown /\ saved' \subseteq saved
    BY DEF AutoSave, CloseWindow, Quit, window
  <1>5. /\ ui'.pc = "capture" /\ ui'.src.sess = NoSession /\ ui'.final = final /\ ui'.hook = hook
        /\ ui'.clear = (Open(ts) = {}) /\ ui'.sess.open = Open(ts)
        /\ ui'.sess.sb = {p \in saved : ts[p] = "parked"}
        /\ \A p \in Panes : p \in ui'.sess.sb => ui'.sess.want[p] = shown[p]
    BY <1>1, <1>2, CaptureFields
  <1>6. NonZero(ui'.sess)
    BY <1>1, <1>5 DEF NonZero, UiFinal, TypeOK, WindowOK
  <1>7. UiFinal'
    BY <1>1, <1>2, <1>4, <1>5, <1>6, NoSessionNonZero DEF UiFinal, Clears
  <1> QED BY <1>3, <1>7, UiFrameFinal

LEMMA SubmitFinal == ASSUME StoreInv, CommitSound, FinalSound, Submit PROVE FinalSound'
  <1>1. TypeOK /\ UiFinal
    BY FinalGivesUi DEF StoreInv
  <1>2. /\ ui.pc = "capture" /\ ui'.pc \in {"quit", "idle"}
        /\ UNCHANGED <<bundle, index, latest, archive, writer, tx, saved, shown>>
        /\ used'.durable = used.durable
        /\ \/ /\ Accepts(queue) /\ queue'.pending.sess = ui.sess
              /\ queue'.pending.clear = ui.clear
              /\ used'.final = IF ui.final THEN ui.sess.gen ELSE used.final
           \/ ~Accepts(queue) /\ queue'.pending = queue.pending /\ used'.final = used.final
        /\ queue'.final = (queue.final \/ (Accepts(queue) /\ ui.final))
        /\ queue'.closing = (queue.closing \/ ui.hook)
    BY <1>1, SubmitFields
  <1>3. queue.final \in BOOLEAN /\ queue.closing \in BOOLEAN /\ ui.hook \in BOOLEAN
        /\ ui.final \in BOOLEAN
    BY <1>1 DEF TypeOK, Queues, Uis
  <1>4. ui.hook => ui.final
    BY <1>1, <1>2 DEF UiFinal
  <1>5. ui' \in {UiAt("quit"), UiAt("idle")}
    BY DEF Submit
  <1>6. UiFinal'
    BY <1>1, <1>2, <1>5, UiAtFinal DEF UiFinal
  <1>7. Committing' <=> Committing
    BY <1>2 DEF Committing
  <1>8. CASE Accepts(queue)
    <2>1. ~queue.final /\ ~queue.closing /\ (queue'.final <=> ui.final)
          /\ (queue'.closing <=> ui.hook)
      BY <1>2, <1>3, <1>8 DEF Accepts
    <2>2. queue'.pending.sess = ui.sess /\ queue'.pending.clear = ui.clear
          /\ (ui.final => used'.final = ui.sess.gen)
      BY <1>2, <1>8
    <2>3. ui.sess.gen # 0
      BY <1>1, <1>2, Numbers DEF CommitSound, CommitOrder
    <2>4. Queued'
      BY <2>2, <2>3, NoRequestGen DEF Queued
    <2>5. TextsNonZero'
      BY <1>2, <1>6, <2>2 DEF FinalSound, TextsNonZero, Manifests, NonZero, UiFinal
    <2>6. BundleIsLoaded'
      BY <1>2, <1>6 DEF FinalSound, BundleIsLoaded, Readable, UiFinal
    <2>7. NoCommitFails'
      BY <1>2, <1>7, <2>2, <2>4 DEF FinalSound, NoCommitFails, Clears
    <2>8. FinalOnItsWay'
      BY <1>2, <1>4, <2>1, <2>2, <2>4 DEF FinalSound, FinalOnItsWay
    <2> QED BY <2>5, <2>6, <2>7, <2>8 DEF FinalSound
  <1>9. CASE ~Accepts(queue)
    <2>1. queue'.pending = queue.pending /\ used'.final = used.final /\ queue.final
      BY <1>2, <1>3, <1>9 DEF Accepts, FinalSound, FinalOnItsWay
    <2>2. queue'.final /\ (queue.closing => queue'.closing) /\ (Queued' <=> Queued)
      BY <1>2, <1>3, <2>1 DEF Queued
    <2>3. TextsNonZero'
      BY <1>2, <1>6, <2>1 DEF FinalSound, TextsNonZero, Manifests, NonZero, UiFinal
    <2>4. BundleIsLoaded'
      BY <1>2, <1>6 DEF FinalSound, BundleIsLoaded, Readable, UiFinal
    <2>5. NoCommitFails'
      BY <1>2, <1>7, <2>1, <2>2 DEF FinalSound, NoCommitFails, Clears
    <2>6. FinalOnItsWay'
      BY <1>2, <1>7, <2>1, <2>2 DEF FinalSound, FinalOnItsWay
    <2> QED BY <2>3, <2>4, <2>5, <2>6 DEF FinalSound
  <1> QED BY <1>8, <1>9

(* load: without a fault it reads the bundle, or finds nothing at all.     *)
LEMMA LoadIndexFinal == ASSUME TypeOK, FinalSound, LoadIndex PROVE FinalSound'
  <1>1. UiFinal
    BY FinalGivesUi
  <1>2. /\ ui' = [ui EXCEPT !.pc = "bundle", !.idx = index]
        /\ UNCHANGED <<bundle, index, latest, archive, queue, writer, tx, used, saved, shown>>
    BY DEF LoadIndex, disk, window
  <1>3. ui'.pc = "bundle" /\ ui'.idx = index /\ ui'.src = ui.src /\ ui'.sess = ui.sess
    BY <1>2 DEF TypeOK, Uis
  <1>4. UiFinal'
    BY <1>1, <1>2, <1>3 DEF UiFinal
  <1> QED BY <1>2, <1>4, UiFrameFinal

LEMMA LoadBundleFinal == ASSUME StoreInv, FinalSound, LoadBundle PROVE FinalSound'
  <1>1. TypeOK /\ UiFinal
    BY FinalGivesUi DEF StoreInv
  <1>2. /\ ui.pc = "bundle"
        /\ ui' = IF PrefersBundle(bundle, ui.idx) THEN [ui EXCEPT !.pc = "decode", !.src = bundle]
                 ELSE [ui EXCEPT !.pc = "byIndex"]
        /\ UNCHANGED <<bundle, index, latest, archive, queue, writer, tx, used, saved, shown>>
    BY DEF LoadBundle, disk, window
  <1>3. ui.idx = index
    BY <1>1, <1>2 DEF UiFinal
  <1>4. CASE PrefersBundle(bundle, ui.idx)
    <2>1. ui'.pc = "decode" /\ ui'.src = bundle /\ ui'.sess = ui.sess
      BY <1>1, <1>2, <1>4 DEF TypeOK, Uis
    <2>2. Readable(bundle) /\ NonZero(bundle.sess)
      BY <1>4 DEF PrefersBundle, FinalSound, TextsNonZero, Manifests
    <2>3. UiFinal'
      BY <1>1, <1>2, <2>1, <2>2 DEF UiFinal, Readable
    <2> QED BY <1>2, <2>3, UiFrameFinal
  <1>5. CASE ~PrefersBundle(bundle, ui.idx)
    <2>1. ui'.pc = "byIndex" /\ ui'.src = ui.src /\ ui'.sess = ui.sess /\ ui'.idx = ui.idx
      BY <1>1, <1>2, <1>5 DEF TypeOK, Uis
    <2>2. ~Readable(bundle)
      BY <1>3, <1>5 DEF StoreInv, BundleNeverBehind
    <2>3. ~Readable(ui.idx)
      BY <1>3, <2>2 DEF FinalSound, BundleIsLoaded
    <2>4. UiFinal'
      BY <1>1, <1>2, <2>1, <2>3 DEF UiFinal
    <2> QED BY <1>2, <2>4, UiFrameFinal
  <1> QED BY <1>4, <1>5

LEMMA GiveUpPc == ASSUME TypeOK, ui.next # 0 PROVE GiveUp.pc = "backup"
  BY DEF GiveUp, TypeOK, Uis

LEMMA DecodeFinal == ASSUME StoreInv, FinalSound, Decode PROVE FinalSound'
  <1>1. TypeOK /\ UiFinal
    BY FinalGivesUi DEF StoreInv
  <1>2. /\ ui.pc = "decode"
        /\ ui' = IF Decodes(ui.src) THEN [ui EXCEPT !.pc = "hydrate", !.todo = ui.src.sess.sb]
                 ELSE GiveUp
        /\ UNCHANGED <<bundle, index, latest, archive, queue, writer, tx, used, saved, shown>>
    BY DEF Decode, disk, window
  <1>3. CASE Decodes(ui.src)
    <2>1. ui'.pc = "hydrate" /\ ui'.src = ui.src /\ ui'.sess = ui.sess /\ ui'.next = ui.next
      BY <1>1, <1>2, <1>3 DEF TypeOK, Uis
    <2>2. UiFinal'
      BY <1>1, <1>2, <2>1 DEF UiFinal, Readable
    <2> QED BY <1>2, <2>2, UiFrameFinal
  <1>4. CASE ~Decodes(ui.src)
    <2>1. ui.next # 0
      BY <1>1, <1>2, <1>4 DEF UiFinal, StoreInv, ManifestsDecode, Manifests
    <2>2. ui'.pc = "backup" /\ ui'.src = ui.src /\ ui'.sess = ui.sess
      BY <1>1, <1>2, <1>4, <2>1, GiveUpPc, GiveUpFields
    <2>3. UiFinal'
      BY <1>1, <1>2, <2>2 DEF UiFinal
    <2> QED BY <1>2, <2>3, UiFrameFinal
  <1> QED BY <1>3, <1>4

LEMMA HydrateFinal ==
  ASSUME TypeOK, FinalSound, NoFault, NEW p \in Panes, Hydrate(p)
  PROVE  FinalSound'
  <1>1. UiFinal
    BY FinalGivesUi
  <1>2. PICK r \in AtomicWrite(file, [file EXCEPT ![p] = ui.src.ctx[p]]) :
          used' = Counted(r) /\ ui' = IF r.ok THEN [ui EXCEPT !.todo = @ \ {p}] ELSE GiveUp
    BY DEF Hydrate
  <1>3. r.ok \in BOOLEAN
    BY <1>2, WriteType
  <1>4. SameNumbers /\ used'.failures = used.failures + (IF r.ok THEN 0 ELSE 1)
    BY <1>2, <1>3, CountedNumbers
  <1>5. r.ok
    BY <1>3, <1>4 DEF NoFault
  <1>6. ui.pc = "hydrate" /\ UNCHANGED <<bundle, index, latest, archive, queue, writer, tx, saved, shown>>
    BY DEF Hydrate, window
  <1>7. /\ ui'.pc = "hydrate" /\ ui'.src = ui.src /\ ui'.sess = ui.sess /\ ui'.next = ui.next
    BY <1>2, <1>5, <1>6 DEF TypeOK, Uis
  <1>8. UiFinal'
    BY <1>1, <1>6, <1>7 DEF UiFinal, Readable
  <1> QED BY <1>4, <1>6, <1>8, UiFrameFinal DEF SameNumbers

LEMMA HydratedFinal == ASSUME TypeOK, FinalSound, Hydrated PROVE FinalSound'
  <1>1. UiFinal
    BY FinalGivesUi
  <1>2. /\ Return(ui.src.sess, TRUE)
        /\ UNCHANGED <<bundle, index, latest, archive, queue, writer, used, saved, shown>>
    BY DEF Hydrated, disk, window
  <1>3. ui' \in {[ui EXCEPT !.pc = "remember", !.sess = ui.src.sess],
                 [ui EXCEPT !.pc = "loaded", !.sess = ui.src.sess]}
    BY <1>2 DEF Return
  <1>4. ui'.pc \in {"remember", "loaded"} /\ ui'.sess = ui.src.sess /\ ui'.src = ui.src
    BY <1>3 DEF TypeOK, Uis
  <1>5. tx'["writer"] = tx["writer"]
    BY <1>2 DEF Return, Begin, TypeOK, Threads
  <1>6. UiFinal'
    BY <1>1, <1>2, <1>4 DEF UiFinal
  <1> QED BY <1>2, <1>5, <1>6, UiFrameFinal

LEMMA LoadByIndexFinal == ASSUME TypeOK, FinalSound, LoadByIndex PROVE FinalSound'
  <1>1. UiFinal
    BY FinalGivesUi
  <1>2. ui.pc = "byIndex" /\ ~Readable(ui.idx)
    BY <1>1 DEF LoadByIndex, UiFinal
  <1>3. /\ ui' = [ui EXCEPT !.pc = "backup", !.next = 1, !.src = Unreadable("missing")]
        /\ UNCHANGED <<bundle, index, latest, archive, queue, writer, used, tx, saved, shown>>
    BY <1>2 DEF LoadByIndex, disk, window
  <1>4. ui'.pc = "backup" /\ ui'.sess = ui.sess /\ ui'.src = Unreadable("missing")
    BY <1>3 DEF TypeOK, Uis
  <1>5. ui'.src.sess = NoSession
    BY <1>4 DEF Unreadable
  <1>6. UiFinal'
    BY <1>1, <1>3, <1>4, <1>5, NoSessionNonZero DEF UiFinal
  <1> QED BY <1>3, <1>6, UiFrameFinal

LEMMA LoadBackupFinal == ASSUME TypeOK, FinalSound, LoadBackup PROVE FinalSound'
  <1> DEFINE found == IF ui.next = 1 THEN {m \in {latest} : Readable(m)}
                      ELSE {m \in archive : Cardinality(Newer(m)) = ui.next - 2}
  <1>1. UiFinal
    BY FinalGivesUi
  <1>2. /\ ui.pc = "backup"
        /\ UNCHANGED <<bundle, index, latest, archive, queue, writer, used, tx, saved, shown>>
    BY DEF LoadBackup, disk, window
  <1>3. found \subseteq Manifests
    BY DEF Manifests
  <1>4. \/ \E m \in found : ui' = [ui EXCEPT !.pc = "decode", !.src = m, !.next = @ + 1]
        \/ ui' = [ui EXCEPT !.next = 2]
        \/ ui' = UiAt("idle")
    <2>1. CASE found # {}
      <3>1. (CHOOSE m \in found : TRUE) \in found
        BY <2>1
      <3> QED BY <2>1, <3>1 DEF LoadBackup
    <2>2. CASE found = {}
      BY <2>2 DEF LoadBackup
    <2> QED BY <2>1, <2>2
  <1> HIDE DEF found
  <1>5. CASE \E m \in found : ui' = [ui EXCEPT !.pc = "decode", !.src = m, !.next = @ + 1]
    <2>1. PICK m \in found : ui' = [ui EXCEPT !.pc = "decode", !.src = m, !.next = @ + 1]
      BY <1>5
    <2>2. PICK n : n = ui.next + 1
      OBVIOUS
    <2>3. n # 0
      BY <2>2 DEF TypeOK, Uis
    <2>4. ui'.pc = "decode" /\ ui'.sess = ui.sess /\ ui'.src = m /\ ui'.next = n
      BY <2>1, <2>2 DEF TypeOK, Uis
    <2>5. NonZero(m.sess)
      BY <1>3 DEF FinalSound, TextsNonZero
    <2>6. UiFinal'
      BY <1>1, <1>2, <2>3, <2>4, <2>5 DEF UiFinal
    <2> QED BY <1>2, <2>6, UiFrameFinal
  <1>6. CASE ui' = [ui EXCEPT !.next = 2]
    <2>1. ui'.pc = "backup" /\ ui'.sess = ui.sess /\ ui'.src = ui.src
      BY <1>2, <1>6 DEF TypeOK, Uis
    <2>2. UiFinal'
      BY <1>1, <1>2, <2>1 DEF UiFinal
    <2> QED BY <1>2, <2>2, UiFrameFinal
  <1>7. CASE ui' = UiAt("idle")
    <2>1. UiFinal'
      BY <1>1, <1>2, <1>7, UiAtFinal DEF UiFinal
    <2> QED BY <1>2, <2>1, UiFrameFinal
  <1> QED BY <1>4, <1>5, <1>6, <1>7

LEMMA OpenRestoredFinal == ASSUME FinalSound, OpenRestored PROVE FinalSound'
  <1>1. UiFinal
    BY FinalGivesUi
  <1>2. /\ saved' = ui.sess.sb /\ shown' = ui.sess.want /\ ui' = UiAt("idle")
        /\ UNCHANGED <<bundle, index, latest, archive, queue, writer, used, tx>>
    BY DEF OpenRestored, disk
  <1>3. UiFinal'
    BY <1>1, <1>2, UiAtFinal DEF UiFinal, NonZero
  <1> QED BY <1>2, <1>3, UiFrameFinal

LEMMA UiTxEndsFinal == ASSUME TypeOK, FinalSound, UiTxEnds PROVE FinalSound'
  <1>1. UiFinal
    BY FinalGivesUi
  <1>2. /\ ui' = [ui EXCEPT !.pc = "loaded"] \/ ui' = UiAt("idle")
        /\ tx' = [tx EXCEPT !["ui"] = NoTx]
        /\ UNCHANGED <<bundle, index, latest, archive, queue, writer, used, saved, shown>>
    BY DEF UiTxEnds, disk, window
  <1>3. tx'["writer"] = tx["writer"]
    BY <1>2 DEF TypeOK, Threads
  <1>4. UiFinal'
    <2>1. CASE ui' = [ui EXCEPT !.pc = "loaded"]
      <3>1. ui'.pc = "loaded" /\ ui'.sess = ui.sess /\ ui'.src = ui.src
        BY <2>1 DEF TypeOK, Uis
      <3> QED BY <1>1, <1>2, <3>1 DEF UiFinal
    <2>2. CASE ui' = UiAt("idle")
      BY <1>1, <1>2, <2>2, UiAtFinal DEF UiFinal
    <2> QED BY <1>2, <2>1, <2>2
  <1> QED BY <1>2, <1>3, <1>4, UiFrameFinal

LEMMA UiStepFinal ==
  ASSUME StoreInv, TextsSound, CommitSound, FinalSound, NoFault, Ui, ~Reset
  PROVE  FinalSound'
  <1>1. TypeOK
    BY DEF StoreInv
  <1>2. CASE \E p \in Panes : OpenTab(p) \/ Reopen(p) \/ Activate(p) \/ Hydrate(p)
    BY <1>1, <1>2, TabsFinal, HydrateFinal
  <1>3. CASE \E p \in Panes, t \in Texts : CloseTab(p, t) \/ CapturePane(p, t)
    BY <1>3, TabsFinal, CapturePaneFinal
  <1>4. CASE AutoSave \/ CloseWindow \/ \E hook \in BOOLEAN : Quit(hook)
    BY <1>4, CapturesFinal
  <1>5. CASE Submit
    BY <1>5, SubmitFinal
  <1>6. CASE \/ LoadIndex \/ LoadBundle \/ Decode \/ Hydrated \/ LoadByIndex \/ LoadBackup
             \/ OpenRestored \/ UiTxEnds
    BY <1>1, <1>6, LoadIndexFinal, LoadBundleFinal, DecodeFinal, HydratedFinal, LoadByIndexFinal,
       LoadBackupFinal, OpenRestoredFinal, UiTxEndsFinal
  <1>7. ~ResetSaves
    BY DEF ResetSaves, TextsSound, LoadShows
  <1> QED BY <1>2, <1>3, <1>4, <1>5, <1>6, <1>7 DEF Ui

--------------------------------------------------------------------------------
(* The end of the process, the next launch, and the theorem.               *)

LEMMA EndFinal == ASSUME FinalSound, Crash \/ Exit PROVE FinalSound'
  <1>1. /\ ui' = UiAt("dead") /\ queue' = EmptyQueue /\ writer' = IdleWriter /\ saved' = {}
        /\ tx' = [t \in Threads |-> NoTx] /\ UNCHANGED <<bundle, index, latest, archive>>
    BY DEF Crash, Exit, Forgotten, disk
  <1>2. ui'.pc = "dead" /\ tx'["writer"].pc = "off"
    BY <1>1, UiAtFields, NoRequestFields DEF Threads
  <1>3. UiFinal'
    BY <1>1, UiAtFinal
  <1>4. \A m \in Manifests' : NonZero(m.sess)
    BY <1>1 DEF FinalSound, TextsNonZero, Manifests
  <1>5. Readable(index') => Readable(bundle')
    BY <1>1 DEF FinalSound, BundleIsLoaded
  <1>6. TextsNonZero' /\ BundleIsLoaded'
    <2>1. queue'.pending.sess = NoSession /\ writer'.req.sess = NoSession
      BY <1>1, NoRequestFields
    <2> QED BY <1>3, <1>4, <1>5, <2>1, NoSessionNonZero
            DEF TextsNonZero, BundleIsLoaded, UiFinal, Readable, NonZero
  <1>7. ~Queued' /\ ~Committing' /\ writer'.pc = "wait"
    BY <1>1, IdleWriterFields, NoRequestFields DEF Queued, Committing
  <1>8. ~queue'.final /\ ~queue'.closing
    BY <1>1 DEF EmptyQueue
  <1>9. NoCommitFails' /\ FinalOnItsWay'
    BY <1>2, <1>7, <1>8 DEF NoCommitFails, FinalOnItsWay
  <1> QED BY <1>6, <1>9 DEF FinalSound

LEMMA LaunchFinal == ASSUME TypeOK, FinalSound, Launch PROVE FinalSound'
  <1>1. UiFinal
    BY FinalGivesUi
  <1>2. /\ ui' = UiAt("index") /\ used' = [used EXCEPT !.launches = @ + 1]
        /\ UNCHANGED <<bundle, index, latest, archive, queue, writer, tx, saved, shown>>
    BY DEF Launch, disk, window
  <1>3. used'.durable = used.durable /\ used'.final = used.final
    BY <1>2 DEF TypeOK, Usage
  <1>4. UiFinal'
    BY <1>1, <1>2, UiAtFinal DEF UiFinal
  <1> QED BY <1>2, <1>3, <1>4, UiFrameFinal

Faultless == used.failures = 0 /\ used.damages = 0 /\ used.resets = 0

LEMMA FaultlessSum ==
  ASSUME TypeOK
  PROVE  (used.failures + used.damages + used.resets = 0) <=> Faultless
  <1>1. used.failures \in Nat /\ used.damages \in Nat /\ used.resets \in Nat
    BY Numbers
  <1>2. ASSUME NEW a \in Nat, NEW b \in Nat, NEW c \in Nat
        PROVE  (a + b + c = 0) <=> (a = 0 /\ b = 0 /\ c = 0)
    BY <1>2
  <1> QED BY <1>1, <1>2 DEF Faultless

LEMMA FinalStep ==
  StoreInv /\ TextInv /\ CommitInv /\ (Faultless => FinalSound) /\ [Next]_vars =>
    (Faultless => FinalSound)'
  <1> SUFFICES ASSUME StoreInv, TextInv, CommitInv, Faultless => FinalSound, [Next]_vars, Faultless'
               PROVE  FinalSound'
    OBVIOUS
  <1>1. TypeOK
    BY DEF StoreInv
  <1>2. used.resets = 0 /\ ~Reset
    BY <1>1, ResetsCounted DEF Faultless
  <1>3. used'.failures >= used.failures /\ used'.damages >= used.damages
    BY <1>1, FaultsCounted
  <1>4. used.failures = 0 /\ used.damages = 0
    BY <1>1, <1>3, Numbers DEF Faultless
  <1>5. NoFault /\ FinalSound /\ TextsSound /\ CommitSound
    BY <1>2, <1>4 DEF Faultless, NoFault, TextInv, CommitInv, CommitSound
  <1>6. ~Damage
    <2> SUFFICES ASSUME Damage PROVE FALSE
      OBVIOUS
    <2>1. used' = [used EXCEPT !.damages = @ + 1]
      BY DEF Damage
    <2>2. used'.damages = used.damages + 1
      BY <1>1, <2>1 DEF TypeOK, Usage
    <2> QED BY <1>5, <2>2 DEF NoFault
  <1>7. CASE UNCHANGED vars
    <2>1. UNCHANGED <<bundle, index, latest, archive, queue, writer, tx, used, ui, saved, shown>>
      BY <1>7 DEF vars
    <2>2. UiFinal'
      BY <1>5, <2>1, FinalGivesUi, UiSameFinal DEF UiFinal
    <2> QED BY <1>5, <2>1, <2>2, UiFrameFinal
  <1> QED BY <1>1, <1>2, <1>5, <1>6, <1>7, UiStepFinal, WriterFinal, TransactionFinal, EndFinal,
             LaunchFinal DEF Next

LEMMA InitFinal == Init => FinalSound
  <1> SUFFICES ASSUME Init PROVE FinalSound
    OBVIOUS
  <1>1. /\ ui = UiAt("index") /\ queue = EmptyQueue /\ writer = IdleWriter /\ saved = {}
        /\ tx = [t \in Threads |-> NoTx] /\ bundle = Unreadable("missing") /\ index = bundle
        /\ latest = bundle /\ archive = {}
    BY DEF Init
  <1>2. /\ ui.pc = "index" /\ ui.sess = NoSession /\ ui.src.sess = NoSession
        /\ tx["writer"].pc = "off"
    BY <1>1, UiAtFields, NoRequestFields DEF Threads
  <1>3. bundle.sess = NoSession /\ ~Readable(index)
    BY <1>1 DEF Unreadable, Readable
  <1>4. \A m \in Manifests : m = bundle
    BY <1>1 DEF Manifests
  <1>5. UiFinal
    BY <1>1, <1>2, NoSessionNonZero DEF UiFinal
  <1>6. queue.pending.sess = NoSession /\ writer.req.sess = NoSession
    BY <1>1, NoRequestFields
  <1>7. ~Queued /\ ~Committing /\ writer.pc = "wait" /\ ~queue.final /\ ~queue.closing
    BY <1>1, IdleWriterFields, NoRequestFields DEF Queued, Committing, EmptyQueue
  <1>8. TextsNonZero
    BY <1>3, <1>4, <1>5, <1>6, NoSessionNonZero DEF TextsNonZero, UiFinal
  <1>9. BundleIsLoaded /\ NoCommitFails /\ FinalOnItsWay
    BY <1>2, <1>3, <1>7 DEF BundleIsLoaded, NoCommitFails, FinalOnItsWay
  <1> QED BY <1>8, <1>9 DEF FinalSound

(* As long as no write fails and no manifest is lost, every pane that is   *)
(* saved with scrollback has a text, so that no commit fails, and the final*)
(* capture is in the queue, with the writer, or on disk.                   *)
THEOREM FinalAlwaysOnItsWay == Spec => []FinalInv
  <1>1. Init => (Faultless => FinalSound)
    BY InitFinal
  <1>2. (StoreInv /\ TextInv /\ CommitInv) /\ (Faultless => FinalSound) /\ [Next]_vars =>
          (Faultless => FinalSound)'
    BY FinalStep
  <1>3. StoreInv /\ (Faultless => FinalSound) => FinalInv
    BY FaultlessSum DEF StoreInv, FinalInv, FinalSound
  <1> QED BY StoreAlwaysSound, TextsAlwaysSound, CommitsAlwaysInOrder, <1>1, <1>2, <1>3, PTL
          DEF Spec

(* on_app_quit joins a writer thread that has committed the final capture  *)
(* and nothing after it: both the bundle and the index have it.            *)
THEOREM FinalCaptureAlwaysWins == Spec => []FinalCaptureWins
  <1>1. FinalInv => FinalCaptureWins
    <2> SUFFICES ASSUME TextsNonZero /\ BundleIsLoaded /\ NoCommitFails /\ FinalOnItsWay,
                        writer.pc = "ended"
                 PROVE  /\ used.durable = used.final
                        /\ used.final \in {bundle.sess.gen} \cap {index.sess.gen}
      BY DEF FinalInv, FinalCaptureWins
    <2>1. queue.final /\ ~Queued /\ ~Committing
      BY DEF FinalOnItsWay, Committing
    <2> QED BY <2>1 DEF FinalOnItsWay
  <1> QED BY FinalAlwaysOnItsWay, <1>1, PTL

================================================================================
