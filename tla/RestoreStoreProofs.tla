--------------------------- MODULE RestoreStoreProofs ---------------------------
(***************************************************************************)
(* The store of RestoreStore for any number of panes, texts, captures,     *)
(* failures, crashes and resets: its manifests always decode, and load     *)
(* never prefers an index to the bundle behind which it lies.              *)
(***************************************************************************)
EXTENDS RestoreStore, TLAPS

--------------------------------------------------------------------------------
(* The constants of the model have their types.                            *)

LEMMA NoTextType == NoText \in [Panes -> Texts]
  BY RestoreAssumption DEF NoText, Texts

LEMMA NoSessionType == NoSession \in Session
  BY NoTextType DEF NoSession, Session

LEMMA UnreadableType == \A st \in {"missing", "bad"} : Unreadable(st) \in Manifest
  BY NoTextType, NoSessionType DEF Unreadable, Manifest

LEMMA NoRequestType == NoRequest \in Request
  <1>1. NoBuffer \in Buffer
    BY RestoreAssumption DEF NoBuffer, Buffer, Texts
  <1> QED BY <1>1, NoSessionType DEF NoRequest, Request

LEMMA NoEntryType == NoEntry \in Entries
  BY RestoreAssumption DEF NoEntry, Entries, Texts

LEMMA NoTxType == NoTx \in Txs
  BY NoTextType, NoSessionType DEF NoTx, Txs

LEMMA EmptyQueueType == EmptyQueue \in Queues
  BY NoRequestType DEF EmptyQueue, Queues

LEMMA IdleWriterType == IdleWriter \in Writers
  BY NoRequestType DEF IdleWriter, Writers

LEMMA UiAtType ==
  ASSUME NEW pc \in {"index", "idle", "capture", "quit", "dead"}
  PROVE  UiAt(pc) \in Uis
  BY NoSessionType, UnreadableType DEF UiAt, Uis

(* The initial state satisfies the whole invariant.                        *)
LEMMA InitStore == Init => StoreInv
  <1> SUFFICES ASSUME Init PROVE StoreInv OBVIOUS
  <1>1. TypeOK
    <2>1. DiskOK
      BY NoTextType, UnreadableType DEF Init, DiskOK
    <2>2. WindowOK
      BY NoTextType DEF Init, WindowOK
    <2>3. ledger \in [Panes -> Entries] /\ nextVersion \in Nat
      BY NoEntryType DEF Init
    <2>4. queue \in Queues /\ writer \in Writers /\ ui \in Uis
      BY EmptyQueueType, IdleWriterType, UiAtType DEF Init
    <2>5. tx \in [Threads -> Txs] /\ lock \in Threads \cup {None}
      BY NoTxType DEF Init
    <2>6. once \in [imported : BOOLEAN, archived : BOOLEAN] /\ used \in Usage
      BY DEF Init, Usage
    <2> QED BY <2>1, <2>2, <2>3, <2>4, <2>5, <2>6 DEF TypeOK
  <1>2. \A t \in Threads : tx[t].pc = "off"
    BY DEF Init, NoTx
  <1>3. HoldersLock /\ CopiesKept /\ ParentIsIndex /\ OwnBundleFirst
    BY <1>2 DEF HoldersLock, CopiesKept, ParentIsIndex, OwnBundleFirst, Holding
  <1>4. DeadIsStill
    BY <1>2 DEF Init, DeadIsStill
  <1>5. ManifestsDecode /\ BundleNeverBehind
    BY DEF Init, ManifestsDecode, BundleNeverBehind, Manifests, Readable, Unreadable
  <1> QED BY <1>1, <1>3, <1>4, <1>5 DEF StoreInv

--------------------------------------------------------------------------------
(* Types: the values that the actions build.                               *)

LEMMA OpenType == ASSUME NEW ts PROVE Open(ts) \in SUBSET Panes
  BY DEF Open

LEMMA RecordedType ==
  ASSUME TypeOK, NEW p \in Panes, NEW t \in Texts
  PROVE  Recorded(ledger[p], t) \in Entries
  <1>1. Entry(nextVersion + 1, t) \in Entries
    BY DEF TypeOK, Entry, Entries
  <1> QED BY <1>1 DEF Recorded, TypeOK

LEMMA RecordType ==
  ASSUME TypeOK, NEW p \in Panes, NEW t \in Texts, Record(p, t)
  PROVE  ledger' \in [Panes -> Entries] /\ nextVersion' \in Nat
  BY RecordedType DEF Record, TypeOK

LEMMA HashType ==
  ASSUME TypeOK, NEW p \in Panes, NEW t \in Texts
  PROVE  Recorded(ledger[p], t).hash \in Texts
  BY RecordedType DEF Entries

LEMMA SnapshotType == TypeOK => Snapshot(ledger) \in [Panes -> Buffer]
  BY RestoreAssumption DEF Snapshot, TypeOK, Entries, Buffer, NoBuffer, Texts

LEMMA CaptureType ==
  ASSUME TypeOK, NEW ts, NEW final \in BOOLEAN, NEW hook \in BOOLEAN,
         CaptureSession(ts, final, hook)
  PROVE  ui' \in Uis /\ ui'.pc = "capture"
  <1> DEFINE parked == {p \in saved : ts[p] = "parked"}
             want   == [p \in Panes |-> IF p \in parked THEN shown[p] ELSE 0]
             s      == [gen |-> used.gen + 1, open |-> Open(ts), sb |-> parked, want |-> want]
             todo   == {p \in Panes : ts[p] = "live"}
             keep   == {p \in saved : ts[p] \in {"parked", "closed"}}
  <1>1. want \in [Panes -> Texts]
    BY RestoreAssumption DEF TypeOK, WindowOK, Texts
  <1>2. s \in Session
    BY <1>1, OpenType DEF TypeOK, WindowOK, Usage, Session
  <1>3. todo \in SUBSET Panes /\ keep \in SUBSET Panes
    BY DEF TypeOK, WindowOK
  <1>4. ui' = [UiAt("capture") EXCEPT !.sess = s, !.todo = todo, !.keep = keep,
                                      !.clear = (Open(ts) = {}), !.final = final, !.hook = hook]
    BY DEF CaptureSession
  <1>5. UiAt("capture") \in Uis /\ UiAt("capture").pc = "capture"
    BY UiAtType DEF UiAt
  <1>6. (Open(ts) = {}) \in BOOLEAN
    OBVIOUS
  <1> HIDE DEF s, todo, keep
  <1> QED BY <1>2, <1>3, <1>4, <1>5, <1>6 DEF Uis

LEMMA CountedType ==
  ASSUME TypeOK, NEW r
  PROVE  Counted(r) \in Usage
  BY DEF Counted, TypeOK, Usage

LEMMA WriteType ==
  ASSUME NEW old, NEW new, NEW r \in AtomicWrite(old, new)
  PROVE  r.now \in {old, new} /\ r.ok \in BOOLEAN /\ (r.ok => r.now = new)
  <1>1. CASE r = [now |-> new, ok |-> TRUE]
    BY <1>1
  <1>2. CASE \E f \in {old, new} : r = [now |-> f, ok |-> FALSE]
    <2>1. PICK f \in {old, new} : r = [now |-> f, ok |-> FALSE]
      BY <1>2
    <2>2. r.now = f /\ r.ok = FALSE
      BY <2>1
    <2> QED BY <2>2
  <1> QED BY <1>1, <1>2 DEF AtomicWrite

LEMMA BundleOfType ==
  ASSUME NEW x \in Txs, NEW token \in Nat
  PROVE  BundleOf(x, token) \in Manifest
  BY DEF BundleOf, Txs, Manifest

--------------------------------------------------------------------------------
(* Types: one lemma per action.                                            *)

LEMMA OpenTabType == ASSUME TypeOK, NEW p \in Panes, OpenTab(p) PROVE TypeOK'
  BY DEF TypeOK, DiskOK, WindowOK, OpenTab, disk, buffers

LEMMA ReopenType == ASSUME TypeOK, NEW p \in Panes, Reopen(p) PROVE TypeOK'
  BY DEF TypeOK, DiskOK, WindowOK, Reopen, disk, buffers

LEMMA ContextType == ASSUME TypeOK, NEW p \in Panes PROVE Context(p) \in Texts
  BY RestoreAssumption DEF TypeOK, DiskOK, Context, Entries, Texts

LEMMA ActivateType == ASSUME TypeOK, NEW p \in Panes, Activate(p) PROVE TypeOK'
  BY ContextType DEF TypeOK, DiskOK, WindowOK, Activate, disk, buffers

LEMMA CloseTabType ==
  ASSUME TypeOK, NEW p \in Panes, NEW t \in Texts, CloseTab(p, t)
  PROVE  TypeOK'
  <1>1. DiskOK' /\ queue' \in Queues /\ writer' \in Writers /\ ui' \in Uis
        /\ tx' \in [Threads -> Txs] /\ lock' \in Threads \cup {None}
        /\ once' \in [imported : BOOLEAN, archived : BOOLEAN]
    BY DEF CloseTab, TypeOK, DiskOK, disk
  <1>2. used' \in Usage
    BY DEF CloseTab, TypeOK, Usage
  <1>3. tabs' \in [Panes -> {"none", "live", "parked", "closed", "gone"}]
    BY DEF CloseTab, TypeOK, WindowOK
  <1>4. ledger' \in [Panes -> Entries] /\ nextVersion' \in Nat
    <2>1. CASE Record(p, t)
      BY <2>1, RecordType
    <2>2. CASE UNCHANGED buffers
      BY <2>2 DEF buffers, TypeOK
    <2> QED BY <2>1, <2>2 DEF CloseTab
  <1>5. saved' \subseteq Panes /\ shown' \in [Panes -> Texts]
    BY HashType, RestoreAssumption DEF CloseTab, TypeOK, WindowOK, Texts
  <1> QED BY <1>1, <1>2, <1>3, <1>4, <1>5 DEF TypeOK, WindowOK

LEMMA CapturePaneType ==
  ASSUME TypeOK, NEW p \in Panes, NEW t \in Texts, CapturePane(p, t)
  PROVE  TypeOK'
  <1>1. DiskOK' /\ queue' \in Queues /\ writer' \in Writers
        /\ tx' \in [Threads -> Txs] /\ lock' \in Threads \cup {None}
        /\ once' \in [imported : BOOLEAN, archived : BOOLEAN] /\ used' \in Usage
    BY DEF CapturePane, TypeOK, DiskOK, disk
  <1>2. ledger' \in [Panes -> Entries] /\ nextVersion' \in Nat
    BY RecordType DEF CapturePane
  <1> DEFINE e   == Recorded(ledger[p], t)
             has == IF HasContext(e) THEN {p} ELSE {}
             h   == IF HasContext(e) THEN e.hash ELSE 0
  <1>3. h \in Texts /\ has \in SUBSET Panes
    BY HashType, RestoreAssumption DEF Texts
  <1>4. ui' = [ui EXCEPT !.todo = @ \ {p}, !.keep = @ \cup has, !.sess.sb = @ \cup has,
                         !.sess.want[p] = h]
    BY DEF CapturePane
  <1>5. shown' = [shown EXCEPT ![p] = h] /\ UNCHANGED <<tabs, saved>>
    BY DEF CapturePane
  <1> HIDE DEF h, has
  <1>6. ui' \in Uis
    BY <1>3, <1>4 DEF TypeOK, Uis, Session
  <1>7. WindowOK'
    BY <1>3, <1>5 DEF TypeOK, WindowOK
  <1> QED BY <1>1, <1>2, <1>6, <1>7 DEF TypeOK

LEMMA UsageType ==
  ASSUME NEW u \in Usage, NEW n \in Nat, NEW m \in Nat
  PROVE  /\ [u EXCEPT !.gen = n, !.captures = m] \in Usage
         /\ [u EXCEPT !.gen = n, !.quits = m] \in Usage
  BY DEF Usage

LEMMA SavingType ==
  ASSUME TypeOK, AutoSave \/ CloseWindow \/ \E hook \in BOOLEAN : Quit(hook)
  PROVE  TypeOK' /\ ui'.pc = "capture"
  <1>1. ui' \in Uis /\ ui'.pc = "capture"
    <2>1. CASE AutoSave
      <3>1. CaptureSession(tabs, FALSE, FALSE)
        BY <2>1 DEF AutoSave
      <3> QED BY <3>1, CaptureType
    <2>2. CASE CloseWindow
      <3>1. CaptureSession(tabs', FALSE, FALSE)
        BY <2>2 DEF CloseWindow
      <3> QED BY <3>1, CaptureType
    <2>3. CASE \E hook \in BOOLEAN : Quit(hook)
      <3>1. PICK hook \in BOOLEAN : Quit(hook)
        BY <2>3
      <3>2. CaptureSession(tabs, TRUE, hook)
        BY <3>1 DEF Quit
      <3> QED BY <3>2, CaptureType
    <2> QED BY <2>1, <2>2, <2>3
  <1>2. used' \in Usage
    <2>1. used \in Usage /\ used.gen + 1 \in Nat /\ used.captures + 1 \in Nat
          /\ used.quits \in Nat /\ used.quits + 1 \in Nat
      BY DEF TypeOK, Usage
    <2>2. CASE AutoSave \/ CloseWindow
      <3>1. used' = [used EXCEPT !.gen = used.gen + 1, !.captures = used.captures + 1]
        BY <2>2 DEF AutoSave, CloseWindow
      <3> QED BY <2>1, <3>1, UsageType
    <2>3. CASE \E hook \in BOOLEAN : Quit(hook)
      <3>1. \/ used' = [used EXCEPT !.gen = used.gen + 1, !.quits = used.quits]
            \/ used' = [used EXCEPT !.gen = used.gen + 1, !.quits = used.quits + 1]
        BY <2>3 DEF Quit
      <3> QED BY <2>1, <3>1, UsageType
    <2> QED BY <2>2, <2>3
  <1>3. WindowOK'
    BY DEF AutoSave, CloseWindow, Quit, TypeOK, WindowOK, window
  <1>4. UNCHANGED <<disk, buffers, queue, writer, tx, lock, once>>
    BY DEF AutoSave, CloseWindow, Quit
  <1> QED BY <1>1, <1>2, <1>3, <1>4 DEF TypeOK, DiskOK, disk, buffers

LEMMA SubmitType ==
  ASSUME TypeOK, Submit
  PROVE  TypeOK' /\ ui'.pc # "dead"
  <1> DEFINE req == [sess |-> ui.sess, clear |-> ui.clear, keep |-> ui.keep,
                     final |-> ui.final, contexts |-> Snapshot(ledger)]
  <1>1. req \in Request
    BY SnapshotType DEF Request, TypeOK, Uis
  <1>2. queue' = [pending |-> IF Accepts(queue) THEN req ELSE queue.pending,
                  final   |-> queue.final \/ (Accepts(queue) /\ ui.final),
                  closing |-> queue.closing \/ ui.hook]
    BY DEF Submit
  <1> HIDE DEF req
  <1>3. queue' \in Queues
    <2>1. queue.pending \in Request
      BY DEF TypeOK, Queues
    <2> QED BY <1>1, <1>2, <2>1 DEF Queues
  <1>4. ui' \in Uis /\ ui'.pc # "dead"
    <2>1. CASE ui' = UiAt("quit")
      BY <2>1, UiAtType DEF UiAt
    <2>2. CASE ui' = UiAt("idle")
      BY <2>2, UiAtType DEF UiAt
    <2> QED BY <2>1, <2>2 DEF Submit
  <1>5. used' \in Usage
    BY DEF Submit, TypeOK, Usage, Uis, Session
  <1>6. UNCHANGED <<disk, window, buffers, writer, tx, lock, once>>
    BY DEF Submit
  <1> QED BY <1>3, <1>4, <1>5, <1>6 DEF TypeOK, DiskOK, WindowOK, disk, window, buffers

(* A transaction begins.                                                   *)
LEMMA BeginType ==
  ASSUME TypeOK, NEW t \in Threads, NEW kind \in {"save", "source"}, NEW sess \in Session,
         NEW clear \in BOOLEAN, NEW forced \in BOOLEAN, Begin(t, kind, sess, clear, forced)
  PROVE  /\ tx' \in [Threads -> Txs]
         /\ tx'[t].pc = "lock" /\ tx'[t].todo = tx'[t].sess.sb
         /\ \A u \in Threads : u # t => tx'[u] = tx[u]
  <1> DEFINE x == [NoTx EXCEPT !.pc = "lock", !.kind = kind, !.sess = sess,
                     !.clear = clear, !.forced = forced, !.todo = sess.sb]
  <1>1. x \in Txs /\ x.pc = "lock" /\ x.todo = x.sess.sb
    BY NoTxType DEF Txs, Session
  <1>2. tx' = [tx EXCEPT ![t] = x]
    BY DEF Begin
  <1> HIDE DEF x
  <1> QED BY <1>1, <1>2 DEF TypeOK

(* What the steps of a transaction change of it.                           *)
LEMMA TxCopies ==
  ASSUME NEW x \in Txs, NEW pc \in {"sidecars", "index", "latest", "archive", "prune", "done", "failed"},
         NEW p \in Panes, NEW v \in Texts
  PROVE  [x EXCEPT !.pc = pc, !.todo = @ \ {p}, !.ctx[p] = v] \in Txs
  BY DEF Txs

LEMMA TxNumbers ==
  ASSUME NEW x \in Txs, NEW pc \in {"sidecars", "index", "latest", "archive", "prune", "done", "failed"},
         NEW n \in Nat
  PROVE  /\ [x EXCEPT !.pc = pc, !.prev = n] \in Txs
         /\ [x EXCEPT !.token = n, !.pc = pc] \in Txs
  BY DEF Txs

LEMMA TxPc ==
  ASSUME NEW x \in Txs, NEW pc \in {"sidecars", "index", "latest", "archive", "prune", "done", "failed"}
  PROVE  [x EXCEPT !.pc = pc] \in Txs
  BY DEF Txs

(* A step of a transaction leaves the window, the ledger, the writer and   *)
(* the user interface alone.                                               *)
LEMMA TransactionFrame ==
  ASSUME TypeOK, UNCHANGED <<file, window, buffers, queue, writer, ui>>,
         DiskOK', tx' \in [Threads -> Txs], lock' \in Threads \cup {None},
         once' \in [imported : BOOLEAN, archived : BOOLEAN], used' \in Usage
  PROVE  TypeOK'
  BY DEF TypeOK, WindowOK, window, buffers

LEMMA TxLockType ==
  ASSUME TypeOK, NEW t \in Threads, TxLock(t)
  PROVE  TypeOK'
  <1>1. tx' \in [Threads -> Txs]
    <2>1. PICK pc \in {"failed", "sidecars"}, prev \in Nat :
            tx' = [tx EXCEPT ![t].pc = pc, ![t].prev = prev]
      <3>1. index.token \in Nat
        BY DEF TypeOK, DiskOK, Manifest
      <3> QED BY <3>1 DEF TxLock
    <2>2. [tx[t] EXCEPT !.pc = pc, !.prev = prev] \in Txs
      BY TxNumbers DEF TypeOK
    <2> QED BY <2>1, <2>2 DEF TypeOK
  <1>2. lock' \in Threads \cup {None}
    BY DEF TxLock
  <1>3. DiskOK' /\ UNCHANGED <<file, window, buffers, queue, writer, ui, once, used>>
    BY DEF TxLock, disk, TypeOK, DiskOK
  <1> QED BY <1>1, <1>2, <1>3, TransactionFrame DEF TypeOK

LEMMA ProceedType ==
  ASSUME TypeOK, NEW t \in Threads, NEW ok,
         NEW next \in {"latest", "archive", "prune", "done"}, NEW otherwise \in {"failed", "done"},
         Proceed(t, ok, next, otherwise)
  PROVE  tx' \in [Threads -> Txs] /\ lock' \in Threads \cup {None}
  <1>1. PICK pc \in {next, otherwise} : tx' = [tx EXCEPT ![t].pc = pc]
    BY DEF Proceed
  <1>2. tx' \in [Threads -> Txs]
    <2>1. [tx[t] EXCEPT !.pc = pc] \in Txs
      BY TxPc DEF TypeOK
    <2> QED BY <1>1, <2>1 DEF TypeOK
  <1> QED BY <1>2 DEF Proceed, TypeOK

LEMMA TxSidecarType ==
  ASSUME TypeOK, NEW t \in Threads, NEW p \in Panes, TxSidecar(t, p)
  PROVE  TypeOK'
  <1>1. PICK r : /\ \/ r.now = sidecar
                    \/ r.now = sidecar \cup {file[p]}
                 /\ sidecar' = r.now
                 /\ \E pc \in {"sidecars", "failed"} :
                      tx' = [tx EXCEPT ![t].pc = pc, ![t].todo = @ \ {p}, ![t].ctx[p] = file[p]]
                 /\ lock' \in {lock, None}
                 /\ used' \in {used, Counted(r)}
    <2>1. PICK r \in IF file[p] = 0 THEN {[now |-> sidecar, ok |-> FALSE]}
                     ELSE IF file[p] \in sidecar THEN {[now |-> sidecar, ok |-> TRUE]}
                     ELSE AtomicWrite(sidecar, sidecar \cup {file[p]}) :
               /\ sidecar' = r.now
               /\ tx' = [tx EXCEPT ![t].pc = IF r.ok THEN "sidecars" ELSE "failed",
                                   ![t].todo = @ \ {p}, ![t].ctx[p] = file[p]]
               /\ lock' = IF r.ok THEN lock ELSE None
               /\ used' = IF file[p] = 0 THEN used ELSE Counted(r)
      BY DEF TxSidecar
    <2>2. r.now \in {sidecar, sidecar \cup {file[p]}}
      BY WriteType
    <2> QED BY <2>1, <2>2
  <1>2. file[p] \in Texts
    BY DEF TypeOK, DiskOK
  <1>3. tx' \in [Threads -> Txs]
    <2>1. PICK pc \in {"sidecars", "failed"} :
            tx' = [tx EXCEPT ![t].pc = pc, ![t].todo = @ \ {p}, ![t].ctx[p] = file[p]]
      BY <1>1
    <2>2. [tx[t] EXCEPT !.pc = pc, !.todo = @ \ {p}, !.ctx[p] = file[p]] \in Txs
      BY <1>2, TxCopies DEF TypeOK
    <2> QED BY <2>1, <2>2 DEF TypeOK
  <1>4. DiskOK'
    BY <1>1, <1>2 DEF TypeOK, DiskOK, TxSidecar
  <1>5. used' \in Usage
    BY <1>1, CountedType DEF TypeOK
  <1>6. lock' \in Threads \cup {None} /\ UNCHANGED <<file, window, buffers, queue, writer, ui, once>>
    BY <1>1 DEF TypeOK, TxSidecar
  <1> QED BY <1>3, <1>4, <1>5, <1>6, TransactionFrame DEF TypeOK

LEMMA TxBundleType ==
  ASSUME TypeOK, NEW t \in Threads, TxBundle(t)
  PROVE  TypeOK'
  <1>1. PICK r \in IF tx[t].kind = "save"
                   THEN AtomicWrite(bundle, BundleOf(tx[t], used.token + 1))
                   ELSE {[now |-> bundle, ok |-> TRUE]} :
          /\ bundle' = r.now
          /\ tx' = [tx EXCEPT ![t].token = used.token + 1,
                              ![t].pc = IF ~r.ok THEN "failed"
                                        ELSE IF tx[t].kind = "save" THEN "index" ELSE "latest"]
          /\ lock' = IF r.ok THEN lock ELSE None
          /\ used' = [Counted(r) EXCEPT !.token = @ + 1]
    BY DEF TxBundle
  <1>2. tx[t] \in Txs /\ used.token + 1 \in Nat
    BY DEF TypeOK, Usage
  <1>3. BundleOf(tx[t], used.token + 1) \in Manifest
    BY <1>2, BundleOfType
  <1>4. bundle' \in Manifest
    BY <1>1, <1>3, WriteType DEF TypeOK, DiskOK
  <1>5. DiskOK'
    BY <1>4 DEF TypeOK, DiskOK, TxBundle
  <1>6. tx' \in [Threads -> Txs]
    <2>1. PICK pc \in {"failed", "index", "latest"} :
            tx' = [tx EXCEPT ![t].token = used.token + 1, ![t].pc = pc]
      BY <1>1
    <2>2. [tx[t] EXCEPT !.token = used.token + 1, !.pc = pc] \in Txs
      BY <1>2, TxNumbers
    <2> QED BY <2>1, <2>2 DEF TypeOK
  <1>7. used' \in Usage
    BY <1>1, CountedType DEF Usage
  <1>8. lock' \in Threads \cup {None} /\ UNCHANGED <<file, window, buffers, queue, writer, ui, once>>
    BY <1>1 DEF TypeOK, TxBundle
  <1> QED BY <1>5, <1>6, <1>7, <1>8, TransactionFrame DEF TypeOK

LEMMA TxIndexType ==
  ASSUME TypeOK, NEW t \in Threads, TxIndex(t)
  PROVE  TypeOK'
  <1> DEFINE new == [BundleOf(tx[t], tx[t].token) EXCEPT !.prev = 0, !.ctx = NoText]
  <1>1. PICK r \in AtomicWrite(index, new) :
          index' = r.now /\ Proceed(t, r.ok, "latest", "failed") /\ used' = Counted(r)
    BY DEF TxIndex
  <1>2. new \in Manifest
    <2>1. BundleOf(tx[t], tx[t].token) \in Manifest
      BY BundleOfType DEF TypeOK, Txs
    <2> QED BY <2>1, NoTextType DEF Manifest
  <1> HIDE DEF new
  <1>3. DiskOK'
    BY <1>1, <1>2, WriteType DEF TypeOK, DiskOK, TxIndex
  <1>4. tx' \in [Threads -> Txs] /\ lock' \in Threads \cup {None} /\ used' \in Usage
    BY <1>1, ProceedType, CountedType
  <1>5. UNCHANGED <<file, window, buffers, queue, writer, ui, once>>
    BY DEF TxIndex
  <1> QED BY <1>3, <1>4, <1>5, TransactionFrame DEF TypeOK

LEMMA TxLatestType ==
  ASSUME TypeOK, NEW t \in Threads, TxLatest(t)
  PROVE  TypeOK'
  <1>1. PICK r \in AtomicWrite(latest, BundleOf(tx[t], tx[t].token)) :
          latest' = r.now /\ Proceed(t, r.ok, "archive", "done") /\ used' = Counted(r)
    BY DEF TxLatest
  <1>2. BundleOf(tx[t], tx[t].token) \in Manifest
    BY BundleOfType DEF TypeOK, Txs
  <1>3. DiskOK'
    BY <1>1, <1>2, WriteType DEF TypeOK, DiskOK, TxLatest
  <1>4. tx' \in [Threads -> Txs] /\ lock' \in Threads \cup {None} /\ used' \in Usage
    BY <1>1, ProceedType, CountedType
  <1>5. UNCHANGED <<file, window, buffers, queue, writer, ui, once>>
    BY DEF TxLatest
  <1> QED BY <1>3, <1>4, <1>5, TransactionFrame DEF TypeOK

LEMMA TxArchiveType ==
  ASSUME TypeOK, NEW t \in Threads, NEW due \in BOOLEAN, TxArchive(t, due)
  PROVE  TypeOK'
  <1> DEFINE new == archive \cup {BundleOf(tx[t], tx[t].token)}
  <1>1. PICK r \in IF due THEN AtomicWrite(archive, new) ELSE {[now |-> archive, ok |-> TRUE]} :
          /\ archive' = r.now /\ Proceed(t, r.ok, "prune", "done") /\ used' = Counted(r)
          /\ once' = IF due /\ r.ok THEN [once EXCEPT !.archived = TRUE] ELSE once
    BY DEF TxArchive
  <1>2. new \subseteq Manifest
    BY BundleOfType DEF TypeOK, DiskOK, Txs
  <1> HIDE DEF new
  <1>3. DiskOK'
    BY <1>1, <1>2, WriteType DEF TypeOK, DiskOK, TxArchive
  <1>4. tx' \in [Threads -> Txs] /\ lock' \in Threads \cup {None} /\ used' \in Usage
    BY <1>1, ProceedType, CountedType
  <1>5. once' \in [imported : BOOLEAN, archived : BOOLEAN]
    BY <1>1 DEF TypeOK
  <1>6. UNCHANGED <<file, window, buffers, queue, writer, ui>>
    BY DEF TxArchive
  <1> QED BY <1>3, <1>4, <1>5, <1>6, TransactionFrame

LEMMA TxPruneType ==
  ASSUME TypeOK, NEW t \in Threads, NEW kept \in SUBSET archive, TxPrune(t, kept)
  PROVE  TypeOK'
  <1>1. DiskOK'
    BY DEF TypeOK, DiskOK, TxPrune, KeptSidecars
  <1>2. tx' \in [Threads -> Txs] /\ lock' \in Threads \cup {None}
    BY ProceedType DEF TxPrune
  <1>3. UNCHANGED <<file, window, buffers, queue, writer, ui, once, used>>
    BY DEF TxPrune
  <1> QED BY <1>1, <1>2, <1>3, TransactionFrame DEF TypeOK

(* The writer's thread.                                                    *)
LEMMA WriterTakesType ==
  ASSUME TypeOK, WriterTakes
  PROVE  TypeOK'
  <1>1. queue.pending \in Request
    BY DEF TypeOK, Queues
  <1>2. Carried(queue.pending.contexts) \in SUBSET Panes
    BY DEF Carried
  <1>3. writer' \in Writers
    BY <1>1, <1>2 DEF WriterTakes, Writers
  <1>4. queue' \in Queues
    BY NoRequestType DEF WriterTakes, TypeOK, Queues
  <1>5. UNCHANGED <<disk, window, buffers, ui, tx, lock, once, used>>
    BY DEF WriterTakes
  <1> QED BY <1>3, <1>4, <1>5 DEF TypeOK, DiskOK, WindowOK, disk, window, buffers

LEMMA WriterEndsType == ASSUME TypeOK, WriterEnds PROVE TypeOK'
  <1>1. writer' \in Writers
    BY DEF WriterEnds, TypeOK, Writers
  <1>2. UNCHANGED <<disk, window, buffers, queue, ui, tx, lock, once, used>>
    BY DEF WriterEnds
  <1> QED BY <1>1, <1>2 DEF TypeOK, DiskOK, WindowOK, disk, window, buffers

LEMMA WriteContextType ==
  ASSUME TypeOK, NEW p \in Panes, WriteContext(p)
  PROVE  TypeOK'
  <1> DEFINE new == [file EXCEPT ![p] = writer.req.contexts[p].text]
  <1>1. PICK r \in AtomicWrite(file, new) :
          /\ file' = r.now /\ used' = Counted(r)
          /\ writer' = [writer EXCEPT !.todo = @ \ {p}, !.pc = IF r.ok THEN @ ELSE "failed"]
    BY DEF WriteContext
  <1>2. new \in [Panes -> Texts]
    BY DEF TypeOK, DiskOK, Writers, Request, Buffer
  <1> HIDE DEF new
  <1>3. file' \in [Panes -> Texts]
    BY <1>1, <1>2, WriteType DEF TypeOK, DiskOK
  <1>4. writer' \in Writers
    <2>1. PICK pc \in {writer.pc, "failed"} : writer' = [writer EXCEPT !.todo = @ \ {p}, !.pc = pc]
      BY <1>1
    <2> QED BY <2>1 DEF TypeOK, Writers
  <1>5. used' \in Usage
    BY <1>1, CountedType
  <1>6. UNCHANGED <<sidecar, bundle, index, latest, archive, window, buffers, queue, ui, tx, lock, once>>
    BY DEF WriteContext
  <1> QED BY <1>3, <1>4, <1>5, <1>6 DEF TypeOK, DiskOK, WindowOK, window, buffers

LEMMA WriterSavesType ==
  ASSUME TypeOK, WriterSaves
  PROVE  TypeOK' /\ tx'["writer"].pc = "lock" /\ tx'["writer"].todo = tx'["writer"].sess.sb
         /\ \A u \in Threads : u # "writer" => tx'[u] = tx[u]
  <1>1. writer.req.sess \in Session /\ writer.req.clear \in BOOLEAN /\ writer.req.final \in BOOLEAN
    BY DEF TypeOK, Writers, Request
  <1>2. (writer.req.final \/ writer.req.clear) \in BOOLEAN
    OBVIOUS
  <1>3. /\ tx' \in [Threads -> Txs] /\ tx'["writer"].pc = "lock"
        /\ tx'["writer"].todo = tx'["writer"].sess.sb
        /\ \A u \in Threads : u # "writer" => tx'[u] = tx[u]
    <2>1. Begin("writer", "save", writer.req.sess, writer.req.clear,
                writer.req.final \/ writer.req.clear)
      BY DEF WriterSaves
    <2>2. "writer" \in Threads
      BY DEF Threads
    <2> QED BY <1>1, <1>2, <2>1, <2>2, BeginType
  <1>4. writer' \in Writers
    BY DEF WriterSaves, TypeOK, Writers
  <1>5. UNCHANGED <<disk, window, buffers, queue, ui, lock, once, used>>
    BY DEF WriterSaves
  <1> QED BY <1>3, <1>4, <1>5 DEF TypeOK, DiskOK, WindowOK, disk, window, buffers

(* An acknowledged entry, and what becomes of the ledger.                  *)
LEMMA EntryUpdates ==
  ASSUME NEW e \in Entries
  PROVE  /\ [e EXCEPT !.text = 0, !.pending = FALSE, !.persisted = TRUE] \in Entries
         /\ [e EXCEPT !.persisted = FALSE] \in Entries
  <1>1. 0 \in Texts
    BY RestoreAssumption DEF Texts
  <1>2. [e EXCEPT !.persisted = FALSE] \in Entries
    BY DEF Entries
  <1>3. [e EXCEPT !.text = 0, !.pending = FALSE, !.persisted = TRUE] \in Entries
    BY <1>1 DEF Entries
  <1> QED BY <1>2, <1>3

LEMMA WriterAcknowledgesType ==
  ASSUME TypeOK, WriterAcknowledges
  PROVE  TypeOK' /\ tx' = [tx EXCEPT !["writer"] = NoTx]
  <1> DEFINE got(p) == Acknowledges(ledger[p], writer.req.contexts[p])
             l == [p \in Panes |-> IF got(p) THEN [ledger[p] EXCEPT !.text = 0, !.pending = FALSE,
                                                                   !.persisted = TRUE]
                                   ELSE ledger[p]]
             keep == writer.req.keep \cup PendingIds(l)
  <1>1. l \in [Panes -> Entries]
    BY EntryUpdates DEF TypeOK
  <1>2. keep \in SUBSET Panes
    BY DEF PendingIds, TypeOK, Writers, Request
  <1>3. /\ ledger' = [p \in Panes |-> IF p \in keep THEN l[p] ELSE NoEntry]
        /\ writer' = [writer EXCEPT !.pc = "prune", !.keep = keep]
        /\ tx' = [tx EXCEPT !["writer"] = NoTx]
        /\ used' = [used EXCEPT !.durable = writer.req.sess.gen]
        /\ UNCHANGED <<disk, window, nextVersion, queue, ui, lock, once>>
    BY DEF WriterAcknowledges
  <1> HIDE DEF l, keep
  <1>4. ledger' \in [Panes -> Entries]
    BY <1>1, <1>3, NoEntryType
  <1>5. writer' \in Writers
    BY <1>2, <1>3 DEF TypeOK, Writers
  <1>6. tx' \in [Threads -> Txs]
    BY <1>3, NoTxType DEF TypeOK
  <1>7. used' \in Usage
    BY <1>3 DEF TypeOK, Usage, Writers, Request, Session
  <1> QED BY <1>3, <1>4, <1>5, <1>6, <1>7 DEF TypeOK, DiskOK, WindowOK, disk, window

LEMMA WriterPrunesType == ASSUME TypeOK, WriterPrunes PROVE TypeOK'
  <1>1. file' \in [Panes -> Texts]
    BY RestoreAssumption DEF WriterPrunes, TypeOK, DiskOK, Texts
  <1>2. writer' \in Writers
    BY IdleWriterType DEF WriterPrunes
  <1>3. UNCHANGED <<sidecar, bundle, index, latest, archive, window, buffers, queue, ui, tx, lock, once, used>>
    BY DEF WriterPrunes
  <1> QED BY <1>1, <1>2, <1>3 DEF TypeOK, DiskOK, WindowOK, window, buffers

LEMMA WriterFailsType ==
  ASSUME TypeOK, WriterFails
  PROVE  TypeOK' /\ tx' = [tx EXCEPT !["writer"] = NoTx]
  <1>1. ledger' \in [Panes -> Entries]
    BY EntryUpdates DEF WriterFails, TypeOK
  <1>2. writer' \in Writers
    BY IdleWriterType DEF WriterFails
  <1>3. tx' = [tx EXCEPT !["writer"] = NoTx] /\ tx' \in [Threads -> Txs]
    BY NoTxType DEF WriterFails, TypeOK
  <1>4. UNCHANGED <<disk, window, nextVersion, pendingBytes, queue, ui, lock, once, used>>
    BY DEF WriterFails
  <1> QED BY <1>1, <1>2, <1>3, <1>4 DEF TypeOK, DiskOK, WindowOK, disk, window

(* load and its end.                                                       *)
LEMMA UiGoes ==
  ASSUME NEW u \in Uis,
         NEW pc \in {"index", "bundle", "decode", "hydrate", "byIndex", "backup", "remember",
                     "loaded", "resetting"}
  PROVE  /\ [u EXCEPT !.pc = pc] \in Uis
         /\ [u EXCEPT !.pc = pc].pc = pc
  BY DEF Uis

LEMMA UiReads ==
  ASSUME NEW u \in Uis, NEW m \in Manifest,
         NEW pc \in {"index", "bundle", "decode", "hydrate", "byIndex", "backup", "remember",
                     "loaded", "resetting"}
  PROVE  /\ [u EXCEPT !.pc = pc, !.idx = m] \in Uis
         /\ [u EXCEPT !.pc = pc, !.idx = m].pc = pc
  BY DEF Uis

LEMMA UiTries ==
  ASSUME NEW u \in Uis, NEW m \in Manifest,
         NEW pc \in {"index", "bundle", "decode", "hydrate", "byIndex", "backup", "remember",
                     "loaded", "resetting"}
  PROVE  /\ [u EXCEPT !.pc = pc, !.src = m] \in Uis
         /\ [u EXCEPT !.pc = pc, !.src = m].pc = pc
  BY DEF Uis

LEMMA UiPlans ==
  ASSUME NEW u \in Uis, NEW todo \in SUBSET Panes,
         NEW pc \in {"index", "bundle", "decode", "hydrate", "byIndex", "backup", "remember",
                     "loaded", "resetting"}
  PROVE  /\ [u EXCEPT !.pc = pc, !.todo = todo] \in Uis
         /\ [u EXCEPT !.pc = pc, !.todo = todo].pc = pc
  BY DEF Uis

LEMMA UiFinds ==
  ASSUME NEW u \in Uis, NEW s \in Session,
         NEW pc \in {"index", "bundle", "decode", "hydrate", "byIndex", "backup", "remember",
                     "loaded", "resetting"}
  PROVE  /\ [u EXCEPT !.pc = pc, !.sess = s] \in Uis
         /\ [u EXCEPT !.pc = pc, !.sess = s].pc = pc
  BY DEF Uis

LEMMA UiBackup ==
  ASSUME NEW u \in Uis, NEW m \in Manifest, NEW n \in Nat
  PROVE  /\ [u EXCEPT !.pc = "backup", !.next = n, !.src = m] \in Uis
         /\ [u EXCEPT !.pc = "decode", !.src = m, !.next = n] \in Uis
         /\ [u EXCEPT !.next = n] \in Uis
  <1>1. [u EXCEPT !.pc = "backup", !.next = n, !.src = m] \in Uis
    BY DEF Uis
  <1>2. [u EXCEPT !.pc = "decode", !.src = m, !.next = n] \in Uis
    BY DEF Uis
  <1>3. [u EXCEPT !.next = n] \in Uis
    BY DEF Uis
  <1> QED BY <1>1, <1>2, <1>3

(* A step that changes nothing but ui.                                     *)
LEMMA UiFrame ==
  ASSUME TypeOK, UNCHANGED <<disk, window, buffers, queue, writer, tx, lock, once, used>>,
         ui' \in Uis
  PROVE  TypeOK'
  BY DEF TypeOK, DiskOK, WindowOK, disk, window, buffers

LEMMA Inhabited ==
  ASSUME TypeOK
  PROVE  /\ ui \in Uis /\ bundle \in Manifest /\ index \in Manifest /\ latest \in Manifest
         /\ ui.src \in Manifest /\ ui.idx \in Manifest /\ ui.sess \in Session
         /\ ui.src.sess \in Session /\ ui.idx.sess \in Session /\ ui.next \in Nat
         /\ {} \in SUBSET Panes
  BY DEF TypeOK, DiskOK, Uis, Manifest

LEMMA GiveUpType == TypeOK => GiveUp \in Uis /\ GiveUp.pc \in {"byIndex", "backup"}
  <1> SUFFICES ASSUME TypeOK PROVE GiveUp \in Uis /\ GiveUp.pc \in {"byIndex", "backup"}
    OBVIOUS
  <1>1. PICK pc \in {"byIndex", "backup"} : GiveUp = [ui EXCEPT !.pc = pc, !.todo = {}]
    BY DEF GiveUp
  <1>2. ui \in Uis /\ ui.sess \in Session
    BY Inhabited
  <1>3. GiveUp \in Uis
    BY <1>1, <1>2 DEF Uis
  <1>4. GiveUp.pc = pc
    BY <1>1, <1>2 DEF Uis
  <1> QED BY <1>3, <1>4

LEMMA LoadingType ==
  ASSUME TypeOK, LoadIndex \/ LoadBundle \/ Decode
  PROVE  TypeOK' /\ ui'.pc # "dead"
  <1>1. ui' \in Uis /\ ui'.pc # "dead"
    <2>1. CASE LoadIndex
      <3>1. ui' = [ui EXCEPT !.pc = "bundle", !.idx = index]
        BY <2>1 DEF LoadIndex
      <3> QED BY <3>1, Inhabited, UiReads
    <2>2. CASE LoadBundle
      <3>1. \/ ui' = [ui EXCEPT !.pc = "decode", !.src = bundle]
            \/ ui' = [ui EXCEPT !.pc = "byIndex"]
        BY <2>2 DEF LoadBundle
      <3>2. CASE ui' = [ui EXCEPT !.pc = "decode", !.src = bundle]
        BY <3>2, Inhabited, UiTries
      <3>3. CASE ui' = [ui EXCEPT !.pc = "byIndex"]
        BY <3>3, Inhabited, UiGoes
      <3> QED BY <3>1, <3>2, <3>3
    <2>3. CASE Decode
      <3>1. ui.src.sess.sb \in SUBSET Panes
        BY Inhabited DEF Session
      <3>2. \/ ui' = [ui EXCEPT !.pc = "hydrate", !.todo = ui.src.sess.sb]
            \/ ui' = GiveUp
        BY <2>3 DEF Decode
      <3>3. CASE ui' = [ui EXCEPT !.pc = "hydrate", !.todo = ui.src.sess.sb]
        BY <3>1, <3>3, Inhabited, UiPlans
      <3>4. CASE ui' = GiveUp
        BY <3>4, GiveUpType
      <3> QED BY <3>2, <3>3, <3>4
    <2> QED BY <2>1, <2>2, <2>3
  <1>2. UNCHANGED <<disk, window, buffers, queue, writer, tx, lock, once, used>>
    BY DEF LoadIndex, LoadBundle, Decode
  <1> QED BY <1>1, <1>2, UiFrame

LEMMA HydrateType ==
  ASSUME TypeOK, NEW p \in Panes, Hydrate(p)
  PROVE  TypeOK' /\ ui'.pc # "dead"
  <1> DEFINE new == [file EXCEPT ![p] = ui.src.ctx[p]]
  <1>1. PICK r \in AtomicWrite(file, new) :
          /\ file' = r.now /\ used' = Counted(r)
          /\ ui' = IF r.ok THEN [ui EXCEPT !.todo = @ \ {p}] ELSE GiveUp
    BY DEF Hydrate
  <1>2. new \in [Panes -> Texts]
    BY Inhabited DEF TypeOK, DiskOK, Manifest
  <1> HIDE DEF new
  <1>3. file' \in [Panes -> Texts] /\ used' \in Usage
    BY <1>1, <1>2, WriteType, CountedType DEF TypeOK, DiskOK
  <1>4. ui' \in Uis /\ ui'.pc # "dead"
    <2>1. CASE ui' = [ui EXCEPT !.todo = @ \ {p}]
      BY <2>1 DEF Hydrate, TypeOK, Uis
    <2>2. CASE ui' = GiveUp
      BY <2>2, GiveUpType
    <2> QED BY <1>1, <2>1, <2>2
  <1>5. UNCHANGED <<sidecar, bundle, index, latest, archive, window, buffers, queue, writer, tx, lock, once>>
    BY DEF Hydrate
  <1> QED BY <1>3, <1>4, <1>5 DEF TypeOK, DiskOK, WindowOK, window, buffers

(* A step outside the transactions may begin one or forget one.            *)
BeginsOrForgets ==
  \A t \in Threads :
    tx'[t] = tx[t] \/ (tx'[t].pc \in {"off", "lock"} /\ tx'[t].sess.sb \subseteq tx'[t].todo)

LEMMA ReturnType ==
  ASSUME TypeOK, NEW s \in Session, NEW remember \in BOOLEAN, Return(s, remember)
  PROVE  /\ ui' \in Uis /\ ui'.pc # "dead" /\ tx' \in [Threads -> Txs]
         /\ once' \in [imported : BOOLEAN, archived : BOOLEAN] /\ BeginsOrForgets
  <1>1. CASE /\ Begin("ui", "source", s, FALSE, TRUE)
             /\ once' = [once EXCEPT !.imported = TRUE]
             /\ ui' = [ui EXCEPT !.pc = "remember", !.sess = s]
    <2>1. ui' \in Uis /\ ui'.pc = "remember"
      BY <1>1, Inhabited, UiFinds
    <2>2. /\ tx' \in [Threads -> Txs] /\ tx'["ui"].pc = "lock"
          /\ tx'["ui"].todo = tx'["ui"].sess.sb
          /\ \A u \in Threads : u # "ui" => tx'[u] = tx[u]
      <3>1. "ui" \in Threads
        BY DEF Threads
      <3> QED BY <1>1, <3>1, BeginType
    <2>3. once' \in [imported : BOOLEAN, archived : BOOLEAN]
      BY <1>1 DEF TypeOK
    <2> QED BY <2>1, <2>2, <2>3 DEF BeginsOrForgets
  <1>2. CASE ui' = [ui EXCEPT !.pc = "loaded", !.sess = s] /\ UNCHANGED <<tx, once>>
    <2>1. ui' \in Uis /\ ui'.pc = "loaded"
      BY <1>2, Inhabited, UiFinds
    <2> QED BY <1>2, <2>1 DEF TypeOK, BeginsOrForgets
  <1> QED BY <1>1, <1>2 DEF Return

(* A step of the user interface that may begin or forget a transaction.    *)
LEMMA UiTxFrame ==
  ASSUME TypeOK, UNCHANGED <<disk, window, buffers, queue, writer, lock, used>>,
         ui' \in Uis, tx' \in [Threads -> Txs],
         once' \in [imported : BOOLEAN, archived : BOOLEAN]
  PROVE  TypeOK'
  BY DEF TypeOK, DiskOK, WindowOK, disk, window, buffers

LEMMA HydratedType ==
  ASSUME TypeOK, Hydrated
  PROVE  TypeOK' /\ ui'.pc # "dead" /\ BeginsOrForgets
  <1>1. Return(ui.src.sess, TRUE) /\ UNCHANGED <<disk, window, buffers, queue, writer, lock, used>>
    BY DEF Hydrated
  <1>2. /\ ui' \in Uis /\ ui'.pc # "dead" /\ tx' \in [Threads -> Txs]
        /\ once' \in [imported : BOOLEAN, archived : BOOLEAN] /\ BeginsOrForgets
    BY <1>1, Inhabited, ReturnType
  <1> QED BY <1>1, <1>2, UiTxFrame

LEMMA LoadByIndexType ==
  ASSUME TypeOK, LoadByIndex
  PROVE  TypeOK' /\ ui'.pc # "dead" /\ BeginsOrForgets
  <1> DEFINE want == [p \in Panes |-> IF p \in ui.idx.sess.sb THEN file[p] ELSE 0]
             s    == [ui.idx.sess EXCEPT !.want = want]
             next == [ui EXCEPT !.pc = "backup", !.next = 1, !.src = Unreadable("missing")]
  <1>1. UNCHANGED <<disk, window, buffers, queue, writer, lock, used>>
    BY DEF LoadByIndex
  <1>2. CASE Return(s, ~ui.idx.clear)
    <2>1. want \in [Panes -> Texts]
      BY RestoreAssumption DEF TypeOK, DiskOK, Texts
    <2> HIDE DEF want
    <2>2. s \in Session
      BY <2>1, Inhabited DEF Session
    <2>3. (~ui.idx.clear) \in BOOLEAN
      OBVIOUS
    <2> HIDE DEF s
    <2>4. /\ ui' \in Uis /\ ui'.pc # "dead" /\ tx' \in [Threads -> Txs]
          /\ once' \in [imported : BOOLEAN, archived : BOOLEAN] /\ BeginsOrForgets
      BY <1>2, <2>2, <2>3, ReturnType
    <2> QED BY <1>1, <2>4, UiTxFrame
  <1>3. CASE ui' = next /\ UNCHANGED <<tx, once>>
    <2>1. next \in Uis
      BY Inhabited, UiBackup, UnreadableType
    <2>2. next.pc = "backup"
      BY Inhabited DEF Uis
    <2> HIDE DEF next
    <2>3. TypeOK'
      BY <1>1, <1>3, <2>1, UiTxFrame DEF TypeOK
    <2> QED BY <1>3, <2>2, <2>3 DEF BeginsOrForgets
  <1> QED BY <1>2, <1>3 DEF LoadByIndex

LEMMA LoadBackupType ==
  ASSUME TypeOK, LoadBackup
  PROVE  TypeOK' /\ ui'.pc # "dead"
  <1> DEFINE found == IF ui.next = 1 THEN {m \in {latest} : Readable(m)}
                      ELSE {m \in archive : Cardinality(Newer(m)) = ui.next - 2}
             m     == CHOOSE x \in found : TRUE
  <1>1. found \subseteq Manifest
    BY DEF TypeOK, DiskOK
  <1>2. \/ found # {} /\ ui' = [ui EXCEPT !.pc = "decode", !.src = m, !.next = @ + 1]
        \/ ui.next = 1 /\ ui' = [ui EXCEPT !.next = 2]
        \/ ui' = UiAt("idle")
    BY DEF LoadBackup
  <1>3. UNCHANGED <<disk, window, buffers, queue, writer, tx, lock, once, used>>
    BY DEF LoadBackup
  <1>4. found # {} => m \in Manifest
    BY <1>1
  <1> HIDE DEF found, m
  <1>5. CASE found # {} /\ ui' = [ui EXCEPT !.pc = "decode", !.src = m, !.next = @ + 1]
    <2>1. ui.next + 1 \in Nat
      BY Inhabited
    <2>2. ui' \in Uis
      BY <1>4, <1>5, <2>1, Inhabited, UiBackup
    <2>3. ui'.pc = "decode"
      BY <1>5, Inhabited DEF Uis
    <2> QED BY <1>3, <2>2, <2>3, UiFrame
  <1>6. CASE ui.next = 1 /\ ui' = [ui EXCEPT !.next = 2]
    <2>1. ui' \in Uis /\ ui'.pc = ui.pc
      BY <1>6, Inhabited DEF Uis
    <2> QED BY <1>3, <2>1, UiFrame DEF LoadBackup
  <1>7. CASE ui' = UiAt("idle")
    <2>1. ui' \in Uis /\ ui'.pc = "idle"
      BY <1>7, UiAtType DEF UiAt
    <2> QED BY <1>3, <2>1, UiFrame
  <1> QED BY <1>2, <1>5, <1>6, <1>7

LEMMA OpenRestoredType ==
  ASSUME TypeOK, OpenRestored
  PROVE  TypeOK' /\ ui'.pc # "dead"
  <1>1. ui' \in Uis /\ ui'.pc = "idle"
    BY UiAtType DEF OpenRestored, UiAt
  <1>2. WindowOK'
    BY Inhabited DEF OpenRestored, TypeOK, WindowOK, Session
  <1>3. UNCHANGED <<disk, buffers, queue, writer, tx, lock, once, used>>
    BY DEF OpenRestored
  <1> QED BY <1>1, <1>2, <1>3 DEF TypeOK, DiskOK, disk, buffers

LEMMA ResetType ==
  ASSUME TypeOK, Reset
  PROVE  TypeOK' /\ ui'.pc # "dead"
  <1>1. UiAt("index") \in Uis /\ UiAt("index").pc = "index"
    BY UiAtType DEF UiAt
  <1>2. ui' \in Uis /\ ui'.pc = "index"
    BY <1>1 DEF Reset, Uis
  <1>3. used' \in Usage
    BY DEF Reset, TypeOK, Usage
  <1>4. UNCHANGED <<disk, window, buffers, queue, writer, tx, lock, once>>
    BY DEF Reset
  <1> QED BY <1>2, <1>3, <1>4 DEF TypeOK, DiskOK, WindowOK, disk, window, buffers

LEMMA ResetSavesType ==
  ASSUME TypeOK, ResetSaves
  PROVE  TypeOK' /\ ui'.pc # "dead" /\ BeginsOrForgets
  <1>1. UNCHANGED <<disk, window, buffers, queue, writer, lock, once, used>>
    BY DEF ResetSaves
  <1>2. CASE ui' = UiAt("idle") /\ UNCHANGED tx
    <2>1. ui' \in Uis /\ ui'.pc = "idle"
      BY <1>2, UiAtType DEF UiAt
    <2>2. TypeOK'
      BY <1>1, <1>2, <2>1, UiTxFrame DEF TypeOK
    <2> QED BY <1>2, <2>1, <2>2 DEF BeginsOrForgets
  <1>3. CASE Begin("ui", "save", ui.sess, FALSE, FALSE) /\ ui' = [ui EXCEPT !.pc = "resetting"]
    <2>1. ui' \in Uis /\ ui'.pc = "resetting"
      BY <1>3, Inhabited, UiGoes
    <2>2. /\ tx' \in [Threads -> Txs] /\ tx'["ui"].pc = "lock"
          /\ tx'["ui"].todo = tx'["ui"].sess.sb
          /\ \A u \in Threads : u # "ui" => tx'[u] = tx[u]
      <3>1. "ui" \in Threads
        BY DEF Threads
      <3> QED BY <1>3, <3>1, Inhabited, BeginType
    <2>3. TypeOK'
      BY <1>1, <2>1, <2>2, UiTxFrame DEF TypeOK
    <2> QED BY <2>1, <2>2, <2>3 DEF BeginsOrForgets
  <1> QED BY <1>2, <1>3 DEF ResetSaves

LEMMA UiTxEndsType ==
  ASSUME TypeOK, UiTxEnds
  PROVE  TypeOK' /\ ui'.pc # "dead" /\ BeginsOrForgets
  <1>1. UNCHANGED <<disk, window, buffers, queue, writer, lock, once, used>>
        /\ tx' = [tx EXCEPT !["ui"] = NoTx]
    BY DEF UiTxEnds
  <1>2. ui' \in Uis /\ ui'.pc # "dead"
    <2>1. CASE ui' = [ui EXCEPT !.pc = "loaded"]
      BY <2>1, Inhabited, UiGoes
    <2>2. CASE ui' = UiAt("idle")
      BY <2>2, UiAtType DEF UiAt
    <2> QED BY <2>1, <2>2 DEF UiTxEnds
  <1>3. tx' \in [Threads -> Txs]
    BY <1>1, NoTxType DEF TypeOK
  <1>4. BeginsOrForgets
    BY <1>1 DEF BeginsOrForgets, TypeOK, NoTx, NoSession
  <1>5. TypeOK'
    BY <1>1, <1>2, <1>3, UiTxFrame DEF TypeOK
  <1> QED BY <1>2, <1>4, <1>5

(* The end of the process.                                                 *)
LEMMA EndType ==
  ASSUME TypeOK, Crash \/ Exit
  PROVE  /\ TypeOK' /\ UNCHANGED disk
         /\ queue' = EmptyQueue /\ writer' = IdleWriter /\ lock' = None
         /\ \A t \in Threads : tx'[t].pc = "off"
  <1>1. ui' = UiAt("dead") /\ Forgotten /\ UNCHANGED <<disk, used>>
    BY DEF Crash, Exit
  <1>2. ui' \in Uis
    BY <1>1, UiAtType
  <1>3. WindowOK'
    BY <1>1, NoTextType DEF Forgotten, TypeOK, WindowOK
  <1>4. ledger' \in [Panes -> Entries] /\ nextVersion' \in Nat
    BY <1>1, NoEntryType DEF Forgotten
  <1>5. queue' \in Queues /\ writer' \in Writers
    BY <1>1, EmptyQueueType, IdleWriterType DEF Forgotten
  <1>6. tx' \in [Threads -> Txs] /\ lock' \in Threads \cup {None}
    BY <1>1, NoTxType DEF Forgotten
  <1>7. once' \in [imported : BOOLEAN, archived : BOOLEAN]
    BY <1>1 DEF Forgotten
  <1>8. TypeOK'
    BY <1>1, <1>2, <1>3, <1>4, <1>5, <1>6, <1>7 DEF TypeOK, DiskOK, disk
  <1>9. queue' = EmptyQueue /\ writer' = IdleWriter /\ lock' = None
        /\ \A t \in Threads : tx'[t].pc = "off"
    BY <1>1 DEF Forgotten, NoTx
  <1> QED BY <1>1, <1>8, <1>9

LEMMA DamageType == ASSUME TypeOK, Damage PROVE TypeOK'
  <1>1. DiskOK'
    BY UnreadableType DEF Damage, TypeOK, DiskOK
  <1>2. used' \in Usage
    BY DEF Damage, TypeOK, Usage
  <1>3. UNCHANGED <<window, buffers, queue, writer, ui, tx, lock, once>>
    BY DEF Damage
  <1> QED BY <1>1, <1>2, <1>3 DEF TypeOK, WindowOK, window, buffers

LEMMA LaunchType == ASSUME TypeOK, Launch PROVE TypeOK' /\ ui'.pc # "dead"
  <1>1. ui' \in Uis /\ ui'.pc = "index"
    BY UiAtType DEF Launch, UiAt
  <1>2. used' \in Usage
    BY DEF Launch, TypeOK, Usage
  <1>3. UNCHANGED <<disk, window, buffers, queue, writer, tx, lock, once>>
    BY DEF Launch
  <1> QED BY <1>1, <1>2, <1>3 DEF TypeOK, DiskOK, WindowOK, disk, window, buffers

--------------------------------------------------------------------------------
(* Steps outside the transactions: the manifests and the lock stay.        *)

LEMMA OutsideFrame ==
  ASSUME StoreInv, TypeOK', UNCHANGED <<sidecar, bundle, index, latest, archive, lock>>,
         BeginsOrForgets, DeadIsStill'
  PROVE  StoreInv'
  <1>1. \A t \in Threads : tx'[t] = tx[t] \/ tx'[t].pc \notin Holding \cup {"index", "sidecars"}
    BY DEF BeginsOrForgets, Holding
  <1>2. HoldersLock'
    BY <1>1 DEF StoreInv, HoldersLock
  <1>3. CopiesKept'
    BY DEF StoreInv, CopiesKept, BeginsOrForgets, Holding
  <1>4. ParentIsIndex'
    BY <1>1 DEF StoreInv, ParentIsIndex
  <1>5. OwnBundleFirst'
    BY <1>1 DEF StoreInv, OwnBundleFirst, Readable
  <1>6. ManifestsDecode' /\ BundleNeverBehind'
    BY DEF StoreInv, ManifestsDecode, BundleNeverBehind, Manifests, Decodes, Readable, Referenced,
           PrefersBundle
  <1> QED BY <1>2, <1>3, <1>4, <1>5, <1>6 DEF StoreInv

LEMMA UnchangedTx == UNCHANGED tx => BeginsOrForgets
  BY DEF BeginsOrForgets

LEMMA AliveStays == ASSUME ui'.pc # "dead" PROVE DeadIsStill'
  BY DEF DeadIsStill

(* Who works is not dead.                                                  *)
LEMMA WorkerAlive ==
  ASSUME StoreInv,
         \/ writer.pc # "wait" \/ queue.pending # NoRequest \/ queue.closing
         \/ \E t \in Threads : tx[t].pc # "off"
  PROVE  ui.pc # "dead"
  BY DEF StoreInv, DeadIsStill, IdleWriter, EmptyQueue

LEMMA CapturePaneAlive ==
  ASSUME TypeOK, NEW p \in Panes, NEW t \in Texts, CapturePane(p, t)
  PROVE  ui'.pc # "dead"
  <1> DEFINE e   == Recorded(ledger[p], t)
             has == IF HasContext(e) THEN {p} ELSE {}
             h   == IF HasContext(e) THEN e.hash ELSE 0
  <1>1. ui' = [ui EXCEPT !.todo = @ \ {p}, !.keep = @ \cup has, !.sess.sb = @ \cup has,
                         !.sess.want[p] = h]
    BY DEF CapturePane
  <1>2. ui.pc = "capture" /\ ui \in Uis
    BY DEF CapturePane, TypeOK
  <1> HIDE DEF has, h
  <1> QED BY <1>1, <1>2 DEF Uis

LEMMA UiSteps ==
  ASSUME StoreInv, Ui
  PROVE  StoreInv'
  <1> USE DEF StoreInv
  <1>1. CASE \E p \in Panes : OpenTab(p) \/ Reopen(p) \/ Activate(p)
    <2>1. PICK p \in Panes : OpenTab(p) \/ Reopen(p) \/ Activate(p)
      BY <1>1
    <2>2. TypeOK'
      BY <2>1, OpenTabType, ReopenType, ActivateType
    <2>3. ui'.pc # "dead" /\ UNCHANGED <<disk, tx, lock>>
      BY <2>1 DEF OpenTab, Reopen, Activate
    <2> QED BY <2>2, <2>3, UnchangedTx, AliveStays, OutsideFrame DEF disk
  <1>2. CASE \E p \in Panes : Hydrate(p)
    <2>1. PICK p \in Panes : Hydrate(p)
      BY <1>2
    <2>2. TypeOK' /\ ui'.pc # "dead"
      BY <2>1, HydrateType
    <2>3. UNCHANGED <<sidecar, bundle, index, latest, archive, tx, lock>>
      BY <2>1 DEF Hydrate
    <2> QED BY <2>2, <2>3, UnchangedTx, AliveStays, OutsideFrame
  <1>3. CASE \E p \in Panes, t \in Texts : CloseTab(p, t)
    <2>1. PICK p \in Panes, t \in Texts : CloseTab(p, t)
      BY <1>3
    <2>2. TypeOK'
      BY <2>1, CloseTabType
    <2>3. ui'.pc # "dead" /\ UNCHANGED <<disk, tx, lock>>
      BY <2>1 DEF CloseTab
    <2> QED BY <2>2, <2>3, UnchangedTx, AliveStays, OutsideFrame DEF disk
  <1>4. CASE \E p \in Panes, t \in Texts : CapturePane(p, t)
    <2>1. PICK p \in Panes, t \in Texts : CapturePane(p, t)
      BY <1>4
    <2>2. TypeOK'
      BY <2>1, CapturePaneType
    <2>3. ui'.pc # "dead"
      BY <2>1, CapturePaneAlive
    <2>4. UNCHANGED <<disk, tx, lock>>
      BY <2>1 DEF CapturePane
    <2> QED BY <2>2, <2>3, <2>4, UnchangedTx, AliveStays, OutsideFrame DEF disk
  <1>5. CASE AutoSave \/ CloseWindow \/ \E hook \in BOOLEAN : Quit(hook)
    <2>1. TypeOK' /\ ui'.pc # "dead"
      BY <1>5, SavingType
    <2>2. UNCHANGED <<disk, tx, lock>>
      BY <1>5 DEF AutoSave, CloseWindow, Quit
    <2> QED BY <2>1, <2>2, UnchangedTx, AliveStays, OutsideFrame DEF disk
  <1>6. CASE Submit \/ LoadIndex \/ LoadBundle \/ Decode \/ LoadBackup \/ OpenRestored \/ Reset
    <2>1. TypeOK' /\ ui'.pc # "dead"
      BY <1>6, SubmitType, LoadingType, LoadBackupType, OpenRestoredType, ResetType
    <2>2. UNCHANGED <<disk, tx, lock>>
      BY <1>6 DEF Submit, LoadIndex, LoadBundle, Decode, LoadBackup, OpenRestored, Reset
    <2> QED BY <2>1, <2>2, UnchangedTx, AliveStays, OutsideFrame DEF disk
  <1>7. CASE Hydrated \/ LoadByIndex \/ ResetSaves \/ UiTxEnds
    <2>1. TypeOK' /\ ui'.pc # "dead" /\ BeginsOrForgets
      BY <1>7, HydratedType, LoadByIndexType, ResetSavesType, UiTxEndsType
    <2>2. UNCHANGED <<disk, lock>>
      BY <1>7 DEF Hydrated, LoadByIndex, ResetSaves, UiTxEnds
    <2> QED BY <2>1, <2>2, AliveStays, OutsideFrame DEF disk
  <1> QED BY <1>1, <1>2, <1>3, <1>4, <1>5, <1>6, <1>7 DEF Ui

LEMMA WriterSteps ==
  ASSUME StoreInv, Writer
  PROVE  StoreInv'
  <1> USE DEF StoreInv
  <1>1. ui.pc # "dead"
    <2>1. \/ writer.pc # "wait" \/ queue.pending # NoRequest \/ queue.closing
      BY DEF Writer, WriterTakes, WriterEnds, WriterSaves, WriterAcknowledges, WriterPrunes,
             WriterFails, WriteContext
    <2> QED BY <2>1, WorkerAlive
  <1>2. UNCHANGED <<sidecar, bundle, index, latest, archive, lock, ui>>
    BY DEF Writer, WriterTakes, WriterEnds, WriterSaves, WriterAcknowledges, WriterPrunes,
           WriterFails, WriteContext, disk
  <1>3. TypeOK' /\ BeginsOrForgets
    <2>1. CASE WriterTakes \/ WriterEnds \/ WriterPrunes \/ \E p \in Panes : WriteContext(p)
      <3>1. TypeOK'
        BY <2>1, WriterTakesType, WriterEndsType, WriterPrunesType, WriteContextType
      <3>2. UNCHANGED tx
        BY <2>1 DEF WriterTakes, WriterEnds, WriterPrunes, WriteContext
      <3> QED BY <3>1, <3>2, UnchangedTx
    <2>2. CASE WriterSaves
      BY <2>2, WriterSavesType DEF BeginsOrForgets
    <2>3. CASE WriterAcknowledges \/ WriterFails
      <3>1. TypeOK' /\ tx' = [tx EXCEPT !["writer"] = NoTx]
        BY <2>3, WriterAcknowledgesType, WriterFailsType
      <3> QED BY <3>1 DEF BeginsOrForgets, TypeOK, NoTx, NoSession
    <2> QED BY <2>1, <2>2, <2>3 DEF Writer
  <1>4. DeadIsStill'
    BY <1>1, <1>2, AliveStays
  <1> QED BY <1>2, <1>3, <1>4, OutsideFrame

--------------------------------------------------------------------------------
(* Steps of a transaction.  The lock keeps the other thread out of all of  *)
(* them.                                                                   *)

LEMMA OthersWait ==
  ASSUME StoreInv, NEW t \in Threads, tx[t].pc \in Holding \/ lock = None
  PROVE  \A u \in Threads : u # t => tx[u].pc \notin Holding
  BY DEF StoreInv, HoldersLock, Threads, None

(* What is left to show of a step of thread t.                             *)
LEMMA OwnStep ==
  ASSUME StoreInv, NEW t \in Threads, TypeOK', UNCHANGED ui, tx[t].pc # "off",
         tx[t].pc \in Holding \/ lock = None,
         \A u \in Threads : u # t => tx'[u] = tx[u],
         tx'[t].pc # "lock", tx'[t].pc \in Holding => lock' = t,
         tx'[t].pc \in Holding =>
           \A p \in tx'[t].sess.sb :
             (tx'[t].pc = "sidecars" /\ p \in tx'[t].todo) \/ tx'[t].ctx[p] \in sidecar',
         tx'[t].pc = "sidecars" /\ tx'[t].kind = "save" => tx'[t].prev = index'.token,
         tx'[t].pc = "index" => Readable(bundle') /\ bundle'.token = tx'[t].token,
         ManifestsDecode', BundleNeverBehind'
  PROVE  StoreInv'
  <1>1. \A u \in Threads : u # t => tx'[u].pc \notin Holding
    BY OthersWait
  <1>2. HoldersLock'
    BY <1>1 DEF HoldersLock
  <1>3. CopiesKept'
    BY <1>1 DEF StoreInv, CopiesKept
  <1>4. ParentIsIndex'
    BY <1>1 DEF ParentIsIndex, Holding
  <1>5. OwnBundleFirst'
    BY <1>1 DEF OwnBundleFirst, Holding, Readable
  <1>6. DeadIsStill'
    BY WorkerAlive, AliveStays
  <1> QED BY <1>2, <1>3, <1>4, <1>5, <1>6 DEF StoreInv

(* Manifests decode as long as no sidecar goes and every new manifest      *)
(* decodes.                                                                *)
LEMMA DecodeFrame ==
  ASSUME StoreInv, sidecar \subseteq sidecar', NEW m, Readable(m) => Referenced(m) \subseteq sidecar',
         Manifests' \subseteq Manifests \cup {m}
  PROVE  ManifestsDecode'
  BY DEF StoreInv, ManifestsDecode, Decodes, Readable, Referenced

LEMMA SameManifests ==
  ASSUME StoreInv, sidecar \subseteq sidecar', UNCHANGED <<bundle, index, latest, archive>>
  PROVE  ManifestsDecode' /\ BundleNeverBehind'
  BY DEF StoreInv, ManifestsDecode, Decodes, Readable, Referenced, Manifests, BundleNeverBehind,
         PrefersBundle

LEMMA TxLockStep ==
  ASSUME StoreInv, NEW t \in Threads, TxLock(t)
  PROVE  StoreInv'
  <1> DEFINE refused == tx[t].kind = "save" /\ ~tx[t].clear /\ tx[t].sess.open = {}
  <1>1. /\ tx[t].pc = "lock" /\ lock = None
        /\ lock' = IF refused THEN None ELSE t
        /\ tx' = [tx EXCEPT ![t].pc = IF refused THEN "failed" ELSE "sidecars",
                            ![t].prev = IF tx[t].kind = "save" THEN index.token ELSE 0]
        /\ UNCHANGED <<disk, ui>>
    BY DEF TxLock, MayLock
  <1>2. tx \in [Threads -> Txs] /\ TypeOK'
    BY TxLockType DEF StoreInv, TypeOK
  <1> HIDE DEF refused
  <1>3. \A u \in Threads : u # t => tx'[u] = tx[u]
    BY <1>1, <1>2
  <1>4. /\ tx'[t].pc = IF refused THEN "failed" ELSE "sidecars"
        /\ tx'[t].sess = tx[t].sess /\ tx'[t].todo = tx[t].todo /\ tx'[t].kind = tx[t].kind
        /\ tx[t].kind = "save" => tx'[t].prev = index.token
    BY <1>1, <1>2 DEF Txs
  <1>5. \A p \in tx'[t].sess.sb : p \in tx'[t].todo
    BY <1>1, <1>4 DEF StoreInv, CopiesKept
  <1>6. ManifestsDecode' /\ BundleNeverBehind'
    BY <1>1, SameManifests DEF disk
  <1>7. tx'[t].pc \in Holding => lock' = t
    BY <1>1, <1>4 DEF Holding
  <1>8. tx'[t].pc \in Holding => tx'[t].pc = "sidecars"
    BY <1>4 DEF Holding
  <1>9. tx'[t].pc \notin {"lock", "index"} /\ (tx'[t].kind = "save" => tx'[t].prev = index'.token)
    BY <1>1, <1>4 DEF disk
  <1> QED BY <1>1, <1>2, <1>3, <1>5, <1>6, <1>7, <1>8, <1>9, OwnStep

LEMMA TxSidecarStep ==
  ASSUME StoreInv, NEW t \in Threads, NEW p \in Panes, TxSidecar(t, p)
  PROVE  StoreInv'
  <1>1. PICK r \in IF file[p] = 0 THEN {[now |-> sidecar, ok |-> FALSE]}
                   ELSE IF file[p] \in sidecar THEN {[now |-> sidecar, ok |-> TRUE]}
                   ELSE AtomicWrite(sidecar, sidecar \cup {file[p]}) :
          /\ sidecar' = r.now
          /\ tx' = [tx EXCEPT ![t].pc = IF r.ok THEN "sidecars" ELSE "failed",
                              ![t].todo = @ \ {p}, ![t].ctx[p] = file[p]]
          /\ lock' = IF r.ok THEN lock ELSE None
    BY DEF TxSidecar
  <1>2. /\ tx[t].pc = "sidecars"
        /\ UNCHANGED <<bundle, index, latest, archive, ui>>
    BY DEF TxSidecar
  <1>3. tx \in [Threads -> Txs] /\ TypeOK'
    BY TxSidecarType DEF StoreInv, TypeOK
  <1>4. r.now \in {sidecar, sidecar \cup {file[p]}} /\ (r.ok => file[p] \in r.now)
    BY <1>1, WriteType
  <1>5. \A u \in Threads : u # t => tx'[u] = tx[u]
    BY <1>1, <1>3
  <1>6. /\ tx'[t].pc = IF r.ok THEN "sidecars" ELSE "failed"
        /\ tx'[t].sess = tx[t].sess /\ tx'[t].todo = tx[t].todo \ {p}
        /\ tx'[t].kind = tx[t].kind /\ tx'[t].prev = tx[t].prev
        /\ tx'[t].ctx = [tx[t].ctx EXCEPT ![p] = file[p]]
    BY <1>1, <1>3 DEF Txs
  <1>7. tx[t].ctx \in [Panes -> Texts] /\ tx[t].sess.sb \subseteq Panes
    BY <1>3 DEF Txs, Session
  <1>8. lock = t
    BY <1>2 DEF StoreInv, HoldersLock, Holding
  <1>9. \A q \in tx'[t].sess.sb : r.ok => q \in tx'[t].todo \/ tx'[t].ctx[q] \in sidecar'
    <2> SUFFICES ASSUME NEW q \in tx[t].sess.sb, r.ok
                 PROVE  q \in tx'[t].todo \/ tx'[t].ctx[q] \in sidecar'
      BY <1>6
    <2>1. CASE q = p
      BY <2>1, <1>1, <1>4, <1>6, <1>7
    <2>2. CASE q # p
      <3>1. q \in tx[t].todo \/ tx[t].ctx[q] \in sidecar
        BY <1>2 DEF StoreInv, CopiesKept, Holding
      <3>2. sidecar \subseteq sidecar'
        BY <1>1, <1>4
      <3>3. tx'[t].ctx[q] = tx[t].ctx[q] /\ (q \in tx[t].todo => q \in tx'[t].todo)
        BY <2>2, <1>6, <1>7
      <3> QED BY <3>1, <3>2, <3>3
    <2> QED BY <2>1, <2>2
  <1>10. ManifestsDecode' /\ BundleNeverBehind'
    <2>1. sidecar \subseteq sidecar'
      BY <1>1, <1>4
    <2> QED BY <1>2, <2>1, SameManifests
  <1>11. tx'[t].pc \in Holding => r.ok /\ tx'[t].pc = "sidecars" /\ lock' = t
    <2>1. lock' = IF r.ok THEN lock ELSE None
      BY <1>1
    <2>2. CASE r.ok
      BY <1>6, <1>8, <2>1, <2>2
    <2>3. CASE ~r.ok
      <3>1. tx'[t].pc = "failed"
        BY <1>6, <2>3
      <3> QED BY <3>1 DEF Holding
    <2> QED BY <2>2, <2>3
  <1>12. tx[t].kind = "save" => tx'[t].prev = index'.token
    BY <1>2, <1>6 DEF StoreInv, ParentIsIndex
  <1>13. tx'[t].pc \notin {"lock", "index"} /\ tx[t].pc \in Holding
    BY <1>2, <1>6 DEF Holding
  <1> QED BY <1>2, <1>3, <1>5, <1>6, <1>9, <1>10, <1>11, <1>12, <1>13, OwnStep

(* After the sidecars what the transaction copied stays until it is done.  *)
LEMMA ProceedStep ==
  ASSUME StoreInv, NEW t \in Threads, NEW ok,
         NEW next \in {"latest", "archive", "prune", "done"}, NEW otherwise \in {"failed", "done"},
         Proceed(t, ok, next, otherwise), tx[t].pc \in Holding \ {"sidecars"},
         TypeOK', UNCHANGED ui, sidecar \subseteq sidecar' \/ next = "done",
         ManifestsDecode', BundleNeverBehind'
  PROVE  StoreInv'
  <1>1. tx \in [Threads -> Txs]
    BY DEF StoreInv, TypeOK
  <1>2. PICK pc \in {next, otherwise} :
          tx' = [tx EXCEPT ![t].pc = pc] /\ (pc \notin {"done", "failed"} => lock' = lock /\ pc = next)
    BY DEF Proceed
  <1>3. \A u \in Threads : u # t => tx'[u] = tx[u]
    BY <1>1, <1>2
  <1>4. tx'[t].pc = pc /\ tx'[t].sess = tx[t].sess /\ tx'[t].ctx = tx[t].ctx
    BY <1>1, <1>2 DEF Txs
  <1>5. lock = t
    BY DEF StoreInv, HoldersLock
  <1>6. tx'[t].pc \in Holding => lock' = t
    BY <1>2, <1>4, <1>5 DEF Holding
  <1>7. tx'[t].pc \in Holding => \A p \in tx'[t].sess.sb : tx'[t].ctx[p] \in sidecar'
    <2>1. \A p \in tx[t].sess.sb : tx[t].ctx[p] \in sidecar
      BY DEF StoreInv, CopiesKept, Holding
    <2>2. pc \in Holding => next # "done"
      BY <1>2 DEF Holding
    <2> QED BY <1>4, <2>1, <2>2
  <1>8. tx'[t].pc \notin {"lock", "sidecars", "index"} /\ tx[t].pc # "off"
    BY <1>4 DEF Holding
  <1> QED BY <1>3, <1>6, <1>7, <1>8, OwnStep

(* Past the sidecars a manifest of the transaction decodes.                *)
LEMMA OwnDecodes ==
  ASSUME StoreInv, NEW t \in Threads, tx[t].pc \in Holding \ {"sidecars"}, NEW token
  PROVE  Referenced(BundleOf(tx[t], token)) \subseteq sidecar
  <1>1. \A p \in tx[t].sess.sb : tx[t].ctx[p] \in sidecar
    BY DEF StoreInv, CopiesKept, Holding
  <1> QED BY <1>1 DEF Referenced, BundleOf

LEMMA TxIndexStep ==
  ASSUME StoreInv, NEW t \in Threads, TxIndex(t)
  PROVE  StoreInv'
  <1> DEFINE new == [BundleOf(tx[t], tx[t].token) EXCEPT !.prev = 0, !.ctx = NoText]
  <1>1. PICK r \in AtomicWrite(index, new) :
          index' = r.now /\ Proceed(t, r.ok, "latest", "failed")
    BY DEF TxIndex
  <1>2. tx[t].pc = "index" /\ UNCHANGED <<sidecar, bundle, latest, archive, ui>>
    BY DEF TxIndex
  <1>3. new.token = tx[t].token
    BY DEF BundleOf
  <1> HIDE DEF new
  <1>4. index' \in {index, new}
    BY <1>1, WriteType
  <1>5. BundleNeverBehind'
    <2>1. CASE index' = index
      BY <1>2, <2>1 DEF StoreInv, BundleNeverBehind, PrefersBundle, Readable
    <2>2. CASE index' = new
      <3>1. bundle.token = tx[t].token
        BY <1>2 DEF StoreInv, OwnBundleFirst
      <3> QED BY <1>2, <1>3, <2>2, <3>1 DEF BundleNeverBehind, PrefersBundle
    <2> QED BY <1>4, <2>1, <2>2
  <1>6. ManifestsDecode'
    BY <1>2 DEF StoreInv, ManifestsDecode, Manifests, Decodes, Readable, Referenced
  <1>7. TypeOK' /\ tx[t].pc \in Holding \ {"sidecars"}
    BY <1>2, TxIndexType DEF StoreInv, Holding
  <1> QED BY <1>1, <1>2, <1>5, <1>6, <1>7, ProceedStep

LEMMA TxLatestStep ==
  ASSUME StoreInv, NEW t \in Threads, TxLatest(t)
  PROVE  StoreInv'
  <1> DEFINE new == BundleOf(tx[t], tx[t].token)
  <1>1. PICK r \in AtomicWrite(latest, new) : latest' = r.now /\ Proceed(t, r.ok, "archive", "done")
    BY DEF TxLatest
  <1>2. tx[t].pc = "latest" /\ UNCHANGED <<sidecar, bundle, index, archive, ui>>
    BY DEF TxLatest
  <1>3. TypeOK' /\ tx[t].pc \in Holding \ {"sidecars"}
    BY <1>2, TxLatestType DEF StoreInv, Holding
  <1>4. Referenced(new) \subseteq sidecar
    BY <1>3, OwnDecodes
  <1> HIDE DEF new
  <1>5. latest' \in {latest, new}
    BY <1>1, WriteType
  <1>6. ManifestsDecode'
    <2>1. Manifests' \subseteq Manifests \cup {new}
      BY <1>2, <1>5 DEF Manifests
    <2> QED BY <1>2, <1>4, <2>1, DecodeFrame
  <1>7. BundleNeverBehind'
    BY <1>2 DEF StoreInv, BundleNeverBehind, PrefersBundle, Readable
  <1> QED BY <1>1, <1>2, <1>3, <1>6, <1>7, ProceedStep

LEMMA TxArchiveStep ==
  ASSUME StoreInv, NEW t \in Threads, NEW due \in BOOLEAN, TxArchive(t, due)
  PROVE  StoreInv'
  <1> DEFINE new == BundleOf(tx[t], tx[t].token)
  <1>1. PICK r \in IF due THEN AtomicWrite(archive, archive \cup {new})
                   ELSE {[now |-> archive, ok |-> TRUE]} :
          archive' = r.now /\ Proceed(t, r.ok, "prune", "done")
    BY DEF TxArchive
  <1>2. tx[t].pc = "archive" /\ UNCHANGED <<sidecar, bundle, index, latest, ui>>
    BY DEF TxArchive
  <1>3. TypeOK' /\ tx[t].pc \in Holding \ {"sidecars"}
    BY <1>2, TxArchiveType DEF StoreInv, Holding
  <1>4. Referenced(new) \subseteq sidecar
    BY <1>3, OwnDecodes
  <1> HIDE DEF new
  <1>5. archive' \in {archive, archive \cup {new}}
    BY <1>1, WriteType
  <1>6. ManifestsDecode'
    <2>1. Manifests' \subseteq Manifests \cup {new}
      BY <1>2, <1>5 DEF Manifests
    <2> QED BY <1>2, <1>4, <2>1, DecodeFrame
  <1>7. BundleNeverBehind'
    BY <1>2 DEF StoreInv, BundleNeverBehind, PrefersBundle, Readable
  <1> QED BY <1>1, <1>2, <1>3, <1>6, <1>7, ProceedStep

(* The pruning keeps what any manifest refers to that stays.               *)
LEMMA TxPruneStep ==
  ASSUME StoreInv, NEW t \in Threads, NEW kept \in SUBSET archive, TxPrune(t, kept)
  PROVE  StoreInv'
  <1>1. /\ tx[t].pc = "prune" /\ Proceed(t, TRUE, "done", "done")
        /\ archive' = kept /\ sidecar' = KeptSidecars(kept)
        /\ UNCHANGED <<bundle, index, latest, ui>>
    BY DEF TxPrune
  <1>2. TypeOK' /\ tx[t].pc \in Holding \ {"sidecars"}
    BY <1>1, TxPruneType DEF StoreInv, Holding
  <1>3. ManifestsDecode'
    <2> SUFFICES ASSUME NEW m \in {bundle, latest} \cup kept, Readable(m)
                 PROVE  Referenced(m) \subseteq sidecar'
      BY <1>1 DEF ManifestsDecode, Manifests, Decodes, Readable, Referenced
    <2>1. Referenced(m) \subseteq sidecar
      BY DEF StoreInv, ManifestsDecode, Manifests, Decodes
    <2>2. CASE bundle.st = "bad"
      BY <1>1, <2>1, <2>2 DEF KeptSidecars
    <2>3. CASE bundle.st # "bad"
      BY <1>1, <2>1, <2>3 DEF KeptSidecars
    <2> QED BY <2>2, <2>3
  <1>4. BundleNeverBehind'
    BY <1>1 DEF StoreInv, BundleNeverBehind, PrefersBundle, Readable
  <1> QED BY <1>1, <1>2, <1>3, <1>4, ProceedStep

LEMMA TxBundleStep ==
  ASSUME StoreInv, NEW t \in Threads, TxBundle(t)
  PROVE  StoreInv'
  <1> DEFINE new == BundleOf(tx[t], used.token + 1)
  <1>1. PICK r \in IF tx[t].kind = "save" THEN AtomicWrite(bundle, new)
                   ELSE {[now |-> bundle, ok |-> TRUE]} :
          /\ bundle' = r.now
          /\ tx' = [tx EXCEPT ![t].token = used.token + 1,
                              ![t].pc = IF ~r.ok THEN "failed"
                                        ELSE IF tx[t].kind = "save" THEN "index" ELSE "latest"]
          /\ lock' = IF r.ok THEN lock ELSE None
    BY DEF TxBundle
  <1>2. /\ tx[t].pc = "sidecars" /\ tx[t].todo = {}
        /\ UNCHANGED <<sidecar, index, latest, archive, ui>>
    BY DEF TxBundle
  <1>3. tx \in [Threads -> Txs] /\ TypeOK' /\ tx[t].pc \in Holding
    BY <1>2, TxBundleType DEF StoreInv, TypeOK, Holding
  <1>4. \A p \in tx[t].sess.sb : tx[t].ctx[p] \in sidecar
    BY <1>2 DEF StoreInv, CopiesKept, Holding
  <1>5. Referenced(new) \subseteq sidecar
    BY <1>4 DEF Referenced, BundleOf
  <1>6. new.st = "ok" /\ new.token = used.token + 1 /\ new.prev = tx[t].prev
    BY DEF BundleOf
  <1> HIDE DEF new
  <1>7. /\ bundle' \in {bundle, new}
        /\ tx[t].kind # "save" => bundle' = bundle /\ r.ok
        /\ tx[t].kind = "save" /\ r.ok => bundle' = new
    BY <1>1, WriteType
  <1>8. \A u \in Threads : u # t => tx'[u] = tx[u]
    BY <1>1, <1>3
  <1>9. /\ tx'[t].pc = IF ~r.ok THEN "failed" ELSE IF tx[t].kind = "save" THEN "index" ELSE "latest"
        /\ tx'[t].token = used.token + 1 /\ tx'[t].sess = tx[t].sess /\ tx'[t].ctx = tx[t].ctx
    BY <1>1, <1>3 DEF Txs
  <1>10. ManifestsDecode'
    <2>1. Manifests' \subseteq Manifests \cup {new}
      BY <1>2, <1>7 DEF Manifests
    <2> QED BY <1>2, <1>5, <2>1, DecodeFrame
  <1>11. BundleNeverBehind'
    <2>1. CASE bundle' = bundle
      BY <1>2, <2>1 DEF StoreInv, BundleNeverBehind, PrefersBundle, Readable
    <2>2. CASE bundle' = new /\ tx[t].kind = "save"
      <3>1. tx[t].prev = index.token
        BY <1>2, <2>2 DEF StoreInv, ParentIsIndex
      <3> QED BY <1>2, <1>6, <2>2, <3>1 DEF BundleNeverBehind, PrefersBundle, Readable
    <2> QED BY <1>7, <2>1, <2>2
  <1>12. tx'[t].pc \in Holding => lock' = t
    <2>1. lock = t
      BY <1>3 DEF StoreInv, HoldersLock
    <2>2. CASE r.ok
      BY <1>1, <2>1, <2>2
    <2>3. CASE ~r.ok
      <3>1. tx'[t].pc = "failed"
        BY <1>9, <2>3
      <3> QED BY <3>1 DEF Holding
    <2> QED BY <2>2, <2>3
  <1>13. tx'[t].pc = "index" => Readable(bundle') /\ bundle'.token = tx'[t].token
    BY <1>6, <1>7, <1>9 DEF Readable
  <1>14. tx'[t].pc \notin {"lock", "sidecars"} /\ tx[t].pc # "off"
    BY <1>2, <1>9
  <1>15. \A p \in tx'[t].sess.sb : tx'[t].ctx[p] \in sidecar'
    BY <1>2, <1>4, <1>9
  <1> QED BY <1>2, <1>3, <1>8, <1>10, <1>11, <1>12, <1>13, <1>14, <1>15, OwnStep

--------------------------------------------------------------------------------
LEMMA StoreStep == StoreInv /\ [Next]_vars => StoreInv'
  <1> SUFFICES ASSUME StoreInv, [Next]_vars PROVE StoreInv'
    OBVIOUS
  <1>1. CASE Ui
    BY <1>1, UiSteps
  <1>2. CASE Writer
    BY <1>2, WriterSteps
  <1>3. CASE \E t \in Threads : Transaction(t)
    <2>1. PICK t \in Threads : Transaction(t)
      BY <1>3
    <2> QED BY <2>1, TxLockStep, TxBundleStep, TxIndexStep, TxLatestStep, TxSidecarStep,
               TxArchiveStep, TxPruneStep DEF Transaction
  <1>4. CASE Crash \/ Exit
    <2>1. /\ TypeOK' /\ UNCHANGED disk
          /\ queue' = EmptyQueue /\ writer' = IdleWriter /\ lock' = None
          /\ \A t \in Threads : tx'[t].pc = "off"
      BY <1>4, EndType DEF StoreInv
    <2>2. HoldersLock' /\ CopiesKept' /\ ParentIsIndex' /\ OwnBundleFirst' /\ DeadIsStill'
      BY <2>1 DEF HoldersLock, CopiesKept, ParentIsIndex, OwnBundleFirst, DeadIsStill, Holding
    <2>3. ManifestsDecode' /\ BundleNeverBehind'
      BY <2>1, SameManifests DEF disk
    <2> QED BY <2>1, <2>2, <2>3 DEF StoreInv
  <1>5. CASE Damage
    <2>1. TypeOK'
      BY <1>5, DamageType DEF StoreInv
    <2>2. /\ ui.pc = "dead" /\ UNCHANGED <<sidecar, latest, archive, queue, writer, ui, tx>>
          /\ \/ bundle' = Unreadable("bad") /\ UNCHANGED index
             \/ index' = Unreadable("bad") /\ UNCHANGED bundle
      BY <1>5 DEF Damage
    <2>3. \A t \in Threads : tx'[t].pc = "off"
      BY <2>2 DEF StoreInv, DeadIsStill
    <2>4. HoldersLock' /\ CopiesKept' /\ ParentIsIndex' /\ OwnBundleFirst' /\ DeadIsStill'
      BY <2>2, <2>3 DEF StoreInv, HoldersLock, CopiesKept, ParentIsIndex, OwnBundleFirst,
                        DeadIsStill, Holding
    <2>5. ~Readable(Unreadable("bad"))
      BY DEF Readable, Unreadable
    <2>6. ManifestsDecode'
      <3>1. Manifests' \subseteq Manifests \cup {Unreadable("bad")}
        BY <2>2 DEF Manifests
      <3> QED BY <2>2, <2>5, <3>1, DecodeFrame
    <2>7. BundleNeverBehind'
      BY <2>2, <2>5 DEF StoreInv, BundleNeverBehind, PrefersBundle, Readable
    <2> QED BY <2>1, <2>4, <2>6, <2>7 DEF StoreInv
  <1>6. CASE Launch
    <2>1. TypeOK' /\ ui'.pc # "dead"
      BY <1>6, LaunchType DEF StoreInv
    <2>2. UNCHANGED <<disk, tx, lock>>
      BY <1>6 DEF Launch
    <2> QED BY <2>1, <2>2, UnchangedTx, AliveStays, OutsideFrame DEF disk
  <1>7. CASE UNCHANGED vars
    BY <1>7 DEF vars, StoreInv, TypeOK, DiskOK, WindowOK, HoldersLock, CopiesKept, ParentIsIndex,
                OwnBundleFirst, DeadIsStill, ManifestsDecode, BundleNeverBehind, Manifests, Decodes,
                Readable, Referenced, PrefersBundle
  <1> QED BY <1>1, <1>2, <1>3, <1>4, <1>5, <1>6, <1>7 DEF Next

(* The store's invariant holds for any number of panes, captures, failing  *)
(* writes, resets, crashes and launches: save_transaction of either thread *)
(* keeps it, wherever atomic_write fails or the process ends.              *)
THEOREM StoreAlwaysSound == Spec => []StoreInv
  <1>1. StoreInv /\ [Next]_vars => StoreInv'
    BY StoreStep
  <1> QED BY InitStore, <1>1, PTL DEF Spec

(* Every manifest that can be read finds all its sidecars: prune_contexts  *)
(* never deletes what the bundle, latest.json or an archive refers to.     *)
THEOREM ManifestsAlwaysDecode == Spec => []ManifestsDecode
  <1>1. StoreInv => ManifestsDecode
    BY DEF StoreInv
  <1> QED BY StoreAlwaysSound, <1>1, PTL

(* source_decision never turns from a readable bundle to the index.        *)
THEOREM BundleNeverBehindIndex == Spec => []BundleNeverBehind
  <1>1. StoreInv => BundleNeverBehind
    BY DEF StoreInv
  <1> QED BY StoreAlwaysSound, <1>1, PTL

================================================================================
