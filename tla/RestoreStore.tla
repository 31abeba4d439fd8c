------------------------------ MODULE RestoreStore ------------------------------
(***************************************************************************)
(* How Chau7 Next saves its windows, tabs and terminal texts and finds     *)
(* them again after a crash.                                               *)
(*                                                                         *)
(* The UI thread captures: it records the text of every live pane in the   *)
(* BufferLedger and submits a request to the RestoreWriter, whose queue    *)
(* holds one request.  The writer thread commits it: the pending texts go  *)
(* to the canonical scrollback files, and save_transaction, under the      *)
(* store lock, copies them to sidecars named by their hash and publishes   *)
(* the bundle, the index, latest.json and an archive.  At launch load      *)
(* picks the bundle, the index or a backup.  Reset Window Positions runs   *)
(* load and save_transaction on the UI thread while the writer works.      *)
(*                                                                         *)
(* A text is a number and its own hash and size; 0 is no text.  A session  *)
(* is the capture it comes from, its open panes, the panes with scrollback *)
(* and, only to be observed, the text each of them had.  One window.       *)
(***************************************************************************)
EXTENDS Integers, FiniteSets, Sequences, SequencesExt, FiniteSetsExt, TLC

CONSTANTS
  Panes,          \* pane ids; a new pane has a new id
  MaxText,        \* texts are 1..MaxText
  Budget,         \* MAX_PENDING_CONTEXT_BYTES
  ArchiveKeep,    \* ARCHIVE_KEEP
  MaxCaptures,    \* bound: captures of a session, but for final ones
  MaxCloses,      \* bound: tabs closed
  MaxFailures,    \* bound: failing writes, and manifests found unreadable at launch
  MaxQuits,       \* bound: final captures
  MaxLaunches,    \* bound: launches after the first
  MaxResets       \* bound: Reset Window Positions

ASSUME RestoreAssumption ==
  /\ IsFiniteSet(Panes)
  /\ ArchiveKeep \in Nat \ {0}
  /\ \A n \in {MaxText, Budget, MaxCaptures, MaxCloses, MaxQuits, MaxFailures, MaxLaunches,
                MaxResets} :
       n \in Nat

VARIABLES
  file,      \* canonical scrollback file of each pane
  sidecar,   \* texts that have a file in contexts/
  bundle, index, latest,
  archive,   \* archived bundles; their names order them by time, so by token
  tabs,      \* what the window has of each pane
  saved,     \* panes whose saved record says they have scrollback
  shown,     \* observed: the text a pane had when it was last captured
  ledger, nextVersion, pendingBytes,
  queue,     \* [pending, final, closing] of the RestoreWriter
  writer,    \* [pc, req, todo, keep] of its thread
  ui,        \* [pc, ...] of the UI thread
  tx,        \* each thread's place in a store transaction
  lock,      \* holder of STORE_LOCK
  once,      \* statics of the process: [imported, archived]
  used       \* numbers handed out and faults so far

disk     == <<file, sidecar, bundle, index, latest, archive>>
window   == <<tabs, saved, shown>>
buffers  == <<ledger, nextVersion, pendingBytes>>
vars     == <<file, sidecar, bundle, index, latest, archive, tabs, saved, shown, ledger,
              nextVersion, pendingBytes, queue, writer, ui, tx, lock, once, used>>

Texts   == 0..MaxText
Threads == {"writer", "ui"}
None    == "none"
NoText  == [p \in Panes |-> 0]

NoSession == [gen |-> 0, open |-> {}, sb |-> {}, want |-> NoText]

(* A manifest that cannot be parsed, or is not there.                      *)
Unreadable(st) ==
  [st |-> st, token |-> 0, prev |-> 0, clear |-> FALSE, sess |-> NoSession, ctx |-> NoText]

Readable(m) == m.st = "ok"

Entry(v, t) == [version |-> v, hash |-> t, text |-> t, pending |-> TRUE, persisted |-> FALSE]
NoEntry     == [version |-> 0, hash |-> 0, text |-> 0, pending |-> FALSE, persisted |-> FALSE]

(* What a request says of a pane whose entry is not pending.               *)
NoBuffer  == [version |-> 0, text |-> 0]
NoRequest == [sess |-> NoSession, clear |-> FALSE, keep |-> {}, final |-> FALSE,
              contexts |-> [p \in Panes |-> NoBuffer]]
Carried(contexts) == {p \in Panes : contexts[p].version # 0}

EmptyQueue == [pending |-> NoRequest, final |-> FALSE, closing |-> FALSE]
IdleWriter == [pc |-> "wait", req |-> NoRequest, todo |-> {}, keep |-> {}]
NoTx       == [pc |-> "off", kind |-> "save", sess |-> NoSession, clear |-> FALSE,
               forced |-> FALSE, todo |-> {}, ctx |-> NoText, token |-> 0, prev |-> 0]
UiAt(pc)   == [pc |-> pc, reset |-> FALSE, idx |-> Unreadable("missing"),
               src |-> Unreadable("missing"), todo |-> {}, next |-> 0, sess |-> NoSession,
               keep |-> {}, clear |-> FALSE, final |-> FALSE, hook |-> FALSE]

Open(t) == {p \in Panes : t[p] \in {"live", "parked"}}

Init ==
  /\ file = NoText /\ sidecar = {} /\ archive = {}
  /\ bundle = Unreadable("missing") /\ index = bundle /\ latest = bundle
  /\ tabs = [p \in Panes |-> "none"] /\ saved = {} /\ shown = NoText
  /\ ledger = [p \in Panes |-> NoEntry] /\ nextVersion = 0 /\ pendingBytes = 0
  /\ queue = EmptyQueue /\ writer = IdleWriter
  /\ ui = UiAt("index")
  /\ tx = [t \in Threads |-> NoTx] /\ lock = None
  /\ once = [imported |-> FALSE, archived |-> FALSE]
  /\ used = [gen |-> 0, token |-> 0, captures |-> 0, closes |-> 0, quits |-> 0, failures |-> 0,
             launches |-> 0, damages |-> 0, resets |-> 0, durable |-> 0, final |-> 0]

MayFail == used.failures + used.damages < MaxFailures

(* Faulty variant: an error is not reported.                               *)
AtomicWrite_Silent(old, new) ==
  {[now |-> f, ok |-> TRUE] : f \in IF MayFail THEN {old, new} ELSE {new}}

(* atomic_write: the new file, or an error with the old file or, when only *)
(* the flush of the folder failed, with the new one.                       *)
AtomicWrite(old, new) ==
  {[now |-> new, ok |-> TRUE]} \cup
  (IF MayFail THEN {[now |-> f, ok |-> FALSE] : f \in {old, new}} ELSE {})
Counted(r) == [used EXCEPT !.failures = @ + (IF r.ok THEN 0 ELSE 1)]

--------------------------------------------------------------------------------
(* BufferLedger.                                                           *)

Held(e) == e.pending \/ e.persisted

(* Faulty variant: the bytes that wait already are not counted.            *)
Fits_Alone(e, bytes, t) == t <= Budget

(* record_with_budget refuses a text that does not fit.                    *)
Fits(e, bytes, t) == bytes - e.text + t <= Budget

Reused(e, t) == Held(e) /\ e.hash = t

HasContext(e) == Held(e) /\ e.hash # 0

(* Faulty variant: an entry may be dropped without its exact version.      *)
Acknowledges_AnyVersion(e, b) == e.pending /\ b.version # 0

(* acknowledge: only the version that was committed.                       *)
Acknowledges(e, b) == e.pending /\ b.version # 0 /\ e.version = b.version

(* Faulty variant: entries whose text is gone are carried too.             *)
Snapshot_Held(l) == [p \in Panes |->
  IF Held(l[p]) THEN [version |-> l[p].version, text |-> l[p].text] ELSE NoBuffer]

(* snapshot: every pending text, of closed panes too.                      *)
Snapshot(l) == [p \in Panes |->
  IF l[p].pending THEN [version |-> l[p].version, text |-> l[p].text] ELSE NoBuffer]

(* Faulty variant: retain forgets what was recorded during the commit.     *)
PendingIds_Forgotten(l) == {}

PendingIds(l) == {p \in Panes : l[p].pending}

(* What record leaves of a pane's entry, and the bytes then pending.       *)
Refused(e, t) == Reused(e, t) \/ ~Fits(e, pendingBytes, t)
Recorded(e, t) == IF Refused(e, t) THEN e ELSE Entry(nextVersion + 1, t)

Record(p, t) ==
  /\ ledger' = [ledger EXCEPT ![p] = Recorded(@, t)]
  /\ nextVersion' = nextVersion + (IF Refused(ledger[p], t) THEN 0 ELSE 1)
  /\ pendingBytes' = IF Refused(ledger[p], t) THEN pendingBytes
                     ELSE pendingBytes - ledger[p].text + t

(* Faulty variant: a text that waits for its commit is not seen.           *)
Context_File(p) == IF p \in saved THEN file[p] ELSE 0

(* What pane p shows once it is restored: the pending text, or the file.   *)
Context(p) ==
  IF ledger[p].pending THEN ledger[p].text ELSE IF p \in saved THEN file[p] ELSE 0

--------------------------------------------------------------------------------
(* The UI thread at work: tabs, captures and their submission.             *)

OpenTab(p) ==
  /\ ui.pc = "idle" /\ tabs[p] = "none"
  /\ tabs' = [tabs EXCEPT ![p] = "live"]
  /\ UNCHANGED <<disk, saved, shown, buffers, queue, writer, ui, tx, lock, once, used>>

(* close_tab: a tab that is not the window's last; a live one is captured  *)
(* with text t for Reopen Closed Tab, a deferred one keeps its record.     *)
CloseTab(p, t) ==
  /\ ui.pc = "idle" /\ p \in Open(tabs) /\ Open(tabs) # {p} /\ used.closes < MaxCloses
  /\ tabs' = [tabs EXCEPT ![p] = "closed"]
  /\ used' = [used EXCEPT !.closes = @ + 1]
  /\ \/ /\ tabs[p] = "live"
        /\ Record(p, t)
        /\ LET e == Recorded(ledger[p], t)
           IN  /\ saved' = IF HasContext(e) THEN saved \cup {p} ELSE saved
               /\ shown' = [shown EXCEPT ![p] = IF HasContext(e) THEN e.hash ELSE 0]
     \/ /\ tabs[p] = "parked" /\ t = 0
        /\ UNCHANGED <<buffers, saved, shown>>
  /\ UNCHANGED <<disk, queue, writer, ui, tx, lock, once>>

(* reopen_closed: the tab comes back deferred.                             *)
Reopen(p) ==
  /\ ui.pc = "idle" /\ tabs[p] = "closed" /\ Open(tabs) # {}
  /\ tabs' = [tabs EXCEPT ![p] = "parked"]
  /\ UNCHANGED <<disk, saved, shown, buffers, queue, writer, ui, tx, lock, once, used>>

(* activate_deferred: the pane shows its context and is captured again.    *)
Activate(p) ==
  /\ ui.pc = "idle" /\ tabs[p] = "parked"
  /\ tabs' = [tabs EXCEPT ![p] = "live"]
  /\ shown' = [shown EXCEPT ![p] = Context(p)]
  /\ saved' = saved \ {p}
  /\ UNCHANGED <<disk, buffers, queue, writer, ui, tx, lock, once, used>>

(* capture_session of the windows ts: a deferred pane is saved as it was   *)
(* loaded; the live ones are recorded one by one.                          *)
CaptureSession(ts, final, hook) ==
  LET parked == {p \in saved : ts[p] = "parked"}
      gen    == used.gen + 1
  IN  ui' = [UiAt("capture") EXCEPT
               !.sess = [gen |-> gen, open |-> Open(ts), sb |-> parked,
                         want |-> [p \in Panes |-> IF p \in parked THEN shown[p] ELSE 0]],
               !.todo = {p \in Panes : ts[p] = "live"},
               !.keep = {p \in saved : ts[p] \in {"parked", "closed"}},
               !.clear = (Open(ts) = {}), !.final = final, !.hook = hook]

CapturePane(p, t) ==
  /\ ui.pc = "capture" /\ p \in ui.todo
  /\ queue.final => t = 0     \* what follows the final capture goes nowhere
  /\ Record(p, t)
  /\ LET e   == Recorded(ledger[p], t)
         has == IF HasContext(e) THEN {p} ELSE {}
     IN  /\ ui' = [ui EXCEPT !.todo = @ \ {p}, !.keep = @ \cup has,
                             !.sess.sb = @ \cup has,
                             !.sess.want[p] = IF HasContext(e) THEN e.hash ELSE 0]
         /\ shown' = [shown EXCEPT ![p] = IF HasContext(e) THEN e.hash ELSE 0]
  /\ UNCHANGED <<disk, tabs, saved, queue, writer, tx, lock, once, used>>

(* The timer's save.                                                       *)
AutoSave ==
  /\ ui.pc = "idle" /\ Open(tabs) # {} /\ used.captures < MaxCaptures
  /\ CaptureSession(tabs, FALSE, FALSE)
  /\ used' = [used EXCEPT !.gen = @ + 1, !.captures = @ + 1]
  /\ UNCHANGED <<disk, window, buffers, queue, writer, tx, lock, once>>

(* save_after_terminal_window_close: the window, its tabs and its closed   *)
(* tabs are gone, and the empty session is saved as an explicit clear.     *)
CloseWindow ==
  /\ ui.pc = "idle" /\ Open(tabs) # {} /\ used.captures < MaxCaptures
  /\ tabs' = [p \in Panes |-> IF tabs[p] = "none" THEN "none" ELSE "gone"]
  /\ saved' = {}
  /\ CaptureSession(tabs', FALSE, FALSE)
  /\ used' = [used EXCEPT !.gen = @ + 1, !.captures = @ + 1]
  /\ UNCHANGED <<disk, shown, buffers, queue, writer, tx, lock, once>>

(* quit_now queues the final capture; on_app_quit captures once more,      *)
(* which only counts when quit_now did not run, and closes the queue.      *)
Quit(hook) ==
  /\ ui.pc = "idle"
  /\ IF queue.final THEN hook ELSE used.quits < MaxQuits
  /\ CaptureSession(tabs, TRUE, hook)
  /\ used' = [used EXCEPT !.gen = @ + 1, !.quits = IF queue.final THEN @ ELSE @ + 1]
  /\ UNCHANGED <<disk, window, buffers, queue, writer, tx, lock, once>>

(* Faulty variant: a capture after the final one replaces it.              *)
Accepts_AfterFinal(q) == ~q.closing

(* RestoreWriter::submit: nothing follows the final capture.               *)
Accepts(q) == ~q.closing /\ ~q.final

Submit ==
  /\ ui.pc = "capture" /\ ui.todo = {}
  /\ queue' = [pending |-> IF Accepts(queue)
                           THEN [sess |-> ui.sess, clear |-> ui.clear, keep |-> ui.keep,
                                 final |-> ui.final, contexts |-> Snapshot(ledger)]
                           ELSE queue.pending,
               final   |-> queue.final \/ (Accepts(queue) /\ ui.final),
               closing |-> queue.closing \/ ui.hook]
  /\ ui' = UiAt(IF ui.hook THEN "quit" ELSE "idle")
  /\ used' = [used EXCEPT !.final = IF Accepts(queue) /\ ui.final THEN ui.sess.gen ELSE @]
  /\ UNCHANGED <<disk, window, buffers, writer, tx, lock, once>>

--------------------------------------------------------------------------------
(* A transaction of thread t under the store lock: save_transaction, or    *)
(* the archive of what was loaded (remember_restore_source).               *)

Begin(t, kind, sess, clear, forced) ==
  tx' = [tx EXCEPT ![t] = [NoTx EXCEPT !.pc = "lock", !.kind = kind, !.sess = sess,
                             !.clear = clear, !.forced = forced, !.todo = sess.sb]]

(* Faulty variant: a thread enters while the other one holds the lock.     *)
MayLock_Shared(t) == TRUE

MayLock(t) == lock = None

TxLock(t) ==
  /\ tx[t].pc = "lock" /\ MayLock(t)
  /\ LET refused == tx[t].kind = "save" /\ ~tx[t].clear /\ tx[t].sess.open = {}
     IN  /\ lock' = IF refused THEN None ELSE t
         /\ tx' = [tx EXCEPT ![t].pc = IF refused THEN "failed" ELSE "sidecars",
                             ![t].prev = IF tx[t].kind = "save" THEN index.token ELSE 0]
  /\ UNCHANGED <<disk, window, buffers, queue, writer, ui, once, used>>

(* Faulty variant: an early return forgets the lock.                       *)
Proceed_KeepsLock(t, ok, next, otherwise) ==
  /\ tx' = [tx EXCEPT ![t].pc = IF ok THEN next ELSE otherwise]
  /\ lock' = IF ok /\ next = "done" THEN None ELSE lock

(* Where a thread goes after a write, and who then holds the lock.         *)
Proceed(t, ok, next, otherwise) ==
  /\ tx' = [tx EXCEPT ![t].pc = IF ok THEN next ELSE otherwise]
  /\ lock' = IF ok /\ next # "done" THEN lock ELSE None

(* The text of a pane is copied from its canonical file; a missing file    *)
(* fails the transaction.                                                  *)
TxSidecar(t, p) ==
  /\ tx[t].pc = "sidecars" /\ p \in tx[t].todo
  /\ \E r \in IF file[p] = 0 THEN {[now |-> sidecar, ok |-> FALSE]}
              ELSE IF file[p] \in sidecar THEN {[now |-> sidecar, ok |-> TRUE]}
              ELSE AtomicWrite(sidecar, sidecar \cup {file[p]}) :
       /\ sidecar' = r.now
       /\ tx' = [tx EXCEPT ![t].pc = IF r.ok THEN "sidecars" ELSE "failed",
                           ![t].todo = @ \ {p}, ![t].ctx[p] = file[p]]
       /\ lock' = IF r.ok THEN lock ELSE None
       /\ used' = IF file[p] = 0 THEN used ELSE Counted(r)
  /\ UNCHANGED <<file, bundle, index, latest, archive, window, buffers, queue, writer, ui, once>>

(* Faulty variant: no parent token.                                        *)
BundleOf_NoParent(x, token) ==
  [st |-> "ok", token |-> token, prev |-> 0, clear |-> x.clear, sess |-> x.sess, ctx |-> x.ctx]

BundleOf(x, token) ==
  [st |-> "ok", token |-> token, prev |-> x.prev, clear |-> x.clear, sess |-> x.sess,
   ctx |-> x.ctx]

(* With every sidecar in place the transaction gets its token; the bundle  *)
(* of a save is published first.                                           *)
TxBundle(t) ==
  /\ tx[t].pc = "sidecars" /\ tx[t].todo = {}
  /\ \E r \in IF tx[t].kind = "save"
              THEN AtomicWrite(bundle, BundleOf(tx[t], used.token + 1))
              ELSE {[now |-> bundle, ok |-> TRUE]} :
       /\ bundle' = r.now
       /\ tx' = [tx EXCEPT ![t].token = used.token + 1,
                           ![t].pc = IF ~r.ok THEN "failed"
                                     ELSE IF tx[t].kind = "save" THEN "index" ELSE "latest"]
       /\ lock' = IF r.ok THEN lock ELSE None
       /\ used' = [Counted(r) EXCEPT !.token = @ + 1]
  /\ UNCHANGED <<file, sidecar, index, latest, archive, window, buffers, queue, writer, ui, once>>

TxIndex(t) ==
  /\ tx[t].pc = "index"
  /\ \E r \in AtomicWrite(index, [BundleOf(tx[t], tx[t].token) EXCEPT !.prev = 0,
                                                                     !.ctx = NoText]) :
       /\ index' = r.now /\ Proceed(t, r.ok, "latest", "failed") /\ used' = Counted(r)
  /\ UNCHANGED <<file, sidecar, bundle, latest, archive, window, buffers, queue, writer, ui, once>>

(* write_backups: an error ends it, and only its log says so.              *)
TxLatest(t) ==
  /\ tx[t].pc = "latest"
  /\ \E r \in AtomicWrite(latest, BundleOf(tx[t], tx[t].token)) :
       /\ latest' = r.now /\ Proceed(t, r.ok, "archive", "done") /\ used' = Counted(r)
  /\ UNCHANGED <<file, sidecar, bundle, index, archive, window, buffers, queue, writer, ui, once>>

(* Due when forced, when the process has archived nothing yet, or when the *)
(* content changed and the interval is over.                               *)
TxArchive(t, due) ==
  /\ tx[t].pc = "archive"
  /\ tx[t].forced \/ ~once.archived => due
  /\ \E r \in IF due THEN AtomicWrite(archive, archive \cup {BundleOf(tx[t], tx[t].token)})
              ELSE {[now |-> archive, ok |-> TRUE]} :
       /\ archive' = r.now /\ Proceed(t, r.ok, "prune", "done") /\ used' = Counted(r)
       /\ once' = IF due /\ r.ok THEN [once EXCEPT !.archived = TRUE] ELSE once
  /\ UNCHANGED <<file, sidecar, bundle, index, latest, window, buffers, queue, writer, ui>>

Referenced(m) == {m.ctx[p] : p \in m.sess.sb}

(* Faulty variant: what only the archives refer to is deleted.             *)
KeptSidecars_NoArchives(a) == Referenced(bundle) \cup Referenced(latest)

(* prune_contexts: an unreadable manifest keeps every sidecar (latest.json *)
(* was just written).                                                      *)
KeptSidecars(a) ==
  IF bundle.st = "bad" THEN sidecar
  ELSE sidecar \cap UNION {Referenced(m) : m \in {bundle, latest} \cup a}

(* prune_archive keeps the newest archive, and of the others at most those *)
(* within ARCHIVE_KEEP; old and large ones go too.                         *)
Newer(m) == {n \in archive : n.token > m.token}
TxPrune(t, kept) ==
  /\ tx[t].pc = "prune"
  /\ \A m \in archive : Newer(m) = {} => m \in kept
  /\ \A m \in kept : Cardinality(Newer(m)) < ArchiveKeep
  /\ archive' = kept
  /\ sidecar' = KeptSidecars(kept)
  /\ Proceed(t, TRUE, "done", "done")
  /\ UNCHANGED <<file, bundle, index, latest, window, buffers, queue, writer, ui, once, used>>

--------------------------------------------------------------------------------
(* The writer thread: RestoreWriter's loop and commit.                     *)

WriterTakes ==
  /\ writer.pc = "wait" /\ queue.pending # NoRequest
  /\ writer' = [pc |-> "contexts", req |-> queue.pending, keep |-> {},
                todo |-> Carried(queue.pending.contexts)]
  /\ queue' = [queue EXCEPT !.pending = NoRequest]
  /\ UNCHANGED <<disk, window, buffers, ui, tx, lock, once, used>>

(* Faulty variant: closing the queue drops what it holds.                  *)
WriterEnds_Undrained ==
  /\ writer.pc = "wait" /\ queue.closing
  /\ writer' = [writer EXCEPT !.pc = "ended"]
  /\ UNCHANGED <<disk, window, buffers, queue, ui, tx, lock, once, used>>

(* The loop ends when the queue is closed and drained.                     *)
WriterEnds ==
  /\ writer.pc = "wait" /\ queue.pending = NoRequest /\ queue.closing
  /\ writer' = [writer EXCEPT !.pc = "ended"]
  /\ UNCHANGED <<disk, window, buffers, queue, ui, tx, lock, once, used>>

(* write_contexts, not under the store lock: a text, or the removal of the *)
(* file of a pane that has none.                                           *)
WriteContext(p) ==
  /\ writer.pc = "contexts" /\ p \in writer.todo
  /\ \E r \in AtomicWrite(file, [file EXCEPT ![p] = writer.req.contexts[p].text]) :
       /\ file' = r.now /\ used' = Counted(r)
       /\ writer' = [writer EXCEPT !.todo = @ \ {p}, !.pc = IF r.ok THEN @ ELSE "failed"]
  /\ UNCHANGED <<sidecar, bundle, index, latest, archive, window, buffers, queue, ui, tx, lock, once>>

WriterSaves ==
  /\ writer.pc = "contexts" /\ writer.todo = {}
  /\ Begin("writer", "save", writer.req.sess, writer.req.clear,
           writer.req.final \/ writer.req.clear)
  /\ writer' = [writer EXCEPT !.pc = "saving"]
  /\ UNCHANGED <<disk, window, buffers, queue, ui, lock, once, used>>

(* After the commit: acknowledge, then retain what is kept or pending.     *)
WriterAcknowledges ==
  /\ writer.pc = "saving" /\ tx["writer"].pc = "done"
  /\ LET got(p) == Acknowledges(ledger[p], writer.req.contexts[p])
         l  == [p \in Panes |-> IF got(p) THEN [ledger[p] EXCEPT !.text = 0, !.pending = FALSE,
                                                                !.persisted = TRUE]
                                ELSE ledger[p]]
         keep == writer.req.keep \cup PendingIds(l)
     IN  /\ ledger' = [p \in Panes |-> IF p \in keep THEN l[p] ELSE NoEntry]
         /\ pendingBytes' = pendingBytes - MapThenSumSet(LAMBDA p : ledger[p].text,
                                                       {p \in Panes : got(p)})
         /\ writer' = [writer EXCEPT !.pc = "prune", !.keep = keep]
  /\ tx' = [tx EXCEPT !["writer"] = NoTx]
  /\ used' = [used EXCEPT !.durable = writer.req.sess.gen]
  /\ UNCHANGED <<disk, window, nextVersion, queue, ui, lock, once>>

(* prune_scrollback: the files of panes that nobody keeps.                 *)
WriterPrunes ==
  /\ writer.pc = "prune"
  /\ file' = [p \in Panes |-> IF p \in writer.keep THEN file[p] ELSE 0]
  /\ writer' = IdleWriter
  /\ UNCHANGED <<sidecar, bundle, index, latest, archive, window, buffers, queue, ui, tx, lock, once, used>>

(* A failed commit: invalidate_persisted, so that live panes are captured  *)
(* again; what is pending stays pending.                                   *)
WriterFails ==
  /\ writer.pc = "failed" \/ (writer.pc = "saving" /\ tx["writer"].pc = "failed")
  /\ ledger' = [p \in Panes |-> IF p \in writer.req.keep
                                THEN [ledger[p] EXCEPT !.persisted = FALSE] ELSE ledger[p]]
  /\ tx' = [tx EXCEPT !["writer"] = NoTx]
  /\ writer' = IdleWriter
  /\ UNCHANGED <<disk, window, nextVersion, pendingBytes, queue, ui, lock, once, used>>

--------------------------------------------------------------------------------
(* load, on the UI thread and without the store lock.                      *)

LoadIndex ==
  /\ ui.pc = "index"
  /\ ui' = [ui EXCEPT !.pc = "bundle", !.idx = index]
  /\ UNCHANGED <<disk, window, buffers, queue, writer, tx, lock, once, used>>

(* source_decision: anything but IndexCurrent.                             *)
PrefersBundle(b, i) == Readable(b) /\ (Readable(i) => i.token \in {b.token, b.prev})

LoadBundle ==
  /\ ui.pc = "bundle"
  /\ ui' = IF PrefersBundle(bundle, ui.idx) THEN [ui EXCEPT !.pc = "decode", !.src = bundle]
           ELSE [ui EXCEPT !.pc = "byIndex"]
  /\ UNCHANGED <<disk, window, buffers, queue, writer, tx, lock, once, used>>

Decodes(m) == Referenced(m) \subseteq sidecar

(* When the source at hand is of no use: the index after the bundle, the   *)
(* next backup after a backup.                                             *)
GiveUp == [ui EXCEPT !.pc = IF ui.next = 0 THEN "byIndex" ELSE "backup", !.todo = {}]

(* decoded_contexts: every sidecar is checked before one file is changed.  *)
Decode ==
  /\ ui.pc = "decode"
  /\ ui' = IF Decodes(ui.src) THEN [ui EXCEPT !.pc = "hydrate", !.todo = ui.src.sess.sb]
           ELSE GiveUp
  /\ UNCHANGED <<disk, window, buffers, queue, writer, tx, lock, once, used>>

Hydrate(p) ==
  /\ ui.pc = "hydrate" /\ p \in ui.todo
  /\ \E r \in AtomicWrite(file, [file EXCEPT ![p] = ui.src.ctx[p]]) :
       /\ file' = r.now /\ used' = Counted(r)
       /\ ui' = IF r.ok THEN [ui EXCEPT !.todo = @ \ {p}] ELSE GiveUp
  /\ UNCHANGED <<sidecar, bundle, index, latest, archive, window, buffers, queue, writer, tx, lock, once>>

(* load returns session s, archived once per process by                    *)
(* remember_restore_source unless it has no window.                        *)
Return(s, remember) ==
  IF remember /\ s.open # {} /\ ~once.imported
  THEN /\ Begin("ui", "source", s, FALSE, TRUE)
       /\ once' = [once EXCEPT !.imported = TRUE]
       /\ ui' = [ui EXCEPT !.pc = "remember", !.sess = s]
  ELSE /\ ui' = [ui EXCEPT !.pc = "loaded", !.sess = s]
       /\ UNCHANGED <<tx, once>>

Hydrated ==
  /\ ui.pc = "hydrate" /\ ui.todo = {}
  /\ Return(ui.src.sess, TRUE)
  /\ UNCHANGED <<disk, window, buffers, queue, writer, lock, used>>

(* The index alone: its panes have whatever their files hold.              *)
LoadByIndex ==
  /\ ui.pc = "byIndex"
  /\ IF Readable(ui.idx)
     THEN Return([ui.idx.sess EXCEPT !.want = [p \in Panes |-> IF p \in ui.idx.sess.sb
                                                              THEN file[p] ELSE 0]],
                 ~ui.idx.clear)
     ELSE /\ ui' = [ui EXCEPT !.pc = "backup", !.next = 1, !.src = Unreadable("missing")]
          /\ UNCHANGED <<tx, once>>
  /\ UNCHANGED <<disk, window, buffers, queue, writer, lock, used>>

(* latest.json, then the archives, newest first; load may find nothing.    *)
LoadBackup ==
  /\ ui.pc = "backup"
  /\ LET found == IF ui.next = 1 THEN {m \in {latest} : Readable(m)}
                  ELSE {m \in archive : Cardinality(Newer(m)) = ui.next - 2}
     IN  ui' = IF found # {}
               THEN [ui EXCEPT !.pc = "decode", !.src = CHOOSE m \in found : TRUE, !.next = @ + 1]
               ELSE IF ui.next = 1 THEN [ui EXCEPT !.next = 2] ELSE UiAt("idle")
  /\ UNCHANGED <<disk, window, buffers, queue, writer, tx, lock, once, used>>

(* The restored windows open with every tab deferred.                      *)
OpenRestored ==
  /\ ui.pc = "loaded" /\ ~ui.reset
  /\ tabs' = [p \in Panes |-> IF p \in ui.sess.open THEN "parked" ELSE tabs[p]]
  /\ saved' = ui.sess.sb
  /\ shown' = ui.sess.want
  /\ ui' = UiAt("idle")
  /\ UNCHANGED <<disk, buffers, queue, writer, tx, lock, once, used>>

(* reset_window_positions: forget_positions loads and saves what it loaded.*)
Reset ==
  /\ ui.pc = "idle" /\ used.resets < MaxResets
  /\ ui' = [UiAt("index") EXCEPT !.reset = TRUE]
  /\ used' = [used EXCEPT !.resets = @ + 1]
  /\ UNCHANGED <<disk, window, buffers, queue, writer, tx, lock, once>>

ResetSaves ==
  /\ ui.pc = "loaded" /\ ui.reset
  /\ IF ui.sess.open = {} THEN ui' = UiAt("idle") /\ UNCHANGED tx
     ELSE /\ Begin("ui", "save", ui.sess, FALSE, FALSE)
          /\ ui' = [ui EXCEPT !.pc = "resetting"]
  /\ UNCHANGED <<disk, window, buffers, queue, writer, lock, once, used>>

UiTxEnds ==
  /\ tx["ui"].pc \in {"done", "failed"}
  /\ tx' = [tx EXCEPT !["ui"] = NoTx]
  /\ ui' = IF ui.pc = "remember" THEN [ui EXCEPT !.pc = "loaded"] ELSE UiAt("idle")
  /\ UNCHANGED <<disk, window, buffers, queue, writer, lock, once, used>>

--------------------------------------------------------------------------------
(* The end of the process and the next launch.                             *)

Forgotten ==
  /\ tabs' = [p \in Panes |-> IF tabs[p] = "none" THEN "none" ELSE "gone"]
  /\ saved' = {} /\ shown' = NoText
  /\ ledger' = [p \in Panes |-> NoEntry] /\ nextVersion' = 0 /\ pendingBytes' = 0
  /\ queue' = EmptyQueue /\ writer' = IdleWriter
  /\ tx' = [t \in Threads |-> NoTx] /\ lock' = None
  /\ once' = [imported |-> FALSE, archived |-> FALSE]

(* At any moment: a crash, a kill, a power loss.                           *)
Crash ==
  /\ ui.pc # "dead" /\ used.launches < MaxLaunches
  /\ ui' = UiAt("dead") /\ Forgotten
  /\ UNCHANGED <<disk, used>>

(* on_app_quit joins the writer before the process ends.                   *)
Exit ==
  /\ ui.pc = "quit" /\ writer.pc = "ended"
  /\ ui' = UiAt("dead") /\ Forgotten
  /\ UNCHANGED <<disk, used>>

(* Between two launches the bundle or the index became unreadable.         *)
Damage ==
  /\ ui.pc = "dead" /\ MayFail
  /\ used' = [used EXCEPT !.damages = @ + 1]
  /\ \/ bundle' = Unreadable("bad") /\ UNCHANGED index
     \/ index' = Unreadable("bad") /\ UNCHANGED bundle
  /\ UNCHANGED <<file, sidecar, latest, archive, window, buffers, queue, writer, ui, tx, lock, once>>

Launch ==
  /\ ui.pc = "dead" /\ used.launches < MaxLaunches
  /\ ui' = UiAt("index")
  /\ used' = [used EXCEPT !.launches = @ + 1]
  /\ UNCHANGED <<disk, window, buffers, queue, writer, tx, lock, once>>

--------------------------------------------------------------------------------
Ui ==
  \/ \E p \in Panes : OpenTab(p) \/ Reopen(p) \/ Activate(p) \/ Hydrate(p)
  \/ \E p \in Panes, t \in Texts : CloseTab(p, t) \/ CapturePane(p, t)
  \/ \E hook \in BOOLEAN : Quit(hook)
  \/ AutoSave \/ CloseWindow \/ Submit
  \/ LoadIndex \/ LoadBundle \/ Decode \/ Hydrated \/ LoadByIndex \/ LoadBackup
  \/ OpenRestored \/ Reset \/ ResetSaves \/ UiTxEnds

Transaction(t) ==
  \/ TxLock(t) \/ TxBundle(t) \/ TxIndex(t) \/ TxLatest(t)
  \/ \E p \in Panes : TxSidecar(t, p)
  \/ \E due \in BOOLEAN : TxArchive(t, due)
  \/ \E kept \in SUBSET archive : TxPrune(t, kept)

Writer ==
  \/ WriterTakes \/ WriterEnds \/ WriterSaves \/ WriterAcknowledges \/ WriterPrunes \/ WriterFails
  \/ \E p \in Panes : WriteContext(p)

Next ==
  \/ Ui \/ Writer
  \/ \E t \in Threads : Transaction(t)
  \/ Crash \/ Exit \/ Damage \/ Launch

Spec == Init /\ [][Next]_vars

(* Threads go on; the user need not do anything, and on_app_quit waits for *)
(* the writer.                                                             *)
UiContinues ==
  \/ Submit \/ LoadIndex \/ LoadBundle \/ Decode \/ Hydrated \/ LoadByIndex \/ LoadBackup
  \/ OpenRestored \/ ResetSaves \/ UiTxEnds \/ Exit
  \/ \E p \in Panes : Hydrate(p) \/ \E t \in Texts : CapturePane(p, t)

Fairness ==
  /\ WF_vars(Writer) /\ WF_vars(UiContinues)
  /\ \A t \in Threads : WF_vars(Transaction(t))

FairSpec == Spec /\ Fairness

Symmetry == Permutations(Panes)

--------------------------------------------------------------------------------
Session  == [gen : Nat, open : SUBSET Panes, sb : SUBSET Panes, want : [Panes -> Texts]]
Manifest == [st : {"missing", "bad", "ok"}, token : Nat, prev : Nat, clear : BOOLEAN,
             sess : Session, ctx : [Panes -> Texts]]
Buffer   == [version : Nat, text : Texts]
Request  == [sess : Session, clear : BOOLEAN, keep : SUBSET Panes, final : BOOLEAN,
             contexts : [Panes -> Buffer]]
Entries  == [version : Nat, hash : Texts, text : Texts, pending : BOOLEAN, persisted : BOOLEAN]
Queues   == [pending : Request, final : BOOLEAN, closing : BOOLEAN]
Writers  == [pc : {"wait", "contexts", "saving", "prune", "failed", "ended"}, req : Request,
             todo : SUBSET Panes, keep : SUBSET Panes]
Uis      == [pc : {"index", "bundle", "decode", "hydrate", "byIndex", "backup", "remember",
                   "loaded", "resetting", "idle", "capture", "quit", "dead"},
             reset : BOOLEAN, idx : Manifest, src : Manifest, todo : SUBSET Panes, next : Nat,
             sess : Session, keep : SUBSET Panes, clear : BOOLEAN, final : BOOLEAN,
             hook : BOOLEAN]
Txs      == [pc : {"off", "lock", "sidecars", "index", "latest", "archive", "prune", "done",
                   "failed"},
             kind : {"save", "source"}, sess : Session, clear : BOOLEAN, forced : BOOLEAN,
             todo : SUBSET Panes, ctx : [Panes -> Texts], token : Nat, prev : Nat]
Usage    == [gen : Nat, token : Nat, captures : Nat, closes : Nat, quits : Nat, failures : Nat,
             launches : Nat, damages : Nat, resets : Nat, durable : Nat, final : Nat]

DiskOK ==
  /\ file \in [Panes -> Texts] /\ sidecar \subseteq Texts
  /\ bundle \in Manifest /\ index \in Manifest /\ latest \in Manifest
  /\ archive \subseteq Manifest

WindowOK ==
  /\ tabs \in [Panes -> {"none", "live", "parked", "closed", "gone"}]
  /\ saved \subseteq Panes /\ shown \in [Panes -> Texts]

TypeOK ==
  /\ DiskOK /\ WindowOK
  /\ ledger \in [Panes -> Entries] /\ nextVersion \in Nat
  /\ queue \in Queues /\ writer \in Writers /\ ui \in Uis
  /\ tx \in [Threads -> Txs] /\ lock \in Threads \cup {None}
  /\ once \in [imported : BOOLEAN, archived : BOOLEAN] /\ used \in Usage

--------------------------------------------------------------------------------
Manifests == {bundle, latest} \cup archive

(* Every readable manifest, the oldest archive included, finds all its     *)
(* sidecars: the pruning of one transaction never takes what a manifest of *)
(* another refers to, wherever a write fails or the process ends.          *)
ManifestsDecode == \A m \in Manifests : Readable(m) => Decodes(m)

(* load never falls back to an index that is older than the bundle: the    *)
(* bundle has the token of the index, or its parent token.                 *)
BundleNeverBehind == Readable(bundle) => PrefersBundle(bundle, index)

(* What makes the two inductive.  A thread past its lock holds it; what it *)
(* has copied is in a sidecar; between its bundle and its index the bundle *)
(* is the one it wrote, and before its bundle the index is still the one   *)
(* it took for parent; a process that has ended does nothing.              *)
Holding == {"sidecars", "index", "latest", "archive", "prune"}

HoldersLock == \A t \in Threads : tx[t].pc \in Holding => lock = t

CopiesKept ==
  \A t \in Threads : tx[t].pc \in Holding \cup {"lock"} =>
    \A p \in tx[t].sess.sb :
      \/ tx[t].pc \in {"lock", "sidecars"} /\ p \in tx[t].todo
      \/ tx[t].pc # "lock" /\ tx[t].ctx[p] \in sidecar

ParentIsIndex ==
  \A t \in Threads : tx[t].pc = "sidecars" /\ tx[t].kind = "save" => tx[t].prev = index.token

OwnBundleFirst ==
  \A t \in Threads : tx[t].pc = "index" => Readable(bundle) /\ bundle.token = tx[t].token

DeadIsStill ==
  ui.pc = "dead" =>
    queue = EmptyQueue /\ writer = IdleWriter /\ \A t \in Threads : tx[t].pc = "off"

(* The inductive invariant of the store: every transaction, of either      *)
(* thread and cut off anywhere, leaves manifests that decode and an index  *)
(* that the bundle succeeds.                                               *)
StoreInv ==
  /\ TypeOK
  /\ HoldersLock /\ CopiesKept /\ ParentIsIndex /\ OwnBundleFirst /\ DeadIsStill
  /\ ManifestsDecode /\ BundleNeverBehind

(* What a launch finds first.                                              *)
Restorable ==
  IF PrefersBundle(bundle, index) /\ Decodes(bundle) THEN bundle ELSE index

(* Once a capture is acknowledged, neither a crash nor the loss of one     *)
(* manifest takes a launch back behind it, and a launch from the bundle    *)
(* finds the very texts of its capture.                                    *)
CommittedSurvives == used.damages <= 1 /\ used.resets = 0 /\ used.durable > 0 =>
  /\ Readable(Restorable) /\ Restorable.sess.gen >= used.durable
  /\ Restorable = bundle => \A p \in bundle.sess.sb : bundle.ctx[p] = bundle.sess.want[p]

(* An entry of the ledger that gave up its text is on disk, in the file    *)
(* that the next transaction will copy.                                    *)
PersistedTextOnDisk ==
  \A p \in Panes : ledger[p].persisted => file[p] = ledger[p].hash

(* A transaction of the writer finds in every file it still has to copy    *)
(* the text of the capture, whatever was recorded, closed, pruned or       *)
(* failed since.                                                           *)
SaveFindsTexts ==
  tx["writer"].pc = "sidecars" =>
    \A p \in tx["writer"].todo : tx["writer"].sess.want[p] = file[p]

(* A closed or deferred tab shows the text it had: the pending one or the  *)
(* file, which no other pane's commit, failure or pruning takes away.      *)
ReopenShowsCaptured ==
  ui.pc \in {"idle", "capture", "quit"} =>
    \A p \in saved : tabs[p] \in {"closed", "parked"} => Context(p) = shown[p]

(* Why the texts are where the properties say, as long as nobody resets the*)
(* window positions: what makes the four above inductive.                  *)

(* Panes of a window or of its list of closed tabs.                        *)
Going == {"live", "parked", "closed"}

Committing == writer.pc \in {"contexts", "saving"}
Queued     == queue.pending # NoRequest

(* Request r leaves text x in the file of pane p.                          *)
Harmless(r, p, x) == r.contexts[p].version = 0 \/ r.contexts[p].text = x
Spares(r, p, x)   == p \in r.keep /\ Harmless(r, p, x)

(* The file of p has text x, and every request on its way leaves it there. *)
Stays(p, x) ==
  /\ file[p] = x
  /\ writer.pc = "prune" => p \in writer.keep
  /\ Committing => Spares(writer.req, p, x)
  /\ Queued => Spares(queue.pending, p, x)

(* Pane p has text x: it waits in the ledger, or its file has it for good. *)
Shows(p, x) == IF ledger[p].pending THEN ledger[p].hash = x /\ x # 0 ELSE Stays(p, x)

(* A version names one text, and no number is used twice.                  *)
Agrees(b, e) ==
  b.version <= nextVersion /\ (b.version # 0 /\ b.version = e.version => b.text = e.hash)

VersionsAgree ==
  \A p \in Panes :
    /\ ledger[p].version <= nextVersion
    /\ ledger[p].pending => /\ ledger[p].version # 0 /\ ledger[p].text = ledger[p].hash
                            /\ ~ledger[p].persisted
    /\ Committing => Agrees(writer.req.contexts[p], ledger[p])
    /\ Queued => Agrees(queue.pending.contexts[p], ledger[p])

(* What was acknowledged is on disk and stays there, even for a pane that  *)
(* is not in the window any more, until the writer has forgotten it.       *)
PersistedStays ==
  \A p \in Panes : ledger[p].persisted =>
    /\ file[p] = ledger[p].hash
    /\ writer.pc = "prune" => p \in writer.keep
    /\ Committing => Harmless(writer.req, p, ledger[p].hash)
    /\ Queued => Harmless(queue.pending, p, ledger[p].hash)
    /\ ledger[p].hash # 0 /\ tabs[p] \in Going =>
         (Committing => p \in writer.req.keep) /\ (Queued => p \in queue.pending.keep)

(* A request that carries the current text of a pane also keeps its file,  *)
(* and the request behind it carries the same.                             *)
Carries(r, p) == ledger[p].pending /\ r.contexts[p].version = ledger[p].version

CarriedIsKept ==
  \A p \in Panes :
    /\ ledger[p].hash # 0 /\ tabs[p] \in Going =>
         /\ Committing /\ Carries(writer.req, p) => p \in writer.req.keep
         /\ Queued /\ Carries(queue.pending, p) => p \in queue.pending.keep
    /\ Committing /\ Queued /\ Carries(writer.req, p) => Carries(queue.pending, p)

(* The writer's request: what it carried is written, and the panes of its  *)
(* session have the texts they were captured with.                         *)
RequestTexts ==
  /\ Committing => \A p \in Panes :
       /\ p \in writer.todo => writer.req.contexts[p].version # 0
       /\ writer.req.contexts[p].version # 0 /\ p \notin writer.todo =>
            file[p] = writer.req.contexts[p].text
       /\ p \in writer.req.sess.sb =>
            IF writer.req.contexts[p].version # 0
            THEN writer.req.contexts[p].text = writer.req.sess.want[p]
            ELSE file[p] = writer.req.sess.want[p]
  /\ writer.pc = "saving" => writer.todo = {}
  /\ Queued => \A p \in queue.pending.sess.sb :
       IF queue.pending.contexts[p].version # 0
       THEN queue.pending.contexts[p].text = queue.pending.sess.want[p]
       ELSE /\ file[p] = queue.pending.sess.want[p]
            /\ writer.pc = "prune" => p \in writer.keep
            /\ Committing => Spares(writer.req, p, queue.pending.sess.want[p])

(* A pane with a saved record has the text it was captured or restored     *)
(* with; every other pane out of the window has none in the ledger.        *)
SavedShows ==
  \A p \in Panes :
    /\ p \in saved => tabs[p] \in {"closed", "parked"} /\ Shows(p, shown[p])
    /\ tabs[p] \in {"closed", "parked"} /\ HasContext(ledger[p]) => p \in saved
    /\ tabs[p] = "none" => ~Held(ledger[p])

(* The capture in progress.                                                *)
CaptureShows ==
  ui.pc = "capture" =>
    /\ saved \subseteq ui.keep
    /\ \A p \in Panes :
         /\ p \in ui.todo => tabs[p] = "live" /\ p \in ui.sess.open \ ui.sess.sb
         /\ p \in ui.sess.sb => tabs[p] \in Going /\ Shows(p, ui.sess.want[p])
         /\ tabs[p] \in Going /\ p \notin ui.todo /\ HasContext(ledger[p]) => p \in ui.keep

(* A transaction copies the texts of its session: the writer's the one it  *)
(* was asked for, the other thread's the one it has loaded.                *)
CopiesWanted ==
  /\ \A t \in Threads : tx[t].pc \in Holding \cup {"lock"} =>
       /\ tx[t].todo \subseteq tx[t].sess.sb
       /\ \A p \in tx[t].sess.sb \ tx[t].todo : tx[t].ctx[p] = tx[t].sess.want[p]
  /\ \A t \in Threads : tx[t].pc \in Holding \ {"sidecars"} => tx[t].todo = {}
  /\ tx["writer"].pc # "off" => writer.pc = "saving" /\ tx["writer"].sess = writer.req.sess
  /\ tx["ui"].pc # "off" => ui.pc = "remember" /\ tx["ui"].sess = ui.sess

SoundSession(s) == s.sb \subseteq s.open

(* The manifests have the texts their sessions were captured with.         *)
ManifestTexts ==
  /\ \A m \in Manifests : \A p \in m.sess.sb : m.ctx[p] = m.sess.want[p]
  /\ \A m \in Manifests \cup {index, ui.idx, ui.src} : SoundSession(m.sess)
  /\ SoundSession(ui.sess) /\ SoundSession(queue.pending.sess) /\ SoundSession(writer.req.sess)
  /\ \A t \in Threads : SoundSession(tx[t].sess)

(* load finds a process at rest, and returns panes whose files have the    *)
(* texts of the session.                                                   *)
Loading == {"index", "bundle", "decode", "hydrate", "byIndex", "backup", "remember", "loaded"}

LoadShows ==
  /\ ~ui.reset /\ ui.pc # "resetting"
  /\ ui.pc \in Loading \cup {"dead"} =>
       /\ queue = EmptyQueue /\ writer = IdleWriter /\ saved = {}
       /\ \A p \in Panes : ledger[p] = NoEntry
  /\ ui.pc \in {"decode", "hydrate"} =>
       \A p \in ui.src.sess.sb : ui.src.ctx[p] = ui.src.sess.want[p]
  /\ ui.pc = "hydrate" => \A p \in ui.src.sess.sb \ ui.todo : file[p] = ui.src.ctx[p]
  /\ ui.pc \in {"remember", "loaded"} => \A p \in ui.sess.sb : file[p] = ui.sess.want[p]

(* The inductive invariant of the captured texts.                          *)
TextsSound ==
  /\ VersionsAgree /\ PersistedStays /\ CarriedIsKept /\ RequestTexts
  /\ SavedShows /\ CaptureShows /\ CopiesWanted /\ ManifestTexts /\ LoadShows

TextInv == used.resets = 0 => TextsSound

(* Captures are committed in the order in which they were made.            *)
CommitOrder ==
  /\ used.durable <= used.gen
  /\ ui.pc = "capture" => ui.sess.gen = used.gen /\ used.gen > 0
  /\ Queued => queue.pending.sess.gen \in used.durable..used.gen
  /\ Committing => writer.req.sess.gen \in used.durable..used.gen
  /\ Committing /\ Queued => writer.req.sess.gen <= queue.pending.sess.gen

(* What the writer's transaction has published is there; what was loaded   *)
(* is archived without touching the bundle or the index.                   *)
Holds(m, s) == Readable(m) /\ m.sess = s

Published ==
  /\ tx["writer"].pc # "off" => tx["writer"].kind = "save"
  /\ tx["ui"].pc # "off" => tx["ui"].kind = "source" /\ tx["ui"].pc # "index"
  /\ tx["writer"].pc \in {"index", "latest", "archive", "prune", "done"} =>
       Holds(bundle, tx["writer"].sess)
  /\ tx["writer"].pc \in {"latest", "archive", "prune", "done"} =>
       Holds(index, tx["writer"].sess)

(* Neither manifest is older than the acknowledged capture, and one of     *)
(* them is there after one damage.                                         *)
DurableKept ==
  /\ \A m \in {bundle, index} : Readable(m) => m.sess.gen >= used.durable
  /\ used.durable > 0 /\ used.damages = 0 => Readable(bundle) /\ Readable(index)
  /\ used.durable > 0 /\ used.damages = 1 => Readable(bundle) \/ Readable(index)

CommitInv == used.resets = 0 => CommitOrder /\ Published /\ DurableKept

(* The inductive invariants of the captures.                               *)
CaptureInv == TextInv /\ CommitInv

(* Without a fault every pane that is saved with a text has one: no commit *)
(* fails, and the final capture goes its way through queue and writer.     *)
NonZero(s) == \A p \in s.sb : s.want[p] # 0

Clears(s, clear) == s.open = {} => clear

TextsNonZero ==
  /\ \A m \in Manifests \cup {ui.src} : NonZero(m.sess)
  /\ NonZero(ui.sess) /\ NonZero(queue.pending.sess) /\ NonZero(writer.req.sess)
  /\ \A p \in saved : shown[p] # 0

BundleIsLoaded ==
  /\ Readable(index) => Readable(bundle)
  /\ ui.pc = "bundle" => ui.idx = index
  /\ ui.pc \in {"decode", "hydrate"} /\ ui.next = 0 => ui.src = bundle /\ Readable(bundle)
  /\ ui.pc = "byIndex" => ~Readable(ui.idx)

NoCommitFails ==
  /\ writer.pc # "failed" /\ tx["writer"].pc # "failed"
  /\ ui.pc = "capture" => Clears(ui.sess, ui.clear)
  /\ Queued => Clears(queue.pending.sess, queue.pending.clear)
  /\ Committing => Clears(writer.req.sess, writer.req.clear)
  /\ tx["writer"].pc = "lock" => Clears(tx["writer"].sess, tx["writer"].clear)

FinalOnItsWay ==
  /\ ui.pc = "capture" /\ ui.hook => ui.final
  /\ queue.closing => queue.final
  /\ queue.final /\ Queued => queue.pending.sess.gen = used.final
  /\ queue.final /\ ~Queued /\ Committing => writer.req.sess.gen = used.final
  /\ queue.final /\ ~Queued /\ ~Committing =>
       /\ used.durable = used.final
       /\ bundle.sess.gen = used.final /\ index.sess.gen = used.final
  /\ writer.pc = "ended" => queue.closing /\ ~Queued

FinalInv ==
  used.failures + used.damages + used.resets = 0 =>
    TextsNonZero /\ BundleIsLoaded /\ NoCommitFails /\ FinalOnItsWay

--------------------------------------------------------------------------------
(* The writer's thread ends with the final capture committed and nothing   *)
(* behind it, unless a write failed or a manifest was lost: a pane that was*)
(* restored without its file fails the commit.  (Reset Window Positions may*)
(* save what it loaded after it.)                                          *)
FinalCaptureWins ==
  writer.pc = "ended" /\ used.failures + used.damages + used.resets = 0 =>
    used.durable = used.final /\ used.final \in {bundle.sess.gen} \cap {index.sess.gen}

(* The bytes counted against the budget are those of the pending texts: a  *)
(* committed or dropped entry holds none.                                  *)
LedgerWithinBudget ==
  /\ \A p \in Panes : ~ledger[p].pending => ledger[p].text = 0
  /\ pendingBytes = MapThenSumSet(LAMBDA p : ledger[p].text, Panes)
  /\ pendingBytes <= Budget

(* Quitting ends: the writer drains its queue and the process goes.        *)
QuitDrains == ui.pc = "quit" ~> ui.pc = "dead"

================================================================================
