--------------------------- MODULE RestoreTextsProofs ---------------------------
(***************************************************************************)
(* The captured texts of RestoreStore for any number of panes, texts,      *)
(* captures, failures, crashes and launches, as long as nobody resets the  *)
(* window positions: what the ledger has given up is on disk, a            *)
(* transaction copies the texts its session was captured with, and a tab   *)
(* that is reopened shows the text it had.                                 *)
(***************************************************************************)
EXTENDS RestoreStoreProofs, FiniteSetTheorems

--------------------------------------------------------------------------------
(* The parts of the invariant that a step leaves alone.                    *)

LEMMA EntryType ==
  ASSUME TypeOK, NEW p \in Panes
  PROVE  /\ ledger[p].version \in Nat /\ ledger[p].hash \in Texts
         /\ ledger[p].pending \in BOOLEAN /\ ledger[p].persisted \in BOOLEAN
         /\ writer.req.contexts[p].version \in Nat /\ queue.pending.contexts[p].version \in Nat
  BY DEF TypeOK, Entries, Writers, Queues, Request, Buffer

(* The pipeline of texts, from the ledger to the files.                    *)
Pipeline == <<file, ledger, nextVersion, queue, writer, tabs>>

PipeSound == VersionsAgree /\ PersistedStays /\ CarriedIsKept /\ RequestTexts

LEMMA PipeFrame == ASSUME PipeSound, UNCHANGED Pipeline PROVE PipeSound'
  BY DEF PipeSound, Pipeline, VersionsAgree, PersistedStays, CarriedIsKept, RequestTexts,
         Committing, Queued, Agrees, Harmless, Spares, Carries

(* A step that keeps the texts of the panes in the window.                 *)
KeepsTexts == \A p \in Panes : \A x \in Texts : tabs[p] \in Going /\ Shows(p, x) => Shows(p, x)'

LEMMA FrameKeepsTexts == ASSUME UNCHANGED Pipeline PROVE KeepsTexts
  BY DEF Pipeline, KeepsTexts, Shows, Stays, Committing, Queued, Harmless, Spares

(* The ledger has entries for no further pane.                             *)
ShrinksLedger ==
  \A p \in Panes : /\ HasContext(ledger'[p]) => HasContext(ledger[p])
                   /\ Held(ledger'[p]) => Held(ledger[p])

LEMMA ShownText ==
  ASSUME NEW p, NEW x, Shows(p, x)'
  PROVE  /\ x = shown'[p] => Shows(p, shown[p])'
         /\ x = ui'.sess.want[p] => Shows(p, ui.sess.want[p])'
  BY DEF Shows, Stays, Spares, Harmless, Committing, Queued

LEMMA KeptShows ==
  ASSUME TypeOK, SavedShows, CaptureShows, KeepsTexts, ShrinksLedger,
         UNCHANGED <<tabs, saved, shown, ui>>
  PROVE  SavedShows' /\ CaptureShows'
  <1>1. SavedShows'
    <2> SUFFICES ASSUME NEW p \in Panes
                 PROVE  /\ p \in saved' => tabs'[p] \in {"closed", "parked"} /\ Shows(p, shown[p])'
                        /\ tabs'[p] \in {"closed", "parked"} /\ HasContext(ledger'[p]) => p \in saved'
                        /\ tabs'[p] = "none" => ~Held(ledger'[p])
      BY DEF SavedShows
    <2>1. ASSUME p \in saved PROVE Shows(p, shown[p])'
      <3>1. PICK x \in Texts : x = shown[p]
        BY DEF TypeOK, WindowOK
      <3>2. tabs[p] \in Going /\ Shows(p, x)
        BY <2>1, <3>1 DEF SavedShows, Going
      <3>3. Shows(p, x)'
        BY <3>2 DEF KeepsTexts
      <3>4. x = shown'[p]
        BY <3>1
      <3> QED BY <3>3, <3>4, ShownText
    <2> QED BY <2>1 DEF SavedShows, ShrinksLedger
  <1>2. CaptureShows'
    <2> SUFFICES ASSUME ui.pc = "capture", NEW p \in Panes, p \in ui.sess.sb
                 PROVE  Shows(p, ui.sess.want[p])'
      BY DEF CaptureShows, ShrinksLedger
    <2>1. PICK x \in Texts : x = ui.sess.want[p]
      BY DEF TypeOK, Uis, Session
    <2>2. tabs[p] \in Going /\ Shows(p, x)
      BY <2>1 DEF CaptureShows
    <2>3. Shows(p, x)'
      BY <2>2 DEF KeepsTexts
    <2>4. x = ui'.sess.want[p]
      BY <2>1
    <2> QED BY <2>3, <2>4, ShownText
  <1> QED BY <1>1, <1>2

--------------------------------------------------------------------------------
(* The writer's thread and the texts.                                      *)

WriterTexts == PipeSound' /\ KeepsTexts /\ ShrinksLedger

LEMMA WriterTakesTexts ==
  ASSUME TypeOK, PipeSound, WriterTakes
  PROVE  WriterTexts
  <1>1. /\ writer.pc = "wait" /\ Queued /\ writer'.pc = "contexts"
        /\ writer'.req = queue.pending /\ writer'.todo = Carried(queue.pending.contexts)
        /\ queue'.pending = NoRequest
        /\ UNCHANGED <<file, ledger, nextVersion, tabs>>
    BY DEF WriterTakes, disk, buffers, window, TypeOK, Queues, Queued
  <1>2. ~Committing /\ Committing' /\ ~Queued'
    BY <1>1 DEF Committing, Queued
  <1>3. \A p \in Panes : p \in writer'.todo <=> queue.pending.contexts[p].version # 0
    BY <1>1 DEF Carried
  <1>4. VersionsAgree' /\ PersistedStays' /\ CarriedIsKept'
    BY <1>1, <1>2 DEF PipeSound, VersionsAgree, PersistedStays, CarriedIsKept, Agrees, Harmless,
                      Carries
  <1>5. RequestTexts'
    BY <1>1, <1>2, <1>3 DEF PipeSound, RequestTexts, TypeOK, Queues, Request, Session
  <1>6. KeepsTexts
    BY <1>1, <1>2 DEF KeepsTexts, Shows, Stays, Spares, Harmless
  <1> QED BY <1>1, <1>4, <1>5, <1>6 DEF WriterTexts, PipeSound, ShrinksLedger

LEMMA WriterEndsTexts ==
  ASSUME TypeOK, PipeSound, WriterEnds
  PROVE  WriterTexts
  <1>1. /\ writer.pc = "wait" /\ writer'.pc = "ended"
        /\ writer'.req = writer.req /\ writer'.todo = writer.todo
        /\ UNCHANGED <<file, ledger, nextVersion, tabs, queue>>
    BY DEF WriterEnds, disk, buffers, window, TypeOK, Writers
  <1>2. ~Committing /\ ~Committing' /\ (Queued' <=> Queued)
    BY <1>1 DEF Committing, Queued
  <1>3. PipeSound'
    BY <1>1, <1>2 DEF PipeSound, VersionsAgree, PersistedStays, CarriedIsKept, RequestTexts,
                      Agrees, Harmless, Carries, Spares
  <1>4. KeepsTexts
    BY <1>1, <1>2 DEF KeepsTexts, Shows, Stays, Spares, Harmless
  <1> QED BY <1>1, <1>3, <1>4 DEF WriterTexts, ShrinksLedger

LEMMA WriterSavesTexts ==
  ASSUME TypeOK, PipeSound, WriterSaves
  PROVE  WriterTexts
  <1>1. /\ writer.pc = "contexts" /\ writer.todo = {} /\ writer'.pc = "saving"
        /\ writer'.req = writer.req /\ writer'.todo = writer.todo
        /\ UNCHANGED <<file, ledger, nextVersion, tabs, queue>>
    BY DEF WriterSaves, disk, buffers, window, TypeOK, Writers
  <1>2. Committing /\ Committing' /\ (Queued' <=> Queued)
    BY <1>1 DEF Committing, Queued
  <1>3. PipeSound'
    BY <1>1, <1>2 DEF PipeSound, VersionsAgree, PersistedStays, CarriedIsKept, RequestTexts,
                      Agrees, Harmless, Carries, Spares
  <1>4. KeepsTexts
    BY <1>1, <1>2 DEF KeepsTexts, Shows, Stays, Spares, Harmless
  <1> QED BY <1>1, <1>3, <1>4 DEF WriterTexts, ShrinksLedger

(* One file is written, or left as it was by a failing write.              *)
LEMMA WriteContextTexts ==
  ASSUME TypeOK, PipeSound, NEW p \in Panes, WriteContext(p)
  PROVE  WriterTexts
  <1>1. PICK r \in AtomicWrite(file, [file EXCEPT ![p] = writer.req.contexts[p].text]) :
          /\ file' = r.now
          /\ writer' = [writer EXCEPT !.todo = @ \ {p}, !.pc = IF r.ok THEN @ ELSE "failed"]
    BY DEF WriteContext
  <1>2. /\ writer.pc = "contexts" /\ p \in writer.todo
        /\ UNCHANGED <<ledger, nextVersion, tabs, queue>>
    BY DEF WriteContext, buffers, window
  <1>3. /\ r.now \in {file, [file EXCEPT ![p] = writer.req.contexts[p].text]}
        /\ r.ok \in BOOLEAN /\ (r.ok => r.now = [file EXCEPT ![p] = writer.req.contexts[p].text])
    BY WriteType
  <1>4. /\ \A q \in Panes : q # p => file'[q] = file[q]
        /\ file'[p] \in {file[p], writer.req.contexts[p].text}
        /\ r.ok => file'[p] = writer.req.contexts[p].text
    BY <1>1, <1>3 DEF TypeOK, DiskOK
  <1>5. /\ writer'.req = writer.req /\ writer'.todo = writer.todo \ {p}
        /\ writer'.pc = IF r.ok THEN "contexts" ELSE "failed"
    BY <1>1, <1>2 DEF TypeOK, Writers
  <1>6. Committing /\ (Committing' <=> r.ok) /\ (Queued' <=> Queued)
    BY <1>2, <1>3, <1>5 DEF Committing, Queued
  <1>7. VersionsAgree' /\ CarriedIsKept'
    BY <1>2, <1>5, <1>6 DEF PipeSound, VersionsAgree, CarriedIsKept, Agrees, Carries
  <1>8. writer.req.contexts[p].version # 0
    BY <1>2, <1>6 DEF PipeSound, RequestTexts
  <1>9. \A x : Harmless(writer.req, p, x) /\ file[p] = x => file'[p] = x
    BY <1>4, <1>8 DEF Harmless
  <1>10. PersistedStays'
    BY <1>2, <1>4, <1>5, <1>6, <1>9 DEF PipeSound, PersistedStays, Harmless
  <1>11. RequestTexts'
    <2>1. ASSUME Committing'
          PROVE  \A q \in Panes :
                   /\ q \in writer'.todo => writer'.req.contexts[q].version # 0
                   /\ writer'.req.contexts[q].version # 0 /\ q \notin writer'.todo =>
                        file'[q] = writer'.req.contexts[q].text
                   /\ q \in writer'.req.sess.sb =>
                        IF writer'.req.contexts[q].version # 0
                        THEN writer'.req.contexts[q].text = writer'.req.sess.want[q]
                        ELSE file'[q] = writer'.req.sess.want[q]
      BY <1>2, <1>4, <1>5, <1>6, <1>8, <2>1 DEF PipeSound, RequestTexts
    <2>2. writer'.pc # "saving"
      BY <1>3, <1>5
    <2>3. ASSUME Queued, NEW q \in queue.pending.sess.sb
          PROVE  IF queue.pending.contexts[q].version # 0
                 THEN queue.pending.contexts[q].text = queue.pending.sess.want[q]
                 ELSE /\ file'[q] = queue.pending.sess.want[q]
                      /\ Spares(writer.req, q, queue.pending.sess.want[q])
      <3>1. q \in Panes
        BY <2>3 DEF TypeOK, Queues, Request, Session
      <3>2. CASE queue.pending.contexts[q].version # 0
        BY <2>3, <3>2 DEF PipeSound, RequestTexts
      <3>3. CASE queue.pending.contexts[q].version = 0
        <4>1. /\ file[q] = queue.pending.sess.want[q]
              /\ Spares(writer.req, q, queue.pending.sess.want[q])
          BY <1>6, <2>3, <3>3 DEF PipeSound, RequestTexts
        <4>2. file'[q] = queue.pending.sess.want[q]
          BY <1>4, <1>9, <3>1, <4>1 DEF Spares
        <4> QED BY <3>3, <4>1, <4>2
      <3> QED BY <3>2, <3>3
    <2> QED BY <1>2, <1>3, <1>5, <1>6, <2>1, <2>2, <2>3 DEF RequestTexts, Spares, Harmless
  <1>12. KeepsTexts
    BY <1>2, <1>3, <1>4, <1>5, <1>6, <1>9 DEF KeepsTexts, Shows, Stays, Spares, Harmless
  <1> QED BY <1>2, <1>7, <1>10, <1>11, <1>12 DEF WriterTexts, PipeSound, ShrinksLedger

LEMMA IdleWriterFields == IdleWriter.pc = "wait"
  BY DEF IdleWriter

LEMMA WriterPrunesTexts ==
  ASSUME TypeOK, PipeSound, WriterPrunes
  PROVE  WriterTexts
  <1>1. /\ writer.pc = "prune" /\ writer'.pc = "wait"
        /\ \A p \in Panes : p \in writer.keep => file'[p] = file[p]
        /\ UNCHANGED <<ledger, nextVersion, tabs, queue>>
    BY IdleWriterFields DEF WriterPrunes, buffers, window
  <1>2. ~Committing /\ ~Committing' /\ (Queued' <=> Queued)
    BY <1>1 DEF Committing, Queued
  <1>3. PipeSound'
    <2>1. VersionsAgree' /\ CarriedIsKept'
      BY <1>1, <1>2 DEF PipeSound, VersionsAgree, CarriedIsKept, Agrees, Carries
    <2>2. PersistedStays'
      BY <1>1, <1>2 DEF PipeSound, PersistedStays, Harmless
    <2>3. RequestTexts'
      BY <1>1, <1>2 DEF PipeSound, RequestTexts, TypeOK, Queues, Request, Session
    <2> QED BY <2>1, <2>2, <2>3 DEF PipeSound
  <1>4. KeepsTexts
    BY <1>1, <1>2 DEF KeepsTexts, Shows, Stays, Spares, Harmless
  <1> QED BY <1>1, <1>3, <1>4 DEF WriterTexts, ShrinksLedger

LEMMA WriterFailsTexts ==
  ASSUME TypeOK, PipeSound, WriterFails
  PROVE  WriterTexts
  <1>1. /\ writer'.pc = "wait" /\ UNCHANGED <<file, nextVersion, tabs, queue>>
        /\ writer.pc \in {"failed", "saving"}
    BY IdleWriterFields DEF WriterFails, disk, window
  <1>2. \A p \in Panes :
          /\ ledger'[p].version = ledger[p].version /\ ledger'[p].hash = ledger[p].hash
          /\ ledger'[p].text = ledger[p].text /\ ledger'[p].pending = ledger[p].pending
          /\ ledger'[p].persisted => ledger[p].persisted
    BY DEF WriterFails, TypeOK, Entries
  <1>3. ~Committing' /\ (Queued' <=> Queued)
    BY <1>1 DEF Committing, Queued
  <1>4. PipeSound'
    <2>1. VersionsAgree' /\ CarriedIsKept'
      BY <1>1, <1>2, <1>3 DEF PipeSound, VersionsAgree, CarriedIsKept, Agrees, Carries
    <2>2. PersistedStays'
      BY <1>1, <1>2, <1>3 DEF PipeSound, PersistedStays, Harmless
    <2>3. RequestTexts'
      BY <1>1, <1>3 DEF PipeSound, RequestTexts
    <2> QED BY <2>1, <2>2, <2>3 DEF PipeSound
  <1>5. KeepsTexts
    BY <1>1, <1>2, <1>3 DEF KeepsTexts, Shows, Stays, Spares, Harmless
  <1>6. ShrinksLedger
    BY <1>2 DEF ShrinksLedger, HasContext, Held
  <1> QED BY <1>4, <1>5, <1>6 DEF WriterTexts

(* The commit: what it acknowledges is written and kept.                   *)
LEMMA WriterAcknowledgesTexts ==
  ASSUME TypeOK, PipeSound, WriterAcknowledges
  PROVE  WriterTexts
  <1> DEFINE got(p) == Acknowledges(ledger[p], writer.req.contexts[p])
             l == [p \in Panes |-> IF got(p) THEN [ledger[p] EXCEPT !.text = 0, !.pending = FALSE,
                                                                   !.persisted = TRUE]
                                   ELSE ledger[p]]
             keep == writer.req.keep \cup PendingIds(l)
  <1>1. /\ writer.pc = "saving" /\ ledger' = [p \in Panes |-> IF p \in keep THEN l[p] ELSE NoEntry]
        /\ writer' = [writer EXCEPT !.pc = "prune", !.keep = keep]
        /\ UNCHANGED <<file, nextVersion, tabs, queue>>
    BY DEF WriterAcknowledges, disk, window
  <1>2. writer'.pc = "prune" /\ writer'.keep = keep
    BY <1>1 DEF TypeOK, Writers
  <1>3. Committing /\ ~Committing' /\ (Queued' <=> Queued)
    BY <1>1, <1>2 DEF Committing, Queued
  <1>4. \A p \in Panes : got(p) <=> ledger[p].pending /\ writer.req.contexts[p].version # 0
                                    /\ Carries(writer.req, p)
    BY DEF Acknowledges, Carries
  <1>5. ASSUME NEW p \in Panes
        PROVE  \/ /\ got(p) /\ p \in keep /\ p \in writer.req.keep
                  /\ ~ledger'[p].pending /\ ledger'[p].persisted
                  /\ ledger'[p].version = ledger[p].version /\ ledger'[p].hash = ledger[p].hash
               \/ ~got(p) /\ p \in keep /\ ledger'[p] = ledger[p]
               \/ ~ledger[p].pending /\ p \notin keep /\ ledger'[p] = NoEntry
               \/ got(p) /\ p \notin keep /\ ledger'[p] = NoEntry
    <2>1. ledger[p] \in Entries
      BY DEF TypeOK
    <2>2. CASE got(p)
      <3>1. l[p] = [ledger[p] EXCEPT !.text = 0, !.pending = FALSE, !.persisted = TRUE]
        BY <2>2
      <3>2. /\ ~l[p].pending /\ l[p].persisted
            /\ l[p].version = ledger[p].version /\ l[p].hash = ledger[p].hash
        BY <2>1, <3>1 DEF Entries
      <3>3. p \in keep <=> p \in writer.req.keep
        BY <3>2 DEF PendingIds
      <3>4. ledger'[p] = IF p \in keep THEN l[p] ELSE NoEntry
        BY <1>1
      <3> HIDE DEF l, keep, got
      <3> QED BY <2>2, <3>2, <3>3, <3>4
    <2>3. CASE ~got(p)
      <3>1. l[p] = ledger[p]
        BY <2>3
      <3>2. ledger[p].pending => p \in keep
        BY <3>1 DEF PendingIds
      <3>3. ledger'[p] = IF p \in keep THEN l[p] ELSE NoEntry
        BY <1>1
      <3>4. ledger[p].pending \in BOOLEAN
        BY <2>1 DEF Entries
      <3> HIDE DEF l, keep, got
      <3> QED BY <2>3, <3>1, <3>2, <3>3, <3>4
    <2> QED BY <2>2, <2>3
  <1>6. writer.req.keep \subseteq keep
    OBVIOUS
  <1> HIDE DEF got, l, keep
  <1>7. ASSUME NEW p \in Panes, got(p)
        PROVE  /\ file[p] = ledger[p].hash
               /\ Queued => /\ Harmless(queue.pending, p, ledger[p].hash)
                            /\ ledger[p].hash # 0 /\ tabs[p] \in Going => p \in queue.pending.keep
               /\ ledger[p].hash # 0 /\ tabs[p] \in Going => p \in writer.req.keep
    <2>1. /\ ledger[p].pending /\ ledger[p].version # 0 /\ Carries(writer.req, p)
          /\ writer.req.contexts[p].version = ledger[p].version
      BY <1>4, <1>7 DEF Carries
    <2>2. writer.req.contexts[p].text = ledger[p].hash
      BY <1>3, <2>1 DEF PipeSound, VersionsAgree, Agrees
    <2>3. file[p] = writer.req.contexts[p].text
      BY <1>1, <1>3, <2>1 DEF PipeSound, RequestTexts
    <2>4. Queued => Carries(queue.pending, p)
      BY <1>3, <2>1 DEF PipeSound, CarriedIsKept
    <2>5. Queued => queue.pending.contexts[p].text = ledger[p].hash
      BY <2>1, <2>4 DEF PipeSound, VersionsAgree, Agrees, Carries
    <2> QED BY <1>3, <2>1, <2>2, <2>3, <2>4, <2>5 DEF PipeSound, CarriedIsKept, Harmless
  <1>8. NoEntry.version = 0 /\ ~NoEntry.pending /\ ~NoEntry.persisted /\ NoEntry.hash = 0
    BY DEF NoEntry
  <1>9. VersionsAgree'
    <2> SUFFICES ASSUME NEW p \in Panes
                 PROVE  /\ ledger'[p].version <= nextVersion
                        /\ ledger'[p].pending => /\ ledger'[p].version # 0
                                                 /\ ledger'[p].text = ledger'[p].hash
                                                 /\ ~ledger'[p].persisted
                        /\ Queued => Agrees(queue.pending.contexts[p], ledger'[p])
      BY <1>1, <1>3 DEF VersionsAgree, Agrees
    <2>1. nextVersion \in Nat
      BY DEF TypeOK
    <2>2. CASE ledger'[p] = NoEntry
      BY <1>8, <2>1, <2>2 DEF PipeSound, VersionsAgree, Agrees
    <2>3. CASE ledger'[p] = ledger[p]
      BY <2>3 DEF PipeSound, VersionsAgree
    <2>4. CASE /\ ~ledger'[p].pending
               /\ ledger'[p].version = ledger[p].version /\ ledger'[p].hash = ledger[p].hash
      BY <2>4 DEF PipeSound, VersionsAgree, Agrees
    <2> QED BY <1>5, <2>2, <2>3, <2>4
  <1>10. PersistedStays'
    <2> SUFFICES ASSUME NEW p \in Panes, ledger'[p].persisted
                 PROVE  /\ file[p] = ledger'[p].hash /\ p \in keep
                        /\ Queued => Harmless(queue.pending, p, ledger'[p].hash)
                        /\ ledger'[p].hash # 0 /\ tabs[p] \in Going =>
                             (Queued => p \in queue.pending.keep)
      BY <1>1, <1>2, <1>3 DEF PersistedStays, Harmless
    <2>1. CASE got(p) /\ ledger'[p].hash = ledger[p].hash /\ p \in keep
      BY <1>7, <2>1
    <2>2. CASE ledger'[p] = ledger[p] /\ p \in keep
      BY <1>3, <2>2 DEF PipeSound, PersistedStays
    <2> QED BY <1>5, <1>8, <2>1, <2>2
  <1>11. CarriedIsKept'
    <2>1. \A p \in Panes : ledger'[p].pending => ledger'[p] = ledger[p]
      BY <1>5, <1>8
    <2> QED BY <1>1, <1>3, <2>1 DEF PipeSound, CarriedIsKept, Carries
  <1>12. RequestTexts'
    <2> SUFFICES ASSUME Queued, NEW p \in queue.pending.sess.sb,
                        queue.pending.contexts[p].version = 0
                 PROVE  p \in keep
      BY <1>1, <1>2, <1>3 DEF PipeSound, RequestTexts
    <2>1. Spares(writer.req, p, queue.pending.sess.want[p])
      BY <1>3 DEF PipeSound, RequestTexts
    <2> QED BY <1>6, <2>1 DEF Spares
  <1>13. KeepsTexts
    <2> SUFFICES ASSUME NEW p \in Panes, NEW x \in Texts, tabs[p] \in Going, Shows(p, x)
                 PROVE  Shows(p, x)'
      BY DEF KeepsTexts
    <2>1. CASE got(p)
      <3>1. ledger[p].pending /\ ledger[p].hash = x /\ x # 0
        BY <1>4, <2>1 DEF Shows
      <3>2. ~ledger'[p].pending /\ p \in keep
        BY <1>5, <1>6, <1>7, <1>8, <2>1, <3>1
      <3>3. file[p] = x /\ (Queued => Harmless(queue.pending, p, x) /\ p \in queue.pending.keep)
        BY <1>7, <2>1, <3>1
      <3> QED BY <1>1, <1>2, <1>3, <3>2, <3>3 DEF Shows, Stays, Spares, Harmless
    <2>2. CASE ~got(p) /\ ledger[p].pending
      <3>1. ledger'[p] = ledger[p]
        BY <1>5, <2>2
      <3> QED BY <2>2, <3>1 DEF Shows
    <2>3. CASE ~got(p) /\ ~ledger[p].pending
      <3>1. Stays(p, x)
        BY <2>3 DEF Shows
      <3>2. p \in keep
        BY <1>3, <1>6, <3>1 DEF Stays, Spares
      <3>3. ~ledger'[p].pending
        BY <1>5, <2>3, <3>2
      <3> QED BY <1>1, <1>2, <1>3, <3>1, <3>2, <3>3 DEF Shows, Stays, Spares, Harmless
    <2> QED BY <2>1, <2>2, <2>3
  <1>14. ShrinksLedger
    <2> SUFFICES ASSUME NEW p \in Panes
                 PROVE  /\ HasContext(ledger'[p]) => HasContext(ledger[p])
                        /\ Held(ledger'[p]) => Held(ledger[p])
      BY DEF ShrinksLedger
    <2> QED BY <1>4, <1>5, <1>8 DEF HasContext, Held
  <1> QED BY <1>9, <1>10, <1>11, <1>12, <1>13, <1>14 DEF WriterTexts, PipeSound

LEMMA NoRequestFields ==
  /\ NoRequest.sess = NoSession /\ NoSession.sb = {} /\ SoundSession(NoSession)
  /\ IdleWriter.req = NoRequest /\ EmptyQueue.pending = NoRequest /\ ~EmptyQueue.closing
  /\ NoTx.pc = "off" /\ NoTx.sess = NoSession /\ NoTx.todo = {}
  BY DEF NoRequest, NoSession, SoundSession, IdleWriter, EmptyQueue, NoTx

(* While the process loads, or is not there, the writer has nothing to do. *)
LEMMA WriterAwake ==
  ASSUME LoadShows, Writer
  PROVE  ui.pc \notin Loading \cup {"dead"}
  <1> SUFFICES ASSUME queue = EmptyQueue, writer = IdleWriter PROVE FALSE
    BY DEF LoadShows
  <1>1. writer.pc = "wait" /\ queue.pending = NoRequest /\ ~queue.closing
    BY IdleWriterFields, NoRequestFields
  <1> QED BY <1>1 DEF Writer, WriterTakes, WriterEnds, WriterSaves, WriterAcknowledges,
                      WriterPrunes, WriterFails, WriteContext

(* The session of the request is that of the transaction.                  *)
LEMMA WriterCopies ==
  ASSUME TypeOK, CopiesWanted, ManifestTexts, Writer
  PROVE  CopiesWanted' /\ ManifestTexts'
  <1>1. UNCHANGED <<bundle, index, latest, archive, ui>>
    BY DEF Writer, WriterTakes, WriterEnds, WriterSaves, WriterAcknowledges,
           WriterPrunes, WriterFails, WriteContext, disk
  <1>3. ASSUME /\ UNCHANGED tx /\ writer.pc # "saving"
               /\ writer'.req.sess \in {writer.req.sess, queue.pending.sess, NoSession}
               /\ queue'.pending.sess \in {queue.pending.sess, NoSession}
        PROVE  CopiesWanted' /\ ManifestTexts'
    <2>1. CopiesWanted'
      BY <1>1, <1>3 DEF CopiesWanted
    <2>2. ManifestTexts'
      BY <1>1, <1>3, NoRequestFields DEF ManifestTexts, Manifests, SoundSession
    <2> QED BY <2>1, <2>2
  <1>4. ASSUME /\ tx' = [tx EXCEPT !["writer"] = NoTx] /\ UNCHANGED queue
               /\ writer'.req.sess \in {writer.req.sess, NoSession}
        PROVE  CopiesWanted' /\ ManifestTexts'
    <2>1. tx'["writer"] = NoTx /\ tx'["ui"] = tx["ui"]
      BY <1>4 DEF TypeOK, Threads
    <2>2. CopiesWanted'
      BY <1>1, <2>1, NoRequestFields DEF CopiesWanted, Threads, Holding
    <2>3. ManifestTexts'
      BY <1>1, <1>4, <2>1, NoRequestFields DEF ManifestTexts, Manifests, SoundSession, Threads
    <2> QED BY <2>2, <2>3
  <1>5. CASE WriterTakes
    BY <1>3, <1>5 DEF WriterTakes, TypeOK, Queues, NoRequest
  <1>6. CASE WriterEnds
    BY <1>3, <1>6 DEF WriterEnds, TypeOK, Writers
  <1>7. CASE \E p \in Panes : WriteContext(p)
    BY <1>3, <1>7 DEF WriteContext, TypeOK, Writers
  <1>8. CASE WriterPrunes
    BY <1>3, <1>8, NoRequestFields DEF WriterPrunes
  <1>9. CASE WriterAcknowledges
    <2>1. PICK k : writer' = [writer EXCEPT !.pc = "prune", !.keep = k]
      BY <1>9 DEF WriterAcknowledges
    <2>2. writer'.req.sess = writer.req.sess
      BY <2>1 DEF TypeOK, Writers
    <2> QED BY <1>4, <1>9, <2>2 DEF WriterAcknowledges
  <1>10. CASE WriterFails
    BY <1>4, <1>10, NoRequestFields DEF WriterFails
  <1>11. CASE WriterSaves
    <2> DEFINE s == writer.req.sess
    <2>1. /\ writer.pc = "contexts" /\ writer' = [writer EXCEPT !.pc = "saving"] /\ UNCHANGED queue
          /\ Begin("writer", "save", s, writer.req.clear, writer.req.final \/ writer.req.clear)
      BY <1>11 DEF WriterSaves
    <2>2. writer'.pc = "saving" /\ writer'.req = writer.req
      BY <2>1 DEF TypeOK, Writers
    <2>3. /\ tx'["writer"].pc = "lock" /\ tx'["writer"].todo = s.sb /\ tx'["writer"].sess = s
          /\ tx'["ui"] = tx["ui"]
      BY <2>1 DEF Begin, TypeOK, Threads, NoTx
    <2>4. CopiesWanted'
      BY <1>1, <2>2, <2>3 DEF CopiesWanted, Threads, Holding
    <2>5. ManifestTexts'
      BY <1>1, <2>1, <2>2, <2>3 DEF ManifestTexts, Manifests, SoundSession, Threads
    <2> QED BY <2>4, <2>5
  <1> QED BY <1>5, <1>6, <1>7, <1>8, <1>9, <1>10, <1>11 DEF Writer

LEMMA WriterStep ==
  ASSUME TypeOK, TextsSound, Writer
  PROVE  TextsSound'
  <1>1. PipeSound
    BY DEF TextsSound, PipeSound
  <1>2. WriterTexts
    BY <1>1, WriterTakesTexts, WriterEndsTexts, WriterSavesTexts, WriteContextTexts,
       WriterPrunesTexts, WriterFailsTexts, WriterAcknowledgesTexts DEF Writer
  <1>3. UNCHANGED <<tabs, saved, shown, ui>>
    BY DEF Writer, WriterTakes, WriterEnds, WriterSaves, WriterAcknowledges,
           WriterPrunes, WriterFails, WriteContext, window
  <1>4. SavedShows' /\ CaptureShows'
    BY <1>2, <1>3, KeptShows DEF WriterTexts, TextsSound
  <1>5. CopiesWanted' /\ ManifestTexts'
    BY WriterCopies DEF TextsSound
  <1>6. LoadShows'
    BY <1>3, WriterAwake DEF TextsSound, LoadShows, Loading
  <1> QED BY <1>2, <1>4, <1>5, <1>6 DEF WriterTexts, TextsSound, PipeSound

--------------------------------------------------------------------------------
(* A transaction and the texts: it copies what its session wants.          *)

Wanted(x) ==
  /\ x.pc \in Holding \cup {"lock"} =>
       /\ x.todo \subseteq x.sess.sb
       /\ \A p \in x.sess.sb \ x.todo : x.ctx[p] = x.sess.want[p]
  /\ x.pc \in Holding \ {"sidecars"} => x.todo = {}

SoundManifest(m) == SoundSession(m.sess) /\ \A p \in m.sess.sb : m.ctx[p] = m.sess.want[p]

LEMMA TransactionFrames ==
  ASSUME NEW t \in Threads, Transaction(t)
  PROVE  UNCHANGED <<file, ledger, nextVersion, queue, writer, tabs, saved, shown, ui>>
  BY DEF Transaction, TxLock, TxSidecar, TxBundle, TxIndex, TxLatest, TxArchive, TxPrune,
         disk, window, buffers

(* What is left to show of a step of transaction t.                        *)
LEMMA TransactionTexts ==
  ASSUME TypeOK, TextsSound, NEW t \in Threads, tx[t].pc # "off", Wanted(tx'[t]),
         UNCHANGED <<file, ledger, nextVersion, queue, writer, tabs, saved, shown, ui>>,
         tx'[t].sess = tx[t].sess, \A u \in Threads : u # t => tx'[u] = tx[u],
         \A m \in Manifests' : m \in Manifests \/ SoundManifest(m),
         index'.sess \in {index.sess, tx[t].sess}
  PROVE  TextsSound'
  <1>1. PipeSound'
    BY PipeFrame DEF TextsSound, PipeSound, Pipeline
  <1>2. SavedShows' /\ CaptureShows'
    BY KeptShows, FrameKeepsTexts DEF TextsSound, ShrinksLedger, Pipeline
  <1>3. LoadShows'
    BY DEF TextsSound, LoadShows
  <1>4. CopiesWanted'
    <2>1. \A u \in Threads : Wanted(tx'[u])
      BY DEF TextsSound, CopiesWanted, Wanted
    <2>2. \A u \in Threads : tx'[u].pc # "off" => tx[u].pc # "off" /\ tx'[u].sess = tx[u].sess
      OBVIOUS
    <2>3. "writer" \in Threads /\ "ui" \in Threads
      BY DEF Threads
    <2> QED BY <2>1, <2>2, <2>3 DEF TextsSound, CopiesWanted, Wanted
  <1>5. ManifestTexts'
    <2>1. \A m \in Manifests' : SoundManifest(m)
      BY DEF TextsSound, ManifestTexts, SoundManifest
    <2>2. \A u \in Threads : SoundSession(tx'[u].sess)
      BY DEF TextsSound, ManifestTexts
    <2>3. /\ SoundSession(index'.sess) /\ SoundSession(ui'.idx.sess) /\ SoundSession(ui'.src.sess)
          /\ SoundSession(ui'.sess) /\ SoundSession(queue'.pending.sess)
          /\ SoundSession(writer'.req.sess)
      BY DEF TextsSound, ManifestTexts
    <2> QED BY <2>1, <2>2, <2>3 DEF ManifestTexts, SoundManifest, SoundSession
  <1> QED BY <1>1, <1>2, <1>3, <1>4, <1>5 DEF TextsSound, PipeSound

(* The bundle of a transaction that has copied all its texts.              *)
LEMMA BundleWanted ==
  ASSUME TypeOK, TextsSound, NEW t \in Threads, NEW n, tx[t].pc \in Holding, tx[t].todo = {}
  PROVE  SoundManifest(BundleOf(tx[t], n))
  BY DEF TextsSound, CopiesWanted, ManifestTexts, SoundManifest, BundleOf, Holding

LEMMA TxLockTexts ==
  ASSUME TypeOK, TextsSound, NEW t \in Threads, TxLock(t)
  PROVE  TextsSound'
  <1>1. PICK pc \in {"failed", "sidecars"}, n \in Nat :
          tx' = [tx EXCEPT ![t].pc = pc, ![t].prev = n]
    <2>1. index.token \in Nat
      BY DEF TypeOK, DiskOK, Manifest
    <2> QED BY <2>1 DEF TxLock
  <1>2. /\ tx'[t].sess = tx[t].sess /\ tx'[t].todo = tx[t].todo /\ tx'[t].ctx = tx[t].ctx
        /\ tx'[t].pc = pc /\ \A u \in Threads : u # t => tx'[u] = tx[u]
    BY <1>1 DEF TypeOK, Txs
  <1>3. tx[t].pc = "lock" /\ UNCHANGED <<bundle, index, latest, archive>>
    BY DEF TxLock, disk
  <1>4. Wanted(tx'[t])
    BY <1>2, <1>3 DEF Wanted, TextsSound, CopiesWanted, Holding
  <1>5. UNCHANGED <<file, ledger, nextVersion, queue, writer, tabs, saved, shown, ui>>
    BY TransactionFrames DEF Transaction
  <1> QED BY <1>2, <1>3, <1>4, <1>5, TransactionTexts DEF Manifests

(* What a transaction still has to copy is the text its session wants.     *)
LEMMA FileIsWanted ==
  ASSUME TypeOK, TextsSound, NEW t \in Threads, tx[t].pc = "sidecars", NEW p \in tx[t].sess.sb
  PROVE  file[p] = tx[t].sess.want[p]
  <1>0. p \in Panes
    BY DEF TypeOK, Txs, Session
  <1>1. CASE t = "writer"
    <2>1. writer.pc = "saving" /\ tx[t].sess = writer.req.sess /\ writer.todo = {} /\ Committing
      BY <1>1 DEF TextsSound, CopiesWanted, RequestTexts, Committing
    <2> QED BY <1>0, <2>1 DEF TextsSound, RequestTexts
  <1>2. CASE t = "ui"
    <2>1. ui.pc = "remember" /\ tx[t].sess = ui.sess
      BY <1>2 DEF TextsSound, CopiesWanted
    <2> QED BY <2>1 DEF TextsSound, LoadShows
  <1> QED BY <1>1, <1>2 DEF Threads

LEMMA TxSidecarTexts ==
  ASSUME TypeOK, TextsSound, NEW t \in Threads, NEW p \in Panes, TxSidecar(t, p)
  PROVE  TextsSound'
  <1>1. PICK pc \in {"failed", "sidecars"} :
          tx' = [tx EXCEPT ![t].pc = pc, ![t].todo = @ \ {p}, ![t].ctx[p] = file[p]]
    BY DEF TxSidecar
  <1>2. /\ tx'[t].sess = tx[t].sess /\ tx'[t].todo = tx[t].todo \ {p}
        /\ tx'[t].ctx = [tx[t].ctx EXCEPT ![p] = file[p]]
        /\ tx'[t].pc = pc /\ \A u \in Threads : u # t => tx'[u] = tx[u]
    BY <1>1 DEF TypeOK, Txs
  <1>3. tx[t].pc = "sidecars" /\ UNCHANGED <<bundle, index, latest, archive>>
    BY DEF TxSidecar
  <1>4. Wanted(tx'[t])
    <2> SUFFICES ASSUME NEW q \in tx[t].sess.sb, q \notin tx[t].todo \/ q = p
                 PROVE  tx'[t].ctx[q] = tx[t].sess.want[q]
      BY <1>2, <1>3 DEF Wanted, Holding, TextsSound, CopiesWanted
    <2>1. q \in Panes /\ tx[t].ctx \in [Panes -> Texts]
      BY DEF TypeOK, Txs, Session
    <2>2. CASE q = p
      BY <1>2, <1>3, <2>1, <2>2, FileIsWanted
    <2>3. CASE q # p /\ q \notin tx[t].todo
      BY <1>2, <1>3, <2>1, <2>3 DEF TextsSound, CopiesWanted, Holding
    <2> QED BY <2>2, <2>3
  <1>5. UNCHANGED <<file, ledger, nextVersion, queue, writer, tabs, saved, shown, ui>>
    BY TransactionFrames DEF Transaction
  <1> QED BY <1>2, <1>3, <1>4, <1>5, TransactionTexts DEF Manifests

LEMMA TxBundleTexts ==
  ASSUME TypeOK, TextsSound, NEW t \in Threads, TxBundle(t)
  PROVE  TextsSound'
  <1> DEFINE b == BundleOf(tx[t], used.token + 1)
  <1>1. PICK pc \in {"failed", "index", "latest"}, n \in Nat :
          tx' = [tx EXCEPT ![t].token = n, ![t].pc = pc]
    <2>1. used.token + 1 \in Nat
      BY DEF TypeOK, Usage
    <2> QED BY <2>1 DEF TxBundle
  <1>2. /\ tx'[t].sess = tx[t].sess /\ tx'[t].todo = tx[t].todo /\ tx'[t].ctx = tx[t].ctx
        /\ tx'[t].pc = pc /\ \A u \in Threads : u # t => tx'[u] = tx[u]
    BY <1>1 DEF TypeOK, Txs
  <1>3. tx[t].pc = "sidecars" /\ tx[t].todo = {} /\ UNCHANGED <<index, latest, archive>>
    BY DEF TxBundle
  <1>4. bundle' \in {bundle, b}
    <2>1. PICK r \in IF tx[t].kind = "save" THEN AtomicWrite(bundle, b)
                     ELSE {[now |-> bundle, ok |-> TRUE]} : bundle' = r.now
      BY DEF TxBundle
    <2>2. CASE r \in AtomicWrite(bundle, b)
      BY <2>1, <2>2, WriteType
    <2>3. CASE r = [now |-> bundle, ok |-> TRUE]
      BY <2>1, <2>3
    <2> QED BY <2>2, <2>3
  <1>5. SoundManifest(b)
    BY <1>3, BundleWanted DEF Holding
  <1> HIDE DEF b
  <1>6. Wanted(tx'[t])
    BY <1>2, <1>3 DEF Wanted, TextsSound, CopiesWanted, Holding
  <1>7. UNCHANGED <<file, ledger, nextVersion, queue, writer, tabs, saved, shown, ui>>
    BY TransactionFrames DEF Transaction
  <1>8. \A m \in Manifests' : m \in Manifests \/ SoundManifest(m)
    BY <1>3, <1>4, <1>5 DEF Manifests
  <1> QED BY <1>2, <1>3, <1>6, <1>7, <1>8, TransactionTexts

(* Where a transaction goes on, with all its texts copied.                 *)
LEMMA ProceedTexts ==
  ASSUME TypeOK, TextsSound, NEW t \in Threads, NEW ok, NEW next, NEW otherwise,
         Proceed(t, ok, next, otherwise), tx[t].pc \in Holding \ {"sidecars"}
  PROVE  /\ tx'[t].sess = tx[t].sess /\ Wanted(tx'[t])
         /\ \A u \in Threads : u # t => tx'[u] = tx[u]
  <1>1. PICK pc : tx' = [tx EXCEPT ![t].pc = pc]
    BY DEF Proceed
  <1>2. /\ tx'[t].sess = tx[t].sess /\ tx'[t].todo = tx[t].todo /\ tx'[t].ctx = tx[t].ctx
        /\ \A u \in Threads : u # t => tx'[u] = tx[u]
    BY <1>1 DEF TypeOK, Txs
  <1>3. tx[t].todo = {} /\ \A p \in tx[t].sess.sb : tx[t].ctx[p] = tx[t].sess.want[p]
    BY DEF TextsSound, CopiesWanted
  <1> QED BY <1>2, <1>3 DEF Wanted

LEMMA TxWritesTexts ==
  ASSUME TypeOK, TextsSound, NEW t \in Threads,
         TxIndex(t) \/ TxLatest(t) \/ (\E due \in BOOLEAN : TxArchive(t, due))
           \/ (\E kept \in SUBSET archive : TxPrune(t, kept))
  PROVE  TextsSound'
  <1> DEFINE b == BundleOf(tx[t], tx[t].token)
  <1>1. tx[t].pc \in Holding \ {"sidecars"} /\ tx[t].pc # "off"
    BY DEF TxIndex, TxLatest, TxArchive, TxPrune, Holding
  <1>2. SoundManifest(b) /\ b.sess = tx[t].sess
    <2>1. tx[t].todo = {}
      BY <1>1 DEF TextsSound, CopiesWanted
    <2> QED BY <1>1, <2>1, BundleWanted DEF BundleOf
  <1>3. PICK ok, next, otherwise : Proceed(t, ok, next, otherwise)
    BY DEF TxIndex, TxLatest, TxArchive, TxPrune
  <1>4. UNCHANGED <<file, ledger, nextVersion, queue, writer, tabs, saved, shown, ui>>
    BY TransactionFrames DEF Transaction
  <1>5. /\ \A m \in Manifests' : m \in Manifests \/ m = b
        /\ index'.sess \in {index.sess, tx[t].sess}
    <2>1. CASE TxIndex(t)
      <3>1. PICK r \in AtomicWrite(index, [b EXCEPT !.prev = 0, !.ctx = NoText]) : index' = r.now
        BY <2>1 DEF TxIndex
      <3>2. index' \in {index, [b EXCEPT !.prev = 0, !.ctx = NoText]}
        BY <3>1, WriteType
      <3>3. index'.sess \in {index.sess, tx[t].sess}
        BY <3>2 DEF BundleOf
      <3> QED BY <2>1, <3>3 DEF TxIndex, Manifests
    <2>2. CASE TxLatest(t)
      <3>1. PICK r \in AtomicWrite(latest, b) : latest' = r.now
        BY <2>2 DEF TxLatest
      <3>2. latest' \in {latest, b}
        BY <3>1, WriteType
      <3> HIDE DEF b
      <3> QED BY <2>2, <3>2 DEF TxLatest, Manifests
    <2>3. CASE \E due \in BOOLEAN : TxArchive(t, due)
      <3>1. PICK due \in BOOLEAN : TxArchive(t, due)
        BY <2>3
      <3>2. PICK r \in IF due THEN AtomicWrite(archive, archive \cup {b})
                       ELSE {[now |-> archive, ok |-> TRUE]} : archive' = r.now
        BY <3>1 DEF TxArchive
      <3>3. archive' \in {archive, archive \cup {b}}
        <4>1. CASE r \in AtomicWrite(archive, archive \cup {b})
          BY <3>2, <4>1, WriteType
        <4>2. CASE r = [now |-> archive, ok |-> TRUE]
          BY <3>2, <4>2
        <4> QED BY <3>2, <4>1, <4>2
      <3> HIDE DEF b
      <3> QED BY <3>1, <3>3 DEF TxArchive, Manifests
    <2>4. CASE \E kept \in SUBSET archive : TxPrune(t, kept)
      BY <2>4 DEF TxPrune, Manifests
    <2> QED BY <2>1, <2>2, <2>3, <2>4
  <1> HIDE DEF b
  <1>6. \A m \in Manifests' : m \in Manifests \/ SoundManifest(m)
    BY <1>2, <1>5
  <1>7. tx'[t].sess = tx[t].sess /\ Wanted(tx'[t]) /\ \A u \in Threads : u # t => tx'[u] = tx[u]
    BY <1>1, <1>3, ProceedTexts
  <1> QED BY <1>1, <1>4, <1>5, <1>6, <1>7, TransactionTexts

LEMMA TransactionStep ==
  ASSUME TypeOK, TextsSound, NEW t \in Threads, Transaction(t)
  PROVE  TextsSound'
  BY TxLockTexts, TxSidecarTexts, TxBundleTexts, TxWritesTexts DEF Transaction

--------------------------------------------------------------------------------
(* Loading, and the end of the process.                                    *)

Quiet ==
  queue = EmptyQueue /\ writer = IdleWriter /\ \A p \in Panes : ledger[p] = NoEntry

LEMMA NoEntryFields ==
  /\ NoEntry.version = 0 /\ NoEntry.hash = 0 /\ ~NoEntry.pending /\ ~NoEntry.persisted
  /\ ~Held(NoEntry) /\ ~HasContext(NoEntry)
  BY DEF NoEntry, Held, HasContext

LEMMA QuietPipe ==
  ASSUME Quiet', nextVersion' \in Nat
  PROVE  PipeSound' /\ ~Committing' /\ ~Queued'
  <1>1. ~Committing' /\ ~Queued' /\ writer'.pc = "wait"
    BY IdleWriterFields, NoRequestFields DEF Quiet, Committing, Queued
  <1>2. \A p \in Panes : /\ ledger'[p].version = 0 /\ ~ledger'[p].pending
                         /\ ~ledger'[p].persisted
    BY NoEntryFields DEF Quiet
  <1> QED BY <1>1, <1>2 DEF PipeSound, VersionsAgree, PersistedStays, CarriedIsKept, RequestTexts,
                            Carries

LEMMA QuietWindow ==
  ASSUME Quiet', saved' = {}, ui'.pc # "capture"
  PROVE  SavedShows' /\ CaptureShows'
  BY NoEntryFields DEF Quiet, SavedShows, CaptureShows

LEMMA QuietLoad ==
  ASSUME LoadShows, ui.pc \in Loading \cup {"dead"}
  PROVE  Quiet /\ saved = {}
  BY DEF LoadShows, Quiet

(* No transaction is under way but the archive of what was loaded.         *)
LEMMA QuietTx ==
  ASSUME CopiesWanted, Quiet, ui.pc # "remember"
  PROVE  \A t \in Threads : tx[t].pc = "off"
  BY IdleWriterFields DEF Quiet, CopiesWanted, Threads

LEMMA NoCopies ==
  ASSUME \A t \in Threads : tx'[t].pc = "off"
  PROVE  CopiesWanted'
  BY DEF CopiesWanted, Threads, Holding

(* What the user interface has at hand.                                    *)
UiSound ==
  SoundSession(ui.idx.sess) /\ SoundSession(ui.src.sess) /\ SoundSession(ui.sess)

LEMMA UiAtFields ==
  ASSUME NEW pc
  PROVE  /\ UiAt(pc).pc = pc /\ ~UiAt(pc).reset /\ UiAt(pc).sess = NoSession
         /\ UiAt(pc).src.sess = NoSession /\ UiAt(pc).next = 0
         /\ SoundSession(UiAt(pc).idx.sess) /\ SoundSession(UiAt(pc).src.sess)
         /\ SoundSession(UiAt(pc).sess)
  BY NoRequestFields DEF UiAt, Unreadable

LEMMA SameManifestTexts ==
  ASSUME ManifestTexts, UNCHANGED <<bundle, index, latest, archive>>, UiSound',
         SoundSession(queue'.pending.sess), SoundSession(writer'.req.sess),
         \A t \in Threads : SoundSession(tx'[t].sess)
  PROVE  ManifestTexts'
  BY DEF ManifestTexts, Manifests, UiSound, SoundSession

(* What a step of load has to show.                                        *)
LoadsSound ==
  /\ ~ui.reset /\ ui.pc \in Loading \cup {"idle"}
  /\ ui.pc \in {"decode", "hydrate"} =>
       \A p \in ui.src.sess.sb : ui.src.ctx[p] = ui.src.sess.want[p]
  /\ ui.pc = "hydrate" => \A p \in ui.src.sess.sb \ ui.todo : file[p] = ui.src.ctx[p]
  /\ ui.pc \in {"remember", "loaded"} => \A p \in ui.sess.sb : file[p] = ui.sess.want[p]

LEMMA LoadFrame ==
  ASSUME TypeOK, TextsSound, ui.pc \in Loading \cup {"dead"}, LoadsSound', UiSound',
         UNCHANGED <<bundle, index, latest, archive, ledger, nextVersion, queue, writer, saved>>,
         CopiesWanted', \A t \in Threads : SoundSession(tx'[t].sess)
  PROVE  TextsSound'
  <1>1. Quiet /\ saved = {} /\ nextVersion \in Nat
    BY QuietLoad DEF TextsSound, TypeOK
  <1>2. Quiet' /\ saved' = {} /\ nextVersion' \in Nat
    BY <1>1 DEF Quiet
  <1>3. ui'.pc # "capture"
    BY DEF LoadsSound, Loading
  <1>4. PipeSound' /\ SavedShows' /\ CaptureShows'
    BY <1>2, <1>3, QuietPipe, QuietWindow
  <1>5. LoadShows'
    BY <1>2 DEF LoadsSound, LoadShows, Quiet, Loading
  <1>6. ManifestTexts'
    BY SameManifestTexts DEF TextsSound, ManifestTexts
  <1> QED BY <1>4, <1>5, <1>6 DEF TextsSound, PipeSound

(* A step of load without a transaction.                                   *)
LEMMA LoadStepFrame ==
  ASSUME TypeOK, TextsSound, ui.pc \in Loading \cup {"dead"}, ui.pc # "remember",
         LoadsSound', UiSound',
         UNCHANGED <<bundle, index, latest, archive, ledger, nextVersion, queue, writer, saved, tx>>
  PROVE  TextsSound'
  <1>1. \A t \in Threads : tx[t].pc = "off"
    BY QuietLoad, QuietTx DEF TextsSound
  <1>2. CopiesWanted'
    BY <1>1, NoCopies
  <1>3. \A t \in Threads : SoundSession(tx'[t].sess)
    BY DEF TextsSound, ManifestTexts
  <1> QED BY <1>2, <1>3, LoadFrame

LEMMA GiveUpFields ==
  ASSUME TypeOK
  PROVE  /\ GiveUp.pc \in {"byIndex", "backup"} /\ GiveUp.reset = ui.reset
         /\ GiveUp.idx = ui.idx /\ GiveUp.src = ui.src /\ GiveUp.sess = ui.sess
  BY DEF GiveUp, TypeOK, Uis

LEMMA LoadIndexTexts == ASSUME TypeOK, TextsSound, LoadIndex PROVE TextsSound'
  <1>1. /\ ui.pc = "index" /\ ui' = [ui EXCEPT !.pc = "bundle", !.idx = index]
        /\ UNCHANGED <<file, bundle, index, latest, archive, ledger, nextVersion, queue, writer, saved, tx>>
    BY DEF LoadIndex, disk, buffers, window
  <1>2. /\ ui'.pc = "bundle" /\ ui'.reset = ui.reset /\ ui'.idx = index /\ ui'.src = ui.src
        /\ ui'.sess = ui.sess
    BY <1>1 DEF TypeOK, Uis
  <1>3. LoadsSound' /\ UiSound'
    BY <1>2 DEF TextsSound, LoadsSound, UiSound, LoadShows, ManifestTexts, Loading
  <1> QED BY <1>1, <1>3, LoadStepFrame DEF Loading

LEMMA LoadBundleTexts == ASSUME TypeOK, TextsSound, LoadBundle PROVE TextsSound'
  <1>1. /\ ui.pc = "bundle"
        /\ ui' = [ui EXCEPT !.pc = "decode", !.src = bundle] \/ ui' = [ui EXCEPT !.pc = "byIndex"]
        /\ UNCHANGED <<file, bundle, index, latest, archive, ledger, nextVersion, queue, writer, saved, tx>>
    BY DEF LoadBundle, disk, buffers, window
  <1>2. /\ ui'.reset = ui.reset /\ ui'.idx = ui.idx /\ ui'.sess = ui.sess
        /\ \/ ui'.pc = "decode" /\ ui'.src = bundle
           \/ ui'.pc = "byIndex" /\ ui'.src = ui.src
    BY <1>1 DEF TypeOK, Uis
  <1>3. bundle \in Manifests
    BY DEF Manifests
  <1>4. LoadsSound' /\ UiSound'
    BY <1>2, <1>3 DEF TextsSound, LoadsSound, UiSound, LoadShows, ManifestTexts, Loading
  <1> QED BY <1>1, <1>4, LoadStepFrame DEF Loading

LEMMA DecodeTexts == ASSUME TypeOK, TextsSound, Decode PROVE TextsSound'
  <1>1. /\ ui.pc = "decode"
        /\ ui' = [ui EXCEPT !.pc = "hydrate", !.todo = ui.src.sess.sb] \/ ui' = GiveUp
        /\ UNCHANGED <<file, bundle, index, latest, archive, ledger, nextVersion, queue, writer, saved, tx>>
    BY DEF Decode, disk, buffers, window
  <1>2. /\ ui'.reset = ui.reset /\ ui'.idx = ui.idx /\ ui'.sess = ui.sess /\ ui'.src = ui.src
        /\ \/ ui'.pc = "hydrate" /\ ui'.todo = ui.src.sess.sb
           \/ ui'.pc \in {"byIndex", "backup"}
    BY <1>1, GiveUpFields DEF TypeOK, Uis
  <1>3. LoadsSound' /\ UiSound'
    BY <1>1, <1>2 DEF TextsSound, LoadsSound, UiSound, LoadShows, ManifestTexts, Loading
  <1> QED BY <1>1, <1>3, LoadStepFrame DEF Loading

LEMMA HydrateTexts == ASSUME TypeOK, TextsSound, NEW p \in Panes, Hydrate(p) PROVE TextsSound'
  <1>1. PICK r \in AtomicWrite(file, [file EXCEPT ![p] = ui.src.ctx[p]]) :
          file' = r.now /\ ui' = IF r.ok THEN [ui EXCEPT !.todo = @ \ {p}] ELSE GiveUp
    BY DEF Hydrate
  <1>2. /\ ui.pc = "hydrate"
        /\ UNCHANGED <<bundle, index, latest, archive, ledger, nextVersion, queue, writer, saved, tx>>
    BY DEF Hydrate, buffers, window
  <1>3. r.ok \in BOOLEAN /\ (r.ok => file' = [file EXCEPT ![p] = ui.src.ctx[p]])
    BY <1>1, WriteType
  <1>4. /\ ui'.reset = ui.reset /\ ui'.idx = ui.idx /\ ui'.sess = ui.sess /\ ui'.src = ui.src
        /\ \/ r.ok /\ ui'.pc = "hydrate" /\ ui'.todo = ui.todo \ {p}
           \/ ui'.pc \in {"byIndex", "backup"}
    <2>1. CASE r.ok
      BY <1>1, <1>2, <2>1 DEF TypeOK, Uis
    <2>2. CASE ~r.ok
      BY <1>1, <2>2, GiveUpFields
    <2> QED BY <1>3, <2>1, <2>2
  <1>5. r.ok => \A q \in Panes : q \notin ui.todo \ {p} /\ q \in ui.src.sess.sb =>
                  file'[q] = ui.src.ctx[q]
    BY <1>2, <1>3 DEF TextsSound, LoadShows, TypeOK, DiskOK
  <1>6. ui.src.sess.sb \subseteq Panes
    BY DEF TypeOK, Uis, Manifest, Session
  <1>7. LoadsSound' /\ UiSound'
    BY <1>2, <1>4, <1>5, <1>6 DEF TextsSound, LoadsSound, UiSound, LoadShows, ManifestTexts, Loading
  <1> QED BY <1>2, <1>7, LoadStepFrame DEF Loading

(* load returns a session whose panes have their texts on disk.            *)
LEMMA ReturnTexts ==
  ASSUME TypeOK, TextsSound, NEW s \in Session, NEW remember, Return(s, remember),
         ui.pc \in Loading, ui.pc # "remember",
         SoundSession(s), \A p \in s.sb : file[p] = s.want[p],
         UNCHANGED <<file, bundle, index, latest, archive, ledger, nextVersion, queue, writer, saved>>
  PROVE  TextsSound'
  <1>1. \A t \in Threads : tx[t].pc = "off"
    BY QuietLoad, QuietTx DEF TextsSound
  <1>2. /\ ui' = [ui EXCEPT !.pc = "remember", !.sess = s] \/ ui' = [ui EXCEPT !.pc = "loaded", !.sess = s]
    BY DEF Return
  <1>3. /\ ui'.reset = ui.reset /\ ui'.idx = ui.idx /\ ui'.src = ui.src /\ ui'.sess = s
        /\ ui'.pc \in {"remember", "loaded"}
    BY <1>2 DEF TypeOK, Uis
  <1>4. LoadsSound' /\ UiSound'
    BY <1>3 DEF TextsSound, LoadsSound, UiSound, LoadShows, ManifestTexts, Loading
  <1>5. CopiesWanted' /\ \A t \in Threads : SoundSession(tx'[t].sess)
    <2>1. CASE UNCHANGED tx
      <3>1. CopiesWanted'
        BY <1>1, <2>1, NoCopies
      <3> QED BY <2>1, <3>1 DEF TextsSound, ManifestTexts
    <2>2. CASE Begin("ui", "source", s, FALSE, TRUE) /\ ui' = [ui EXCEPT !.pc = "remember", !.sess = s]
      <3>1. /\ tx'["ui"].pc = "lock" /\ tx'["ui"].todo = s.sb /\ tx'["ui"].sess = s
            /\ tx'["writer"] = tx["writer"]
        BY <2>2 DEF Begin, TypeOK, Threads, NoTx
      <3>2. tx["writer"].pc = "off"
        BY <1>1 DEF Threads
      <3>3. ui'.pc = "remember"
        BY <2>2 DEF TypeOK, Uis
      <3>4. CopiesWanted'
        BY <1>3, <3>1, <3>2, <3>3 DEF CopiesWanted, Threads, Holding
      <3> QED BY <3>1, <3>4 DEF TextsSound, ManifestTexts, Threads
    <2> QED BY <2>1, <2>2 DEF Return
  <1> QED BY <1>4, <1>5, LoadFrame

LEMMA HydratedTexts == ASSUME TypeOK, TextsSound, Hydrated PROVE TextsSound'
  <1>1. /\ ui.pc = "hydrate" /\ ui.todo = {} /\ Return(ui.src.sess, TRUE)
        /\ UNCHANGED <<file, bundle, index, latest, archive, ledger, nextVersion, queue, writer, saved>>
    BY DEF Hydrated, disk, buffers, window
  <1>2. ui.src.sess \in Session
    BY DEF TypeOK, Uis, Manifest
  <1>3. SoundSession(ui.src.sess)
    BY DEF TextsSound, ManifestTexts
  <1>4. \A p \in ui.src.sess.sb : file[p] = ui.src.sess.want[p]
    BY <1>1 DEF TextsSound, LoadShows
  <1> QED BY <1>1, <1>2, <1>3, <1>4, ReturnTexts DEF Loading

LEMMA LoadByIndexTexts == ASSUME TypeOK, TextsSound, LoadByIndex PROVE TextsSound'
  <1>1. /\ ui.pc = "byIndex"
        /\ UNCHANGED <<file, bundle, index, latest, archive, ledger, nextVersion, queue, writer, saved>>
    BY DEF LoadByIndex, disk, buffers, window
  <1>2. CASE Readable(ui.idx)
    <2> DEFINE want == [p \in Panes |-> IF p \in ui.idx.sess.sb THEN file[p] ELSE 0]
               s    == [ui.idx.sess EXCEPT !.want = want]
    <2>1. want \in [Panes -> Texts]
      BY RestoreAssumption DEF TypeOK, DiskOK, Texts
    <2>2. ui.idx.sess \in Session
      BY DEF TypeOK, Uis, Manifest
    <2>3. \A p \in ui.idx.sess.sb : want[p] = file[p]
      BY <2>2 DEF Session
    <2>4. Return(s, ~ui.idx.clear)
      BY <1>2 DEF LoadByIndex
    <2> HIDE DEF want
    <2>5. s \in Session /\ s.sb = ui.idx.sess.sb /\ s.open = ui.idx.sess.open /\ s.want = want
      BY <2>1, <2>2 DEF Session
    <2>6. SoundSession(s)
      BY <2>5 DEF TextsSound, ManifestTexts, SoundSession
    <2> HIDE DEF s
    <2> QED BY <1>1, <2>3, <2>4, <2>5, <2>6, ReturnTexts DEF Loading
  <1>3. CASE ~Readable(ui.idx)
    <2>1. /\ ui' = [ui EXCEPT !.pc = "backup", !.next = 1, !.src = Unreadable("missing")]
          /\ UNCHANGED tx
      BY <1>3 DEF LoadByIndex
    <2>2. /\ ui'.pc = "backup" /\ ui'.reset = ui.reset /\ ui'.idx = ui.idx /\ ui'.sess = ui.sess
          /\ ui'.src.sess = NoSession
      BY <2>1 DEF TypeOK, Uis, Unreadable
    <2>3. LoadsSound' /\ UiSound'
      BY <2>2, NoRequestFields
      DEF TextsSound, LoadsSound, UiSound, LoadShows, ManifestTexts, Loading
    <2> QED BY <1>1, <2>1, <2>3, LoadStepFrame DEF Loading
  <1> QED BY <1>2, <1>3

LEMMA LoadBackupTexts == ASSUME TypeOK, TextsSound, LoadBackup PROVE TextsSound'
  <1> DEFINE found == IF ui.next = 1 THEN {m \in {latest} : Readable(m)}
                      ELSE {m \in archive : Cardinality(Newer(m)) = ui.next - 2}
  <1>1. /\ ui.pc = "backup"
        /\ UNCHANGED <<file, bundle, index, latest, archive, ledger, nextVersion, queue, writer, saved, tx>>
    BY DEF LoadBackup, disk, buffers, window
  <1>2. found \subseteq Manifests
    BY DEF Manifests
  <1>3. \/ \E m \in found : ui' = [ui EXCEPT !.pc = "decode", !.src = m, !.next = @ + 1]
        \/ ui' = [ui EXCEPT !.next = 2]
        \/ ui' = UiAt("idle")
    <2>1. CASE found # {}
      <3>1. (CHOOSE m \in found : TRUE) \in found
        BY <2>1
      <3> QED BY <2>1, <3>1 DEF LoadBackup
    <2>2. CASE found = {}
      BY <2>2 DEF LoadBackup
    <2> QED BY <2>1, <2>2
  <1> HIDE DEF found
  <1>4. CASE \E m \in found : ui' = [ui EXCEPT !.pc = "decode", !.src = m, !.next = @ + 1]
    <2>1. PICK m \in found : ui' = [ui EXCEPT !.pc = "decode", !.src = m, !.next = @ + 1]
      BY <1>4
    <2>2. /\ ui'.pc = "decode" /\ ui'.reset = ui.reset /\ ui'.idx = ui.idx /\ ui'.sess = ui.sess
          /\ ui'.src = m
      BY <2>1 DEF TypeOK, Uis
    <2>3. m \in Manifests
      BY <1>2
    <2>4. LoadsSound' /\ UiSound'
      BY <2>2, <2>3 DEF TextsSound, LoadsSound, UiSound, LoadShows, ManifestTexts, Loading
    <2> QED BY <1>1, <2>4, LoadStepFrame DEF Loading
  <1>5. CASE ui' = [ui EXCEPT !.next = 2]
    <2>1. /\ ui'.pc = "backup" /\ ui'.reset = ui.reset /\ ui'.idx = ui.idx /\ ui'.sess = ui.sess
          /\ ui'.src = ui.src
      BY <1>1, <1>5 DEF TypeOK, Uis
    <2>2. LoadsSound' /\ UiSound'
      BY <2>1 DEF TextsSound, LoadsSound, UiSound, LoadShows, ManifestTexts, Loading
    <2> QED BY <1>1, <2>2, LoadStepFrame DEF Loading
  <1>6. CASE ui' = UiAt("idle")
    <2>1. LoadsSound' /\ UiSound'
      BY <1>6, UiAtFields DEF LoadsSound, UiSound, Loading
    <2> QED BY <1>1, <2>1, LoadStepFrame DEF Loading
  <1> QED BY <1>3, <1>4, <1>5, <1>6

LEMMA UiTxEndsTexts == ASSUME TypeOK, TextsSound, UiTxEnds PROVE TextsSound'
  <1>1. /\ tx["ui"].pc \in {"done", "failed"} /\ tx' = [tx EXCEPT !["ui"] = NoTx]
        /\ UNCHANGED <<file, bundle, index, latest, archive, ledger, nextVersion, queue, writer, saved>>
    BY DEF UiTxEnds, disk, buffers, window
  <1>2. ui.pc = "remember"
    BY <1>1 DEF TextsSound, CopiesWanted
  <1>3. ui' = [ui EXCEPT !.pc = "loaded"]
    BY <1>2 DEF UiTxEnds
  <1>4. /\ ui'.pc = "loaded" /\ ui'.reset = ui.reset /\ ui'.idx = ui.idx /\ ui'.sess = ui.sess
        /\ ui'.src = ui.src
    BY <1>3 DEF TypeOK, Uis
  <1>5. LoadsSound' /\ UiSound'
    BY <1>1, <1>2, <1>4 DEF TextsSound, LoadsSound, UiSound, LoadShows, ManifestTexts, Loading
  <1>6. tx'["ui"] = NoTx /\ tx'["writer"] = tx["writer"]
    BY <1>1 DEF TypeOK, Threads
  <1>7. tx["writer"].pc = "off"
    <2>1. Quiet
      BY <1>2, QuietLoad DEF TextsSound, Loading
    <2> QED BY <2>1, IdleWriterFields DEF Quiet, TextsSound, CopiesWanted
  <1>8. CopiesWanted'
    BY <1>6, <1>7, NoCopies, NoRequestFields DEF Threads
  <1>9. \A t \in Threads : SoundSession(tx'[t].sess)
    BY <1>6, NoRequestFields DEF TextsSound, ManifestTexts, Threads
  <1> QED BY <1>1, <1>2, <1>5, <1>8, <1>9, LoadFrame DEF Loading

(* The restored tabs are deferred, and their files have their texts.       *)
LEMMA OpenRestoredTexts == ASSUME TypeOK, TypeOK', TextsSound, OpenRestored PROVE TextsSound'
  <1>1. /\ ui.pc = "loaded" /\ saved' = ui.sess.sb /\ shown' = ui.sess.want /\ ui' = UiAt("idle")
        /\ tabs' = [p \in Panes |-> IF p \in ui.sess.open THEN "parked" ELSE tabs[p]]
        /\ UNCHANGED <<file, bundle, index, latest, archive, ledger, nextVersion, queue, writer, tx>>
    BY DEF OpenRestored, disk, buffers
  <1>2. Quiet /\ Quiet' /\ nextVersion' \in Nat
    BY <1>1, QuietLoad DEF TextsSound, Loading, Quiet, TypeOK
  <1>3. PipeSound' /\ ~Committing' /\ ~Queued' /\ writer'.pc = "wait"
    BY <1>2, QuietPipe, IdleWriterFields DEF Quiet
  <1>4. \A p \in Panes : ~ledger'[p].pending /\ ~HasContext(ledger'[p]) /\ ~Held(ledger'[p])
    BY <1>2, NoEntryFields DEF Quiet
  <1>5. SavedShows'
    <2>1. ASSUME NEW p \in saved'
          PROVE  tabs'[p] = "parked" /\ file'[p] = shown'[p]
      BY <1>1, <2>1 DEF TextsSound, LoadShows, ManifestTexts, SoundSession, TypeOK, Uis, Session
    <2> QED BY <1>3, <1>4, <2>1 DEF SavedShows, Shows, Stays
  <1>6. ui'.pc = "idle" /\ ~ui'.reset /\ UiSound'
    BY <1>1, UiAtFields DEF UiSound
  <1>7. CaptureShows' /\ LoadShows'
    BY <1>6 DEF CaptureShows, LoadShows, Loading
  <1>8. \A t \in Threads : tx[t].pc = "off"
    BY <1>1, <1>2, QuietTx DEF TextsSound
  <1>9. CopiesWanted'
    BY <1>1, <1>8, NoCopies
  <1>10. ManifestTexts'
    BY <1>1, <1>6, SameManifestTexts DEF TextsSound, ManifestTexts
  <1> QED BY <1>3, <1>5, <1>7, <1>9, <1>10 DEF TextsSound, PipeSound

(* A process that ends leaves the disk as it was, and nothing else.        *)
LEMMA EndTexts == ASSUME TypeOK, TextsSound, Crash \/ Exit PROVE TextsSound'
  <1>1. /\ ui' = UiAt("dead") /\ saved' = {} /\ nextVersion' = 0
        /\ queue' = EmptyQueue /\ writer' = IdleWriter /\ tx' = [t \in Threads |-> NoTx]
        /\ ledger' = [p \in Panes |-> NoEntry]
        /\ UNCHANGED <<bundle, index, latest, archive>>
    BY DEF Crash, Exit, Forgotten, disk
  <1>2. Quiet' /\ nextVersion' \in Nat
    BY <1>1 DEF Quiet
  <1>3. ui'.pc = "dead" /\ ~ui'.reset /\ UiSound'
    BY <1>1, UiAtFields DEF UiSound
  <1>4. PipeSound' /\ SavedShows' /\ CaptureShows'
    BY <1>1, <1>2, <1>3, QuietPipe, QuietWindow
  <1>5. LoadShows'
    BY <1>1, <1>2, <1>3 DEF LoadShows, Quiet, Loading
  <1>6. \A t \in Threads : tx'[t].pc = "off" /\ SoundSession(tx'[t].sess)
    BY <1>1, NoRequestFields
  <1>7. CopiesWanted'
    BY <1>6, NoCopies
  <1>8. SoundSession(queue'.pending.sess) /\ SoundSession(writer'.req.sess)
    BY <1>1, NoRequestFields
  <1>9. ManifestTexts'
    BY <1>1, <1>3, <1>6, <1>8, SameManifestTexts DEF TextsSound
  <1> QED BY <1>4, <1>5, <1>7, <1>9 DEF TextsSound, PipeSound

(* A damaged manifest has no session.                                      *)
LEMMA DamageTexts == ASSUME TypeOK, TextsSound, Damage PROVE TextsSound'
  <1> DEFINE bad == Unreadable("bad")
  <1>1. /\ UNCHANGED <<file, latest, archive, tabs, saved, shown, ledger, nextVersion, queue, writer,
                       ui, tx>>
        /\ \/ bundle' = bad /\ UNCHANGED index
           \/ index' = bad /\ UNCHANGED bundle
    BY DEF Damage, buffers, window
  <1>2. PipeSound'
    BY <1>1, PipeFrame DEF Pipeline, PipeSound, TextsSound
  <1>3. KeepsTexts /\ ShrinksLedger
    BY <1>1, FrameKeepsTexts DEF Pipeline, ShrinksLedger
  <1>4. SavedShows' /\ CaptureShows'
    BY <1>1, <1>3, KeptShows DEF TextsSound
  <1>5. CopiesWanted' /\ LoadShows'
    BY <1>1 DEF TextsSound, CopiesWanted, LoadShows
  <1>6. bad.sess = NoSession /\ SoundSession(bad.sess) /\ bad.sess.sb = {}
    BY NoRequestFields DEF Unreadable, NoSession
  <1> HIDE DEF bad
  <1>7. /\ \A m \in Manifests' : m \in Manifests \/ m = bad
        /\ index' \in {index, bad}
    BY <1>1 DEF Manifests
  <1>8. ManifestTexts'
    <2>1. \A m \in Manifests' : \A p \in m.sess.sb : m.ctx[p] = m.sess.want[p]
      BY <1>6, <1>7 DEF TextsSound, ManifestTexts
    <2>2. \A m \in Manifests' \cup {index', ui'.idx, ui'.src} : SoundSession(m.sess)
      BY <1>1, <1>6, <1>7 DEF TextsSound, ManifestTexts
    <2> QED BY <1>1, <2>1, <2>2 DEF TextsSound, ManifestTexts, SoundSession
  <1> QED BY <1>2, <1>4, <1>5, <1>8 DEF TextsSound, PipeSound

LEMMA LaunchTexts == ASSUME TypeOK, TextsSound, Launch PROVE TextsSound'
  <1>1. /\ ui.pc = "dead" /\ ui' = UiAt("index")
        /\ UNCHANGED <<bundle, index, latest, archive, ledger, nextVersion, queue, writer, saved, tx>>
    BY DEF Launch, disk, buffers, window
  <1>2. LoadsSound' /\ UiSound'
    BY <1>1, UiAtFields DEF LoadsSound, UiSound, Loading
  <1> QED BY <1>1, <1>2, LoadStepFrame DEF Loading

--------------------------------------------------------------------------------
(* The UI thread at work.                                                  *)

LEMMA RunningFrame ==
  ASSUME TypeOK, TextsSound, ui.pc # "remember", ui'.pc \in {"idle", "capture", "quit"}, ~ui'.reset,
         UNCHANGED <<bundle, index, latest, archive, writer, tx>>,
         UiSound', SoundSession(queue'.pending.sess), PipeSound', SavedShows', CaptureShows'
  PROVE  TextsSound'
  <1>1. CopiesWanted'
    BY DEF TextsSound, CopiesWanted
  <1>2. LoadShows'
    BY DEF LoadShows, Loading
  <1>3. ManifestTexts'
    BY SameManifestTexts DEF TextsSound, ManifestTexts
  <1> QED BY <1>1, <1>2, <1>3 DEF TextsSound, PipeSound

(* A step that changes nothing but the window, and only for panes that the *)
(* ledger does not know or that are in the window.                         *)
LEMMA WindowPipe ==
  ASSUME TypeOK, PipeSound, UNCHANGED <<file, ledger, nextVersion, queue, writer>>,
         \A p \in Panes : tabs'[p] \in Going => tabs[p] \in Going \/ ~Held(ledger[p])
  PROVE  PipeSound'
  <1>1. (Committing' <=> Committing) /\ (Queued' <=> Queued)
    BY DEF Committing, Queued
  <1>2. VersionsAgree' /\ RequestTexts'
    BY <1>1 DEF PipeSound, VersionsAgree, RequestTexts, Agrees, Spares, Harmless
  <1>3. PersistedStays'
    BY <1>1 DEF PipeSound, PersistedStays, Harmless, Held
  <1>4. CarriedIsKept'
    BY <1>1 DEF PipeSound, CarriedIsKept, Carries, Held
  <1> QED BY <1>2, <1>3, <1>4 DEF PipeSound

LEMMA ShowsFrame ==
  ASSUME UNCHANGED <<file, ledger, queue, writer>>, NEW p, NEW x, Shows(p, x)
  PROVE  Shows(p, x)'
  BY DEF Shows, Stays, Spares, Harmless, Committing, Queued

LEMMA StillShown ==
  ASSUME TypeOK, SavedShows, NEW p \in saved, shown'[p] = shown[p],
         UNCHANGED <<file, ledger, queue, writer>>
  PROVE  Shows(p, shown[p])'
  <1>1. PICK x : x = shown[p]
    OBVIOUS
  <1>2. Shows(p, x)
    BY <1>1 DEF SavedShows, TypeOK, WindowOK
  <1>3. Shows(p, x)' /\ x = shown'[p]
    BY <1>1, <1>2, ShowsFrame
  <1> QED BY <1>3, ShownText

LEMMA UiSame == ASSUME TextsSound, UNCHANGED ui PROVE UiSound' /\ ~ui'.reset
  BY DEF TextsSound, ManifestTexts, LoadShows, UiSound, SoundSession

LEMMA OpenTabTexts == ASSUME TypeOK, TextsSound, NEW p \in Panes, OpenTab(p) PROVE TextsSound'
  <1>1. /\ ui.pc = "idle" /\ tabs[p] = "none" /\ tabs' = [tabs EXCEPT ![p] = "live"]
        /\ UNCHANGED <<file, bundle, index, latest, archive, saved, shown, ledger, nextVersion, queue,
                       writer, ui, tx>>
    BY DEF OpenTab, disk, buffers
  <1>2. tabs'[p] = "live" /\ \A q \in Panes : q # p => tabs'[q] = tabs[q]
    BY <1>1 DEF TypeOK, WindowOK
  <1>3. ~Held(ledger[p]) /\ p \notin saved
    BY <1>1 DEF TextsSound, SavedShows
  <1>4. PipeSound'
    BY <1>1, <1>2, <1>3, WindowPipe DEF TextsSound, PipeSound
  <1>5. SavedShows'
    <2>1. \A q \in saved : Shows(q, shown[q])'
      BY <1>1, StillShown DEF TextsSound
    <2> QED BY <1>1, <1>2, <1>3, <2>1 DEF TextsSound, SavedShows
  <1>6. CaptureShows'
    BY <1>1 DEF CaptureShows
  <1> QED BY <1>1, <1>4, <1>5, <1>6, UiSame, RunningFrame DEF TextsSound, ManifestTexts

LEMMA ReopenTexts == ASSUME TypeOK, TextsSound, NEW p \in Panes, Reopen(p) PROVE TextsSound'
  <1>1. /\ ui.pc = "idle" /\ tabs[p] = "closed" /\ tabs' = [tabs EXCEPT ![p] = "parked"]
        /\ UNCHANGED <<file, bundle, index, latest, archive, saved, shown, ledger, nextVersion, queue,
                       writer, ui, tx>>
    BY DEF Reopen, disk, buffers
  <1>2. tabs'[p] = "parked" /\ \A q \in Panes : q # p => tabs'[q] = tabs[q]
    BY <1>1 DEF TypeOK, WindowOK
  <1>3. PipeSound'
    BY <1>1, <1>2, WindowPipe DEF TextsSound, PipeSound, Going
  <1>4. SavedShows'
    <2>1. \A q \in saved : Shows(q, shown[q])'
      BY <1>1, StillShown DEF TextsSound
    <2> QED BY <1>1, <1>2, <2>1 DEF TextsSound, SavedShows
  <1>5. CaptureShows'
    BY <1>1 DEF CaptureShows
  <1> QED BY <1>1, <1>3, <1>4, <1>5, UiSame, RunningFrame DEF TextsSound, ManifestTexts

LEMMA ActivateTexts == ASSUME TypeOK, TextsSound, NEW p \in Panes, Activate(p) PROVE TextsSound'
  <1>1. /\ ui.pc = "idle" /\ tabs[p] = "parked" /\ tabs' = [tabs EXCEPT ![p] = "live"]
        /\ shown' = [shown EXCEPT ![p] = Context(p)] /\ saved' = saved \ {p}
        /\ UNCHANGED <<file, bundle, index, latest, archive, ledger, nextVersion, queue,
                       writer, ui, tx>>
    BY DEF Activate, disk, buffers
  <1>2. /\ tabs'[p] = "live"
        /\ \A q \in Panes : q # p => tabs'[q] = tabs[q] /\ shown'[q] = shown[q]
    BY <1>1 DEF TypeOK, WindowOK
  <1>3. PipeSound'
    BY <1>1, <1>2, WindowPipe DEF TextsSound, PipeSound, Going
  <1>4. SavedShows'
    <2>1. \A q \in saved' : Shows(q, shown[q])'
      BY <1>1, <1>2, StillShown DEF TextsSound, TypeOK, WindowOK
    <2> QED BY <1>1, <1>2, <2>1 DEF TextsSound, SavedShows
  <1>5. CaptureShows'
    BY <1>1 DEF CaptureShows
  <1> QED BY <1>1, <1>3, <1>4, <1>5, UiSame, RunningFrame DEF TextsSound, ManifestTexts

(* record keeps an entry or replaces it under a new version; either way a  *)
(* pane in the window has the text that record returns.                    *)
LEMMA RecordEntry ==
  ASSUME TypeOK, NEW p \in Panes, NEW t \in Texts, Record(p, t)
  PROVE  /\ \A q \in Panes : q # p => ledger'[q] = ledger[q]
         /\ ledger'[p] = Recorded(ledger[p], t)
         /\ \/ ledger'[p] = ledger[p] /\ nextVersion' = nextVersion
            \/ /\ ledger'[p].version = nextVersion + 1 /\ nextVersion' = nextVersion + 1
               /\ ledger'[p].hash = t /\ ledger'[p].text = t
               /\ ledger'[p].pending /\ ~ledger'[p].persisted
  <1>1. ledger' = [ledger EXCEPT ![p] = Recorded(ledger[p], t)]
    BY DEF Record
  <1>2. ledger'[p] = Recorded(ledger[p], t) /\ \A q \in Panes : q # p => ledger'[q] = ledger[q]
    BY <1>1 DEF TypeOK
  <1>3. CASE Refused(ledger[p], t)
    <2>1. nextVersion' = nextVersion + 0
      BY <1>3 DEF Record
    <2>2. nextVersion' = nextVersion
      BY <2>1 DEF TypeOK
    <2> QED BY <1>2, <1>3, <2>2 DEF Recorded
  <1>4. CASE ~Refused(ledger[p], t)
    <2>1. nextVersion' = nextVersion + 1
      BY <1>4 DEF Record
    <2>2. ledger'[p] = Entry(nextVersion + 1, t)
      BY <1>2, <1>4 DEF Recorded
    <2> QED BY <1>2, <2>1, <2>2 DEF Entry
  <1> QED BY <1>3, <1>4

LEMMA RecordPipe ==
  ASSUME TypeOK, PipeSound, NEW p \in Panes, NEW t \in Texts, Record(p, t), tabs[p] = "live",
         tabs'[p] \in Going, \A q \in Panes : q # p => tabs'[q] = tabs[q],
         UNCHANGED <<file, queue, writer>>
  PROVE  PipeSound'
  <1>1. (Committing' <=> Committing) /\ (Queued' <=> Queued)
    BY DEF Committing, Queued
  <1>2. RequestTexts'
    BY <1>1 DEF PipeSound, RequestTexts, Spares, Harmless
  <1>3. CASE ledger'[p] = ledger[p] /\ nextVersion' = nextVersion
    <2>1. \A q \in Panes : ledger'[q] = ledger[q] /\ (tabs'[q] \in Going => tabs[q] \in Going)
      BY <1>3, RecordEntry DEF Going
    <2>2. VersionsAgree' /\ PersistedStays' /\ CarriedIsKept'
      BY <1>1, <1>3, <2>1 DEF PipeSound, VersionsAgree, PersistedStays, CarriedIsKept, Agrees,
                              Harmless, Carries
    <2> QED BY <1>2, <2>2 DEF PipeSound
  <1>4. CASE /\ ledger'[p].version = nextVersion + 1 /\ nextVersion' = nextVersion + 1
             /\ ledger'[p].hash = t /\ ledger'[p].text = t
             /\ ledger'[p].pending /\ ~ledger'[p].persisted
    <2>1. \A q \in Panes : q # p => ledger'[q] = ledger[q] /\ tabs'[q] = tabs[q]
      BY RecordEntry
    <2>2. /\ Committing => writer.req.contexts[p].version < ledger'[p].version
          /\ Queued => queue.pending.contexts[p].version < ledger'[p].version
      BY <1>4, EntryType DEF PipeSound, VersionsAgree, Agrees, TypeOK
    <2>3. VersionsAgree'
      <3> SUFFICES ASSUME NEW q \in Panes
                   PROVE  /\ ledger'[q].version <= nextVersion'
                          /\ ledger'[q].pending =>
                               /\ ledger'[q].version # 0 /\ ledger'[q].text = ledger'[q].hash
                               /\ ~ledger'[q].persisted
                          /\ Committing => Agrees(writer.req.contexts[q], ledger[q])'
                          /\ Queued => Agrees(queue.pending.contexts[q], ledger[q])'
        BY <1>1 DEF VersionsAgree
      <3>1. nextVersion \in Nat
        BY DEF TypeOK
      <3>2. CASE q = p
        BY <1>4, <2>2, <3>1, <3>2, EntryType DEF Agrees
      <3>3. CASE q # p
        BY <1>4, <2>1, <3>1, <3>3, EntryType DEF PipeSound, VersionsAgree, Agrees
      <3> QED BY <3>2, <3>3
    <2>4. PersistedStays'
      BY <1>1, <1>4, <2>1 DEF PipeSound, PersistedStays, Harmless
    <2>5. /\ Committing => ~Carries(writer.req, p)'
          /\ Queued => ~Carries(queue.pending, p)'
      BY <2>2, EntryType, <1>4 DEF Carries, TypeOK
    <2>6. CarriedIsKept'
      BY <1>1, <2>1, <2>5 DEF PipeSound, CarriedIsKept, Carries
    <2> QED BY <1>2, <2>3, <2>4, <2>6 DEF PipeSound
  <1> QED BY <1>3, <1>4, RecordEntry

LEMMA RecordShows ==
  ASSUME TypeOK, PipeSound, NEW p \in Panes, NEW t \in Texts, Record(p, t), tabs[p] = "live",
         UNCHANGED <<file, queue, writer>>
  PROVE  /\ \A q \in Panes : \A x : q # p /\ Shows(q, x) => Shows(q, x)'
         /\ HasContext(ledger'[p]) => \A x : x = ledger'[p].hash => Shows(p, x)'
  <1>1. (Committing' <=> Committing) /\ (Queued' <=> Queued)
    BY DEF Committing, Queued
  <1>2. ASSUME NEW q \in Panes, NEW x, q # p, Shows(q, x) PROVE Shows(q, x)'
    <2>1. ledger'[q] = ledger[q]
      BY <1>2, RecordEntry
    <2> QED BY <1>1, <1>2, <2>1 DEF Shows, Stays, Spares, Harmless
  <1>3. ASSUME HasContext(ledger'[p]), NEW x, x = ledger'[p].hash PROVE Shows(p, x)'
    <2>1. CASE ledger'[p].pending
      BY <1>3, <2>1 DEF Shows, HasContext
    <2>2. CASE ~ledger'[p].pending
      <3>1. ledger'[p] = ledger[p]
        BY <2>2, RecordEntry
      <3>2. ledger[p].persisted /\ ledger[p].hash # 0
        BY <1>3, <2>2, <3>1 DEF HasContext, Held
      <3>3. tabs[p] \in Going
        BY DEF Going
      <3>4. /\ file[p] = ledger[p].hash
            /\ writer.pc = "prune" => p \in writer.keep
            /\ Committing => Harmless(writer.req, p, ledger[p].hash) /\ p \in writer.req.keep
            /\ Queued => Harmless(queue.pending, p, ledger[p].hash) /\ p \in queue.pending.keep
        BY <3>2, <3>3 DEF PipeSound, PersistedStays
      <3> QED BY <1>1, <1>3, <2>2, <3>1, <3>4 DEF Shows, Stays, Spares, Harmless
    <2> QED BY <2>1, <2>2
  <1> QED BY <1>2, <1>3

LEMMA CloseTabTexts ==
  ASSUME TypeOK, TextsSound, NEW p \in Panes, NEW t \in Texts, CloseTab(p, t)
  PROVE  TextsSound'
  <1>1. /\ ui.pc = "idle" /\ tabs' = [tabs EXCEPT ![p] = "closed"]
        /\ UNCHANGED <<file, bundle, index, latest, archive, queue, writer, ui, tx>>
    BY DEF CloseTab, disk
  <1>2. tabs'[p] = "closed" /\ \A q \in Panes : q # p => tabs'[q] = tabs[q]
    BY <1>1 DEF TypeOK, WindowOK
  <1>3. CaptureShows'
    BY <1>1 DEF CaptureShows
  <1>4. PipeSound /\ SavedShows
    BY DEF TextsSound, PipeSound
  <1>5. CASE tabs[p] = "parked" /\ UNCHANGED <<buffers, saved, shown>>
    <2>1. PipeSound'
      BY <1>1, <1>2, <1>4, <1>5, WindowPipe DEF Going, buffers
    <2>2. \A q \in saved : Shows(q, shown[q])'
      BY <1>1, <1>4, <1>5, StillShown DEF buffers
    <2>3. SavedShows'
      BY <1>1, <1>2, <1>4, <1>5, <2>2 DEF SavedShows, buffers
    <2> QED BY <1>1, <1>3, <2>1, <2>3, UiSame, RunningFrame DEF TextsSound, ManifestTexts
  <1>6. CASE tabs[p] = "live" /\ Record(p, t)
    <2> DEFINE e == Recorded(ledger[p], t)
               h == IF HasContext(e) THEN e.hash ELSE 0
    <2>1. /\ saved' = IF HasContext(e) THEN saved \cup {p} ELSE saved
          /\ shown' = [shown EXCEPT ![p] = h]
      BY <1>6 DEF CloseTab
    <2>2. shown'[p] = h /\ \A q \in Panes : q # p => shown'[q] = shown[q]
      BY <2>1 DEF TypeOK, WindowOK
    <2>3. ledger'[p] = e /\ \A q \in Panes : q # p => ledger'[q] = ledger[q]
      BY <1>6, RecordEntry
    <2> HIDE DEF e
    <2>4. HasContext(ledger'[p]) => p \in saved' /\ shown'[p] = ledger'[p].hash
      BY <2>1, <2>2, <2>3
    <2>5. p \notin saved /\ (\A q \in Panes : q # p => (q \in saved' <=> q \in saved))
          /\ (~HasContext(ledger'[p]) => p \notin saved')
      BY <1>4, <1>6, <2>1, <2>3 DEF SavedShows
    <2> HIDE DEF h
    <2>6. PipeSound'
      BY <1>1, <1>2, <1>4, <1>6, RecordPipe DEF Going
    <2>7. ASSUME NEW q \in saved', q \in Panes PROVE Shows(q, shown[q])'
      <3>1. CASE q = p
        <4>1. HasContext(ledger'[p])
          BY <2>5, <2>7, <3>1
        <4>2. PICK x : x = ledger'[p].hash
          OBVIOUS
        <4>3. Shows(p, x)'
          BY <1>1, <1>4, <1>6, <4>1, <4>2, RecordShows
        <4>4. x = shown'[p]
          BY <2>4, <4>1, <4>2
        <4> QED BY <3>1, <4>3, <4>4, ShownText
      <3>2. CASE q # p
        <4>1. PICK x : x = shown[q]
          OBVIOUS
        <4>2. Shows(q, x)
          BY <1>4, <2>5, <2>7, <3>2, <4>1 DEF SavedShows
        <4>3. Shows(q, x)'
          BY <1>1, <1>4, <1>6, <2>7, <3>2, <4>2, RecordShows
        <4>4. x = shown'[q]
          BY <2>2, <2>7, <3>2, <4>1
        <4> QED BY <4>3, <4>4, ShownText
      <3> QED BY <3>1, <3>2
    <2>8. SavedShows'
      BY <1>2, <1>4, <2>3, <2>4, <2>5, <2>7 DEF SavedShows
    <2> QED BY <1>1, <1>3, <2>6, <2>8, UiSame, RunningFrame DEF TextsSound, ManifestTexts
  <1> QED BY <1>5, <1>6 DEF CloseTab

LEMMA CapturePaneTexts ==
  ASSUME TypeOK, TextsSound, NEW p \in Panes, NEW t \in Texts, CapturePane(p, t)
  PROVE  TextsSound'
  <1> DEFINE e   == Recorded(ledger[p], t)
             has == IF HasContext(e) THEN {p} ELSE {}
             h   == IF HasContext(e) THEN e.hash ELSE 0
  <1>1. /\ ui.pc = "capture" /\ p \in ui.todo /\ Record(p, t)
        /\ UNCHANGED <<file, bundle, index, latest, archive, tabs, saved, queue, writer, tx>>
    BY DEF CapturePane, disk
  <1>2. ui' = [ui EXCEPT !.todo = @ \ {p}, !.keep = @ \cup has, !.sess.sb = @ \cup has,
                         !.sess.want[p] = h]
    BY DEF CapturePane
  <1>3. shown' = [shown EXCEPT ![p] = h]
    BY DEF CapturePane
  <1>4. PipeSound /\ SavedShows /\ CaptureShows
    BY DEF TextsSound, PipeSound
  <1>5. tabs[p] = "live" /\ p \in ui.sess.open /\ p \notin ui.sess.sb /\ p \notin saved
    BY <1>1, <1>4 DEF CaptureShows, SavedShows
  <1>6. ledger'[p] = e /\ \A q \in Panes : q # p => ledger'[q] = ledger[q]
    BY <1>1, RecordEntry
  <1> HIDE DEF e
  <1>7. /\ h = IF HasContext(ledger'[p]) THEN ledger'[p].hash ELSE 0
        /\ \A q : q \in has <=> q = p /\ HasContext(ledger'[p])
    BY <1>6
  <1> HIDE DEF has, h
  <1>8. /\ ui'.pc = "capture" /\ ui'.reset = ui.reset /\ ui'.idx = ui.idx /\ ui'.src = ui.src
        /\ ui'.todo = ui.todo \ {p} /\ ui'.keep = ui.keep \cup has
        /\ ui'.sess.sb = ui.sess.sb \cup has /\ ui'.sess.open = ui.sess.open
        /\ ui'.sess.want = [ui.sess.want EXCEPT ![p] = h]
    BY <1>1, <1>2 DEF TypeOK, Uis, Session
  <1>9. /\ ui'.sess.want[p] = h /\ shown'[p] = h
        /\ \A q \in Panes : q # p => ui'.sess.want[q] = ui.sess.want[q] /\ shown'[q] = shown[q]
    BY <1>3, <1>8 DEF TypeOK, WindowOK, Uis, Session
  <1>10. PipeSound'
    BY <1>1, <1>4, <1>5, RecordPipe DEF Going
  <1>11. SavedShows'
    <2>1. ASSUME NEW q \in Panes, q \in saved PROVE Shows(q, shown[q])'
      <3>1. PICK x : x = shown[q]
        OBVIOUS
      <3>2. q # p /\ Shows(q, x)
        BY <1>4, <1>5, <2>1, <3>1 DEF SavedShows
      <3>3. Shows(q, x)'
        BY <1>1, <1>4, <1>5, <3>2, RecordShows
      <3>4. x = shown'[q]
        BY <1>9, <3>1, <3>2
      <3> QED BY <3>3, <3>4, ShownText
    <2> QED BY <1>1, <1>4, <1>5, <1>6, <2>1 DEF SavedShows
  <1>12. CaptureShows'
    <2>1. ASSUME NEW q \in Panes, q \in ui'.sess.sb PROVE tabs'[q] \in Going /\ Shows(q, ui.sess.want[q])'
      <3>1. CASE q = p
        <4>1. HasContext(ledger'[p])
          BY <1>5, <1>7, <1>8, <2>1, <3>1
        <4>2. PICK x : x = ledger'[p].hash
          OBVIOUS
        <4>3. Shows(p, x)'
          BY <1>1, <1>4, <1>5, <4>1, <4>2, RecordShows
        <4>4. x = ui'.sess.want[p]
          BY <1>7, <1>9, <4>1, <4>2
        <4>5. tabs'[p] \in Going
          BY <1>1, <1>5 DEF Going
        <4> QED BY <3>1, <4>3, <4>4, <4>5, ShownText
      <3>2. CASE q # p
        <4>1. PICK x : x = ui.sess.want[q]
          OBVIOUS
        <4>2. q \in ui.sess.sb
          BY <1>7, <1>8, <2>1, <3>2
        <4>3. tabs[q] \in Going /\ Shows(q, x)
          BY <1>1, <1>4, <4>1, <4>2 DEF CaptureShows
        <4>4. Shows(q, x)'
          BY <1>1, <1>4, <1>5, <3>2, <4>3, RecordShows
        <4>5. x = ui'.sess.want[q]
          BY <1>9, <3>2, <4>1
        <4> QED BY <1>1, <4>3, <4>4, <4>5, ShownText
      <3> QED BY <3>1, <3>2
    <2>2. saved' \subseteq ui'.keep
      BY <1>1, <1>4, <1>8 DEF CaptureShows
    <2>3. \A q \in Panes : q \in ui'.todo => tabs'[q] = "live" /\ q \in ui'.sess.open \ ui'.sess.sb
      BY <1>1, <1>4, <1>7, <1>8 DEF CaptureShows
    <2>4. \A q \in Panes : tabs'[q] \in Going /\ q \notin ui'.todo /\ HasContext(ledger'[q])
                             => q \in ui'.keep
      BY <1>1, <1>4, <1>6, <1>7, <1>8 DEF CaptureShows
    <2> QED BY <2>1, <2>2, <2>3, <2>4 DEF CaptureShows
  <1>13. UiSound' /\ ~ui'.reset
    BY <1>5, <1>7, <1>8 DEF UiSound, TextsSound, ManifestTexts, LoadShows, SoundSession
  <1> QED BY <1>1, <1>8, <1>10, <1>11, <1>12, <1>13, RunningFrame DEF TextsSound, ManifestTexts

(* What a capture starts with.                                             *)
LEMMA CaptureFields ==
  ASSUME TypeOK, NEW ts, NEW final, NEW hook, CaptureSession(ts, final, hook)
  PROVE  /\ ui'.pc = "capture" /\ ~ui'.reset
         /\ SoundSession(ui'.idx.sess) /\ SoundSession(ui'.src.sess)
         /\ ui'.src.sess = NoSession
         /\ ui'.sess.gen = used.gen + 1 /\ ui'.final = final /\ ui'.hook = hook
         /\ ui'.clear = (Open(ts) = {})
         /\ ui'.sess.open = Open(ts) /\ ui'.sess.sb = {p \in saved : ts[p] = "parked"}
         /\ \A p \in Panes : p \in ui'.sess.sb => ui'.sess.want[p] = shown[p]
         /\ ui'.todo = {p \in Panes : ts[p] = "live"}
         /\ ui'.keep = {p \in saved : ts[p] \in {"parked", "closed"}}
  <1> DEFINE parked == {p \in saved : ts[p] = "parked"}
             want   == [p \in Panes |-> IF p \in parked THEN shown[p] ELSE 0]
             s      == [gen |-> used.gen + 1, open |-> Open(ts), sb |-> parked, want |-> want]
             todo   == {p \in Panes : ts[p] = "live"}
             keep   == {p \in saved : ts[p] \in {"parked", "closed"}}
             start  == UiAt("capture")
  <1>1. ui' = [start EXCEPT !.sess = s, !.todo = todo, !.keep = keep,
                            !.clear = (Open(ts) = {}), !.final = final, !.hook = hook]
    BY DEF CaptureSession
  <1>2. \A p \in Panes : p \in parked => want[p] = shown[p]
    OBVIOUS
  <1>3. s.open = Open(ts) /\ s.sb = parked /\ s.want = want /\ s.gen = used.gen + 1
    OBVIOUS
  <1>4. /\ start.pc = "capture" /\ ~start.reset /\ start \in Uis
        /\ SoundSession(start.idx.sess) /\ SoundSession(start.src.sess)
        /\ start.src.sess = NoSession
    BY UiAtFields, UiAtType
  <1> HIDE DEF s, want, parked, todo, keep, start
  <1>5. /\ ui'.pc = start.pc /\ ui'.reset = start.reset /\ ui'.idx = start.idx
        /\ ui'.src = start.src /\ ui'.sess = s /\ ui'.todo = todo /\ ui'.keep = keep
        /\ ui'.final = final /\ ui'.hook = hook /\ ui'.clear = (Open(ts) = {})
    BY <1>1, <1>4 DEF Uis
  <1> QED BY <1>2, <1>3, <1>4, <1>5 DEF parked, todo, keep

LEMMA CapturesTexts ==
  ASSUME TypeOK, TextsSound, AutoSave \/ \E hook \in BOOLEAN : Quit(hook)
  PROVE  TextsSound'
  <1>1. /\ ui.pc = "idle"
        /\ UNCHANGED <<file, bundle, index, latest, archive, tabs, saved, shown, ledger, nextVersion,
                       queue, writer, tx>>
    BY DEF AutoSave, Quit, disk, window, buffers
  <1>2. PICK final, hook : CaptureSession(tabs, final, hook)
    BY DEF AutoSave, Quit
  <1>3. /\ ui'.pc = "capture" /\ ~ui'.reset
        /\ SoundSession(ui'.idx.sess) /\ SoundSession(ui'.src.sess)
        /\ ui'.sess.open = Open(tabs)
        /\ \A p \in Panes : p \in ui'.sess.sb => ui'.sess.want[p] = shown[p]
        /\ ui'.sess.sb = {p \in saved : tabs[p] = "parked"}
        /\ \A p \in Panes : p \in ui'.todo <=> tabs[p] = "live"
        /\ \A p : p \in ui'.keep <=> p \in saved /\ tabs[p] \in {"parked", "closed"}
    BY <1>2, CaptureFields
  <1>4. PipeSound' /\ SavedShows
    BY <1>1, PipeFrame DEF TextsSound, PipeSound, Pipeline
  <1>5. \A p \in saved : Shows(p, shown[p])'
    BY <1>1, <1>4, StillShown
  <1>6. SavedShows'
    BY <1>1, <1>4, <1>5 DEF SavedShows
  <1>7. SoundSession(ui'.sess)
    BY <1>3 DEF SoundSession, Open, TypeOK, WindowOK
  <1>8. CaptureShows'
    <2>1. ASSUME NEW p \in Panes, p \in ui'.sess.sb
          PROVE  tabs'[p] \in Going /\ Shows(p, ui.sess.want[p])'
      <3>1. PICK x : x = shown[p]
        OBVIOUS
      <3>2. p \in saved /\ tabs[p] = "parked" /\ x = ui'.sess.want[p]
        BY <1>3, <2>1, <3>1
      <3>3. Shows(p, x)
        BY <1>4, <3>1, <3>2 DEF SavedShows
      <3>4. Shows(p, x)'
        BY <1>1, <3>3, ShowsFrame
      <3> QED BY <1>1, <3>2, <3>4, ShownText DEF Going
    <2>2. saved' \subseteq ui'.keep
      BY <1>1, <1>3, <1>4 DEF SavedShows, TypeOK, WindowOK
    <2>3. \A p \in Panes : p \in ui'.todo => tabs'[p] = "live" /\ p \in ui'.sess.open \ ui'.sess.sb
      BY <1>1, <1>3 DEF Open
    <2>4. \A p \in Panes : tabs'[p] \in Going /\ p \notin ui'.todo /\ HasContext(ledger'[p])
                             => p \in ui'.keep
      BY <1>1, <1>3, <1>4 DEF SavedShows, Going
    <2> QED BY <2>1, <2>2, <2>3, <2>4 DEF CaptureShows
  <1>9. UiSound'
    BY <1>3, <1>7 DEF UiSound
  <1> QED BY <1>1, <1>3, <1>4, <1>6, <1>8, <1>9, RunningFrame DEF TextsSound, ManifestTexts

LEMMA CloseWindowTexts == ASSUME TypeOK, TextsSound, CloseWindow PROVE TextsSound'
  <1>1. /\ ui.pc = "idle" /\ saved' = {}
        /\ tabs' = [p \in Panes |-> IF tabs[p] = "none" THEN "none" ELSE "gone"]
        /\ UNCHANGED <<file, bundle, index, latest, archive, ledger, nextVersion, queue, writer, tx>>
    BY DEF CloseWindow, disk, buffers
  <1>2. \A p \in Panes : tabs'[p] \in {"none", "gone"} /\ (tabs'[p] = "none" => tabs[p] = "none")
    BY <1>1
  <1>3. PICK ts : ts = tabs'
    OBVIOUS
  <1>4. CaptureSession(ts, FALSE, FALSE)
    BY <1>3 DEF CloseWindow, CaptureSession, Open
  <1>5. /\ ui'.pc = "capture" /\ ~ui'.reset
        /\ SoundSession(ui'.idx.sess) /\ SoundSession(ui'.src.sess)
        /\ ui'.sess.sb = {p \in saved : ts[p] = "parked"}
        /\ ui'.todo = {p \in Panes : ts[p] = "live"}
    BY <1>4, CaptureFields
  <1>6. ui'.sess.sb = {} /\ ui'.todo = {}
    BY <1>2, <1>3, <1>5 DEF TypeOK, WindowOK
  <1>7. PipeSound'
    BY <1>1, <1>2, WindowPipe DEF TextsSound, PipeSound, Going
  <1>8. SavedShows'
    BY <1>1, <1>2 DEF TextsSound, SavedShows
  <1>9. CaptureShows'
    BY <1>1, <1>2, <1>6 DEF CaptureShows, Going
  <1>10. UiSound'
    BY <1>5, <1>6 DEF UiSound, SoundSession
  <1> QED BY <1>1, <1>5, <1>7, <1>8, <1>9, <1>10, RunningFrame DEF TextsSound, ManifestTexts

(* The request that takes every pending text, and keeps every pane that    *)
(* still has one.                                                          *)
LEMMA SubmitTexts == ASSUME TypeOK, TextsSound, Submit PROVE TextsSound'
  <1> DEFINE req == [sess |-> ui.sess, clear |-> ui.clear, keep |-> ui.keep,
                     final |-> ui.final, contexts |-> Snapshot(ledger)]
  <1>1. /\ ui.pc = "capture" /\ ui.todo = {} /\ ui' \in {UiAt("quit"), UiAt("idle")}
        /\ queue'.pending \in {req, queue.pending}
        /\ UNCHANGED <<file, bundle, index, latest, archive, tabs, saved, shown, ledger, nextVersion,
                       writer, tx>>
    BY DEF Submit, disk, window, buffers
  <1>2. ui'.pc \in {"idle", "quit"} /\ ~ui'.reset /\ UiSound'
    BY <1>1, UiAtFields DEF UiSound
  <1>3. CaptureShows'
    BY <1>2 DEF CaptureShows
  <1>4. VersionsAgree /\ PersistedStays /\ CarriedIsKept /\ RequestTexts /\ SavedShows /\ CaptureShows
    BY DEF TextsSound
  <1>5. Committing' <=> Committing
    BY <1>1 DEF Committing
  <1>6. CASE queue'.pending = queue.pending
    <2>1. Queued' <=> Queued
      BY <1>6 DEF Queued
    <2>2. PipeSound'
      BY <1>1, <1>4, <1>5, <1>6, <2>1 DEF PipeSound, VersionsAgree, PersistedStays, CarriedIsKept,
                                    RequestTexts, Agrees, Harmless, Spares, Carries
    <2>3. ASSUME NEW p \in Panes, p \in saved PROVE Shows(p, shown[p])'
      BY <1>1, <1>4, <1>5, <1>6, <2>1, <2>3 DEF SavedShows, Shows, Stays, Spares, Harmless
    <2>4. SavedShows'
      BY <1>1, <1>4, <2>3 DEF SavedShows
    <2> QED BY <1>1, <1>2, <1>3, <1>6, <2>2, <2>4, RunningFrame DEF TextsSound, ManifestTexts
  <1>7. CASE queue'.pending = req
    <2>1. /\ queue'.pending.sess = ui.sess /\ queue'.pending.keep = ui.keep
          /\ \A p \in Panes : queue'.pending.contexts[p] =
               IF ledger[p].pending THEN [version |-> ledger[p].version, text |-> ledger[p].text]
               ELSE NoBuffer
      BY <1>7 DEF Snapshot
    <2> HIDE DEF req
    <2>2. \A p \in Panes :
            /\ ledger[p].pending => /\ queue'.pending.contexts[p].version = ledger[p].version
                                    /\ queue'.pending.contexts[p].text = ledger[p].hash
                                    /\ ledger[p].version # 0 /\ ~ledger[p].persisted
            /\ ~ledger[p].pending => queue'.pending.contexts[p].version = 0
      <3> TAKE p \in Panes
      <3>1. ASSUME ledger[p].pending
            PROVE  ledger[p].version # 0 /\ ~ledger[p].persisted /\ ledger[p].text = ledger[p].hash
        BY <1>4, <3>1 DEF VersionsAgree
      <3>2. PICK b : b = queue'.pending.contexts[p]
        OBVIOUS
      <3>3. b = IF ledger[p].pending THEN [version |-> ledger[p].version, text |-> ledger[p].text]
                ELSE NoBuffer
        BY <2>1, <3>2
      <3>4. /\ ledger[p].pending => b.version = ledger[p].version /\ b.text = ledger[p].text
            /\ ~ledger[p].pending => b.version = 0
        BY <3>3 DEF NoBuffer
      <3> QED BY <3>1, <3>2, <3>4
    <2>3. saved \subseteq ui.keep
          /\ \A p \in Panes : tabs[p] \in Going /\ HasContext(ledger[p]) => p \in ui.keep
      BY <1>1, <1>4 DEF CaptureShows
    <2>4. VersionsAgree'
      <3> SUFFICES ASSUME NEW p \in Panes PROVE Agrees(queue.pending.contexts[p], ledger[p])'
        BY <1>1, <1>4, <1>5 DEF VersionsAgree, Agrees
      <3>1. ledger[p].version <= nextVersion /\ nextVersion \in Nat
        BY <1>4 DEF VersionsAgree, TypeOK
      <3> QED BY <1>1, <2>2, <3>1 DEF Agrees
    <2>5. PersistedStays'
      BY <1>1, <1>4, <1>5, <2>1, <2>2, <2>3 DEF PersistedStays, Harmless, HasContext, Held
    <2>6. CarriedIsKept'
      BY <1>1, <1>4, <1>5, <2>1, <2>2, <2>3 DEF CarriedIsKept, Carries, HasContext, Held
    <2>7. RequestTexts'
      <3>1. ASSUME NEW p \in ui.sess.sb
            PROVE  IF queue'.pending.contexts[p].version # 0
                   THEN queue'.pending.contexts[p].text = ui.sess.want[p]
                   ELSE /\ file[p] = ui.sess.want[p]
                        /\ writer.pc = "prune" => p \in writer.keep
                        /\ Committing => Spares(writer.req, p, ui.sess.want[p])
        <4>1. p \in Panes /\ Shows(p, ui.sess.want[p])
          BY <1>1, <1>4 DEF CaptureShows, TypeOK, Uis, Session
        <4>2. CASE ledger[p].pending
          BY <2>2, <4>1, <4>2 DEF Shows
        <4>3. CASE ~ledger[p].pending
          BY <2>2, <4>1, <4>3 DEF Shows, Stays
        <4> QED BY <4>2, <4>3
      <3> QED BY <1>1, <1>4, <1>5, <2>1, <3>1 DEF RequestTexts, Spares, Harmless
    <2>8. ASSUME NEW p \in Panes, p \in saved PROVE Shows(p, shown[p])'
      <3>1. Shows(p, shown[p]) /\ p \in ui.keep
        BY <1>4, <2>3, <2>8 DEF SavedShows
      <3> QED BY <1>1, <1>5, <2>1, <2>2, <3>1 DEF Shows, Stays, Spares, Harmless
    <2>9. SavedShows'
      BY <1>1, <1>4, <2>8 DEF SavedShows
    <2>10. PipeSound' /\ SoundSession(queue'.pending.sess)
      BY <2>1, <2>4, <2>5, <2>6, <2>7 DEF PipeSound, TextsSound, ManifestTexts
    <2> QED BY <1>1, <1>2, <1>3, <2>9, <2>10, RunningFrame
  <1> QED BY <1>1, <1>6, <1>7

--------------------------------------------------------------------------------
(* Every step.                                                             *)

LEMMA UiStepTexts ==
  ASSUME TypeOK, TypeOK', TextsSound, Ui, ~Reset
  PROVE  TextsSound'
  <1>1. CASE \E p \in Panes : OpenTab(p) \/ Reopen(p) \/ Activate(p) \/ Hydrate(p)
    BY <1>1, OpenTabTexts, ReopenTexts, ActivateTexts, HydrateTexts
  <1>2. CASE \E p \in Panes, t \in Texts : CloseTab(p, t) \/ CapturePane(p, t)
    BY <1>2, CloseTabTexts, CapturePaneTexts
  <1>3. CASE AutoSave \/ \E hook \in BOOLEAN : Quit(hook)
    BY <1>3, CapturesTexts
  <1>4. CASE CloseWindow \/ Submit
    BY <1>4, CloseWindowTexts, SubmitTexts
  <1>5. CASE LoadIndex \/ LoadBundle \/ Decode \/ Hydrated \/ LoadByIndex \/ LoadBackup
    BY <1>5, LoadIndexTexts, LoadBundleTexts, DecodeTexts, HydratedTexts, LoadByIndexTexts,
       LoadBackupTexts
  <1>6. CASE OpenRestored \/ UiTxEnds
    BY <1>6, OpenRestoredTexts, UiTxEndsTexts
  <1>7. ~ResetSaves
    BY DEF ResetSaves, TextsSound, LoadShows
  <1> QED BY <1>1, <1>2, <1>3, <1>4, <1>5, <1>6, <1>7 DEF Ui

LEMMA StutterTexts == ASSUME TypeOK, TextsSound, UNCHANGED vars PROVE TextsSound'
  <1>1. PipeSound'
    BY PipeFrame DEF vars, Pipeline, PipeSound, TextsSound
  <1>2. KeepsTexts /\ ShrinksLedger
    BY FrameKeepsTexts DEF vars, Pipeline, ShrinksLedger
  <1>3. SavedShows' /\ CaptureShows'
    BY <1>2, KeptShows DEF vars, TextsSound
  <1>4. CopiesWanted' /\ LoadShows' /\ ManifestTexts'
    BY DEF vars, TextsSound, CopiesWanted, LoadShows, ManifestTexts, Manifests, SoundSession
  <1> QED BY <1>1, <1>3, <1>4 DEF TextsSound, PipeSound

LEMMA CountedFields ==
  ASSUME TypeOK, NEW r
  PROVE  /\ Counted(r).resets = used.resets
         /\ [Counted(r) EXCEPT !.token = used.token + 1].resets = used.resets
  BY DEF Counted, TypeOK, Usage

(* The number of resets says whether the window positions were ever reset. *)
LEMMA ResetsCounted ==
  ASSUME TypeOK, [Next]_vars, used'.resets = 0
  PROVE  used.resets = 0 /\ ~Reset
  <1>1. used \in Usage /\ used.resets \in Nat
    BY DEF TypeOK, Usage
  <1>2. ~Reset
    <2> SUFFICES ASSUME Reset PROVE FALSE
      OBVIOUS
    <2>1. used'.resets = used.resets + 1
      BY <1>1 DEF Reset, Usage
    <2> QED BY <1>1, <2>1
  <1> SUFFICES used'.resets = used.resets
    BY <1>2
  <1>3. CASE Ui
    <2>1. CASE \E p \in Panes : OpenTab(p) \/ Reopen(p) \/ Activate(p)
      BY <2>1 DEF OpenTab, Reopen, Activate
    <2>2. CASE \E p \in Panes : Hydrate(p)
      BY <2>2, CountedFields DEF Hydrate
    <2>3. CASE \E p \in Panes, t \in Texts : CloseTab(p, t)
      BY <1>1, <2>3 DEF CloseTab, Usage
    <2>4. CASE \E p \in Panes, t \in Texts : CapturePane(p, t)
      BY <2>4 DEF CapturePane
    <2>5. CASE AutoSave \/ CloseWindow
      BY <1>1, <2>5 DEF AutoSave, CloseWindow, Usage
    <2>6. CASE \E hook \in BOOLEAN : Quit(hook)
      BY <1>1, <2>6 DEF Quit, Usage
    <2>7. CASE Submit
      BY <1>1, <2>7 DEF Submit, Usage
    <2>8. CASE LoadIndex \/ LoadBundle \/ Decode \/ Hydrated \/ LoadByIndex \/ LoadBackup
               \/ OpenRestored \/ ResetSaves \/ UiTxEnds
      BY <2>8 DEF LoadIndex, LoadBundle, Decode, Hydrated, LoadByIndex, LoadBackup, OpenRestored,
                  ResetSaves, UiTxEnds
    <2> QED BY <1>2, <1>3, <2>1, <2>2, <2>3, <2>4, <2>5, <2>6, <2>7, <2>8 DEF Ui
  <1>4. CASE Writer
    <2>1. CASE WriterTakes \/ WriterEnds \/ WriterSaves \/ WriterPrunes \/ WriterFails
      BY <2>1 DEF WriterTakes, WriterEnds, WriterSaves, WriterPrunes, WriterFails
    <2>2. CASE WriterAcknowledges
      BY <1>1, <2>2 DEF WriterAcknowledges, Usage
    <2>3. CASE \E p \in Panes : WriteContext(p)
      BY <2>3, CountedFields DEF WriteContext
    <2> QED BY <1>4, <2>1, <2>2, <2>3 DEF Writer
  <1>5. CASE \E t \in Threads : Transaction(t)
    <2>1. PICK t \in Threads : Transaction(t)
      BY <1>5
    <2>2. CASE TxLock(t) \/ \E kept \in SUBSET archive : TxPrune(t, kept)
      BY <2>2 DEF TxLock, TxPrune
    <2>3. CASE TxBundle(t)
      <3>1. PICK r : used' = [Counted(r) EXCEPT !.token = @ + 1]
        BY <2>3 DEF TxBundle
      <3> QED BY <1>1, <3>1 DEF Counted, Usage
    <2>4. CASE TxIndex(t) \/ TxLatest(t) \/ (\E due \in BOOLEAN : TxArchive(t, due))
               \/ \E p \in Panes : TxSidecar(t, p)
      <3>1. PICK r : used' \in {used, Counted(r)}
        <4>1. CASE TxIndex(t) \/ TxLatest(t)
          BY <4>1 DEF TxIndex, TxLatest
        <4>2. CASE \E due \in BOOLEAN : TxArchive(t, due)
          <5>1. PICK due \in BOOLEAN : TxArchive(t, due)
            BY <4>2
          <5> QED BY <5>1 DEF TxArchive
        <4>3. CASE \E p \in Panes : TxSidecar(t, p)
          BY <4>3 DEF TxSidecar
        <4> QED BY <2>4, <4>1, <4>2, <4>3
      <3> QED BY <3>1, CountedFields
    <2> QED BY <2>1, <2>2, <2>3, <2>4 DEF Transaction
  <1>6. CASE Crash \/ Exit \/ Damage \/ Launch
    BY <1>1, <1>6 DEF Crash, Exit, Damage, Launch, Usage
  <1>7. CASE UNCHANGED vars
    BY <1>7 DEF vars
  <1> QED BY <1>2, <1>3, <1>4, <1>5, <1>6, <1>7 DEF Next

LEMMA TextStep == StoreInv /\ TextInv /\ [Next]_vars => TextInv'
  <1> SUFFICES ASSUME StoreInv, TextInv, [Next]_vars, used'.resets = 0 PROVE TextsSound'
    BY DEF TextInv
  <1>1. TypeOK /\ TypeOK'
    BY StoreStep DEF StoreInv
  <1>2. TextsSound /\ ~Reset
    BY <1>1, ResetsCounted DEF TextInv
  <1>3. CASE \E t \in Threads : Transaction(t)
    BY <1>1, <1>2, <1>3, TransactionStep
  <1> QED BY <1>1, <1>2, <1>3, UiStepTexts, WriterStep, EndTexts, DamageTexts, LaunchTexts,
             StutterTexts DEF Next

LEMMA InitTexts == Init => TextInv
  <1> SUFFICES ASSUME Init PROVE TextsSound
    BY DEF TextInv
  <1>1. /\ queue = EmptyQueue /\ writer = IdleWriter /\ saved = {} /\ nextVersion = 0
        /\ \A p \in Panes : ledger[p] = NoEntry
        /\ \A t \in Threads : tx[t] = NoTx
        /\ ui = UiAt("index") /\ archive = {}
        /\ bundle = Unreadable("missing") /\ index = bundle /\ latest = bundle
    BY DEF Init
  <1>2. /\ ui.pc = "index" /\ ~ui.reset
        /\ SoundSession(ui.idx.sess) /\ SoundSession(ui.src.sess) /\ SoundSession(ui.sess)
    BY <1>1, UiAtFields
  <1>3. ~Committing /\ ~Queued /\ writer.pc = "wait"
    BY <1>1, IdleWriterFields, NoRequestFields DEF Committing, Queued
  <1>4. \A p \in Panes : /\ ledger[p].version = 0 /\ ~ledger[p].pending /\ ~ledger[p].persisted
                         /\ ~Held(ledger[p]) /\ ~HasContext(ledger[p])
    BY <1>1, NoEntryFields
  <1>5. VersionsAgree /\ PersistedStays /\ CarriedIsKept /\ RequestTexts
    BY <1>1, <1>3, <1>4 DEF VersionsAgree, PersistedStays, CarriedIsKept, RequestTexts, Carries
  <1>6. SavedShows /\ CaptureShows
    BY <1>1, <1>2, <1>4 DEF SavedShows, CaptureShows
  <1>7. CopiesWanted
    BY <1>1, NoRequestFields DEF CopiesWanted, Threads, Holding
  <1>8. bundle.sess = NoSession /\ SoundSession(bundle.sess) /\ bundle.sess.sb = {}
    BY <1>1, NoRequestFields DEF Unreadable
  <1>9. ManifestTexts
    BY <1>1, <1>2, <1>8, NoRequestFields DEF ManifestTexts, Manifests
  <1>10. LoadShows
    BY <1>1, <1>2 DEF LoadShows, Loading
  <1> QED BY <1>5, <1>6, <1>7, <1>9, <1>10 DEF TextsSound

(* The invariant of the captured texts holds for any number of panes,      *)
(* texts, captures, closed tabs, failing writes, damaged manifests, crashes*)
(* and launches.                                                           *)
THEOREM TextsAlwaysSound == Spec => []TextInv
  <1>1. (StoreInv /\ TextInv) /\ [Next]_vars => TextInv'
    BY TextStep
  <1> QED BY InitTexts, StoreAlwaysSound, <1>1, PTL DEF Spec

(* acknowledge drops a text from the ledger only when its file has it, and *)
(* nothing takes it away while the entry says it is persisted.             *)
THEOREM AcknowledgedTextStays == Spec => [](used.resets = 0 => PersistedTextOnDisk)
  <1>1. TextInv => (used.resets = 0 => PersistedTextOnDisk)
    BY DEF TextInv, TextsSound, PersistedStays, PersistedTextOnDisk
  <1> QED BY TextsAlwaysSound, <1>1, PTL

(* save_transaction of the writer copies the texts its session was captured*)
(* with, although it reads them from files that the UI thread, pruning and *)
(* later captures work on.                                                 *)
THEOREM SaveCopiesCaptured == Spec => [](used.resets = 0 => SaveFindsTexts)
  <1>1. StoreInv /\ TextInv => (used.resets = 0 => SaveFindsTexts)
    <2> SUFFICES ASSUME TypeOK, TextsSound, tx["writer"].pc = "sidecars",
                        NEW p \in tx["writer"].todo
                 PROVE  tx["writer"].sess.want[p] = file[p]
      BY DEF StoreInv, TextInv, SaveFindsTexts
    <2>1. "writer" \in Threads /\ p \in tx["writer"].sess.sb
      BY DEF TextsSound, CopiesWanted, Holding, Threads
    <2> QED BY <2>1, FileIsWanted
  <1> QED BY StoreAlwaysSound, TextsAlwaysSound, <1>1, PTL

(* Reopen Closed Tab and activate_deferred show the text of the capture.   *)
THEOREM ReopenedTextIsCaptured == Spec => [](used.resets = 0 => ReopenShowsCaptured)
  <1>1. TypeOK /\ TextsSound => ReopenShowsCaptured
    <2> SUFFICES ASSUME TypeOK, TextsSound, NEW p \in saved PROVE Context(p) = shown[p]
      BY DEF ReopenShowsCaptured
    <2>1. p \in Panes
      BY DEF TypeOK, WindowOK
    <2>2. Shows(p, shown[p])
      BY <2>1 DEF TextsSound, SavedShows
    <2>3. ledger[p].pending => ledger[p].text = ledger[p].hash
      BY <2>1 DEF TextsSound, VersionsAgree
    <2> QED BY <2>2, <2>3 DEF Context, Shows, Stays
  <1>2. StoreInv /\ TextInv => (used.resets = 0 => ReopenShowsCaptured)
    BY <1>1 DEF StoreInv, TextInv
  <1> QED BY StoreAlwaysSound, TextsAlwaysSound, <1>2, PTL

--------------------------------------------------------------------------------
(* The bytes of a set of panes.  MapThenSumSet takes the panes of a set in *)
(* an order nobody knows; the lemmas below make it a sum: any pane may be  *)
(* taken first.  Each is shown for a smallest set that would refute it.    *)

(* g gives the bytes of every set of panes of S with the entries l: the    *)
(* recursion behind MapThenSumSet.                                         *)
IsSum(g, l, S) ==
  g = [s \in SUBSET S |-> IF s = {} THEN 0
                          ELSE LET x == CHOOSE x \in s : TRUE IN l[x].text + g[s \ {x}]]

Bytes(l, S) == (CHOOSE g : IsSum(g, l, S))[S]

LEMMA BytesIsSum ==
  ASSUME NEW l, NEW S
  PROVE  MapThenSumSet(LAMBDA p : l[p].text, S) = Bytes(l, S)
  BY Zenon DEF MapThenSumSet, MapThenFoldSet, Bytes, IsSum

(* Induction: a family of subsets of a finite set has a minimal member.    *)
LEMMA SmallestSubset ==
  ASSUME NEW S, IsFiniteSet(S), NEW T, T \subseteq SUBSET S, T # {}
  PROVE  \E w \in T : \A v \in T : v \subseteq w => v = w
  <1>1. IsWellFoundedOn(StrictSubsetOrdering(S), SUBSET S)
    BY FS_StrictSubsetOrderingWellFounded, FS_FiniteSubsetsOfFinite
  <1>2. PICK w \in T : \A v \in T : ~(<<v, w>> \in StrictSubsetOrdering(S))
    BY <1>1, WFMin
  <1>3. ASSUME NEW v \in T, v \subseteq w PROVE v = w
    BY <1>2, <1>3 DEF StrictSubsetOrdering
  <1> QED BY <1>2, <1>3

(* The pane that the recursion takes first.                                *)
First(s) == CHOOSE x \in s : TRUE

LEMMA FirstIn == ASSUME NEW s, s # {} PROVE First(s) \in s
  BY DEF First

(* The recursion, unfolded.                                                *)
LEMMA SumUnfolds ==
  ASSUME NEW S, NEW l, NEW g, IsSum(g, l, S), NEW s \in SUBSET S
  PROVE  /\ s = {} => g[s] = 0
         /\ s # {} => First(s) \in s /\ g[s] = l[First(s)].text + g[s \ {First(s)}]
  <1>1. g[s] = IF s = {} THEN 0
               ELSE LET x == CHOOSE x \in s : TRUE IN l[x].text + g[s \ {x}]
    BY DEF IsSum
  <1> QED BY <1>1, FirstIn DEF First

(* Two such functions agree where both are defined.                        *)
LEMMA SumUnique ==
  ASSUME NEW S, IsFiniteSet(S), NEW l, NEW g, IsSum(g, l, S),
         NEW R \in SUBSET S, NEW h, IsSum(h, l, R)
  PROVE  \A s \in SUBSET R : g[s] = h[s]
  <1> SUFFICES ASSUME \E s \in SUBSET R : g[s] # h[s] PROVE FALSE
    OBVIOUS
  <1> DEFINE T == {s \in SUBSET R : g[s] # h[s]}
  <1>1. T \subseteq SUBSET S /\ T # {}
    OBVIOUS
  <1>2. PICK w \in T : \A v \in T : v \subseteq w => v = w
    <2> HIDE DEF T
    <2> QED BY ONLY <1>1, IsFiniteSet(S), SmallestSubset
  <1>3. w \in SUBSET S /\ w \in SUBSET R /\ g[w] # h[w]
    BY <1>2
  <1>4. w # {} /\ First(w) \in w
    BY <1>3, SumUnfolds
  <1>5. g[w \ {First(w)}] = h[w \ {First(w)}]
    BY <1>2, <1>3, <1>4
  <1> QED BY <1>3, <1>4, <1>5, SumUnfolds

(* Every finite set has such a function.                                   *)
LEMMA SumExists ==
  ASSUME NEW S, IsFiniteSet(S), NEW l
  PROVE  \E g : IsSum(g, l, S)
  <1> DEFINE T == {s \in SUBSET S : ~\E g : IsSum(g, l, s)}
  <1> SUFFICES ASSUME S \in T PROVE FALSE
    OBVIOUS
  <1>0. T \subseteq SUBSET S /\ T # {}
    OBVIOUS
  <1>1. PICK w \in T : \A v \in T : v \subseteq w => v = w
    <2> HIDE DEF T
    <2> QED BY ONLY <1>0, IsFiniteSet(S), SmallestSubset
  <1>2. w \in SUBSET S /\ ~\E g : IsSum(g, l, w)
    BY <1>1
  <1>3. \A v \in SUBSET w : v # w => \E g : IsSum(g, l, v)
    BY <1>1, <1>2
  <1> DEFINE h(v) == CHOOSE g : IsSum(g, l, v)
             G == [s \in SUBSET w |-> IF s = {} THEN 0
                                      ELSE l[First(s)].text + h(s \ {First(s)})[s \ {First(s)}]]
  <1>4. \A v \in SUBSET w : v # w => IsSum(h(v), l, v)
    BY <1>3
  <1> HIDE DEF h, T
  <1>5. IsFiniteSet(w)
    BY <1>2, FS_Subset
  <1>6. \A s \in SUBSET w : s # {} => First(s) \in s
    BY FirstIn
  <1>7. ASSUME NEW s \in SUBSET w, s # w PROVE G[s] = h(s)[s]
    <2>1. IsSum(h(s), l, s)
      BY <1>4, <1>7
    <2>2. CASE s = {}
      BY <2>1, <2>2, SumUnfolds
    <2>3. CASE s # {}
      <3> DEFINE u == s \ {First(s)}
      <3>1. u \in SUBSET s /\ u \in SUBSET w /\ u # w /\ First(s) \in s
        BY <1>6, <1>7, <2>3
      <3>2. IsSum(h(u), l, u)
        BY <1>4, <3>1
      <3>3. IsFiniteSet(s)
        BY <1>5, FS_Subset
      <3>4. h(s)[u] = h(u)[u]
        BY <2>1, <3>1, <3>2, <3>3, SumUnique
      <3>5. h(s)[s] = l[First(s)].text + h(s)[u]
        BY <2>1, <2>3, SumUnfolds
      <3>6. G[s] = l[First(s)].text + h(u)[u]
        BY <2>3
      <3> QED BY <3>4, <3>5, <3>6
    <2> QED BY <2>2, <2>3
  <1>8. \A s \in SUBSET w : s # {} =>
          G[s \ {First(s)}] = h(s \ {First(s)})[s \ {First(s)}]
    <2> SUFFICES ASSUME NEW s \in SUBSET w, s # {}
                 PROVE  G[s \ {First(s)}] = h(s \ {First(s)})[s \ {First(s)}]
      OBVIOUS
    <2>1. s \ {First(s)} \in SUBSET w /\ s \ {First(s)} # w
      BY <1>6
    <2> HIDE DEF G
    <2> QED BY <1>7, <2>1
  <1>9. \A s \in SUBSET w :
          G[s] = IF s = {} THEN 0
                 ELSE LET x == CHOOSE x \in s : TRUE IN l[x].text + G[s \ {x}]
    <2> SUFFICES ASSUME NEW s \in SUBSET w
                 PROVE  G[s] = IF s = {} THEN 0 ELSE l[First(s)].text + G[s \ {First(s)}]
      BY DEF First
    <2>1. G[s] = IF s = {} THEN 0
                 ELSE l[First(s)].text + h(s \ {First(s)})[s \ {First(s)}]
      OBVIOUS
    <2> HIDE DEF G
    <2> QED BY <1>8, <2>1
  <1>10. G = [s \in SUBSET w |-> G[s]]
    OBVIOUS
  <1> HIDE DEF G
  <1>11. IsSum(G, l, w)
    BY <1>9, <1>10 DEF IsSum
  <1> QED BY <1>2, <1>11
(* A set's own bytes are those that the function of a larger set gives it. *)
LEMMA BytesAt ==
  ASSUME NEW S, IsFiniteSet(S), NEW l, NEW g, IsSum(g, l, S), NEW s \in SUBSET S
  PROVE  Bytes(l, s) = g[s]
  <1>1. IsFiniteSet(s)
    BY FS_Subset
  <1>2. PICK h : h = CHOOSE h0 : IsSum(h0, l, s)
    OBVIOUS
  <1>3. IsSum(h, l, s)
    BY <1>1, <1>2, SumExists
  <1>4. s \in SUBSET s
    OBVIOUS
  <1>5. g[s] = h[s]
    BY <1>3, <1>4, SumUnique
  <1> QED BY <1>2, <1>5 DEF Bytes

LEMMA BytesUnfold ==
  ASSUME NEW S, IsFiniteSet(S), NEW l
  PROVE  /\ S = {} => Bytes(l, S) = 0
         /\ S # {} => First(S) \in S /\ Bytes(l, S) = l[First(S)].text + Bytes(l, S \ {First(S)})
  <1>1. PICK g : IsSum(g, l, S)
    BY SumExists
  <1>2. S \in SUBSET S /\ S \ {First(S)} \in SUBSET S
    OBVIOUS
  <1>3. Bytes(l, S) = g[S]
    BY <1>1, <1>2, BytesAt
  <1>4. Bytes(l, S \ {First(S)}) = g[S \ {First(S)}]
    BY <1>1, <1>2, BytesAt
  <1>5. /\ S = {} => g[S] = 0
        /\ S # {} => First(S) \in S /\ g[S] = l[First(S)].text + g[S \ {First(S)}]
    BY <1>1, <1>2, SumUnfolds
  <1> QED BY <1>3, <1>4, <1>5

LEMMA BytesNat ==
  ASSUME NEW S, IsFiniteSet(S), NEW l, \A p \in S : l[p].text \in Nat
  PROVE  \A s \in SUBSET S : Bytes(l, s) \in Nat
  <1> SUFFICES ASSUME \E s \in SUBSET S : ~(Bytes(l, s) \in Nat) PROVE FALSE
    OBVIOUS
  <1> DEFINE T == {s \in SUBSET S : ~(Bytes(l, s) \in Nat)}
  <1>1. T \subseteq SUBSET S /\ T # {}
    OBVIOUS
  <1>2. PICK w \in T : \A v \in T : v \subseteq w => v = w
    <2> HIDE DEF T
    <2> QED BY ONLY <1>1, IsFiniteSet(S), SmallestSubset
  <1>3. w \in SUBSET S /\ ~(Bytes(l, w) \in Nat) /\ IsFiniteSet(w)
    BY <1>2, FS_Subset
  <1>4. First(w) \in w /\ Bytes(l, w) = l[First(w)].text + Bytes(l, w \ {First(w)})
    <2>1. /\ w = {} => Bytes(l, w) = 0
          /\ w # {} => First(w) \in w /\ Bytes(l, w) = l[First(w)].text + Bytes(l, w \ {First(w)})
      BY <1>3, BytesUnfold
    <2>2. w # {}
      BY <1>3, <2>1
    <2> QED BY <2>1, <2>2
  <1>5. Bytes(l, w \ {First(w)}) \in Nat
    BY <1>2, <1>3, <1>4
  <1>6. l[First(w)].text \in Nat
    BY <1>3, <1>4
  <1> QED BY <1>3, <1>4, <1>5, <1>6

(* Any pane may be counted first.                                          *)
LEMMA BytesSplit ==
  ASSUME NEW S, IsFiniteSet(S), NEW l, \A p \in S : l[p].text \in Nat
  PROVE  \A s \in SUBSET S : \A y \in s : Bytes(l, s) = l[y].text + Bytes(l, s \ {y})
  <1> DEFINE Splits(s) == \A y \in s : Bytes(l, s) = l[y].text + Bytes(l, s \ {y})
  <1> SUFFICES ASSUME \E s \in SUBSET S : ~Splits(s) PROVE FALSE
    OBVIOUS
  <1> DEFINE T == {s \in SUBSET S : ~Splits(s)}
  <1> HIDE DEF Splits
  <1>1. T \subseteq SUBSET S /\ T # {}
    OBVIOUS
  <1>2. PICK w \in T : \A v \in T : v \subseteq w => v = w
    <2> HIDE DEF T
    <2> QED BY ONLY <1>1, IsFiniteSet(S), SmallestSubset
  <1>3. w \in SUBSET S /\ ~Splits(w) /\ IsFiniteSet(w)
    BY <1>2, FS_Subset
  <1>4. \A v \in SUBSET w : v # w => Splits(v)
    BY <1>2, <1>3
  <1>5. PICK y \in w : Bytes(l, w) # l[y].text + Bytes(l, w \ {y})
    BY <1>3 DEF Splits
  <1> DEFINE f == First(w)
  <1>6. f \in w /\ Bytes(l, w) = l[f].text + Bytes(l, w \ {f})
    BY <1>3, <1>5, BytesUnfold
  <1> HIDE DEF f
  <1>7. f # y
    BY <1>5, <1>6
  <1>8. Bytes(l, w \ {f}) = l[y].text + Bytes(l, (w \ {f}) \ {y})
    <2>1. w \ {f} \in SUBSET w /\ w \ {f} # w /\ y \in w \ {f}
      BY <1>6, <1>7
    <2> QED BY <1>4, <2>1 DEF Splits
  <1>9. Bytes(l, w \ {y}) = l[f].text + Bytes(l, (w \ {y}) \ {f})
    <2>1. w \ {y} \in SUBSET w /\ w \ {y} # w /\ f \in w \ {y}
      BY <1>6, <1>7
    <2> QED BY <1>4, <2>1 DEF Splits
  <1>10. (w \ {y}) \ {f} = (w \ {f}) \ {y}
    OBVIOUS
  <1>11. PICK a, b, c : a = l[f].text /\ b = l[y].text /\ c = Bytes(l, (w \ {f}) \ {y})
    OBVIOUS
  <1>12. a \in Nat /\ b \in Nat
    BY <1>3, <1>6, <1>11
  <1>13. (w \ {f}) \ {y} \in SUBSET S
    BY <1>3
  <1>14. c \in Nat
    BY <1>11, <1>13, BytesNat
  <1>15. Bytes(l, w) = a + (b + c) /\ Bytes(l, w) # b + (a + c)
    BY <1>5, <1>6, <1>8, <1>9, <1>10, <1>11
  <1> QED BY <1>12, <1>14, <1>15

(* The panes of R lose their text: that much less is pending.              *)
Drops(l, m, S, R) == \A p \in S : m[p].text = IF p \in R THEN 0 ELSE l[p].text

LEMMA BytesLess ==
  ASSUME NEW S, IsFiniteSet(S), NEW l, \A p \in S : l[p].text \in Nat,
         NEW R, NEW m, Drops(l, m, S, R)
  PROVE  \A s \in SUBSET S : Bytes(l, s) = Bytes(m, s) + Bytes(l, s \cap R)
  <1> DEFINE Less(s) == Bytes(l, s) = Bytes(m, s) + Bytes(l, s \cap R)
  <1> SUFFICES ASSUME \E s \in SUBSET S : ~Less(s) PROVE FALSE
    OBVIOUS
  <1> DEFINE T == {s \in SUBSET S : ~Less(s)}
  <1> HIDE DEF Less
  <1>1. T \subseteq SUBSET S /\ T # {}
    OBVIOUS
  <1>2. PICK w \in T : \A v \in T : v \subseteq w => v = w
    <2> HIDE DEF T
    <2> QED BY ONLY <1>1, IsFiniteSet(S), SmallestSubset
  <1>3. w \in SUBSET S /\ ~Less(w) /\ IsFiniteSet(w)
    BY <1>2, FS_Subset
  <1>4. \A v \in SUBSET w : v # w => Less(v)
    BY <1>2, <1>3
  <1>5. w # {}
    <2>1. ASSUME w = {} PROVE FALSE
      <3>1. w \cap R = w
        BY <2>1
      <3>2. Bytes(l, w) = 0 /\ Bytes(m, w) = 0
        BY <1>3, <2>1, BytesUnfold
      <3>3. Bytes(l, w \cap R) = 0
        BY <3>1, <3>2
      <3> QED BY <1>3, <3>2, <3>3 DEF Less
    <2> QED BY <2>1
  <1> DEFINE f == First(w)
  <1>6. f \in w /\ Bytes(l, w) = l[f].text + Bytes(l, w \ {f}) /\ Bytes(m, w) = m[f].text + Bytes(m, w \ {f})
    BY <1>3, <1>5, BytesUnfold
  <1> HIDE DEF f
  <1>7. Bytes(l, w \ {f}) = Bytes(m, w \ {f}) + Bytes(l, (w \ {f}) \cap R)
    BY <1>4, <1>6 DEF Less
  <1>8. PICK a, b, c : a = l[f].text /\ b = Bytes(m, w \ {f}) /\ c = Bytes(l, (w \ {f}) \cap R)
    OBVIOUS
  <1>9. a \in Nat /\ f \in S
    BY <1>3, <1>6, <1>8
  <1>10. c \in Nat
    <2>1. (w \ {f}) \cap R \in SUBSET S
      BY <1>3
    <2> QED BY <1>8, <2>1, BytesNat
  <1>11. b \in Nat
    <2>1. \A p \in S : m[p].text \in Nat
      BY DEF Drops
    <2>2. w \ {f} \in SUBSET S
      BY <1>3
    <2> QED BY <1>8, <2>1, <2>2, BytesNat
  <1>12. CASE f \in R
    <2>1. w \cap R \in SUBSET S /\ f \in w \cap R
      BY <1>3, <1>6, <1>12
    <2>2. (w \cap R) \ {f} = (w \ {f}) \cap R
      OBVIOUS
    <2>3. Bytes(l, w \cap R) = l[f].text + Bytes(l, (w \cap R) \ {f})
      BY <2>1, BytesSplit
    <2>4. Bytes(l, w \cap R) = a + c
      BY <1>8, <2>2, <2>3
    <2>5. m[f].text = 0
      BY <1>9, <1>12 DEF Drops
    <2>6. Bytes(l, w) = a + (b + c) /\ Bytes(m, w) = 0 + b
      BY <1>6, <1>7, <1>8, <2>5
    <2>7. a + (b + c) = (0 + b) + (a + c)
      BY <1>9, <1>10, <1>11
    <2> QED BY <1>3, <2>4, <2>6, <2>7 DEF Less
  <1>13. CASE f \notin R
    <2>1. w \cap R = (w \ {f}) \cap R
      BY <1>13
    <2>2. m[f].text = a
      BY <1>8, <1>9, <1>13 DEF Drops
    <2>3. Bytes(l, w) = a + (b + c) /\ Bytes(m, w) = a + b /\ Bytes(l, w \cap R) = c
      BY <1>6, <1>7, <1>8, <2>1, <2>2
    <2>4. a + (b + c) = (a + b) + c
      BY <1>9, <1>10, <1>11
    <2> QED BY <1>3, <2>3, <2>4 DEF Less
  <1> QED BY <1>12, <1>13

(* The same texts have the same bytes.                                     *)
LEMMA BytesSame ==
  ASSUME NEW S, IsFiniteSet(S), NEW l, \A p \in S : l[p].text \in Nat,
         NEW m, \A p \in S : m[p].text = l[p].text
  PROVE  Bytes(m, S) = Bytes(l, S)
  <1>1. PICK R : R = {}
    OBVIOUS
  <1>2. Drops(l, m, S, R)
    BY <1>1 DEF Drops
  <1>4. S \in SUBSET S
    OBVIOUS
  <1>5. Bytes(l, S) = Bytes(m, S) + Bytes(l, S \cap R)
    BY ONLY <1>2, <1>4, IsFiniteSet(S), \A p \in S : l[p].text \in Nat, BytesLess
  <1>6. Bytes(l, S \cap R) = 0
    <2>1. S \cap R = {} /\ IsFiniteSet({})
      BY <1>1, FS_EmptySet
    <2> QED BY <2>1, BytesUnfold
  <1>7. \A p \in S : m[p].text \in Nat
    OBVIOUS
  <1>8. Bytes(m, S) \in Nat
    BY <1>4, <1>7, BytesNat
  <1> QED BY <1>5, <1>6, <1>8

(* One pane has another text.                                              *)
LEMMA BytesChanged ==
  ASSUME NEW S, IsFiniteSet(S), NEW l, \A p \in S : l[p].text \in Nat,
         NEW y \in S, NEW m, m[y].text \in Nat, \A p \in S \ {y} : m[p].text = l[p].text
  PROVE  Bytes(m, S) = Bytes(l, S) - l[y].text + m[y].text
  <1> DEFINE D == S \ {y}
  <1>1. D \subseteq S /\ \A p \in D : p \in S /\ m[p].text = l[p].text
    OBVIOUS
  <1>2. IsFiniteSet(D)
    BY <1>1, FS_Subset
  <1>3. \A p \in S : m[p].text \in Nat
    OBVIOUS
  <1>4. Bytes(l, S) = l[y].text + Bytes(l, D)
    BY BytesSplit
  <1>5. Bytes(m, S) = m[y].text + Bytes(m, D)
    BY <1>3, BytesSplit
  <1> HIDE DEF D
  <1>6. Bytes(m, D) = Bytes(l, D)
    BY <1>1, <1>2, BytesSame
  <1>8. Bytes(l, D) \in Nat /\ Bytes(m, D) \in Nat
    BY <1>1, <1>3, BytesNat
  <1>9. PICK a, b, c, d : a = l[y].text /\ b = m[y].text /\ c = Bytes(l, D) /\ d = Bytes(m, D)
    OBVIOUS
  <1>10. a \in Nat /\ b \in Nat /\ c \in Nat /\ d \in Nat /\ c = d
    BY <1>6, <1>8, <1>9
  <1>11. b + d = (a + c) - a + b
    BY <1>10
  <1> QED BY <1>4, <1>5, <1>9, <1>11

--------------------------------------------------------------------------------
(* The budget of the ledger.                                               *)

WithinBudget(l, bytes) ==
  /\ \A p \in Panes : ~l[p].pending => l[p].text = 0
  /\ bytes = Bytes(l, Panes) /\ bytes <= Budget

LEMMA BudgetIsSum == LedgerWithinBudget <=> WithinBudget(ledger, pendingBytes)
  BY Zenon DEF LedgerWithinBudget, WithinBudget, MapThenSumSet, MapThenFoldSet, Bytes, IsSum

LEMMA BudgetIsSumNext == LedgerWithinBudget' <=> WithinBudget(ledger', pendingBytes')
  BY Zenon DEF LedgerWithinBudget, WithinBudget, MapThenSumSet, MapThenFoldSet, Bytes, IsSum

LEMMA LedgerBytes ==
  ASSUME TypeOK, WithinBudget(ledger, pendingBytes)
  PROVE  /\ \A p \in Panes : ledger[p].text \in Nat
         /\ pendingBytes = Bytes(ledger, Panes)
         /\ pendingBytes \in Nat /\ Budget \in Nat
  <1>1. \A p \in Panes : ledger[p].text \in Nat
    BY RestoreAssumption DEF TypeOK, Entries, Texts
  <1>2. Panes \in SUBSET Panes
    OBVIOUS
  <1>3. Bytes(ledger, Panes) \in Nat
    BY <1>1, <1>2, RestoreAssumption, BytesNat
  <1> QED BY <1>1, <1>3, RestoreAssumption DEF WithinBudget

LEMMA RecordBudget ==
  ASSUME TypeOK, WithinBudget(ledger, pendingBytes), NEW p \in Panes, NEW t \in Texts, Record(p, t)
  PROVE  WithinBudget(ledger', pendingBytes')
  <1>1. CASE Refused(ledger[p], t)
    <2>1. ledger' = ledger /\ pendingBytes' = pendingBytes
      BY <1>1 DEF Record, Recorded, TypeOK
    <2> QED BY <2>1
  <1>2. CASE ~Refused(ledger[p], t)
    <2>1. PICK l : l = ledger'
      OBVIOUS
    <2>2. /\ l[p] = Entry(nextVersion + 1, t) /\ \A q \in Panes \ {p} : l[q] = ledger[q]
          /\ pendingBytes' = pendingBytes - ledger[p].text + t
      BY <1>2, <2>1 DEF Record, Recorded, TypeOK
    <2>3. l[p].text = t /\ l[p].pending
      BY <2>2 DEF Entry
    <2>4. t \in Nat
      BY RestoreAssumption DEF Texts
    <2>5. Bytes(l, Panes) = Bytes(ledger, Panes) - ledger[p].text + l[p].text
      <3>1. l[p].text \in Nat /\ \A q \in Panes \ {p} : l[q].text = ledger[q].text
        BY <2>2, <2>3, <2>4
      <3> QED BY <3>1, LedgerBytes, RestoreAssumption, BytesChanged
    <2>6. pendingBytes' = Bytes(l, Panes)
      BY <2>2, <2>3, <2>5, LedgerBytes
    <2>7. pendingBytes' <= Budget
      BY <1>2, <2>2 DEF Refused, Fits
    <2>8. \A q \in Panes : ~l[q].pending => l[q].text = 0
      BY <2>2, <2>3 DEF WithinBudget
    <2> QED BY <2>1, <2>6, <2>7, <2>8 DEF WithinBudget
  <1> QED BY <1>1, <1>2

LEMMA AcknowledgeBudget ==
  ASSUME TypeOK, WithinBudget(ledger, pendingBytes), WriterAcknowledges
  PROVE  WithinBudget(ledger', pendingBytes')
  <1> DEFINE got(p) == Acknowledges(ledger[p], writer.req.contexts[p])
             l == [p \in Panes |-> IF got(p) THEN [ledger[p] EXCEPT !.text = 0, !.pending = FALSE,
                                                                   !.persisted = TRUE]
                                   ELSE ledger[p]]
             keep == writer.req.keep \cup PendingIds(l)
             R == {p \in Panes : got(p)}
  <1>1. /\ ledger' = [p \in Panes |-> IF p \in keep THEN l[p] ELSE NoEntry]
        /\ pendingBytes' = pendingBytes - MapThenSumSet(LAMBDA p : ledger[p].text, R)
    BY DEF WriterAcknowledges
  <1>2. pendingBytes' = pendingBytes - Bytes(ledger, R)
    <2> HIDE DEF R
    <2> QED BY <1>1, Zenon DEF MapThenSumSet, MapThenFoldSet, Bytes, IsSum
  <1>3. \A p \in Panes : l[p] = IF got(p) THEN [ledger[p] EXCEPT !.text = 0, !.pending = FALSE,
                                                                  !.persisted = TRUE]
                                 ELSE ledger[p]
    OBVIOUS
  <1>4. \A p \in Panes : p \in R <=> got(p)
    OBVIOUS
  <1>5. \A p \in Panes : p \notin keep => ~l[p].pending
    BY DEF PendingIds
  <1> HIDE DEF got, l, keep, R
  <1>6. \A p \in Panes : /\ got(p) => l[p].text = 0 /\ ~l[p].pending
                         /\ ~got(p) => l[p] = ledger[p]
    BY <1>3 DEF TypeOK, Entries
  <1>7. \A p \in Panes : ~l[p].pending => l[p].text = 0
    BY <1>6 DEF WithinBudget
  <1>8. PICK m : m = ledger'
    OBVIOUS
  <1>9. \A p \in Panes : m[p].text = l[p].text /\ (~m[p].pending => m[p].text = 0)
    BY <1>1, <1>5, <1>7, <1>8 DEF NoEntry
  <1>10. Drops(ledger, m, Panes, R)
    BY <1>4, <1>6, <1>9 DEF Drops
  <1>11. R \subseteq Panes
    BY DEF R
  <1>12. Bytes(ledger, Panes) = Bytes(m, Panes) + Bytes(ledger, R)
    <2>1. Panes \in SUBSET Panes /\ Panes \cap R = R
      BY <1>11
    <2>2. Bytes(ledger, Panes) = Bytes(m, Panes) + Bytes(ledger, Panes \cap R)
      BY <1>10, <2>1, LedgerBytes, RestoreAssumption, BytesLess
    <2> QED BY <2>1, <2>2
  <1>13. Bytes(ledger, R) \in Nat
    BY <1>11, LedgerBytes, RestoreAssumption, BytesNat
  <1>14. Bytes(m, Panes) \in Nat
    <2>1. \A p \in Panes : m[p].text \in Nat
      BY <1>4, <1>10, LedgerBytes DEF Drops
    <2>2. Panes \in SUBSET Panes
      OBVIOUS
    <2> QED BY <2>1, <2>2, RestoreAssumption, BytesNat
  <1>15. pendingBytes' = Bytes(m, Panes) /\ pendingBytes' <= Budget
    <2>1. PICK a, b, c : a = pendingBytes /\ b = Bytes(m, Panes) /\ c = Bytes(ledger, R)
      OBVIOUS
    <2>2. a \in Nat /\ b \in Nat /\ c \in Nat /\ Budget \in Nat /\ a = b + c /\ a <= Budget
      BY <1>12, <1>13, <1>14, <2>1, LedgerBytes DEF WithinBudget
    <2>3. a - c = b /\ b <= Budget
      BY <2>2
    <2> QED BY <1>2, <2>1, <2>3
  <1> QED BY <1>8, <1>9, <1>15 DEF WithinBudget

LEMMA FailBudget ==
  ASSUME TypeOK, WithinBudget(ledger, pendingBytes), WriterFails
  PROVE  WithinBudget(ledger', pendingBytes')
  <1>1. PICK m : m = ledger'
    OBVIOUS
  <1>2. pendingBytes' = pendingBytes
    BY DEF WriterFails
  <1>3. \A p \in Panes : m[p].text = ledger[p].text /\ m[p].pending = ledger[p].pending
    BY <1>1 DEF WriterFails, TypeOK, Entries
  <1>4. Bytes(m, Panes) = Bytes(ledger, Panes)
    BY <1>3, LedgerBytes, RestoreAssumption, BytesSame
  <1> QED BY <1>1, <1>2, <1>3, <1>4 DEF WithinBudget

LEMMA EmptyBudget ==
  ASSUME NEW l, \A p \in Panes : l[p] = NoEntry
  PROVE  WithinBudget(l, 0)
  <1>1. \A p \in Panes : l[p].text = 0
    BY DEF NoEntry
  <1>2. Drops(l, l, Panes, Panes)
    BY <1>1 DEF Drops
  <1>3. Panes \in SUBSET Panes /\ Panes \cap Panes = Panes
    OBVIOUS
  <1>4. Bytes(l, Panes) \in Nat
    BY <1>1, <1>3, RestoreAssumption, BytesNat
  <1>5. Bytes(l, Panes) = Bytes(l, Panes) + Bytes(l, Panes \cap Panes)
    BY <1>1, <1>2, <1>3, RestoreAssumption, BytesLess
  <1>6. Bytes(l, Panes) = 0
    BY <1>3, <1>4, <1>5
  <1> QED BY <1>1, <1>6, RestoreAssumption DEF WithinBudget

LEMMA BudgetStep == TypeOK /\ LedgerWithinBudget /\ [Next]_vars => LedgerWithinBudget'
  <1> SUFFICES ASSUME TypeOK, WithinBudget(ledger, pendingBytes), [Next]_vars
               PROVE  WithinBudget(ledger', pendingBytes')
    BY BudgetIsSum, BudgetIsSumNext
  <1>1. ASSUME UNCHANGED buffers PROVE WithinBudget(ledger', pendingBytes')
    BY <1>1 DEF buffers
  <1>2. CASE Ui
    <2>1. ASSUME NEW p \in Panes, NEW t \in Texts, CloseTab(p, t) \/ CapturePane(p, t)
          PROVE  WithinBudget(ledger', pendingBytes')
      BY <1>1, <2>1, RecordBudget DEF CloseTab, CapturePane
    <2>2. ASSUME NEW p \in Panes, OpenTab(p) \/ Reopen(p) \/ Activate(p) \/ Hydrate(p)
          PROVE  UNCHANGED buffers
      BY <2>2 DEF OpenTab, Reopen, Activate, Hydrate
    <2>3. ASSUME \/ \E hook \in BOOLEAN : Quit(hook)
                 \/ AutoSave \/ CloseWindow \/ Submit
                 \/ LoadIndex \/ LoadBundle \/ Decode \/ Hydrated \/ LoadByIndex \/ LoadBackup
                 \/ OpenRestored \/ Reset \/ ResetSaves \/ UiTxEnds
          PROVE  UNCHANGED buffers
      BY <2>3 DEF Quit, AutoSave, CloseWindow, Submit, LoadIndex, LoadBundle, Decode, Hydrated,
                  LoadByIndex, LoadBackup, OpenRestored, Reset, ResetSaves, UiTxEnds
    <2> QED BY <1>1, <1>2, <2>1, <2>2, <2>3 DEF Ui
  <1>3. CASE Writer
    <2>1. ASSUME \/ WriterTakes \/ WriterEnds \/ WriterSaves \/ WriterPrunes
                 \/ \E p \in Panes : WriteContext(p)
          PROVE  UNCHANGED buffers
      BY <2>1 DEF WriterTakes, WriterEnds, WriterSaves, WriterPrunes, WriteContext
    <2> QED BY <1>1, <1>3, <2>1, AcknowledgeBudget, FailBudget DEF Writer
  <1>4. CASE \E t \in Threads : Transaction(t)
    <2>1. UNCHANGED buffers
      BY <1>4 DEF Transaction, TxLock, TxSidecar, TxBundle, TxIndex, TxLatest, TxArchive, TxPrune
    <2> QED BY <1>1, <2>1
  <1>5. CASE Crash \/ Exit
    <2>1. pendingBytes' = 0 /\ \A p \in Panes : ledger'[p] = NoEntry
      BY <1>5 DEF Crash, Exit, Forgotten
    <2> QED BY <2>1, EmptyBudget
  <1>6. CASE Damage \/ Launch \/ UNCHANGED vars
    <2>1. UNCHANGED buffers
      BY <1>6 DEF Damage, Launch, vars, buffers
    <2> QED BY <1>1, <2>1
  <1> QED BY <1>2, <1>3, <1>4, <1>5, <1>6 DEF Next

(* The ledger's counter is the sum of the texts that wait for their commit,*)
(* for any number of panes, and record never lets it exceed the budget:    *)
(* acknowledge subtracts each committed text once, also when panes were    *)
(* captured again or dropped while the writer was at work.                 *)
THEOREM LedgerAlwaysWithinBudget == Spec => []LedgerWithinBudget
  <1>1. Init => LedgerWithinBudget
    <2> SUFFICES ASSUME Init PROVE WithinBudget(ledger, pendingBytes)
      BY BudgetIsSum
    <2>1. pendingBytes = 0 /\ \A p \in Panes : ledger[p] = NoEntry
      BY DEF Init
    <2> QED BY <2>1, EmptyBudget
  <1>2. StoreInv /\ LedgerWithinBudget /\ [Next]_vars => LedgerWithinBudget'
    BY BudgetStep DEF StoreInv
  <1> QED BY StoreAlwaysSound, <1>1, <1>2, PTL DEF Spec

================================================================================
