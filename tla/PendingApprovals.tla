---------------------------- MODULE PendingApprovals ----------------------------
(***************************************************************************)
(* How a command approval gets from the Mac to the phone and its answer    *)
(* back.                                                                   *)
(*                                                                         *)
(* The app's RemoteHost keeps the request and sends APPROVAL_REQUEST to    *)
(* the agent, if one is connected to its IPC socket.  The agent's          *)
(* ipc goroutine stores the request, POSTs a snapshot of all that is       *)
(* pending to the relay and then forwards the frame; its relay             *)
(* goroutine handles the phone's answer, with a snapshot of its own.  The  *)
(* phone merges two channels: frames of the encrypted session and the      *)
(* snapshot it fetches from the relay (PendingStateReconciler), and keeps  *)
(* the answers the user owes (ApprovalCoordinator, DeferredDecisionLedger).*)
(*                                                                         *)
(* The handshake is the one RemoteHandshake models, reduced to numbered    *)
(* sessions: a frame is readable in the session it was sealed in.  Whether *)
(* an answer allows or denies makes no difference to its way, so answers   *)
(* have no value.  Wall-clock comparisons with the start of a fetch become *)
(* the sets of what arrived since; `heard` of a fetch only observes.       *)
(* Interactive prompts, which travel beside the approvals, are left out.   *)
(***************************************************************************)
EXTENDS Naturals, FiniteSets, Sequences, SequencesExt

CONSTANTS
  Requests,         \* approval request ids
  Settled,          \* those answered before, whose notification is still there
  None,
  DeferredCapacity, \* DeferredDecisionLedger.capacity
  RareEvents,       \* the rare events that may happen in this instance
  MaxRare,          \* bound: how many of them
  MaxFetches        \* bound: GETs of the pending snapshot

ASSUME PendingAssumption ==
  /\ IsFiniteSet(Requests) /\ Settled \subseteq Requests
  /\ None \notin Requests \cup Nat
  /\ DeferredCapacity \in Nat \ {0}
  /\ MaxRare \in Nat /\ MaxFetches \in Nat

VARIABLES
  mac,      \* the dialog's requests and RemoteHost's [host, ipc]
  toAgent,  \* IPC frames to the agent
  toHost,   \* IpcEvents for the app: frames, "connected" and "gone"
  agent,    \* the process, pending store, its version, and the session
  pc, job,  \* each goroutine's place in syncPendingState, and what for
  posts,    \* snapshots on their way to the relay
  store,    \* the snapshot the relay keeps
  phone,    \* session, cards, ledgers and reconciler
  fetches,  \* GETs under way
  outbox,   \* frames handed to the phone's socket
  toMac, toIos,
  used      \* numbers handed out, and rare events so far

vars == <<mac, toAgent, toHost, agent, pc, job, posts, store, phone, fetches,
          outbox, toMac, toIos, used>>

macVars   == <<mac, toAgent, toHost>>
agentVars == <<agent, pc, job>>
relayVars == <<posts, store>>
phoneVars == <<phone, fetches, outbox>>

Goroutines == {"ipc", "relay"}

Frame(kind, session, arg) == [kind |-> kind, session |-> session, arg |-> arg]

(* Faults, and what a user seldom does.                                    *)
Rare(kind) == kind \in RareEvents /\ used.rare < MaxRare

(* The relay hands a frame to the peer's socket of that moment and keeps   *)
(* nothing for a peer that is not there.                                   *)
ToIos(f) == IF phone.open THEN Append(toIos, f) ELSE toIos
ToMac(fs) == IF agent.conn THEN toMac \o fs ELSE toMac

--------------------------------------------------------------------------------
(* The app: RemoteHost and the MCP approval dialog.                        *)

Ask(r) == [arg |-> r, spine |-> Cardinality(mac.asked)]

(* Faulty variant: a new session gets no approvals.                        *)
InitialState_NoApprovals(m) == <<>>

(* send_initial_state: every approval still kept.                          *)
InitialState(m) ==
  LET hosted == SetToSeq(m.host) IN [i \in DOMAIN hosted |-> Ask(hosted[i])]

(* IpcServer.send queues for the connected agent and drops without one.    *)
Sent(frames) == IF agent.helper = "up" THEN toAgent \o frames ELSE toAgent

(* One dialog at a time.  The host keeps nothing while it knows of no      *)
(* agent, nor for a tab that is no longer there: only the dialog is left.  *)
MacAsks(r) ==
  /\ r \notin mac.asked /\ mac.waiting = {}
  /\ \/ /\ mac.ipc
        /\ mac' = [mac EXCEPT !.asked = @ \cup {r}, !.waiting = {r},
                              !.shared = @ \cup {r}, !.host = @ \cup {r}]
        /\ toAgent' = Sent(<<[Ask(r) EXCEPT !.spine = @ + 1]>>)
        /\ UNCHANGED used
     \/ /\ \/ ~mac.ipc /\ UNCHANGED used
           \/ mac.ipc /\ Rare("tabGone") /\ used' = [used EXCEPT !.rare = @ + 1]
        /\ mac' = [mac EXCEPT !.asked = @ \cup {r}, !.waiting = {r}]
        /\ UNCHANGED toAgent
  /\ UNCHANGED <<toHost, agentVars, relayVars, phoneVars, toMac, toIos>>

(* The Mac's dialog was answered: the caller stops waiting.                *)
MacAnswers(r) ==
  /\ r \in mac.waiting /\ Rare("macAnswers")
  /\ used' = [used EXCEPT !.rare = @ + 1]
  /\ mac' = [mac EXCEPT !.waiting = @ \ {r}]
  /\ UNCHANGED <<toAgent, toHost, agentVars, relayVars, phoneVars, toMac, toIos>>

HostReadsAnswer ==
  /\ toHost # <<>> /\ Head(toHost).kind = "answer"
  /\ toHost' = Tail(toHost)
  /\ mac' = [mac EXCEPT !.waiting = @ \ {Head(toHost).arg}, !.host = @ \ {Head(toHost).arg}]
  /\ UNCHANGED <<toAgent, agentVars, relayVars, phoneVars, toMac, toIos, used>>

(* CLIENT_STATE of a new session: RemoteHost greets it.                    *)
HostReadsClientState ==
  /\ toHost # <<>> /\ Head(toHost).kind = "client"
  /\ toHost' = Tail(toHost)
  /\ toAgent' = IF mac.ipc THEN Sent(InitialState(mac)) ELSE toAgent
  /\ UNCHANGED <<mac, agentVars, relayVars, phoneVars, toMac, toIos, used>>

(* on_connected.                                                           *)
HostReadsConnected ==
  /\ toHost # <<>> /\ Head(toHost).kind = "connected"
  /\ toHost' = Tail(toHost)
  /\ mac' = [mac EXCEPT !.ipc = TRUE]
  /\ toAgent' = Sent(InitialState(mac))
  /\ UNCHANGED <<agentVars, relayVars, phoneVars, toMac, toIos, used>>

(* on_disconnected keeps the approvals.                                    *)
HostReadsGone ==
  /\ toHost # <<>> /\ Head(toHost).kind = "gone"
  /\ toHost' = Tail(toHost)
  /\ mac' = [mac EXCEPT !.ipc = FALSE]
  /\ UNCHANGED <<toAgent, agentVars, relayVars, phoneVars, toMac, toIos, used>>

--------------------------------------------------------------------------------
(* The agent.                                                              *)

NewAgent ==
  [helper |-> "up", conn |-> FALSE, session |-> 0, nonce |-> 0, ready |-> FALSE,
   epoch |-> 0, version |-> 0, spine |-> 0, pending |-> {}]

NoSnapshot == [approvals |-> {}, epoch |-> None, version |-> 0]
NoJob      == [what |-> "none", arg |-> None, snap |-> NoSnapshot]

(* resetSession and resetSessionEpochState: a new epoch, version 0.        *)
ResetEpoch(a, e) == [a EXCEPT !.session = 0, !.nonce = 0, !.ready = FALSE, !.epoch = e, !.version = 0]

RelayIdle == pc["relay"] = "idle"

AgentConnects ==
  /\ agent.helper = "up" /\ ~agent.conn /\ RelayIdle
  /\ used' = [used EXCEPT !.epochs = @ + 1]
  /\ agent' = [ResetEpoch(agent, used.epochs + 1) EXCEPT !.conn = TRUE]
  /\ toIos' = ToIos(Frame("macHello", 0, None))
  /\ UNCHANGED <<macVars, pc, job, relayVars, phoneVars, toMac>>

AgentDrops ==
  /\ agent.conn /\ RelayIdle /\ Rare("macDrop")
  /\ used' = [used EXCEPT !.rare = @ + 1, !.epochs = @ + 1]
  /\ agent' = [ResetEpoch(agent, used.epochs + 1) EXCEPT !.conn = FALSE]
  /\ toMac' = <<>>
  /\ UNCHANGED <<macVars, pc, job, relayVars, phoneVars, toIos>>

(* The process ends, with its pending state and the requests it had not    *)
(* read.  A POST of it has arrived or never will.                          *)
AgentEnds(helper) ==
  /\ used' = [used EXCEPT !.rare = @ + 1]
  /\ agent' = [NewAgent EXCEPT !.helper = helper]
  /\ pc' = [g \in Goroutines |-> "idle"]
  /\ job' = [g \in Goroutines |-> NoJob]
  /\ posts' = {}
  /\ store' \in {store} \cup {p.snap : p \in posts}
  /\ toAgent' = <<>> /\ toMac' = <<>>
  /\ UNCHANGED <<phoneVars, toIos>>

(* It ends by itself: the app reads to the end of the socket, reports it   *)
(* and starts no other.                                                    *)
AgentExits ==
  /\ agent.helper = "up" /\ Rare("agentExits")
  /\ AgentEnds("gone")
  /\ toHost' = Append(toHost, Frame("gone", 0, None))
  /\ UNCHANGED mac

(* restart_agent_if_running: the socket closes with the process, and       *)
(* another is on its way.                                                  *)
AgentRestarts ==
  /\ Rare("agentRestart")
  /\ AgentEnds("starting")
  /\ toHost' = <<>>
  /\ mac' = [mac EXCEPT !.ipc = FALSE]

(* A new process, in a new epoch, connects to the app.                     *)
AgentStarts ==
  /\ agent.helper = "starting"
  /\ used' = [used EXCEPT !.epochs = @ + 1]
  /\ agent' = [NewAgent EXCEPT !.epoch = used.epochs + 1]
  /\ toHost' = Append(toHost, Frame("connected", 0, None))
  /\ UNCHANGED <<mac, toAgent, pc, job, relayVars, phoneVars, toMac, toIos>>

AgentReads(kind) ==
  /\ agent.conn /\ RelayIdle
  /\ toMac # <<>> /\ Head(toMac).kind = kind
  /\ toMac' = Tail(toMac)
  /\ UNCHANGED <<mac, toAgent, relayVars, phoneVars>>

(* A HELLO with a new nonce retires the session in place.                  *)
AgentReadsHello ==
  /\ AgentReads("hello")
  /\ LET n == Head(toMac).arg
         retires == agent.session # 0 /\ agent.nonce # n
         a == IF retires THEN ResetEpoch(agent, used.epochs + 1) ELSE agent
         s == IF a.session = 0 THEN used.sessions + 1 ELSE a.session
     IN /\ agent' = [a EXCEPT !.session = s, !.nonce = n]
        /\ used' = [used EXCEPT !.epochs = IF retires THEN @ + 1 ELSE @,
                                !.sessions = IF a.session = 0 THEN @ + 1 ELSE @]
        /\ toIos' = ToIos(Frame("ready", s, n))
  /\ UNCHANGED <<pc, job, toHost>>

(* SESSION_READY and CLIENT_STATE, which the phone sends together.         *)
AgentReadsConfirm ==
  /\ AgentReads("confirm")
  /\ IF Head(toMac).session = agent.session
       THEN /\ agent' = [agent EXCEPT !.ready = TRUE]
            /\ toHost' = Append(toHost, Frame("client", 0, None))
       ELSE UNCHANGED <<agent, toHost>>
  /\ UNCHANGED <<pc, job, toIos, used>>

(* clearPendingApproval; the sync and the frame to the app follow.         *)
AgentReadsAnswer ==
  /\ AgentReads("answer")
  /\ IF Head(toMac).session = agent.session
       THEN /\ agent' = [agent EXCEPT !.pending = @ \ {Head(toMac).arg}]
            /\ job' = [job EXCEPT !["relay"] = [NoJob EXCEPT !.what = "answer", !.arg = Head(toMac).arg]]
            /\ pc' = [pc EXCEPT !["relay"] = "copy"]
       ELSE UNCHANGED <<agent, pc, job>>
  /\ UNCHANGED <<toHost, toIos, used>>

Larger(m, n) == IF m < n THEN n ELSE m

(* updatePendingApproval.                                                  *)
AgentReadsIPC ==
  /\ pc["ipc"] = "idle" /\ toAgent # <<>>
  /\ toAgent' = Tail(toAgent)
  /\ LET f == Head(toAgent)
     IN /\ agent' = [agent EXCEPT !.pending = @ \cup {f.arg}, !.spine = Larger(@, f.spine)]
        /\ job' = [job EXCEPT !["ipc"] = [NoJob EXCEPT !.what = "ask", !.arg = f.arg]]
  /\ pc' = [pc EXCEPT !["ipc"] = "copy"]
  /\ UNCHANGED <<mac, toHost, relayVars, phoneVars, toMac, toIos, used>>

(* syncPendingState: copied under the lock,                                *)
Copies(g) ==
  /\ pc[g] = "copy"
  /\ job' = [job EXCEPT ![g].snap.approvals = agent.pending]
  /\ pc' = [pc EXCEPT ![g] = "stamp"]
  /\ UNCHANGED <<macVars, agent, relayVars, phoneVars, toMac, toIos, used>>

(* numbered under the lock taken once more, and POSTed without it.         *)
StampsAndPosts(g) ==
  /\ pc[g] = "stamp"
  /\ LET v == Larger(agent.version + 1, agent.spine)
         s == [job[g].snap EXCEPT !.epoch = agent.epoch, !.version = v]
     IN /\ agent' = [agent EXCEPT !.version = v]
        /\ job' = [job EXCEPT ![g].snap = NoSnapshot]
        /\ posts' = posts \cup {[owner |-> g, snap |-> s, awaited |-> TRUE]}
  /\ pc' = [pc EXCEPT ![g] = "wait"]
  /\ UNCHANGED <<macVars, store, phoneVars, toMac, toIos, used>>

(* The relay stores what arrives last; the answer lets the agent go on.    *)
RelayStores(p) ==
  /\ p \in posts
  /\ posts' = posts \ {p}
  /\ store' = p.snap
  /\ pc' = IF p.awaited THEN [pc EXCEPT ![p.owner] = "finish"] ELSE pc
  /\ UNCHANGED <<macVars, agent, job, phoneVars, toMac, toIos, used>>

(* The POST fails or takes more than relayRequestTimeout: it is logged.    *)
PostFails(p) ==
  /\ p \in posts /\ p.awaited /\ Rare("postFails")
  /\ used' = [used EXCEPT !.rare = @ + 1]
  /\ \/ posts' = posts \ {p}
     \/ posts' = (posts \ {p}) \cup {[p EXCEPT !.awaited = FALSE]}
  /\ pc' = [pc EXCEPT ![p.owner] = "finish"]
  /\ UNCHANGED <<macVars, agent, job, store, phoneVars, toMac, toIos>>

(* The frame goes on: to the phone if the session is ready, or to the app. *)
Forwards(g) ==
  /\ pc[g] = "finish"
  /\ pc' = [pc EXCEPT ![g] = "idle"]
  /\ job' = [job EXCEPT ![g] = NoJob]
  /\ toIos' = IF g = "ipc" /\ agent.ready
                THEN ToIos(Frame(job[g].what, agent.session, job[g].arg))
                ELSE toIos
  /\ toHost' = IF g = "relay" THEN Append(toHost, Frame("answer", 0, job[g].arg)) ELSE toHost
  /\ UNCHANGED <<mac, toAgent, agent, relayVars, phoneVars, toMac, used>>

--------------------------------------------------------------------------------
(* The phone.                                                              *)

NewPhone ==
  [open |-> FALSE, session |-> 0, nonce |-> 0,
   cards |-> {}, queued |-> {}, sending |-> {}, deferred |-> {}, order |-> {},
   resolved |-> {}, startedAt |-> FALSE, since |-> {},
   epoch |-> None, version |-> 0, fence |-> 0]

(* ApprovalCoordinator.takeSendable: answers whose request is gone are     *)
(* forgotten.                                                              *)
Sendable(p) == IF p.session = 0 THEN {} ELSE (p.queued \ p.sending) \cap p.cards

Flushed(p) ==
  IF p.session = 0 THEN p
    ELSE [p EXCEPT !.queued = @ \ ((p.queued \ p.sending) \ p.cards), !.sending = @ \cup Sendable(p)]

AnswerFrames(p) ==
  LET rs == SetToSeq(Sendable(p)) IN [i \in DOMAIN rs |-> Frame("answer", p.session, rs[i])]

(* DeferredDecisionLedger: the answers held, and which is older than which.*)
Holding(p, held, order) ==
  [p EXCEPT !.deferred = held, !.order = order \cap (held \X held)]

(* Faulty variant: deferred answers wait for the user to come back.        *)
Drained_Later(p) == p

(* drainPendingUserDecisions: a known request gets its deferred answer.    *)
Drained(p) ==
  Holding([p EXCEPT !.queued = @ \cup (p.deferred \cap p.cards)], p.deferred \ p.cards, p.order)

(* The phone goes from p to Flushed(p), `first` and the answers are sent.  *)
PhoneBecomes(p, first) ==
  /\ phone' = Flushed(p)
  /\ outbox' = outbox \o first \o AnswerFrames(p)

(* Faulty variant: answers that were being sent stay in flight for ever.   *)
ReleaseInFlight_Forgotten(p) == p

ReleaseInFlight(p) == [p EXCEPT !.sending = {}]

Disconnected(p) == [ReleaseInFlight(p) EXCEPT !.open = FALSE, !.session = 0, !.fence = 0]

(* startConnection cancels a fetch begun while the socket was closed.      *)
PhoneOpens ==
  /\ ~phone.open
  /\ used' = [used EXCEPT !.nonces = @ + 1]
  /\ phone' = [phone EXCEPT !.open = TRUE, !.nonce = used.nonces + 1, !.fence = 0]
  /\ outbox' = <<Frame("hello", 0, used.nonces + 1)>>
  /\ UNCHANGED <<macVars, agentVars, relayVars, fetches, toMac, toIos>>

(* Any number of the frames handed to the socket got out before it closed. *)
PhoneCloses ==
  /\ phone.open
  /\ \E k \in 0..Len(outbox) : toMac' = ToMac(SubSeq(outbox, 1, k))
  /\ outbox' = <<>> /\ toIos' = <<>>
  /\ used' = [used EXCEPT !.rare = @ + 1]
  /\ UNCHANGED <<macVars, agentVars, relayVars, fetches>>

PhoneDrops ==
  /\ Rare("phoneDrop")
  /\ PhoneCloses
  /\ phone' = Disconnected(phone)

(* Disconnect in the settings gives up whatever the user still owed.       *)
UserDiscards ==
  /\ Rare("userDiscards")
  /\ PhoneCloses
  /\ phone' = NewPhone

(* scheduleHandshake repeats HELLO when nothing came of the last one.      *)
PhoneRetriesHello ==
  /\ phone.open /\ phone.session = 0 /\ outbox = <<>>
  /\ \A i \in DOMAIN toMac : toMac[i].kind # "hello"
  /\ \A i \in DOMAIN toIos : toIos[i].kind # "ready"
  /\ outbox' = <<Frame("hello", 0, phone.nonce)>>
  /\ UNCHANGED <<macVars, agentVars, relayVars, phone, fetches, toMac, toIos, used>>

(* resolveSend(success) and completeApprovalResponse.                      *)
Completed(p, r) ==
  IF r \in p.queued /\ r \in p.cards
    THEN [p EXCEPT !.sending = @ \ {r}, !.queued = @ \ {r}, !.cards = @ \ {r},
                   !.resolved = @ \cup {r}, !.since = @ \ {r}]
    ELSE [p EXCEPT !.sending = @ \ {r}, !.queued = @ \ {r}]

(* The socket took the frame: that is all `completed` means.               *)
TransportWrites ==
  /\ phone.open /\ outbox # <<>>
  /\ toMac' = ToMac(<<Head(outbox)>>)
  /\ outbox' = Tail(outbox)
  /\ IF Head(outbox).kind = "answer"
       THEN /\ phone' = Completed(phone, Head(outbox).arg)
            /\ fetches' = {[f EXCEPT !.heard = @ \ {Head(outbox).arg}] : f \in fetches}
       ELSE UNCHANGED <<phone, fetches>>
  /\ UNCHANGED <<macVars, agentVars, relayVars, toIos, used>>

(* Faulty variant: the reconciler is not told that the fetch began.        *)
BeginsFetch_NoMark(p, id) == [p EXCEPT !.fence = id, !.since = {}]

(* beginSnapshotFetch, and the fence of schedulePendingStateFetch.         *)
BeginsFetch(p, id) ==
  [p EXCEPT !.fence = id, !.startedAt = TRUE, !.since = {}]

Fetch(id) == [id |-> id, got |-> FALSE, snap |-> NoSnapshot, heard |-> {}]

(* With a fetch, while the bound allows one.                               *)
MayFetch == used.fetches < MaxFetches

Fetching(p) == IF MayFetch THEN BeginsFetch(p, used.fetches + 1) ELSE p

StartsFetch(rare) ==
  /\ fetches' = IF MayFetch THEN fetches \cup {Fetch(used.fetches + 1)} ELSE fetches
  /\ used' = [used EXCEPT !.fetches = IF MayFetch THEN @ + 1 ELSE @, !.rare = @ + rare]

(* Launch, scene activation, a push.                                       *)
PhoneFetches ==
  /\ MayFetch /\ Rare("fetch") /\ StartsFetch(1)
  /\ phone' = Fetching(phone)
  /\ UNCHANGED <<macVars, agentVars, relayVars, outbox, toMac, toIos>>

RelayReplies(f) ==
  /\ f \in fetches /\ ~f.got
  /\ fetches' = (fetches \ {f}) \cup {[f EXCEPT !.got = TRUE, !.snap = store]}
  /\ UNCHANGED <<macVars, agentVars, relayVars, phone, outbox, toMac, toIos, used>>

(* admitSnapshot: unversioned, of another epoch, or of a newer version.    *)
Admits(p, s) == s.epoch = None \/ s.epoch # p.epoch \/ s.version > p.version

(* Faulty variant: an answer in progress does not keep its request.        *)
ApplySnapshotApprovals_DropsBusy(p, s) ==
  [p EXCEPT !.cards = (s.approvals \ p.resolved) \cup {c \in p.cards : c \in p.since},
            !.startedAt = FALSE, !.since = {}]

ApplySnapshotApprovals(p, s) ==
  [p EXCEPT !.cards = (s.approvals \ p.resolved)
                        \cup {c \in p.cards : c \in p.since \/ c \in p.queued},
            !.startedAt = FALSE, !.since = {}]

(* Faulty variant: a reply is used whichever fetch it answers.             *)
IsCurrentFetch_Any(f) == TRUE

IsCurrentFetch(f) == f.id = phone.fence

TakesReply(f) == f \in fetches /\ f.got /\ fetches' = fetches \ {f}

PhoneIgnoresReply(f) ==
  /\ TakesReply(f)
  /\ ~IsCurrentFetch(f) \/ ~Admits(phone, f.snap)
  /\ phone' = IF f.id = phone.fence THEN [phone EXCEPT !.fence = 0] ELSE phone
  /\ UNCHANGED <<macVars, agentVars, relayVars, outbox, toMac, toIos, used>>

PhoneAppliesReply(f) ==
  /\ TakesReply(f)
  /\ IsCurrentFetch(f) /\ Admits(phone, f.snap)
  /\ LET s == f.snap
         p == IF s.epoch = None THEN phone
                ELSE [phone EXCEPT !.epoch = s.epoch, !.version = s.version]
         q == Drained(ApplySnapshotApprovals(p, s))
     IN PhoneBecomes([q EXCEPT !.fence = 0], <<>>)
  /\ UNCHANGED <<macVars, agentVars, relayVars, toMac, toIos, used>>

(* A local resolution is forgotten after resolutionRetention (120 s): by   *)
(* then every POST and GET of before (10 s each) has ended.                *)
ResolutionExpires(r) ==
  /\ r \in phone.resolved /\ posts = {} /\ fetches = {} /\ Rare("expires")
  /\ used' = [used EXCEPT !.rare = @ + 1]
  /\ phone' = [phone EXCEPT !.resolved = @ \ {r}]
  /\ UNCHANGED <<macVars, agentVars, relayVars, fetches, outbox, toMac, toIos>>

PhoneReads(kind) ==
  /\ phone.open
  /\ toIos # <<>> /\ Head(toIos).kind = kind
  /\ toIos' = Tail(toIos)
  /\ UNCHANGED <<macVars, agentVars, relayVars, toMac>>

(* The Mac connected anew: re-key in place.                                *)
PhoneReadsMacHello ==
  /\ PhoneReads("macHello")
  /\ IF phone.session # 0
       THEN /\ used' = [used EXCEPT !.nonces = @ + 1]
            /\ phone' = [phone EXCEPT !.session = 0, !.nonce = used.nonces + 1]
            /\ outbox' = Append(outbox, Frame("hello", 0, used.nonces + 1))
       ELSE UNCHANGED <<used, phone, outbox>>
  /\ UNCHANGED fetches

(* SESSION_READY: confirm, flush the answers, fetch the snapshot.          *)
PhoneReadsReady ==
  /\ PhoneReads("ready")
  /\ IF Head(toIos).arg = phone.nonce
       THEN /\ LET s == Head(toIos).session
                   confirm == IF phone.session = 0 THEN <<Frame("confirm", s, None)>> ELSE <<>>
               IN PhoneBecomes(Fetching([phone EXCEPT !.session = s]), confirm)
            /\ StartsFetch(0)
       ELSE UNCHANGED <<phone, outbox, fetches, used>>

(* applyWSApprovalUpsert and syncApprovals.                                *)
Upserted(p, r) ==
  [p EXCEPT !.cards = @ \cup {r}, !.resolved = @ \ {r},
            !.since = IF p.startedAt THEN @ \cup {r} ELSE @]

PhoneReadsApproval ==
  /\ PhoneReads("ask")
  /\ IF Head(toIos).session = phone.session
       THEN /\ PhoneBecomes(Drained(Upserted(phone, Head(toIos).arg)), <<>>)
            /\ fetches' = {[f EXCEPT !.heard = @ \cup {Head(toIos).arg}] : f \in fetches}
       ELSE UNCHANGED <<phone, outbox, fetches>>
  /\ UNCHANGED used

(* Allow or Deny on a card.                                                *)
UserAnswers(r) ==
  /\ r \in phone.cards \ phone.queued
  /\ PhoneBecomes([phone EXCEPT !.queued = @ \cup {r}], <<>>)
  /\ UNCHANGED <<macVars, agentVars, relayVars, fetches, toMac, toIos, used>>

(* Faulty variant: the bound is only looked at, never enforced.            *)
Recorded_NeverEvicts(p, r) ==
  Holding(p, p.deferred \cup {r}, p.order \cup (p.deferred \X {r}))

(* The oldest answer goes when there are more than the ledger may hold.    *)
Recorded(p, r) ==
  LET all    == p.deferred \cup {r}
      order  == p.order \cup (p.deferred \X {r})
      oldest == {s \in all : \A t \in all : <<t, s>> \notin order}
  IN Holding(p, IF Cardinality(all) > DeferredCapacity THEN all \ oldest ELSE all, order)

(* Allow or Deny on a notification whose request the phone does not know.  *)
UserAnswersAhead(r) ==
  /\ r \in mac.shared \ (phone.cards \cup phone.deferred) /\ "answersAhead" \in RareEvents
  /\ LET p == Recorded(phone, r)
     IN IF phone.open
          THEN phone' = Fetching(p) /\ StartsFetch(0)
          ELSE phone' = p /\ UNCHANGED <<fetches, used>>
  /\ UNCHANGED <<macVars, agentVars, relayVars, outbox, toMac, toIos>>

--------------------------------------------------------------------------------
Init ==
  /\ mac = [asked |-> Settled, waiting |-> {}, shared |-> Settled, host |-> {}, ipc |-> TRUE]
  /\ toAgent = <<>> /\ toHost = <<>>
  /\ agent = NewAgent
  /\ pc = [g \in Goroutines |-> "idle"]
  /\ job = [g \in Goroutines |-> NoJob]
  /\ posts = {}
  /\ store = NoSnapshot
  /\ phone = NewPhone
  /\ fetches = {}
  /\ outbox = <<>> /\ toMac = <<>> /\ toIos = <<>>
  /\ used = [epochs |-> 0, sessions |-> 0, nonces |-> 0, fetches |-> 0, rare |-> 0]

MacStep ==
  \/ \E r \in Requests : MacAsks(r) \/ MacAnswers(r)
  \/ HostReadsAnswer \/ HostReadsClientState \/ HostReadsConnected \/ HostReadsGone

AgentStep ==
  \/ AgentConnects \/ AgentDrops \/ AgentExits \/ AgentRestarts \/ AgentStarts
  \/ AgentReadsHello \/ AgentReadsConfirm \/ AgentReadsAnswer \/ AgentReadsIPC
  \/ \E g \in Goroutines : Copies(g) \/ StampsAndPosts(g) \/ Forwards(g)

RelayStep ==
  \/ \E p \in posts : RelayStores(p) \/ PostFails(p)
  \/ \E f \in fetches : RelayReplies(f)

PhoneStep ==
  \/ PhoneOpens \/ PhoneDrops \/ UserDiscards \/ PhoneRetriesHello \/ TransportWrites
  \/ PhoneReadsMacHello \/ PhoneReadsReady \/ PhoneReadsApproval
  \/ PhoneFetches
  \/ \E f \in fetches : PhoneIgnoresReply(f) \/ PhoneAppliesReply(f)
  \/ \E r \in Requests : UserAnswers(r) \/ UserAnswersAhead(r) \/ ResolutionExpires(r)

Next == MacStep \/ AgentStep \/ RelayStep \/ PhoneStep

Spec == Init /\ [][Next]_vars

(* Both ends keep reconnecting, sockets and goroutines make progress; what *)
(* the user, the timers and the faults do is not promised.                 *)
Fairness ==
  /\ WF_vars(HostReadsAnswer) /\ WF_vars(HostReadsClientState)
  /\ WF_vars(HostReadsConnected) /\ WF_vars(HostReadsGone)
  /\ WF_vars(AgentStarts) /\ WF_vars(AgentConnects)
  /\ WF_vars(AgentReadsHello) /\ WF_vars(AgentReadsConfirm) /\ WF_vars(AgentReadsAnswer)
  /\ WF_vars(AgentReadsIPC)
  /\ \A g \in Goroutines : WF_vars(Copies(g)) /\ WF_vars(StampsAndPosts(g)) /\ WF_vars(Forwards(g))
  /\ WF_vars(\E p \in posts : RelayStores(p))
  /\ WF_vars(PhoneOpens) /\ WF_vars(PhoneRetriesHello) /\ WF_vars(TransportWrites)
  /\ WF_vars(PhoneReadsMacHello) /\ WF_vars(PhoneReadsReady)
  /\ WF_vars(PhoneReadsApproval)

FairSpec == Spec /\ Fairness

--------------------------------------------------------------------------------
(* Types.                                                                  *)
Snapshots ==
  [approvals : SUBSET Requests, epoch : Nat \cup {None}, version : Nat]

MacType ==
  [asked : SUBSET Requests, waiting : SUBSET Requests, shared : SUBSET Requests,
   host : SUBSET Requests, ipc : BOOLEAN]

AgentType ==
  [helper : {"up", "starting", "gone"}, conn : BOOLEAN, session : Nat, nonce : Nat,
   ready : BOOLEAN, epoch : Nat,
   version : Nat, spine : Nat, pending : SUBSET Requests]

Jobs ==
  [what : {"none", "ask", "answer"}, arg : Requests \cup {None}, snap : Snapshots]

Posts == [owner : Goroutines, snap : Snapshots, awaited : BOOLEAN]

PhoneType ==
  [open : BOOLEAN, session : Nat, nonce : Nat, cards : SUBSET Requests,
   queued : SUBSET Requests, sending : SUBSET Requests, deferred : SUBSET Requests,
   order : SUBSET (Requests \X Requests), resolved : SUBSET Requests, startedAt : BOOLEAN,
   since : SUBSET Requests, epoch : Nat \cup {None}, version : Nat, fence : Nat]

Fetches == [id : Nat, got : BOOLEAN, snap : Snapshots, heard : SUBSET Requests]

Used == [epochs : Nat, sessions : Nat, nonces : Nat, fetches : 0..MaxFetches, rare : 0..MaxRare]

AskFrames == [arg : Requests, spine : Nat]

(* Frames by what their argument is: nothing, a nonce or a request.        *)
Plain(kinds)  == [kind : kinds, session : Nat, arg : {None}]
Nonced(kinds) == [kind : kinds, session : Nat, arg : Nat]
About(kinds)  == [kind : kinds, session : Nat, arg : Requests]

HostFrames == Plain({"client", "connected", "gone"}) \cup About({"answer"})
MacFrames  == Plain({"confirm"}) \cup Nonced({"hello"}) \cup About({"answer"})
IosFrames  == Plain({"macHello"}) \cup Nonced({"ready"}) \cup About({"ask"})

(* Type invariant of the app, the agent, the relay's store and the phone;  *)
(* DeferredDecisionLedger stays within its capacity.                       *)
TypeOK ==
  /\ mac \in MacType
  /\ toAgent \in Seq(AskFrames)
  /\ toHost \in Seq(HostFrames)
  /\ agent \in AgentType
  /\ pc \in [Goroutines -> {"idle", "copy", "stamp", "wait", "finish"}]
  /\ job \in [Goroutines -> Jobs]
  /\ posts \subseteq Posts
  /\ store \in Snapshots
  /\ phone \in PhoneType
  /\ Cardinality(phone.deferred) <= DeferredCapacity
  /\ fetches \subseteq Fetches
  /\ outbox \in Seq(MacFrames)
  /\ toMac \in Seq(MacFrames)
  /\ toIos \in Seq(IosFrames)
  /\ used \in Used

--------------------------------------------------------------------------------
(* Properties.                                                             *)

(* takeSendable forgets an answer whose request is not listed; no snapshot,*)
(* re-key or reconnect may take the request of an answer the user gave     *)
(* away before the answer is sent.                                         *)
QueuedAnswerKeepsCard == phone.queued \subseteq phone.cards

(* "otherwise a card whose socket closed mid-send keeps claiming a send is *)
(* in progress when nothing is on the wire": a card that says sending has  *)
(* its answer queued and a frame in the open socket.                       *)
SendingIsOnTheWire ==
  \A r \in phone.sending :
    /\ phone.open /\ r \in phone.queued
    /\ \E i \in DOMAIN outbox : outbox[i].kind = "answer" /\ outbox[i].arg = r

(* "Decisions are held here and applied as soon as the authoritative list  *)
(* arrives": an answer is never left in the ledger once its request is     *)
(* listed, over whichever channel that happened.                           *)
DeferredAreUnknown == phone.deferred \cap phone.cards = {}

(* The reply to fetch f is used in this step.                              *)
Replied(f) == \A g \in fetches' : g.id # f.id

(* "A snapshot never removes an approval that was WS-upserted at/after the *)
(* moment the fetch began" and "never re-adds an approval the user resolved*)
(* locally", whatever fetches were cancelled or overtaken in between.      *)
SnapshotMerges ==
  [][ \A f \in fetches : Replied(f) =>
        /\ f.heard \cap phone.cards \subseteq phone'.cards
        /\ (phone'.cards \ phone.cards) \cap phone.resolved = {} ]_vars

(* A request the Mac blocks on and RemoteHost keeps is settled or is on    *)
(* the phone to be answered in the end, through re-keys, drops and         *)
(* restarts and also after an answer the socket took but the Mac never got,*)
(* unless the helper ended by itself.  (A request asked while no helper was*)
(* connected is not kept: it stays with the Mac's dialog.)                 *)
WaitingIsShown ==
  \A r \in Requests :
    r \in mac.waiting \cap mac.host
      ~> (r \notin mac.waiting \/ r \in phone.cards \/ agent.helper = "gone")

--------------------------------------------------------------------------------
(* Why the properties hold: an inductive invariant in parts.               *)

(* Whoever left idle works on an APPROVAL_REQUEST (ipc) or on an answer.   *)
JobsFit ==
  \A g \in Goroutines : pc[g] # "idle" =>
    job[g].what = (IF g = "ipc" THEN "ask" ELSE "answer") /\ job[g].arg \in Requests

(* A goroutine waits for one POST at a time, and only then is it awaited.  *)
AwaitedOnce ==
  \A p \in posts : p.awaited =>
    /\ pc[p.owner] = "wait"
    /\ \A q \in posts : q.awaited /\ q.owner = p.owner => q = p

(* A session lives on an open socket.                                      *)
SessionNeedsSocket == phone.session # 0 => phone.open

(* A strict total order of the answers held.                               *)
Ordered(held, order) ==
  /\ order \subseteq held \X held
  /\ \A r, s \in held : r # s => <<r, s>> \in order \/ <<s, r>> \in order
  /\ \A r \in held : <<r, r>> \notin order
  /\ \A r, s, t \in held : <<r, s>> \in order /\ <<s, t>> \in order => <<r, t>> \in order

LedgerInOrder == Ordered(phone.deferred, phone.order)

(* Fetches have numbers of their own, and the fence is one of them or 0.   *)
FetchesNumbered ==
  /\ \A f \in fetches : 0 < f.id /\ f.id <= used.fetches
  /\ \A f, g \in fetches : f.id = g.id => f = g
  /\ phone.fence <= used.fetches

(* What was heard since the fetch behind the fence began, and not answered,*)
(* is what the reconciler remembers.                                       *)
HeardIsKept ==
  \A f \in fetches : f.id = phone.fence => phone.startedAt /\ f.heard \subseteq phone.since

(* The inductive invariant of the approvals' way there and back.           *)
PendingInv ==
  /\ TypeOK /\ QueuedAnswerKeepsCard /\ SendingIsOnTheWire /\ DeferredAreUnknown
  /\ JobsFit /\ AwaitedOnce /\ SessionNeedsSocket /\ LedgerInOrder
  /\ FetchesNumbered /\ HeardIsKept

================================================================================
