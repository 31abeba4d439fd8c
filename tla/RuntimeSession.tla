---------------------------- MODULE RuntimeSession ----------------------------
(***************************************************************************)
(* One agent session of the runtime: the state machine of RuntimeSession,  *)
(* the handlers that drive it on the main thread (Claude hook events, the  *)
(* readiness monitor, the clean-up timer) and the MCP calls that drive it  *)
(* from their own threads (runtime_turn_send, runtime_approval_respond,    *)
(* runtime_session_stop and the thread of the initial prompt), over one    *)
(* tab in which an interactive agent runs.                                 *)
(*                                                                         *)
(* A handler of the main thread is one step, as is each closure an MCP     *)
(* call sends there; complete_turn, which takes the session's lock twice,  *)
(* is two, because fail_turn runs on the caller's thread and may fall      *)
(* between them.  The agent is external: it reads what is typed in the tab *)
(* and writes hook events, which reach the main thread later and in order. *)
(***************************************************************************)
EXTENDS Integers, Sequences, FiniteSets

CONSTANTS
  Clients,         \* MCP callers of runtime_turn_send
  Responders,      \* MCP callers of runtime_approval_respond
  Policies,        \* what the session does with a permission request
  MaxTurns,        \* the delegation policy's max_turns
  MaxAsks,         \* permission requests of the agent
  RareEvents,      \* the rare events that may happen in this instance
  MaxRare          \* how many of them

ASSUME RuntimeAssumption ==
  /\ MaxTurns \in Nat \ {0} /\ MaxAsks \in Nat /\ MaxRare \in Nat
  /\ Policies \subseteq {"pend", "auto", "block"} /\ Policies # {}
  /\ RareEvents \subseteq {"unconfirmed", "callerLeaves", "stop", "agentExits", "tabCloses",
                           "wrongStatus", "userPrompts", "userAnswers"}
  /\ "initial" \notin Clients

Turns == 1..MaxTurns

Senders == Clients \cup {"initial"}

VARIABLES
  sess,      \* the fields of the session's Inner
  active,    \* the session is in the manager's active maps
  closing,   \* the turn complete_turn has taken and not finished, or 0
  snap,      \* the snapshot the readiness monitor has captured, or NoSnap
  send,      \* runtime_turn_send and the initial prompt, per caller
  respond,   \* runtime_approval_respond, per caller
  stop,      \* runtime_session_stop is past its Ctrl-C
  tab,       \* the tab is open, and what was typed there unread
  agent,     \* the agent in the tab (external)
  hooks,     \* hook events on their way to the main thread
  ended,     \* turn_completed and turn_failed events journalled, per turn
  used       \* bounded events so far, whether anything disturbed the order
             \* of turns, and whether a dialog read what was not meant for it

sessVars == <<sess, active, closing, ended>>
callVars == <<send, respond, stop>>
vars == <<sess, active, closing, snap, send, respond, stop, tab, agent, hooks, ended, used>>

Rare(kind) == kind \in RareEvents /\ used.rare < MaxRare

Counted == used' = [used EXCEPT !.rare = @ + 1]

(* Somebody besides the orchestrator's turns and answers uses the tab.     *)
Disturbs == used' = [used EXCEPT !.rare = @ + 1, !.disturbed = TRUE]

NoTime == -1

NoSnap == [on |-> FALSE, ready |-> FALSE, running |-> FALSE, settled |-> FALSE,
           wrong |-> FALSE, seen |-> NoTime]

--------------------------------------------------------------------------------
(* The session.                                                            *)

Terminal(s) == s.state \in {"failed", "stopped"}

(* next_state, for the triggers a Claude session meets; a pair that is not *)
(* listed is refused.                                                      *)
Accepts(state, trigger) ==
  <<state, trigger>> \in
    {<<"starting", "ready">>, <<"ready", "submitted">>, <<"busy", "completed">>,
     <<"busy", "asked">>, <<"awaiting", "resolved">>}
    \cup {"starting", "ready", "busy", "awaiting"} \X {"closed"}

Target == [ready |-> "ready", submitted |-> "busy", completed |-> "ready",
           asked |-> "awaiting", resolved |-> "busy", closed |-> "stopped"]

Transition(s, trigger) ==
  IF Accepts(s.state, trigger) THEN [s EXCEPT !.state = Target[trigger]] ELSE s

(* Faulty variant: the policy's limit is not looked at.                    *)
CanStart_NoPolicy(s) == s.state = "ready"

CanStart(s) == s.state = "ready" /\ s.count < MaxTurns

StartTurn(s) ==
  [Transition(s, "submitted") EXCEPT
     !.count = @ + 1, !.turn = s.count + 1, !.prompt = FALSE, !.activity = FALSE]

StartTurnIfIdle(s) == IF s.turn = 0 /\ CanStart(s) THEN StartTurn(s) ELSE s

TurnActive(s) == s.turn # 0 \/ s.state \in {"busy", "awaiting"}

(* request_approval: the pending approval is replaced, then the transition *)
(* is tried, and a refusal leaves none at all.                             *)
RequestApproval(s, ask) ==
  [Transition(s, "asked") EXCEPT !.approval = IF Accepts(s.state, "asked") THEN ask ELSE 0]

(* Faulty variant: the answered approval stays pending.                    *)
ResolveApproval_KeepsPending(s, ask) ==
  IF s.approval = ask THEN Transition(s, "resolved") ELSE s

ResolveApproval(s, ask) ==
  IF s.approval = ask THEN Transition([s EXCEPT !.approval = 0], "resolved") ELSE s

(* One turn_completed or turn_failed in the journal.                       *)
Journalled(t, what) ==
  IF t = 0 THEN ended
  ELSE [ended EXCEPT ![t] = [completed |-> @.completed + (IF what = "completed" THEN 1 ELSE 0),
                             failed    |-> @.failed + (IF what = "failed" THEN 1 ELSE 0)]]

(* Faulty variant: the turn is read, and forgotten only at the end.        *)
Take_ReadsOnly(s) == s

Take(s) == [s EXCEPT !.turn = 0]

(* The first half of complete_turn: the turn is taken and journalled.      *)
BeginComplete(s) ==
  /\ sess' = Take(s)
  /\ closing' = s.turn
  /\ ended' = Journalled(s.turn, "completed")

NoComplete(s) == sess' = s /\ UNCHANGED <<closing, ended>>

(* move_to_stopped, after TabClosed.                                       *)
Stopped(s) == sess' = Transition(s, "closed") /\ active' = FALSE

--------------------------------------------------------------------------------
(* The main thread.                                                        *)

MainFree == closing = 0

(* The second half of complete_turn.                                       *)
FinishComplete ==
  /\ closing # 0
  /\ sess' = Transition(sess, "completed")
  /\ closing' = 0
  /\ UNCHANGED <<active, snap, callVars, tab, agent, hooks, ended, used>>

(* handle_claude_event.  Once the session is stopped the event belongs to  *)
(* a session adopted later; when the tab now runs another provider the     *)
(* session ends.                                                           *)
HookIgnored == ~active /\ UNCHANGED <<sessVars, tab, used>>

HookEndsSession(h) ==
  /\ active /\ (h.what = "end" \/ agent.mode = "off")
  /\ Stopped(sess)
  /\ UNCHANGED <<closing, ended, tab, used>>

HookActivity(h) ==
  /\ active /\ h.what \in {"prompt", "tool"}
  /\ NoComplete([StartTurnIfIdle(sess) EXCEPT !.activity = TRUE])
  /\ UNCHANGED <<active, tab, used>>

Typed(what, arg) == [tab EXCEPT !.input = Append(@, [what |-> what, arg |-> arg])]

HookPermission(h) ==
  /\ active /\ h.what = "ask"
  /\ LET s == StartTurnIfIdle(sess)
         pends == TurnActive(s) /\ s.policy = "pend"
     IN /\ NoComplete(IF pends THEN RequestApproval(s, h.arg) ELSE s)
        /\ tab' = IF TurnActive(s) /\ s.policy # "pend" /\ tab.open
                    THEN Typed("answer", h.arg) ELSE tab
  /\ UNCHANGED <<active, used>>

(* Nothing sent to the tab is unread or unfinished.  The handler does not  *)
(* ask: an event carries no turn, so the Stop hook of a turn the monitor   *)
(* has settled closes the next one (used.disturbed records it).            *)
AtRest ==
  /\ agent.mode \in {"idle", "off"} /\ tab.input = <<>>
  /\ \A s \in Senders : send[s].turn = 0

HookResponse(h) ==
  /\ active /\ h.what = "complete"
  /\ IF TurnActive(sess) THEN BeginComplete(sess) ELSE NoComplete(sess)
  /\ used' = [used EXCEPT !.disturbed = @ \/ (TurnActive(sess) /\ ~AtRest)]
  /\ UNCHANGED <<active, tab>>

HandleHook ==
  /\ MainFree /\ hooks # <<>>
  /\ LET h == Head(hooks)
     IN \/ HookIgnored
        \/ HookEndsSession(h)
        \/ HookActivity(h)
        \/ HookPermission(h)
        \/ HookResponse(h)
  /\ hooks' = Tail(hooks)
  /\ UNCHANGED <<snap, callVars, agent>>

(* launch_snapshot.  The terminal's own status is inferred from the tab's   *)
(* output, from silence and from feedback, and may be wrong: it is any of  *)
(* these ("idle" also stands for stuck and approvalRequired).  The history *)
(* file's entry of the session, when one is found, overrides it in part    *)
(* and alone carries a time.                                               *)
Statuses  == {"idle", "done", "running", "waiting", "exited"}
Histories == {"none", "active", "idle", "closed"}

EffectiveStatus(hist, raw) ==
  CASE hist = "active" /\ raw # "waiting" -> "running"
    [] hist = "idle" /\ raw # "exited"    -> "idle"
    [] OTHER                              -> raw

AtPrompt(hist, prompt) == hist = "idle" \/ (hist # "active" /\ prompt)

(* Faulty variant: the backend's name on the command line is enough.       *)
AgentIsLive_Named == agent.mode # "off"

(* The tab's processes include the agent's own.                            *)
AgentIsLive == agent.mode \in {"idle", "working", "asking"}

IsReady(hist, raw, prompt) ==
  /\ AgentIsLive /\ ~AtPrompt(hist, prompt)
  /\ {EffectiveStatus(hist, raw), raw} # {"exited"}

IsSettled(hist, raw) == {EffectiveStatus(hist, raw), raw} \cap {"done", "waiting"} # {}

MarkReady == IF active THEN Transition(sess, "ready") ELSE sess

(* The monitor captures on the main thread, probes processes on another    *)
(* and applies what it captured back on the main thread.  A session never  *)
(* starts again, so ready is asked for while it starts.  The time of a     *)
(* settled snapshot is how many turns had been submitted when the          *)
(* history's last prompt was written, or NoTime; an entry that is read     *)
(* late has a time that is too new, which lets through what NoTime does.   *)
(* `wrong` records a settled status of an agent that is not at rest.       *)
Captured(hist, raw, prompt) ==
  LET settled == IsSettled(hist, raw)
  IN [on      |-> TRUE,
      ready   |-> sess.state = "starting" /\ IsReady(hist, raw, prompt),
      running |-> EffectiveStatus(hist, raw) = "running",
      settled |-> settled,
      wrong   |-> settled /\ agent.mode # "idle",
      seen    |-> IF settled /\ hist # "none" THEN agent.seen ELSE NoTime]

MonitorCaptures ==
  /\ MainFree /\ ~snap.on /\ active /\ tab.open
  /\ sess.state \in {"starting", "busy", "ready"}
  /\ \E hist \in Histories, raw \in Statuses, prompt \in BOOLEAN :
       snap' = Captured(hist, raw, prompt)
  /\ \/ ~snap'.wrong /\ UNCHANGED used
     \/ snap'.wrong /\ Rare("wrongStatus") /\ Counted
  /\ UNCHANGED <<sessVars, callVars, tab, agent, hooks>>

(* observe_terminal_status.                                                *)
Observed(s) ==
  [s EXCEPT !.status = IF snap.running THEN "running" ELSE "other",
            !.activity = @ \/ (s.state = "busy" /\ snap.running /\ s.status = "other")]

(* Faulty variant: a time before the turn's submission is good enough.     *)
Fresh_Any(s) == TRUE

(* A snapshot without a time is fresh; one with a time is when the history *)
(* has an entry from after the turn was submitted.                         *)
Fresh(s) == snap.seen = NoTime \/ snap.seen >= s.count

(* reconcile_settled_turn.  A turn is taken from an agent that is at it    *)
(* when the status was wrong, or true once and without a time to tell that *)
(* a turn has begun since (used.disturbed records it).                     *)
MonitorApplies ==
  /\ MainFree /\ snap.on
  /\ LET s == Observed(sess)
         settles == /\ s.state = "busy" /\ s.turn # 0 /\ s.activity
                    /\ Fresh(s) /\ snap.settled
     IN /\ CASE s.state = "starting" /\ snap.ready /\ active ->
                  NoComplete(Transition(s, "ready"))
             [] settles -> BeginComplete(s)
             [] OTHER -> NoComplete(s)
        /\ used' = [used EXCEPT !.disturbed =
             @ \/ (settles /\ ~AtRest /\ (snap.wrong \/ snap.seen = NoTime))]
  /\ snap' = NoSnap
  /\ UNCHANGED <<active, callVars, tab, agent, hooks>>

(* Faulty variant: only an idle session is cleaned up.                     *)
Cleanup_NotBusy ==
  /\ MainFree /\ active /\ sess.state = "ready" /\ ~tab.open
  /\ Stopped(sess)
  /\ UNCHANGED <<closing, ended, snap, callVars, tab, agent, hooks, used>>

(* cleanup: a session whose tab is gone.                                   *)
Cleanup ==
  /\ MainFree /\ active /\ ~Terminal(sess) /\ ~tab.open
  /\ Stopped(sess)
  /\ UNCHANGED <<closing, ended, snap, callVars, tab, agent, hooks, used>>

--------------------------------------------------------------------------------
(* runtime_turn_send, and the thread of the initial prompt.                *)

At(s, pc) == send[s].pc = pc

Goes(s, pc) == send' = [send EXCEPT ![s].pc = pc]

(* Where a call goes when it has answered: the thread of the initial       *)
(* prompt ends, and forgets the prompt when the answer was an error.       *)
Rest(s) == IF s = "initial" THEN "done" ELSE "idle"

Forgotten(s) == IF s = "initial" THEN [sess EXCEPT !.prompt = FALSE] ELSE sess

Refused(s) == Goes(s, Rest(s)) /\ sess' = Forgotten(s)

(* send_turn_with_schema up to start_turn.  Its reads of the state off the *)
(* main thread refuse what start_turn would refuse there, so a call goes   *)
(* on when they let it and the refusals are left to start_turn.  While the *)
(* session starts, the call takes a snapshot of its own and marks it ready.*)
ClientCalls(c) ==
  /\ At(c, "idle") /\ sess.count < MaxTurns
  /\ \/ sess.state = "ready" /\ Goes(c, "start")
     \/ /\ sess.state = "starting" /\ tab.open /\ Goes(c, "mark")
        /\ \E hist \in Histories, raw \in Statuses, prompt \in BOOLEAN : IsReady(hist, raw, prompt)
  /\ UNCHANGED <<sessVars, snap, respond, stop, tab, agent, hooks, used>>

(* wait_for_pending_initial_prompt_unless: the prompt is read, not taken.  *)
PromptWaits ==
  /\ At("initial", "wait")
  /\ \/ ~sess.prompt /\ Goes("initial", "done") /\ UNCHANGED <<sess, used>>
     \/ sess.prompt /\ Terminal(sess) /\ Refused("initial") /\ UNCHANGED used
     \/ sess.prompt /\ sess.state = "ready" /\ Goes("initial", "start") /\ UNCHANGED <<sess, used>>
     \/ Rare("callerLeaves") /\ Counted /\ Refused("initial")
  /\ UNCHANGED <<active, closing, ended, snap, respond, stop, tab, agent, hooks>>

(* with_authorized_tab: the closure runs on the main thread, or the tab is *)
(* gone, or the caller's connection, its grant or the MCP setting is.      *)
Authorized == tab.open /\ UNCHANGED used

Unauthorized ==
  \/ ~tab.open /\ UNCHANGED used
  \/ tab.open /\ Rare("callerLeaves") /\ Counted

SendMarks(s) ==
  /\ At(s, "mark") /\ MainFree
  /\ \/ Authorized /\ Goes(s, "start") /\ sess' = MarkReady
     \/ Unauthorized /\ Refused(s)
  /\ UNCHANGED <<active, closing, ended, snap, respond, stop, tab, agent, hooks>>

SendStarts(s) ==
  /\ At(s, "start") /\ MainFree
  /\ \/ /\ Authorized /\ CanStart(sess)
        /\ sess' = StartTurn(sess)
        /\ send' = [send EXCEPT ![s] = [pc |-> "type", turn |-> sess.count + 1]]
     \/ Authorized /\ ~CanStart(sess) /\ Refused(s)
     \/ Unauthorized /\ Refused(s)
  /\ UNCHANGED <<active, closing, ended, snap, respond, stop, tab, agent, hooks>>

SendTypes(s) ==
  /\ At(s, "type") /\ tab.open
  /\ tab' = Typed("prompt", send[s].turn)
  /\ send' = [send EXCEPT ![s] = [pc |-> Rest(s), turn |-> 0]]
  /\ UNCHANGED <<sessVars, snap, respond, stop, agent, hooks, used>>

(* delivery_error: the tab is gone, or holds the input back.               *)
NotDelivered ==
  \/ ~tab.open /\ UNCHANGED used
  \/ tab.open /\ Rare("unconfirmed") /\ Counted

SendFails(s) ==
  /\ At(s, "type") /\ NotDelivered
  /\ Goes(s, "take")
  /\ UNCHANGED <<sessVars, snap, respond, stop, tab, agent, hooks>>

(* fail_turn, on the caller's thread: whatever turn is current is taken    *)
(* and journalled, then TurnCompleted is tried.                            *)
FailTakes(s) ==
  /\ At(s, "take")
  /\ sess' = Take(sess)
  /\ ended' = Journalled(sess.turn, "failed")
  /\ Goes(s, "fail")
  /\ UNCHANGED <<active, closing, snap, respond, stop, tab, agent, hooks, used>>

FailFinishes(s) ==
  /\ At(s, "fail")
  /\ sess' = Transition(Forgotten(s), "completed")
  /\ send' = [send EXCEPT ![s] = [pc |-> Rest(s), turn |-> 0]]
  /\ UNCHANGED <<active, closing, ended, snap, respond, stop, tab, agent, hooks, used>>

--------------------------------------------------------------------------------
(* runtime_approval_respond: the approval is looked up, the key is typed,  *)
(* and only then is the approval resolved on the main thread.              *)

(* Faulty variant: the approval the caller names is not looked up.         *)
Pending_Any(ask) == ask # 0

Pending(ask) == ask # 0 /\ sess.approval = ask

RespondReads(r, ask) ==
  /\ respond[r].pc = "idle" /\ ask <= used.asks /\ Pending(ask)
  /\ respond' = [respond EXCEPT ![r] = [pc |-> "type", ask |-> ask]]
  /\ UNCHANGED <<sessVars, snap, send, stop, tab, agent, hooks, used>>

RespondTypes(r) ==
  /\ respond[r].pc = "type"
  /\ \/ /\ tab.open
        /\ tab' = Typed("answer", respond[r].ask)
        /\ respond' = [respond EXCEPT ![r].pc = "resolve"]
        /\ UNCHANGED used
     \/ /\ NotDelivered
        /\ respond' = [respond EXCEPT ![r].pc = "idle"]
        /\ UNCHANGED tab
  /\ UNCHANGED <<sessVars, snap, send, stop, agent, hooks>>

(* A caller cut off here has answered the dialog and leaves its approval   *)
(* pending.                                                                *)
RespondResolves(r) ==
  /\ respond[r].pc = "resolve" /\ MainFree
  /\ \/ Authorized /\ sess' = ResolveApproval(sess, respond[r].ask)
     \/ ~tab.open /\ UNCHANGED <<sess, used>>
     \/ tab.open /\ Rare("callerLeaves") /\ Disturbs /\ UNCHANGED sess
  /\ respond' = [respond EXCEPT ![r].pc = "idle"]
  /\ UNCHANGED <<active, closing, ended, snap, send, stop, tab, agent, hooks>>

--------------------------------------------------------------------------------
(* runtime_session_stop.                                                   *)

(* Ctrl-C goes to a session at work, and to any when the caller forces it. *)
StopInterrupts(force) ==
  /\ ~stop /\ tab.open /\ Rare("stop") /\ Disturbs
  /\ stop' = TRUE
  /\ tab' = IF force \/ sess.state \in {"busy", "awaiting"} THEN Typed("interrupt", 0) ELSE tab
  /\ UNCHANGED <<sessVars, snap, send, respond, agent, hooks>>

(* stop_session answers false when the session is not active; the tab is   *)
(* closed when the caller asked for it.                                    *)
StopApplies ==
  /\ stop /\ MainFree
  /\ stop' = FALSE
  /\ \/ /\ Authorized
        /\ IF active THEN Stopped(sess) ELSE UNCHANGED <<sess, active>>
        /\ \/ UNCHANGED <<tab, agent>>
           \/ /\ tab' = [open |-> FALSE, input |-> <<>>]
              /\ agent' = [agent EXCEPT !.mode = "off"]
     \/ Unauthorized /\ UNCHANGED <<sess, active, tab, agent>>
  /\ UNCHANGED <<closing, ended, snap, send, respond, hooks>>

--------------------------------------------------------------------------------
(* The agent and the user (external).                                      *)

Hook(what, arg) == hooks' = Append(hooks, [what |-> what, arg |-> arg])

Mode(mode) == [agent EXCEPT !.mode = mode]

(* A prompt goes to the history file when the agent takes it.              *)
Prompted == [agent EXCEPT !.mode = "working", !.seen = sess.count]

AgentBoots ==
  /\ agent.mode = "starting"
  /\ agent' = Mode("idle")
  /\ UNCHANGED <<sessVars, snap, callVars, tab, hooks, used>>

(* A line at the prompt is worked on; a key in a permission dialog answers *)
(* it, whatever it was typed for; what is typed while the agent works is   *)
(* read when it is done.                                                   *)
AgentReads ==
  /\ tab.input # <<>>
  /\ LET x == Head(tab.input)
     IN \/ /\ x.what = "interrupt"
           /\ agent' = IF agent.mode \in {"working", "asking"} THEN Mode("idle") ELSE agent
           /\ UNCHANGED <<hooks, used>>
        \/ /\ x.what # "interrupt" /\ agent.mode = "idle"
           /\ agent' = Prompted
           /\ Hook("prompt", 0)
           /\ used' = [used EXCEPT !.misread = @ \/ x.what = "answer"]
        \/ /\ x.what # "interrupt" /\ agent.mode = "asking"
           /\ agent' = Mode("working")
           /\ UNCHANGED hooks
           /\ used' = [used EXCEPT !.misread = @ \/ x.what # "answer" \/ x.arg # agent.ask]
        \/ /\ agent.mode = "off" /\ UNCHANGED <<agent, hooks, used>>
  /\ tab' = [tab EXCEPT !.input = Tail(@)]
  /\ UNCHANGED <<sessVars, snap, callVars>>

AgentUsesTool ==
  /\ agent.mode = "working" /\ ~agent.tool
  /\ agent' = [agent EXCEPT !.tool = TRUE]
  /\ Hook("tool", 0)
  /\ UNCHANGED <<sessVars, snap, callVars, tab, used>>

AgentAsks ==
  /\ agent.mode = "working" /\ used.asks < MaxAsks
  /\ agent' = [Mode("asking") EXCEPT !.ask = used.asks + 1]
  /\ Hook("ask", used.asks + 1)
  /\ used' = [used EXCEPT !.asks = @ + 1]
  /\ UNCHANGED <<sessVars, snap, callVars, tab>>

AgentFinishes ==
  /\ agent.mode = "working"
  /\ agent' = [Mode("idle") EXCEPT !.tool = FALSE]
  /\ Hook("complete", 0)
  /\ UNCHANGED <<sessVars, snap, callVars, tab, used>>

AgentExits ==
  /\ agent.mode # "off" /\ Rare("agentExits") /\ Counted
  /\ agent' = Mode("off")
  /\ Hook("end", 0)
  /\ UNCHANGED <<sessVars, snap, callVars, tab>>

UserTypesPrompt ==
  /\ agent.mode = "idle" /\ tab.open /\ Rare("userPrompts") /\ Disturbs
  /\ agent' = Prompted
  /\ Hook("prompt", 0)
  /\ UNCHANGED <<sessVars, snap, callVars, tab>>

UserAnswersDialog ==
  /\ agent.mode = "asking" /\ tab.open /\ Rare("userAnswers") /\ Disturbs
  /\ agent' = Mode("working")
  /\ UNCHANGED <<sessVars, snap, callVars, tab, hooks>>

UserClosesTab ==
  /\ tab.open /\ Rare("tabCloses") /\ Counted
  /\ tab' = [open |-> FALSE, input |-> <<>>]
  /\ agent' = Mode("off")
  /\ UNCHANGED <<sessVars, snap, callVars, hooks>>

--------------------------------------------------------------------------------
Init ==
  /\ \E p \in Policies :
       sess = [state |-> "starting", turn |-> 0, count |-> 0, prompt |-> TRUE,
               activity |-> FALSE, status |-> "none", approval |-> 0, policy |-> p]
  /\ active = TRUE /\ closing = 0 /\ snap = NoSnap
  /\ send = [s \in Senders |-> [pc |-> IF s = "initial" THEN "wait" ELSE "idle", turn |-> 0]]
  /\ respond = [r \in Responders |-> [pc |-> "idle", ask |-> 0]]
  /\ stop = FALSE
  /\ tab = [open |-> TRUE, input |-> <<>>]
  /\ agent = [mode |-> "starting", seen |-> 0, ask |-> 0, tool |-> FALSE]
  /\ hooks = <<>>
  /\ ended = [t \in Turns |-> [completed |-> 0, failed |-> 0]]
  /\ used = [asks |-> 0, rare |-> 0, misread |-> FALSE, disturbed |-> FALSE]

SendNext(s) ==
  \/ SendMarks(s) \/ SendStarts(s) \/ SendTypes(s)
  \/ SendFails(s) \/ FailTakes(s) \/ FailFinishes(s)

RespondNext(r) == RespondTypes(r) \/ RespondResolves(r)

Next ==
  \/ FinishComplete \/ HandleHook \/ MonitorCaptures \/ MonitorApplies \/ Cleanup
  \/ PromptWaits
  \/ \E c \in Clients : ClientCalls(c)
  \/ \E s \in Senders : SendNext(s)
  \/ \E r \in Responders, ask \in 1..MaxAsks : RespondReads(r, ask)
  \/ \E r \in Responders : RespondNext(r)
  \/ StopApplies \/ \E force \in BOOLEAN : StopInterrupts(force)
  \/ AgentBoots \/ AgentReads \/ AgentUsesTool \/ AgentAsks \/ AgentFinishes \/ AgentExits
  \/ UserTypesPrompt \/ UserAnswersDialog \/ UserClosesTab

Spec == Init /\ [][Next]_vars

(* The main thread serves its queue, its timers fire, a thread that runs   *)
(* goes on, and the orchestrator answers what it is asked; the agent boots,*)
(* reads what is typed and ends what it works on.                          *)
Fairness ==
  /\ WF_vars(FinishComplete) /\ WF_vars(HandleHook)
  /\ WF_vars(MonitorCaptures) /\ WF_vars(MonitorApplies) /\ WF_vars(Cleanup)
  /\ WF_vars(PromptWaits)
  /\ \A s \in Senders : WF_vars(SendNext(s))
  /\ \A r \in Responders :
       /\ WF_vars(RespondNext(r))
       /\ WF_vars(\E ask \in 1..MaxAsks : RespondReads(r, ask))
  /\ WF_vars(StopApplies)
  /\ WF_vars(AgentBoots) /\ WF_vars(AgentReads) /\ WF_vars(AgentFinishes)

FairSpec == Spec /\ Fairness

--------------------------------------------------------------------------------
Modes    == {"starting", "idle", "working", "asking", "off"}
Sessions == [state : {"starting", "ready", "busy", "awaiting", "stopped"},
             turn : 0..MaxTurns, count : 0..MaxTurns, prompt : BOOLEAN, activity : BOOLEAN,
             status : {"none", "running", "other"}, approval : 0..MaxAsks, policy : Policies]
Snaps    == [on : BOOLEAN, ready : BOOLEAN, running : BOOLEAN, settled : BOOLEAN,
             wrong : BOOLEAN, seen : NoTime..MaxTurns]
Sends    == [pc : {"idle", "wait", "mark", "start", "type", "take", "fail", "done"},
             turn : 0..MaxTurns]
Replies  == [pc : {"idle", "type", "resolve"}, ask : 0..MaxAsks]
Inputs   == [what : {"prompt", "answer", "interrupt"}, arg : Nat]
Tabs     == [open : BOOLEAN, input : Seq(Inputs)]
Agents   == [mode : Modes, seen : 0..MaxTurns, ask : 0..MaxAsks, tool : BOOLEAN]
HookSet  == [what : {"prompt", "tool", "ask", "complete", "end"}, arg : 0..MaxAsks]
Ends     == [completed : Nat, failed : Nat]
Usage    == [asks : 0..MaxAsks, rare : 0..MaxRare, misread : BOOLEAN, disturbed : BOOLEAN]

TypeOK ==
  /\ sess \in Sessions /\ active \in BOOLEAN /\ closing \in 0..MaxTurns
  /\ ended \in [Turns -> Ends]
  /\ snap \in Snaps /\ send \in [Senders -> Sends] /\ respond \in [Responders -> Replies]
  /\ stop \in BOOLEAN /\ tab \in Tabs /\ agent \in Agents /\ hooks \in Seq(HookSet)
  /\ used \in Usage

--------------------------------------------------------------------------------
(* Properties.                                                             *)

(* A turn ends at most once in the journal, completed or failed, and only  *)
(* after it was started: the hook, the monitor and fail_turn on another    *)
(* thread race for it, and whoever takes it under the lock reports it.     *)
EachTurnEndsOnce ==
  \A t \in Turns :
    /\ ended[t].completed + ended[t].failed <= 1
    /\ ended[t].completed + ended[t].failed = 1 => t <= sess.count

(* An approval the session shows can be answered: it is pending only while *)
(* the session awaits one, or for good once the session is over.           *)
ApprovalIsAwaited == sess.approval # 0 => sess.state = "awaiting" \/ Terminal(sess)

(* What makes the three inductive.  The current turn was started and has   *)
(* not ended; and while the agent starts, nobody has passed the test that  *)
(* the session is ready.                                                   *)
CurrentTurnOpen ==
  sess.turn # 0 =>
    sess.turn <= sess.count /\ ended[sess.turn].completed + ended[sess.turn].failed = 0

NobodyAhead ==
  agent.mode = "starting" =>
    /\ hooks = <<>> /\ closing = 0 /\ sess.approval = 0
    /\ sess.state \in {"starting", "stopped"}
    /\ ~snap.ready
    /\ \A s \in Senders : send[s].pc \in {"idle", "wait", "done"}
    /\ \A r \in Responders : respond[r].pc = "idle"

(* Nothing but a forced Ctrl-C is typed in the tab before the agent runs   *)
(* there, where a shell would read it: the session is ready only on a      *)
(* snapshot that shows the agent's own process, and neither a client's     *)
(* turn nor the initial prompt is started before.                          *)
TypedAfterLaunch ==
  agent.mode = "starting" => \A i \in DOMAIN tab.input : tab.input[i].what = "interrupt"

(* The inductive invariant of a session and its callers.                   *)
SessionInv ==
  /\ TypeOK /\ CurrentTurnOpen /\ NobodyAhead
  /\ EachTurnEndsOnce /\ ApprovalIsAwaited /\ TypedAfterLaunch

(* A turn that is current is over when nobody is closing or failing it any *)
(* more, and the session takes the next: a session at rest without a turn  *)
(* is neither busy nor awaiting an approval ("journals `turn_completed` ...*)
(* then moves back to `ready`").                                           *)
IdleWithoutTurn ==
  sess.turn = 0 /\ MainFree /\ (\A s \in Senders : ~At(s, "fail")) =>
    sess.state \notin {"busy", "awaiting"}

(* With one orchestrator to answer, the key typed for an approval is read  *)
(* by the dialog that asked for it and no prompt is read by a dialog, until*)
(* the user types in the tab, the session is stopped, a turn the agent is  *)
(* still at is closed by a late Stop hook or by the monitor (on a terminal *)
(* status that is wrong, or on one without a history time), or a caller is *)
(* cut off between its key and the resolution: the approval is looked up   *)
(* before its key is typed, a turn is only started when the session is     *)
(* ready, and a true status from before the turn does not end it when its  *)
(* time is known.                                                          *)
KeyAnswersItsDialog == used.misread => used.disturbed

(* What makes it inductive.  Nothing but turns and answers has gone into   *)
(* the tab so far, and the agent still reads there.                        *)
Undisturbed == ~used.disturbed /\ agent.mode # "off"

CallsHoldTurns ==
  \A s \in Senders : send[s].turn # 0 <=> send[s].pc \in {"type", "take", "fail"}

CountsBounded ==
  agent.seen <= sess.count /\ snap.seen <= sess.count /\ agent.ask <= used.asks

SessionOpen ==
  /\ tab.open /\ ~stop /\ sess.state # "stopped"
  /\ \A i \in DOMAIN hooks : hooks[i].what # "end"

(* A session that may start a turn, or is about to, has none in the tab; a *)
(* snapshot that would let the monitor end the turn was taken after it.    *)
RestsWhenReady ==
  \/ AtRest \/ agent.mode = "starting"
  \/ /\ sess.state \in {"busy", "awaiting"} /\ closing = 0
     /\ snap.settled => snap.wrong \/ snap.seen < sess.count

(* One prompt at a time is on its way to an idle agent.                    *)
OneDelivery ==
  \A s \in Senders : send[s].turn # 0 =>
    /\ agent.mode = "idle" /\ tab.input = <<>> /\ agent.seen < sess.count
    /\ sess.state = "busy"
    /\ \A q \in Senders : send[q].turn # 0 => q = s

InputFits ==
  tab.input # <<>> =>
    /\ Len(tab.input) = 1 /\ \A s \in Senders : send[s].turn = 0
    /\ \/ /\ tab.input[1].what = "prompt"
          /\ agent.mode = "idle" /\ agent.seen < sess.count
       \/ /\ tab.input[1].what = "answer" /\ tab.input[1].arg = agent.ask
          /\ agent.mode = "asking"

(* The open question is where its one answer comes from: its event, the    *)
(* approval, or a caller who has read the approval and not typed yet.      *)
Unanswered(ask) == agent.mode = "asking" /\ agent.ask = ask /\ tab.input = <<>>

AskIsOpen ==
  \A i \in DOMAIN hooks : hooks[i].what = "ask" =>
    /\ i = Len(hooks) /\ Unanswered(hooks[i].arg) /\ sess.approval \notin {agent.ask} \ {0}
    /\ \A r \in Responders : respond[r].pc # "type"

ReplyIsOpen ==
  \A r \in Responders :
    /\ respond[r].pc = "type" => Unanswered(respond[r].ask)
    /\ respond[r].pc # "idle" =>
         sess.state = "awaiting" /\ sess.approval \in {0, respond[r].ask}

ApprovalIsOpen ==
  /\ sess.approval <= used.asks
  /\ sess.approval # 0 /\ (\A r \in Responders : respond[r].pc = "idle") =>
       Unanswered(sess.approval)

(* The inductive invariant of what is typed into the tab.                  *)
DialogInv ==
  /\ KeyAnswersItsDialog /\ CallsHoldTurns /\ CountsBounded
  /\ Undisturbed =>
       /\ SessionOpen /\ RestsWhenReady /\ OneDelivery /\ InputFits
       /\ AskIsOpen /\ ReplyIsOpen /\ ApprovalIsOpen

(* A started turn ends, or the session does, however the hook events, the  *)
(* monitor and a failed delivery are interleaved; a session whose requests *)
(* wait for an answer may stop short of it once one was made.              *)
TurnSettles ==
  \A t \in Turns :
    sess.turn = t ~> \/ ended[t].completed + ended[t].failed > 0
                     \/ Terminal(sess)
                     \/ sess.policy = "pend" /\ used.asks > 0

===============================================================================
