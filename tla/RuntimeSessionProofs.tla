-------------------------- MODULE RuntimeSessionProofs --------------------------
(***************************************************************************)
(* RuntimeSession for any number of callers, turns, permission requests    *)
(* and faults: a turn ends at most once, an approval that is shown is      *)
(* awaited, and no prompt or answer is typed before the agent runs.        *)
(***************************************************************************)
EXTENDS RuntimeSession, TLAPS

(* The part of the invariant that is about a session s and a journal e.    *)
Total(e, t) == e[t].completed + e[t].failed

Sound(s, e) ==
  /\ s.turn # 0 => s.turn <= s.count /\ Total(e, s.turn) = 0
  /\ \A t \in Turns : Total(e, t) <= 1 /\ (Total(e, t) = 1 => t <= s.count)
  /\ s.approval # 0 => s.state = "awaiting" \/ Terminal(s)

LEMMA SoundSession ==
  Sound(sess, ended) <=> CurrentTurnOpen /\ EachTurnEndsOnce /\ ApprovalIsAwaited
  BY DEF Sound, Total, CurrentTurnOpen, EachTurnEndsOnce, ApprovalIsAwaited

LEMMA SoundSessionNext ==
  Sound(sess', ended') <=> CurrentTurnOpen' /\ EachTurnEndsOnce' /\ ApprovalIsAwaited'
  BY DEF Sound, Total, CurrentTurnOpen, EachTurnEndsOnce, ApprovalIsAwaited, Terminal

--------------------------------------------------------------------------------
(* What the operations of a session keep.                                  *)

(* transition, with any trigger but ApprovalResolved, which must come with *)
(* no approval pending.                                                    *)
LEMMA TransitionSound ==
  ASSUME NEW s \in Sessions, NEW e, Sound(s, e), NEW trigger \in DOMAIN Target,
         trigger = "resolved" => s.approval = 0
  PROVE  /\ Transition(s, trigger) \in Sessions /\ Sound(Transition(s, trigger), e)
         /\ Transition(s, trigger).turn = s.turn /\ Transition(s, trigger).count = s.count
         /\ Transition(s, trigger).approval = s.approval
  <1>1. Target[trigger] \in {"ready", "busy", "awaiting", "stopped"}
    BY DEF Target
  <1>2. CASE ~Accepts(s.state, trigger)
    BY <1>2 DEF Transition
  <1>3. CASE Accepts(s.state, trigger)
    <2> DEFINE n == [s EXCEPT !.state = Target[trigger]]
    <2>1. n \in Sessions /\ n.state = Target[trigger] /\ n.turn = s.turn /\ n.count = s.count
          /\ n.approval = s.approval
      BY <1>1 DEF Sessions
    <2>2. s.approval # 0 => Target[trigger] = "stopped"
      <3> SUFFICES ASSUME s.approval # 0 PROVE Target[trigger] = "stopped"
        OBVIOUS
      <3>1. s.state = "awaiting" \/ s.state \in {"failed", "stopped"}
        BY DEF Sound, Terminal
      <3>2. trigger = "closed"
        BY <1>3, <3>1 DEF Accepts
      <3> QED BY <3>2 DEF Target
    <2>3. Transition(s, trigger) = n
      BY <1>3 DEF Transition
    <2> HIDE DEF n
    <2>4. Sound(n, e)
      BY <2>1, <2>2 DEF Sound, Terminal
    <2> QED BY <2>1, <2>3, <2>4
  <1> QED BY <1>2, <1>3

(* start_turn within the policy: the new turn has no end yet.              *)
LEMMA StartTurnSound ==
  ASSUME NEW s \in Sessions, NEW e \in [Turns -> Ends], Sound(s, e), CanStart(s)
  PROVE  /\ StartTurn(s) \in Sessions /\ Sound(StartTurn(s), e)
         /\ StartTurn(s).approval = 0 /\ s.count + 1 \in 0..MaxTurns
  <1> DEFINE b == Transition(s, "submitted")
             n == StartTurn(s)
  <1>1. b \in Sessions /\ b.count = s.count /\ b.approval = s.approval /\ b.state = "busy"
    BY DEF Transition, Accepts, CanStart, Target, Sessions
  <1>2. s.approval = 0
    BY DEF Sound, CanStart, Terminal
  <1>3. s.count + 1 \in 0..MaxTurns /\ s.count + 1 # 0 /\ s.count \in Nat
    BY RuntimeAssumption DEF CanStart, Sessions
  <1>4. n = [b EXCEPT !.count = s.count + 1, !.turn = s.count + 1, !.prompt = FALSE,
                      !.activity = FALSE]
    BY <1>1 DEF StartTurn
  <1> HIDE DEF b, n
  <1>5. n \in Sessions
    BY <1>1, <1>3, <1>4 DEF Sessions
  <1>6. n.turn = s.count + 1 /\ n.count = s.count + 1 /\ n.approval = 0
    BY <1>1, <1>2, <1>4 DEF Sessions
  <1>7. s.count + 1 \in Turns /\ Total(e, s.count + 1) \in Nat
    BY <1>3, RuntimeAssumption DEF Turns, Total, Ends
  <1>8. Total(e, s.count + 1) = 0
    BY <1>3, <1>7 DEF Sound
  <1>9. Sound(n, e)
    BY <1>3, <1>6, <1>8, RuntimeAssumption DEF Sound, Turns
  <1> QED BY <1>3, <1>5, <1>6, <1>9 DEF n

LEMMA StartIfIdleSound ==
  ASSUME NEW s \in Sessions, NEW e \in [Turns -> Ends], Sound(s, e)
  PROVE  StartTurnIfIdle(s) \in Sessions /\ Sound(StartTurnIfIdle(s), e)
  BY StartTurnSound DEF StartTurnIfIdle

(* What is not read by the invariant.                                      *)
LEMMA OtherFields ==
  ASSUME NEW s \in Sessions, NEW n \in Sessions, NEW e, Sound(s, e),
         n.turn = s.turn, n.count = s.count, n.approval = s.approval, n.state = s.state
  PROVE  Sound(n, e)
  BY DEF Sound, Terminal

LEMMA ActivitySound ==
  ASSUME NEW s \in Sessions, NEW e, Sound(s, e)
  PROVE  [s EXCEPT !.activity = TRUE] \in Sessions /\ Sound([s EXCEPT !.activity = TRUE], e)
  <1> DEFINE n == [s EXCEPT !.activity = TRUE]
  <1>1. n \in Sessions /\ n.turn = s.turn /\ n.count = s.count /\ n.approval = s.approval
        /\ n.state = s.state
    BY DEF Sessions
  <1> HIDE DEF n
  <1>2. Sound(n, e)
    BY <1>1, OtherFields
  <1> QED BY <1>1, <1>2 DEF n

LEMMA RequestSound ==
  ASSUME NEW s \in Sessions, NEW e, Sound(s, e), NEW ask \in 0..MaxAsks
  PROVE  RequestApproval(s, ask) \in Sessions /\ Sound(RequestApproval(s, ask), e)
  <1> DEFINE n == RequestApproval(s, ask)
  <1>1. CASE Accepts(s.state, "asked")
    <2>1. n = [[s EXCEPT !.state = "awaiting"] EXCEPT !.approval = ask]
      BY <1>1 DEF RequestApproval, Transition, Target
    <2> HIDE DEF n
    <2>2. n \in Sessions /\ n.turn = s.turn /\ n.count = s.count /\ n.state = "awaiting"
      BY <2>1 DEF Sessions
    <2>3. Sound(n, e)
      BY <2>2 DEF Sound
    <2> QED BY <2>2, <2>3 DEF n
  <1>2. CASE ~Accepts(s.state, "asked")
    <2>1. n = [s EXCEPT !.approval = 0]
      BY <1>2 DEF RequestApproval, Transition
    <2> HIDE DEF n
    <2>2. n \in Sessions /\ n.turn = s.turn /\ n.count = s.count /\ n.approval = 0
      BY <2>1, RuntimeAssumption DEF Sessions
    <2>3. Sound(n, e)
      BY <2>2 DEF Sound
    <2> QED BY <2>2, <2>3 DEF n
  <1> QED BY <1>1, <1>2

LEMMA ResolveSound ==
  ASSUME NEW s \in Sessions, NEW e, Sound(s, e), NEW ask
  PROVE  ResolveApproval(s, ask) \in Sessions /\ Sound(ResolveApproval(s, ask), e)
  <1> DEFINE n == [s EXCEPT !.approval = 0]
  <1>1. n \in Sessions /\ n.turn = s.turn /\ n.count = s.count /\ n.approval = 0
    BY RuntimeAssumption DEF Sessions
  <1>2. CASE s.approval = ask
    <2>1. ResolveApproval(s, ask) = Transition(n, "resolved")
      BY <1>2 DEF ResolveApproval
    <2> HIDE DEF n
    <2>2. Sound(n, e)
      BY <1>1 DEF Sound
    <2>3. "resolved" \in DOMAIN Target
      BY DEF Target
    <2> QED BY <1>1, <2>1, <2>2, <2>3, TransitionSound
  <1>3. CASE s.approval # ask
    BY <1>3 DEF ResolveApproval
  <1> QED BY <1>2, <1>3

(* Whoever takes the current turn journals its one end.                    *)
LEMMA TakeSound ==
  ASSUME NEW s \in Sessions, ended \in [Turns -> Ends], Sound(s, ended),
         NEW what \in {"completed", "failed"}
  PROVE  /\ Take(s) \in Sessions /\ Journalled(s.turn, what) \in [Turns -> Ends]
         /\ Sound(Take(s), Journalled(s.turn, what))
  <1> DEFINE n == Take(s)
             e == Journalled(s.turn, what)
  <1>1. n \in Sessions /\ n.turn = 0 /\ n.count = s.count /\ n.approval = s.approval
        /\ n.state = s.state
    BY RuntimeAssumption DEF Take, Sessions
  <1>2. CASE s.turn = 0
    <2>1. e = ended
      BY <1>2 DEF Journalled
    <2> HIDE DEF n, e
    <2>2. Sound(n, ended)
      BY <1>1, <1>2 DEF Sound, Terminal
    <2> QED BY <1>1, <2>1, <2>2 DEF n, e
  <1>3. CASE s.turn # 0
    <2> DEFINE k == s.turn
    <2>1. k \in Turns /\ ended[k] \in Ends /\ Total(ended, k) = 0 /\ k <= s.count
      BY <1>3, RuntimeAssumption DEF Sound, Turns, Sessions
    <2>2. ended[k].completed = 0 /\ ended[k].failed = 0
      BY <2>1 DEF Total, Ends
    <2> DEFINE x == [completed |-> ended[k].completed + (IF what = "completed" THEN 1 ELSE 0),
                     failed    |-> ended[k].failed + (IF what = "failed" THEN 1 ELSE 0)]
    <2>3. e = [ended EXCEPT ![k] = x]
      BY <1>3 DEF Journalled
    <2>4. x \in Ends /\ x.completed + x.failed = 1
      BY <2>2 DEF Ends
    <2> HIDE DEF x
    <2>5. e[k].completed + e[k].failed = 1
      BY <2>1, <2>3, <2>4
    <2>6. e \in [Turns -> Ends] /\ \A t \in Turns : t # k => e[t] = ended[t]
      BY <2>3, <2>4
    <2> HIDE DEF n, e
    <2>7. Sound(n, e)
      BY <1>1, <2>1, <2>5, <2>6 DEF Sound, Total, Terminal
    <2> QED BY <1>1, <2>6, <2>7 DEF n, e
  <1> QED BY <1>2, <1>3

--------------------------------------------------------------------------------
(* Steps.  What has to be shown of each.                                   *)

LEMMA Whole ==
  ASSUME TypeOK', Sound(sess', ended'), NobodyAhead', TypedAfterLaunch'
  PROVE  SessionInv'
  BY SoundSessionNext DEF SessionInv

LEMMA Parts ==
  ASSUME SessionInv
  PROVE  /\ sess \in Sessions /\ ended \in [Turns -> Ends] /\ Sound(sess, ended)
         /\ active \in BOOLEAN /\ closing \in 0..MaxTurns
  BY SoundSession DEF SessionInv, TypeOK

(* Once the agent runs, what was said of its start is over.                *)
LEMMA AgentRuns ==
  ASSUME agent'.mode # "starting"
  PROVE  NobodyAhead' /\ TypedAfterLaunch'
  BY DEF NobodyAhead, TypedAfterLaunch

(* A step of the main thread on the session alone.                         *)
LEMMA SessionFrame ==
  ASSUME SessionInv, UNCHANGED <<snap, send, respond, stop, tab, agent, hooks, used>>,
         sess' \in Sessions, ended' \in [Turns -> Ends], Sound(sess', ended'),
         active' \in BOOLEAN, closing' \in 0..MaxTurns,
         agent.mode = "starting" =>
           closing' = 0 /\ sess'.approval = 0 /\ sess'.state \in {"starting", "stopped"}
  PROVE  SessionInv'
  <1>1. TypeOK'
    BY DEF SessionInv, TypeOK
  <1>2. NobodyAhead' /\ TypedAfterLaunch'
    BY DEF SessionInv, NobodyAhead, TypedAfterLaunch
  <1> QED BY <1>1, <1>2, Whole

LEMMA InitSession == Init => SessionInv
  <1> SUFFICES ASSUME Init PROVE SessionInv
    OBVIOUS
  <1>1. PICK p \in Policies :
          sess = [state |-> "starting", turn |-> 0, count |-> 0, prompt |-> TRUE,
                  activity |-> FALSE, status |-> "none", approval |-> 0, policy |-> p]
    BY DEF Init
  <1>2. sess \in Sessions
    BY <1>1, RuntimeAssumption DEF Sessions
  <1>3. ended \in [Turns -> Ends] /\ \A t \in Turns : Total(ended, t) = 0
    BY DEF Init, Ends, Total
  <1>4. snap \in Snaps /\ send \in [Senders -> Sends] /\ respond \in [Responders -> Replies]
    <2>1. snap \in Snaps
      BY RuntimeAssumption DEF Init, Snaps, NoSnap, NoTime
    <2>2. send \in [Senders -> Sends]
      BY RuntimeAssumption DEF Init, Sends
    <2>3. respond \in [Responders -> Replies]
      BY RuntimeAssumption DEF Init, Replies
    <2> QED BY <2>1, <2>2, <2>3
  <1>5. tab \in Tabs /\ hooks \in Seq(HookSet)
    BY DEF Init, Tabs
  <1>6. agent \in Agents /\ used \in Usage
    BY RuntimeAssumption DEF Init, Agents, Usage, Modes
  <1>7. TypeOK
    <2>1. active \in BOOLEAN /\ stop \in BOOLEAN
      BY DEF Init
    <2>2. closing \in 0..MaxTurns
      BY RuntimeAssumption DEF Init
    <2> QED BY <1>2, <1>3, <1>4, <1>5, <1>6, <2>1, <2>2 DEF TypeOK
  <1>8. Sound(sess, ended)
    BY <1>1, <1>3 DEF Sound
  <1>9. NobodyAhead /\ TypedAfterLaunch
    BY <1>1 DEF Init, NobodyAhead, TypedAfterLaunch, NoSnap, Senders
  <1> QED BY <1>7, <1>8, <1>9, SoundSession DEF SessionInv

LEMMA FinishCompleteStep == ASSUME SessionInv, FinishComplete PROVE SessionInv'
  <1>1. /\ sess' = Transition(sess, "completed") /\ closing' = 0
        /\ UNCHANGED <<active, snap, send, respond, stop, tab, agent, hooks, ended, used>>
    BY DEF FinishComplete, callVars
  <1>2. "completed" \in DOMAIN Target
    BY DEF Target
  <1>3. sess' \in Sessions /\ Sound(sess', ended)
    BY <1>1, <1>2, Parts, TransitionSound
  <1>4. agent.mode # "starting"
    BY DEF FinishComplete, SessionInv, NobodyAhead
  <1> QED BY <1>1, <1>3, <1>4, Parts, SessionFrame, RuntimeAssumption

(* stop_session and cleanup: TabClosed and out of the active maps.         *)
LEMMA StoppedSound ==
  ASSUME SessionInv, Stopped(sess), UNCHANGED ended
  PROVE  /\ sess' \in Sessions /\ Sound(sess', ended') /\ active' \in BOOLEAN
         /\ sess'.approval = sess.approval
         /\ sess.state \in {"starting", "stopped"} => sess'.state \in {"starting", "stopped"}
  <1>1. "closed" \in DOMAIN Target
    BY DEF Target
  <1>2. sess' = Transition(sess, "closed") /\ active' = FALSE
    BY DEF Stopped
  <1>3. sess' \in Sessions /\ Sound(sess', ended) /\ sess'.approval = sess.approval
    BY <1>1, <1>2, Parts, TransitionSound
  <1>4. sess'.state \in {sess.state, "stopped"}
    BY <1>2, Parts DEF Transition, Target, Sessions
  <1> QED BY <1>2, <1>3, <1>4

LEMMA CleanupStep == ASSUME SessionInv, Cleanup PROVE SessionInv'
  <1>1. Stopped(sess) /\ UNCHANGED <<closing, ended, snap, send, respond, stop, tab, agent, hooks, used>>
    BY DEF Cleanup, callVars
  <1>2. agent.mode = "starting" =>
          closing' = 0 /\ sess'.approval = 0 /\ sess'.state \in {"starting", "stopped"}
    BY <1>1, StoppedSound DEF SessionInv, NobodyAhead
  <1> QED BY <1>1, <1>2, StoppedSound, Parts, SessionFrame

LEMMA TypedType ==
  ASSUME tab \in Tabs, NEW what \in {"prompt", "answer", "interrupt"}, NEW arg \in Nat
  PROVE  Typed(what, arg) \in Tabs
  <1>1. [what |-> what, arg |-> arg] \in Inputs
    BY DEF Inputs
  <1>2. tab.input \in Seq(Inputs)
    BY DEF Tabs
  <1>3. Append(tab.input, [what |-> what, arg |-> arg]) \in Seq(Inputs)
    BY <1>1, <1>2
  <1> QED BY <1>3 DEF Typed, Tabs

(* The first half of complete_turn, for a session as the monitor sees it.  *)
LEMMA BeginSound ==
  ASSUME NEW s \in Sessions, ended \in [Turns -> Ends], Sound(s, ended), BeginComplete(s)
  PROVE  /\ sess' \in Sessions /\ ended' \in [Turns -> Ends] /\ Sound(sess', ended')
         /\ closing' \in 0..MaxTurns
  <1>1. sess' = Take(s) /\ closing' = s.turn /\ ended' = Journalled(s.turn, "completed")
    BY DEF BeginComplete
  <1>2. s.turn \in 0..MaxTurns
    BY DEF Sessions
  <1> QED BY <1>1, <1>2, TakeSound

(* handle_claude_event.  While the agent starts there is no event.         *)
LEMMA HandleHookStep == ASSUME SessionInv, HandleHook PROVE SessionInv'
  <1> DEFINE h == Head(hooks)
  <1>1. /\ hooks # <<>> /\ closing = 0
        /\ HookIgnored \/ HookEndsSession(h) \/ HookActivity(h) \/ HookPermission(h) \/ HookResponse(h)
        /\ hooks' = Tail(hooks) /\ UNCHANGED <<snap, send, respond, stop, agent>>
    BY DEF HandleHook, MainFree, callVars
  <1>2. hooks \in Seq(HookSet) /\ tab \in Tabs
    BY DEF SessionInv, TypeOK
  <1>3. h \in HookSet /\ hooks' \in Seq(HookSet)
    BY <1>1, <1>2
  <1> HIDE DEF h
  <1>4. h.arg \in 0..MaxAsks /\ h.arg \in Nat
    BY <1>3, RuntimeAssumption DEF HookSet
  <1>5. agent'.mode # "starting"
    BY <1>1 DEF SessionInv, NobodyAhead
  <1>6. /\ sess' \in Sessions /\ ended' \in [Turns -> Ends] /\ Sound(sess', ended')
        /\ active' \in BOOLEAN /\ closing' \in 0..MaxTurns /\ tab' \in Tabs
    <2>1. CASE HookIgnored
      BY <1>2, <2>1, Parts DEF HookIgnored, sessVars
    <2>2. CASE HookEndsSession(h)
      <3>1. Stopped(sess) /\ UNCHANGED <<closing, ended, tab>>
        BY <2>2 DEF HookEndsSession
      <3> QED BY <1>2, <3>1, Parts, StoppedSound
    <2>3. CASE HookActivity(h)
      <3>1. /\ sess' = [StartTurnIfIdle(sess) EXCEPT !.activity = TRUE]
            /\ UNCHANGED <<closing, ended, active, tab>>
        BY <2>3 DEF HookActivity, NoComplete
      <3>2. StartTurnIfIdle(sess) \in Sessions /\ Sound(StartTurnIfIdle(sess), ended)
        BY Parts, StartIfIdleSound
      <3>3. sess' \in Sessions /\ Sound(sess', ended)
        BY <3>1, <3>2, ActivitySound
      <3> QED BY <1>2, <3>1, <3>3, Parts
    <2>4. CASE HookPermission(h)
      <3> DEFINE s == StartTurnIfIdle(sess)
      <3>1. s \in Sessions /\ Sound(s, ended)
        BY Parts, StartIfIdleSound
      <3>2. /\ sess' = RequestApproval(s, h.arg) \/ sess' = s
            /\ tab' = Typed("answer", h.arg) \/ tab' = tab
            /\ UNCHANGED <<closing, ended, active>>
        BY <2>4 DEF HookPermission, NoComplete
      <3> HIDE DEF s
      <3>3. sess' \in Sessions /\ Sound(sess', ended)
        BY <1>4, <3>1, <3>2, RequestSound
      <3>4. tab' \in Tabs
        BY <1>2, <1>4, <3>2, TypedType
      <3> QED BY <3>2, <3>3, <3>4, Parts
    <2>5. CASE HookResponse(h)
      <3>1. UNCHANGED <<active, tab>> /\ (BeginComplete(sess) \/ NoComplete(sess))
        BY <2>5 DEF HookResponse
      <3>2. CASE BeginComplete(sess)
        BY <1>2, <3>1, <3>2, Parts, BeginSound
      <3>3. CASE NoComplete(sess)
        BY <1>2, <3>1, <3>3, Parts DEF NoComplete
      <3> QED BY <3>1, <3>2, <3>3
    <2> QED BY <1>1, <2>1, <2>2, <2>3, <2>4, <2>5
  <1>7. used' \in Usage
    <2>1. used \in Usage
      BY DEF SessionInv, TypeOK
    <2>2. CASE UNCHANGED used
      BY <2>1, <2>2
    <2>3. CASE \E b \in BOOLEAN : used' = [used EXCEPT !.disturbed = b]
      BY <2>1, <2>3 DEF Usage
    <2>4. ASSUME HookResponse(h) PROVE \E b \in BOOLEAN : used' = [used EXCEPT !.disturbed = b]
      <3> DEFINE b == used.disturbed \/ (TurnActive(sess) /\ ~AtRest)
      <3>1. used' = [used EXCEPT !.disturbed = b] /\ b \in BOOLEAN
        BY <2>4 DEF HookResponse
      <3> HIDE DEF b
      <3> QED BY <3>1
    <2> QED
      BY <1>1, <2>2, <2>3, <2>4 DEF HookIgnored, HookEndsSession, HookActivity, HookPermission
  <1>8. TypeOK'
    BY <1>1, <1>3, <1>6, <1>7 DEF SessionInv, TypeOK
  <1> QED BY <1>5, <1>6, <1>8, AgentRuns, Whole

LEMMA RareType ==
  ASSUME SessionInv, NEW kind, Rare(kind), Counted \/ Disturbs
  PROVE  used' \in Usage
  <1>1. used.rare + 1 \in 0..MaxRare
    BY RuntimeAssumption DEF SessionInv, TypeOK, Usage, Rare
  <1>2. CASE Counted
    BY <1>1, <1>2 DEF SessionInv, TypeOK, Usage, Counted
  <1>3. CASE Disturbs
    BY <1>1, <1>3 DEF SessionInv, TypeOK, Usage, Disturbs
  <1> QED BY <1>2, <1>3

(* The readiness monitor.                                                  *)
LEMMA CapturedType ==
  ASSUME SessionInv, NEW hist \in Histories, NEW raw \in Statuses, NEW prompt \in BOOLEAN
  PROVE  /\ Captured(hist, raw, prompt) \in Snaps
         /\ agent.mode = "starting" => ~Captured(hist, raw, prompt).ready
  <1> DEFINE settled == IsSettled(hist, raw)
             rd == sess.state = "starting" /\ IsReady(hist, raw, prompt)
             rn == EffectiveStatus(hist, raw) = "running"
             w == settled /\ agent.mode # "idle"
             t == IF settled /\ hist # "none" THEN agent.seen ELSE NoTime
  <1>1. rd \in BOOLEAN /\ rn \in BOOLEAN /\ settled \in BOOLEAN /\ w \in BOOLEAN
    BY DEF IsSettled
  <1>2. agent.mode = "starting" => ~rd
    BY DEF IsReady, AgentIsLive
  <1>3. t \in NoTime..MaxTurns
    BY RuntimeAssumption DEF SessionInv, TypeOK, Agents, NoTime
  <1>4. Captured(hist, raw, prompt) =
          [on |-> TRUE, ready |-> rd, running |-> rn, settled |-> settled, wrong |-> w, seen |-> t]
    BY DEF Captured
  <1> HIDE DEF settled, rd, rn, w, t
  <1> QED BY <1>1, <1>2, <1>3, <1>4 DEF Snaps

LEMMA MonitorCapturesStep == ASSUME SessionInv, MonitorCaptures PROVE SessionInv'
  <1>1. /\ UNCHANGED <<sess, active, closing, ended, send, respond, stop, tab, agent, hooks>>
        /\ UNCHANGED used \/ (Rare("wrongStatus") /\ Counted)
    BY DEF MonitorCaptures, sessVars, callVars
  <1>2. PICK hist \in Histories, raw \in Statuses, prompt \in BOOLEAN :
          snap' = Captured(hist, raw, prompt)
    BY DEF MonitorCaptures
  <1>3. snap' \in Snaps /\ (agent.mode = "starting" => ~snap'.ready)
    BY <1>2, CapturedType
  <1>4. used' \in Usage
    BY <1>1, RareType DEF SessionInv, TypeOK
  <1>5. TypeOK'
    BY <1>1, <1>3, <1>4 DEF SessionInv, TypeOK
  <1>6. Sound(sess', ended')
    BY <1>1, Parts
  <1>7. NobodyAhead' /\ TypedAfterLaunch'
    BY <1>1, <1>3 DEF SessionInv, NobodyAhead, TypedAfterLaunch
  <1> QED BY <1>5, <1>6, <1>7, Whole

LEMMA ObservedSound ==
  ASSUME SessionInv
  PROVE  /\ Observed(sess) \in Sessions /\ Sound(Observed(sess), ended)
         /\ Observed(sess).turn = sess.turn /\ Observed(sess).state = sess.state
         /\ Observed(sess).approval = sess.approval
  <1> DEFINE a == sess.activity \/ (sess.state = "busy" /\ snap.running /\ sess.status = "other")
             t == IF snap.running THEN "running" ELSE "other"
             n == Observed(sess)
  <1>1. n = [sess EXCEPT !.status = t, !.activity = a]
    BY DEF Observed
  <1>2. a \in BOOLEAN /\ t \in {"none", "running", "other"}
    BY DEF SessionInv, TypeOK, Snaps
  <1> HIDE DEF a, t, n
  <1>3. n \in Sessions /\ n.turn = sess.turn /\ n.count = sess.count /\ n.approval = sess.approval
        /\ n.state = sess.state
    BY <1>1, <1>2, Parts DEF Sessions
  <1>4. Sound(n, ended)
    BY <1>3, Parts, OtherFields
  <1> QED BY <1>3, <1>4 DEF n

LEMMA MonitorAppliesStep == ASSUME SessionInv, MonitorApplies PROVE SessionInv'
  <1> DEFINE s == Observed(sess)
  <1>1. /\ snap.on /\ snap' = NoSnap
        /\ UNCHANGED <<active, send, respond, stop, tab, agent, hooks>>
        /\ \E b \in BOOLEAN : used' = [used EXCEPT !.disturbed = b]
    BY DEF MonitorApplies, callVars
  <1>2. \/ /\ s.state = "starting" /\ snap.ready
           /\ NoComplete(Transition(s, "ready"))
        \/ s.state = "busy" /\ BeginComplete(s)
        \/ NoComplete(s)
    BY DEF MonitorApplies
  <1>3. /\ s \in Sessions /\ Sound(s, ended) /\ s.turn = sess.turn /\ s.state = sess.state
        /\ s.approval = sess.approval
    BY ObservedSound
  <1> HIDE DEF s
  <1>4. /\ sess' \in Sessions /\ ended' \in [Turns -> Ends] /\ Sound(sess', ended')
        /\ closing' \in 0..MaxTurns
    <2>1. CASE NoComplete(Transition(s, "ready"))
      <3>1. "ready" \in DOMAIN Target
        BY DEF Target
      <3> QED BY <2>1, <3>1, <1>3, Parts, TransitionSound DEF NoComplete
    <2>2. CASE BeginComplete(s)
      BY <2>2, <1>3, Parts, BeginSound
    <2>3. CASE NoComplete(s)
      BY <2>3, <1>3, Parts DEF NoComplete
    <2> QED BY <1>2, <2>1, <2>2, <2>3
  <1>5. snap' \in Snaps /\ used' \in Usage
    <2>1. snap' \in Snaps
      BY <1>1, RuntimeAssumption DEF NoSnap, NoTime, Snaps
    <2> QED BY <1>1, <2>1 DEF SessionInv, TypeOK, Usage
  <1>6. TypeOK'
    BY <1>1, <1>4, <1>5 DEF SessionInv, TypeOK
  <1>7. NobodyAhead' /\ TypedAfterLaunch'
    <2>1. CASE agent.mode # "starting"
      BY <1>1, <2>1, AgentRuns
    <2>2. CASE agent.mode = "starting"
      <3>1. ~snap.ready /\ s.state # "busy"
        BY <1>1, <1>3, <2>2 DEF SessionInv, NobodyAhead
      <3>2. sess' = s /\ UNCHANGED closing
        BY <1>2, <3>1 DEF NoComplete
      <3>3. snap'.ready = FALSE
        BY <1>1 DEF NoSnap
      <3> QED BY <1>1, <1>3, <2>2, <3>2, <3>3 DEF SessionInv, NobodyAhead, TypedAfterLaunch
    <2> QED BY <2>1, <2>2
  <1> QED BY <1>4, <1>6, <1>7, Whole

--------------------------------------------------------------------------------
(* Callers.  A step of a sender that leaves the main thread's turn alone.  *)
LEMMA SendFrame ==
  ASSUME SessionInv, UNCHANGED <<active, closing, snap, respond, stop, agent, hooks>>,
         sess' \in Sessions, ended' \in [Turns -> Ends], Sound(sess', ended'),
         send' \in [Senders -> Sends], tab' \in Tabs, used' \in Usage,
         agent.mode = "starting" =>
           /\ UNCHANGED <<tab>> /\ sess'.approval = 0 /\ sess'.state \in {"starting", "stopped"}
           /\ \A s \in Senders : send'[s].pc \in {"idle", "wait", "done"}
  PROVE  SessionInv'
  <1>1. TypeOK'
    BY DEF SessionInv, TypeOK
  <1>2. NobodyAhead' /\ TypedAfterLaunch'
    BY DEF SessionInv, NobodyAhead, TypedAfterLaunch
  <1> QED BY <1>1, <1>2, Whole

LEMMA GoesType ==
  ASSUME SessionInv, NEW s \in Senders,
         NEW pc \in {"idle", "wait", "mark", "start", "type", "take", "fail", "done"}, Goes(s, pc)
  PROVE  /\ send' \in [Senders -> Sends] /\ send'[s].pc = pc
         /\ \A u \in Senders : u # s => send'[u] = send[u]
  BY DEF SessionInv, TypeOK, Goes, Sends

LEMMA RestType == \A s \in Senders : Rest(s) \in {"idle", "done"}
  BY DEF Rest

(* The initial prompt is forgotten or not: the invariant does not mind.    *)
LEMMA ForgottenSound ==
  ASSUME SessionInv, NEW s \in Senders
  PROVE  /\ Forgotten(s) \in Sessions /\ Sound(Forgotten(s), ended)
         /\ Forgotten(s).state = sess.state /\ Forgotten(s).approval = sess.approval
  <1>1. CASE s = "initial"
    <2> DEFINE n == [sess EXCEPT !.prompt = FALSE]
    <2>1. n \in Sessions /\ n.turn = sess.turn /\ n.count = sess.count
          /\ n.approval = sess.approval /\ n.state = sess.state
      BY Parts DEF Sessions
    <2>2. Forgotten(s) = n
      BY <1>1 DEF Forgotten
    <2> HIDE DEF n
    <2>3. Sound(n, ended)
      BY <2>1, Parts, OtherFields
    <2> QED BY <2>1, <2>2, <2>3
  <1>2. CASE s # "initial"
    BY <1>2, Parts DEF Forgotten
  <1> QED BY <1>1, <1>2

LEMMA RefusedSound ==
  ASSUME SessionInv, NEW s \in Senders, Refused(s), UNCHANGED ended
  PROVE  /\ sess' \in Sessions /\ Sound(sess', ended') /\ send' \in [Senders -> Sends]
         /\ sess'.state = sess.state /\ sess'.approval = sess.approval
         /\ send'[s].pc \in {"idle", "done"} /\ \A u \in Senders : u # s => send'[u] = send[u]
  <1>1. Goes(s, Rest(s)) /\ sess' = Forgotten(s)
    BY DEF Refused
  <1>2. send' \in [Senders -> Sends] /\ send'[s].pc \in {"idle", "done"}
        /\ \A u \in Senders : u # s => send'[u] = send[u]
    BY <1>1, GoesType, RestType
  <1> QED BY <1>1, <1>2, ForgottenSound

LEMMA ClientCallsStep ==
  ASSUME SessionInv, NEW c \in Clients, ClientCalls(c)
  PROVE  SessionInv'
  <1>1. c \in Senders
    BY DEF Senders
  <1>2. /\ \/ sess.state = "ready" /\ Goes(c, "start")
           \/ agent.mode \in {"idle", "working", "asking"} /\ Goes(c, "mark")
        /\ UNCHANGED <<sess, active, closing, ended, snap, respond, stop, tab, agent, hooks, used>>
    BY DEF ClientCalls, sessVars, IsReady, AgentIsLive
  <1>3. send' \in [Senders -> Sends]
    BY <1>1, <1>2, GoesType
  <1>4. agent.mode # "starting"
    BY <1>2 DEF SessionInv, NobodyAhead
  <1> QED BY <1>2, <1>3, <1>4, Parts, SendFrame DEF SessionInv, TypeOK

LEMMA PromptWaitsStep == ASSUME SessionInv, PromptWaits PROVE SessionInv'
  <1>1. "initial" \in Senders
    BY DEF Senders
  <1>2. UNCHANGED <<active, closing, ended, snap, respond, stop, tab, agent, hooks>>
    BY DEF PromptWaits
  <1>3. used' \in Usage
    <2>1. CASE UNCHANGED used
      BY <2>1 DEF SessionInv, TypeOK
    <2>2. CASE Rare("callerLeaves") /\ Counted
      BY <2>2, RareType
    <2> QED BY <2>1, <2>2 DEF PromptWaits
  <1>4. tab' \in Tabs /\ ended' \in [Turns -> Ends]
    BY <1>2 DEF SessionInv, TypeOK
  <1>5. CASE Goes("initial", "done") /\ UNCHANGED sess
    <2>1. send' \in [Senders -> Sends] /\ send'["initial"].pc = "done"
          /\ \A u \in Senders : u # "initial" => send'[u] = send[u]
      BY <1>1, <1>5, GoesType
    <2>2. agent.mode = "starting" =>
            /\ sess'.approval = 0 /\ sess'.state \in {"starting", "stopped"}
            /\ \A s \in Senders : send'[s].pc \in {"idle", "wait", "done"}
      BY <1>5, <2>1 DEF SessionInv, NobodyAhead
    <2> QED BY <1>2, <1>3, <1>4, <1>5, <2>1, <2>2, Parts, SendFrame
  <1>6. CASE sess.state = "ready" /\ Goes("initial", "start") /\ UNCHANGED sess
    <2>1. send' \in [Senders -> Sends]
      BY <1>1, <1>6, GoesType
    <2>2. agent.mode # "starting"
      BY <1>6 DEF SessionInv, NobodyAhead
    <2> QED BY <1>2, <1>3, <1>4, <1>6, <2>1, <2>2, Parts, SendFrame
  <1>7. CASE Refused("initial")
    <2>1. /\ sess' \in Sessions /\ Sound(sess', ended') /\ send' \in [Senders -> Sends]
          /\ sess'.state = sess.state /\ sess'.approval = sess.approval
          /\ send'["initial"].pc \in {"idle", "done"}
          /\ \A u \in Senders : u # "initial" => send'[u] = send[u]
      BY <1>1, <1>2, <1>7, RefusedSound
    <2>2. agent.mode = "starting" =>
            /\ sess'.approval = 0 /\ sess'.state \in {"starting", "stopped"}
            /\ \A s \in Senders : send'[s].pc \in {"idle", "wait", "done"}
      BY <2>1 DEF SessionInv, NobodyAhead
    <2> QED BY <1>2, <1>3, <1>4, <2>1, <2>2, SendFrame
  <1> QED BY <1>5, <1>6, <1>7 DEF PromptWaits

(* A caller past its first test: the agent runs.                           *)
LEMMA CallerAhead ==
  ASSUME SessionInv, NEW s \in Senders, send[s].pc \in {"mark", "start", "type", "take", "fail"}
  PROVE  agent.mode # "starting"
  BY DEF SessionInv, NobodyAhead

LEMMA SendNextStep ==
  ASSUME SessionInv, NEW s \in Senders, SendNext(s)
  PROVE  SessionInv'
  <1>1. agent.mode # "starting"
    BY CallerAhead DEF SendNext, SendMarks, SendStarts, SendTypes, SendFails, FailTakes,
                       FailFinishes, At
  <1>2. tab \in Tabs /\ used \in Usage /\ send \in [Senders -> Sends]
    BY DEF SessionInv, TypeOK
  <1>3. CASE SendMarks(s)
    <2>1. /\ UNCHANGED <<active, closing, ended, snap, respond, stop, tab, agent, hooks>>
          /\ UNCHANGED used \/ (Rare("callerLeaves") /\ Counted)
      BY <1>3 DEF SendMarks, Authorized, Unauthorized
    <2>3. used' \in Usage
      BY <1>2, <2>1, RareType
    <2>2. sess' \in Sessions /\ Sound(sess', ended') /\ send' \in [Senders -> Sends]
      <3>1. CASE Goes(s, "start") /\ sess' = MarkReady
        <4>1. "ready" \in DOMAIN Target
          BY DEF Target
        <4>2. Transition(sess, "ready") \in Sessions /\ Sound(Transition(sess, "ready"), ended)
          BY <4>1, Parts, TransitionSound
        <4>3. sess' \in {sess, Transition(sess, "ready")}
          BY <3>1 DEF MarkReady
        <4> QED BY <2>1, <3>1, <4>2, <4>3, Parts, GoesType
      <3>2. CASE Refused(s)
        BY <2>1, <3>2, RefusedSound
      <3> QED BY <1>3, <3>1, <3>2 DEF SendMarks
    <2> QED BY <1>1, <1>2, <2>1, <2>2, <2>3, Parts, SendFrame
  <1>4. CASE SendStarts(s)
    <2>1. /\ UNCHANGED <<active, closing, ended, snap, respond, stop, tab, agent, hooks>>
          /\ UNCHANGED used \/ (Rare("callerLeaves") /\ Counted)
      BY <1>4 DEF SendStarts, Authorized, Unauthorized
    <2>3. used' \in Usage
      BY <1>2, <2>1, RareType
    <2>2. sess' \in Sessions /\ Sound(sess', ended') /\ send' \in [Senders -> Sends]
      <3>1. CASE /\ CanStart(sess) /\ sess' = StartTurn(sess)
                 /\ send' = [send EXCEPT ![s] = [pc |-> "type", turn |-> sess.count + 1]]
        <4>1. StartTurn(sess) \in Sessions /\ Sound(StartTurn(sess), ended)
              /\ sess.count + 1 \in 0..MaxTurns
          BY <3>1, Parts, StartTurnSound
        <4>2. [pc |-> "type", turn |-> sess.count + 1] \in Sends
          BY <4>1 DEF Sends
        <4> QED BY <1>2, <2>1, <3>1, <4>1, <4>2
      <3>2. CASE Refused(s)
        BY <2>1, <3>2, RefusedSound
      <3> QED BY <1>4, <3>1, <3>2 DEF SendStarts
    <2> QED BY <1>1, <1>2, <2>1, <2>2, <2>3, Parts, SendFrame
  <1>5. [pc |-> Rest(s), turn |-> 0] \in Sends
    BY RestType, RuntimeAssumption DEF Sends
  <1>6. CASE SendTypes(s)
    <2>1. /\ tab' = Typed("prompt", send[s].turn)
          /\ send' = [send EXCEPT ![s] = [pc |-> Rest(s), turn |-> 0]]
          /\ UNCHANGED <<sess, active, closing, ended, snap, respond, stop, agent, hooks, used>>
      BY <1>6 DEF SendTypes, sessVars
    <2>2. send[s].turn \in Nat
      BY <1>2, RuntimeAssumption DEF Sends
    <2>3. tab' \in Tabs
      BY <1>2, <2>1, <2>2, TypedType
    <2>4. send' \in [Senders -> Sends]
      BY <1>2, <1>5, <2>1
    <2> QED BY <1>1, <1>2, <2>1, <2>3, <2>4, Parts, SendFrame
  <1>7. CASE SendFails(s)
    <2>1. /\ Goes(s, "take") /\ (UNCHANGED used \/ (Rare("unconfirmed") /\ Counted))
          /\ UNCHANGED <<sess, active, closing, ended, snap, respond, stop, tab, agent, hooks>>
      BY <1>7 DEF SendFails, NotDelivered, sessVars
    <2>2. send' \in [Senders -> Sends]
      BY <2>1, GoesType
    <2>3. used' \in Usage
      BY <1>2, <2>1, RareType
    <2> QED BY <1>1, <1>2, <2>1, <2>2, <2>3, Parts, SendFrame
  <1>8. CASE FailTakes(s)
    <2>1. /\ sess' = Take(sess) /\ ended' = Journalled(sess.turn, "failed") /\ Goes(s, "fail")
          /\ UNCHANGED <<active, closing, snap, respond, stop, tab, agent, hooks, used>>
      BY <1>8 DEF FailTakes
    <2>2. sess' \in Sessions /\ ended' \in [Turns -> Ends] /\ Sound(sess', ended')
      BY <2>1, Parts, TakeSound
    <2>3. send' \in [Senders -> Sends]
      BY <2>1, GoesType
    <2> QED BY <1>1, <1>2, <2>1, <2>2, <2>3, SendFrame
  <1>9. CASE FailFinishes(s)
    <2>1. /\ sess' = Transition(Forgotten(s), "completed")
          /\ send' = [send EXCEPT ![s] = [pc |-> Rest(s), turn |-> 0]]
          /\ UNCHANGED <<active, closing, ended, snap, respond, stop, tab, agent, hooks, used>>
      BY <1>9 DEF FailFinishes
    <2>2. "completed" \in DOMAIN Target
      BY DEF Target
    <2>3. sess' \in Sessions /\ Sound(sess', ended)
      BY <2>1, <2>2, ForgottenSound, TransitionSound
    <2>4. send' \in [Senders -> Sends]
      BY <1>2, <1>5, <2>1
    <2> QED BY <1>1, <1>2, <2>1, <2>3, <2>4, Parts, SendFrame
  <1> QED BY <1>3, <1>4, <1>6, <1>7, <1>8, <1>9 DEF SendNext

(* runtime_approval_respond.                                               *)
LEMMA RespondReadsStep ==
  ASSUME SessionInv, NEW r \in Responders, NEW ask \in 1..MaxAsks, RespondReads(r, ask)
  PROVE  SessionInv'
  <1>1. /\ sess.approval # 0 /\ respond' = [respond EXCEPT ![r] = [pc |-> "type", ask |-> ask]]
        /\ UNCHANGED <<sess, active, closing, ended, snap, send, stop, tab, agent, hooks, used>>
    BY DEF RespondReads, Pending, sessVars
  <1>2. [pc |-> "type", ask |-> ask] \in Replies
    BY RuntimeAssumption DEF Replies
  <1>3. TypeOK'
    BY <1>1, <1>2 DEF SessionInv, TypeOK
  <1>4. agent'.mode # "starting"
    BY <1>1 DEF SessionInv, NobodyAhead
  <1> QED BY <1>1, <1>3, <1>4, Parts, AgentRuns, Whole

LEMMA RespondNextStep ==
  ASSUME SessionInv, NEW r \in Responders, RespondNext(r)
  PROVE  SessionInv'
  <1>1. respond[r].pc # "idle" /\ respond \in [Responders -> Replies] /\ tab \in Tabs
    BY DEF RespondNext, RespondTypes, RespondResolves, SessionInv, TypeOK
  <1>2. agent.mode # "starting"
    BY <1>1 DEF SessionInv, NobodyAhead
  <1>3. respond[r].ask \in 0..MaxAsks /\ respond[r].ask \in Nat
    BY <1>1, RuntimeAssumption DEF Replies
  <1>4. CASE RespondTypes(r)
    <2>1. /\ tab' = Typed("answer", respond[r].ask) \/ tab' = tab
          /\ \E pc \in {"idle", "resolve"} : respond' = [respond EXCEPT ![r].pc = pc]
          /\ UNCHANGED used \/ (Rare("unconfirmed") /\ Counted)
          /\ UNCHANGED <<sess, active, closing, ended, snap, send, stop, agent, hooks>>
      BY <1>4 DEF RespondTypes, NotDelivered, sessVars
    <2>2. tab' \in Tabs /\ used' \in Usage
      BY <1>1, <1>3, <2>1, TypedType, RareType DEF SessionInv, TypeOK
    <2>3. respond' \in [Responders -> Replies]
      BY <1>1, <2>1 DEF Replies
    <2>4. TypeOK'
      BY <2>1, <2>2, <2>3 DEF SessionInv, TypeOK
    <2> QED BY <1>2, <2>1, <2>4, Parts, AgentRuns, Whole
  <1>5. CASE RespondResolves(r)
    <2>1. /\ sess' = ResolveApproval(sess, respond[r].ask) \/ sess' = sess
          /\ respond' = [respond EXCEPT ![r].pc = "idle"]
          /\ UNCHANGED used \/ (Rare("callerLeaves") /\ Disturbs)
          /\ UNCHANGED <<active, closing, ended, snap, send, stop, tab, agent, hooks>>
      BY <1>5 DEF RespondResolves, Authorized
    <2>2. sess' \in Sessions /\ Sound(sess', ended)
      BY <2>1, Parts, ResolveSound
    <2>3. respond' \in [Responders -> Replies] /\ used' \in Usage
      BY <1>1, <2>1, RareType DEF Replies, SessionInv, TypeOK
    <2>4. TypeOK'
      BY <2>1, <2>2, <2>3 DEF SessionInv, TypeOK
    <2> QED BY <1>2, <2>1, <2>2, <2>4, AgentRuns, Whole
  <1> QED BY <1>4, <1>5 DEF RespondNext

(* runtime_session_stop.                                                   *)
LEMMA StopInterruptsStep ==
  ASSUME SessionInv, NEW force \in BOOLEAN, StopInterrupts(force)
  PROVE  SessionInv'
  <1>1. /\ Rare("stop") /\ Disturbs /\ stop' = TRUE
        /\ tab' = Typed("interrupt", 0) \/ tab' = tab
        /\ UNCHANGED <<sess, active, closing, ended, snap, send, respond, agent, hooks>>
    BY DEF StopInterrupts, sessVars
  <1>2. tab' \in Tabs
    BY <1>1, TypedType DEF SessionInv, TypeOK
  <1>3. used' \in Usage
    BY <1>1, RareType
  <1>4. stop' \in BOOLEAN
    BY <1>1
  <1>5. TypeOK'
    BY <1>1, <1>2, <1>3, <1>4 DEF SessionInv, TypeOK
  <1>6. NobodyAhead'
    BY <1>1 DEF SessionInv, NobodyAhead
  <1>7. TypedAfterLaunch'
    <2> SUFFICES ASSUME agent.mode = "starting", NEW i \in DOMAIN tab'.input
                 PROVE  tab'.input[i].what = "interrupt"
      BY <1>1 DEF TypedAfterLaunch
    <2>1. tab.input \in Seq(Inputs) /\ [what |-> "interrupt", arg |-> 0] \in Inputs
      BY DEF SessionInv, TypeOK, Tabs, Inputs
    <2>2. \A j \in DOMAIN tab.input : tab.input[j].what = "interrupt"
      BY DEF SessionInv, TypedAfterLaunch
    <2>3. CASE tab' = tab
      BY <2>2, <2>3
    <2>4. CASE tab' = Typed("interrupt", 0)
      <3>1. tab'.input = Append(tab.input, [what |-> "interrupt", arg |-> 0])
        BY <2>4 DEF Typed, SessionInv, TypeOK, Tabs
      <3>2. CASE i \in DOMAIN tab.input
        BY <2>1, <2>2, <3>1, <3>2
      <3>3. CASE i = Len(tab.input) + 1
        BY <2>1, <3>1, <3>3
      <3> QED BY <2>1, <3>1, <3>2, <3>3
    <2> QED BY <1>1, <2>3, <2>4
  <1> QED BY <1>1, <1>5, <1>6, <1>7, Parts, Whole

LEMMA ClosedTab == [open |-> FALSE, input |-> <<>>] \in Tabs
  BY DEF Tabs

LEMMA StopAppliesStep == ASSUME SessionInv, StopApplies PROVE SessionInv'
  <1>1. /\ stop' = FALSE
        /\ Stopped(sess) \/ UNCHANGED <<sess, active>>
        /\ \/ UNCHANGED <<tab, agent>>
           \/ tab' = [open |-> FALSE, input |-> <<>>] /\ agent' = [agent EXCEPT !.mode = "off"]
        /\ UNCHANGED <<closing, ended, snap, send, respond, hooks>>
        /\ UNCHANGED used \/ (Rare("callerLeaves") /\ Counted)
    BY DEF StopApplies, Authorized, Unauthorized
  <1>2. /\ sess' \in Sessions /\ Sound(sess', ended') /\ active' \in BOOLEAN
        /\ sess'.approval = sess.approval
        /\ sess.state \in {"starting", "stopped"} => sess'.state \in {"starting", "stopped"}
    <2>1. CASE Stopped(sess)
      BY <1>1, <2>1, StoppedSound
    <2>2. CASE UNCHANGED <<sess, active>>
      BY <1>1, <2>2, Parts
    <2> QED BY <1>1, <2>1, <2>2
  <1>3. tab' \in Tabs /\ agent' \in Agents
    <2>1. CASE UNCHANGED <<tab, agent>>
      BY <2>1 DEF SessionInv, TypeOK
    <2>2. CASE tab' = [open |-> FALSE, input |-> <<>>] /\ agent' = [agent EXCEPT !.mode = "off"]
      <3>1. agent' \in Agents
        BY <2>2 DEF SessionInv, TypeOK, Agents, Modes
      <3> QED BY <2>2, <3>1, ClosedTab
    <2> QED BY <1>1, <2>1, <2>2
  <1>4. stop' \in BOOLEAN /\ used' \in Usage
    BY <1>1, RareType DEF SessionInv, TypeOK
  <1>5. TypeOK'
    BY <1>1, <1>2, <1>3, <1>4 DEF SessionInv, TypeOK
  <1>6. NobodyAhead' /\ TypedAfterLaunch'
    <2>1. CASE UNCHANGED <<tab, agent>>
      BY <1>1, <1>2, <2>1 DEF SessionInv, NobodyAhead, TypedAfterLaunch
    <2>2. CASE agent' = [agent EXCEPT !.mode = "off"]
      <3>1. agent'.mode = "off"
        BY <2>2 DEF SessionInv, TypeOK, Agents
      <3> QED BY <3>1, AgentRuns
    <2> QED BY <1>1, <2>1, <2>2
  <1> QED BY <1>2, <1>5, <1>6, Whole

--------------------------------------------------------------------------------
(* The agent and the user: the session is not touched.                     *)
LEMMA OutsideFrame ==
  ASSUME SessionInv, UNCHANGED <<sess, active, closing, ended, snap, send, respond, stop>>,
         tab' \in Tabs, agent' \in Agents, hooks' \in Seq(HookSet), used' \in Usage,
         \/ agent'.mode # "starting"
         \/ UNCHANGED <<agent, hooks>> /\ TypedAfterLaunch'
  PROVE  SessionInv'
  <1>1. TypeOK'
    BY DEF SessionInv, TypeOK
  <1>2. NobodyAhead' /\ TypedAfterLaunch'
    <2>1. CASE agent'.mode # "starting"
      BY <2>1, AgentRuns
    <2>2. CASE UNCHANGED <<agent, hooks>> /\ TypedAfterLaunch'
      BY <2>2 DEF SessionInv, NobodyAhead
    <2> QED BY <2>1, <2>2
  <1> QED BY <1>1, <1>2, Parts, Whole

LEMMA ModeType ==
  ASSUME SessionInv, NEW mode \in Modes
  PROVE  Mode(mode) \in Agents /\ Mode(mode).mode = mode
  BY DEF SessionInv, TypeOK, Mode, Agents

LEMMA PromptedType ==
  ASSUME SessionInv
  PROVE  Prompted \in Agents /\ Prompted.mode = "working"
  BY DEF SessionInv, TypeOK, Sessions, Prompted, Agents, Modes

LEMMA HookType ==
  ASSUME SessionInv, NEW what \in {"prompt", "tool", "ask", "complete", "end"},
         NEW arg \in 0..MaxAsks, Hook(what, arg)
  PROVE  hooks' \in Seq(HookSet)
  <1>1. [what |-> what, arg |-> arg] \in HookSet
    BY DEF HookSet
  <1>2. hooks \in Seq(HookSet)
    BY DEF SessionInv, TypeOK
  <1> QED BY <1>1, <1>2 DEF Hook

LEMMA AgentSteps ==
  ASSUME SessionInv,
         \/ AgentBoots \/ AgentReads \/ AgentUsesTool \/ AgentAsks \/ AgentFinishes \/ AgentExits
  PROVE  SessionInv'
  <1>1. /\ tab \in Tabs /\ agent \in Agents /\ hooks \in Seq(HookSet) /\ used \in Usage
        /\ 0 \in 0..MaxAsks /\ \A m \in {"idle", "working", "asking", "off"} : m \in Modes
    BY RuntimeAssumption DEF SessionInv, TypeOK, Modes
  <1>2. UNCHANGED <<sess, active, closing, ended, snap, send, respond, stop>>
    BY DEF AgentBoots, AgentReads, AgentUsesTool, AgentAsks, AgentFinishes, AgentExits, sessVars,
           callVars
  <1>3. CASE AgentBoots
    <2>1. agent' = Mode("idle") /\ UNCHANGED <<tab, hooks, used>>
      BY <1>3 DEF AgentBoots
    <2>2. agent' \in Agents /\ agent'.mode = "idle"
      BY <1>1, <2>1, ModeType
    <2> QED BY <1>1, <1>2, <2>1, <2>2, OutsideFrame
  <1>4. CASE AgentReads
    <2> DEFINE x == Head(tab.input)
    <2>1. tab.input # <<>> /\ tab' = [tab EXCEPT !.input = Tail(@)]
      BY <1>4 DEF AgentReads
    <2>2. tab.input \in Seq(Inputs)
      BY <1>1 DEF Tabs
    <2>3. Tail(tab.input) \in Seq(Inputs)
      BY <2>1, <2>2
    <2>4. tab' \in Tabs
      BY <1>1, <2>1, <2>3 DEF Tabs
    <2>5. agent.mode = "starting" => UNCHANGED <<agent, hooks, used>> /\ TypedAfterLaunch'
      <3> SUFFICES ASSUME agent.mode = "starting"
                   PROVE  UNCHANGED <<agent, hooks, used>> /\ TypedAfterLaunch'
        OBVIOUS
      <3>1. \A j \in DOMAIN tab.input : tab.input[j].what = "interrupt"
        BY DEF SessionInv, TypedAfterLaunch
      <3>2. 1 \in DOMAIN tab.input /\ x = tab.input[1]
        BY <2>1, <2>2
      <3>3. UNCHANGED <<agent, hooks, used>>
        BY <1>4, <3>1, <3>2 DEF AgentReads
      <3>4. tab'.input = Tail(tab.input)
        BY <1>1, <2>1 DEF Tabs
      <3>5. \A i \in DOMAIN tab'.input : i + 1 \in DOMAIN tab.input
                                       /\ tab'.input[i] = tab.input[i + 1]
        BY <2>1, <2>2, <3>4
      <3>6. TypedAfterLaunch'
        BY <3>1, <3>5 DEF TypedAfterLaunch
      <3> QED BY <3>3, <3>6
    <2>6. /\ agent' \in {agent, Mode("idle"), Mode("working"), Prompted}
          /\ UNCHANGED hooks \/ Hook("prompt", 0)
          /\ UNCHANGED used \/ \E b \in BOOLEAN : used' = [used EXCEPT !.misread = b]
      BY <1>4 DEF AgentReads
    <2>7. /\ agent' \in Agents
          /\ agent'.mode # "starting" \/ (UNCHANGED <<agent, hooks>> /\ TypedAfterLaunch')
      BY <1>1, <2>5, <2>6, ModeType, PromptedType
    <2>8. hooks' \in Seq(HookSet)
      BY <1>1, <2>6, HookType
    <2>9. used' \in Usage
      BY <1>1, <2>6 DEF Usage
    <2> QED BY <1>2, <2>4, <2>7, <2>8, <2>9, OutsideFrame
  <1>5. CASE AgentUsesTool
    <2>1. /\ agent.mode = "working" /\ agent' = [agent EXCEPT !.tool = TRUE] /\ Hook("tool", 0)
          /\ UNCHANGED <<tab, used>>
      BY <1>5 DEF AgentUsesTool
    <2>2. agent' \in Agents /\ agent'.mode = "working"
      BY <1>1, <2>1 DEF Agents
    <2>3. hooks' \in Seq(HookSet)
      BY <1>1, <2>1, HookType
    <2> QED BY <1>1, <1>2, <2>1, <2>2, <2>3, OutsideFrame
  <1>6. CASE AgentAsks
    <2>1. /\ used.asks < MaxAsks /\ agent' = [Mode("asking") EXCEPT !.ask = used.asks + 1]
          /\ Hook("ask", used.asks + 1) /\ used' = [used EXCEPT !.asks = @ + 1] /\ UNCHANGED tab
      BY <1>6 DEF AgentAsks
    <2>2. used.asks + 1 \in 0..MaxAsks
      BY <1>1, <2>1, RuntimeAssumption DEF Usage
    <2>3. Mode("asking") \in Agents /\ Mode("asking").mode = "asking"
      BY <1>1, ModeType
    <2>4. agent' \in Agents /\ agent'.mode = "asking"
      BY <2>1, <2>2, <2>3 DEF Agents
    <2>5. hooks' \in Seq(HookSet)
      BY <2>1, <2>2, HookType
    <2>6. used' \in Usage
      BY <1>1, <2>1, <2>2 DEF Usage
    <2> QED BY <1>1, <1>2, <2>1, <2>4, <2>5, <2>6, OutsideFrame
  <1>7. CASE AgentFinishes
    <2>1. /\ agent' = [Mode("idle") EXCEPT !.tool = FALSE] /\ Hook("complete", 0)
          /\ UNCHANGED <<tab, used>>
      BY <1>7 DEF AgentFinishes
    <2>2. Mode("idle") \in Agents /\ Mode("idle").mode = "idle"
      BY <1>1, ModeType
    <2>3. agent' \in Agents /\ agent'.mode = "idle"
      BY <2>1, <2>2 DEF Agents
    <2>4. hooks' \in Seq(HookSet)
      BY <1>1, <2>1, HookType
    <2> QED BY <1>1, <1>2, <2>1, <2>3, <2>4, OutsideFrame
  <1>8. CASE AgentExits
    <2>1. /\ Rare("agentExits") /\ Counted /\ agent' = Mode("off") /\ Hook("end", 0)
          /\ UNCHANGED tab
      BY <1>8 DEF AgentExits
    <2>2. agent' \in Agents /\ agent'.mode = "off"
      BY <1>1, <2>1, ModeType
    <2>3. hooks' \in Seq(HookSet) /\ used' \in Usage
      BY <1>1, <2>1, HookType, RareType
    <2> QED BY <1>1, <1>2, <2>1, <2>2, <2>3, OutsideFrame
  <1> QED BY <1>3, <1>4, <1>5, <1>6, <1>7, <1>8

LEMMA UserSteps ==
  ASSUME SessionInv, UserTypesPrompt \/ UserAnswersDialog \/ UserClosesTab
  PROVE  SessionInv'
  <1>1. /\ tab \in Tabs /\ hooks \in Seq(HookSet) /\ 0 \in 0..MaxAsks
        /\ "working" \in Modes /\ "off" \in Modes
    BY RuntimeAssumption DEF SessionInv, TypeOK, Modes
  <1>2. /\ UNCHANGED <<sess, active, closing, ended, snap, send, respond, stop>>
        /\ agent' \in {Mode("working"), Prompted, Mode("off")}
        /\ UNCHANGED hooks \/ Hook("prompt", 0)
        /\ UNCHANGED tab \/ tab' = [open |-> FALSE, input |-> <<>>]
        /\ \E kind \in {"userPrompts", "userAnswers", "tabCloses"} :
             Rare(kind) /\ (Counted \/ Disturbs)
    BY DEF UserTypesPrompt, UserAnswersDialog, UserClosesTab, sessVars, callVars
  <1>3. agent' \in Agents /\ agent'.mode # "starting"
    BY <1>1, <1>2, ModeType, PromptedType
  <1>4. hooks' \in Seq(HookSet) /\ used' \in Usage
    BY <1>1, <1>2, HookType, RareType
  <1>5. tab' \in Tabs
    BY <1>1, <1>2, ClosedTab
  <1> QED BY <1>2, <1>3, <1>4, <1>5, OutsideFrame

--------------------------------------------------------------------------------
LEMMA SessionStep == SessionInv /\ [Next]_vars => SessionInv'
  <1> SUFFICES ASSUME SessionInv, [Next]_vars PROVE SessionInv'
    OBVIOUS
  <1>1. CASE FinishComplete \/ HandleHook \/ MonitorCaptures \/ MonitorApplies \/ Cleanup
    BY <1>1, FinishCompleteStep, HandleHookStep, MonitorCapturesStep, MonitorAppliesStep, CleanupStep
  <1>2. CASE PromptWaits \/ (\E c \in Clients : ClientCalls(c)) \/ (\E s \in Senders : SendNext(s))
    BY <1>2, PromptWaitsStep, ClientCallsStep, SendNextStep
  <1>3. CASE \/ \E r \in Responders, ask \in 1..MaxAsks : RespondReads(r, ask)
             \/ \E r \in Responders : RespondNext(r)
    BY <1>3, RespondReadsStep, RespondNextStep
  <1>4. CASE StopApplies \/ \E force \in BOOLEAN : StopInterrupts(force)
    BY <1>4, StopInterruptsStep, StopAppliesStep
  <1>5. CASE \/ AgentBoots \/ AgentReads \/ AgentUsesTool \/ AgentAsks \/ AgentFinishes \/ AgentExits
             \/ UserTypesPrompt \/ UserAnswersDialog \/ UserClosesTab
    BY <1>5, AgentSteps, UserSteps
  <1>6. CASE UNCHANGED vars
    <2>1. TypeOK' /\ NobodyAhead' /\ TypedAfterLaunch'
      BY <1>6 DEF vars, SessionInv, TypeOK, NobodyAhead, TypedAfterLaunch
    <2>2. Sound(sess', ended')
      BY <1>6, Parts DEF vars
    <2> QED BY <2>1, <2>2, Whole
  <1> QED BY <1>1, <1>2, <1>3, <1>4, <1>5, <1>6 DEF Next

(* The invariant of a session holds for any number of callers, turns,      *)
(* permission requests and faults.                                         *)
THEOREM SessionAlwaysSound == Spec => []SessionInv
  <1>1. SessionInv /\ [Next]_vars => SessionInv'
    BY SessionStep
  <1> QED BY InitSession, <1>1, PTL DEF Spec

(* complete_turn on the main thread and fail_turn on a caller's never      *)
(* report the same turn: a turn has at most one end in the journal.        *)
THEOREM TurnsEndOnce == Spec => []EachTurnEndsOnce
  <1>1. SessionInv => EachTurnEndsOnce
    BY DEF SessionInv
  <1> QED BY SessionAlwaysSound, <1>1, PTL

(* An approval that the session shows is awaited, or the session is over.  *)
THEOREM ApprovalsAreAwaited == Spec => []ApprovalIsAwaited
  <1>1. SessionInv => ApprovalIsAwaited
    BY DEF SessionInv
  <1> QED BY SessionAlwaysSound, <1>1, PTL

(* No prompt and no answer is typed into the tab before the agent runs     *)
(* there, whoever calls and however the monitor's snapshot ages.           *)
THEOREM NothingTypedBeforeLaunch == Spec => []TypedAfterLaunch
  <1>1. SessionInv => TypedAfterLaunch
    BY DEF SessionInv
  <1> QED BY SessionAlwaysSound, <1>1, PTL

===============================================================================
