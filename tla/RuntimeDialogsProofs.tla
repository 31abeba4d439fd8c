------------------------- MODULE RuntimeDialogsProofs -------------------------
(***************************************************************************)
(* RuntimeSession, for any number of clients, turns, requests and faults   *)
(* and one orchestrator that answers: a key typed for an approval is read  *)
(* by the dialog it was meant for, and no prompt by a dialog.              *)
(***************************************************************************)
EXTENDS RuntimeSessionProofs, SequenceTheorems

(* At most one call of runtime_approval_respond is under way.              *)
OneResponder == \A r, q \in Responders : r = q

(* The part of DialogInv that holds while nobody else uses the tab.        *)
Order ==
  /\ SessionOpen /\ RestsWhenReady /\ OneDelivery /\ InputFits
  /\ AskIsOpen /\ ReplyIsOpen /\ ApprovalIsOpen

LEMMA DialogParts ==
  DialogInv <=> /\ KeyAnswersItsDialog /\ CallsHoldTurns /\ CountsBounded
                /\ (Undisturbed => Order)
  BY DEF DialogInv, Order

LEMMA DialogPartsNext ==
  DialogInv' <=> /\ KeyAnswersItsDialog' /\ CallsHoldTurns' /\ CountsBounded'
                 /\ (Undisturbed' => Order')
  BY DEF DialogInv, Order

--------------------------------------------------------------------------------
(* What the operations do to the fields the invariant reads.               *)

LEMMA CompletedFields ==
  ASSUME NEW s \in Sessions
  PROVE  LET n == Transition(s, "completed")
         IN /\ n.state = IF s.state = "busy" THEN "ready" ELSE s.state
            /\ n.turn = s.turn /\ n.count = s.count /\ n.approval = s.approval
  BY DEF Transition, Accepts, Target, Sessions

LEMMA ReadyFields ==
  ASSUME NEW s \in Sessions
  PROVE  LET n == Transition(s, "ready")
         IN /\ n.state = IF s.state = "starting" THEN "ready" ELSE s.state
            /\ n.turn = s.turn /\ n.count = s.count /\ n.approval = s.approval
  BY DEF Transition, Accepts, Target, Sessions

LEMMA ClosedFields ==
  ASSUME NEW s \in Sessions
  PROVE  LET n == Transition(s, "closed")
         IN n.turn = s.turn /\ n.count = s.count /\ n.approval = s.approval
  BY DEF Transition, Accepts, Target, Sessions

LEMMA StartFields ==
  ASSUME NEW s \in Sessions, CanStart(s)
  PROVE  LET n == StartTurn(s)
         IN n.state = "busy" /\ n.count = s.count + 1 /\ n.approval = s.approval
  <1> DEFINE b == Transition(s, "submitted")
  <1>1. b \in Sessions /\ b.state = "busy" /\ b.count = s.count /\ b.approval = s.approval
    BY DEF Transition, Accepts, CanStart, Target, Sessions
  <1>2. PICK k : k = s.count + 1
    OBVIOUS
  <1>3. StartTurn(s) = [b EXCEPT !.count = k, !.turn = k, !.prompt = FALSE, !.activity = FALSE]
    BY <1>1, <1>2 DEF StartTurn
  <1> HIDE DEF b
  <1> QED BY <1>1, <1>2, <1>3 DEF Sessions

LEMMA StartIfIdleFields ==
  ASSUME NEW s \in Sessions
  PROVE  LET n == StartTurnIfIdle(s)
         IN \/ n = s
            \/ /\ s.state = "ready" /\ n.state = "busy" /\ n.count = s.count + 1
               /\ n.approval = s.approval
  BY StartFields DEF StartTurnIfIdle, CanStart

LEMMA RequestFields ==
  ASSUME NEW s \in Sessions, NEW ask
  PROVE  LET n == RequestApproval(s, ask)
         IN /\ n.state = IF s.state = "busy" THEN "awaiting" ELSE s.state
            /\ n.approval = IF s.state = "busy" THEN ask ELSE 0
            /\ n.turn = s.turn /\ n.count = s.count
  <1>1. Accepts(s.state, "asked") <=> s.state = "busy"
    BY DEF Accepts
  <1> QED BY <1>1 DEF RequestApproval, Transition, Target, Sessions

LEMMA ResolveFields ==
  ASSUME NEW s \in Sessions, NEW ask
  PROVE  LET n == ResolveApproval(s, ask)
         IN /\ n.state = IF s.approval = ask /\ s.state = "awaiting" THEN "busy" ELSE s.state
            /\ n.approval = IF s.approval = ask THEN 0 ELSE s.approval
            /\ n.turn = s.turn /\ n.count = s.count
  <1>1. Accepts(s.state, "resolved") <=> s.state = "awaiting"
    BY DEF Accepts
  <1> QED BY <1>1 DEF ResolveApproval, Transition, Target, Sessions

LEMMA TakeFields ==
  ASSUME NEW s \in Sessions
  PROVE  LET n == Take(s)
         IN n.state = s.state /\ n.count = s.count /\ n.approval = s.approval /\ n.turn = 0
  BY DEF Take, Sessions

LEMMA ObservedFields ==
  ASSUME NEW s \in Sessions
  PROVE  LET n == Observed(s)
         IN /\ n.state = s.state /\ n.count = s.count /\ n.approval = s.approval
            /\ n.turn = s.turn
  BY DEF Observed, Sessions

LEMMA ForgottenFields ==
  ASSUME sess \in Sessions, NEW s
  PROVE  LET n == Forgotten(s)
         IN /\ n.state = sess.state /\ n.count = sess.count /\ n.approval = sess.approval
            /\ n.turn = sess.turn
  BY DEF Forgotten, Sessions

(* The events left when the first is handled.                              *)
LEMMA HooksTail ==
  ASSUME hooks \in Seq(HookSet), hooks # <<>>
  PROVE  /\ Len(Tail(hooks)) = Len(hooks) - 1
         /\ \A i \in DOMAIN Tail(hooks) :
              i + 1 \in DOMAIN hooks /\ Tail(hooks)[i] = hooks[i + 1]
         /\ 1 \in DOMAIN hooks /\ Head(hooks) = hooks[1]
  OBVIOUS

--------------------------------------------------------------------------------
(* A step that leaves the tab, the agent and the replies alone, and what   *)
(* it has to show of the session.                                          *)
LEMMA Frame ==
  ASSUME SessionInv, SessionInv', DialogInv,
         UNCHANGED <<respond, stop, tab, agent>>,
         \A s \in Senders : send'[s].turn = send[s].turn, CallsHoldTurns',
         hooks' = hooks \/ (hooks # <<>> /\ hooks' = Tail(hooks)),
         snap' = snap \/ snap' = NoSnap,
         used'.misread = used.misread, used'.asks = used.asks,
         used.disturbed => used'.disturbed,
         sess'.count >= sess.count, sess'.approval = sess.approval,
         Undisturbed' =>
           /\ sess'.state # "stopped"
           /\ \/ AtRest \/ agent.mode = "starting"
              \/ sess'.state \in {"busy", "awaiting"} /\ closing' = 0
           /\ \A s \in Senders : send[s].turn # 0 => sess'.state = "busy"
           /\ \A r \in Responders : respond[r].pc # "idle" => sess'.state = "awaiting"
  PROVE  DialogInv'
  <1>1. /\ KeyAnswersItsDialog /\ CallsHoldTurns /\ CountsBounded /\ (Undisturbed => Order)
    BY DialogParts
  <1>2. /\ sess.count \in Nat /\ sess'.count \in Nat /\ snap.seen \in Int /\ agent.seen \in Nat
        /\ NoSnap.seen < 0 /\ NoSnap.seen \in Int /\ ~NoSnap.settled
    BY RuntimeAssumption DEF SessionInv, TypeOK, Sessions, Snaps, Agents, NoSnap, NoTime
  <1>5. hooks \in Seq(HookSet)
    BY DEF SessionInv, TypeOK
  <1>3. KeyAnswersItsDialog' /\ CountsBounded'
    BY <1>1, <1>2 DEF KeyAnswersItsDialog, CountsBounded
  <1>4. ASSUME Undisturbed' PROVE Order'
    <2>1. Undisturbed /\ Order
      BY <1>1, <1>4 DEF Undisturbed
    <2>2. \A i \in DOMAIN hooks' :
            \E j \in DOMAIN hooks : hooks'[i] = hooks[j] /\ (j = Len(hooks) => i = Len(hooks'))
      BY <1>5, HooksTail
    <2>3. SessionOpen'
      BY <1>4, <2>1, <2>2 DEF Order, SessionOpen
    <2>4. RestsWhenReady'
      <3>1. AtRest' <=> AtRest
        BY DEF AtRest
      <3>2. CASE AtRest \/ agent.mode = "starting"
        BY <3>1, <3>2 DEF RestsWhenReady
      <3>3. CASE ~(AtRest \/ agent.mode = "starting")
        <4>1. sess'.state \in {"busy", "awaiting"} /\ closing' = 0
          BY <1>4, <3>3
        <4>2. snap.settled => snap.wrong \/ snap.seen < sess.count
          BY <2>1, <3>3 DEF Order, RestsWhenReady
        <4>3. snap'.settled => snap'.wrong \/ snap'.seen < sess'.count
          BY <1>2, <4>2
        <4> QED BY <4>1, <4>3 DEF RestsWhenReady
      <3> QED BY <3>2, <3>3
    <2>5. OneDelivery'
      BY <1>2, <1>4, <2>1 DEF Order, OneDelivery
    <2>6. InputFits'
      BY <1>2, <2>1 DEF Order, InputFits
    <2>7. AskIsOpen'
      <3> SUFFICES ASSUME NEW i \in DOMAIN hooks', hooks'[i].what = "ask"
                   PROVE  /\ i = Len(hooks') /\ Unanswered(hooks'[i].arg)
                          /\ sess.approval \notin {agent.ask} \ {0}
                          /\ \A r \in Responders : respond[r].pc # "type"
        BY DEF AskIsOpen, Unanswered
      <3>1. PICK j \in DOMAIN hooks :
              hooks'[i] = hooks[j] /\ (j = Len(hooks) => i = Len(hooks'))
        BY <2>2
      <3> QED BY <2>1, <3>1 DEF Order, AskIsOpen, Unanswered
    <2>8. ReplyIsOpen'
      BY <1>4, <2>1 DEF Order, ReplyIsOpen, Unanswered
    <2>9. ApprovalIsOpen'
      BY <2>1 DEF Order, ApprovalIsOpen, Unanswered
    <2> QED BY <2>3, <2>4, <2>5, <2>6, <2>7, <2>8, <2>9 DEF Order
  <1> QED BY <1>3, <1>4, DialogPartsNext

(* A step that keeps the tab undisturbed found it so.                      *)
LEMMA Was ==
  ASSUME DialogInv, used.disturbed => used'.disturbed,
         agent.mode = "off" => agent'.mode = "off", Undisturbed'
  PROVE  Undisturbed /\ Order
  BY DialogParts DEF Undisturbed

(* Nobody delivers to, or replies in, a tab at rest.                       *)
LEMMA ReadyRests ==
  ASSUME SessionInv, Undisturbed, Order,
         sess.state \in {"starting", "ready"} \/ closing # 0
  PROVE  /\ AtRest \/ agent.mode = "starting"
         /\ \A s \in Senders : send[s].turn = 0
  <1>1. AtRest \/ agent.mode = "starting"
    BY DEF Order, RestsWhenReady
  <1>2. ASSUME agent.mode = "starting" PROVE \A s \in Senders : send[s].turn = 0
    BY <1>2 DEF Order, OneDelivery
  <1> QED BY <1>1, <1>2 DEF AtRest

(* The main thread's turn.                                                 *)
LEMMA FinishCompleteDialog ==
  ASSUME SessionInv, SessionInv', DialogInv, FinishComplete
  PROVE  DialogInv'
  <1>1. /\ closing # 0 /\ sess' = Transition(sess, "completed") /\ closing' = 0
        /\ UNCHANGED <<snap, send, respond, stop, tab, agent, hooks, used>>
    BY DEF FinishComplete, callVars
  <1>2. /\ sess'.state = IF sess.state = "busy" THEN "ready" ELSE sess.state
        /\ sess'.count = sess.count /\ sess'.approval = sess.approval
    BY <1>1, Parts, CompletedFields
  <1>3. CallsHoldTurns'
    BY <1>1 DEF DialogInv, CallsHoldTurns
  <1>4. ASSUME Undisturbed'
        PROVE  /\ sess'.state # "stopped" /\ (AtRest \/ agent.mode = "starting")
               /\ \A s \in Senders : send[s].turn = 0
               /\ \A r \in Responders : respond[r].pc # "idle" => sess'.state = "awaiting"
    <2>1. Undisturbed /\ Order
      BY <1>1, <1>4, Was
    <2> QED BY <1>1, <1>2, <2>1, ReadyRests DEF Order, SessionOpen, ReplyIsOpen
  <1>5. sess'.count >= sess.count
    BY <1>2, RuntimeAssumption DEF SessionInv, TypeOK, Sessions
  <1> QED BY <1>1, <1>2, <1>3, <1>4, <1>5, Frame

(* The first half of complete_turn leaves everything but the turn.         *)
LEMMA BeginFields ==
  ASSUME NEW s \in Sessions, BeginComplete(s)
  PROVE  /\ sess'.state = s.state /\ sess'.count = s.count /\ sess'.approval = s.approval
         /\ closing' = s.turn
  BY TakeFields DEF BeginComplete

(* The hook events but the permission request.                             *)
LEMMA HandleHookDialog ==
  ASSUME SessionInv, SessionInv', DialogInv, HandleHook, ~HookPermission(Head(hooks))
  PROVE  DialogInv'
  <1> DEFINE h == Head(hooks)
  <1>1. /\ hooks # <<>> /\ closing = 0
        /\ HookIgnored \/ HookEndsSession(h) \/ HookActivity(h) \/ HookResponse(h)
        /\ hooks' = Tail(hooks) /\ UNCHANGED <<snap, send, respond, stop, agent>>
    BY DEF HandleHook, MainFree, callVars
  <1>2. /\ hooks \in Seq(HookSet) /\ used \in Usage /\ sess \in Sessions /\ sess.count \in Nat
        /\ agent.mode # "starting"
    BY <1>1, RuntimeAssumption DEF SessionInv, TypeOK, NobodyAhead, Sessions
  <1>3. CallsHoldTurns'
    BY <1>1 DEF DialogInv, CallsHoldTurns
  <1>4. h = hooks[1] /\ 1 \in DOMAIN hooks
    BY <1>1, <1>2, HooksTail
  <1> HIDE DEF h
  <1>5. CASE HookIgnored
    <2>1. UNCHANGED <<sess, active, closing, ended, tab, used>>
      BY <1>5 DEF HookIgnored, sessVars
    <2>2. ASSUME Undisturbed' PROVE Undisturbed /\ Order
      BY <1>1, <2>1, <2>2, Was
    <2>3. ASSUME Undisturbed'
          PROVE  /\ sess'.state # "stopped"
                 /\ AtRest \/ agent.mode = "starting"
                    \/ (sess'.state \in {"busy", "awaiting"} /\ closing' = 0)
                 /\ \A s \in Senders : send[s].turn # 0 => sess'.state = "busy"
                 /\ \A r \in Responders : respond[r].pc # "idle" => sess'.state = "awaiting"
      BY <2>1, <2>2, <2>3
         DEF Order, SessionOpen, RestsWhenReady, OneDelivery, ReplyIsOpen
    <2> QED BY <1>1, <1>2, <1>3, <2>1, <2>3, Frame
  <1>6. CASE HookEndsSession(h)
    <2>1. /\ UNCHANGED <<closing, ended, tab, used>> /\ sess' = Transition(sess, "closed")
          /\ h.what = "end" \/ agent.mode = "off"
      BY <1>6 DEF HookEndsSession, Stopped
    <2>2. ~Undisturbed'
      <3> SUFFICES ASSUME Undisturbed' PROVE FALSE
        OBVIOUS
      <3>1. Undisturbed /\ Order
        BY <1>1, <2>1, Was
      <3> QED BY <1>4, <2>1, <3>1 DEF Undisturbed, Order, SessionOpen
    <2>3. sess'.count = sess.count /\ sess'.approval = sess.approval
      BY <1>2, <2>1, ClosedFields
    <2> QED BY <1>1, <1>2, <1>3, <2>1, <2>2, <2>3, Frame
  <1>7. CASE HookActivity(h)
    <2> DEFINE n == StartTurnIfIdle(sess)
    <2>1. /\ sess' = [n EXCEPT !.activity = TRUE]
          /\ UNCHANGED <<closing, ended, active, tab, used>>
      BY <1>7 DEF HookActivity, NoComplete
    <2>2. n \in Sessions /\ ( \/ n = sess
                              \/ /\ sess.state = "ready" /\ n.state = "busy"
                                 /\ n.count = sess.count + 1 /\ n.approval = sess.approval)
      BY <1>2, Parts, StartIfIdleFields, StartIfIdleSound
    <2> HIDE DEF n
    <2>3. sess'.state = n.state /\ sess'.count = n.count /\ sess'.approval = n.approval
      BY <2>1, <2>2 DEF Sessions
    <2>4. ASSUME Undisturbed' PROVE Undisturbed /\ Order
      BY <1>1, <2>1, <2>4, Was
    <2>5. ASSUME Undisturbed'
          PROVE  /\ sess'.state # "stopped"
                 /\ AtRest \/ agent.mode = "starting"
                    \/ (sess'.state \in {"busy", "awaiting"} /\ closing' = 0)
                 /\ \A s \in Senders : send[s].turn # 0 => sess'.state = "busy"
                 /\ \A r \in Responders : respond[r].pc # "idle" => sess'.state = "awaiting"
      <3>1. CASE n = sess
        BY <2>1, <2>3, <2>4, <2>5, <3>1
           DEF Order, SessionOpen, RestsWhenReady, OneDelivery, ReplyIsOpen
      <3>2. CASE sess.state = "ready" /\ n.state = "busy"
        BY <2>3, <2>4, <2>5, <3>2, ReadyRests DEF Order, ReplyIsOpen
      <3> QED BY <2>2, <3>1, <3>2
    <2>6. sess'.count >= sess.count /\ sess'.approval = sess.approval
      BY <1>2, <2>2, <2>3
    <2> QED BY <1>1, <1>3, <2>1, <2>5, <2>6, Frame
  <1>8. CASE HookResponse(h)
    <2> DEFINE b == used.disturbed \/ (TurnActive(sess) /\ ~AtRest)
    <2>1. /\ UNCHANGED <<active, tab>> /\ used' = [used EXCEPT !.disturbed = b]
          /\ IF TurnActive(sess) THEN BeginComplete(sess) ELSE NoComplete(sess)
      BY <1>8 DEF HookResponse
    <2>2. /\ used'.disturbed = b /\ used'.misread = used.misread /\ used'.asks = used.asks
      BY <1>2, <2>1 DEF Usage
    <2>3. sess'.state = sess.state /\ sess'.count = sess.count /\ sess'.approval = sess.approval
          /\ (~TurnActive(sess) => closing' = 0)
      BY <1>1, <1>2, <2>1, BeginFields DEF NoComplete
    <2>4. used.disturbed => used'.disturbed
      BY <2>2
    <2>5. ASSUME Undisturbed' PROVE Undisturbed /\ Order
      BY <1>1, <2>4, <2>5, Was
    <2>6. ASSUME Undisturbed' PROVE ~TurnActive(sess) \/ AtRest
      BY <2>2, <2>6 DEF Undisturbed
    <2> HIDE DEF b
    <2>7. ASSUME Undisturbed'
          PROVE  /\ sess'.state # "stopped"
                 /\ AtRest \/ agent.mode = "starting"
                    \/ (sess'.state \in {"busy", "awaiting"} /\ closing' = 0)
                 /\ \A s \in Senders : send[s].turn # 0 => sess'.state = "busy"
                 /\ \A r \in Responders : respond[r].pc # "idle" => sess'.state = "awaiting"
      BY <2>3, <2>5, <2>6, <2>7
         DEF Order, SessionOpen, RestsWhenReady, OneDelivery, ReplyIsOpen
    <2> QED BY <1>1, <1>2, <1>3, <2>1, <2>2, <2>3, <2>4, <2>7, Frame
  <1> QED BY <1>1, <1>5, <1>6, <1>7, <1>8

(* A permission request: the session asks its callers, or its policy types *)
(* the answer.                                                             *)
LEMMA HookPermissionDialog ==
  ASSUME SessionInv, SessionInv', DialogInv, HandleHook, HookPermission(Head(hooks))
  PROVE  DialogInv'
  <1> DEFINE h == Head(hooks)
             n == StartTurnIfIdle(sess)
             pends == TurnActive(n) /\ n.policy = "pend"
  <1>1. /\ hooks # <<>> /\ closing = 0 /\ h.what = "ask"
        /\ hooks' = Tail(hooks)
        /\ UNCHANGED <<snap, send, respond, stop, agent, closing, ended, active, used>>
        /\ sess' = IF pends THEN RequestApproval(n, h.arg) ELSE n
        /\ tab' = IF TurnActive(n) /\ n.policy # "pend" /\ tab.open
                    THEN Typed("answer", h.arg) ELSE tab
    BY DEF HandleHook, MainFree, callVars, HookPermission, NoComplete
  <1>2. /\ hooks \in Seq(HookSet) /\ used \in Usage /\ sess \in Sessions /\ sess.count \in Nat
        /\ tab \in Tabs /\ agent.mode # "starting"
    BY <1>1, RuntimeAssumption DEF SessionInv, TypeOK, NobodyAhead, Sessions
  <1>3. h = hooks[1] /\ 1 \in DOMAIN hooks
    BY <1>1, <1>2, HooksTail
  <1> HIDE DEF h
  <1>4. n \in Sessions /\ (n = sess \/ (sess.state = "ready" /\ n.count = sess.count + 1))
    BY <1>2, Parts, StartIfIdleFields, StartIfIdleSound
  <1>5. KeyAnswersItsDialog /\ CallsHoldTurns /\ CountsBounded
    BY DialogParts
  <1>6. n.count >= sess.count
    BY <1>2, <1>4
  <1>7. sess'.count = n.count
    <2>1. RequestApproval(n, h.arg).count = n.count
      BY <1>4, RequestFields
    <2> QED BY <1>1, <2>1
  <1>8. KeyAnswersItsDialog' /\ CallsHoldTurns' /\ CountsBounded'
    <2>1. sess'.count \in Nat /\ agent.seen \in Nat /\ snap.seen \in Int
      BY RuntimeAssumption DEF SessionInv, TypeOK, Sessions, Agents, Snaps
    <2> QED BY <1>1, <1>2, <1>5, <1>6, <1>7, <2>1
            DEF KeyAnswersItsDialog, CallsHoldTurns, CountsBounded
  <1>9. ASSUME Undisturbed' PROVE Order'
    <2>1. Undisturbed /\ Order
      BY <1>1, <1>9, Was
    <2>2. /\ Len(hooks) = 1 /\ agent.mode = "asking" /\ agent.ask = h.arg /\ tab.input = <<>>
          /\ sess.approval \notin {agent.ask} \ {0}
          /\ \A r \in Responders : respond[r].pc # "type"
      BY <1>1, <1>3, <2>1 DEF Order, AskIsOpen, Unanswered
    <2>3. hooks' = <<>>
      BY <1>1, <1>2, <2>2
    <2>4. ~AtRest /\ \A s \in Senders : send[s].turn = 0
      BY <2>1, <2>2 DEF AtRest, Order, OneDelivery
    <2>5. /\ sess.state \in {"busy", "awaiting"} /\ tab.open /\ ~stop
          /\ snap.settled => snap.wrong \/ snap.seen < sess.count
      BY <2>1, <2>2, <2>4 DEF Order, RestsWhenReady, SessionOpen
    <2>6. n = sess /\ TurnActive(n)
      BY <1>4, <2>5 DEF TurnActive
    <2>7. h.arg \in Nat /\ h.arg <= used.asks
      <3>1. h \in HookSet
        BY <1>2, <1>3
      <3>2. h.arg \in Nat
        BY <3>1, RuntimeAssumption DEF HookSet
      <3> QED BY <1>5, <2>2, <3>2 DEF CountsBounded
    <2>8. CASE sess.policy = "pend"
      <3>1. tab' = tab /\ sess' = RequestApproval(sess, h.arg)
        BY <1>1, <2>6, <2>8
      <3>2. /\ sess'.state = "awaiting" /\ sess'.count = sess.count
            /\ sess'.approval \in {0, h.arg} /\ (sess.state = "awaiting" => sess'.approval = 0)
        BY <1>2, <2>5, <3>1, RequestFields
      <3>3. SessionOpen' /\ RestsWhenReady'
        BY <1>1, <2>3, <2>5, <3>1, <3>2 DEF SessionOpen, RestsWhenReady
      <3>4. OneDelivery' /\ InputFits' /\ AskIsOpen'
        BY <1>1, <2>2, <2>3, <2>4, <3>1 DEF OneDelivery, InputFits, AskIsOpen
      <3>5. ReplyIsOpen'
        <4> SUFFICES ASSUME NEW r \in Responders, respond[r].pc # "idle"
                     PROVE  sess'.approval \in {0, respond[r].ask}
          BY <1>1, <2>2, <3>2 DEF ReplyIsOpen, Unanswered
        <4>1. sess.state = "awaiting"
          BY <2>1 DEF Order, ReplyIsOpen
        <4> QED BY <3>2, <4>1
      <3>6. ApprovalIsOpen'
        <4>1. sess'.approval <= used'.asks
          BY <1>1, <1>2, <2>7, <3>2, RuntimeAssumption DEF Usage
        <4> QED BY <1>1, <2>2, <3>1, <3>2, <4>1 DEF ApprovalIsOpen, Unanswered
      <3> QED BY <3>3, <3>4, <3>5, <3>6 DEF Order
    <2>9. CASE sess.policy # "pend"
      <3>1. sess' = sess /\ tab' = Typed("answer", h.arg)
        BY <1>1, <2>5, <2>6, <2>9
      <3>2. tab'.open /\ tab'.input = <<[what |-> "answer", arg |-> h.arg]>>
        BY <1>2, <2>2, <2>5, <3>1 DEF Typed, Tabs
      <3>3. SessionOpen' /\ RestsWhenReady'
        BY <1>1, <2>1, <2>3, <2>5, <3>1, <3>2 DEF SessionOpen, RestsWhenReady
      <3>4. OneDelivery' /\ AskIsOpen' /\ InputFits'
        <4>1. Len(tab'.input) = 1 /\ tab'.input[1] = [what |-> "answer", arg |-> h.arg]
          BY <3>2
        <4>2. tab'.input[1].what = "answer" /\ tab'.input[1].arg = h.arg
          BY <4>1
        <4>3. OneDelivery' /\ AskIsOpen'
          BY <1>1, <2>3, <2>4 DEF OneDelivery, AskIsOpen
        <4> QED BY <1>1, <2>2, <2>4, <4>1, <4>2, <4>3 DEF InputFits
      <3>5. ReplyIsOpen'
        BY <1>1, <2>1, <2>2, <3>1 DEF Order, ReplyIsOpen
      <3>6. ApprovalIsOpen'
        BY <1>1, <2>1, <2>2, <3>1 DEF Order, ApprovalIsOpen, Unanswered
      <3> QED BY <3>3, <3>4, <3>5, <3>6 DEF Order
    <2> QED BY <2>8, <2>9
  <1> QED BY <1>8, <1>9, DialogPartsNext

LEMMA CountedFields ==
  ASSUME SessionInv, Counted
  PROVE  /\ used'.misread = used.misread /\ used'.asks = used.asks
         /\ used'.disturbed = used.disturbed
  BY DEF SessionInv, TypeOK, Usage, Counted

(* The readiness monitor.                                                  *)
LEMMA MonitorCapturesDialog ==
  ASSUME SessionInv, SessionInv', DialogInv, MonitorCaptures
  PROVE  DialogInv'
  <1>1. /\ UNCHANGED <<sess, active, closing, ended, send, respond, stop, tab, agent, hooks>>
        /\ UNCHANGED used \/ Counted
    BY DEF MonitorCaptures, sessVars, callVars
  <1>6. /\ snap'.settled /\ agent.mode # "idle" => snap'.wrong
        /\ snap'.seen \in {agent.seen, NoTime}
    <2>1. PICK hist \in Histories, raw \in Statuses, prompt \in BOOLEAN :
            snap' = Captured(hist, raw, prompt)
      BY DEF MonitorCaptures
    <2> QED BY <2>1 DEF Captured
  <1>4. /\ used'.misread = used.misread /\ used'.asks = used.asks
        /\ used'.disturbed = used.disturbed
    BY <1>1, CountedFields
  <1>5. NoTime < 0 /\ NoTime \in Int /\ sess.count \in Nat /\ agent.seen \in Nat
    BY RuntimeAssumption DEF NoTime, SessionInv, TypeOK, Sessions, Agents
  <1>2. KeyAnswersItsDialog' /\ CallsHoldTurns' /\ CountsBounded'
    BY <1>1, <1>4, <1>5, <1>6, DialogParts DEF KeyAnswersItsDialog, CallsHoldTurns, CountsBounded
  <1>3. ASSUME Undisturbed' PROVE Order'
    <2>1. Undisturbed /\ Order
      BY <1>1, <1>3, <1>4, Was
    <2>2. RestsWhenReady'
      <3>1. AtRest' <=> AtRest
        BY <1>1 DEF AtRest
      <3>2. CASE AtRest \/ agent.mode = "starting"
        BY <1>1, <3>1, <3>2 DEF RestsWhenReady
      <3>3. CASE ~(AtRest \/ agent.mode = "starting")
        <4>1. sess.state \in {"busy", "awaiting"} /\ closing = 0
          BY <2>1, <3>3 DEF Order, RestsWhenReady
        <4>2. ASSUME agent.mode = "idle" PROVE agent.seen < sess.count
          <5>1. tab.input # <<>> \/ \E s \in Senders : send[s].turn # 0
            BY <3>3, <4>2 DEF AtRest
          <5> QED BY <2>1, <4>2, <5>1 DEF Order, OneDelivery, InputFits
        <4>3. snap'.settled => snap'.wrong \/ snap'.seen < sess.count
          BY <1>1, <1>5, <1>6, <4>2
        <4> QED BY <1>1, <4>1, <4>3 DEF RestsWhenReady
      <3> QED BY <3>2, <3>3
    <2>3. SessionOpen' /\ OneDelivery' /\ InputFits'
      BY <1>1, <2>1 DEF Order, SessionOpen, OneDelivery, InputFits
    <2>4. AskIsOpen' /\ ReplyIsOpen' /\ ApprovalIsOpen'
      BY <1>1, <1>4, <2>1 DEF Order, AskIsOpen, ReplyIsOpen, ApprovalIsOpen, Unanswered
    <2> QED BY <2>2, <2>3, <2>4 DEF Order
  <1> QED BY <1>2, <1>3, DialogPartsNext

(* The monitor ends a turn only on a snapshot younger than its prompt, or  *)
(* it is recorded.                                                         *)
LEMMA MonitorAppliesDialog ==
  ASSUME SessionInv, SessionInv', DialogInv, MonitorApplies
  PROVE  DialogInv'
  <1> DEFINE n == Observed(sess)
             ends == n.state = "busy" /\ n.turn # 0 /\ n.activity /\ Fresh(n) /\ snap.settled
             b == used.disturbed \/ (ends /\ ~AtRest /\ (snap.wrong \/ snap.seen = NoTime))
  <1>1. /\ closing = 0 /\ snap.on /\ snap' = NoSnap
        /\ UNCHANGED <<active, send, respond, stop, tab, agent, hooks>>
        /\ used' = [used EXCEPT !.disturbed = b]
    BY DEF MonitorApplies, callVars, MainFree
  <1>2. \/ n.state = "starting" /\ NoComplete(Transition(n, "ready"))
        \/ ends /\ BeginComplete(n)
        \/ NoComplete(n)
    BY DEF MonitorApplies
  <1>8. used'.disturbed = b /\ used'.misread = used.misread /\ used'.asks = used.asks
    BY <1>1 DEF SessionInv, TypeOK, Usage
  <1>9. used.disturbed => used'.disturbed
    BY <1>8
  <1>10. ASSUME Undisturbed', ends PROVE AtRest \/ ~(snap.wrong \/ snap.seen = NoTime)
    BY <1>8, <1>10 DEF Undisturbed
  <1>11. ends => n.state = "busy" /\ Fresh(n) /\ snap.settled
    OBVIOUS
  <1> HIDE DEF b, ends
  <1>3. /\ n \in Sessions /\ n.state = sess.state /\ n.count = sess.count
        /\ n.approval = sess.approval /\ sess.count \in Nat /\ snap.seen \in Int
    BY Parts, ObservedSound, ObservedFields, RuntimeAssumption DEF SessionInv, TypeOK, Sessions, Snaps
  <1> HIDE DEF n
  <1>4. CallsHoldTurns'
    BY <1>1 DEF DialogInv, CallsHoldTurns
  <1>5. CASE n.state = "starting" /\ NoComplete(Transition(n, "ready"))
    <2>1. /\ sess'.state = "ready" /\ sess'.count = sess.count /\ sess'.approval = sess.approval
          /\ closing' = 0
      BY <1>1, <1>3, <1>5, ReadyFields DEF NoComplete
    <2>2. ASSUME Undisturbed'
          PROVE  /\ AtRest \/ agent.mode = "starting"
                 /\ \A s \in Senders : send[s].turn = 0
                 /\ \A r \in Responders : respond[r].pc = "idle"
      <3>1. Undisturbed /\ Order
        BY <1>1, <1>9, <2>2, Was
      <3> QED BY <1>3, <1>5, <3>1, ReadyRests DEF Order, ReplyIsOpen
    <2> QED BY <1>1, <1>3, <1>4, <1>8, <1>9, <2>1, <2>2, Frame
  <1>6. CASE ends /\ BeginComplete(n)
    <2>1. /\ sess'.state = "busy" /\ sess'.count = sess.count /\ sess'.approval = sess.approval
      BY <1>3, <1>6, <1>11, BeginFields
    <2>2. snap.seen = NoTime \/ ~(snap.seen < sess.count)
      BY <1>3, <1>6, <1>11 DEF Fresh
    <2>3. ASSUME Undisturbed'
          PROVE  /\ AtRest \/ agent.mode = "starting"
                 /\ \A r \in Responders : respond[r].pc = "idle"
      <3>1. Undisturbed /\ Order
        BY <1>1, <1>9, <2>3, Was
      <3> QED BY <1>1, <1>3, <1>6, <1>10, <1>11, <2>2, <2>3, <3>1
              DEF Order, RestsWhenReady, ReplyIsOpen
    <2> QED BY <1>1, <1>3, <1>4, <1>8, <1>9, <2>1, <2>3, Frame
  <1>7. CASE NoComplete(n)
    <2>1. /\ sess'.state = sess.state /\ sess'.count = sess.count
          /\ sess'.approval = sess.approval /\ closing' = closing
      BY <1>3, <1>7 DEF NoComplete
    <2>2. ASSUME Undisturbed'
          PROVE  /\ sess'.state # "stopped"
                 /\ AtRest \/ agent.mode = "starting"
                    \/ (sess'.state \in {"busy", "awaiting"} /\ closing' = 0)
                 /\ \A s \in Senders : send[s].turn # 0 => sess'.state = "busy"
                 /\ \A r \in Responders : respond[r].pc # "idle" => sess'.state = "awaiting"
      <3>1. Undisturbed /\ Order
        BY <1>1, <1>9, <2>2, Was
      <3> QED BY <2>1, <3>1 DEF Order, SessionOpen, RestsWhenReady, OneDelivery, ReplyIsOpen
    <2> QED BY <1>1, <1>3, <1>4, <1>8, <1>9, <2>1, <2>2, Frame
  <1> QED BY <1>2, <1>5, <1>6, <1>7

(* cleanup: the tab is gone.                                               *)
LEMMA CleanupDialog ==
  ASSUME SessionInv, SessionInv', DialogInv, Cleanup
  PROVE  DialogInv'
  <1>1. /\ ~tab.open /\ sess' = Transition(sess, "closed")
        /\ UNCHANGED <<snap, send, respond, stop, tab, agent, hooks, used>>
    BY DEF Cleanup, Stopped, callVars
  <1>2. sess'.count = sess.count /\ sess'.approval = sess.approval /\ sess.count \in Nat
    BY <1>1, Parts, ClosedFields, RuntimeAssumption DEF Sessions
  <1>3. CallsHoldTurns'
    BY <1>1 DEF DialogInv, CallsHoldTurns
  <1>4. ~Undisturbed'
    BY <1>1, Was DEF Order, SessionOpen
  <1> QED BY <1>1, <1>2, <1>3, <1>4, Frame

--------------------------------------------------------------------------------
(* Callers of turns.  A step that also leaves the session's state alone.   *)
LEMMA SteadyFrame ==
  ASSUME SessionInv, SessionInv', DialogInv,
         UNCHANGED <<closing, snap, respond, stop, tab, agent, hooks>>,
         \A s \in Senders : send'[s].turn = send[s].turn, CallsHoldTurns',
         used'.misread = used.misread, used'.asks = used.asks,
         used'.disturbed = used.disturbed,
         sess'.count = sess.count, sess'.approval = sess.approval, sess'.state = sess.state
  PROVE  DialogInv'
  <1>1. sess'.count >= sess.count
    BY RuntimeAssumption DEF SessionInv, TypeOK, Sessions
  <1>2. ASSUME Undisturbed'
        PROVE  /\ sess'.state # "stopped"
               /\ AtRest \/ agent.mode = "starting"
                  \/ (sess'.state \in {"busy", "awaiting"} /\ closing' = 0)
               /\ \A s \in Senders : send[s].turn # 0 => sess'.state = "busy"
               /\ \A r \in Responders : respond[r].pc # "idle" => sess'.state = "awaiting"
    <2>1. Undisturbed /\ Order
      BY <1>2, Was
    <2> QED BY <2>1 DEF Order, SessionOpen, RestsWhenReady, OneDelivery, ReplyIsOpen
  <1> QED BY <1>1, <1>2, Frame

LEMMA GoesTurns ==
  ASSUME SessionInv, CallsHoldTurns, NEW s \in Senders, NEW pc, Goes(s, pc),
         send[s].pc \in {"type", "take", "fail"} <=> pc \in {"type", "take", "fail"}
  PROVE  CallsHoldTurns' /\ \A u \in Senders : send'[u].turn = send[u].turn
  <1>1. send \in [Senders -> Sends]
    BY DEF SessionInv, TypeOK
  <1>2. send'[s].pc = pc /\ send'[s].turn = send[s].turn
        /\ \A u \in Senders : u # s => send'[u] = send[u]
    BY <1>1 DEF Goes, Sends
  <1> QED BY <1>2 DEF CallsHoldTurns

LEMMA ClientCallsDialog ==
  ASSUME SessionInv, SessionInv', DialogInv, NEW c \in Clients, ClientCalls(c)
  PROVE  DialogInv'
  <1>1. /\ c \in Senders /\ send[c].pc = "idle" /\ (Goes(c, "start") \/ Goes(c, "mark"))
        /\ UNCHANGED <<sess, active, closing, ended, snap, respond, stop, tab, agent, hooks, used>>
    BY DEF ClientCalls, sessVars, At, Senders
  <1>2. CallsHoldTurns' /\ \A u \in Senders : send'[u].turn = send[u].turn
    BY <1>1, GoesTurns, DialogParts
  <1> QED BY <1>1, <1>2, SteadyFrame

LEMMA RefusedDialog ==
  ASSUME SessionInv, CallsHoldTurns, NEW s \in Senders, Refused(s),
         send[s].pc \notin {"type", "take", "fail"}
  PROVE  /\ CallsHoldTurns' /\ \A u \in Senders : send'[u].turn = send[u].turn
         /\ sess'.state = sess.state /\ sess'.count = sess.count
         /\ sess'.approval = sess.approval
  <1>1. Goes(s, Rest(s)) /\ sess' = Forgotten(s)
    BY DEF Refused
  <1>2. Rest(s) \notin {"type", "take", "fail"}
    BY RestType
  <1> QED BY <1>1, <1>2, GoesTurns, ForgottenFields, Parts

LEMMA PromptWaitsDialog ==
  ASSUME SessionInv, SessionInv', DialogInv, PromptWaits
  PROVE  DialogInv'
  <1>1. /\ "initial" \in Senders /\ send["initial"].pc = "wait"
        /\ UNCHANGED <<active, closing, ended, snap, respond, stop, tab, agent, hooks>>
        /\ \/ (Goes("initial", "done") \/ Goes("initial", "start")) /\ UNCHANGED sess
           \/ Refused("initial")
        /\ UNCHANGED used \/ Counted
    BY DEF PromptWaits, At, Senders
  <1>2. /\ used'.misread = used.misread /\ used'.asks = used.asks
        /\ used'.disturbed = used.disturbed
    BY <1>1, CountedFields
  <1>3. CallsHoldTurns
    BY DialogParts
  <1>4. CASE (Goes("initial", "done") \/ Goes("initial", "start")) /\ UNCHANGED sess
    BY <1>1, <1>2, <1>3, <1>4, GoesTurns, SteadyFrame
  <1>5. CASE Refused("initial")
    <2>1. /\ CallsHoldTurns' /\ \A u \in Senders : send'[u].turn = send[u].turn
          /\ sess'.state = sess.state /\ sess'.count = sess.count
          /\ sess'.approval = sess.approval
      BY <1>1, <1>3, <1>5, RefusedDialog
    <2> QED BY <1>1, <1>2, <2>1, SteadyFrame
  <1> QED BY <1>1, <1>4, <1>5

LEMMA SendMarksDialog ==
  ASSUME SessionInv, SessionInv', DialogInv, NEW s \in Senders, SendMarks(s)
  PROVE  DialogInv'
  <1>1. /\ send[s].pc = "mark" /\ (Refused(s) \/ (Goes(s, "start") /\ sess' = MarkReady))
        /\ UNCHANGED <<active, closing, ended, snap, respond, stop, tab, agent, hooks>>
        /\ UNCHANGED used \/ Counted
    BY DEF SendMarks, Authorized, Unauthorized, At
  <1>5. /\ used'.misread = used.misread /\ used'.asks = used.asks
        /\ used'.disturbed = used.disturbed
    BY <1>1, CountedFields
  <1>2. CallsHoldTurns /\ sess.count \in Nat
    BY DialogParts, RuntimeAssumption DEF SessionInv, TypeOK, Sessions
  <1>3. CASE Refused(s)
    <2>1. /\ CallsHoldTurns' /\ \A u \in Senders : send'[u].turn = send[u].turn
          /\ sess'.state = sess.state /\ sess'.count = sess.count
          /\ sess'.approval = sess.approval
      BY <1>1, <1>2, <1>3, RefusedDialog
    <2> QED BY <1>1, <1>5, <2>1, SteadyFrame
  <1>4. CASE Goes(s, "start") /\ sess' = MarkReady
    <2>1. CallsHoldTurns' /\ \A u \in Senders : send'[u].turn = send[u].turn
      BY <1>1, <1>2, <1>4, GoesTurns
    <2>2. CASE sess' = sess
      BY <1>1, <1>5, <2>1, <2>2, SteadyFrame
    <2>3. CASE sess' = Transition(sess, "ready") /\ sess' # sess
      <3>1. /\ sess.state = "starting" /\ sess'.state = "ready" /\ sess'.count = sess.count
            /\ sess'.approval = sess.approval
        <4>1. Accepts(sess.state, "ready")
          BY <2>3 DEF Transition
        <4>2. sess.state = "starting"
          BY <4>1 DEF Accepts
        <4> QED BY <2>3, <4>2, Parts, ReadyFields
      <3>2. ASSUME Undisturbed'
            PROVE  /\ AtRest \/ agent.mode = "starting"
                   /\ \A u \in Senders : send[u].turn = 0
                   /\ \A r \in Responders : respond[r].pc = "idle"
        <4>1. Undisturbed /\ Order
          BY <1>1, <1>5, <3>2, Was
        <4> QED BY <3>1, <4>1, ReadyRests DEF Order, ReplyIsOpen
      <3> QED BY <1>1, <1>2, <1>5, <2>1, <3>1, <3>2, Frame
    <2> QED BY <1>4, <2>2, <2>3 DEF MarkReady
  <1> QED BY <1>1, <1>3, <1>4

(* start_turn on the main thread: only a session at rest is ready.         *)
LEMMA SendStartsDialog ==
  ASSUME SessionInv, SessionInv', DialogInv, NEW s \in Senders, SendStarts(s)
  PROVE  DialogInv'
  <1>1. /\ send[s].pc = "start" /\ closing = 0
        /\ \/ Refused(s)
           \/ /\ CanStart(sess) /\ sess' = StartTurn(sess)
              /\ send' = [send EXCEPT ![s] = [pc |-> "type", turn |-> sess.count + 1]]
        /\ UNCHANGED <<active, closing, ended, snap, respond, stop, tab, agent, hooks>>
        /\ UNCHANGED used \/ Counted
    BY DEF SendStarts, Authorized, Unauthorized, At, MainFree
  <1>5. /\ used'.misread = used.misread /\ used'.asks = used.asks
        /\ used'.disturbed = used.disturbed
    BY <1>1, CountedFields
  <1>2. KeyAnswersItsDialog /\ CallsHoldTurns /\ CountsBounded
    BY DialogParts
  <1>3. CASE Refused(s)
    <2>1. /\ CallsHoldTurns' /\ \A u \in Senders : send'[u].turn = send[u].turn
          /\ sess'.state = sess.state /\ sess'.count = sess.count
          /\ sess'.approval = sess.approval
      BY <1>1, <1>2, <1>3, RefusedDialog
    <2> QED BY <1>1, <1>5, <2>1, SteadyFrame
  <1>4. CASE /\ CanStart(sess) /\ sess' = StartTurn(sess)
             /\ send' = [send EXCEPT ![s] = [pc |-> "type", turn |-> sess.count + 1]]
    <2>1. /\ sess.state = "ready" /\ sess'.state = "busy" /\ sess'.count = sess.count + 1
          /\ sess'.approval = sess.approval
      BY <1>4, Parts, StartFields DEF CanStart
    <2>2. /\ sess.count \in Nat /\ agent.seen \in Nat /\ snap.seen \in Int
          /\ send \in [Senders -> Sends]
      BY RuntimeAssumption DEF SessionInv, TypeOK, Sessions, Agents, Snaps
    <2>3. /\ send'[s].pc = "type" /\ send'[s].turn # 0
          /\ \A u \in Senders : u # s => send'[u] = send[u]
      BY <1>4, <2>2
    <2>4. KeyAnswersItsDialog' /\ CallsHoldTurns' /\ CountsBounded'
      BY <1>1, <1>2, <1>5, <2>1, <2>2, <2>3 DEF KeyAnswersItsDialog, CallsHoldTurns, CountsBounded
    <2>5. agent.seen < sess'.count /\ snap.seen < sess'.count
      BY <1>2, <2>1, <2>2 DEF CountsBounded
    <2>6. ASSUME Undisturbed' PROVE Order'
      <3>1. Undisturbed /\ Order
        BY <1>1, <1>5, <2>6, Was
      <3>2. agent.mode # "starting"
        BY <1>1, CallerAhead
      <3>3. /\ agent.mode = "idle" /\ tab.input = <<>>
            /\ \A u \in Senders : send[u].turn = 0
            /\ \A r \in Responders : respond[r].pc = "idle"
        BY <2>1, <3>1, <3>2, ReadyRests DEF Order, AtRest, Undisturbed, ReplyIsOpen
      <3>4. SessionOpen' /\ RestsWhenReady'
        BY <1>1, <2>1, <2>5, <3>1 DEF Order, SessionOpen, RestsWhenReady
      <3>5. OneDelivery'
        BY <1>1, <2>1, <2>3, <2>5, <3>3 DEF OneDelivery
      <3>6. InputFits' /\ ReplyIsOpen'
        BY <1>1, <3>3 DEF InputFits, ReplyIsOpen
      <3>7. AskIsOpen' /\ ApprovalIsOpen'
        BY <1>1, <1>5, <2>1, <3>1 DEF Order, AskIsOpen, ApprovalIsOpen, Unanswered
      <3> QED BY <3>4, <3>5, <3>6, <3>7 DEF Order
    <2> QED BY <2>4, <2>6, DialogPartsNext
  <1> QED BY <1>1, <1>3, <1>4

(* The prompt is typed for an idle agent that has nothing else to read.    *)
LEMMA SendTypesDialog ==
  ASSUME SessionInv, SessionInv', DialogInv, NEW s \in Senders, SendTypes(s)
  PROVE  DialogInv'
  <1>1. /\ send[s].pc = "type" /\ tab' = Typed("prompt", send[s].turn)
        /\ send' = [send EXCEPT ![s] = [pc |-> Rest(s), turn |-> 0]]
        /\ UNCHANGED <<sess, active, closing, ended, snap, respond, stop, agent, hooks, used>>
    BY DEF SendTypes, sessVars, At
  <1>2. KeyAnswersItsDialog /\ CallsHoldTurns /\ CountsBounded
    BY DialogParts
  <1>3. send \in [Senders -> Sends] /\ tab \in Tabs
    BY DEF SessionInv, TypeOK
  <1>4. /\ send'[s].pc \in {"idle", "done"} /\ send'[s].turn = 0 /\ send[s].turn # 0
        /\ \A u \in Senders : u # s => send'[u] = send[u]
    BY <1>1, <1>2, <1>3, RestType DEF CallsHoldTurns
  <1>5. KeyAnswersItsDialog' /\ CallsHoldTurns' /\ CountsBounded'
    BY <1>1, <1>2, <1>4 DEF KeyAnswersItsDialog, CallsHoldTurns, CountsBounded
  <1>6. ASSUME Undisturbed' PROVE Order'
    <2>1. Undisturbed /\ Order
      BY <1>1, <1>6, Was
    <2>2. /\ agent.mode = "idle" /\ tab.input = <<>> /\ agent.seen < sess.count
          /\ \A u \in Senders : send[u].turn # 0 => u = s
      BY <1>4, <2>1 DEF Order, OneDelivery
    <2>3. \A u \in Senders : send'[u].turn = 0
      BY <1>4, <2>2
    <2>4. /\ tab'.input = <<[what |-> "prompt", arg |-> send[s].turn]>>
          /\ tab'.open = tab.open
      BY <1>1, <1>3, <2>2 DEF Typed, Tabs
    <2>5. Len(tab'.input) = 1 /\ tab'.input[1].what = "prompt"
      BY <2>4
    <2>6. ~AtRest
      BY <1>4 DEF AtRest
    <2>7. SessionOpen' /\ RestsWhenReady'
      BY <1>1, <2>1, <2>2, <2>4, <2>6 DEF Order, SessionOpen, RestsWhenReady
    <2>8. OneDelivery' /\ InputFits'
      BY <1>1, <2>2, <2>3, <2>5 DEF OneDelivery, InputFits
    <2>9. AskIsOpen' /\ ReplyIsOpen' /\ ApprovalIsOpen'
      BY <1>1, <2>1, <2>2 DEF Order, AskIsOpen, ReplyIsOpen, ApprovalIsOpen, Unanswered
    <2> QED BY <2>7, <2>8, <2>9 DEF Order
  <1> QED BY <1>5, <1>6, DialogPartsNext

LEMMA SendFailsDialog ==
  ASSUME SessionInv, SessionInv', DialogInv, NEW s \in Senders, SendFails(s) \/ FailTakes(s)
  PROVE  DialogInv'
  <1>1. /\ UNCHANGED <<active, closing, snap, respond, stop, tab, agent, hooks>>
        /\ sess' = sess \/ sess' = Take(sess)
        /\ UNCHANGED used \/ Counted
        /\ \/ send[s].pc = "type" /\ Goes(s, "take")
           \/ send[s].pc = "take" /\ Goes(s, "fail")
    BY DEF SendFails, FailTakes, NotDelivered, sessVars, At
  <1>2. /\ sess'.state = sess.state /\ sess'.count = sess.count
        /\ sess'.approval = sess.approval
    BY <1>1, Parts, TakeFields
  <1>3. CallsHoldTurns' /\ \A u \in Senders : send'[u].turn = send[u].turn
    BY <1>1, GoesTurns, DialogParts
  <1>4. /\ used'.misread = used.misread /\ used'.asks = used.asks
        /\ used'.disturbed = used.disturbed
    BY <1>1, CountedFields
  <1> QED BY <1>1, <1>2, <1>3, <1>4, SteadyFrame

(* fail_turn ends: its prompt was not typed, so the tab is at rest again.  *)
LEMMA FailFinishesDialog ==
  ASSUME SessionInv, SessionInv', DialogInv, NEW s \in Senders, FailFinishes(s)
  PROVE  DialogInv'
  <1>1. /\ send[s].pc = "fail" /\ sess' = Transition(Forgotten(s), "completed")
        /\ send' = [send EXCEPT ![s] = [pc |-> Rest(s), turn |-> 0]]
        /\ UNCHANGED <<active, closing, ended, snap, respond, stop, tab, agent, hooks, used>>
    BY DEF FailFinishes, At
  <1>2. KeyAnswersItsDialog /\ CallsHoldTurns /\ CountsBounded
    BY DialogParts
  <1>3. send \in [Senders -> Sends]
    BY DEF SessionInv, TypeOK
  <1>4. /\ send'[s].pc \in {"idle", "done"} /\ send'[s].turn = 0 /\ send[s].turn # 0
        /\ \A u \in Senders : u # s => send'[u] = send[u]
    BY <1>1, <1>2, <1>3, RestType DEF CallsHoldTurns
  <1>5. /\ sess'.state = IF sess.state = "busy" THEN "ready" ELSE sess.state
        /\ sess'.count = sess.count /\ sess'.approval = sess.approval
    BY <1>1, ForgottenSound, ForgottenFields, Parts, CompletedFields
  <1>6. KeyAnswersItsDialog' /\ CallsHoldTurns' /\ CountsBounded'
    BY <1>1, <1>2, <1>4, <1>5 DEF KeyAnswersItsDialog, CallsHoldTurns, CountsBounded
  <1>7. ASSUME Undisturbed' PROVE Order'
    <2>1. Undisturbed /\ Order
      BY <1>1, <1>7, Was
    <2>2. /\ agent.mode = "idle" /\ tab.input = <<>> /\ sess.state = "busy"
          /\ \A u \in Senders : send[u].turn # 0 => u = s
      BY <1>4, <2>1 DEF Order, OneDelivery
    <2>3. \A u \in Senders : send'[u].turn = 0
      BY <1>4, <2>2
    <2>4. SessionOpen' /\ RestsWhenReady'
      BY <1>1, <1>5, <2>1, <2>2, <2>3 DEF Order, SessionOpen, RestsWhenReady, AtRest
    <2>5. OneDelivery' /\ InputFits'
      BY <1>1, <2>2, <2>3 DEF OneDelivery, InputFits
    <2>6. \A r \in Responders : respond[r].pc = "idle"
      BY <2>1, <2>2 DEF Order, ReplyIsOpen
    <2>7. AskIsOpen' /\ ReplyIsOpen' /\ ApprovalIsOpen'
      BY <1>1, <1>5, <2>1, <2>6 DEF Order, AskIsOpen, ReplyIsOpen, ApprovalIsOpen, Unanswered
    <2> QED BY <2>4, <2>5, <2>7 DEF Order
  <1> QED BY <1>6, <1>7, DialogPartsNext

--------------------------------------------------------------------------------
(* Answers.  A step that changes the replies, and maybe the session and    *)
(* the tab, leaves the rest.                                               *)
LEMMA ReplyBasics ==
  ASSUME DialogInv, UNCHANGED <<snap, send, agent>>, sess'.count = sess.count,
         used'.misread = used.misread, used'.asks = used.asks,
         used.disturbed => used'.disturbed
  PROVE  KeyAnswersItsDialog' /\ CallsHoldTurns' /\ CountsBounded'
  BY DialogParts DEF KeyAnswersItsDialog, CallsHoldTurns, CountsBounded

LEMMA RespondReadsDialog ==
  ASSUME OneResponder, SessionInv, SessionInv', DialogInv,
         NEW r \in Responders, NEW ask \in 1..MaxAsks, RespondReads(r, ask)
  PROVE  DialogInv'
  <1>1. /\ respond[r].pc = "idle" /\ ask # 0 /\ sess.approval = ask
        /\ respond' = [respond EXCEPT ![r] = [pc |-> "type", ask |-> ask]]
        /\ UNCHANGED <<sess, active, closing, ended, snap, send, stop, tab, agent, hooks, used>>
    BY DEF RespondReads, Pending, sessVars
  <1>2. respond \in [Responders -> Replies]
    BY DEF SessionInv, TypeOK
  <1>3. respond'[r].pc = "type" /\ respond'[r].ask = ask /\ \A q \in Responders : q = r
    BY <1>1, <1>2 DEF OneResponder
  <1>4. ASSUME Undisturbed' PROVE Order'
    <2>1. Undisturbed /\ Order
      BY <1>1, <1>4, Was
    <2>2. Unanswered(ask)
      BY <1>1, <1>3, <2>1 DEF Order, ApprovalIsOpen
    <2>3. sess.state = "awaiting"
      BY <1>1, <2>1 DEF SessionInv, ApprovalIsAwaited, Terminal, Order, SessionOpen, TypeOK, Sessions
    <2>4. \A i \in DOMAIN hooks : hooks[i].what # "ask"
      BY <1>1, <2>1, <2>2 DEF Order, AskIsOpen, Unanswered
    <2>5. SessionOpen' /\ RestsWhenReady' /\ OneDelivery' /\ InputFits'
      BY <1>1, <2>1 DEF Order, SessionOpen, RestsWhenReady, OneDelivery, InputFits, AtRest
    <2>6. AskIsOpen'
      BY <1>1, <2>4 DEF AskIsOpen
    <2>7. ReplyIsOpen'
      BY <1>1, <1>3, <2>2, <2>3 DEF ReplyIsOpen, Unanswered
    <2>8. ApprovalIsOpen'
      BY <1>1, <1>3, <2>1 DEF Order, ApprovalIsOpen
    <2> QED BY <2>5, <2>6, <2>7, <2>8 DEF Order
  <1> QED BY <1>1, <1>4, ReplyBasics, DialogPartsNext

LEMMA RespondTypesDialog ==
  ASSUME OneResponder, SessionInv, SessionInv', DialogInv, NEW r \in Responders, RespondTypes(r)
  PROVE  DialogInv'
  <1>1. /\ respond[r].pc = "type"
        /\ UNCHANGED <<sess, active, closing, ended, snap, send, stop, agent, hooks>>
        /\ UNCHANGED used \/ Counted
        /\ \/ /\ tab' = Typed("answer", respond[r].ask)
              /\ respond' = [respond EXCEPT ![r].pc = "resolve"]
           \/ tab' = tab /\ respond' = [respond EXCEPT ![r].pc = "idle"]
    BY DEF RespondTypes, NotDelivered, sessVars
  <1>2. respond \in [Responders -> Replies] /\ tab \in Tabs
    BY DEF SessionInv, TypeOK
  <1>3. /\ used'.misread = used.misread /\ used'.asks = used.asks
        /\ used'.disturbed = used.disturbed
    BY <1>1, CountedFields
  <1>4. \A q \in Responders : q = r
    BY DEF OneResponder
  <1>5. ASSUME Undisturbed' PROVE Order'
    <2>1. Undisturbed /\ Order
      BY <1>1, <1>3, <1>5, Was
    <2>2. /\ agent.mode = "asking" /\ agent.ask = respond[r].ask /\ tab.input = <<>>
          /\ sess.state = "awaiting" /\ sess.approval \in {0, respond[r].ask}
      BY <1>1, <2>1 DEF Order, ReplyIsOpen, Unanswered
    <2>3. /\ \A i \in DOMAIN hooks : hooks[i].what # "ask"
          /\ \A u \in Senders : send[u].turn = 0
      BY <1>1, <2>1, <2>2 DEF Order, AskIsOpen, OneDelivery
    <2>4. ~AtRest
      BY <2>2 DEF AtRest
    <2>5. tab'.open = tab.open
      BY <1>1, <1>2 DEF Typed, Tabs
    <2>6. SessionOpen' /\ RestsWhenReady'
      BY <1>1, <2>1, <2>2, <2>4, <2>5 DEF Order, SessionOpen, RestsWhenReady
    <2>7. OneDelivery' /\ AskIsOpen'
      BY <1>1, <2>3 DEF OneDelivery, AskIsOpen
    <2>8. CASE /\ tab' = Typed("answer", respond[r].ask)
               /\ respond' = [respond EXCEPT ![r].pc = "resolve"]
      <3>1. tab'.input = <<[what |-> "answer", arg |-> respond[r].ask]>>
        BY <1>2, <2>2, <2>8 DEF Typed, Tabs
      <3>2. Len(tab'.input) = 1 /\ tab'.input[1].what = "answer"
            /\ tab'.input[1].arg = respond[r].ask
        BY <3>1
      <3>3. InputFits'
        BY <1>1, <2>2, <2>3, <3>2 DEF InputFits
      <3>4. respond'[r].pc = "resolve" /\ respond'[r].ask = respond[r].ask
        BY <1>2, <2>8 DEF Replies
      <3>5. ReplyIsOpen' /\ ApprovalIsOpen'
        BY <1>1, <1>3, <1>4, <2>1, <2>2, <3>4 DEF Order, ReplyIsOpen, ApprovalIsOpen
      <3> QED BY <2>6, <2>7, <3>3, <3>5 DEF Order
    <2>9. CASE tab' = tab /\ respond' = [respond EXCEPT ![r].pc = "idle"]
      <3>1. respond'[r].pc = "idle"
        BY <1>2, <2>9 DEF Replies
      <3>2. InputFits' /\ ReplyIsOpen'
        BY <1>4, <2>2, <2>9, <3>1 DEF InputFits, ReplyIsOpen
      <3>3. ApprovalIsOpen'
        BY <1>1, <1>3, <2>1, <2>2, <2>9 DEF Order, ApprovalIsOpen, Unanswered
      <3> QED BY <2>6, <2>7, <3>2, <3>3 DEF Order
    <2> QED BY <1>1, <2>8, <2>9
  <1> QED BY <1>1, <1>3, <1>5, ReplyBasics, DialogPartsNext

LEMMA RespondResolvesDialog ==
  ASSUME OneResponder, SessionInv, SessionInv', DialogInv, NEW r \in Responders, RespondResolves(r)
  PROVE  DialogInv'
  <1>1. /\ respond[r].pc = "resolve" /\ closing = 0
        /\ \/ sess' = ResolveApproval(sess, respond[r].ask) /\ UNCHANGED used
           \/ ~tab.open /\ UNCHANGED <<sess, used>>
           \/ Disturbs /\ UNCHANGED sess
        /\ respond' = [respond EXCEPT ![r].pc = "idle"]
        /\ UNCHANGED <<active, closing, ended, snap, send, stop, tab, agent, hooks>>
    BY DEF RespondResolves, Authorized, MainFree
  <1>6. /\ used'.misread = used.misread /\ used'.asks = used.asks
        /\ used.disturbed => used'.disturbed
        /\ Disturbs => used'.disturbed
    BY <1>1 DEF Disturbs, SessionInv, TypeOK, Usage
  <1>2. respond \in [Responders -> Replies] /\ sess \in Sessions
    BY DEF SessionInv, TypeOK
  <1>3. sess'.count = sess.count
    BY <1>1, <1>2, ResolveFields
  <1>4. respond'[r].pc = "idle" /\ \A q \in Responders : q = r
    BY <1>1, <1>2 DEF OneResponder, Replies
  <1>5. ASSUME Undisturbed' PROVE Order'
    <2>1. Undisturbed /\ Order
      BY <1>1, <1>5, <1>6, Was
    <2>9. ~Disturbs
      BY <1>5, <1>6 DEF Undisturbed
    <2>2. /\ sess.state = "awaiting" /\ sess.approval \in {0, respond[r].ask} /\ tab.open
      BY <1>1, <2>1 DEF Order, ReplyIsOpen, SessionOpen
    <2>3. sess'.approval = 0 /\ sess'.state \in {"busy", "awaiting"}
      BY <1>1, <1>2, <2>2, <2>9, ResolveFields
    <2>4. \A u \in Senders : send[u].turn = 0
      BY <2>1, <2>2 DEF Order, OneDelivery
    <2>5. SessionOpen' /\ RestsWhenReady'
      BY <1>1, <1>3, <2>1, <2>3 DEF Order, SessionOpen, RestsWhenReady, AtRest
    <2>6. OneDelivery' /\ InputFits'
      BY <1>1, <1>3, <2>1, <2>4 DEF Order, OneDelivery, InputFits
    <2>7. AskIsOpen'
      <3> SUFFICES ASSUME NEW i \in DOMAIN hooks, hooks[i].what = "ask"
                   PROVE  i = Len(hooks) /\ Unanswered(hooks[i].arg)
        BY <1>1, <1>4, <2>3 DEF AskIsOpen, Unanswered
      <3> QED BY <2>1 DEF Order, AskIsOpen
    <2>8. ReplyIsOpen' /\ ApprovalIsOpen'
      <3>1. 0 <= used.asks
        BY RuntimeAssumption DEF SessionInv, TypeOK, Usage
      <3> QED BY <1>1, <1>4, <1>6, <2>1, <2>3, <3>1 DEF Order, ReplyIsOpen, ApprovalIsOpen
    <2> QED BY <2>5, <2>6, <2>7, <2>8 DEF Order
  <1> QED BY <1>1, <1>3, <1>5, <1>6, ReplyBasics, DialogPartsNext

--------------------------------------------------------------------------------
(* Steps after which the tab is no longer, or was not, the orchestrator's. *)
LEMMA DisturbedFrame ==
  ASSUME DialogInv, ~Undisturbed', UNCHANGED <<snap, send>>,
         sess'.count = sess.count, used'.misread = used.misread, used'.asks = used.asks,
         used.disturbed => used'.disturbed,
         agent'.seen <= sess.count, agent'.ask = agent.ask
  PROVE  DialogInv'
  BY DialogParts, DialogPartsNext DEF KeyAnswersItsDialog, CallsHoldTurns, CountsBounded

LEMMA ModeFields ==
  ASSUME SessionInv, NEW mode
  PROVE  /\ Mode(mode).mode = mode /\ Mode(mode).seen = agent.seen
         /\ Mode(mode).ask = agent.ask
  BY DEF SessionInv, TypeOK, Agents, Mode

LEMMA PromptedFields ==
  ASSUME SessionInv
  PROVE  /\ Prompted.mode = "working" /\ Prompted.seen = sess.count
         /\ Prompted.ask = agent.ask /\ sess.count <= sess.count
  BY RuntimeAssumption DEF SessionInv, TypeOK, Agents, Sessions, Prompted

LEMMA StopInterruptsDialog ==
  ASSUME SessionInv, DialogInv, NEW force, StopInterrupts(force)
  PROVE  DialogInv'
  <1>1. UNCHANGED <<sess, snap, send, agent>> /\ Disturbs
    BY DEF StopInterrupts, sessVars
  <1>2. used'.disturbed /\ used'.misread = used.misread /\ used'.asks = used.asks
    BY <1>1 DEF Disturbs, SessionInv, TypeOK, Usage
  <1>3. ~Undisturbed' /\ agent.seen <= sess.count
    BY <1>2, DialogParts DEF Undisturbed, CountsBounded
  <1> QED BY <1>1, <1>2, <1>3, DisturbedFrame

LEMMA StopAppliesDialog ==
  ASSUME SessionInv, DialogInv, StopApplies
  PROVE  DialogInv'
  <1>1. /\ stop /\ UNCHANGED <<snap, send>> /\ (UNCHANGED used \/ Counted)
        /\ sess' = sess \/ sess' = Transition(sess, "closed")
        /\ agent' = agent \/ agent' = [agent EXCEPT !.mode = "off"]
    BY DEF StopApplies, Stopped, Authorized, Unauthorized
  <1>2. sess'.count = sess.count
    BY <1>1, Parts, ClosedFields
  <1>3. /\ agent'.seen = agent.seen /\ agent'.ask = agent.ask
        /\ agent.mode = "off" => agent'.mode = "off"
    BY <1>1 DEF SessionInv, TypeOK, Agents
  <1>6. /\ used'.misread = used.misread /\ used'.asks = used.asks
        /\ used'.disturbed = used.disturbed
    BY <1>1, CountedFields
  <1>4. ~Undisturbed'
    BY <1>1, <1>3, <1>6, Was DEF Order, SessionOpen
  <1>5. agent'.seen <= sess.count
    BY <1>3, DialogParts DEF CountsBounded
  <1> QED BY <1>1, <1>2, <1>3, <1>4, <1>5, <1>6, DisturbedFrame

LEMMA UserDialog ==
  ASSUME SessionInv, DialogInv,
         AgentExits \/ UserTypesPrompt \/ UserAnswersDialog \/ UserClosesTab
  PROVE  DialogInv'
  <1>1. /\ UNCHANGED <<sess, snap, send>>
        /\ \/ agent' \in {Mode("working"), Prompted} /\ Disturbs
           \/ agent' = Mode("off") /\ Counted
    BY DEF AgentExits, UserTypesPrompt, UserAnswersDialog, UserClosesTab, sessVars, callVars
  <1>2. /\ agent'.seen <= sess.count /\ agent'.ask = agent.ask
        /\ agent'.mode = "off" \/ Disturbs
    BY <1>1, ModeFields, PromptedFields, DialogParts DEF CountsBounded
  <1>3. /\ used'.misread = used.misread /\ used'.asks = used.asks
        /\ used.disturbed => used'.disturbed
        /\ Disturbs => used'.disturbed
    BY <1>1 DEF Disturbs, Counted, SessionInv, TypeOK, Usage
  <1>4. ~Undisturbed'
    BY <1>2, <1>3 DEF Undisturbed
  <1> QED BY <1>1, <1>2, <1>3, <1>4, DisturbedFrame

--------------------------------------------------------------------------------
(* The agent.  Away from an open question, nothing is about to answer one. *)
NothingAsked ==
  /\ \A i \in DOMAIN hooks : hooks[i].what # "ask"
  /\ \A r \in Responders : respond[r].pc # "type"
  /\ sess.approval = 0 \/ \E r \in Responders : respond[r].pc # "idle"

LEMMA NotAsking ==
  ASSUME Order, agent.mode # "asking" \/ tab.input # <<>>
  PROVE  NothingAsked
  BY DEF Order, AskIsOpen, ReplyIsOpen, ApprovalIsOpen, Unanswered, NothingAsked

LEMMA HooksAppended ==
  ASSUME SessionInv, NEW what, NEW arg, Hook(what, arg)
  PROVE  /\ Len(hooks') = Len(hooks) + 1
         /\ \A i \in DOMAIN hooks' :
              \/ i \in DOMAIN hooks /\ hooks'[i] = hooks[i]
              \/ i = Len(hooks') /\ hooks'[i].what = what /\ hooks'[i].arg = arg
  <1>1. hooks \in Seq(HookSet)
    BY DEF SessionInv, TypeOK
  <1> DEFINE x == [what |-> what, arg |-> arg]
  <1>2. hooks' = Append(hooks, x) /\ x.what = what /\ x.arg = arg
    BY DEF Hook
  <1> HIDE DEF x
  <1>3. Len(hooks') = Len(hooks) + 1 /\ DOMAIN hooks' = 1..Len(hooks) + 1
    BY <1>1, <1>2
  <1>4. \A i \in 1..Len(hooks) : i \in DOMAIN hooks /\ hooks'[i] = hooks[i]
    BY <1>1, <1>2
  <1>5. hooks'[Len(hooks) + 1] = x /\ Len(hooks) \in Nat
    BY <1>1, <1>2
  <1>6. \A i \in 1..Len(hooks) + 1 : i \in 1..Len(hooks) \/ i = Len(hooks) + 1
    BY <1>5
  <1> QED BY <1>2, <1>3, <1>4, <1>5, <1>6

(* A step of the agent that asks nothing and leaves nothing to read.       *)
LEMMA AgentFrame ==
  ASSUME Order, NothingAsked, UNCHANGED <<sess, closing, snap, send, respond, stop, used>>,
         tab'.open = tab.open, tab'.input = <<>>, \A s \in Senders : send[s].turn = 0,
         \A i \in DOMAIN hooks' :
           \/ i \in DOMAIN hooks /\ hooks'[i] = hooks[i]
           \/ hooks'[i].what \notin {"ask", "end"},
         RestsWhenReady'
  PROVE  Order'
  <1>1. SessionOpen'
    BY DEF Order, SessionOpen
  <1>2. OneDelivery' /\ InputFits'
    BY DEF OneDelivery, InputFits
  <1>3. AskIsOpen'
    <2>1. \A i \in DOMAIN hooks' : hooks'[i].what # "ask"
      BY DEF NothingAsked
    <2> QED BY <2>1 DEF AskIsOpen
  <1>4. ReplyIsOpen' /\ ApprovalIsOpen'
    BY DEF Order, NothingAsked, ReplyIsOpen, ApprovalIsOpen
  <1> QED BY <1>1, <1>2, <1>3, <1>4 DEF Order

LEMMA AgentBootsDialog ==
  ASSUME SessionInv, SessionInv', DialogInv, AgentBoots
  PROVE  DialogInv'
  <1>1. /\ agent.mode = "starting" /\ agent' = Mode("idle")
        /\ UNCHANGED <<sess, active, closing, ended, snap, send, respond, stop, tab, hooks, used>>
    BY DEF AgentBoots, sessVars, callVars
  <1>2. /\ agent'.mode = "idle" /\ agent'.seen = agent.seen /\ agent'.ask = agent.ask
    BY <1>1, ModeFields
  <1>3. KeyAnswersItsDialog' /\ CallsHoldTurns' /\ CountsBounded'
    BY <1>1, <1>2, DialogParts DEF KeyAnswersItsDialog, CallsHoldTurns, CountsBounded
  <1>4. ASSUME Undisturbed' PROVE Order'
    <2>1. Undisturbed /\ Order
      BY <1>1, <1>4, Was
    <2>2. tab.input = <<>> /\ \A s \in Senders : send[s].turn = 0
      BY <1>1, <2>1 DEF Order, InputFits, OneDelivery
    <2>3. RestsWhenReady'
      BY <1>1, <1>2, <2>2 DEF RestsWhenReady, AtRest
    <2> QED BY <1>1, <2>1, <2>2, <2>3, NotAsking, AgentFrame
  <1> QED BY <1>3, <1>4, DialogPartsNext

(* What the agent reads: a prompt when it is idle, the answer it waits for *)
(* when it asks.                                                           *)
LEMMA AgentReadsDialog ==
  ASSUME SessionInv, SessionInv', DialogInv, AgentReads
  PROVE  DialogInv'
  <1> DEFINE x == Head(tab.input)
  <1>1. /\ tab.input # <<>> /\ tab' = [tab EXCEPT !.input = Tail(@)]
        /\ UNCHANGED <<sess, active, closing, ended, snap, send, respond, stop>>
    BY DEF AgentReads, sessVars, callVars
  <1>2. \/ /\ x.what = "interrupt" /\ (agent' = Mode("idle") \/ agent' = agent)
           /\ agent' = agent \/ agent.mode # "off"
           /\ UNCHANGED <<hooks, used>>
        \/ /\ agent.mode = "idle" /\ agent' = Prompted /\ Hook("prompt", 0)
           /\ used' = [used EXCEPT !.misread = @ \/ x.what = "answer"]
        \/ /\ agent.mode = "asking" /\ agent' = Mode("working") /\ UNCHANGED hooks
           /\ used' = [used EXCEPT !.misread = @ \/ x.what # "answer" \/ x.arg # agent.ask]
        \/ agent.mode = "off" /\ UNCHANGED <<agent, hooks, used>>
    BY DEF AgentReads
  <1>3. tab \in Tabs /\ tab.input \in Seq(Inputs) /\ used \in Usage
    BY DEF SessionInv, TypeOK, Tabs
  <1>4. x = tab.input[1] /\ (Len(tab.input) = 1 => Tail(tab.input) = <<>>)
    <2>1. x = tab.input[1]
      BY <1>1, <1>3
    <2>2. ASSUME NEW t \in Seq(Inputs), Len(t) = 1 PROVE Tail(t) = <<>>
      <3>1. Tail(t) \in Seq(Inputs) /\ Len(Tail(t)) = 0
        BY <2>2
      <3> QED BY <3>1, EmptySeq
    <2> QED BY <1>3, <2>1, <2>2
  <1>5. tab'.input = Tail(tab.input) /\ tab'.open = tab.open
    BY <1>1, <1>3 DEF Tabs
  <1> HIDE DEF x
  <1>6. /\ agent'.seen <= sess.count /\ agent'.ask = agent.ask
        /\ agent.mode = "off" => agent' = agent
    BY <1>2, ModeFields, PromptedFields, DialogParts DEF CountsBounded
  <1>7. /\ used'.asks = used.asks /\ used'.disturbed = used.disturbed
    BY <1>2, <1>3 DEF Usage
  <1>8. CallsHoldTurns' /\ CountsBounded'
    BY <1>1, <1>6, <1>7, DialogParts DEF CallsHoldTurns, CountsBounded
  <1>9. ASSUME Undisturbed
        PROVE  /\ Len(tab.input) = 1 /\ x.what # "interrupt"
               /\ agent.mode = "idle" => x.what # "answer"
               /\ agent.mode = "asking" => x.what = "answer" /\ x.arg = agent.ask
    BY <1>1, <1>4, <1>9, DialogParts DEF Order, InputFits
  <1>10. KeyAnswersItsDialog'
    <2>1. CASE used.disturbed
      BY <1>7, <2>1 DEF KeyAnswersItsDialog
    <2>2. CASE ~used.disturbed /\ agent.mode = "off"
      BY <1>2, <2>2, DialogParts DEF KeyAnswersItsDialog
    <2>3. CASE Undisturbed
      <3>1. used' = used \/ used' = [used EXCEPT !.misread = @ \/ FALSE]
        BY <1>2, <1>9, <2>3 DEF Undisturbed
      <3>2. used'.misread = used.misread
        BY <1>3, <3>1 DEF Usage
      <3> QED BY <1>7, <3>2, DialogParts DEF KeyAnswersItsDialog
    <2> QED BY <2>1, <2>2, <2>3 DEF Undisturbed
  <1>11. ASSUME Undisturbed' PROVE Order'
    <2>1. Undisturbed /\ Order
      BY <1>6, <1>7, <1>11, Was
    <2>2. agent' \in {Mode("working"), Prompted} /\ (UNCHANGED hooks \/ Hook("prompt", 0))
      BY <1>2, <1>9, <2>1 DEF Undisturbed
    <2>3. tab'.input = <<>> /\ \A s \in Senders : send[s].turn = 0
      BY <1>1, <1>4, <1>5, <1>9, <2>1 DEF Order, InputFits
    <2>4. ~AtRest /\ agent.mode # "starting"
      BY <1>1, <2>1 DEF AtRest, Order, InputFits
    <2>5. RestsWhenReady'
      BY <1>1, <2>1, <2>4 DEF Order, RestsWhenReady
    <2>6. \A i \in DOMAIN hooks' :
            \/ i \in DOMAIN hooks /\ hooks'[i] = hooks[i]
            \/ hooks'[i].what \notin {"ask", "end"}
      <3>1. CASE UNCHANGED hooks
        BY <3>1
      <3>2. CASE Hook("prompt", 0)
        BY <3>2, HooksAppended
      <3> QED BY <2>2, <3>1, <3>2
    <2>7. NothingAsked
      BY <1>1, <2>1, NotAsking
    <2>8. SessionOpen'
      BY <1>1, <1>5, <2>1, <2>6 DEF Order, SessionOpen
    <2>9. OneDelivery' /\ InputFits'
      BY <1>1, <2>3 DEF OneDelivery, InputFits
    <2>10. AskIsOpen'
      <3>1. \A i \in DOMAIN hooks' : hooks'[i].what # "ask"
        BY <2>6, <2>7 DEF NothingAsked
      <3> QED BY <3>1 DEF AskIsOpen
    <2>11. ReplyIsOpen' /\ ApprovalIsOpen'
      BY <1>1, <1>7, <2>1, <2>7 DEF Order, NothingAsked, ReplyIsOpen, ApprovalIsOpen
    <2> QED BY <2>5, <2>8, <2>9, <2>10, <2>11 DEF Order
  <1> QED BY <1>8, <1>10, <1>11, DialogPartsNext

(* The agent at work has nothing to read and no prompt on its way.         *)
LEMMA WorkingAlone ==
  ASSUME Undisturbed, Order, agent.mode = "working"
  PROVE  /\ tab.input = <<>> /\ \A s \in Senders : send[s].turn = 0
         /\ NothingAsked /\ ~AtRest
  BY NotAsking DEF Order, InputFits, OneDelivery, AtRest

LEMMA AgentWorksDialog ==
  ASSUME SessionInv, SessionInv', DialogInv, AgentUsesTool \/ AgentFinishes
  PROVE  DialogInv'
  <1>1. /\ agent.mode = "working" /\ (Hook("tool", 0) \/ Hook("complete", 0))
        /\ UNCHANGED <<sess, active, closing, ended, snap, send, respond, stop, tab, used>>
    BY DEF AgentUsesTool, AgentFinishes, sessVars, callVars
  <1>2. /\ agent'.mode \in {"idle", "working"}
        /\ agent'.seen = agent.seen /\ agent'.ask = agent.ask
    <2>1. agent \in Agents /\ "idle" \in Modes
      BY DEF SessionInv, TypeOK, Modes
    <2>2. CASE AgentUsesTool
      BY <2>1, <2>2, ModeFields DEF AgentUsesTool, Agents
    <2>3. CASE AgentFinishes
      <3>1. agent' = [Mode("idle") EXCEPT !.tool = FALSE]
        BY <2>3 DEF AgentFinishes
      <3>2. Mode("idle") \in Agents
        BY <2>1, ModeType
      <3>3. agent'.mode = Mode("idle").mode /\ agent'.seen = Mode("idle").seen
            /\ agent'.ask = Mode("idle").ask
        BY <3>1, <3>2 DEF Agents
      <3> QED BY <3>3, ModeFields
    <2> QED BY <2>2, <2>3
  <1>3. KeyAnswersItsDialog' /\ CallsHoldTurns' /\ CountsBounded'
    BY <1>1, <1>2, DialogParts DEF KeyAnswersItsDialog, CallsHoldTurns, CountsBounded
  <1>4. ASSUME Undisturbed' PROVE Order'
    <2>1. Undisturbed /\ Order
      BY <1>1, <1>4, Was
    <2>2. \A i \in DOMAIN hooks' :
            \/ i \in DOMAIN hooks /\ hooks'[i] = hooks[i]
            \/ hooks'[i].what \notin {"ask", "end"}
      BY <1>1, HooksAppended
    <2>3. /\ tab.input = <<>> /\ \A s \in Senders : send[s].turn = 0
          /\ NothingAsked /\ ~AtRest
      BY <1>1, <2>1, WorkingAlone
    <2>4. RestsWhenReady'
      <3>1. CASE agent'.mode = "idle"
        BY <1>1, <2>3, <3>1 DEF RestsWhenReady, AtRest
      <3>2. CASE agent'.mode = "working"
        BY <1>1, <2>1, <2>3, <3>2 DEF Order, RestsWhenReady
      <3> QED BY <1>2, <3>1, <3>2
    <2> QED BY <1>1, <2>1, <2>2, <2>3, <2>4, AgentFrame
  <1> QED BY <1>3, <1>4, DialogPartsNext

(* A new question: nothing else is left to read or to answer.              *)
LEMMA AgentAsksDialog ==
  ASSUME SessionInv, SessionInv', DialogInv, AgentAsks
  PROVE  DialogInv'
  <1>1. PICK k : k = used.asks + 1
    OBVIOUS
  <1>2. /\ agent.mode = "working" /\ agent' = [Mode("asking") EXCEPT !.ask = k]
        /\ Hook("ask", k) /\ used' = [used EXCEPT !.asks = k]
        /\ UNCHANGED <<sess, active, closing, ended, snap, send, respond, stop, tab>>
    BY <1>1 DEF AgentAsks, sessVars, callVars, SessionInv, TypeOK, Usage
  <1>3. /\ used'.asks = k /\ used'.misread = used.misread /\ used'.disturbed = used.disturbed
        /\ used.asks \in Nat /\ k \in Nat /\ used.asks < k
    BY <1>1, <1>2, RuntimeAssumption DEF SessionInv, TypeOK, Usage
  <1>4. agent'.mode = "asking" /\ agent'.seen = agent.seen /\ agent'.ask = k
    <2>1. "asking" \in Modes
      BY DEF Modes
    <2>2. Mode("asking") \in Agents
      BY <2>1, ModeType
    <2>3. agent'.mode = Mode("asking").mode /\ agent'.seen = Mode("asking").seen /\ agent'.ask = k
      BY <1>2, <2>2 DEF Agents
    <2> QED BY <2>3, ModeFields
  <1>5. KeyAnswersItsDialog' /\ CallsHoldTurns' /\ CountsBounded'
    BY <1>2, <1>3, <1>4, DialogParts DEF KeyAnswersItsDialog, CallsHoldTurns, CountsBounded
  <1>6. ASSUME Undisturbed' PROVE Order'
    <2>1. Undisturbed /\ Order
      BY <1>2, <1>3, <1>6, Was
    <2>2. /\ tab.input = <<>> /\ \A s \in Senders : send[s].turn = 0
          /\ NothingAsked /\ ~AtRest
      BY <1>2, <2>1, WorkingAlone
    <2>3. /\ \A i \in DOMAIN hooks' :
               \/ i \in DOMAIN hooks /\ hooks'[i] = hooks[i]
               \/ i = Len(hooks') /\ hooks'[i].what = "ask" /\ hooks'[i].arg = k
      BY <1>2, HooksAppended
    <2>4. sess.approval \in Nat /\ sess.approval <= used.asks
      BY <2>1, RuntimeAssumption DEF Order, ApprovalIsOpen, SessionInv, TypeOK, Sessions
    <2>5. SessionOpen' /\ OneDelivery' /\ InputFits'
      BY <1>2, <2>1, <2>2, <2>3 DEF Order, SessionOpen, OneDelivery, InputFits
    <2>6. RestsWhenReady'
      BY <1>2, <2>1, <2>2 DEF Order, RestsWhenReady
    <2>7. AskIsOpen'
      <3>1. sess.approval # k
        BY <1>3, <2>4
      <3> QED BY <1>2, <1>4, <2>2, <2>3, <3>1 DEF AskIsOpen, Unanswered, NothingAsked
    <2>8. ReplyIsOpen'
      BY <1>2, <2>1, <2>2 DEF Order, ReplyIsOpen, NothingAsked
    <2>9. ApprovalIsOpen'
      <3>1. sess'.approval <= used'.asks
        BY <1>2, <1>3, <2>4
      <3> QED BY <1>2, <2>2, <3>1 DEF ApprovalIsOpen, NothingAsked
    <2> QED BY <2>5, <2>6, <2>7, <2>8, <2>9 DEF Order
  <1> QED BY <1>5, <1>6, DialogPartsNext

--------------------------------------------------------------------------------
LEMMA InitDialog == Init => DialogInv
  <1> SUFFICES ASSUME Init PROVE DialogInv
    OBVIOUS
  <1>1. /\ sess.count = 0 /\ sess.approval = 0 /\ sess.state = "starting"
    BY DEF Init
  <1>2. /\ KeyAnswersItsDialog /\ CallsHoldTurns /\ CountsBounded
    BY <1>1 DEF Init, KeyAnswersItsDialog, CallsHoldTurns, CountsBounded, NoSnap, NoTime
  <1>3. SessionOpen /\ RestsWhenReady /\ OneDelivery /\ InputFits
    BY <1>1 DEF Init, SessionOpen, RestsWhenReady, OneDelivery, InputFits
  <1>4. AskIsOpen /\ ReplyIsOpen /\ ApprovalIsOpen
    BY <1>1 DEF Init, AskIsOpen, ReplyIsOpen, ApprovalIsOpen
  <1> QED BY <1>2, <1>3, <1>4 DEF DialogInv

LEMMA DialogStep ==
  ASSUME OneResponder, SessionInv, DialogInv, [Next]_vars
  PROVE  DialogInv'
  <1>1. SessionInv'
    BY SessionStep
  <1>2. CASE FinishComplete \/ HandleHook \/ MonitorCaptures \/ MonitorApplies \/ Cleanup
    BY <1>1, <1>2, FinishCompleteDialog, HandleHookDialog, HookPermissionDialog,
       MonitorCapturesDialog, MonitorAppliesDialog, CleanupDialog
  <1>3. CASE PromptWaits \/ (\E c \in Clients : ClientCalls(c))
    BY <1>1, <1>3, PromptWaitsDialog, ClientCallsDialog
  <1>4. CASE \E s \in Senders : SendNext(s)
    BY <1>1, <1>4, SendMarksDialog, SendStartsDialog, SendTypesDialog, SendFailsDialog,
       FailFinishesDialog DEF SendNext
  <1>5. CASE \/ \E r \in Responders, ask \in 1..MaxAsks : RespondReads(r, ask)
             \/ \E r \in Responders : RespondNext(r)
    BY <1>1, <1>5, RespondReadsDialog, RespondTypesDialog, RespondResolvesDialog DEF RespondNext
  <1>6. CASE StopApplies \/ \E force \in BOOLEAN : StopInterrupts(force)
    BY <1>6, StopInterruptsDialog, StopAppliesDialog
  <1>7. CASE AgentBoots \/ AgentReads \/ AgentUsesTool \/ AgentAsks \/ AgentFinishes
    BY <1>1, <1>7, AgentBootsDialog, AgentReadsDialog, AgentWorksDialog, AgentAsksDialog
  <1>8. CASE AgentExits \/ UserTypesPrompt \/ UserAnswersDialog \/ UserClosesTab
    BY <1>8, UserDialog
  <1>9. CASE UNCHANGED vars
    <2>1. CallsHoldTurns'
      BY <1>9, DialogParts DEF vars, CallsHoldTurns
    <2> QED BY <1>1, <1>9, <2>1, SteadyFrame DEF vars
  <1> QED BY <1>2, <1>3, <1>4, <1>5, <1>6, <1>7, <1>8, <1>9 DEF Next

(* With one orchestrator to answer, the invariant of what is typed into    *)
(* the tab holds for any clients, turns, requests, policies and faults.    *)
THEOREM DialogsAlwaysSound == OneResponder => (Spec => []DialogInv)
  <1> SUFFICES ASSUME OneResponder PROVE Spec => []DialogInv
    OBVIOUS
  <1>1. SessionInv /\ DialogInv /\ [Next]_vars => DialogInv'
    BY DialogStep
  <1> QED BY <1>1, InitDialog, SessionAlwaysSound, PTL DEF Spec

(* The key typed for an approval is read by the dialog that asked for it,  *)
(* and no prompt by a dialog, until the user types in the tab, the session *)
(* is stopped, or a late Stop hook closes a turn the agent is still at.    *)
THEOREM KeysAnswerTheirDialogs == OneResponder => (Spec => []KeyAnswersItsDialog)
  <1> SUFFICES ASSUME OneResponder PROVE Spec => []KeyAnswersItsDialog
    OBVIOUS
  <1>1. DialogInv => KeyAnswersItsDialog
    BY DEF DialogInv
  <1> QED BY <1>1, DialogsAlwaysSound, PTL

================================================================================
