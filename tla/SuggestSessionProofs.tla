------------------------ MODULE SuggestSessionProofs ------------------------
(***************************************************************************)
(* What the suggestion session promises for any number of edges and        *)
(* requests, whatever the agents and the dashboard do.                     *)
(***************************************************************************)
EXTENDS SuggestSession, SequenceTheorems, TLAPS

-----------------------------------------------------------------------------
(* Types.                                                                  *)

\* Every session was asked for.
Counted == started <= requests

LEMMA NoWorkerType == NoWorker \in Worker
BY ConstantsAssumption, <<>> \in Seq(Turns) DEF Worker, Places, NoWorker, Turns

LEMMA TypeInit == Init => TypeOK /\ Counted
<1> SUFFICES ASSUME Init PROVE TypeOK /\ Counted
  OBVIOUS
<1>1. inner \in Inner /\ view \in View
  BY ConstantsAssumption DEF Init, Inner, Idle, View, IdleView, Turns, Phases
<1>2. worker \in [Sessions -> Worker]
  BY NoWorkerType DEF Init
<1>3. unsent \in Seq(Event) /\ stream \in Seq(Event) /\ replies \in Seq(Answer)
  BY DEF Init
<1>4. started \in 0..MaxRequests /\ requests \in 0..MaxRequests /\ Counted
  BY ConstantsAssumption DEF Init, Counted
<1>5. late \in BOOLEAN /\ overtaken \in BOOLEAN /\ astray \subseteq {"session", "list"}
  BY DEF Init
<1> QED
  BY <1>1, <1>2, <1>3, <1>4, <1>5 DEF TypeOK

LEMMA RemoveAtIsSeq ==
    ASSUME NEW S, NEW s \in Seq(S), NEW i \in 1..Len(s)
    PROVE  RemoveAt(s, i) \in Seq(S)
<1>1. SubSeq(s, 1, i - 1) \in Seq(S)
  BY SubSeqProperties
<1>2. SubSeq(s, i + 1, Len(s)) \in Seq(S)
  BY SubSeqProperties
<1> QED
  BY <1>1, <1>2, ConcatProperties DEF RemoveAt

(* The values that the actions write.                                      *)
LEMMA Workers ==
    /\ NoWorker \in Worker /\ Gone \in Worker /\ NewWorker \in Worker
    /\ \A w \in Worker, at \in Places : [w EXCEPT !.at = at] \in Worker
<1>1. Gone \in Worker
  BY NoWorkerType DEF Worker, Gone, Places
<1>2. <<NoEdge>> \in Seq(Turns)
  BY DEF Turns
<1>3. NewWorker \in Worker
  BY <1>2, NoWorkerType DEF Worker, NewWorker, Places
<1>4. \A w \in Worker, at \in Places : [w EXCEPT !.at = at] \in Worker
  BY DEF Worker
<1> QED
  BY <1>1, <1>3, <1>4, NoWorkerType

LEMMA Sayings ==
    ASSUME NEW state \in {"started", "suggestions_ready", "revising", "revision_ready",
                          "error", "ended"},
           NEW by \in 0..MaxRequests
    PROVE  /\ Say(state, by) \in Event
           /\ \A answer \in BOOLEAN : [Say(state, by) EXCEPT !.answer = answer] \in Event
           /\ \A edge \in Turns, queued \in SUBSET Edges :
                [Say(state, by) EXCEPT !.edge = edge, !.queued = queued] \in Event
BY DEF Say, Event, Turns

LEMMA ShownIsView ==
    ASSUME view \in View, NEW event \in Event
    PROVE  Shown(event) \in View
<1>1. IdleView \in View
  BY DEF View, IdleView, Turns, Phases
<1>2. /\ event.edge \in Turns /\ event.queued \in SUBSET Edges /\ view.active \in BOOLEAN
      /\ event.state \in {"started", "suggestions_ready", "revising", "revision_ready",
                          "error", "ended"}
  BY DEF Event, View
<1> QED
  BY <1>1, <1>2 DEF Shown, View, Turns, Phases

LEMMA OvertakeType ==
    ASSUME NEW answer \in Answer
    PROVE  Overtake(answer) \in Answer
<1>1. answer.behind \in Nat
  BY DEF Answer
<1>2. CASE answer.behind = 0
  BY <1>2 DEF Overtake, Answer
<1>3. CASE answer.behind # 0
  <2>1. answer.behind - 1 \in Nat
    BY <1>1, <1>3
  <2> QED
    BY <2>1, <1>3 DEF Overtake, Answer
<1> QED
  BY <1>2, <1>3

\* What a worker's change of inner leaves well typed.
LEMMA ChangeType ==
    ASSUME TypeOK, Counted, NEW s \in Sessions, NEW new \in Inner, NEW event \in Event,
           Change(s, new, event), NEW w \in Worker, worker' = [worker EXCEPT ![s] = w]
    PROVE  TypeOK' /\ Counted'
BY DEF TypeOK, Counted, Change, dashboard, Worker

LEMMA TypeStep == TypeOK /\ Counted /\ [Next]_vars => TypeOK' /\ Counted'
<1> SUFFICES ASSUME TypeOK, Counted, [Next]_vars PROVE TypeOK' /\ Counted'
  OBVIOUS
<1>a. /\ MaxRequests \in Nat /\ started \in Nat /\ requests \in Nat
      /\ \A s \in Sessions : s \in 0..MaxRequests /\ worker[s] \in Worker
      /\ worker \in [Sessions -> Worker] /\ inner \in Inner
  BY ConstantsAssumption DEF TypeOK, Sessions
<1>b. \A s \in Sessions : /\ worker[s].turns \in Seq(Turns)
                          /\ worker[s].turn \in Turns
                          /\ worker[s].resume \in 0..MaxRequests
                          /\ worker[s].aborted \in BOOLEAN
                          /\ worker[s].at \in Places
  BY <1>a DEF Worker
<1>c. /\ inner.queued \in SUBSET Edges /\ inner.session \in 0..MaxRequests
      /\ inner.revising \in Turns /\ inner.phase \in Phases /\ inner.active \in BOOLEAN
  BY <1>a DEF Inner
<1>d. NoEdge \in Turns /\ Edges \subseteq Turns /\ Idle \in Inner /\ 0 \in 0..MaxRequests
  BY <1>a DEF Turns, Idle, Inner, Phases
<1>1. CASE Start
  <2>1. started + 1 \in Sessions
    BY <1>1, <1>a DEF Start, Counted, Sessions
  <2>2. inner' \in Inner
    BY <1>1, <1>d DEF Start, Inner, Phases
  <2>3. worker' \in [Sessions -> Worker]
    BY <1>1, <1>a, <2>1, Workers DEF Start
  <2>4. unsent' \in Seq(Event)
    <3>1. Say("started", 0) \in Event
      BY <1>d, Sayings
    <3> QED
      BY <1>1, <3>1 DEF Start, TypeOK
  <2> QED
    BY <1>1, <1>a, <2>1, <2>2, <2>3, <2>4 DEF Start, TypeOK, Counted, dashboard, history, Sessions
<1>2. CASE EndFails
  <2>1. IdleView \in View
    BY <1>d DEF IdleView, View, Phases
  <2> QED
    BY <1>2, <1>a, <2>1 DEF EndFails, TypeOK, Counted
<1>3. ASSUME NEW e \in Edges, Revise(e), replies' \in Seq(Answer)
      PROVE  TypeOK' /\ Counted'
  <2>1. inner' \in Inner
    BY <1>3, <1>a, <1>c DEF Revise, Inner
  <2>2. worker' \in [Sessions -> Worker]
    <3>1. CASE started \in Sessions
      <4>1. Append(worker[started].turns, e) \in Seq(Turns)
        BY <3>1, <1>b, <1>d
      <4>2. [worker[started] EXCEPT !.turns = Append(worker[started].turns, e)] \in Worker
        BY <3>1, <4>1, <1>a DEF Worker
      <4>3. worker' = [worker EXCEPT ![started] =
               [worker[started] EXCEPT !.turns = Append(worker[started].turns, e)]]
        BY <1>3 DEF Revise
      <4> QED
        BY <4>2, <4>3, <1>a
    <3>2. CASE started \notin Sessions
      BY <1>3, <3>2, <1>a DEF Revise
    <3> QED
      BY <3>1, <3>2
  <2> QED
    BY <1>3, <1>a, <2>1, <2>2 DEF Revise, TypeOK, Counted, history
<1>4. ASSUME NEW e \in Edges, ReviseHere(e) PROVE TypeOK' /\ Counted'
  <2>1. Answered(e) \in Answer
    BY <1>d DEF Answered, Answer, TypeOK
  <2> QED
    BY <1>4, <1>3, <1>d, <2>1 DEF ReviseHere, TypeOK
<1>5. ASSUME NEW e \in Edges, ReviseElsewhere(e) PROVE TypeOK' /\ Counted'
  BY <1>5, <1>3 DEF ReviseElsewhere, TypeOK
<1>6. ASSUME NEW here \in BOOLEAN, End(here) PROVE TypeOK' /\ Counted'
  <2>1. worker' \in [Sessions -> Worker]
    <3>1. CASE started \in Sessions
      <4>1. [worker[started] EXCEPT !.aborted = TRUE] \in Worker
        BY <3>1, <1>a DEF Worker
      <4>2. Aborted(started) \subseteq Worker
        BY <4>1, Workers DEF Aborted
      <4> QED
        BY <1>6, <4>2, <1>a DEF End
    <3>2. CASE started \notin Sessions
      BY <1>6, <3>2, <1>a DEF End
    <3> QED
      BY <3>1, <3>2
  <2>2. unsent' \in Seq(Event)
    <3>1. [Say("ended", 0) EXCEPT !.answer = here] \in Event
      BY <1>d, Sayings
    <3> QED
      BY <1>6, <3>1 DEF End, TypeOK
  <2> QED
    BY <1>6, <1>a, <1>d, <2>1, <2>2 DEF End, TypeOK, Counted, dashboard, history
<1>7. ASSUME NEW s \in Sessions, Recv(s) PROVE TypeOK' /\ Counted'
  <2> DEFINE w == [worker[s] EXCEPT !.turns = Tail(worker[s].turns), !.turn = Head(worker[s].turns),
                     !.at = IF Head(worker[s].turns) = NoEdge THEN "agent" ELSE "taken"]
  <2>1. Head(worker[s].turns) \in Turns /\ Tail(worker[s].turns) \in Seq(Turns)
    BY <1>7, <1>b, HeadTailProperties DEF Recv
  <2>2. (IF Head(worker[s].turns) = NoEdge THEN "agent" ELSE "taken") \in Places
    BY DEF Places
  <2>3. w \in Worker
    BY <2>1, <2>2, <1>a DEF Worker
  <2>4. worker' = [worker EXCEPT ![s] = w]
    BY <1>7 DEF Recv
  <2>5. worker' \in [Sessions -> Worker]
    BY <2>3, <2>4, <1>a
  <2> QED
    BY <1>7, <2>5 DEF Recv, TypeOK, Counted, dashboard, history
<1>8. ASSUME NEW s \in Sessions, Dropped(s) \/ Quit(s) PROVE TypeOK' /\ Counted'
  <2>1. worker' \in [Sessions -> Worker]
    BY <1>8, <1>a, Workers DEF Dropped, Quit
  <2> QED
    BY <1>8, <2>1 DEF Dropped, Quit, TypeOK, Counted, dashboard, history
<1>9. ASSUME NEW s \in Sessions, BeginRevision(s) PROVE TypeOK' /\ Counted'
  <2> DEFINE queued == inner.queued \ {worker[s].turn}
             new == [inner EXCEPT !.queued = queued, !.revising = worker[s].turn,
                                  !.phase = "revising"]
             event == [Say("revising", s) EXCEPT !.edge = worker[s].turn, !.queued = queued]
             w == [worker[s] EXCEPT !.at = "emit", !.resume = inner.session]
  <2>1. new \in Inner
    BY <1>a, <1>b, <1>c DEF Inner, Phases
  <2>2. event \in Event
    BY <1>a, <1>b, <1>c, Sayings
  <2>3. w \in Worker
    BY <1>a, <1>c DEF Worker, Places
  <2>4. Change(s, new, event) /\ worker' = [worker EXCEPT ![s] = w]
    BY <1>9 DEF BeginRevision, Revising
  <2> QED
    BY <2>1, <2>2, <2>3, <2>4, ChangeType
<1>10. ASSUME NEW s \in Sessions, AgentAnswers(s) \/ AgentFails(s) PROVE TypeOK' /\ Counted'
  <2>1. PICK how \in {"answered", "failed"} : AgentEnds(s, how)
    BY <1>10 DEF AgentAnswers, AgentFails
  <2>2. [worker[s] EXCEPT !.at = how] \in Worker
    BY <1>a, Workers DEF Places
  <2>3. worker' = [worker EXCEPT ![s] = [worker[s] EXCEPT !.at = how]]
    BY <2>1 DEF AgentEnds, GoTo
  <2>4. worker' \in [Sessions -> Worker]
    BY <2>2, <2>3, <1>a
  <2> QED
    BY <2>1, <2>4 DEF AgentEnds, TypeOK, Counted, dashboard, history
<1>11. ASSUME NEW s \in Sessions, Succeed(s) PROVE TypeOK' /\ Counted'
  <2> DEFINE new == [inner EXCEPT
                       !.session = IF worker[s].resume = 0 THEN s ELSE worker[s].resume,
                       !.phase = "reviewing",
                       !.revising = IF worker[s].turn = NoEdge THEN inner.revising ELSE NoEdge]
             event == Say(IF worker[s].turn = NoEdge THEN "suggestions_ready"
                                                     ELSE "revision_ready", s)
             w == [worker[s] EXCEPT !.at = "emit", !.turn = NoEdge, !.resume = 0]
  <2>1. new \in Inner
    BY <1>a, <1>b, <1>c, <1>d DEF Inner, Phases
  <2>2. event \in Event
    BY <1>a, Sayings
  <2>3. w \in Worker
    BY <1>a, <1>d DEF Worker, Places
  <2>4. Change(s, new, event) /\ worker' = [worker EXCEPT ![s] = w]
    BY <1>11 DEF Succeed, Done
  <2> QED
    BY <2>1, <2>2, <2>3, <2>4, ChangeType
<1>12. ASSUME NEW s \in Sessions, FailTurn(s) PROVE TypeOK' /\ Counted'
  <2> DEFINE new == [inner EXCEPT !.phase = "reviewing", !.revising = NoEdge]
             w == [worker[s] EXCEPT !.at = "emit", !.turn = NoEdge, !.resume = 0]
  <2>1. new \in Inner
    BY <1>a, <1>d DEF Inner, Phases
  <2>2. Say("error", s) \in Event
    BY <1>a, Sayings
  <2>3. w \in Worker
    BY <1>a, <1>d DEF Worker, Places
  <2>4. Change(s, new, Say("error", s)) /\ worker' = [worker EXCEPT ![s] = w]
    BY <1>12 DEF FailTurn, Done
  <2> QED
    BY <2>1, <2>2, <2>3, <2>4, ChangeType
<1>13. ASSUME NEW i \in 1..Len(unsent), Emit(i) PROVE TypeOK' /\ Counted'
  <2>1. unsent \in Seq(Event) /\ unsent[i] \in Event
    BY DEF TypeOK
  <2>2. unsent' \in Seq(Event)
    BY <1>13, <2>1, RemoveAtIsSeq DEF Emit
  <2>3. stream' \in Seq(Event)
    BY <1>13, <2>1 DEF Emit, TypeOK
  <2>4. replies' \in Seq(Answer)
    <3>1. Len(stream) \in Nat
      BY DEF TypeOK
    <3>2. Answered(NoEdge) \in Answer /\ Answered(NoEdge).behind + 1 \in Nat
      BY <1>d, <3>1 DEF Answered, Answer
    <3>3. [Answered(NoEdge) EXCEPT !.behind = Answered(NoEdge).behind + 1] \in Answer
      BY <3>2 DEF Answer
    <3> QED
      BY <1>13, <3>3 DEF Emit, TypeOK
  <2>5. worker' \in [Sessions -> Worker]
    <3>1. unsent[i].by \in 0..MaxRequests
      BY <2>1 DEF Event
    <3>2. \A s \in Sessions : Emitted(worker[s], unsent[i].state) \in Worker
      BY <1>a, Workers DEF Emitted, Places
    <3>3. CASE unsent[i].by # 0 /\ worker[unsent[i].by].at = "emit"
      <4>1. unsent[i].by \in Sessions
        BY <3>1, <3>3, <1>a DEF Sessions
      <4> QED
        BY <1>13, <3>2, <3>3, <4>1, <1>a DEF Emit
    <3>4. CASE ~(unsent[i].by # 0 /\ worker[unsent[i].by].at = "emit")
      BY <1>13, <3>4, <1>a DEF Emit
    <3> QED
      BY <3>3, <3>4
  <2> QED
    BY <1>13, <2>2, <2>3, <2>4, <2>5 DEF Emit, TypeOK, Counted
<1>14. CASE HandleEvent
  <2>1. Head(stream) \in Event /\ stream' \in Seq(Event)
    BY <1>14, HeadTailProperties DEF HandleEvent, TypeOK
  <2>2. view' \in View
    BY <1>14, <2>1, ShownIsView DEF HandleEvent, TypeOK
  <2>3. \A i \in 1..Len(replies) : Overtake(replies[i]) \in Answer
    BY OvertakeType DEF TypeOK
  <2>4. replies' \in Seq(Answer)
    BY <1>14, <2>3, Len(replies) \in Nat DEF HandleEvent, TypeOK
  <2> QED
    BY <1>14, <2>1, <2>2, <2>4 DEF HandleEvent, TypeOK, Counted, history
<1>15. ASSUME NEW i \in 1..Len(replies), HandleAnswer(i) PROVE TypeOK' /\ Counted'
  <2>1. replies \in Seq(Answer) /\ replies[i] \in Answer
    BY DEF TypeOK
  <2>2. replies' \in Seq(Answer)
    BY <1>15, <2>1, RemoveAtIsSeq DEF HandleAnswer
  <2>3. view' \in View
    BY <1>15, <2>1 DEF HandleAnswer, TypeOK, View, IdleView, Answer, Turns, Phases
  <2>4. astray' \subseteq {"session", "list"}
    BY <1>15, <2>1 DEF HandleAnswer, TypeOK
  <2> QED
    BY <1>15, <2>2, <2>3, <2>4 DEF HandleAnswer, TypeOK, Counted
<1>16. CASE UNCHANGED vars
  BY <1>16 DEF vars, TypeOK, Counted
<1> QED
  BY <1>1, <1>2, <1>4, <1>5, <1>6, <1>7, <1>8, <1>9, <1>10, <1>11, <1>12, <1>13, <1>14, <1>15, <1>16
  DEF Next, RequestStep, Work, EmitStep

(* Every reachable state is well typed, and no session was started that    *)
(* nobody asked for.                                                       *)
THEOREM TypeCorrect == Spec => [](TypeOK /\ Counted)
<1>1. Init => TypeOK /\ Counted
  BY TypeInit
<1>2. (TypeOK /\ Counted) /\ [Next]_vars => (TypeOK /\ Counted)'
  BY TypeStep
<1> QED
  BY <1>1, <1>2, PTL DEF Spec

-----------------------------------------------------------------------------
(* The sessions do not mix.                                                *)

Over(s) == worker[s].aborted \/ worker[s].at \in {"none", "gone"}

\* While a session is active its worker is the only one that nobody has
\* aborted; otherwise there is none.
OneWorker ==
    /\ inner.active => started \in Sessions /\ ~worker[started].aborted
    /\ \A s \in Sessions : ~inner.active \/ s # started => Over(s)

\* Only an aborted worker that still writes can mix up the conversations.
OwnConversation ==
    ~late => /\ inner.session \in {0, started}
             /\ \A s \in Sessions : worker[s].resume \in {0, s}

NothingLeft == ~inner.active => inner.queued = {}

Inv == TypeOK /\ Counted /\ OneWorker /\ OwnConversation /\ NothingLeft /\ QueuedIsBacked

LEMMA SetOfAppend ==
    ASSUME NEW S, NEW q \in Seq(S), NEW e \in S
    PROVE  ToSet(q) \cup {e} \subseteq ToSet(Append(q, e))
<1>1. /\ Len(Append(q, e)) = Len(q) + 1
      /\ \A i \in 1..Len(q) : Append(q, e)[i] = q[i]
      /\ Append(q, e)[Len(q) + 1] = e
      /\ DOMAIN Append(q, e) = 1..(Len(q) + 1) /\ DOMAIN q = 1..Len(q)
      /\ Len(q) \in Nat
  OBVIOUS
<1> QED
  BY <1>1 DEF ToSet

LEMMA SetOfTail ==
    ASSUME NEW S, NEW q \in Seq(S), q # <<>>
    PROVE  ToSet(q) \subseteq {Head(q)} \cup ToSet(Tail(q))
<1>1. /\ Len(q) \in Nat \ {0} /\ Head(q) = q[1]
      /\ Len(Tail(q)) = Len(q) - 1
      /\ \A i \in 1..(Len(q) - 1) : Tail(q)[i] = q[i + 1]
      /\ DOMAIN q = 1..Len(q) /\ DOMAIN Tail(q) = 1..(Len(q) - 1)
  OBVIOUS
<1>2. ASSUME NEW i \in 1..Len(q) PROVE q[i] \in {Head(q)} \cup ToSet(Tail(q))
  <2>1. CASE i = 1
    BY <2>1, <1>1
  <2>2. CASE i # 1
    <3>1. i - 1 \in 1..(Len(q) - 1) /\ Tail(q)[i - 1] = q[i]
      BY <2>2, <1>1
    <3> QED
      BY <3>1, <1>1 DEF ToSet
  <2> QED
    BY <2>1, <2>2
<1> QED
  BY <1>1, <1>2 DEF ToSet

LEMMA InvInit == Init => Inv
<1> SUFFICES ASSUME Init PROVE Inv
  OBVIOUS
<1>1. \A s \in Sessions : worker[s] = NoWorker
  BY DEF Init
<1>2. OneWorker /\ OwnConversation /\ NothingLeft /\ QueuedIsBacked
  BY <1>1 DEF Init, OneWorker, OwnConversation, NothingLeft, QueuedIsBacked, Over, NoWorker, Idle
<1> QED
  BY <1>2, TypeInit DEF Inv

LEMMA OneWorkerStep ==
    ASSUME TypeOK, TypeOK', OneWorker, [Next]_vars
    PROVE  OneWorker'
<1> USE DEF OneWorker, Over
<1>a. worker \in [Sessions -> Worker] /\ inner \in Inner
  BY DEF TypeOK
<1>1. CASE Start
  <2>1. started + 1 \in Sessions
    BY <1>1, ConstantsAssumption DEF Start, TypeOK, Sessions
  <2>2. ~NewWorker.aborted
    BY DEF NewWorker, NoWorker
  <2>3. inner'.active /\ started' = started + 1 /\ worker'[started + 1] = NewWorker
    BY <1>1, <1>a, <2>1 DEF Start, Idle
  <2>4. \A s \in Sessions : s # started' => worker'[s] = worker[s] /\ Over(s)
    BY <1>1, <1>a, <2>3 DEF Start
  <2> QED
    BY <2>1, <2>2, <2>3, <2>4
<1>2. ASSUME NEW e \in Edges, Revise(e) PROVE OneWorker'
  <2>1. started \in Sessions /\ started' = started /\ inner'.active
    BY <1>2, <1>a DEF Revise, Inner
  <2>2. \A s \in Sessions : worker'[s].aborted = worker[s].aborted /\ worker'[s].at = worker[s].at
    BY <1>2, <1>a, <2>1 DEF Revise, Worker
  <2> QED
    BY <2>1, <2>2, <1>2 DEF Revise
<1>3. ASSUME NEW here \in BOOLEAN, End(here) PROVE OneWorker'
  <2>1. ~inner'.active /\ started' = started
    BY <1>3 DEF End, Idle
  <2>2. CASE inner.active
    <3>1. \A w \in Aborted(started) : w.aborted \/ w.at = "gone"
      BY <1>a, <2>2 DEF Aborted, Gone, NoWorker, Worker
    <3> QED
      BY <1>3, <1>a, <2>1, <2>2, <3>1 DEF End
  <2>3. CASE ~inner.active
    BY <1>3, <2>1, <2>3 DEF End
  <2> QED
    BY <2>2, <2>3
<1>b. ASSUME NEW s \in Sessions, started' = started, inner'.active = inner.active,
             NEW w, worker' = [worker EXCEPT ![s] = w],
             \/ w.aborted = worker[s].aborted /\ worker[s].at \notin {"none", "gone"}
             \/ w = Gone
      PROVE  OneWorker'
  BY <1>a, <1>b DEF Gone, NoWorker
<1>4. ASSUME NEW s \in Sessions, Recv(s) PROVE OneWorker'
  <2> DEFINE w == [worker[s] EXCEPT !.turns = Tail(worker[s].turns), !.turn = Head(worker[s].turns),
                     !.at = IF Head(worker[s].turns) = NoEdge THEN "agent" ELSE "taken"]
  <2>1. w.aborted = worker[s].aborted
    BY <1>a DEF Worker
  <2>2. worker' = [worker EXCEPT ![s] = w]
    BY <1>4 DEF Recv
  <2> QED
    BY <1>4, <2>1, <2>2, <1>b DEF Recv
<1>5. ASSUME NEW s \in Sessions, Dropped(s) \/ Quit(s) PROVE OneWorker'
  BY <1>5, <1>b DEF Dropped, Quit
<1>6. ASSUME NEW s \in Sessions, BeginRevision(s) PROVE OneWorker'
  <2> DEFINE w == [worker[s] EXCEPT !.at = "emit", !.resume = inner.session]
  <2>1. w.aborted = worker[s].aborted /\ worker[s].at = "taken"
    BY <1>6, <1>a DEF BeginRevision, Worker
  <2>2. worker' = [worker EXCEPT ![s] = w] /\ started' = started /\ inner'.active = inner.active
    BY <1>6, <1>a DEF BeginRevision, Revising, Change, Inner
  <2> QED
    BY <2>1, <2>2, <1>b
<1>7. ASSUME NEW s \in Sessions, AgentAnswers(s) \/ AgentFails(s) PROVE OneWorker'
  <2>1. PICK how : AgentEnds(s, how)
    BY <1>7 DEF AgentAnswers, AgentFails
  <2>2. [worker[s] EXCEPT !.at = how].aborted = worker[s].aborted /\ worker[s].at = "agent"
    BY <2>1, <1>a DEF AgentEnds, Worker
  <2> QED
    BY <2>1, <2>2, <1>b DEF AgentEnds, GoTo
<1>8. ASSUME NEW s \in Sessions, Succeed(s) \/ FailTurn(s) PROVE OneWorker'
  <2> DEFINE w == [worker[s] EXCEPT !.at = "emit", !.turn = NoEdge, !.resume = 0]
  <2>1. w.aborted = worker[s].aborted /\ worker[s].at \in {"answered", "failed"}
    BY <1>8, <1>a DEF Succeed, FailTurn, Worker
  <2>2. worker' = [worker EXCEPT ![s] = w] /\ started' = started
    BY <1>8 DEF Succeed, FailTurn, Change, Done
  <2>3. inner'.active = inner.active
    BY <1>8, <1>a DEF Succeed, FailTurn, Change, Inner
  <2> QED
    BY <2>1, <2>2, <2>3, <1>b
<1>9. ASSUME NEW i \in 1..Len(unsent), Emit(i) PROVE OneWorker'
  <2> DEFINE s == unsent[i].by
             w == Emitted(worker[s], unsent[i].state)
  <2>1. CASE s # 0 /\ worker[s].at = "emit"
    <3>1. s \in Sessions
      <4>1. unsent[i] \in Event
        BY DEF TypeOK
      <4> QED
        BY <4>1, <2>1, ConstantsAssumption DEF Event, Sessions
    <3>2. w.aborted = worker[s].aborted
      BY <3>1, <1>a DEF Emitted, Worker
    <3>3. worker' = [worker EXCEPT ![s] = w] /\ started' = started /\ inner' = inner
      BY <1>9, <2>1 DEF Emit
    <3> QED
      BY <2>1, <3>1, <3>2, <3>3, <1>b
  <2>2. CASE ~(s # 0 /\ worker[s].at = "emit")
    BY <1>9, <2>2 DEF Emit
  <2> QED
    BY <2>1, <2>2
<1>10. ASSUME UNCHANGED <<inner, started, worker>> PROVE OneWorker'
  BY <1>10
<1> QED
  BY <1>1, <1>2, <1>3, <1>4, <1>5, <1>6, <1>7, <1>8, <1>9, <1>10
  DEF Next, RequestStep, Work, EmitStep, ReviseHere, ReviseElsewhere, EndFails, HandleEvent,
      HandleAnswer, vars

LEMMA OwnConversationStep ==
    ASSUME TypeOK, TypeOK', OneWorker, OwnConversation, [Next]_vars
    PROVE  OwnConversation'
<1> SUFFICES ASSUME ~late'
             PROVE  /\ inner'.session \in {0, started'}
                    /\ \A s \in Sessions : worker'[s].resume \in {0, s}
  BY DEF OwnConversation
<1>a. worker \in [Sessions -> Worker] /\ inner \in Inner
  BY DEF TypeOK
<1>b. ASSUME ~late
      PROVE  inner.session \in {0, started} /\ \A s \in Sessions : worker[s].resume \in {0, s}
  BY <1>b DEF OwnConversation
<1> DEFINE Goal == /\ inner'.session \in {0, started'}
                   /\ \A s \in Sessions : worker'[s].resume \in {0, s}
<1>1. CASE Start
  <2>1. started + 1 \in Sessions
    BY <1>1, ConstantsAssumption DEF Start, TypeOK, Sessions
  <2>2. NewWorker.resume = 0 /\ inner'.session = 0
    BY <1>1 DEF NewWorker, NoWorker, Start, Idle
  <2>3. ~late /\ worker' = [worker EXCEPT ![started + 1] = NewWorker]
    BY <1>1 DEF Start, history
  <2> QED
    BY <2>1, <2>2, <2>3, <1>a, <1>b
<1>2. ASSUME NEW e \in Edges, Revise(e) PROVE Goal
  <2>1. inner'.session = inner.session /\ started' = started /\ ~late
    BY <1>2, <1>a DEF Revise, Inner, history
  <2>2. \A s \in Sessions : worker'[s].resume = worker[s].resume
    BY <1>2, <1>a DEF Revise, Worker
  <2> QED
    BY <2>1, <2>2, <1>b
<1>3. ASSUME NEW here \in BOOLEAN, End(here) PROVE Goal
  <2>1. inner'.session = 0 /\ ~late
    BY <1>3 DEF End, Idle, history
  <2>2. ASSUME started \in Sessions, NEW w \in Aborted(started)
        PROVE  w.resume \in {0, worker[started].resume}
    BY <2>2, <1>a DEF Aborted, Gone, NoWorker, Worker
  <2>3. \A s \in Sessions : worker'[s].resume \in {0, worker[s].resume}
    BY <1>3, <1>a, <2>2 DEF End
  <2> QED
    BY <2>1, <2>3, <1>b
<1>c. ASSUME NEW s \in Sessions, NEW w, worker' = [worker EXCEPT ![s] = w],
             w.resume \in {0, worker[s].resume}, ~late,
             inner'.session = inner.session, started' = started
      PROVE  Goal
  BY <1>a, <1>b, <1>c
<1>d. ASSUME NEW s \in Sessions, worker[s].at \in {"taken", "answered"},
             NEW new, NEW event, Change(s, new, event)
      PROVE  ~late /\ started = s /\ started' = started
  BY <1>d DEF Change, OneWorker, Over
<1>4. ASSUME NEW s \in Sessions, Recv(s) PROVE Goal
  <2> DEFINE w == [worker[s] EXCEPT !.turns = Tail(worker[s].turns), !.turn = Head(worker[s].turns),
                     !.at = IF Head(worker[s].turns) = NoEdge THEN "agent" ELSE "taken"]
  <2>1. w.resume = worker[s].resume
    BY <1>a DEF Worker
  <2>2. worker' = [worker EXCEPT ![s] = w]
    BY <1>4 DEF Recv
  <2> QED
    BY <1>4, <2>1, <2>2, <1>c DEF Recv, history
<1>5. ASSUME NEW s \in Sessions, Dropped(s) \/ Quit(s) PROVE Goal
  <2>1. Gone.resume = 0
    BY DEF Gone, NoWorker
  <2> QED
    BY <1>5, <2>1, <1>c DEF Dropped, Quit, history
<1>6. ASSUME NEW s \in Sessions, BeginRevision(s) PROVE Goal
  <2> DEFINE w == [worker[s] EXCEPT !.at = "emit", !.resume = inner.session]
  <2>1. worker' = [worker EXCEPT ![s] = w] /\ w.resume = inner.session
    BY <1>6, <1>a DEF BeginRevision, Revising, Worker
  <2>2. ~late /\ started = s /\ started' = started
    BY <1>6, <1>d DEF BeginRevision, Revising
  <2>3. inner'.session = inner.session
    BY <1>6, <1>a DEF BeginRevision, Revising, Change, Inner
  <2> QED
    BY <2>1, <2>2, <2>3, <1>a, <1>b
<1>7. ASSUME NEW s \in Sessions, AgentAnswers(s) \/ AgentFails(s) PROVE Goal
  <2>1. PICK how : AgentEnds(s, how)
    BY <1>7 DEF AgentAnswers, AgentFails
  <2>2. [worker[s] EXCEPT !.at = how].resume = worker[s].resume
    BY <1>a DEF Worker
  <2> QED
    BY <2>1, <2>2, <1>c DEF AgentEnds, GoTo, history
<1>8. ASSUME NEW s \in Sessions, Succeed(s) PROVE Goal
  <2> DEFINE w == [worker[s] EXCEPT !.at = "emit", !.turn = NoEdge, !.resume = 0]
  <2>1. worker' = [worker EXCEPT ![s] = w] /\ w.resume = 0
    BY <1>8, <1>a DEF Succeed, Done, Worker
  <2>2. ~late /\ started = s /\ started' = started
    BY <1>8, <1>d DEF Succeed
  <2>3. inner'.session = IF worker[s].resume = 0 THEN s ELSE worker[s].resume
    BY <1>8, <1>a DEF Succeed, Change, Inner
  <2> QED
    BY <2>1, <2>2, <2>3, <1>a, <1>b
<1>9. ASSUME NEW s \in Sessions, FailTurn(s) PROVE Goal
  <2> DEFINE w == [worker[s] EXCEPT !.at = "emit", !.turn = NoEdge, !.resume = 0]
  <2>1. worker' = [worker EXCEPT ![s] = w] /\ w.resume = 0
    BY <1>9, <1>a DEF FailTurn, Done, Worker
  <2>2. ~late /\ started' = started /\ inner'.session = inner.session
    BY <1>9, <1>a DEF FailTurn, Change, Inner
  <2> QED
    BY <2>1, <2>2, <1>c
<1>10. ASSUME NEW i \in 1..Len(unsent), Emit(i) PROVE Goal
  <2> DEFINE s == unsent[i].by
             w == Emitted(worker[s], unsent[i].state)
  <2>1. CASE s # 0 /\ worker[s].at = "emit"
    <3>1. s \in Sessions
      <4>1. unsent[i] \in Event
        BY DEF TypeOK
      <4> QED
        BY <4>1, <2>1, ConstantsAssumption DEF Event, Sessions
    <3>2. w.resume = worker[s].resume
      BY <3>1, <1>a DEF Emitted, Worker
    <3>3. worker' = [worker EXCEPT ![s] = w] /\ started' = started /\ inner' = inner /\ ~late
      BY <1>10, <2>1 DEF Emit
    <3> QED
      BY <3>1, <3>2, <3>3, <1>c
  <2>2. CASE ~(s # 0 /\ worker[s].at = "emit")
    BY <1>10, <2>2, <1>b DEF Emit
  <2> QED
    BY <2>1, <2>2
<1>11. ASSUME UNCHANGED <<inner, started, worker, late>> PROVE Goal
  BY <1>11, <1>b
<1> QED
  BY <1>1, <1>2, <1>3, <1>4, <1>5, <1>6, <1>7, <1>8, <1>9, <1>10, <1>11
  DEF Next, RequestStep, Work, EmitStep, ReviseHere, ReviseElsewhere, EndFails, HandleEvent,
      HandleAnswer, vars, history

LEMMA QueuedStep ==
    ASSUME TypeOK, TypeOK', OneWorker, NothingLeft, QueuedIsBacked, [Next]_vars
    PROVE  NothingLeft' /\ QueuedIsBacked'
<1>a. worker \in [Sessions -> Worker] /\ inner \in Inner
  BY DEF TypeOK
<1>b. \A s \in Sessions : worker[s].turns \in Seq(Turns)
  BY <1>a DEF Worker
<1>c. Edges \subseteq Turns /\ NoEdge \notin Edges /\ inner.queued \subseteq Edges
  BY <1>a, ConstantsAssumption DEF Turns, Inner
<1>d. inner.queued # {} => started \in Sessions /\ inner.active /\ ~worker[started].aborted
  BY DEF NothingLeft, OneWorker
<1>1. CASE Start
  BY <1>1 DEF Start, Idle, NothingLeft, QueuedIsBacked
<1>2. ASSUME NEW e \in Edges, Revise(e) PROVE NothingLeft' /\ QueuedIsBacked'
  <2>1. started \in Sessions /\ started' = started /\ inner'.active
    BY <1>2, <1>a DEF Revise, Inner, OneWorker
  <2>2. inner'.queued = inner.queued \cup {e}
    BY <1>2, <1>a DEF Revise, Inner
  <2>3. /\ worker'[started].turns = Append(worker[started].turns, e)
        /\ worker'[started].at = worker[started].at
        /\ worker'[started].turn = worker[started].turn
    BY <1>2, <1>a, <2>1 DEF Revise, Worker
  <2>4. ToSet(worker[started].turns) \cup {e} \subseteq ToSet(worker'[started].turns)
    BY <2>1, <2>3, <1>b, <1>c, SetOfAppend
  <2> QED
    BY <2>1, <2>2, <2>3, <2>4 DEF NothingLeft, QueuedIsBacked
<1>3. ASSUME NEW here \in BOOLEAN, End(here) PROVE NothingLeft' /\ QueuedIsBacked'
  BY <1>3 DEF End, Idle, NothingLeft, QueuedIsBacked
<1>e. ASSUME NEW s \in Sessions, started' = started, NEW w, worker' = [worker EXCEPT ![s] = w],
             w.turns = worker[s].turns, worker[s].at # "taken",
             inner'.active = inner.active, inner'.queued = inner.queued
      PROVE  NothingLeft' /\ QueuedIsBacked'
  BY <1>a, <1>d, <1>e DEF NothingLeft, QueuedIsBacked
<1>4. ASSUME NEW s \in Sessions, Recv(s) PROVE NothingLeft' /\ QueuedIsBacked'
  <2> DEFINE turn == Head(worker[s].turns)
             w == [worker[s] EXCEPT !.turns = Tail(worker[s].turns), !.turn = turn,
                     !.at = IF turn = NoEdge THEN "agent" ELSE "taken"]
  <2>1. /\ w.turns = Tail(worker[s].turns) /\ w.turn = turn
        /\ turn \in Edges => w.at = "taken"
    BY <1>a, <1>c DEF Worker
  <2>2. worker' = [worker EXCEPT ![s] = w]
    BY <1>4 DEF Recv
  <2>3. inner' = inner /\ started' = started /\ worker[s].at = "recv"
    BY <1>4 DEF Recv
  <2>4. ToSet(worker[s].turns) \subseteq {turn} \cup ToSet(Tail(worker[s].turns))
    BY <1>4, <1>b, SetOfTail DEF Recv
  <2>5. ASSUME NEW e \in inner.queued
        PROVE  e \in ToSet(worker'[started].turns)
               \/ (worker'[started].at = "taken" /\ worker'[started].turn = e)
    <3> HIDE DEF w, turn
    <3>1. CASE s = started
      <4>1. e \in ToSet(worker[s].turns)
        BY <3>1, <2>3 DEF QueuedIsBacked
      <4> QED
        BY <3>1, <4>1, <2>1, <2>2, <2>4, <1>a, <1>c
    <3>2. CASE s # started
      BY <3>2, <2>2, <1>a, <1>d DEF QueuedIsBacked
    <3> QED
      BY <3>1, <3>2
  <2> QED
    BY <2>3, <2>5 DEF NothingLeft, QueuedIsBacked
<1>5. ASSUME NEW s \in Sessions, Dropped(s) \/ Quit(s) PROVE NothingLeft' /\ QueuedIsBacked'
  <2>1. inner' = inner /\ started' = started /\ worker' = [worker EXCEPT ![s] = Gone]
    BY <1>5 DEF Dropped, Quit
  <2>2. inner.queued # {} => s # started
    BY <1>5, <1>d DEF Dropped, Quit
  <2> QED
    BY <2>1, <2>2, <1>a, <1>d DEF NothingLeft, QueuedIsBacked
<1>6. ASSUME NEW s \in Sessions, BeginRevision(s) PROVE NothingLeft' /\ QueuedIsBacked'
  <2> DEFINE w == [worker[s] EXCEPT !.at = "emit", !.resume = inner.session]
  <2>1. worker' = [worker EXCEPT ![s] = w] /\ w.turns = worker[s].turns
    BY <1>6, <1>a DEF BeginRevision, Revising, Worker
  <2>2. inner.active /\ started' = started
    BY <1>6 DEF BeginRevision, Revising, Change
  <2>3. inner'.active = inner.active /\ inner'.queued = inner.queued \ {worker[s].turn}
    BY <1>6, <1>a DEF BeginRevision, Revising, Change, Inner
  <2>4. ASSUME NEW e \in inner'.queued
        PROVE  e \in ToSet(worker'[started].turns)
               \/ (worker'[started].at = "taken" /\ worker'[started].turn = e)
    BY <2>1, <2>3, <1>a, <1>d DEF QueuedIsBacked
  <2> QED
    BY <2>2, <2>3, <2>4 DEF NothingLeft, QueuedIsBacked
<1>7. ASSUME NEW s \in Sessions, AgentAnswers(s) \/ AgentFails(s)
      PROVE  NothingLeft' /\ QueuedIsBacked'
  <2>1. PICK how : AgentEnds(s, how)
    BY <1>7 DEF AgentAnswers, AgentFails
  <2>2. [worker[s] EXCEPT !.at = how].turns = worker[s].turns
    BY <1>a DEF Worker
  <2> QED
    BY <2>1, <2>2, <1>e DEF AgentEnds, GoTo
<1>8. ASSUME NEW s \in Sessions, Succeed(s) \/ FailTurn(s)
      PROVE  NothingLeft' /\ QueuedIsBacked'
  <2> DEFINE w == [worker[s] EXCEPT !.at = "emit", !.turn = NoEdge, !.resume = 0]
  <2>1. worker' = [worker EXCEPT ![s] = w] /\ started' = started /\ worker[s].at # "taken"
    BY <1>8 DEF Succeed, FailTurn, Change, Done
  <2>2. w.turns = worker[s].turns
    BY <1>a DEF Worker
  <2>3. inner'.active = inner.active /\ inner'.queued = inner.queued
    BY <1>8, <1>a DEF Succeed, FailTurn, Change, Inner
  <2> QED
    BY <2>1, <2>2, <2>3, <1>e
<1>9. ASSUME NEW i \in 1..Len(unsent), Emit(i) PROVE NothingLeft' /\ QueuedIsBacked'
  <2> DEFINE s == unsent[i].by
             w == Emitted(worker[s], unsent[i].state)
  <2>1. CASE s # 0 /\ worker[s].at = "emit"
    <3>1. s \in Sessions
      <4>1. unsent[i] \in Event
        BY DEF TypeOK
      <4> QED
        BY <4>1, <2>1, ConstantsAssumption DEF Event, Sessions
    <3>2. w.turns = worker[s].turns
      BY <3>1, <1>a DEF Emitted, Worker
    <3>3. worker' = [worker EXCEPT ![s] = w] /\ started' = started /\ inner' = inner
      BY <1>9, <2>1 DEF Emit
    <3> QED
      BY <2>1, <3>1, <3>2, <3>3, <1>e
  <2>2. CASE ~(s # 0 /\ worker[s].at = "emit")
    BY <1>9, <2>2 DEF Emit, NothingLeft, QueuedIsBacked
  <2> QED
    BY <2>1, <2>2
<1>10. ASSUME UNCHANGED <<inner, started, worker>> PROVE NothingLeft' /\ QueuedIsBacked'
  BY <1>10 DEF NothingLeft, QueuedIsBacked
<1> QED
  BY <1>1, <1>2, <1>3, <1>4, <1>5, <1>6, <1>7, <1>8, <1>9, <1>10
  DEF Next, RequestStep, Work, EmitStep, ReviseHere, ReviseElsewhere, EndFails, HandleEvent,
      HandleAnswer, vars

LEMMA Invariant == Spec => []Inv
<1>1. Inv /\ [Next]_vars => Inv'
  BY TypeStep, OneWorkerStep, OwnConversationStep, QueuedStep DEF Inv
<1> QED
  BY <1>1, InvInit, PTL DEF Spec

(* However sessions are started, revised and ended while agents work, no   *)
(* agent resumes the conversation of an earlier session, unless a worker   *)
(* that was aborted between two awaits has still written its session id.   *)
THEOREM NoForeignConversation == Spec => []ResumesOwn
<1>1. Inv => ResumesOwn
  BY DEF Inv, OwnConversation, ResumesOwn
<1> QED
  BY <1>1, Invariant, PTL

(* Whatever the status lists as queued is in the channel or in the hand of *)
(* the worker of the session, for any number of requests for any edges.    *)
THEOREM NothingQueuedForEver == Spec => []QueuedIsBacked
<1>1. Inv => QueuedIsBacked
  BY DEF Inv
<1> QED
  BY <1>1, Invariant, PTL

-----------------------------------------------------------------------------
(* What the dashboard shows.  The events it has not handled yet lead it to  *)
(* the session as it is.                                                   *)

States == {"started", "suggestions_ready", "revising", "revision_ready", "error", "ended"}

\* Where a sequence of events has one of some states.
At(p, states) == {k \in 1..Len(p) : p[k].state \in states}

\* Of what is seen, the last event of these states makes one of the good
\* values; if there is none, it is one already, or is known to be astray.
Leads(p, states, made, seen, good, blind) ==
    IF At(p, states) = {} THEN blind \/ seen \in good
    ELSE \A k \in At(p, states) : (\A j \in At(p, states) : j <= k) => made[p[k]] \in good

LEMMA AtAppend ==
    ASSUME NEW p \in Seq(Event), NEW e \in Event, NEW states
    PROVE  /\ e.state \in states => At(Append(p, e), states) = At(p, states) \cup {Len(p) + 1}
           /\ e.state \notin states => At(Append(p, e), states) = At(p, states)
<1>1. /\ Len(Append(p, e)) = Len(p) + 1 /\ Len(p) \in Nat
      /\ \A i \in 1..Len(p) : Append(p, e)[i] = p[i]
      /\ Append(p, e)[Len(p) + 1] = e
  OBVIOUS
<1>2. 1..(Len(p) + 1) = 1..Len(p) \cup {Len(p) + 1}
  BY <1>1
<1> QED
  BY <1>1, <1>2 DEF At

LEMMA AtTail ==
    ASSUME NEW p \in Seq(Event), p # <<>>, NEW states
    PROVE  \A k : k \in At(Tail(p), states) <=> k \in Nat \ {0} /\ k + 1 \in At(p, states)
<1>1. /\ Len(p) \in Nat \ {0} /\ Len(Tail(p)) = Len(p) - 1
      /\ \A i \in 1..(Len(p) - 1) : Tail(p)[i] = p[i + 1]
  OBVIOUS
<1> QED
  BY <1>1 DEF At

LEMMA LeadsMore ==
    ASSUME NEW p \in Seq(Event), NEW states, NEW made, NEW seen, NEW blind, NEW good, NEW better,
           Leads(p, states, made, seen, good, blind), good \subseteq better
    PROVE  Leads(p, states, made, seen, better, blind)
BY DEF Leads

LEMMA LeadsSeen ==
    ASSUME NEW p \in Seq(Event), NEW states, NEW made, NEW seen, NEW now, NEW blind, NEW after,
           NEW good, Leads(p, states, made, seen, good, blind), At(p, states) = {} => after \/ now \in good
    PROVE  Leads(p, states, made, now, good, after)
BY DEF Leads

LEMMA LeadsAppend ==
    ASSUME NEW p \in Seq(Event), NEW e \in Event, NEW states, NEW made, NEW seen, NEW blind, NEW good, NEW better,
           Leads(p, states, made, seen, good, blind),
           e.state \in states => made[e] \in better,
           e.state \notin states => good \subseteq better
    PROVE  Leads(Append(p, e), states, made, seen, better, blind)
<1>1. /\ Len(p) \in Nat
      /\ \A i \in 1..Len(p) : Append(p, e)[i] = p[i]
      /\ Append(p, e)[Len(p) + 1] = e
  OBVIOUS
<1>2. At(p, states) \subseteq 1..Len(p)
  BY DEF At
<1>3. CASE e.state \in states
  <2>1. At(Append(p, e), states) = At(p, states) \cup {Len(p) + 1}
    BY <1>3, AtAppend
  <2>2. ASSUME NEW k \in At(Append(p, e), states), \A j \in At(Append(p, e), states) : j <= k
        PROVE  k = Len(p) + 1
    BY <1>1, <1>2, <2>1, <2>2
  <2> QED
    BY <1>1, <1>3, <2>1, <2>2 DEF Leads
<1>4. CASE e.state \notin states
  <2>1. At(Append(p, e), states) = At(p, states)
    BY <1>4, AtAppend
  <2>2. \A k \in At(p, states) : Append(p, e)[k] = p[k]
    BY <1>1, <1>2
  <2> QED
    BY <1>4, <2>1, <2>2 DEF Leads
<1> QED
  BY <1>3, <1>4

\* An event is handled; what it makes counts if no later event does.
LEMMA LeadsTail ==
    ASSUME NEW p \in Seq(Event), p # <<>>, NEW states, NEW made, NEW seen, NEW now, NEW good,
           NEW blind, NEW after, Leads(p, states, made, seen, good, blind),
           At(Tail(p), states) = {} /\ ~after => now = IF p[1].state \in states THEN made[p[1]] ELSE seen,
           At(Tail(p), states) = {} /\ ~after => p[1].state \in states \/ ~blind
    PROVE  Leads(Tail(p), states, made, now, good, after)
<1>1. /\ Len(p) \in Nat \ {0}
      /\ \A i \in 1..(Len(p) - 1) : Tail(p)[i] = p[i + 1]
      /\ At(p, states) \subseteq 1..Len(p)
  BY DEF At
<1>2. \A k : k \in At(Tail(p), states) <=> k \in Nat \ {0} /\ k + 1 \in At(p, states)
  BY AtTail
<1>3. CASE At(Tail(p), states) = {}
  <2>1. At(p, states) \subseteq {1}
    <3>1. ASSUME NEW k \in At(p, states), k # 1
          PROVE  FALSE
      <4>1. k - 1 \in Nat \ {0} /\ (k - 1) + 1 = k
        BY <1>1, <3>1
      <4> QED
        BY <1>2, <1>3, <3>1, <4>1
    <3> QED
      BY <3>1
  <2>2. CASE p[1].state \in states
    <3>1. At(p, states) = {1}
      BY <1>1, <2>1, <2>2 DEF At
    <3>2. made[p[1]] \in good
      BY <3>1 DEF Leads
    <3> QED
      BY <1>3, <2>2, <3>2 DEF Leads
  <2>3. CASE p[1].state \notin states
    <3>1. At(p, states) = {}
      BY <2>1, <2>3 DEF At
    <3> QED
      BY <1>3, <2>3, <3>1 DEF Leads
  <2> QED
    BY <2>2, <2>3
<1>4. CASE At(Tail(p), states) # {}
  <2> SUFFICES ASSUME NEW k \in At(Tail(p), states), \A j \in At(Tail(p), states) : j <= k
               PROVE  made[Tail(p)[k]] \in good
    BY <1>4 DEF Leads
  <2>1. k \in Nat \ {0} /\ k + 1 \in At(p, states) /\ Tail(p)[k] = p[k + 1]
    BY <1>1, <1>2
  <2>2. ASSUME NEW j \in At(p, states) PROVE j <= k + 1
    <3>1. j \in 1..Len(p)
      BY <1>1
    <3>2. CASE j = 1
      BY <2>1, <3>2
    <3>3. CASE j # 1
      <4>1. j - 1 \in Nat \ {0} /\ (j - 1) + 1 = j
        BY <3>1, <3>3
      <4>2. j - 1 \in At(Tail(p), states)
        BY <1>2, <2>2, <4>1
      <4>3. j - 1 <= k
        BY <4>2
      <4> QED
        BY <2>1, <3>1, <4>3
    <3> QED
      BY <3>2, <3>3
  <2>3. made[p[k + 1]] \in good
    BY <2>1, <2>2 DEF Leads
  <2> QED
    BY <2>1, <2>3
<1> QED
  BY <1>3, <1>4

LEMMA Joined ==
    ASSUME NEW S, NEW a \in Seq(S), NEW b \in Seq(S)
    PROVE  /\ a \o b \in Seq(S) /\ Len(a \o b) = Len(a) + Len(b)
           /\ \A j \in 1..(Len(a) + Len(b)) :
                (a \o b)[j] = IF j <= Len(a) THEN a[j] ELSE b[j - Len(a)]
BY ConcatProperties

LEMMA AllButFirst ==
    ASSUME NEW S, NEW u \in Seq(S), u # <<>>
    PROVE  /\ SubSeq(u, 2, Len(u)) \in Seq(S)
           /\ Len(SubSeq(u, 2, Len(u))) = Len(u) - 1
           /\ \A i \in 1..(Len(u) - 1) : SubSeq(u, 2, Len(u))[i] = u[i + 1]
<1> DEFINE r == SubSeq(u, 2, Len(u))
           n == Len(u)
<1>1. n \in Nat \ {0} /\ n \in Int /\ \A i \in 2..n : u[i] \in S
  OBVIOUS
<1>2. /\ r \in Seq(S) /\ Len(r) = IF 2 <= n THEN n - 2 + 1 ELSE 0
      /\ \A i \in 1..(n - 2 + 1) : r[i] = u[2 + i - 1]
  BY <1>1, SubSeqProperties
<1> HIDE DEF r, n
<1>3. Len(r) = n - 1
  BY <1>1, <1>2
<1>4. ASSUME NEW i \in 1..(n - 1) PROVE r[i] = u[i + 1]
  <2>1. i \in 1..(n - 2 + 1) /\ 2 + i - 1 = i + 1
    BY <1>1
  <2> QED
    BY <1>2, <2>1
<1> QED
  BY <1>2, <1>3, <1>4 DEF r, n

\* Sending the first of the unsent events leaves them in order.
LEMMA SentInOrder ==
    ASSUME NEW S, NEW s \in Seq(S), NEW u \in Seq(S), u # <<>>
    PROVE  Append(s, u[1]) \o RemoveAt(u, 1) = s \o u
<1>1. Len(u) \in Nat \ {0} /\ Len(s) \in Nat /\ u[1] \in S
  OBVIOUS
<1> DEFINE r == SubSeq(u, 2, Len(u))
           a == Append(s, u[1])
<1>2. r \in Seq(S) /\ Len(r) = Len(u) - 1 /\ \A i \in 1..(Len(u) - 1) : r[i] = u[i + 1]
  BY AllButFirst
<1>3. RemoveAt(u, 1) = r
  <2>1. SubSeq(u, 1, 0) = <<>>
    BY <1>1
  <2>2. <<>> \o r = r
    BY <1>2
  <2> QED
    BY <2>1, <2>2 DEF RemoveAt
<1>4. a \in Seq(S) /\ Len(a) = Len(s) + 1 /\ a[Len(s) + 1] = u[1] /\ \A i \in 1..Len(s) : a[i] = s[i]
  BY <1>1
<1> HIDE DEF r, a
<1>5. Len(a) + Len(r) = Len(s) + Len(u)
  BY <1>1, <1>2, <1>4
<1>6. /\ a \o r \in Seq(S) /\ Len(a \o r) = Len(s) + Len(u)
      /\ \A i \in 1..(Len(s) + Len(u)) : (a \o r)[i] = IF i <= Len(a) THEN a[i] ELSE r[i - Len(a)]
  <2>1. Len(a) + Len(r) = Len(s) + Len(u) /\ a \in Seq(S) /\ r \in Seq(S)
    BY <1>2, <1>4, <1>5
  <2>2. /\ a \o r \in Seq(S) /\ Len(a \o r) = Len(a) + Len(r)
        /\ \A i \in 1..(Len(a) + Len(r)) :
              (a \o r)[i] = IF i <= Len(a) THEN a[i] ELSE r[i - Len(a)]
    BY <2>1, Joined
  <2> QED
    BY <2>1, <2>2
<1>9. /\ s \o u \in Seq(S) /\ Len(s \o u) = Len(s) + Len(u)
      /\ \A i \in 1..(Len(s) + Len(u)) : (s \o u)[i] = IF i <= Len(s) THEN s[i] ELSE u[i - Len(s)]
  BY ConcatProperties
<1>7. ASSUME NEW i \in 1..(Len(s) + Len(u)) PROVE (a \o r)[i] = (s \o u)[i]
  <2>1. CASE i <= Len(s)
    BY <1>1, <1>4, <1>6, <1>9, <2>1
  <2>2. CASE i = Len(s) + 1
    BY <1>1, <1>4, <1>6, <1>9, <2>2
  <2>3. CASE i > Len(s) + 1
    <3>1. (a \o r)[i] = r[i - (Len(s) + 1)] /\ (s \o u)[i] = u[i - Len(s)]
      BY <1>1, <1>4, <1>6, <1>9, <2>3
    <3>2. i - (Len(s) + 1) \in 1..(Len(u) - 1) /\ (i - (Len(s) + 1)) + 1 = i - Len(s)
      BY <1>1, <2>3
    <3> QED
      BY <1>2, <3>1, <3>2
  <2>4. i <= Len(s) \/ i = Len(s) + 1 \/ i > Len(s) + 1
    BY <1>1
  <2> QED
    BY <2>1, <2>2, <2>3, <2>4
<1>8. a \o r = s \o u
  BY <1>6, <1>7, <1>9, SeqEqual
<1> QED
  BY <1>3, <1>8 DEF a, r

LEMMA RemovedAt ==
    ASSUME NEW S, NEW s \in Seq(S), NEW i \in 1..Len(s), NEW k \in 1..Len(RemoveAt(s, i))
    PROVE  \E j \in 1..Len(s) : RemoveAt(s, i)[k] = s[j]
<1> DEFINE a == SubSeq(s, 1, i - 1)
           b == SubSeq(s, i + 1, Len(s))
<1>1. a \in Seq(S) /\ Len(a) = i - 1 /\ \A j \in 1..(i - 1) : a[j] = s[j]
  OBVIOUS
<1>2. b \in Seq(S) /\ Len(b) = Len(s) - i /\ \A j \in 1..(Len(s) - i) : b[j] = s[j + i]
  OBVIOUS
<1>3. RemoveAt(s, i) = a \o b
  BY DEF RemoveAt
<1> HIDE DEF a, b
<1>7. Len(s) \in Nat /\ i \in Nat /\ Len(a) + Len(b) = Len(s) - 1
  BY <1>1, <1>2
<1>8. /\ Len(a \o b) = Len(s) - 1
      /\ \A j \in 1..(Len(s) - 1) : (a \o b)[j] = IF j <= Len(a) THEN a[j] ELSE b[j - Len(a)]
  <2>1. Len(a) + Len(b) = Len(s) - 1 /\ a \in Seq(S) /\ b \in Seq(S)
    BY <1>1, <1>2, <1>7
  <2>2. /\ Len(a \o b) = Len(a) + Len(b)
        /\ \A j \in 1..(Len(a) + Len(b)) :
              (a \o b)[j] = IF j <= Len(a) THEN a[j] ELSE b[j - Len(a)]
    BY <2>1, Joined
  <2> QED
    BY <2>1, <2>2
<1>4. Len(s) \in Nat /\ i \in Nat /\ k \in 1..(Len(s) - 1)
  BY <1>3, <1>7, <1>8
<1>5. CASE k <= i - 1
  <2>1. (a \o b)[k] = a[k] /\ k \in 1..(i - 1)
    BY <1>1, <1>4, <1>5, <1>8
  <2> QED
    BY <1>1, <1>3, <1>4, <2>1
<1>6. CASE k > i - 1
  <2>1. (a \o b)[k] = b[k - (i - 1)] /\ k - (i - 1) \in 1..(Len(s) - i)
    BY <1>1, <1>4, <1>6, <1>8
  <2>2. b[k - (i - 1)] = s[k + 1] /\ k + 1 \in 1..Len(s)
    BY <1>2, <1>4, <2>1
  <2> QED
    BY <1>3, <2>1, <2>2
<1> QED
  BY <1>4, <1>5, <1>6

LEMMA OneMore ==
    ASSUME NEW S, NEW s \in Seq(S), NEW u \in Seq(S), NEW e \in S
    PROVE  s \o Append(u, e) = Append(s \o u, e)
<1>1. s \o u \in Seq(S) /\ <<e>> \in Seq(S)
  BY ConcatProperties
<1>2. Append(u, e) = u \o <<e>> /\ Append(s \o u, e) = (s \o u) \o <<e>>
  BY <1>1, AppendIsConcat
<1>3. (s \o u) \o <<e>> = s \o (u \o <<e>>)
  BY <1>1, ConcatAssociative
<1> QED
  BY <1>2, <1>3

LEMMA OneLess ==
    ASSUME NEW S, NEW s \in Seq(S), NEW u \in Seq(S), s # <<>>
    PROVE  Tail(s) \o u = Tail(s \o u) /\ s \o u # <<>> /\ (s \o u)[1] = Head(s)
<1> DEFINE a == Tail(s)
           p == s \o u
           q == Tail(s \o u)
<1>1. /\ a \in Seq(S) /\ Len(a) = Len(s) - 1 /\ Len(s) \in Nat \ {0} /\ Len(u) \in Nat
      /\ \A i \in 1..(Len(s) - 1) : a[i] = s[i + 1]
  OBVIOUS
<1>2. /\ p \in Seq(S) /\ Len(p) = Len(s) + Len(u)
      /\ \A i \in 1..(Len(s) + Len(u)) : p[i] = IF i <= Len(s) THEN s[i] ELSE u[i - Len(s)]
  BY Joined
<1>3. p # <<>> /\ p[1] = Head(s)
  <2>1. p[1] = s[1]
    BY <1>1, <1>2
  <2>2. Len(p) # 0
    BY <1>1, <1>2
  <2> QED
    BY <1>1, <2>1, <2>2
<1>4. /\ q \in Seq(S) /\ Len(q) = Len(p) - 1 /\ \A i \in 1..(Len(p) - 1) : q[i] = p[i + 1]
  BY <1>2, <1>3
<1> HIDE DEF a, p, q
<1>5. /\ a \o u \in Seq(S) /\ Len(a \o u) = Len(a) + Len(u)
      /\ \A i \in 1..(Len(a) + Len(u)) : (a \o u)[i] = IF i <= Len(a) THEN a[i] ELSE u[i - Len(a)]
  BY <1>1, Joined
<1>6. Len(a \o u) = Len(q) /\ Len(q) = Len(s) + Len(u) - 1
  BY <1>1, <1>2, <1>4, <1>5
<1>7. ASSUME NEW i \in 1..Len(q) PROVE (a \o u)[i] = q[i]
  <2>1. CASE i <= Len(s) - 1
    <3>1. q[i] = s[i + 1]
      BY <1>1, <1>2, <1>4, <1>6, <2>1
    <3>2. (a \o u)[i] = s[i + 1]
      BY <1>1, <1>5, <1>6, <2>1
    <3> QED
      BY <3>1, <3>2
  <2>2. CASE i > Len(s) - 1
    <3>1. /\ i + 1 - Len(s) = i - (Len(s) - 1) /\ ~(i + 1 <= Len(s))
          /\ i + 1 \in 1..(Len(s) + Len(u)) /\ i \in 1..(Len(p) - 1) /\ i \in 1..(Len(a) + Len(u))
      BY <1>1, <1>2, <1>6, <2>2
    <3>2. q[i] = u[i + 1 - Len(s)]
      BY <1>2, <1>4, <3>1
    <3>3. (a \o u)[i] = u[i - (Len(s) - 1)]
      BY <1>1, <1>5, <2>2, <3>1
    <3> QED
      BY <3>1, <3>2, <3>3
  <2> QED
    BY <1>1, <1>6, <2>1, <2>2
<1>8. a \o u = q
  BY <1>4, <1>5, <1>6, <1>7, SeqEqual
<1> QED
  BY <1>3, <1>8 DEF a, p, q

\* What it has not handled: on its way, then not sent yet.
Untold == stream \o unsent

Activating == {"started", "ended"}
Activates == [e \in Event |-> e.state = "started"]

Turning == {"revising", "revision_ready", "error", "ended"}
Turned == [e \in Event |-> IF e.state = "revising" THEN e.edge ELSE NoEdge]

\* Of "error", as the dashboard shows it while the session is active.
PhaseOf == [e \in Event |-> IF e.state = "started" THEN "suggesting"
                            ELSE IF e.state = "revising" THEN "revising"
                            ELSE IF e.state = "ended" THEN "idle"
                            ELSE "reviewing"]

Listing == {"revising", "ended"}
Listed == [e \in Event |-> IF e.state = "revising" THEN e.queued ELSE {}]

Follows ==
    /\ Leads(Untold, Activating, Activates, view.active, {inner.active}, "session" \in astray)
    /\ Leads(Untold, Turning, Turned, view.revising, {inner.revising}, "session" \in astray)
    /\ Leads(Untold, States, PhaseOf, view.phase, {inner.phase}, "session" \in astray)
    /\ Leads(Untold, Listing, Listed, view.queued, SUBSET inner.queued, "list" \in astray)
    /\ Untold # <<>> /\ Untold[Len(Untold)].state = "error" => inner.active

\* An answer to come does no harm: its edge is still queued or an event
\* lists the queue anew, and a session it ends is over or will be.
Fits(a) ==
    /\ a.behind <= Len(stream)
    /\ a.edge # NoEdge => a.edge \in inner.queued \/ \E k \in At(Untold, Listing) : k > a.behind
    /\ a.edge = NoEdge /\ a.behind > 0 => a.behind \in At(Untold, {"ended"})
    /\ a.edge = NoEdge /\ a.behind = 0 => view.active = FALSE /\ view.phase = "idle" /\ view.revising = NoEdge

AnswersFit == \A i \in 1..Len(replies) : replies[i].late \/ Fits(replies[i])

OverIsIdle == ~inner.active => inner.phase = "idle" /\ inner.revising = NoEdge

\* Only the end of a session is awaited.
EndIsAwaited == \A i \in 1..Len(unsent) : unsent[i].answer => unsent[i].state = "ended"

InStep == ~overtaken /\ ~late => Follows /\ AnswersFit /\ OverIsIdle

LEMMA UntoldIsSeq ==
    ASSUME TypeOK
    PROVE  Untold \in Seq(Event) /\ Len(stream) \in Nat /\ Len(Untold) \in Nat
<1>1. Untold \in Seq(Event)
  BY ConcatProperties DEF TypeOK, Untold
<1> QED
  BY <1>1 DEF TypeOK

\* An answer that fits still fits when events are added and only edges that
\* the last of them lists anew leave the queue.
LEMMA StillFits ==
    ASSUME TypeOK, stream' = stream, view' = view, replies' = replies, AnswersFit,
           \A k : k \in At(Untold, Listing) => k \in At(Untold', Listing),
           \A k : k \in At(Untold, {"ended"}) => k \in At(Untold', {"ended"}),
           \/ inner.queued \subseteq inner'.queued
           \/ \E k \in At(Untold', Listing) : k > Len(stream)
    PROVE  AnswersFit'
<1> SUFFICES ASSUME NEW i \in 1..Len(replies), ~replies[i].late PROVE Fits(replies[i])'
  BY DEF AnswersFit
<1> DEFINE a == replies[i]
<1>1. Fits(a)
  BY DEF AnswersFit
<1>2. a.behind \in Nat /\ Len(stream) \in Nat
  <2>1. a \in Answer
    BY DEF TypeOK
  <2> QED
    BY <2>1 DEF TypeOK, Answer
<1> HIDE DEF a
<1>3. a' = a
  BY DEF a
<1>4. a.behind <= Len(stream')
  BY <1>1 DEF Fits
<1>5. ASSUME a.edge # NoEdge
      PROVE  a.edge \in inner'.queued \/ \E k \in At(Untold', Listing) : k > a.behind
  <2>1. CASE \E k \in At(Untold', Listing) : k > Len(stream)
    <3>1. PICK k \in At(Untold', Listing) : k > Len(stream)
      BY <2>1
    <3>2. k \in Nat
      BY DEF At
    <3>3. k > a.behind
      BY <1>1, <1>2, <3>1, <3>2 DEF Fits
    <3> QED
      BY <3>3
  <2>2. CASE inner.queued \subseteq inner'.queued
    BY <1>1, <1>5, <2>2 DEF Fits
  <2> QED
    BY <2>1, <2>2
<1>6. /\ a.edge = NoEdge /\ a.behind > 0 => a.behind \in At(Untold', {"ended"})
      /\ a.edge = NoEdge /\ a.behind = 0 =>
            view'.active = FALSE /\ view'.phase = "idle" /\ view'.revising = NoEdge
  BY <1>1 DEF Fits
<1>7. (a.behind <= Len(stream'))
      /\ (a.edge # NoEdge =>
            a.edge \in inner'.queued \/ \E k \in At(Untold', Listing) : k > a.behind)
  BY <1>4, <1>5
<1>8. Fits(a)'
  BY <1>3, <1>6, <1>7 DEF Fits
<1> QED
  BY <1>8 DEF a

\* A change of the session, and the event that tells of it.
LEMMA Tells ==
    ASSUME TypeOK, NEW e \in Event, unsent' = Append(unsent, e), UNCHANGED dashboard, astray' = astray,
           Follows, AnswersFit,
           inner'.active = IF e.state \in Activating THEN Activates[e] ELSE inner.active,
           inner'.revising = IF e.state \in Turning THEN Turned[e] ELSE inner.revising,
           inner'.phase = PhaseOf[e],
           e.state \in Listing => Listed[e] \subseteq inner'.queued,
           e.state \notin Listing => inner.queued \subseteq inner'.queued,
           e.state = "error" => inner'.active
    PROVE  Follows' /\ AnswersFit'
<1>1. /\ Untold \in Seq(Event) /\ Len(stream) \in Nat /\ Len(Untold) \in Nat
      /\ Untold' = Append(Untold, e) /\ stream' = stream /\ view' = view /\ replies' = replies
      /\ Len(Untold) >= Len(stream)
  <2>1. Untold' = Append(Untold, e)
    BY OneMore DEF TypeOK, Untold, dashboard
  <2>2. Len(Untold) = Len(stream) + Len(unsent) /\ Len(unsent) \in Nat
    BY ConcatProperties DEF TypeOK, Untold
  <2> QED
    BY UntoldIsSeq, <2>1, <2>2 DEF dashboard
<1>2. \A states : At(Untold, states) \subseteq At(Untold', states)
  <2> SUFFICES ASSUME NEW states PROVE At(Untold, states) \subseteq At(Untold', states)
    OBVIOUS
  <2> QED
    BY <1>1, AtAppend
<1>3. e.state \in Listing => Len(Untold) + 1 \in At(Untold', Listing)
  BY <1>1, AtAppend
<1>4. Leads(Untold', Activating, Activates, view'.active, {inner'.active}, "session" \in astray')
  <2>1. /\ e.state \in Activating => Activates[e] \in {inner'.active}
        /\ e.state \notin Activating => {inner.active} \subseteq {inner'.active}
    OBVIOUS
  <2>2. Leads(Append(Untold, e), Activating, Activates, view.active, {inner'.active}, "session" \in astray)
    BY <1>1, <2>1, LeadsAppend DEF Follows
  <2> QED
    BY <1>1, <2>2
<1>5. Leads(Untold', Turning, Turned, view'.revising, {inner'.revising}, "session" \in astray')
  <2>1. /\ e.state \in Turning => Turned[e] \in {inner'.revising}
        /\ e.state \notin Turning => {inner.revising} \subseteq {inner'.revising}
    OBVIOUS
  <2>2. Leads(Append(Untold, e), Turning, Turned, view.revising, {inner'.revising}, "session" \in astray)
    BY <1>1, <2>1, LeadsAppend DEF Follows
  <2> QED
    BY <1>1, <2>2
<1>6. Leads(Untold', States, PhaseOf, view'.phase, {inner'.phase}, "session" \in astray')
  <2>1. e.state \in States /\ PhaseOf[e] \in {inner'.phase}
    BY DEF Event, States
  <2>2. Leads(Append(Untold, e), States, PhaseOf, view.phase, {inner'.phase}, "session" \in astray)
    BY <1>1, <2>1, LeadsAppend DEF Follows
  <2> QED
    BY <1>1, <2>2
<1>7. Leads(Untold', Listing, Listed, view'.queued, SUBSET inner'.queued, "list" \in astray')
  <2>1. /\ e.state \in Listing => Listed[e] \in SUBSET inner'.queued
        /\ e.state \notin Listing => SUBSET inner.queued \subseteq SUBSET inner'.queued
    OBVIOUS
  <2>2. Leads(Append(Untold, e), Listing, Listed, view.queued, SUBSET inner'.queued, "list" \in astray)
    BY <1>1, <2>1, LeadsAppend DEF Follows
  <2> QED
    BY <1>1, <2>2
<1>8. Untold'[Len(Untold')] = e
  BY <1>1
<1>9. Follows'
  BY <1>4, <1>5, <1>6, <1>7, <1>8 DEF Follows
<1>10. AnswersFit'
  <2>1. \/ inner.queued \subseteq inner'.queued
        \/ \E k \in At(Untold', Listing) : k > Len(stream)
    <3>1. Len(Untold) + 1 > Len(stream)
      BY <1>1
    <3> QED
      BY <1>3, <3>1
  <2> QED
    BY <1>1, <1>2, <2>1, StillFits
<1> QED
  BY <1>9, <1>10

\* A step that the dashboard will not hear of.
LEMMA Quiet ==
    ASSUME TypeOK, UNCHANGED <<unsent, stream, view, astray>>, inner.queued \subseteq inner'.queued,
           inner'.active = inner.active, inner'.revising = inner.revising,
           inner'.phase = inner.phase, Follows
    PROVE  Follows'
<1>1. Untold' = Untold /\ Untold \in Seq(Event)
  BY UntoldIsSeq DEF Untold
<1>2. Leads(Untold, Listing, Listed, view.queued, SUBSET inner'.queued, "list" \in astray)
  BY <1>1, LeadsMore DEF Follows
<1> QED
  BY <1>1, <1>2 DEF Follows

LEMMA EachFits ==
    ASSUME replies' \in Seq(Answer),
           \A a \in Answer, i \in 1..Len(replies') : a = replies'[i] /\ ~a.late => Fits(a)'
    PROVE  AnswersFit'
<1> SUFFICES ASSUME NEW i \in 1..Len(replies'), ~replies'[i].late PROVE Fits(replies[i])'
  BY DEF AnswersFit
<1>1. PICK a \in Answer : a = replies'[i]
  OBVIOUS
<1>2. Fits(a)'
  BY <1>1
<1> QED
  BY <1>1, <1>2 DEF Fits

\* The answer to a request of the dashboard: the edge is in the queue.
LEMMA QueuedFits ==
    ASSUME TypeOK, TypeOK', NEW e \in Edges, ReviseHere(e), AnswersFit
    PROVE  AnswersFit'
<1>1. /\ replies \in Seq(Answer) /\ inner \in Inner /\ Len(stream) \in Nat
      /\ Untold' = Untold /\ stream' = stream /\ view' = view
      /\ replies' = Append(replies, Answered(e))
      /\ inner' = [inner EXCEPT !.queued = inner.queued \cup {e}]
  BY DEF TypeOK, ReviseHere, Revise, Untold
<1>2. inner'.queued = inner.queued \cup {e}
  BY <1>1 DEF Inner
<1>3. Answered(e) = [edge |-> e, behind |-> Len(stream), late |-> FALSE]
  BY DEF Answered
<1>4. Answered(e) \in Answer
  BY <1>1, <1>3 DEF Answer, Turns
<1> SUFFICES ASSUME NEW a \in Answer, NEW i \in 1..Len(replies'), a = replies'[i], ~a.late
             PROVE  Fits(a)'
  BY EachFits DEF TypeOK
<1>5. CASE i \in 1..Len(replies)
  <2>1. a = replies[i]
    BY <1>1, <1>4, <1>5
  <2>2. Fits(a)
    BY <1>5, <2>1 DEF AnswersFit
  <2> QED
    BY <1>1, <1>2, <2>2 DEF Fits
<1>6. CASE i \notin 1..Len(replies)
  <2>1. a = Answered(e)
    BY <1>1, <1>4, <1>6
  <2>2. a.edge = e /\ a.behind = Len(stream) /\ e # NoEdge /\ Len(stream) <= Len(stream)
    BY <1>1, <1>3, <2>1, ConstantsAssumption
  <2> QED
    BY <1>1, <1>2, <2>2 DEF Fits
<1> QED
  BY <1>5, <1>6

\* An event is sent, in its turn; the answer to whoever ends the session
\* follows it.
LEMMA SendingFits ==
    ASSUME TypeOK, TypeOK', unsent # <<>>, Emit(1), Follows, AnswersFit, EndIsAwaited
    PROVE  Follows' /\ AnswersFit'
<1>1. /\ replies \in Seq(Answer) /\ Len(stream) \in Nat /\ Len(unsent) \in Nat \ {0}
      /\ unsent[1] \in Event /\ stream \in Seq(Event) /\ unsent \in Seq(Event)
  BY DEF TypeOK
<1>2. /\ inner' = inner /\ view' = view /\ astray' = astray
      /\ stream' = Append(stream, unsent[1]) /\ Len(stream') = Len(stream) + 1
  BY <1>1 DEF Emit
<1>3. Untold' = Untold
  BY <1>1, <1>2, SentInOrder DEF Emit, Untold
<1>4. Follows'
  BY <1>2, <1>3 DEF Follows
<1> DEFINE new == [Answered(NoEdge) EXCEPT !.behind = Answered(NoEdge).behind + 1]
<1>5. /\ new = [edge |-> NoEdge, behind |-> Len(stream) + 1, late |-> FALSE]
      /\ new \in Answer
  <2>1. Answered(NoEdge) = [edge |-> NoEdge, behind |-> Len(stream), late |-> FALSE]
    BY DEF Answered
  <2> PICK b \in Answer : b = Answered(NoEdge)
    BY <2>1, <1>1 DEF Answer, Turns
  <2>4. [b EXCEPT !.behind = b.behind + 1] = [edge |-> b.edge, behind |-> b.behind + 1, late |-> b.late]
    BY DEF Answer
  <2>2. new = [edge |-> NoEdge, behind |-> Len(stream) + 1, late |-> FALSE]
    BY <2>1, <2>4
  <2>3. Len(stream) + 1 \in Nat /\ NoEdge \in Turns
    BY <1>1 DEF Turns
  <2> HIDE DEF new
  <2> QED
    BY <2>2, <2>3 DEF Answer
<1>6. replies' = IF unsent[1].answer THEN Append(replies, new) ELSE replies
  BY DEF Emit
<1> HIDE DEF new
<1> SUFFICES ASSUME NEW a \in Answer, NEW i \in 1..Len(replies'), a = replies'[i], ~a.late
             PROVE  Fits(a)'
  BY <1>4, EachFits DEF TypeOK
<1>7. CASE i \in 1..Len(replies)
  <2>1. a = replies[i]
    BY <1>1, <1>5, <1>6, <1>7
  <2>2. Fits(a) /\ a.behind \in Nat
    BY <1>7, <2>1 DEF AnswersFit, Answer
  <2>3. a.behind <= Len(stream')
    BY <1>1, <1>2, <2>2 DEF Fits
  <2> QED
    BY <1>2, <1>3, <2>2, <2>3 DEF Fits
<1>8. CASE i \notin 1..Len(replies)
  <2>1. a = new /\ unsent[1].answer
    BY <1>1, <1>5, <1>6, <1>8
  <2>2. unsent[1].state = "ended"
    BY <1>1, <2>1 DEF EndIsAwaited
  <2>3. a.edge = NoEdge /\ a.behind = Len(stream) + 1 /\ a.behind > 0
    BY <1>1, <1>5, <2>1
  <2>4. Len(stream) + 1 \in 1..Len(Untold) /\ Untold[Len(stream) + 1] = unsent[1]
    <3>1. /\ Len(Untold) = Len(stream) + Len(unsent)
          /\ \A j \in 1..(Len(stream) + Len(unsent)) :
                Untold[j] = IF j <= Len(stream) THEN stream[j] ELSE unsent[j - Len(stream)]
      BY <1>1, ConcatProperties DEF Untold
    <3>2. /\ Len(stream) + 1 \in 1..(Len(stream) + Len(unsent)) /\ ~(Len(stream) + 1 <= Len(stream))
          /\ Len(stream) + 1 - Len(stream) = 1
      BY <1>1
    <3> QED
      BY <3>1, <3>2
  <2>5. a.behind \in At(Untold', {"ended"})
    BY <1>3, <2>2, <2>3, <2>4 DEF At
  <2>6. a.behind <= Len(stream') /\ ~(a.behind = 0)
    BY <1>1, <1>2, <2>3
  <2> QED
    BY <2>3, <2>5, <2>6 DEF Fits
<1> QED
  BY <1>7, <1>8

\* The dashboard handles an event.
LEMMA HandlingFollows ==
    ASSUME TypeOK, HandleEvent, Follows
    PROVE  Follows'
<1>1. /\ Untold \in Seq(Event) /\ Untold # <<>> /\ Untold[1] \in Event
      /\ Untold' = Tail(Untold) /\ view' = Shown(Untold[1]) /\ inner' = inner
      /\ view \in View /\ astray' = astray \ Mends(Untold[1])
  <2>1. stream # <<>> /\ stream \in Seq(Event) /\ unsent \in Seq(Event)
    BY DEF HandleEvent, TypeOK
  <2>2. Tail(stream) \o unsent = Tail(Untold) /\ Untold # <<>> /\ Untold[1] = Head(stream)
    BY <2>1, OneLess DEF Untold
  <2>3. Head(stream) \in Event
    BY <2>1
  <2> QED
    BY <2>2, <2>3, UntoldIsSeq DEF HandleEvent, Untold, TypeOK
<1> DEFINE e == Untold[1]
<1>2. /\ e.state \in States
      /\ view'.active = IF e.state \in Activating THEN Activates[e] ELSE view.active
      /\ view'.revising = IF e.state \in Turning THEN Turned[e] ELSE view.revising
      /\ view'.queued = IF e.state \in Listing THEN Listed[e] ELSE view.queued
      /\ view'.phase = IF e.state = "error" /\ ~view.active THEN "idle" ELSE PhaseOf[e]
  <2> PICK w \in View : w = view
    BY <1>1
  <2> PICK f \in Event : f = Untold[1]
    BY <1>1
  <2>1. f.state \in States
    BY DEF Event, States
  <2>2. CASE f.state = "started"
    BY <1>1, <2>1, <2>2 DEF Shown, View, Activating, Activates, Turning, Turned, Listing, Listed, PhaseOf
  <2>3. CASE f.state = "suggestions_ready"
    BY <1>1, <2>1, <2>3 DEF Shown, View, Activating, Activates, Turning, Turned, Listing, Listed, PhaseOf
  <2>4. CASE f.state = "revising"
    BY <1>1, <2>1, <2>4 DEF Shown, View, Activating, Activates, Turning, Turned, Listing, Listed, PhaseOf
  <2>5. CASE f.state = "revision_ready"
    BY <1>1, <2>1, <2>5 DEF Shown, View, Activating, Activates, Turning, Turned, Listing, Listed, PhaseOf
  <2>6. CASE f.state = "error"
    BY <1>1, <2>1, <2>6 DEF Shown, View, Activating, Activates, Turning, Turned, Listing, Listed, PhaseOf
  <2>7. CASE f.state = "ended"
    BY <1>1, <2>1, <2>7 DEF Shown, View, IdleView, Activating, Activates, Turning, Turned, Listing, Listed, PhaseOf
  <2> QED
    BY <2>1, <2>2, <2>3, <2>4, <2>5, <2>6, <2>7 DEF States
<1>8. "session" \in astray /\ "session" \notin astray' => e.state = "ended"
  BY <1>1 DEF Mends
<1>9. "list" \in astray /\ "list" \notin astray' => e.state \in Listing
  BY <1>1 DEF Mends, Listing
<1> HIDE DEF e
<1>10. e.state = "ended" => e.state \in Activating /\ e.state \in Turning /\ e.state \in States
  BY DEF Activating, Turning, States
<1>3. Leads(Untold', Activating, Activates, view'.active, {inner'.active}, "session" \in astray')
  <2>1. Leads(Tail(Untold), Activating, Activates, view'.active, {inner.active}, "session" \in astray')
    BY <1>1, <1>2, <1>8, <1>9, <1>10, LeadsTail DEF Follows, e
  <2> QED
    BY <1>1, <2>1
<1>4. Leads(Untold', Turning, Turned, view'.revising, {inner'.revising}, "session" \in astray')
  <2>1. Leads(Tail(Untold), Turning, Turned, view'.revising, {inner.revising}, "session" \in astray')
    BY <1>1, <1>2, <1>8, <1>9, <1>10, LeadsTail DEF Follows, e
  <2> QED
    BY <1>1, <2>1
<1>5. Leads(Untold', Listing, Listed, view'.queued, SUBSET inner'.queued, "list" \in astray')
  <2>1. Leads(Tail(Untold), Listing, Listed, view'.queued, SUBSET inner.queued, "list" \in astray')
    BY <1>1, <1>2, <1>8, <1>9, <1>10, LeadsTail DEF Follows, e
  <2> QED
    BY <1>1, <2>1
<1>6. Leads(Untold', States, PhaseOf, view'.phase, {inner'.phase}, "session" \in astray')
  <2>1. ASSUME At(Tail(Untold), States) = {}, "session" \notin astray' PROVE view'.phase = PhaseOf[e]
    <3>1. CASE e.state # "error"
      BY <1>2, <3>1
    <3>2. CASE e.state = "error"
      <4>1. /\ Len(Untold) \in Nat \ {0} /\ Len(Tail(Untold)) = Len(Untold) - 1
            /\ \A k \in 1..(Len(Untold) - 1) : Tail(Untold)[k] = Untold[k + 1]
            /\ \A k \in 1..Len(Untold) : Untold[k] \in Event
        BY <1>1
      <4>2. Len(Untold) = 1
        <5>1. ASSUME Len(Untold) # 1 PROVE FALSE
          <6>1. 1 \in 1..(Len(Untold) - 1) /\ 2 \in 1..Len(Untold)
            BY <4>1, <5>1
          <6>2. Tail(Untold)[1].state \in States
            BY <4>1, <6>1 DEF Event, States
          <6> QED
            BY <2>1, <4>1, <6>1, <6>2 DEF At
        <5> QED
          BY <5>1
      <4>3. inner.active
        BY <1>1, <3>2, <4>2 DEF Follows, e
      <4>4. At(Untold, Activating) = {}
        BY <3>2, <4>2 DEF At, Activating, e
      <4>5. view.active = inner.active
        BY <1>8, <2>1, <3>2, <4>4 DEF Follows, Leads
      <4> QED
        BY <1>2, <4>3, <4>5
    <3> QED
      BY <3>1, <3>2
  <2>2. Leads(Tail(Untold), States, PhaseOf, view'.phase, {inner.phase}, "session" \in astray')
    BY <1>1, <1>2, <1>8, <1>10, <2>1, LeadsTail DEF Follows, e
  <2> QED
    BY <1>1, <2>2
<1>7. ASSUME Untold' # <<>>, Untold'[Len(Untold')].state = "error" PROVE inner'.active
  <2>1. /\ Len(Untold) \in Nat \ {0} /\ Len(Tail(Untold)) = Len(Untold) - 1
        /\ \A k \in 1..(Len(Untold) - 1) : Tail(Untold)[k] = Untold[k + 1]
        /\ Tail(Untold) \in Seq(Event)
    BY <1>1
  <2>2. Len(Tail(Untold)) # 0
    BY <1>1, <1>7, <2>1
  <2>3. Len(Untold) - 1 \in 1..(Len(Untold) - 1) /\ (Len(Untold) - 1) + 1 = Len(Untold)
    BY <2>1, <2>2
  <2>4. Untold'[Len(Untold')] = Untold[Len(Untold)]
    BY <1>1, <2>1, <2>3
  <2> QED
    BY <1>1, <1>7, <2>4 DEF Follows
<1> QED
  BY <1>3, <1>4, <1>5, <1>6, <1>7 DEF Follows

LEMMA OvertakeIs ==
    ASSUME NEW answer \in Answer
    PROVE  /\ ~Overtake(answer).late => ~answer.late /\ answer.behind > 0
           /\ answer.behind > 0 => Overtake(answer) =
                [edge |-> answer.edge, behind |-> answer.behind - 1, late |-> answer.late]
<1>1. answer.behind \in Nat
  BY DEF Answer
<1>2. CASE answer.behind = 0
  BY <1>2 DEF Overtake, Answer
<1>3. CASE answer.behind # 0
  BY <1>1, <1>3 DEF Overtake, Answer
<1> QED
  BY <1>2, <1>3

\* An event is handled before the answers that were sent after it.
LEMMA HandlingFits ==
    ASSUME TypeOK, TypeOK', HandleEvent, AnswersFit
    PROVE  AnswersFit'
<1>1. /\ Untold \in Seq(Event) /\ Untold # <<>> /\ Untold[1] = Head(stream)
      /\ Untold' = Tail(Untold) /\ view' = Shown(Untold[1]) /\ inner' = inner
      /\ Len(stream') = Len(stream) - 1 /\ Len(stream) \in Nat
  <2>1. stream # <<>> /\ stream \in Seq(Event) /\ unsent \in Seq(Event)
    BY DEF HandleEvent, TypeOK
  <2>2. Tail(stream) \o unsent = Tail(Untold) /\ Untold # <<>> /\ Untold[1] = Head(stream)
    BY <2>1, OneLess DEF Untold
  <2> QED
    BY <2>1, <2>2, UntoldIsSeq DEF HandleEvent, Untold
<1>2. /\ replies \in Seq(Answer) /\ Len(replies') = Len(replies)
      /\ \A i \in 1..Len(replies) : replies'[i] = Overtake(replies[i])
  BY DEF HandleEvent, TypeOK
<1> SUFFICES ASSUME NEW a \in Answer, NEW i \in 1..Len(replies'), a = replies'[i], ~a.late
             PROVE  Fits(a)'
  BY EachFits DEF TypeOK
<1>3. PICK b \in Answer : b = replies[i] /\ a = Overtake(b)
  BY <1>2
<1>4. /\ ~b.late /\ b.behind \in Nat /\ b.behind > 0
      /\ a.edge = b.edge /\ a.behind = b.behind - 1
  BY <1>3, OvertakeIs DEF Answer
<1>5. Fits(b)
  BY <1>2, <1>3, <1>4 DEF AnswersFit
<1>6. \A states, k : k \in At(Tail(Untold), states) <=> k \in Nat \ {0} /\ k + 1 \in At(Untold, states)
  <2> SUFFICES ASSUME NEW states
               PROVE  \A k : k \in At(Tail(Untold), states)
                             <=> k \in Nat \ {0} /\ k + 1 \in At(Untold, states)
    OBVIOUS
  <2> QED
    BY <1>1, AtTail
<1>7. a.behind <= Len(stream')
  BY <1>1, <1>4, <1>5 DEF Fits
<1>8. ASSUME a.edge # NoEdge, ~(a.edge \in inner'.queued)
      PROVE  \E k \in At(Untold', Listing) : k > a.behind
  <2>1. PICK k \in At(Untold, Listing) : k > b.behind
    BY <1>1, <1>4, <1>5, <1>8 DEF Fits
  <2>2. k \in Nat
    BY DEF At
  <2>3. k - 1 \in Nat \ {0} /\ (k - 1) + 1 = k /\ k - 1 > a.behind
    BY <1>4, <2>1, <2>2
  <2>4. k - 1 \in At(Tail(Untold), Listing)
    BY <1>6, <2>3
  <2> QED
    BY <1>1, <2>3, <2>4
<1>9. ASSUME a.edge = NoEdge, a.behind > 0 PROVE a.behind \in At(Untold', {"ended"})
  <2>1. b.behind \in At(Untold, {"ended"})
    BY <1>4, <1>5, <1>9 DEF Fits
  <2>2. a.behind \in Nat \ {0} /\ a.behind + 1 = b.behind
    BY <1>4, <1>9
  <2> QED
    BY <1>1, <1>6, <2>1, <2>2
<1>10. ASSUME a.edge = NoEdge, a.behind = 0
       PROVE  view'.active = FALSE /\ view'.phase = "idle" /\ view'.revising = NoEdge
  <2>1. b.behind = 1
    BY <1>4, <1>10
  <2>2. Untold[1].state = "ended"
    BY <1>4, <1>5, <1>10, <2>1 DEF Fits, At
  <2> QED
    BY <1>1, <2>2 DEF Shown, IdleView
<1> QED
  BY <1>7, <1>8, <1>9, <1>10 DEF Fits

\* The dashboard handles an answer that no event sent after it has overtaken.
LEMMA AnsweringFits ==
    ASSUME TypeOK, TypeOK', NEW i \in 1..Len(replies), HandleAnswer(i),
           Follows, AnswersFit
    PROVE  Follows' /\ AnswersFit'
<1> PICK a \in Answer : a = replies[i]
  BY DEF TypeOK
<1>1. /\ Untold' = Untold /\ stream' = stream /\ inner' = inner /\ Untold \in Seq(Event)
      /\ replies' = RemoveAt(replies, i) /\ replies \in Seq(Answer)
      /\ view' = IF a.edge = NoEdge THEN IdleView
                 ELSE [view EXCEPT !.queued = view.queued \cup {a.edge}]
      /\ view \in View
      /\ astray \subseteq astray'
      /\ a.late => (IF a.edge = NoEdge THEN "session" ELSE "list") \in astray'
  BY UntoldIsSeq DEF HandleAnswer, TypeOK, Untold
<1>2. a.late \/ Fits(a)
  BY <1>1 DEF AnswersFit
<1>3. ASSUME a.edge # NoEdge PROVE Follows'
  <2>1. /\ view'.active = view.active /\ view'.phase = view.phase
        /\ view'.revising = view.revising /\ view'.queued = view.queued \cup {a.edge}
    <3> PICK w \in View : w = view
      BY <1>1
    <3> QED
      BY <1>1, <1>3 DEF View
  <2>2. At(Untold, Listing) = {} => "list" \in astray' \/ view'.queued \in SUBSET inner.queued
    <3>1. At(Untold, Listing) = {} => "list" \in astray' \/ view.queued \in SUBSET inner.queued
      BY <1>1 DEF Follows, Leads
    <3>2. At(Untold, Listing) = {} => "list" \in astray' \/ a.edge \in inner.queued
      BY <1>1, <1>2, <1>3 DEF Fits
    <3> QED
      BY <2>1, <3>1, <3>2
  <2>3. Leads(Untold, Listing, Listed, view'.queued, SUBSET inner.queued, "list" \in astray')
    BY <1>1, <2>2, LeadsSeen DEF Follows
  <2>4. /\ Leads(Untold, Activating, Activates, view'.active, {inner.active}, "session" \in astray')
        /\ Leads(Untold, Turning, Turned, view'.revising, {inner.revising}, "session" \in astray')
        /\ Leads(Untold, States, PhaseOf, view'.phase, {inner.phase}, "session" \in astray')
    BY <1>1, <2>1 DEF Follows, Leads
  <2> QED
    BY <1>1, <2>3, <2>4 DEF Follows
<1>4. ASSUME a.edge = NoEdge PROVE Follows'
  <2>1. /\ view'.active = FALSE /\ view'.phase = "idle" /\ view'.revising = NoEdge
        /\ view'.queued = {}
    BY <1>1, <1>4 DEF IdleView
  <2>4. ASSUME a.late PROVE Follows'
    <3>1. "session" \in astray'
      BY <1>1, <1>4, <2>4
    <3>2. view'.queued \in SUBSET inner.queued
      BY <2>1
    <3>3. Leads(Untold, Listing, Listed, view'.queued, SUBSET inner.queued, "list" \in astray')
      BY <1>1, <3>2, LeadsSeen DEF Follows
    <3>4. Leads(Untold, Activating, Activates, view'.active, {inner.active}, "session" \in astray')
      BY <1>1, <3>1, LeadsSeen DEF Follows
    <3>5. Leads(Untold, Turning, Turned, view'.revising, {inner.revising}, "session" \in astray')
      BY <1>1, <3>1, LeadsSeen DEF Follows
    <3>6. Leads(Untold, States, PhaseOf, view'.phase, {inner.phase}, "session" \in astray')
      BY <1>1, <3>1, LeadsSeen DEF Follows
    <3> QED
      BY <1>1, <3>3, <3>4, <3>5, <3>6 DEF Follows
  <2>2. ASSUME ~a.late, a.behind = 0 PROVE Follows'
    <3>1. view.active = FALSE /\ view.phase = "idle" /\ view.revising = NoEdge
      BY <1>2, <1>4, <2>2 DEF Fits
    <3>2. Leads(Untold, Listing, Listed, view'.queued, SUBSET inner.queued, "list" \in astray')
      <4>1. view'.queued \in SUBSET inner.queued
        BY <2>1
      <4> QED
        BY <1>1, <4>1, LeadsSeen DEF Follows
    <3>3. Leads(Untold, Activating, Activates, view'.active, {inner.active}, "session" \in astray')
      BY <1>1, <2>1, <3>1, LeadsSeen DEF Follows, Leads
    <3>4. Leads(Untold, Turning, Turned, view'.revising, {inner.revising}, "session" \in astray')
      BY <1>1, <2>1, <3>1, LeadsSeen DEF Follows, Leads
    <3>5. Leads(Untold, States, PhaseOf, view'.phase, {inner.phase}, "session" \in astray')
      BY <1>1, <2>1, <3>1, LeadsSeen DEF Follows, Leads
    <3> QED
      BY <1>1, <3>2, <3>3, <3>4, <3>5 DEF Follows
  <2>3. ASSUME ~a.late, a.behind # 0 PROVE Follows'
    <3>1. a.behind > 0
      BY <2>3 DEF Answer
    <3>2. a.behind \in At(Untold, {"ended"})
      BY <1>2, <1>4, <2>3, <3>1 DEF Fits
    <3>3. /\ At(Untold, Activating) # {} /\ At(Untold, Turning) # {}
          /\ At(Untold, States) # {} /\ At(Untold, Listing) # {}
      BY <3>2 DEF At, Activating, Turning, States, Listing
    <3>4. Leads(Untold, Activating, Activates, view'.active, {inner.active}, "session" \in astray')
      BY <1>1, <3>3, LeadsSeen DEF Follows
    <3>5. Leads(Untold, Turning, Turned, view'.revising, {inner.revising}, "session" \in astray')
      BY <1>1, <3>3, LeadsSeen DEF Follows
    <3>6. Leads(Untold, States, PhaseOf, view'.phase, {inner.phase}, "session" \in astray')
      BY <1>1, <3>3, LeadsSeen DEF Follows
    <3>7. Leads(Untold, Listing, Listed, view'.queued, SUBSET inner.queued, "list" \in astray')
      BY <1>1, <3>3, LeadsSeen DEF Follows
    <3> QED
      BY <1>1, <3>4, <3>5, <3>6, <3>7 DEF Follows
  <2> QED
    BY <2>2, <2>3, <2>4
<1>5. Follows'
  BY <1>3, <1>4
<1>6. AnswersFit'
  <2> SUFFICES ASSUME NEW b \in Answer, NEW k \in 1..Len(replies'), b = replies'[k], ~b.late
               PROVE  Fits(b)'
    BY EachFits DEF TypeOK
  <2>1. PICK j \in 1..Len(replies) : b = replies[j]
    BY <1>1, RemovedAt
  <2>2. Fits(b)
    BY <2>1 DEF AnswersFit
  <2>3. view.active = FALSE /\ view.phase = "idle" /\ view.revising = NoEdge
          => view'.active = FALSE /\ view'.phase = "idle" /\ view'.revising = NoEdge
    BY <1>1 DEF View, IdleView
  <2> QED
    BY <1>1, <2>2, <2>3 DEF Fits
<1> QED
  BY <1>5, <1>6

\* A worker that nobody has aborted and that has work in hand is that of the
\* active session.
LEMMA AtWork ==
    ASSUME TypeOK, OneWorker, NEW s \in Sessions, ~worker[s].aborted,
           worker[s].at \in {"taken", "answered", "failed"}
    PROVE  inner.active /\ s = started
BY DEF OneWorker, Over

\* What an event makes of what is seen.
LEMMA Makes ==
    ASSUME NEW e \in Event
    PROVE  /\ Activates[e] = (e.state = "started")
           /\ Turned[e] = IF e.state = "revising" THEN e.edge ELSE NoEdge
           /\ PhaseOf[e] = IF e.state = "started" THEN "suggesting"
                           ELSE IF e.state = "revising" THEN "revising"
                           ELSE IF e.state = "ended" THEN "idle"
                           ELSE "reviewing"
           /\ Listed[e] = IF e.state = "revising" THEN e.queued ELSE {}
BY DEF Activates, Turned, PhaseOf, Listed

LEMMA InStepStep ==
    ASSUME Inv, Inv', EndIsAwaited, InStep, [Next]_vars
    PROVE  InStep'
<1> SUFFICES ASSUME ~overtaken', ~late' PROVE Follows' /\ AnswersFit' /\ OverIsIdle'
  BY DEF InStep
<1>a. TypeOK /\ TypeOK' /\ OneWorker /\ NothingLeft
  BY DEF Inv
<1>b. ~overtaken /\ ~late
  BY <1>a DEF Next, RequestStep, Start, ReviseHere, ReviseElsewhere, Revise, EndFails, End, Work, Recv,
     Dropped, BeginRevision, Revising, Change, Quit, AgentFails, AgentAnswers, AgentEnds, Succeed,
     FailTurn, EmitStep, Emit, HandleEvent, HandleAnswer, history, vars, TypeOK
<1>c. Follows /\ AnswersFit /\ OverIsIdle
  BY <1>b DEF InStep
<1> DEFINE G == Follows' /\ AnswersFit' /\ OverIsIdle'
<1>d. /\ MaxRequests \in Nat /\ 0 \in 0..MaxRequests
      /\ \A s \in Sessions : s \in 0..MaxRequests
      /\ inner \in Inner /\ inner.queued \in SUBSET Edges
      /\ \A s \in Sessions : worker[s] \in Worker /\ worker[s].turn \in Turns
  BY <1>a, ConstantsAssumption DEF TypeOK, Sessions, Inner, Worker
<1>1. CASE Start
  <2> DEFINE e == Say("started", 0)
  <2>1. e \in Event /\ e.state = "started"
    BY <1>d, Sayings DEF Say
  <2>2. /\ inner'.active = TRUE /\ inner'.phase = "suggesting"
        /\ inner'.revising = NoEdge /\ inner'.queued = {}
    BY <1>1 DEF Start, Idle
  <2>3. inner.revising = NoEdge /\ inner.queued = {}
    BY <1>1, <1>a, <1>c DEF Start, OverIsIdle, NothingLeft
  <2>4. unsent' = Append(unsent, e) /\ UNCHANGED dashboard /\ astray' = astray
    BY <1>1 DEF Start, history
  <2> HIDE DEF e
  <2>5. /\ inner'.active = IF e.state \in Activating THEN Activates[e] ELSE inner.active
        /\ inner'.revising = IF e.state \in Turning THEN Turned[e] ELSE inner.revising
        /\ inner'.phase = PhaseOf[e]
        /\ e.state \notin Listing /\ inner.queued \subseteq inner'.queued
    BY <2>1, <2>2, <2>3, Makes DEF Activating, Turning, Listing
  <2>6. Follows' /\ AnswersFit'
    BY <1>a, <1>c, <2>1, <2>4, <2>5, Tells
  <2> QED
    BY <2>2, <2>6 DEF OverIsIdle
<1>2. ASSUME NEW e \in Edges, Revise(e) PROVE OverIsIdle' /\ Follows'
  <2>1. /\ inner'.active = inner.active /\ inner'.phase = inner.phase
        /\ inner'.revising = inner.revising /\ inner.queued \subseteq inner'.queued
    BY <1>2, <1>d DEF Revise, Inner
  <2>2. UNCHANGED <<unsent, stream, view, astray>>
    BY <1>2 DEF Revise, history
  <2>3. Follows'
    BY <1>a, <1>c, <2>1, <2>2, Quiet
  <2> QED
    BY <1>c, <2>1, <2>3 DEF OverIsIdle
<1>3. ASSUME NEW e \in Edges, ReviseHere(e) PROVE G
  <2>1. Revise(e) /\ view' = view
    BY <1>3 DEF ReviseHere, Revise
  <2>2. AnswersFit'
    BY <1>3, <1>a, <1>c, QueuedFits
  <2> QED
    BY <1>2, <2>1, <2>2
<1>4. ASSUME NEW e \in Edges, ReviseElsewhere(e) PROVE G
  <2>1. Revise(e) /\ view' = view /\ stream' = stream /\ unsent' = unsent /\ replies' = replies
    BY <1>4 DEF ReviseElsewhere, Revise
  <2>2. inner.queued \subseteq inner'.queued
    BY <2>1, <1>d DEF Revise, Inner
  <2>3. AnswersFit'
    BY <1>a, <1>c, <2>1, <2>2, StillFits DEF Untold
  <2> QED
    BY <1>2, <2>1, <2>3
<1>5. ASSUME NEW here \in BOOLEAN, End(here) PROVE G
  <2> DEFINE e == [Say("ended", 0) EXCEPT !.answer = here]
  <2>1. e \in Event /\ e.state = "ended"
    BY <1>d, Sayings DEF Say
  <2>2. /\ inner'.active = FALSE /\ inner'.phase = "idle"
        /\ inner'.revising = NoEdge /\ inner'.queued = {}
    BY <1>5 DEF End, Idle
  <2>4. unsent' = Append(unsent, e) /\ UNCHANGED dashboard /\ astray' = astray
    BY <1>5 DEF End, history
  <2> HIDE DEF e
  <2>5. /\ inner'.active = IF e.state \in Activating THEN Activates[e] ELSE inner.active
        /\ inner'.revising = IF e.state \in Turning THEN Turned[e] ELSE inner.revising
        /\ inner'.phase = PhaseOf[e]
        /\ e.state \in Listing /\ Listed[e] \subseteq inner'.queued
    BY <2>1, <2>2, Makes DEF Activating, Turning, Listing
  <2>6. Follows' /\ AnswersFit'
    BY <1>a, <1>c, <2>1, <2>4, <2>5, Tells
  <2> QED
    BY <2>2, <2>6 DEF OverIsIdle
<1>6. ASSUME NEW s \in Sessions, BeginRevision(s) PROVE G
  <2> DEFINE queued == inner.queued \ {worker[s].turn}
             e == [Say("revising", s) EXCEPT !.edge = worker[s].turn, !.queued = queued]
  <2>1. e \in Event /\ e.state = "revising" /\ e.edge = worker[s].turn /\ e.queued = queued
    BY <1>d, Sayings DEF Say
  <2>2. /\ inner.active /\ inner'.active = inner.active /\ inner'.phase = "revising"
        /\ inner'.revising = worker[s].turn /\ inner'.queued = queued
    BY <1>6, <1>d DEF BeginRevision, Revising, Change, Inner
  <2>4. unsent' = Append(unsent, e) /\ UNCHANGED dashboard /\ astray' = astray
    BY <1>6 DEF BeginRevision, Revising, Change
  <2> HIDE DEF e, queued
  <2>5. /\ inner'.active = IF e.state \in Activating THEN Activates[e] ELSE inner.active
        /\ inner'.revising = IF e.state \in Turning THEN Turned[e] ELSE inner.revising
        /\ inner'.phase = PhaseOf[e]
        /\ e.state \in Listing /\ Listed[e] \subseteq inner'.queued
    BY <2>1, <2>2, Makes DEF Activating, Turning, Listing
  <2>6. Follows' /\ AnswersFit'
    BY <1>a, <1>c, <2>1, <2>4, <2>5, Tells
  <2> QED
    BY <2>2, <2>6 DEF OverIsIdle
<1>7. ASSUME NEW s \in Sessions, Succeed(s) PROVE G
  <2> DEFINE state == IF worker[s].turn = NoEdge THEN "suggestions_ready" ELSE "revision_ready"
             e == Say(state, s)
  <2>1. e \in Event /\ e.state = state
    BY <1>d, Sayings DEF Say
  <2>2. /\ inner'.active = inner.active /\ inner'.phase = "reviewing"
        /\ inner'.revising = IF worker[s].turn = NoEdge THEN inner.revising ELSE NoEdge
        /\ inner'.queued = inner.queued
    BY <1>7, <1>d DEF Succeed, Change, Inner
  <2>3. inner.active
    <3>1. ~worker[s].aborted /\ worker[s].at = "answered"
      BY <1>7 DEF Succeed, Change
    <3> QED
      BY <1>a, <3>1, AtWork
  <2>4. unsent' = Append(unsent, e) /\ UNCHANGED dashboard /\ astray' = astray
    BY <1>7 DEF Succeed, Change
  <2>5. /\ state \notin Activating /\ state \notin Listing /\ state # "error"
        /\ state \in Turning <=> worker[s].turn # NoEdge
        /\ state \notin {"started", "revising", "ended"}
    BY DEF Activating, Turning, Listing
  <2> HIDE DEF e, state
  <2>6. /\ inner'.active = IF e.state \in Activating THEN Activates[e] ELSE inner.active
        /\ inner'.revising = IF e.state \in Turning THEN Turned[e] ELSE inner.revising
        /\ inner'.phase = PhaseOf[e]
        /\ e.state \notin Listing /\ inner.queued \subseteq inner'.queued /\ e.state # "error"
    BY <2>1, <2>2, <2>5, Makes
  <2>7. Follows' /\ AnswersFit'
    BY <1>a, <1>c, <2>1, <2>4, <2>6, Tells
  <2> QED
    BY <2>2, <2>3, <2>7 DEF OverIsIdle
<1>8. ASSUME NEW s \in Sessions, FailTurn(s) PROVE G
  <2> DEFINE e == Say("error", s)
  <2>1. e \in Event /\ e.state = "error"
    BY <1>d, Sayings DEF Say
  <2>2. /\ inner'.active = inner.active /\ inner'.phase = "reviewing"
        /\ inner'.revising = NoEdge /\ inner'.queued = inner.queued
    BY <1>8, <1>d DEF FailTurn, Change, Inner
  <2>3. inner.active
    <3>1. ~worker[s].aborted /\ worker[s].at = "failed"
      BY <1>8 DEF FailTurn, Change
    <3> QED
      BY <1>a, <3>1, AtWork
  <2>4. unsent' = Append(unsent, e) /\ UNCHANGED dashboard /\ astray' = astray
    BY <1>8 DEF FailTurn, Change
  <2> HIDE DEF e
  <2>6. /\ inner'.active = IF e.state \in Activating THEN Activates[e] ELSE inner.active
        /\ inner'.revising = IF e.state \in Turning THEN Turned[e] ELSE inner.revising
        /\ inner'.phase = PhaseOf[e]
        /\ e.state \notin Listing /\ inner.queued \subseteq inner'.queued /\ inner'.active
    BY <2>1, <2>2, <2>3, Makes DEF Activating, Turning, Listing
  <2>7. Follows' /\ AnswersFit'
    BY <1>a, <1>c, <2>1, <2>4, <2>6, Tells
  <2> QED
    BY <2>2, <2>3, <2>7 DEF OverIsIdle
<1>9. ASSUME NEW i \in 1..Len(unsent), Emit(i) PROVE G
  <2>1. i = 1
    BY <1>9 DEF Emit
  <2>2. unsent # <<>> /\ inner' = inner
    BY <1>9, <1>a DEF Emit, TypeOK
  <2>3. Follows' /\ AnswersFit'
    BY <1>9, <1>a, <1>c, <2>1, <2>2, SendingFits
  <2> QED
    BY <1>c, <2>2, <2>3 DEF OverIsIdle
<1>10. CASE HandleEvent
  <2>1. Follows' /\ AnswersFit' /\ inner' = inner
    BY <1>10, <1>a, <1>c, HandlingFollows, HandlingFits DEF HandleEvent
  <2> QED
    BY <1>c, <2>1 DEF OverIsIdle
<1>11. ASSUME NEW i \in 1..Len(replies), HandleAnswer(i) PROVE G
  <2>1. Follows' /\ AnswersFit' /\ inner' = inner
    BY <1>11, <1>a, <1>c, AnsweringFits DEF HandleAnswer
  <2> QED
    BY <1>c, <2>1 DEF OverIsIdle
<1>12. CASE UNCHANGED <<inner, unsent, stream, view, replies, astray>>
  <2>1. /\ Untold' = Untold /\ inner' = inner /\ view' = view /\ stream' = stream /\ replies' = replies
        /\ astray' = astray
    BY <1>12 DEF Untold
  <2> QED
    BY <1>c, <2>1 DEF Follows, AnswersFit, Fits, OverIsIdle
<1>13. CASE EndFails
  <2>1. /\ Untold' = Untold /\ inner' = inner /\ stream' = stream /\ replies' = replies
        /\ view' = IdleView /\ "session" \in astray' /\ astray \subseteq astray'
    BY <1>13 DEF EndFails, Untold
  <2>2. view'.active = FALSE /\ view'.phase = "idle" /\ view'.revising = NoEdge /\ view'.queued = {}
    BY <2>1 DEF IdleView
  <2>3. AnswersFit'
    BY <1>c, <2>1, <2>2 DEF AnswersFit, Fits
  <2>4. Follows'
    BY <1>c, <2>1, <2>2 DEF Follows, Leads
  <2> QED
    BY <1>c, <2>1, <2>3, <2>4 DEF OverIsIdle
<1>14. ASSUME NEW s \in Sessions, Recv(s) \/ Dropped(s) \/ Quit(s) \/ AgentFails(s) \/ AgentAnswers(s)
       PROVE  UNCHANGED <<inner, unsent, stream, view, replies, astray>>
  BY <1>14 DEF Recv, Dropped, Quit, AgentFails, AgentAnswers, AgentEnds, dashboard, history
<1>15. CASE UNCHANGED vars
  BY <1>12, <1>15 DEF vars
<1> HIDE DEF G
<1>16. G
  BY <1>1, <1>3, <1>4, <1>5, <1>6, <1>7, <1>8, <1>9, <1>10, <1>11, <1>12, <1>13, <1>14, <1>15
  DEF Next, RequestStep, Work, EmitStep, G
<1> QED
  BY <1>16 DEF G

LEMMA EndIsAwaitedStep ==
    ASSUME TypeOK, TypeOK', EndIsAwaited, [Next]_vars
    PROVE  EndIsAwaited'
<1>a. unsent \in Seq(Event)
  BY DEF TypeOK
<1>1. ASSUME NEW e, unsent' = Append(unsent, e), e.answer => e.state = "ended"
      PROVE  EndIsAwaited'
  <2> SUFFICES ASSUME NEW i \in 1..(Len(unsent) + 1), unsent'[i].answer
               PROVE  unsent'[i].state = "ended"
    BY <1>a, <1>1 DEF EndIsAwaited
  <2>1. CASE i \in 1..Len(unsent)
    BY <1>a, <1>1, <2>1 DEF EndIsAwaited
  <2>2. CASE i \notin 1..Len(unsent)
    BY <1>a, <1>1, <2>2
  <2> QED
    BY <2>1, <2>2
<1>2. \A state, by : ~Say(state, by).answer
  BY DEF Say
<1>3. CASE Start
  BY <1>1, <1>2, <1>3 DEF Start
<1>4. ASSUME NEW here \in BOOLEAN, End(here) PROVE EndIsAwaited'
  <2>1. [Say("ended", 0) EXCEPT !.answer = here].state = "ended"
    BY DEF Say
  <2> QED
    BY <1>1, <1>4, <2>1 DEF End
<1>5. ASSUME NEW s \in Sessions, BeginRevision(s) PROVE EndIsAwaited'
  <2> DEFINE queued == inner.queued \ {worker[s].turn}
             e == [Say("revising", s) EXCEPT !.edge = worker[s].turn, !.queued = queued]
  <2>1. ~e.answer
    BY DEF Say
  <2>2. unsent' = Append(unsent, e)
    BY <1>5 DEF BeginRevision, Revising, Change
  <2> HIDE DEF e
  <2> QED
    BY <1>1, <2>1, <2>2
<1>6. ASSUME NEW s \in Sessions, Succeed(s) \/ FailTurn(s) PROVE EndIsAwaited'
  BY <1>1, <1>2, <1>6 DEF Succeed, FailTurn, Change
<1>7. ASSUME NEW i \in 1..Len(unsent), Emit(i) PROVE EndIsAwaited'
  <2> SUFFICES ASSUME NEW k \in 1..Len(unsent'), unsent'[k].answer PROVE unsent'[k].state = "ended"
    BY DEF EndIsAwaited
  <2>1. PICK j \in 1..Len(unsent) : unsent'[k] = unsent[j]
    BY <1>a, <1>7, RemovedAt DEF Emit
  <2> QED
    BY <2>1 DEF EndIsAwaited
<1>8. CASE unsent' = unsent
  BY <1>8 DEF EndIsAwaited
<1>9. ASSUME NEW e \in Edges, ReviseHere(e) \/ ReviseElsewhere(e)
      PROVE  unsent' = unsent
  BY <1>9 DEF ReviseHere, ReviseElsewhere, Revise
<1>10. ASSUME NEW s \in Sessions, Recv(s) \/ Dropped(s) \/ Quit(s) \/ AgentFails(s) \/ AgentAnswers(s)
       PROVE  unsent' = unsent
  BY <1>10 DEF Recv, Dropped, Quit, AgentFails, AgentAnswers, AgentEnds
<1>11. CASE HandleEvent
  BY <1>8, <1>11 DEF HandleEvent
<1>12. ASSUME NEW i \in 1..Len(replies), HandleAnswer(i) PROVE unsent' = unsent
  BY <1>12 DEF HandleAnswer
<1>13. CASE UNCHANGED vars
  BY <1>8, <1>13 DEF vars
<1>14. CASE EndFails
  BY <1>8, <1>14 DEF EndFails
<1> QED
  BY <1>3, <1>4, <1>5, <1>6, <1>7, <1>8, <1>9, <1>10, <1>11, <1>12, <1>13, <1>14
  DEF Next, RequestStep, Work, EmitStep

LEMMA InStepInit == Init => InStep /\ EndIsAwaited
<1> SUFFICES ASSUME Init PROVE Follows /\ AnswersFit /\ OverIsIdle /\ EndIsAwaited
  BY DEF InStep
<1>1. Len(unsent) = 0 /\ Len(replies) = 0
  BY DEF Init
<1>2. Untold = <<>> /\ Len(Untold) = 0
  BY DEF Init, Untold
<1>3. \A states : At(Untold, states) = {}
  BY <1>2 DEF At
<1>4. AnswersFit /\ EndIsAwaited
  BY <1>1 DEF AnswersFit, EndIsAwaited
<1>5. Follows /\ OverIsIdle
  BY <1>2, <1>3 DEF Follows, OverIsIdle, Leads, Init, Idle, IdleView
<1> QED
  BY <1>4, <1>5

(* Once everything was told, the dashboard shows the session as it is, for *)
(* any number of requests and events on their way, whoever asks and        *)
(* whichever agents fail, as long as no event overtook another and no      *)
(* aborted worker wrote: what a failed request to end the session spoils,  *)
(* or an answer that later events have passed, is right again with the end *)
(* of the session, or, where it is the list alone, with the next revision. *)
THEOREM DashboardShowsTheSession == Spec => []ShowsTheSession
<1>1. Inv /\ InStep /\ EndIsAwaited /\ [Next]_vars /\ Inv' => (InStep /\ EndIsAwaited)'
  BY InStepStep, EndIsAwaitedStep DEF Inv
<1>2. Inv /\ InStep => ShowsTheSession
  <2> SUFFICES ASSUME Inv, InStep, Told, ~overtaken, ~late
               PROVE  /\ "session" \notin astray => /\ view.active = inner.active
                                                   /\ view.phase = inner.phase
                                                   /\ view.revising = inner.revising
                      /\ "list" \notin astray => view.queued \subseteq inner.queued
    BY DEF ShowsTheSession
  <2>1. Untold = <<>> /\ Len(Untold) = 0
    BY DEF Told, Untold
  <2>2. \A states : At(Untold, states) = {}
    BY <2>1 DEF At
  <2> QED
    BY <2>2 DEF InStep, Follows, Leads
<1> QED
  BY <1>1, <1>2, InStepInit, Invariant, PTL DEF Spec
=============================================================================
