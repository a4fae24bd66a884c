--------------------------- MODULE SuggestSession ---------------------------
(***************************************************************************)
(* The suggestion session of a server, suggest_session.rs: one worker and  *)
(* one agent per session, requests to revise queued on its channel, events *)
(* about it sent after the lock is released.  A dashboard shows the        *)
(* session by its events and by the answers to its own requests            *)
(* (dashboard/src/stores/suggest.js); other clients make requests too.     *)
(***************************************************************************)
EXTENDS Naturals, SequencesExt

CONSTANTS
    Edges,       \* proposed edges
    NoEdge,      \* not an edge; as a turn, the initial one
    MaxRequests, \* bound: requests to start, revise or end
    MaxStream    \* bound: events on their way at once

ASSUME ConstantsAssumption ==
    /\ NoEdge \notin Edges
    /\ MaxRequests \in Nat
    /\ MaxStream \in Nat \ {0}

VARIABLES
    inner,      \* Inner, behind its mutex
    started,    \* sessions so far; the last one is the session of inner
    worker,     \* worker[s]: the worker of session s, and its channel
    unsent,     \* events whose state change is made, in the order of the changes
    stream,     \* events on their way to the dashboard
    replies,    \* answers on their way to the dashboard
    view,       \* the dashboard's store
    late,       \* history: an aborted worker has still changed inner
    overtaken,  \* history: events were sent out of order
    astray,     \* history: what an answer of the dashboard's has spoiled there
    requests    \* requests so far

vars == <<inner, started, worker, unsent, stream, replies, view, late, overtaken, astray,
          requests>>
history == <<late, overtaken, astray>>
dashboard == <<stream, replies, view>>

-----------------------------------------------------------------------------
Sessions == 1..MaxRequests
Turns == Edges \cup {NoEdge}
Phases == {"idle", "suggesting", "reviewing", "revising"}

\* session: the session whose conversation session_id names, or 0.
Inner == [active : BOOLEAN, phase : Phases, revising : Turns, queued : SUBSET Edges,
          session : 0..MaxRequests]
Idle == [active |-> FALSE, phase |-> "idle", revising |-> NoEdge, queued |-> {}, session |-> 0]

\* A worker waits for a turn, has taken one, runs an agent, has its answer or
\* error, and emits an event before it goes on.
Places == {"none", "recv", "taken", "agent", "answered", "failed", "emit", "gone"}
Worker == [at : Places, turns : Seq(Turns), turn : Turns, resume : 0..MaxRequests, aborted : BOOLEAN]
NoWorker == [at |-> "none", turns |-> <<>>, turn |-> NoEdge, resume |-> 0, aborted |-> FALSE]
Gone == [NoWorker EXCEPT !.at = "gone"]
NewWorker == [NoWorker EXCEPT !.at = "recv", !.turns = <<NoEdge>>]

\* by: the worker that emits the event, or 0 for a handler; edge and queued:
\* of "revising", nothing is done with them in others; answer: the dashboard
\* awaits the handler.
Event == [state : {"started", "suggestions_ready", "revising", "revision_ready", "error", "ended"},
          edge : Turns, queued : SUBSET Edges, by : 0..MaxRequests, answer : BOOLEAN]
Say(state, by) ==
    [state |-> state, edge |-> NoEdge, queued |-> {}, by |-> by, answer |-> FALSE]

\* edge: what was to be revised, NoEdge for the end of the session; behind:
\* events sent before the answer and not handled yet.
Answer == [edge : Turns, behind : Nat, late : BOOLEAN]
Answered(edge) == [edge |-> edge, behind |-> Len(stream), late |-> FALSE]

View == [active : BOOLEAN, phase : Phases, revising : Turns, queued : SUBSET Edges]
IdleView == [active |-> FALSE, phase |-> "idle", revising |-> NoEdge, queued |-> {}]

TypeOK ==
    /\ inner \in Inner
    /\ started \in 0..MaxRequests
    /\ worker \in [Sessions -> Worker]
    /\ unsent \in Seq(Event) /\ stream \in Seq(Event)
    /\ replies \in Seq(Answer)
    /\ view \in View
    /\ late \in BOOLEAN /\ overtaken \in BOOLEAN
    /\ astray \subseteq {"session", "list"}
    /\ requests \in 0..MaxRequests

Init ==
    /\ inner = Idle /\ started = 0
    /\ worker = [s \in Sessions |-> NoWorker]
    /\ unsent = <<>> /\ stream = <<>> /\ replies = <<>>
    /\ view = IdleView
    /\ late = FALSE /\ overtaken = FALSE /\ astray = {}
    /\ requests = 0

-----------------------------------------------------------------------------
(* Requests.  What the dashboard's buttons allow depends on what it shows; *)
(* the command line and another dashboard ask as they like.                *)

\* The worker is spawned before the event is sent.
Start ==
    /\ requests < MaxRequests /\ requests' = requests + 1
    /\ ~inner.active
    /\ started' = started + 1
    /\ inner' = [Idle EXCEPT !.active = TRUE, !.phase = "suggesting"]
    /\ worker' = [worker EXCEPT ![started + 1] = NewWorker]
    /\ unsent' = Append(unsent, Say("started", 0))
    /\ UNCHANGED <<dashboard, history>>

Revise(e) ==
    /\ requests < MaxRequests /\ requests' = requests + 1
    /\ inner.active
    /\ inner' = [inner EXCEPT !.queued = @ \cup {e}]
    /\ worker' = [worker EXCEPT ![started].turns = Append(@, e)]
    /\ UNCHANGED <<started, unsent, stream, view, history>>

\* By somebody else, or by the dashboard, whose request then fails after all.
ReviseElsewhere(e) == Revise(e) /\ UNCHANGED replies

\* A text box stays open whatever happens to the session, and what is typed
\* there is sent as it is.
ReviseHere(e) == Revise(e) /\ replies' = Append(replies, Answered(e))

\* Whether the worker may be between two awaits, on another thread.
MayBeRunning(s) ==
    \/ worker[s].at \in {"taken", "answered", "failed", "emit"}
    \/ worker[s].at = "recv" /\ worker[s].turns # <<>>

\* abort: a worker that waits is dropped there, one that runs at its next wait.
Aborted(s) ==
    IF MayBeRunning(s)
    THEN {Gone, [worker[s] EXCEPT !.aborted = TRUE]}
    ELSE {Gone}

\* Mutant of End: the worker is left to finish its turn.
EndKeepingWorker(byDashboard) ==
    /\ requests < MaxRequests /\ requests' = requests + 1
    /\ byDashboard => view.active
    /\ inner' = Idle
    /\ unsent' = Append(unsent, [Say("ended", 0) EXCEPT !.answer = byDashboard])
    /\ UNCHANGED <<started, worker, dashboard, history>>

End(byDashboard) ==
    /\ requests < MaxRequests /\ requests' = requests + 1
    /\ byDashboard => view.active
    /\ inner' = Idle
    /\ IF inner.active
       THEN \E w \in Aborted(started) : worker' = [worker EXCEPT ![started] = w]
       ELSE UNCHANGED worker
    /\ unsent' = Append(unsent, [Say("ended", 0) EXCEPT !.answer = byDashboard])
    /\ UNCHANGED <<started, dashboard, history>>

\* The request of the dashboard to end the session fails: it shows no session
\* all the same, and no event tells it otherwise.
EndFails ==
    /\ requests < MaxRequests /\ requests' = requests + 1
    /\ view.active
    /\ view' = IdleView
    /\ astray' = astray \cup {"session"}
    /\ UNCHANGED <<inner, started, worker, unsent, stream, replies, late, overtaken>>

-----------------------------------------------------------------------------
(* worker_loop.                                                            *)

GoTo(s, at) == worker' = [worker EXCEPT ![s].at = at]

\* The turn is over.
Done(s, at) == worker' = [worker EXCEPT ![s] = [@ EXCEPT !.at = at, !.turn = NoEdge, !.resume = 0]]

Recv(s) ==
    LET w == worker[s]
        turn == Head(w.turns) IN
    /\ w.at = "recv" /\ w.turns # <<>>
    /\ worker' = [worker EXCEPT ![s] =
         [w EXCEPT !.turns = Tail(w.turns), !.turn = turn,
                   !.at = IF turn = NoEdge THEN "agent" ELSE "taken"]]
    /\ UNCHANGED <<inner, started, unsent, dashboard, history, requests>>

\* The wait at which an aborted worker is dropped, and its agent killed.
Dropped(s) ==
    /\ worker[s].aborted
    /\ worker[s].at = "agent" \/ (worker[s].at = "recv" /\ worker[s].turns = <<>>)
    /\ worker' = [worker EXCEPT ![s] = Gone]
    /\ UNCHANGED <<inner, started, unsent, dashboard, history, requests>>

\* A change of inner by the worker, and the event to emit for it.
Change(s, new, event) ==
    /\ inner' = new
    /\ unsent' = Append(unsent, event)
    /\ late' = (late \/ worker[s].aborted)
    /\ UNCHANGED <<started, dashboard, overtaken, astray, requests>>

Revising(s, queued) ==
    /\ Change(s, [inner EXCEPT !.queued = queued, !.revising = worker[s].turn, !.phase = "revising"],
                 [Say("revising", s) EXCEPT !.edge = worker[s].turn, !.queued = queued])
    /\ worker' = [worker EXCEPT ![s].at = "emit", ![s].resume = inner.session]

\* Every request for the edge leaves the list, though it may be in the
\* channel again.
BeginRevision(s) ==
    /\ worker[s].at = "taken" /\ inner.active
    /\ Revising(s, inner.queued \ {worker[s].turn})

Quit(s) ==
    /\ worker[s].at = "taken" /\ ~inner.active
    /\ worker' = [worker EXCEPT ![s] = Gone]
    /\ UNCHANGED <<inner, started, unsent, dashboard, history, requests>>

AgentEnds(s, how) ==
    /\ worker[s].at = "agent" /\ ~worker[s].aborted
    /\ GoTo(s, how)
    /\ UNCHANGED <<inner, started, unsent, dashboard, history, requests>>

\* run_turn: an answer with a session id, or an error; TURN_TIMEOUT sees to it
\* that there is one.
AgentAnswers(s) == AgentEnds(s, "answered")

AgentFails(s) == AgentEnds(s, "failed")

\* Mutant of Succeed: revising_edge_id is kept.
SucceedKeepingEdge(s) ==
    LET w == worker[s] IN
    /\ w.at = "answered"
    /\ Change(s, [inner EXCEPT !.session = IF w.resume = 0 THEN s ELSE w.resume,
                               !.phase = "reviewing"],
                 Say(IF w.turn = NoEdge THEN "suggestions_ready" ELSE "revision_ready", s))
    /\ Done(s, "emit")

\* The initial turn leaves revising_edge_id alone.
Succeed(s) ==
    LET w == worker[s] IN
    /\ w.at = "answered"
    /\ Change(s, [inner EXCEPT !.session = IF w.resume = 0 THEN s ELSE w.resume,
                               !.phase = "reviewing",
                               !.revising = IF w.turn = NoEdge THEN @ ELSE NoEdge],
                 Say(IF w.turn = NoEdge THEN "suggestions_ready" ELSE "revision_ready", s))
    /\ Done(s, "emit")

\* Mutant of FailTurn: the loop ends with the first error.
FailTurnForGood(s) ==
    /\ worker[s].at = "failed"
    /\ Change(s, [inner EXCEPT !.phase = "reviewing", !.revising = NoEdge], Say("error", s))
    /\ Done(s, "none")

FailTurn(s) ==
    /\ worker[s].at = "failed"
    /\ Change(s, [inner EXCEPT !.phase = "reviewing", !.revising = NoEdge], Say("error", s))
    /\ Done(s, "emit")

\* The worker goes on: to the agent, or to its next turn.
Emitted(w, state) ==
    IF state = "revising" THEN [w EXCEPT !.at = "agent"]
    ELSE [w EXCEPT !.at = "recv"]

\* emit, by whoever made the i-th change that has not been told of.
Emit(i) ==
    LET event == unsent[i] IN
    /\ Len(stream) < MaxStream
    /\ stream' = Append(stream, event)
    /\ unsent' = RemoveAt(unsent, i)
    /\ overtaken' = (overtaken \/ i # 1)
    /\ IF event.by # 0 /\ worker[event.by].at = "emit"
       THEN worker' = [worker EXCEPT ![event.by] = Emitted(@, event.state)]
       ELSE UNCHANGED worker
    /\ replies' = IF event.answer THEN Append(replies, [Answered(NoEdge) EXCEPT !.behind = @ + 1])
                                  ELSE replies
    /\ UNCHANGED <<inner, started, view, late, astray, requests>>

-----------------------------------------------------------------------------
(* The dashboard.                                                          *)

\* handleEvent.
Shown(event) ==
    CASE event.state = "started" -> [view EXCEPT !.active = TRUE, !.phase = "suggesting"]
      [] event.state = "suggestions_ready" -> [view EXCEPT !.phase = "reviewing"]
      [] event.state = "revising" ->
            [view EXCEPT !.phase = "revising", !.revising = event.edge, !.queued = event.queued]
      [] event.state = "revision_ready" ->
            [view EXCEPT !.phase = "reviewing", !.revising = NoEdge]
      [] event.state = "error" ->
            [view EXCEPT !.phase = IF view.active THEN "reviewing" ELSE "idle",
                         !.revising = NoEdge]
      [] event.state = "ended" -> IdleView

Overtake(answer) ==
    IF answer.behind = 0 THEN [answer EXCEPT !.late = TRUE] ELSE [answer EXCEPT !.behind = @ - 1]

\* What an event puts right again.
Mends(event) ==
    CASE event.state = "ended" -> {"session", "list"}
      [] event.state = "revising" -> {"list"}
      [] OTHER -> {}

HandleEvent ==
    /\ stream # <<>>
    /\ stream' = Tail(stream)
    /\ view' = Shown(Head(stream))
    /\ astray' = astray \ Mends(Head(stream))
    /\ replies' = [i \in 1..Len(replies) |-> Overtake(replies[i])]
    /\ UNCHANGED <<inner, started, worker, unsent, late, overtaken, requests>>

\* What revise() and end() do once their request is answered.
HandleAnswer(i) ==
    LET answer == replies[i] IN
    /\ replies' = RemoveAt(replies, i)
    /\ view' = IF answer.edge = NoEdge THEN IdleView
               ELSE [view EXCEPT !.queued = @ \cup {answer.edge}]
    /\ astray' = astray \cup (IF ~answer.late THEN {}
                             ELSE IF answer.edge = NoEdge THEN {"session"} ELSE {"list"})
    /\ UNCHANGED <<inner, started, worker, unsent, stream, late, overtaken, requests>>

-----------------------------------------------------------------------------
RequestStep ==
    \/ Start
    \/ \E e \in Edges : ReviseHere(e) \/ ReviseElsewhere(e)
    \/ \E byDashboard \in BOOLEAN : End(byDashboard)
    \/ EndFails

Work(s) ==
    \/ Recv(s) \/ Dropped(s) \/ BeginRevision(s) \/ Quit(s)
    \/ AgentFails(s) \/ Succeed(s) \/ FailTurn(s)

EmitStep == \E i \in 1..Len(unsent) : Emit(i)

Next ==
    \/ RequestStep
    \/ \E s \in Sessions : Work(s) \/ AgentAnswers(s)
    \/ EmitStep
    \/ HandleEvent
    \/ \E i \in 1..Len(replies) : HandleAnswer(i)

Spec == Init /\ [][Next]_vars

\* Tokio goes on with the worker and the handlers; an agent need not answer,
\* but is then timed out.
FairSpec ==
    /\ Spec
    /\ WF_vars(EmitStep)
    /\ WF_vars(HandleEvent)
    /\ \A s \in Sessions : WF_vars(Work(s))

-----------------------------------------------------------------------------
(* Properties.                                                             *)

(* An agent at work on a session never resumes the conversation of an      *)
(* earlier one, unless a worker that was aborted between two awaits has    *)
(* still written its session id.                                           *)
ResumesOwn ==
    ~late => \A s \in Sessions : worker[s].at = "agent" => worker[s].resume \in {0, s}

(* What the status lists as queued is in the channel of the session, or    *)
(* in the hand of its worker: nothing is shown as queued for ever.         *)
QueuedIsBacked ==
    \A e \in inner.queued :
        LET w == worker[started] IN
        e \in ToSet(w.turns) \/ (w.at = "taken" /\ w.turn = e)

(* Every turn that was accepted is worked on or goes with its session,     *)
(* though agents fail, are silent or are revised while at work; and a      *)
(* session does not stay "suggesting" or "revising", unless an aborted     *)
(* worker has still changed it: what that one wrote need not be its own.   *)
TurnsAreTaken ==
    /\ \A s \in Sessions : worker[s].turns # <<>> ~> worker[s].turns = <<>> \/ worker[s].at = "gone"
    /\ inner.active /\ inner.phase # "reviewing"
           ~> ~inner.active \/ inner.phase = "reviewing" \/ late

\* The dashboard has been told all there is to tell.
Told == unsent = <<>> /\ stream = <<>> /\ replies = <<>>

(* Once it has been told everything, the dashboard shows the session as it *)
(* is, and no edge as queued that is not, unless an event overtook an      *)
(* earlier one, for the emits are made outside the lock.  A request to end *)
(* the session that failed, or was answered after later events, spoils     *)
(* that only until the session ends; a revision accepted but answered      *)
(* after later events spoils the list alone, and until the next revision.  *)
ShowsTheSession ==
    Told /\ ~overtaken /\ ~late =>
        /\ "session" \notin astray => /\ view.active = inner.active
                                     /\ view.phase = inner.phase
                                     /\ view.revising = inner.revising
        /\ "list" \notin astray => view.queued \subseteq inner.queued
=============================================================================
