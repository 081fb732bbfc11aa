------------------------------ MODULE TowerBridge ------------------------------
(***************************************************************************)
(* tower.rs: tower layers around the Churust pipeline.  Each adapter puts   *)
(* the call and the rest of the pipeline into a task-local slot, which its  *)
(* innermost service takes; what a layer does with that service is its own  *)
(* affair: it may not call it, call it again, fail, replace the answer, or  *)
(* leave the calling to a worker or to the task of another request.         *)
(*                                                                         *)
(* What layers write into a request is left out.                            *)
(***************************************************************************)
EXTENDS Naturals, Sequences

CONSTANTS
  Tasks,    \* requests, each served in a task of its own
  NoTask,   \* none of them
  Adapters  \* how many adapters are installed

ASSUME Bridged == NoTask \notin Tasks /\ Adapters \in Nat

\* For each task: at: where its request is; slots: the call in IN_FLIGHT of each
\* scope it is in, the innermost last, NoTask once it is taken; call: whose call
\* it is running; res: what is on its way out, an answer or a layer's error;
\* borrowed: history, it ran the call of another request.  ran: how often a call
\* was handled.
\* An answer: whose it is; exact: its size is known from the body; length: it has
\* a Content-Length; sized: its size was known where it was made.
VARIABLE bridge

NoneYet == [kind |-> "none", of |-> NoTask, exact |-> FALSE, length |-> FALSE, sized |-> FALSE]
Away == [at |-> "idle", slots |-> <<>>, call |-> NoTask, res |-> NoneYet, borrowed |-> FALSE]

BrRest == [on |-> FALSE, task |-> [t \in Tasks |-> Away], ran |-> [t \in Tasks |-> 0]]
BrInit == bridge = BrRest
BrAtRest == ~bridge.on

Task(t) == bridge.task[t]
Depth(t) == Len(Task(t).slots)
InLayer(t) == Task(t).at \in {"inward", "outward"} /\ Depth(t) > 0

Text(t) ==
  [kind |-> "answer", of |-> t, exact |-> TRUE, length |-> FALSE, sized |-> TRUE]
ServiceError == [NoneYet EXCEPT !.kind = "error"]

Comes(task, res) ==
  [task EXCEPT !.res = res, !.at = IF task.slots = <<>> THEN "done" ELSE "outward"]

-----------------------------------------------------------------------------
BrStart == ~bridge.on /\ bridge' = [bridge EXCEPT !.on = TRUE]

BrArrive(t) ==
  /\ bridge.on /\ Task(t).at = "idle"
  /\ bridge' = [bridge EXCEPT !.task[t] = [Away EXCEPT !.at = "pipeline", !.call = t]]

\* TowerMiddleware::handle: the scope, and the layered service.
BrScope(t) ==
  /\ Task(t).at = "pipeline" /\ Depth(t) < Adapters
  /\ bridge' = [bridge EXCEPT !.task[t] =
       [@ EXCEPT !.at = "inward", !.slots = Append(Task(t).slots, Task(t).call)]]

\* The rest of the pipeline.  A body is buffered, a stream, or a stream whose
\* handler knows its length.
BrHandle(t, body) ==
  /\ Task(t).at = "pipeline" /\ Depth(t) = Adapters
  /\ bridge' = [bridge EXCEPT !.ran[Task(t).call] = @ + 1,
       !.task[t] = Comes(@, [kind |-> "answer", of |-> @.call, exact |-> body = "buffered",
                             length |-> body = "sized", sized |-> body # "stream"])]

-----------------------------------------------------------------------------
(* What a layer may do, before or after the service has answered.           *)

\* Mutant: the slot is read, not emptied.
Emptied_kept(task) == task

Emptied(task) == [task EXCEPT !.slots[Len(task.slots)] = NoTask]

Slot(t) == Task(t).slots[Depth(t)]

\* NextService::call.
BrCall(t) ==
  /\ InLayer(t)
  /\ bridge' = [bridge EXCEPT !.task[t] =
       IF Slot(t) = NoTask THEN Comes(@, ServiceError)
       ELSE [Emptied(@) EXCEPT !.at = "pipeline", !.call = Slot(t)]]

\* ... from a task that is in no scope.
BrWorker(t) ==
  /\ InLayer(t)
  /\ bridge' = [bridge EXCEPT !.task[t] = Comes(@, ServiceError)]

\* ... from the task of another request, in whose scope it is then.
BrBorrow(t, u) ==
  /\ t # u /\ InLayer(t) /\ InLayer(u) /\ Depth(t) = Depth(u)
  /\ bridge' = IF Slot(u) = NoTask THEN [bridge EXCEPT !.task[t] = Comes(@, ServiceError)]
       ELSE [bridge EXCEPT !.task[u] = Emptied(@),
                           !.task[t] = [@ EXCEPT !.call = Slot(u), !.at = "pipeline", !.borrowed = TRUE]]

\* An answer of its own, an error of its own, another body.
BrLayerAnswers(t, res) ==
  /\ InLayer(t) /\ bridge' = [bridge EXCEPT !.task[t] = Comes(@, res)]

BrRecodes(t) ==
  /\ Task(t).at = "outward" /\ Task(t).res.kind = "answer"
  /\ bridge' = [bridge EXCEPT !.task[t].res =
       [@ EXCEPT !.exact = FALSE, !.length = FALSE, !.sized = FALSE]]

\* The adapter turns what comes back into a response: an error into a 500 of its
\* own; an answer into a stream, with a length if the body told one and none is set.
Rewrapped(t, res) ==
  IF res.kind = "error" THEN Text(t)
  ELSE [res EXCEPT !.exact = FALSE, !.length = @ \/ res.exact]

BrLeaves(t) ==
  /\ Task(t).at = "outward"
  /\ LET out == [Task(t) EXCEPT !.slots = SubSeq(@, 1, Len(@) - 1)] IN
     bridge' = [bridge EXCEPT !.task[t] = Comes(out, Rewrapped(t, out.res))]

\* The client is gone.
BrDropped(t) ==
  /\ Task(t).at \notin {"idle", "done", "dropped"}
  /\ bridge' = [bridge EXCEPT !.task[t] = [Away EXCEPT !.at = "dropped"]]

BrNext ==
  \/ BrStart
  \/ \E t \in Tasks :
       \/ BrArrive(t) \/ BrScope(t) \/ BrCall(t) \/ BrWorker(t) \/ BrRecodes(t)
       \/ BrLeaves(t) \/ BrDropped(t)
       \/ \E body \in {"buffered", "sized", "stream"} : BrHandle(t, body)
       \/ \E u \in Tasks : BrBorrow(t, u)
       \/ BrLayerAnswers(t, Text(t)) \/ BrLayerAnswers(t, ServiceError)

-----------------------------------------------------------------------------
\* Whatever the layers do, a call is handled at most once, whether its own task or
\* another one takes it out of the slot; no layer's error leaves the outermost
\* adapter, every request that is not dropped leaves it with an answer; that answer
\* was made for this request, unless a layer brought the call of another one into
\* this task; and one whose size was known where it was made leaves with it known,
\* through any number of adapters.
HandledOnce ==
  \A t \in Tasks :
    /\ bridge.ran[t] <= 1
    /\ Task(t).at = "done" =>
         /\ Task(t).res.kind = "answer"
         /\ Task(t).res.of = t \/ Task(t).borrowed
         /\ Task(t).res.sized => Task(t).res.length \/ Task(t).res.exact
=============================================================================
