----------------------------- MODULE MCControl ------------------------------
(***************************************************************************)
(* What clients control, under TLC in one run: the events of filters; the  *)
(* pipeline, with commands in any order; and the controller, with requests *)
(* for the same pipeline.  Which model takes steps is chosen in the        *)
(* initial state, and the others stay in theirs.  Every behaviour is a     *)
(* behaviour of the chosen model.                                          *)
(***************************************************************************)
EXTENDS MCPipelineManager, Controller, FilterEvents

VARIABLE part    \* the model that runs

ASSUME EventsAssumption

ev(action, i) == [action |-> action, id |-> i]

(* Requests for the diamond.                                               *)
MCRequests ==
  {<<ev("createFilter", head), ev("createFilter", mid1), ev("createFilter", tail)>>,
   <<ev("createFilter", mid2), ev("createFilter", head)>>,
   <<ev("createPath", 1), ev("invalid", 1), ev("createPath", 2)>>,
   <<ev("createPath", 3), ev("getState", 1)>>, <<ev("removePath", 1)>>,
   <<ev("removeFilter", mid2), ev("removePath", 2)>>, <<ev("stop", 1)>>}

allVars == <<part, eventVars, ctrlVars, vars>>

ControlInit ==
  /\ part \in {"events", "pipeline", "controller"}
  /\ EventsInit /\ CtrlInit

EventsStep(A) == part = "events" /\ A /\ UNCHANGED <<part, ctrlVars, vars>>

ControlNext ==
  \/ EventsStep(EventsNext)
  \/ part = "pipeline" /\ Next /\ UNCHANGED <<part, eventVars, ctrlVars>>
  \/ part = "controller" /\ CtrlNext /\ UNCHANGED <<part, eventVars>>

(* The fairness of FilterEvents.                                           *)
ControlSpec ==
  /\ ControlInit /\ [][ControlNext]_allVars
  /\ WF_allVars(EventsStep(tick)) /\ WF_allVars(EventsStep(TailWorker))
  /\ SF_allVars(EventsStep(Finish))
  /\ \A f \in Runners : SF_allVars(EventsStep(runEvents(f)))
=============================================================================
