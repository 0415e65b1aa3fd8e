------------------------------ MODULE MCFilter ------------------------------
(***************************************************************************)
(* Three models of BaseFilter and IOInterface under TLC, in one run: which *)
(* one takes steps is chosen in the initial state, and the others stay in  *)
(* theirs.  Every behaviour is a behaviour of the chosen model, and the    *)
(* properties of a model hold of its state whether it runs or stays.       *)
(***************************************************************************)
EXTENDS SharedReader, Connection, FilterSync

VARIABLE part    \* the model that runs

ASSUME ReaderAssumption /\ ConnectionAssumption /\ SyncAssumption

allVars == <<part, vars, linkVars, syncVars>>

MCInit ==
  /\ part \in {"share", "link", "sync"}
  /\ Init /\ (part = "share" \/ 1 \in filters)
  /\ LinkInit
  /\ SyncInit /\ (part = "sync" \/ sync)

OnlyShare == part = "share" /\ UNCHANGED <<part, linkVars, syncVars>>
OnlyLink == part = "link" /\ UNCHANGED <<part, vars, syncVars>>
OnlySync == part = "sync" /\ UNCHANGED <<part, vars, linkVars>>

MCNext ==
  (OnlyShare /\ Next) \/ (OnlyLink /\ LinkNext) \/ (OnlySync /\ SyncNext)

(* The fairness of each model, with three filters that share the reader.   *)
(* As only one model runs, what is fair in one and what is fair in another *)
(* can be written as one condition.                                        *)
MCSpec ==
  /\ MCInit /\ [][MCNext]_allVars
  /\ WF_allVars((OnlyShare /\ Filter(1)) \/ (OnlyLink /\ Worker("W")) \/ (OnlySync /\ SyncFilter))
  /\ WF_allVars((OnlyShare /\ Filter(2)) \/ (OnlyLink /\ Worker("R") /\ at["R"] # "idle"))
  /\ WF_allVars((OnlyShare /\ Filter(3)) \/ (OnlyLink /\ LinkControl /\ at["C"] # "idle"))
  /\ WF_allVars(OnlyShare /\ \E f \in Filters : addReader(f))
=============================================================================
