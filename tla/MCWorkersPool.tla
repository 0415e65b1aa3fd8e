--------------------------- MODULE MCWorkersPool ---------------------------
(***************************************************************************)
(* A head filter, which enables itself, and the tail that it feeds.        *)
(***************************************************************************)
EXTENDS WorkersPool

CONSTANTS head, tail

MCTasks == {head, tail}

MCConsumers == [t \in MCTasks |-> IF t = head THEN {tail} ELSE {}]
=============================================================================
