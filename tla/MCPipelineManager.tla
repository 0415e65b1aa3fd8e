-------------------------- MODULE MCPipelineManager --------------------------
(***************************************************************************)
(* Requests of a client: a head with several writers, two filters in the   *)
(* middle, a tail with several readers and one with a single reader.       *)
(***************************************************************************)
EXTENDS PipelineManager

CONSTANTS head, mid1, mid2, tail, single

MCFilters == {head, mid1, mid2, tail, single}

MCMaxWriters ==
  [f \in MCFilters |-> CASE f = head -> 2 [] f \in {mid1, mid2} -> 1 [] OTHER -> 0]

MCMaxReaders ==
  [f \in MCFilters |-> CASE f = head -> 0 [] f = tail -> 2 [] OTHER -> 1]

request(org, w, mids, dst, r) ==
  [org |-> org, wId |-> w, mids |-> mids, dst |-> dst, rId |-> r]

(* A diamond, and a third path with the writer of the first one.           *)
MCDiamond ==
  [p \in 1 .. 3 |-> CASE p = 1 -> request(head, 1, <<mid1>>, tail, AnyId)
                      [] p = 2 -> request(head, 2, <<mid2>>, tail, AnyId)
                      [] p = 3 -> request(head, 1, <<>>, tail, AnyId)]

(* The third path starts in the middle of the second one.                  *)
MCForkEnding ==
  [p \in 1 .. 2 |-> CASE p = 1 -> request(head, 2, <<mid2>>, tail, AnyId)
                      [] p = 2 -> request(mid2, AnyId, <<>>, single, AnyId)]
==============================================================================
