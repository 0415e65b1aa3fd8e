----------------------------- MODULE MpdManager -----------------------------
(***************************************************************************)
(* The MPD of the DASH output (MpdManager.cpp).  Its adaptation sets, by   *)
(* id, have the times of their last segments and the representations that  *)
(* they consist of; those of video are of one class, those of audio of     *)
(* another.  What a representation says of itself (codec, size, rates) is  *)
(* left out.                                                               *)
(***************************************************************************)
EXTENDS Integers, Sequences, TLC

VARIABLES
  adaptationSets,  \* those there are, by id
  maxSeg           \* the segments that each of them lists

mpdVars == <<adaptationSets, maxSeg>>

MIN_SEGMENT == 2

atLeast(segments) == IF segments >= MIN_SEGMENT THEN segments ELSE MIN_SEGMENT

MpdInit(segments) == adaptationSets = <<>> /\ maxSeg = atLeast(segments)

AdaptationSet == [timestamps |-> <<>>, representations |-> {}]

(* update of a set that is there changes its templates only.               *)
updateAdaptationSet(sets, id) ==
  IF id \in DOMAIN sets THEN sets ELSE sets @@ (id :> AdaptationSet)

updateRepresentation(sets, id, reprId) ==
  IF id \notin DOMAIN sets THEN sets
  ELSE [sets EXCEPT ![id].representations = @ \cup {reprId}]

removeRepresentation(sets, id, reprId) ==
  IF id \notin DOMAIN sets THEN sets
  ELSE [sets EXCEPT ![id].representations = @ \ {reprId}]

(* updateTimestamp: the times that leave a list to make room for one more. *)
surplus(list) == IF Len(list) < maxSeg THEN 0 ELSE Len(list) - maxSeg + 1

kept(list) == SubSeq(list, surplus(list) + 1, Len(list))

updateTimestamp(sets, id, ts, dur) ==
  IF id \notin DOMAIN sets THEN sets
  ELSE [sets EXCEPT ![id].timestamps = Append(kept(@), [ts |-> ts, dur |-> dur])]

(* Of several that leave, the last is returned; 0 is that none did.        *)
removedTimestamp(sets, id) ==
  IF id \notin DOMAIN sets \/ surplus(sets[id].timestamps) = 0 THEN 0
  ELSE sets[id].timestamps[surplus(sets[id].timestamps)].ts

(* writeToDisk, toMpd: for each set its times, in order, and all that are  *)
(* in it.                                                                  *)
toMpd(sets) ==
  [id \in {"video", "audio"} |-> IF id \in DOMAIN sets THEN sets[id] ELSE AdaptationSet]
=============================================================================
