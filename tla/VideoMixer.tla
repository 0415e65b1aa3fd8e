----------------------------- MODULE VideoMixer -----------------------------
(***************************************************************************)
(* The filter that lays pictures out in one (VideoMixer.cpp).  Each reader *)
(* has a channel with a place, a layer and an opacity, which events        *)
(* configure.  Each run pastes the frames of all enabled channels, layer   *)
(* by layer, and within a layer by their ids.                              *)
(*                                                                         *)
(* The filter runs at best effort: with a frame time of its own a picture  *)
(* gets the time of the filter, see FilterSync.                            *)
(*                                                                         *)
(* Places are given in parts of the layout, Unit of them in all.  A point  *)
(* of the picture is what can be seen through there: <<channel, point>> of *)
(* the frames from the lowest to the highest.                              *)
(***************************************************************************)
EXTENDS Integers, Sequences, SequencesExt, FiniteSetsExt

CONSTANTS
  Readers,      \* ids 1 .. n
  maxChannels,
  Unit,
  Configs,      \* of channels, that events ask for, see ChannelConfig
  Sizes         \* of the layout: <<width, height>>

VARIABLES
  channelsConfig,  \* of the readers that are connected
  size,            \* of the layout
  out,             \* the last picture
  hidden           \* history: since then a channel was hidden or removed

mixerVars == <<channelsConfig, size, out, hidden>>

Layout == (0 .. size[1] - 1) \X (0 .. size[2] - 1)

ChannelConfig ==
  [place |-> [x |-> 0, y |-> 0, width |-> Unit, height |-> Unit], layer |-> 0,
   enabled |-> FALSE, opaque |-> TRUE]

MixerInit ==
  /\ channelsConfig = <<>> /\ size \in Sizes
  /\ out = [time |-> 0, img |-> [p \in Layout |-> <<>>]] /\ hidden = FALSE

specificReaderConfig(r) ==
  /\ r \notin DOMAIN channelsConfig
  /\ channelsConfig' = [q \in DOMAIN channelsConfig \cup {r} |->
                          IF q = r THEN ChannelConfig ELSE channelsConfig[q]]
  /\ UNCHANGED <<size, out, hidden>>

specificReaderDelete(r) ==
  /\ r \in DOMAIN channelsConfig
  /\ channelsConfig' = [q \in DOMAIN channelsConfig \ {r} |-> channelsConfig[q]]
  /\ hidden' = TRUE
  /\ UNCHANGED <<size, out>>

coherentPlace(c) ==
  /\ c.place.x >= 0 /\ c.place.y >= 0 /\ c.place.width > 0 /\ c.place.height > 0
  /\ 0 <= c.layer /\ c.layer <= maxChannels

(* A place beyond the edges is only warned of.  The layer maxChannels is   *)
(* accepted, but not visited.                                              *)
configChannelEvent(r, c) ==
  /\ r \in DOMAIN channelsConfig /\ coherentPlace(c)
  /\ channelsConfig' = [channelsConfig EXCEPT ![r] = c]
  /\ hidden' = (hidden \/ ~c.enabled \/ c.layer = maxChannels)
  /\ UNCHANGED <<size, out>>

configureEvent(wh) ==
  /\ size' = wh
  /\ UNCHANGED <<channelsConfig, out, hidden>>

pixels(part, whole) == (part * whole) \div Unit

(* The part of the layout that a picture covers along one side.            *)
clipped(from, length, whole) ==
  from .. (IF from + length > whole THEN whole ELSE from + length) - 1

(* What a frame, resized if need be, shows at a point of its place.        *)
resized(f, w, h, p) ==
  IF f.width = w /\ f.height = h THEN f.img[p]
  ELSE f.img[<<(p[1] * f.width) \div w, (p[2] * f.height) \div h>>]

pasteToLayout(layout, r, f) ==
  LET c == channelsConfig[r]
      w == pixels(c.place.width, size[1])  h == pixels(c.place.height, size[2])
      x == pixels(c.place.x, size[1])      y == pixels(c.place.y, size[2])
  IN [p \in DOMAIN layout |->
       IF p \notin clipped(x, w, size[1]) \X clipped(y, h, size[2]) THEN layout[p]
       ELSE LET point == <<r, resized(f, w, h, <<p[1] - x, p[2] - y>>)>>
            IN IF c.opaque THEN <<point>> ELSE Append(layout[p], point)]

(* Mutant of enough: one frame fewer is left to look for.                  *)
enoughEarly(left) == left <= 1

(* All frames were pasted, or are not to be.                               *)
enough(left) == left <= 0

(* Mutant of later: the time of the frame that was pasted last.            *)
laterPasted(time, f) == f.n

later(time, f) == IF f.n > time THEN f.n ELSE time

(* A frame is looked at in the layer of its channel.                       *)
visit(s, lay, r, orgFrames) ==
  IF r \notin DOMAIN channelsConfig \/ channelsConfig[r].layer # lay THEN s
  ELSE IF ~channelsConfig[r].enabled THEN [s EXCEPT !.left = @ - 1]
  ELSE [layout |-> pasteToLayout(s.layout, r, orgFrames[r]), left |-> s.left - 1,
        time |-> later(s.time, orgFrames[r])]

visitLayer(s, lay, orgFrames) ==
  LET upTo[r \in 0 .. Max(Readers)] ==
        IF r = 0 THEN s
        ELSE IF r \notin DOMAIN orgFrames THEN upTo[r - 1]
        ELSE visit(upTo[r - 1], lay, r, orgFrames)
  IN upTo[Max(Readers)]

visitLayers(orgFrames) ==
  LET start == [layout |-> [p \in Layout |-> <<>>], left |-> Cardinality(DOMAIN orgFrames),
                time |-> 0]
      upTo[lay \in 0 - 1 .. maxChannels - 1] ==
        IF lay = 0 - 1 THEN start
        ELSE IF lay > 0 /\ enough(upTo[lay - 1].left) THEN upTo[lay - 1]
        ELSE visitLayer(upTo[lay - 1], lay, orgFrames)
  IN upTo[maxChannels - 1]

mixFrames(orgFrames) ==
  /\ orgFrames # <<>>
  /\ LET drawn == visitLayers(orgFrames) IN out' = [time |-> drawn.time, img |-> drawn.layout]
  /\ hidden' = FALSE
  /\ UNCHANGED <<channelsConfig, size>>

-----------------------------------------------------------------------------
covers(r, p, orgFrames) ==
  LET c == channelsConfig[r] IN
  /\ c.enabled /\ c.layer < maxChannels
  /\ p[1] \in clipped(pixels(c.place.x, size[1]), pixels(c.place.width, size[1]), size[1])
  /\ p[2] \in clipped(pixels(c.place.y, size[2]), pixels(c.place.height, size[2]), size[2])

above(r, q) ==
  \/ channelsConfig[r].layer > channelsConfig[q].layer
  \/ channelsConfig[r].layer = channelsConfig[q].layer /\ r > q

(* Each point of a picture shows the channels that cover it, the higher    *)
(* ones above the lower ones, and none that is behind an opaque one.       *)
Layered(orgFrames) ==
  \A p \in Layout :
    LET seen == out'.img[p]
        there == {r \in DOMAIN orgFrames \cap DOMAIN channelsConfig : covers(r, p, orgFrames)}
    IN /\ {seen[k][1] : k \in DOMAIN seen} =
            {r \in there : ~\E q \in there : above(q, r) /\ channelsConfig[q].opaque}
       /\ \A j, k \in DOMAIN seen : j < k => above(seen[k][1], seen[j][1])
=============================================================================
