------------------------------ MODULE VideoWall ------------------------------
(***************************************************************************)
(* A video splitter whose crops are laid out by a video mixer: each writer *)
(* of the one is connected to the reader of the same id of the other.      *)
(*                                                                         *)
(* A point of a frame is <<number of the frame, x, y>>.                    *)
(***************************************************************************)
EXTENDS VideoMixer

CONSTANTS
  Origins,     \* sizes of the frames of the source, that may change
  Capacity,    \* of the queues in between
  MaxFrames,   \* bound: frames of the source
  MaxEvents    \* bound: events and connections

-----------------------------------------------------------------------------
(* The filter that cuts a picture into several (VideoSplitter.cpp).  Each  *)
(* writer has a crop, which events configure; a frame that a crop does not *)
(* fit into gives nothing to its writer.                                   *)
(*                                                                         *)
(* A frame is its number, which is its time, its size and its points; the  *)
(* rotation by the degree of a crop is not implemented in the code.        *)

CONSTANTS
  Writers,
  Crops    \* that events ask for: [x, y, width, height]

VARIABLES
  cropsConfig,   \* of the writers that are connected
  dstFrames      \* what the last run gave to each of them, or NoFrame

splitterVars == <<cropsConfig, dstFrames>>

NoFrame == [n |-> 0]
Points(w, h) == (0 .. w - 1) \X (0 .. h - 1)

CropConfig == [x |-> 0 - 1, y |-> 0 - 1, width |-> 0, height |-> 0]

SplitterInit == cropsConfig = <<>> /\ dstFrames = [w \in Writers |-> NoFrame]

specificWriterConfig(w) ==
  /\ w \notin DOMAIN cropsConfig
  /\ cropsConfig' = [v \in DOMAIN cropsConfig \cup {w} |->
                       IF v = w THEN CropConfig ELSE cropsConfig[v]]
  /\ UNCHANGED dstFrames

specificWriterDelete(w) ==
  /\ w \in DOMAIN cropsConfig
  /\ cropsConfig' = [v \in DOMAIN cropsConfig \ {w} |-> cropsConfig[v]]
  /\ dstFrames' = [dstFrames EXCEPT ![w] = NoFrame]

coherent(crop) == crop.x >= 0 /\ crop.y >= 0 /\ crop.width > 0 /\ crop.height > 0

(* An event for a writer that is not there, or that makes no sense, is     *)
(* refused.                                                                *)
configCropEvent(w, crop) ==
  /\ w \in DOMAIN cropsConfig /\ coherent(crop)
  /\ cropsConfig' = [cropsConfig EXCEPT ![w] = crop]
  /\ UNCHANGED dstFrames

fits(crop, org) ==
  /\ crop.x >= 0 \/ crop.y >= 0 \/ crop.width > 0 \/ crop.height > 0
  /\ crop.x + crop.width <= org.width /\ crop.y + crop.height <= org.height

cropped(crop, org) ==
  [n |-> org.n, width |-> crop.width, height |-> crop.height, crop |-> crop,
   img |-> [p \in Points(crop.width, crop.height) |-> org.img[<<crop.x + p[1], crop.y + p[2]>>]]]

splitFrame(org) ==
  /\ DOMAIN cropsConfig # {}
  /\ dstFrames' = [w \in Writers |->
                     IF w \in DOMAIN cropsConfig /\ fits(cropsConfig[w], org)
                     THEN cropped(cropsConfig[w], org) ELSE NoFrame]
  /\ UNCHANGED cropsConfig

-----------------------------------------------------------------------------
(* The two connected.                                                      *)

VARIABLES
  queue,       \* [Readers -> the frames in the queue]
  last,        \* of each reader: the frame that was passed last
  orgFrames,   \* of the last run of the mixer
  frames, events

linkVars == <<queue, last>>
vars == <<splitterVars, mixerVars, linkVars, orgFrames, frames, events>>

Init ==
  /\ SplitterInit /\ MixerInit
  /\ queue = [r \in Readers |-> <<>>] /\ last = [r \in Readers |-> NoFrame]
  /\ orgFrames = <<>> /\ frames = 0 /\ events = 0

Event == events < MaxEvents /\ events' = events + 1 /\ UNCHANGED <<orgFrames, frames>>

connect(r) ==
  /\ Event /\ specificWriterConfig(r) /\ specificReaderConfig(r)
  /\ queue' = [queue EXCEPT ![r] = <<>>] /\ last' = [last EXCEPT ![r] = NoFrame]

disconnect(r) ==
  /\ Event /\ specificWriterDelete(r) /\ specificReaderDelete(r)
  /\ UNCHANGED linkVars

configure ==
  /\ Event /\ UNCHANGED linkVars
  /\ \/ \E r \in Readers, crop \in Crops : configCropEvent(r, crop) /\ UNCHANGED mixerVars
     \/ /\ UNCHANGED splitterVars
        /\ \/ \E r \in Readers, c \in Configs : configChannelEvent(r, c)
           \/ \E wh \in Sizes \ {size} : configureEvent(wh)

(* A frame that does not fit into a queue is lost.                         *)
split(wh) ==
  LET n == frames + 1
      org == [n |-> n, width |-> wh[1], height |-> wh[2],
              img |-> [p \in Points(wh[1], wh[2]) |-> <<n, p[1], p[2]>>]]
  IN /\ frames < MaxFrames /\ frames' = n
     /\ splitFrame(org)
     /\ queue' = [r \in Readers |->
                    IF dstFrames'[r] = NoFrame \/ Len(queue[r]) = Capacity THEN queue[r]
                    ELSE Append(queue[r], dstFrames'[r])]
     /\ UNCHANGED <<mixerVars, last, orgFrames, events>>

(* Readers without a new frame give the last one again.                    *)
mix(new) ==
  /\ \A r \in new : r \in DOMAIN channelsConfig /\ queue[r] # <<>>
  /\ last' = [r \in Readers |-> IF r \in new THEN Head(queue[r]) ELSE last[r]]
  /\ queue' = [r \in Readers |-> IF r \in new THEN Tail(queue[r]) ELSE queue[r]]
  /\ orgFrames' = [r \in {q \in DOMAIN channelsConfig : last'[q] # NoFrame} |-> last'[r]]
  /\ mixFrames(orgFrames')
  /\ UNCHANGED <<splitterVars, frames, events>>

Next ==
  \/ \E r \in Readers : connect(r) \/ disconnect(r)
  \/ configure
  \/ \E wh \in Origins : split(wh)
  \/ \E new \in (SUBSET Readers) \ {{}} : mix(new)

Spec == Init /\ [][Next]_vars

-----------------------------------------------------------------------------
(* Where a channel of the mixer is, with the crop of its frame, each point *)
(* of the picture shows the point of the source that belongs there.        *)
InPlace ==
  \A p \in Layout : \A k \in DOMAIN out'.img[p] :
    LET r == out'.img[p][k][1]
        point == out'.img[p][k][2]
        crop == orgFrames'[r].crop
        place == channelsConfig[r].place
    IN /\ crop.width = pixels(place.width, size[1])
       /\ crop.height = pixels(place.height, size[2])
       => point = <<orgFrames'[r].n, crop.x + p[1] - pixels(place.x, size[1]),
                    crop.y + p[2] - pixels(place.y, size[2])>>

(* doProcessFrame: the wall shows what is asked for, the right channels at *)
(* each point, and the right points of their frames.  With best effort,    *)
(* pictures follow each other in time, but for one after a channel was     *)
(* hidden or removed, which may be the one that was ahead.                 *)
WallShown ==
  [][/\ orgFrames' # orgFrames => Layered(orgFrames') /\ InPlace
     /\ out' # out => out'.time >= out.time \/ hidden]_vars
=============================================================================
