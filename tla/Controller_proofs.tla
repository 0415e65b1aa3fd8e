-------------------------- MODULE Controller_proofs --------------------------
(***************************************************************************)
(* Proofs about PipelineManager.cpp and Controller.cpp for any filters,    *)
(* paths and requests, as long as no two paths fork at a filter or ask for *)
(* the same reader: the graph, the map of paths and the entries of the     *)
(* filters agree after every command, and what a client is told is so.     *)
(***************************************************************************)
EXTENDS Controller, TLAPS

(* A filter in the middle of a path is in no other, and reads.             *)
NoForks ==
  \A p \in Paths : \A m \in ToSet(Request[p].mids) :
    /\ MaxReaders[m] # 0
    /\ \A o \in Paths \ {p} :
         m \notin {Request[o].org, Request[o].dst} \cup ToSet(Request[o].mids)

(* Two paths to a filter with several readers either leave the choice of   *)
(* the reader to the manager or ask for different ones.                    *)
OwnReaders ==
  \A p, o \in Paths : p # o /\ Request[p].dst = Request[o].dst =>
    \/ MaxReaders[Request[p].dst] # 1 /\ Request[p].rId = AnyId /\ Request[o].rId = AnyId
    \/ /\ Request[p].rId # AnyId /\ Request[o].rId # AnyId
       /\ Request[p].rId # Request[o].rId

Assumption == PipelineAssumption /\ NoForks /\ OwnReaders

(* Only ids are chosen: a path goes through the filters asked for.         *)
AsRequested ==
  /\ path \in [Paths -> PathRecord]
  /\ \A p \in Paths :
       /\ path[p].org = Request[p].org /\ path[p].dst = Request[p].dst
       /\ path[p].mids = Request[p].mids
       /\ Request[p].rId # AnyId => path[p].rId = Request[p].rId

(* No filter of a path is deleted before the path.                         *)
AllComplete == \A p \in paths \ deleted : complete(p)

(* No two paths end at the same reader.                                    *)
Apart ==
  \A p, o \in paths : p # o /\ path[p].dst = path[o].dst => path[p].rId # path[o].rId

Idle == stopping = "idle" => deleted = {}

IInv ==
  TypeOK /\ AsRequested /\ AllComplete /\ Apart /\ Idle
  /\ NoOrphanLink /\ PathStaysConnected /\ StopSucceeds
------------------------------------------------------------------------------
USE DEF PathRecord

(* The hops of a path, by number.                                          *)
LEMMA HopsOf ==
  ASSUME NEW q, q.mids \in Seq(Filters)
  PROVE  DOMAIN hops(q) = 1 .. Len(hops(q)) /\ Len(hops(q)) \in Nat
<1> DEFINE h == hops(q)
           S == {h[i] : i \in DOMAIN h}
<1>1. Len(q.mids) \in Nat /\ DOMAIN h = 1 .. Len(q.mids) + 1
  BY DEF hops
<1>2. h \in [1 .. Len(q.mids) + 1 -> S]
  BY <1>1 DEF hops
<1> HIDE DEF h, S
<1>3. h \in Seq(S)
  BY <1>1, <1>2
<1>4. DOMAIN h = 1 .. Len(h) /\ Len(h) \in Nat
  BY <1>3
<1> QED BY <1>4 DEF h

(* The ends of the links of a path.                                        *)
LEMMA Ends ==
  ASSUME AsRequested, NEW p \in Paths, NEW l \in linksOf(p)
  PROVE  /\ \/ l[1] = <<path[p].dst, path[p].rId>>
            \/ \E m \in ToSet(path[p].mids) : l[1] = <<m, DefaultId>>
         /\ \/ l[2] = <<path[p].org, path[p].wId>>
            \/ \E m \in ToSet(path[p].mids) : l[2] = <<m, DefaultId>>
<1> DEFINE n == Len(path[p].mids)
<1>1. path[p].mids \in Seq(Filters) /\ n \in Nat /\ DOMAIN path[p].mids = 1 .. n
  <2>1. path[p].mids \in Seq(Filters)
    BY DEF AsRequested
  <2> QED BY <2>1
<1>2. DOMAIN hops(path[p]) = 1 .. n + 1
  BY DEF hops
<1>3. PICK i \in 1 .. n + 1 : l = <<hops(path[p])[i][2], hops(path[p])[i][1]>>
  BY <1>2 DEF linksOf
<1>4. /\ l[1] = IF i = n + 1 THEN <<path[p].dst, path[p].rId>>
              ELSE <<path[p].mids[i], DefaultId>>
      /\ l[2] = IF i = 1 THEN <<path[p].org, path[p].wId>>
              ELSE <<path[p].mids[i - 1], DefaultId>>
  BY <1>3 DEF hops
<1>5. i # n + 1 => path[p].mids[i] \in ToSet(path[p].mids)
  <2>1. i # n + 1 => i \in 1 .. n
    BY <1>1
  <2> QED BY <2>1, <1>1 DEF ToSet
<1>6. i # 1 => path[p].mids[i - 1] \in ToSet(path[p].mids)
  <2>1. i # 1 => i - 1 \in 1 .. n
    BY <1>1
  <2> QED BY <2>1, <1>1 DEF ToSet
<1> QED BY <1>4, <1>5, <1>6

(* What a path has keeps its place as long as its record does.             *)
LEMMA Kept ==
  ASSUME NEW p, path'[p] = path[p]
  PROVE  linksOf(p)' = linksOf(p) /\ (filters' = filters => (complete(p)' <=> complete(p)))
BY DEF linksOf, hops, complete

THEOREM InitSound == Assumption /\ Init => IInv
<1> SUFFICES ASSUME Assumption, Init PROVE IInv
  OBVIOUS
<1> USE DEF Init
<1>1. TypeOK
  BY DEF TypeOK, Assumption, PipelineAssumption
<1>2. AsRequested
  BY DEF AsRequested, Assumption, PipelineAssumption
<1>3. AllComplete /\ Apart /\ Idle /\ NoOrphanLink /\ PathStaysConnected /\ StopSucceeds
  BY DEF AllComplete, Apart, Idle, NoOrphanLink, PathStaysConnected, StopSucceeds
<1> QED BY <1>1, <1>2, <1>3 DEF IInv

(* deletePath takes from the graph what belongs to the path and to no      *)
(* other one: the other paths are as complete and connected as before, and *)
(* of this one nothing is left.                                            *)
LEMMA PathDeleted ==
  ASSUME Assumption, IInv, NEW p \in paths \ deleted, deletePath(p), path' = path,
         paths' \ deleted' = (paths \ deleted) \ {p},
         \A o \in Paths \ {p} : status'[o] = status[o]
  PROVE  /\ filters' \subseteq filters
         /\ writers' \subseteq filters' \X Ids /\ readers' \subseteq filters' \X Ids
         /\ links' \subseteq readers' \X writers'
         /\ AllComplete' /\ NoOrphanLink' /\ PathStaysConnected'
<1> DEFINE q == path[p]
           r == <<q.dst, q.rId>>
<1>1. PICK spared : setGraph(withoutPath(p, spared))
  BY DEF deletePath
<1> DEFINE used(f) == f \in spared \/ \E o \in paths \ (deleted \cup {p}) : hasFilter(o, f)
           F == ToSet(q.mids) \cup {f \in {q.org, q.dst} : ~used(f)}
<1>2. /\ filters' = filters \ F
      /\ writers' = {w \in writers : w[1] \notin F}
      /\ readers' = {s \in readers \ {r} : s[1] \notin F}
      /\ links' = {l \in links : l[1] # r /\ l[1][1] \notin F /\ l[2][1] \notin F}
  <2>1. withoutPath(p, spared) = destroyed(disconnected(graph, r), F)
    BY Zenon DEF withoutPath
  <2>2. /\ disconnected(graph, r).filters = filters
        /\ disconnected(graph, r).writers = writers
        /\ disconnected(graph, r).readers = readers \ {r}
        /\ disconnected(graph, r).links = {l \in links : l[1] # r}
    BY DEF disconnected, graph
  <2> HIDE DEF r, F
  <2>3. /\ withoutPath(p, spared).filters = filters \ F
        /\ withoutPath(p, spared).writers = {w \in writers : w[1] \notin F}
        /\ withoutPath(p, spared).readers = {s \in readers \ {r} : s[1] \notin F}
        /\ withoutPath(p, spared).links
           = {l \in {k \in links : k[1] # r} : l[1][1] \notin F /\ l[2][1] \notin F}
    BY <2>1, <2>2 DEF destroyed
  <2> QED BY <1>1, <2>3 DEF setGraph
<1>3. paths \subseteq Paths /\ p \in Paths
  BY DEF IInv, TypeOK
<1>4. ASSUME NEW o \in (paths \ deleted) \ {p}, NEW f \in F
      PROVE  f \notin {path[o].org, path[o].dst} \cup ToSet(path[o].mids)
  <2>1. o \in Paths \ {p} /\ o \in paths \ (deleted \cup {p})
    BY <1>3
  <2>2. /\ path[o].org = Request[o].org /\ path[o].dst = Request[o].dst
        /\ path[o].mids = Request[o].mids /\ path[p].mids = Request[p].mids
    BY <1>3, <2>1 DEF IInv, AsRequested
  <2>3. CASE f \in ToSet(q.mids)
    BY <1>3, <2>1, <2>2, <2>3 DEF Assumption, NoForks
  <2>4. CASE ~used(f)
    BY <2>1, <2>4 DEF hasFilter
  <2> QED BY <2>3, <2>4
<1>5. ASSUME NEW o \in (paths \ deleted) \ {p}, NEW m \in ToSet(path[o].mids)
      PROVE  <<m, DefaultId>> # r
  <2>1. o \in Paths \ {p}
    BY <1>3
  <2>2. path[p].dst = Request[p].dst /\ path[o].mids = Request[o].mids
    BY <1>3, <2>1 DEF IInv, AsRequested
  <2>3. m # q.dst
    BY <1>3, <2>1, <2>2 DEF Assumption, NoForks
  <2> QED BY <2>3
<1> HIDE DEF F
<1>6. writers' \subseteq filters' \X Ids /\ readers' \subseteq filters' \X Ids
      /\ links' \subseteq readers' \X writers' /\ filters' \subseteq filters
  <2>1. writers \subseteq filters \X Ids /\ readers \subseteq filters \X Ids
        /\ links \subseteq readers \X writers
    BY DEF IInv, TypeOK
  <2> HIDE DEF r
  <2>2. writers' \subseteq filters' \X Ids
    BY <1>2, <2>1
  <2>3. readers' \subseteq filters' \X Ids
    BY <1>2, <2>1
  <2>4. ASSUME NEW l \in links' PROVE l \in readers' \X writers'
    <3>1. l \in readers \X writers /\ l[1] # r /\ l[1][1] \notin F /\ l[2][1] \notin F
      BY <1>2, <2>1
    <3>2. l[1] \in readers' /\ l[2] \in writers'
      BY <1>2, <3>1
    <3> QED BY <3>1, <3>2
  <2> QED BY <1>2, <2>2, <2>3, <2>4
<1>7. AllComplete'
  <2> SUFFICES ASSUME NEW o \in (paths \ deleted) \ {p} PROVE complete(o)'
    BY DEF AllComplete
  <2>1. complete(o)
    BY DEF IInv, AllComplete
  <2>2. /\ path[o].org \in filters \ F /\ path[o].dst \in filters \ F
        /\ ToSet(path[o].mids) \subseteq filters \ F
    BY <1>4, <2>1 DEF complete
  <2> QED BY <1>2, <2>2 DEF complete
<1>8. \A o \in Paths : linksOf(o)' = linksOf(o)
  BY Kept
<1>9. NoOrphanLink'
  <2> SUFFICES ASSUME NEW l \in links'
               PROVE  \E o \in (paths \ deleted) \ {p} : l \in linksOf(o)'
    BY DEF NoOrphanLink
  <2>1. PICK o \in paths \ deleted : l \in linksOf(o)
    BY <1>2 DEF IInv, NoOrphanLink
  <2>2. o # p
    <3> SUFFICES ASSUME o = p PROVE FALSE
      OBVIOUS
    <3>1. \/ l[1] = r \/ \E m \in ToSet(q.mids) : l[1] = <<m, DefaultId>>
      BY <1>3, <2>1, Ends DEF IInv
    <3>2. \A m \in ToSet(q.mids) : m \in F
      BY DEF F
    <3> QED BY <1>2, <3>1, <3>2
  <2> QED BY <1>3, <1>8, <2>1, <2>2
<1>10. PathStaysConnected'
  <2> SUFFICES ASSUME NEW o \in (paths \ deleted) \ {p}, status'[o] = "connected",
                      NEW l \in linksOf(o)'
               PROVE  l \in links'
    BY DEF PathStaysConnected
  <2>1. o \in Paths \ {p} /\ status[o] = "connected" /\ l \in linksOf(o)
    BY <1>3, <1>8
  <2>2. l \in links
    BY <2>1 DEF IInv, PathStaysConnected
  <2>3. /\ \/ l[1] = <<path[o].dst, path[o].rId>>
           \/ \E m \in ToSet(path[o].mids) : l[1] = <<m, DefaultId>>
        /\ \/ l[2] = <<path[o].org, path[o].wId>>
           \/ \E m \in ToSet(path[o].mids) : l[2] = <<m, DefaultId>>
    BY <2>1, Ends DEF IInv
  <2>4. l[1][1] \notin F /\ l[2][1] \notin F
    BY <1>4, <2>3
  <2>5. <<path[o].dst, path[o].rId>> # r
    BY DEF IInv, Apart
  <2>6. l[1] # r
    BY <1>5, <2>3, <2>5
  <2> QED BY <1>2, <2>2, <2>4, <2>6
<1> QED BY <1>6, <1>7, <1>9, <1>10
(* A path that is added: its reader is no other's.                         *)
LEMMA PathCreated ==
  ASSUME Assumption, IInv, NEW p \in Paths, createPath(p)
  PROVE  IInv'
<1> DEFINE q == Request[p]
<1>1. /\ p \notin paths /\ q.org \in filters /\ q.dst \in filters
      /\ ToSet(q.mids) \subseteq filters
      /\ paths' = paths \cup {p} /\ status' = [status EXCEPT ![p] = "created"]
      /\ stopping = "idle" /\ UNCHANGED <<filters, writers, readers, links, deleted, stopping, creates>>
  BY DEF createPath, validPath
<1>2. PICK w \in IF q.wId # AnyId THEN {q.wId}
                ELSE generateId(MaxWriters[q.org], idsOf(writers, q.org) \cup reserved(q.org)),
           r \in IF q.rId # AnyId THEN {q.rId}
                ELSE generateId(MaxReaders[q.dst], idsOf(readers, q.dst) \cup reserved(q.dst)) :
        path' = [path EXCEPT ![p] = [q EXCEPT !.wId = w, !.rId = r]]
  BY DEF createPath
<1>3. q \in PathRecord
  BY DEF Assumption, PipelineAssumption
<1>4. w \in Ids /\ r \in Ids
  BY <1>2, <1>3 DEF generateId, Assumption, PipelineAssumption
<1>5. /\ path'[p].org = q.org /\ path'[p].dst = q.dst /\ path'[p].mids = q.mids
      /\ path'[p].wId = w /\ path'[p].rId = r
      /\ path'[p] \in PathRecord
  BY <1>2, <1>3, <1>4 DEF IInv, AsRequested
<1>6. \A o \in Paths \ {p} : path'[o] = path[o]
  BY <1>2 DEF IInv, AsRequested
<1>7. paths \subseteq Paths /\ deleted = {} /\ p \notin paths
  BY <1>1 DEF IInv, TypeOK, Idle
<1>8. TypeOK'
  BY <1>1, <1>4, <1>5, <1>6 DEF IInv, TypeOK
<1>9. AsRequested'
  <2>1. path' \in [Paths -> PathRecord]
    BY <1>2, <1>5, <1>6 DEF IInv, AsRequested
  <2>2. q.rId # AnyId => r = q.rId
    BY <1>2
  <2> QED BY <1>5, <1>6, <2>1, <2>2 DEF IInv, AsRequested
<1>10. AllComplete'
  <2> SUFFICES ASSUME NEW o \in paths' \ deleted' PROVE complete(o)'
    BY DEF AllComplete
  <2>1. CASE o = p
    BY <1>1, <1>5, <2>1 DEF complete
  <2>2. CASE o # p
    BY <1>1, <1>6, <1>7, <2>2 DEF IInv, AllComplete, complete
  <2> QED BY <2>1, <2>2
<1>11. Apart'
  <2>1. ASSUME NEW o \in paths, path[o].dst = q.dst PROVE path[o].rId # r
    <3>1. o \in Paths \ {p} /\ path[o].dst = Request[o].dst
      BY <1>7 DEF IInv, AsRequested
    <3>2. CASE q.rId = AnyId
      <4>1. MaxReaders[q.dst] # 1
        BY <2>1, <3>1, <3>2 DEF Assumption, OwnReaders
      <4>2. r \notin reserved(q.dst)
        BY <1>2, <3>2, <4>1 DEF generateId
      <4> QED BY <2>1, <4>2 DEF reserved
    <3>3. CASE q.rId # AnyId
      <4>1. r = q.rId /\ path[o].rId = Request[o].rId /\ Request[o].rId # q.rId
        BY <1>2, <2>1, <3>1, <3>3 DEF Assumption, OwnReaders, IInv, AsRequested
      <4> QED BY <4>1
    <3> QED BY <3>2, <3>3
  <2>2. \A o \in paths : o \in Paths \ {p} /\ path'[o] = path[o]
    BY <1>6, <1>7
  <2>3. ASSUME NEW o \in paths', NEW s \in paths', o # s, path'[o].dst = path'[s].dst
        PROVE  path'[o].rId # path'[s].rId
    <3>1. CASE o \in paths /\ s \in paths
      BY <2>2, <2>3, <3>1 DEF IInv, Apart
    <3>2. CASE o = p \/ s = p
      BY <1>1, <1>5, <2>1, <2>2, <2>3, <3>2
    <3> QED BY <1>1, <3>1, <3>2
  <2> QED BY <2>3 DEF Apart
<1>12. Idle' /\ StopSucceeds'
  BY <1>1 DEF IInv, Idle, StopSucceeds
<1>13. \A o \in paths : linksOf(o)' = linksOf(o)
  BY <1>6, <1>7, Kept
<1>14. NoOrphanLink' /\ PathStaysConnected'
  <2>1. NoOrphanLink'
    BY <1>1, <1>7, <1>13 DEF IInv, NoOrphanLink
  <2>2. \A o \in Paths \ {p} : status'[o] = status[o]
    BY <1>1 DEF IInv, TypeOK
  <2>3. status'[p] = "created"
    BY <1>1 DEF IInv, TypeOK
  <2>4. ASSUME NEW o \in paths' \ deleted', status'[o] = "connected"
        PROVE  linksOf(o)' \subseteq links'
    <3>1. o \in paths \ deleted /\ o \in Paths \ {p}
      BY <1>1, <1>7, <2>3, <2>4
    <3> QED BY <1>1, <1>13, <2>2, <2>4, <3>1 DEF IInv, PathStaysConnected
  <2> QED BY <2>1, <2>4 DEF PathStaysConnected
<1> QED BY <1>8, <1>9, <1>10, <1>11, <1>12, <1>14 DEF IInv

(* A path that is connected, as far as that goes: all that is added to the *)
(* graph belongs to it.                                                    *)
LEMMA PathConnected ==
  ASSUME Assumption, IInv, NEW p \in Paths, connectPath(p)
  PROVE  IInv'
<1> DEFINE h == hops(path[p])
<1>1. /\ stopping = "idle" /\ p \in paths
      /\ UNCHANGED <<paths, path, deleted, stopping, creates>>
  BY DEF connectPath
<1>2. PICK n \in 0 .. Len(h) :
        /\ setGraph(linked(graph, h, n))
        /\ status' = [status EXCEPT ![p] = IF n = Len(h) THEN "connected" ELSE "failed"]
  BY DEF connectPath
<1>3. /\ filters' = filters
      /\ writers' = writers \cup {h[i][1] : i \in 1 .. n}
      /\ readers' = readers \cup {h[i][2] : i \in 1 .. n}
      /\ links' = links \cup {<<h[i][2], h[i][1]>> : i \in 1 .. n}
  <2> HIDE DEF h
  <2> QED BY <1>2 DEF setGraph, linked, graph
<1>4. deleted = {} /\ complete(p) /\ paths \subseteq Paths
  BY <1>1 DEF IInv, Idle, AllComplete, TypeOK
<1>5. DOMAIN h = 1 .. Len(h) /\ Len(h) \in Nat
  <2>1. path[p].mids \in Seq(Filters)
    BY DEF IInv, AsRequested
  <2> QED BY <2>1, HopsOf
<1>6. {<<h[i][2], h[i][1]>> : i \in 1 .. n} \subseteq linksOf(p)
  <2>1. 1 .. n \subseteq DOMAIN h
    BY <1>5
  <2> QED BY <2>1 DEF linksOf
<1>7. ASSUME NEW l \in linksOf(p) PROVE l[1] \in filters \X Ids /\ l[2] \in filters \X Ids
  <2>1. /\ path[p].org \in filters /\ path[p].dst \in filters
        /\ ToSet(path[p].mids) \subseteq filters
        /\ path[p].wId \in Ids /\ path[p].rId \in Ids /\ DefaultId \in Ids
    BY <1>1, <1>4 DEF complete, IInv, TypeOK, Assumption, PipelineAssumption
  <2>2. /\ \/ l[1] = <<path[p].dst, path[p].rId>>
           \/ \E m \in ToSet(path[p].mids) : l[1] = <<m, DefaultId>>
        /\ \/ l[2] = <<path[p].org, path[p].wId>>
           \/ \E m \in ToSet(path[p].mids) : l[2] = <<m, DefaultId>>
    BY Ends DEF IInv
  <2>3. \A m \in ToSet(path[p].mids) : <<m, DefaultId>> \in filters \X Ids
    BY <2>1
  <2>4. /\ <<path[p].dst, path[p].rId>> \in filters \X Ids
        /\ <<path[p].org, path[p].wId>> \in filters \X Ids
    BY <2>1
  <2>5. l[1] \in filters \X Ids
    BY <2>2, <2>3, <2>4
  <2>6. l[2] \in filters \X Ids
    BY <2>2, <2>3, <2>4
  <2> QED BY <2>5, <2>6
<1>8. TypeOK'
  <2>1. ASSUME NEW i \in 1 .. n
        PROVE  h[i][1] \in filters \X Ids /\ h[i][2] \in filters \X Ids
    <3>1. <<h[i][2], h[i][1]>> \in linksOf(p)
      BY <1>6
    <3> HIDE DEF h
    <3>2. /\ <<h[i][2], h[i][1]>>[1] \in filters \X Ids
          /\ <<h[i][2], h[i][1]>>[2] \in filters \X Ids
      BY <1>7, <3>1
    <3> QED BY <3>2
  <2> HIDE DEF h
  <2>2. writers' \subseteq filters' \X Ids /\ readers' \subseteq filters' \X Ids
    BY <1>3, <2>1 DEF IInv, TypeOK
  <2>3. links' \subseteq readers' \X writers'
    <3>1. links \subseteq readers \X writers
      BY DEF IInv, TypeOK
    <3>2. \A i \in 1 .. n : h[i][2] \in readers' /\ h[i][1] \in writers'
      BY <1>3
    <3> QED BY <1>3, <3>1, <3>2
  <2>4. status' \in [Paths -> {"none", "created", "connected", "failed", "cut"}]
    BY <1>2 DEF IInv, TypeOK
  <2> QED BY <1>1, <1>3, <2>2, <2>3, <2>4 DEF IInv, TypeOK
<1>9. \A o : linksOf(o)' = linksOf(o) /\ (complete(o)' <=> complete(o))
  BY <1>1, <1>3, Kept
<1>10. AsRequested' /\ Apart' /\ Idle' /\ StopSucceeds'
  BY <1>1 DEF IInv, AsRequested, Apart, Idle, StopSucceeds
<1>11. AllComplete'
  BY <1>1, <1>9 DEF IInv, AllComplete
<1>12. NoOrphanLink'
  <2>1. ASSUME NEW l \in links' PROVE \E o \in paths \ deleted : l \in linksOf(o)
    <3>1. CASE l \in links
      BY <3>1 DEF IInv, NoOrphanLink
    <3>2. CASE l \notin links
      BY <1>1, <1>3, <1>4, <1>6, <3>2
    <3> QED BY <3>1, <3>2
  <2> QED BY <1>1, <1>9, <2>1 DEF NoOrphanLink
<1>13. PathStaysConnected'
  <2> SUFFICES ASSUME NEW o \in paths \ deleted, status'[o] = "connected"
               PROVE  linksOf(o) \subseteq links'
    BY <1>1, <1>9 DEF PathStaysConnected
  <2>1. CASE o # p
    <3>1. status[o] = "connected"
      BY <1>2, <1>4, <2>1 DEF IInv, TypeOK
    <3> QED BY <1>3, <3>1 DEF IInv, PathStaysConnected
  <2>2. CASE o = p
    <3>1. n = Len(h)
      BY <1>2, <2>2 DEF IInv, TypeOK
    <3>2. linksOf(p) = {<<h[i][2], h[i][1]>> : i \in 1 .. n}
      BY <1>5, <3>1 DEF linksOf
    <3> QED BY <1>3, <2>2, <3>2
  <2> QED BY <2>1, <2>2
<1> QED BY <1>8, <1>10, <1>11, <1>12, <1>13 DEF IInv
(* The end of a source: the paths that are cut start at the writer.        *)
LEMMA SourceEnded ==
  ASSUME Assumption, IInv, NEW w, disconnectWriter(w)
  PROVE  IInv'
<1>1. /\ stopping = "idle" /\ w \in writers /\ MaxReaders[w[1]] = 0
      /\ writers' = writers \ {w} /\ links' = {l \in links : l[2] # w}
      /\ status' = [o \in Paths |-> IF status[o] = "connected" /\ <<path[o].org, path[o].wId>> = w
                                    THEN "cut" ELSE status[o]]
      /\ UNCHANGED <<filters, readers, paths, path, deleted, stopping, creates>>
  BY DEF disconnectWriter
<1>2. \A o : linksOf(o)' = linksOf(o) /\ (complete(o)' <=> complete(o))
  BY <1>1, Kept
<1>3. TypeOK'
  <2>1. writers \subseteq filters \X Ids /\ links \subseteq readers \X writers
    BY DEF IInv, TypeOK
  <2>2. links' \subseteq readers' \X writers'
    <3>1. \A l \in links : l[1] \in readers /\ l[2] \in writers /\ l = <<l[1], l[2]>>
      BY <2>1
    <3> QED BY <1>1, <3>1
  <2>3. status' \in [Paths -> {"none", "created", "connected", "failed", "cut"}]
    BY <1>1 DEF IInv, TypeOK
  <2> QED BY <1>1, <2>2, <2>3 DEF IInv, TypeOK
<1>4. AsRequested' /\ Apart' /\ Idle' /\ StopSucceeds' /\ AllComplete'
  BY <1>1, <1>2 DEF IInv, AsRequested, Apart, Idle, StopSucceeds, AllComplete
<1>5. NoOrphanLink'
  BY <1>1, <1>2 DEF IInv, NoOrphanLink
<1>6. PathStaysConnected'
  <2> SUFFICES ASSUME NEW o \in paths \ deleted, status'[o] = "connected", NEW l \in linksOf(o)
               PROVE  l \in links'
    BY <1>1, <1>2 DEF PathStaysConnected
  <2>1. o \in Paths
    BY DEF IInv, TypeOK
  <2>2. status[o] = "connected" /\ <<path[o].org, path[o].wId>> # w
    BY <1>1, <2>1
  <2>3. l \in links
    BY <2>2 DEF IInv, PathStaysConnected
  <2>4. ASSUME NEW m \in ToSet(path[o].mids) PROVE w # <<m, DefaultId>>
    <3>1. MaxReaders[m] # 0
      BY <2>1 DEF Assumption, NoForks, IInv, AsRequested
    <3> QED BY <1>1, <3>1
  <2>5. \/ l[2] = <<path[o].org, path[o].wId>>
        \/ \E m \in ToSet(path[o].mids) : l[2] = <<m, DefaultId>>
    BY <2>1, Ends DEF IInv
  <2>6. l[2] # w
    BY <2>2, <2>4, <2>5
  <2> QED BY <1>1, <2>3, <2>6
<1> QED BY <1>3, <1>4, <1>5, <1>6 DEF IInv

(* A worker drops an entry that nothing is connected to, or the client     *)
(* deletes a filter that no path has.                                      *)
LEMMA EntryDropped ==
  ASSUME Assumption, IInv,
         \/ \E w \in writers : deleteWriter(w)
         \/ \E s \in readers : deleteReader(s)
         \/ \E f \in Filters : removeFilter(f)
  PROVE  IInv'
<1>1. UNCHANGED <<paths, path, status, deleted, stopping, creates>> /\ stopping = "idle"
  BY DEF deleteWriter, deleteReader, removeFilter
<1>2. /\ writers \subseteq filters \X Ids /\ readers \subseteq filters \X Ids
      /\ links \subseteq readers \X writers /\ filters \subseteq Filters
  BY DEF IInv, TypeOK
<1>3. paths \subseteq Paths /\ deleted = {}
  BY <1>1 DEF IInv, TypeOK, Idle
<1>4. \A o : linksOf(o)' = linksOf(o)
  BY <1>1, Kept
<1>5. /\ filters' \subseteq filters /\ links' \subseteq links
      /\ writers' \subseteq filters' \X Ids /\ readers' \subseteq filters' \X Ids
      /\ links' \subseteq readers' \X writers'
      /\ AllComplete'
      /\ \A o \in paths : \A l \in linksOf(o) : l \in links => l \in links'
  <2>1. CASE \E w \in writers : deleteWriter(w)
    <3>1. PICK w \in writers : deleteWriter(w)
      BY <2>1
    <3>2. \A l \in links : l[1] \in readers /\ l[2] \in writers \ {w} /\ l = <<l[1], l[2]>>
      BY <1>2, <3>1 DEF deleteWriter, isWConnected, graph
    <3>3. writers' = writers \ {w} /\ UNCHANGED <<filters, readers, links>>
      BY <3>1 DEF deleteWriter
    <3>4. \A o : complete(o)' <=> complete(o)
      BY <1>1, <3>3, Kept
    <3>5. AllComplete'
      BY <1>1, <3>4 DEF IInv, AllComplete
    <3>6. links' \subseteq readers' \X writers'
      BY <3>2, <3>3
    <3> QED BY <1>2, <3>3, <3>5, <3>6
  <2>2. CASE \E s \in readers : deleteReader(s)
    <3>1. PICK s \in readers : deleteReader(s)
      BY <2>2
    <3>2. \A l \in links : l[1] \in readers \ {s} /\ l[2] \in writers /\ l = <<l[1], l[2]>>
      BY <1>2, <3>1 DEF deleteReader, isRConnected, graph
    <3>3. readers' = readers \ {s} /\ UNCHANGED <<filters, writers, links>>
      BY <3>1 DEF deleteReader
    <3>4. \A o : complete(o)' <=> complete(o)
      BY <1>1, <3>3, Kept
    <3>5. AllComplete'
      BY <1>1, <3>4 DEF IInv, AllComplete
    <3>6. links' \subseteq readers' \X writers'
      BY <3>2, <3>3
    <3> QED BY <1>2, <3>3, <3>5, <3>6
  <2>3. CASE \E f \in Filters : removeFilter(f)
    <3>1. PICK f \in Filters : removeFilter(f)
      BY <2>3
    <3>2. /\ filters' = filters \ {f}
          /\ writers' = {w \in writers : w[1] # f} /\ readers' = {s \in readers : s[1] # f}
          /\ links' = {l \in links : l[1][1] # f /\ l[2][1] # f}
      BY <3>1 DEF removeFilter, setGraph, destroyed, graph
    <3>3. \A o \in paths : f \notin {path[o].org, path[o].dst} \cup ToSet(path[o].mids)
      BY <3>1 DEF removeFilter, hasFilter
    <3>4. AllComplete'
      BY <1>1, <1>3, <3>2, <3>3 DEF IInv, AllComplete, complete
    <3>5. \A l \in links : l[1] \in readers /\ l[2] \in writers /\ l = <<l[1], l[2]>>
      BY <1>2
    <3>6. links' \subseteq readers' \X writers'
      BY <3>2, <3>5
    <3>7. ASSUME NEW o \in paths, NEW l \in linksOf(o), l \in links PROVE l \in links'
      <4>1. /\ \/ l[1] = <<path[o].dst, path[o].rId>>
               \/ \E m \in ToSet(path[o].mids) : l[1] = <<m, DefaultId>>
            /\ \/ l[2] = <<path[o].org, path[o].wId>>
               \/ \E m \in ToSet(path[o].mids) : l[2] = <<m, DefaultId>>
        BY <1>3, Ends DEF IInv
      <4>2. l[1][1] # f /\ l[2][1] # f
        BY <3>3, <4>1
      <4> QED BY <3>2, <3>7, <4>2
    <3>8. writers' \subseteq filters' \X Ids /\ readers' \subseteq filters' \X Ids
      BY <1>2, <3>2
    <3> QED BY <3>2, <3>4, <3>6, <3>7, <3>8
  <2> QED BY <2>1, <2>2, <2>3
<1>6. TypeOK'
  BY <1>1, <1>2, <1>5 DEF IInv, TypeOK
<1>7. AsRequested' /\ Apart' /\ Idle' /\ StopSucceeds'
  BY <1>1 DEF IInv, AsRequested, Apart, Idle, StopSucceeds
<1>8. NoOrphanLink'
  BY <1>1, <1>4, <1>5 DEF IInv, NoOrphanLink
<1>9. PathStaysConnected'
  BY <1>1, <1>4, <1>5 DEF IInv, PathStaysConnected
<1> QED BY <1>5, <1>6, <1>7, <1>8, <1>9 DEF IInv
THEOREM StepSound == Assumption /\ IInv /\ [Next]_vars => IInv'
<1> SUFFICES ASSUME Assumption, IInv, [Next]_vars PROVE IInv'
  OBVIOUS
<1>1. CASE UNCHANGED vars
  <2>1. UNCHANGED <<filters, writers, readers, links, paths, path, status, deleted, stopping,
                    creates>>
    BY <1>1 DEF vars
  <2>2. \A o : linksOf(o)' = linksOf(o) /\ (complete(o)' <=> complete(o))
    BY <2>1, Kept
  <2>3. TypeOK' /\ AsRequested' /\ Apart' /\ Idle' /\ StopSucceeds'
    BY <2>1 DEF IInv, TypeOK, AsRequested, Apart, Idle, StopSucceeds
  <2>4. AllComplete' /\ NoOrphanLink' /\ PathStaysConnected'
    BY <2>1, <2>2 DEF IInv, AllComplete, NoOrphanLink, PathStaysConnected
  <2> QED BY <2>3, <2>4 DEF IInv
<1>2. ASSUME NEW f \in Filters, createFilter(f) PROVE IInv'
  <2>1. /\ filters' = filters \cup {f} /\ creates < MaxCreates /\ creates' = creates + 1
        /\ UNCHANGED <<writers, readers, links, paths, path, status, deleted, stopping>>
    BY <1>2 DEF createFilter
  <2>2. \A o : linksOf(o)' = linksOf(o)
    BY <2>1, Kept
  <2>3. TypeOK'
    BY <2>1 DEF IInv, TypeOK, Assumption, PipelineAssumption
  <2>4. AsRequested' /\ Apart' /\ Idle' /\ StopSucceeds'
    BY <2>1 DEF IInv, AsRequested, Apart, Idle, StopSucceeds
  <2>5. AllComplete' /\ NoOrphanLink' /\ PathStaysConnected'
    BY <2>1, <2>2 DEF IInv, AllComplete, NoOrphanLink, PathStaysConnected, complete
  <2> QED BY <2>3, <2>4, <2>5 DEF IInv
<1>3. ASSUME NEW p \in Paths, removePath(p) PROVE IInv'
  <2>1. /\ p \in paths /\ deletePath(p) /\ paths' = paths \ {p}
        /\ status' = [status EXCEPT ![p] = "none"] /\ stopping = "idle"
        /\ UNCHANGED <<path, deleted, stopping, creates>>
    BY <1>3 DEF removePath
  <2>2. deleted = {} /\ \A o \in Paths \ {p} : status'[o] = status[o]
    BY <2>1 DEF IInv, Idle, TypeOK
  <2>3. /\ filters' \subseteq filters
        /\ writers' \subseteq filters' \X Ids /\ readers' \subseteq filters' \X Ids
        /\ links' \subseteq readers' \X writers'
        /\ AllComplete' /\ NoOrphanLink' /\ PathStaysConnected'
    BY <2>1, <2>2, PathDeleted
  <2>4. TypeOK'
    BY <2>1, <2>2, <2>3 DEF IInv, TypeOK
  <2>5. AsRequested' /\ Apart' /\ Idle' /\ StopSucceeds'
    BY <2>1 DEF IInv, AsRequested, Apart, Idle, StopSucceeds
  <2> QED BY <2>3, <2>4, <2>5 DEF IInv
<1>4. ASSUME NEW p \in Paths, stopPath(p) PROVE IInv'
  <2>1. /\ stopping = "stopping" /\ p \in paths \ deleted
        /\ UNCHANGED <<paths, path, status, creates>>
    BY <1>4 DEF stopPath
  <2>2. complete(p)
    BY <2>1 DEF IInv, AllComplete
  <2>3. deletePath(p) /\ deleted' = deleted \cup {p} /\ UNCHANGED stopping
    BY <1>4, <2>2 DEF stopPath
  <2>4. /\ filters' \subseteq filters
        /\ writers' \subseteq filters' \X Ids /\ readers' \subseteq filters' \X Ids
        /\ links' \subseteq readers' \X writers'
        /\ AllComplete' /\ NoOrphanLink' /\ PathStaysConnected'
    BY <2>1, <2>3, PathDeleted
  <2>5. TypeOK'
    BY <2>1, <2>3, <2>4 DEF IInv, TypeOK
  <2>6. AsRequested' /\ Apart' /\ Idle' /\ StopSucceeds'
    BY <2>1, <2>3 DEF IInv, AsRequested, Apart, Idle, StopSucceeds
  <2> QED BY <2>4, <2>5, <2>6 DEF IInv
<1>5. ASSUME stop PROVE IInv'
  <2>1. /\ stopping = "idle" /\ stopping' = "stopping"
        /\ UNCHANGED <<filters, writers, readers, links, paths, path, status, deleted, creates>>
    BY <1>5 DEF stop
  <2>2. \A o : linksOf(o)' = linksOf(o) /\ (complete(o)' <=> complete(o))
    BY <2>1, Kept
  <2>3. TypeOK' /\ AsRequested' /\ Apart' /\ Idle' /\ StopSucceeds'
    BY <2>1 DEF IInv, TypeOK, AsRequested, Apart, Idle, StopSucceeds
  <2>4. AllComplete' /\ NoOrphanLink' /\ PathStaysConnected'
    BY <2>1, <2>2 DEF IInv, AllComplete, NoOrphanLink, PathStaysConnected
  <2> QED BY <2>3, <2>4 DEF IInv
<1>6. ASSUME stopped PROVE IInv'
  <2>1. /\ paths' = {} /\ deleted' = {} /\ status' = [p \in Paths |-> "none"]
        /\ filters' = {} /\ writers' = {} /\ readers' = {} /\ links' = {}
        /\ stopping' = "idle" /\ UNCHANGED <<path, creates>>
    BY <1>6 DEF stopped, setGraph
  <2>2. TypeOK' /\ AsRequested' /\ Apart' /\ Idle' /\ StopSucceeds'
    BY <2>1 DEF IInv, TypeOK, AsRequested, Apart, Idle, StopSucceeds
  <2>3. AllComplete' /\ NoOrphanLink' /\ PathStaysConnected'
    BY <2>1 DEF AllComplete, NoOrphanLink, PathStaysConnected
  <2> QED BY <2>2, <2>3 DEF IInv
<1> QED
  BY <1>1, <1>2, <1>3, <1>4, <1>5, <1>6, EntryDropped, PathCreated, PathConnected,
     SourceEnded
     DEF Next

(* PipelineManager::createPath, connectPath, removePath, removeFilter and  *)
(* stop: whatever the client asks for and in whatever order, every link    *)
(* belongs to a path of the map, a path that was connected stays connected *)
(* from end to end, and stop does not fail.                                *)
THEOREM PipelineSound == ASSUME Assumption PROVE Spec => []GraphSound
<1>1. Init => IInv
  BY InitSound
<1>2. IInv /\ [Next]_vars => IInv'
  BY StepSound
<1>3. IInv => GraphSound
  BY DEF IInv, GraphSound
<1> QED BY <1>1, <1>2, <1>3, PTL DEF Spec
------------------------------------------------------------------------------
(* The controller commands the pipeline as its interface allows: each of   *)
(* its steps is a step of the pipeline, or none.                           *)
CtrlTypeOK ==
  /\ ctrl \in {"listen", "read", "process", "connect"}
  /\ events \in Seq(Event) /\ outputNode \in Seq(BOOLEAN)
  /\ clients \in Nat /\ connectionSocket \in Nat

(* Only a path is connected, and it was asked for.                         *)
Connecting == ctrl = "connect" => events # <<>> /\ Head(events).action = "createPath"

(* The socket is the last client's, who was not answered or left before.   *)
InTurnServed ==
  /\ answered \cup left \subseteq 1 .. clients
  /\ ctrl # "listen" =>
       connectionSocket = clients /\ clients > 0 /\ clients \notin answered \cup left

CtrlInv == CtrlTypeOK /\ Connecting /\ InTurnServed
LEMMA NextEvent ==
  ASSUME CtrlTypeOK, events # <<>>
  PROVE  /\ Head(events) \in Event /\ Tail(events) \in Seq(Event)
         /\ Head(events).action \in {"createFilter", "removeFilter"} => Head(events).id \in Filters
         /\ Head(events).action \in {"createPath", "removePath"} => Head(events).id \in Paths
<1>1. events \in Seq(Event)
  BY DEF CtrlTypeOK
<1>2. Head(events) \in Event /\ Tail(events) \in Seq(Event)
  <2> HIDE DEF Event
  <2> QED BY <1>1
<1> QED BY <1>2 DEF Event

LEMMA CtrlStep ==
  ASSUME CtrlInv, CtrlNext
  PROVE  [Next]_vars
<1>1. CASE listenSocket \/ readAndParse \/ sendAndClose
  BY <1>1 DEF listenSocket, readAndParse, sendAndClose
<1>2. CASE getStateEvent \/ invalid
  BY <1>2 DEF getStateEvent, invalid, refused
<1>3. CASE createFilterEvent
  <2>1. id \in Filters
    BY <1>3, NextEvent DEF createFilterEvent, running, id, CtrlInv
  <2> QED BY <1>3, <2>1 DEF createFilterEvent, refused, Next
<1>4. CASE createPathEvent
  <2>1. id \in Paths
    BY <1>4, NextEvent DEF createPathEvent, running, id, CtrlInv
  <2> QED BY <1>4, <2>1 DEF createPathEvent, refused, Next
<1>5. CASE createPathConnect
  <2>1. id \in Paths
    BY <1>5, NextEvent DEF createPathConnect, id, CtrlInv, Connecting
  <2> QED BY <1>5, <2>1 DEF createPathConnect, Next
<1>6. CASE removePathEvent
  <2>1. id \in Paths
    BY <1>6, NextEvent DEF removePathEvent, running, id, CtrlInv
  <2>2. UNCHANGED vars \/ removePath(id)
    BY <1>6 DEF removePathEvent, refused
  <2> QED BY <2>1, <2>2 DEF Next
<1>7. CASE removeFilterEvent
  <2>1. id \in Filters
    BY <1>7, NextEvent DEF removeFilterEvent, running, id, CtrlInv
  <2> QED BY <1>7, <2>1 DEF removeFilterEvent, refused, Next
<1>8. CASE stopEvent
  BY <1>8 DEF stopEvent, Next
<1>9. CASE \/ \E w \in writers : deleteWriter(w) \/ disconnectWriter(w)
           \/ \E r \in readers : deleteReader(r)
  BY <1>9 DEF Next
<1> QED BY <1>1, <1>2, <1>3, <1>4, <1>5, <1>6, <1>7, <1>8, <1>9 DEF CtrlNext, processEvent

LEMMA CtrlInvariant ==
  ASSUME ControllerAssumption
  PROVE  /\ CtrlInit => CtrlInv
         /\ CtrlInv /\ [CtrlNext]_<<vars, ctrlVars>> => CtrlInv'
<1>1. CtrlInit => CtrlInv
  BY DEF CtrlInit, CtrlInv, CtrlTypeOK, Connecting, InTurnServed
<1> SUFFICES ASSUME CtrlInv, [CtrlNext]_<<vars, ctrlVars>> PROVE CtrlInv'
  BY <1>1
<1>2. ASSUME UNCHANGED ctrlVars PROVE CtrlInv'
  BY <1>2 DEF ctrlVars, CtrlInv, CtrlTypeOK, Connecting, InTurnServed
<1>3. ASSUME NEW ok \in BOOLEAN, says(ok), ctrl # "listen", events # <<>> PROVE CtrlInv'
  <2>1. Append(outputNode, ok) \in Seq(BOOLEAN)
    BY DEF CtrlInv, CtrlTypeOK
  <2>2. Tail(events) \in Seq(Event)
    BY <1>3, NextEvent DEF CtrlInv
  <2> QED BY <1>3, <2>1, <2>2 DEF says, CtrlInv, CtrlTypeOK, Connecting, InTurnServed
<1>4. CASE listenSocket
  BY <1>4 DEF listenSocket, CtrlInv, CtrlTypeOK, Connecting, InTurnServed
<1>5. CASE readAndParse
  <2>1. CtrlTypeOK' /\ ctrl' # "connect"
    <3>1. events' \in Seq(Event)
      <4> HIDE DEF Event
      <4> QED BY <1>5 DEF readAndParse, ControllerAssumption, CtrlInv, CtrlTypeOK
    <3>2. outputNode' \in Seq(BOOLEAN)
      <4>1. outputNode' = outputNode \/ outputNode' = <<>>
        BY <1>5 DEF readAndParse
      <4>2. outputNode \in Seq(BOOLEAN) /\ <<>> \in Seq(BOOLEAN)
        BY DEF CtrlInv, CtrlTypeOK
      <4> QED BY <4>1, <4>2
    <3> QED BY <1>5, <3>1, <3>2 DEF readAndParse, CtrlInv, CtrlTypeOK
  <2>2. InTurnServed'
    <3>1. left' \subseteq left \cup {clients} /\ UNCHANGED <<connectionSocket, answered, clients>>
      BY <1>5 DEF readAndParse, CtrlInv, InTurnServed
    <3>2. clients \in 1 .. clients
      BY <1>5 DEF readAndParse, CtrlInv, CtrlTypeOK, InTurnServed
    <3>3. ctrl' # "listen" => left' = left
      BY <1>5 DEF readAndParse
    <3>4. ctrl # "listen"
      BY <1>5 DEF readAndParse
    <3> QED BY <3>1, <3>2, <3>3, <3>4 DEF CtrlInv, InTurnServed
  <2> QED BY <2>1, <2>2 DEF CtrlInv, Connecting
<1>6. CASE sendAndClose
  <2>1. clients \in 1 .. clients
    BY <1>6 DEF sendAndClose, CtrlInv, CtrlTypeOK, InTurnServed
  <2> QED BY <1>6, <2>1 DEF sendAndClose, CtrlInv, CtrlTypeOK, Connecting, InTurnServed
<1>7. CASE getStateEvent \/ invalid
  BY <1>3, <1>7 DEF getStateEvent, invalid, refused, running
<1>8. CASE createFilterEvent
  BY <1>3, <1>8 DEF createFilterEvent, refused, running
<1>9. CASE createPathEvent
  <2>1. CASE refused
    BY <1>3, <1>9, <2>1 DEF createPathEvent, refused, running
  <2>2. CASE /\ ctrl' = "connect"
             /\ UNCHANGED <<events, outputNode, connectionSocket, left, answered, clients>>
    BY <1>9, <2>2 DEF createPathEvent, running, CtrlInv, CtrlTypeOK, Connecting, InTurnServed
  <2> QED BY <1>9, <2>1, <2>2 DEF createPathEvent
<1>10. CASE createPathConnect
  BY <1>3, <1>10 DEF createPathConnect, connects, CtrlInv, Connecting
<1>11. CASE removePathEvent
  BY <1>3, <1>11 DEF removePathEvent, refused, running
<1>12. CASE removeFilterEvent
  BY <1>3, <1>12 DEF removeFilterEvent, refused, running
<1>13. CASE stopEvent
  BY <1>2, <1>3, <1>13 DEF stopEvent, running
<1> QED
  BY <1>2, <1>4, <1>5, <1>6, <1>7, <1>8, <1>9, <1>10, <1>11, <1>12, <1>13
     DEF CtrlNext, processEvent

(* Controller: commanded by clients, the pipeline goes through what its    *)
(* interface allows, and so what holds of it holds behind the controller.  *)
THEOREM ControllerImplements == ASSUME ControllerAssumption PROVE CtrlSpec => Spec
<1>1. CtrlInit => CtrlInv /\ Init
  BY CtrlInvariant DEF CtrlInit
<1>2. CtrlInv /\ [CtrlNext]_<<vars, ctrlVars>> => CtrlInv'
  BY CtrlInvariant
<1>3. CtrlInv /\ [CtrlNext]_<<vars, ctrlVars>> => [Next]_vars
  BY CtrlStep
<1> QED BY <1>1, <1>2, <1>3, PTL DEF CtrlSpec, Spec

THEOREM ControllerSound ==
  ASSUME Assumption, ControllerAssumption PROVE CtrlSpec => []GraphSound
BY ControllerImplements, PipelineSound, PTL

(* The records of paths and what became of them have their form, whatever  *)
(* is asked for.                                                           *)
Recorded ==
  /\ path \in [Paths -> PathRecord]
  /\ status \in [Paths -> {"none", "created", "connected", "failed", "cut"}]

LEMMA RecordsKept ==
  ASSUME PipelineAssumption
  PROVE  /\ Init => Recorded
         /\ Recorded /\ [Next]_vars => Recorded'
<1>1. Init => Recorded
  BY DEF Init, Recorded, PipelineAssumption
<1> SUFFICES ASSUME Recorded, [Next]_vars PROVE Recorded'
  BY <1>1
<1>2. CASE UNCHANGED vars
  BY <1>2 DEF vars, Recorded
<1>3. ASSUME NEW p \in Paths, createPath(p) PROVE Recorded'
  <2> DEFINE q == Request[p]
  <2>1. PICK w \in IF q.wId # AnyId THEN {q.wId}
                  ELSE generateId(MaxWriters[q.org], idsOf(writers, q.org) \cup reserved(q.org)),
             r \in IF q.rId # AnyId THEN {q.rId}
                  ELSE generateId(MaxReaders[q.dst], idsOf(readers, q.dst) \cup reserved(q.dst)) :
          path' = [path EXCEPT ![p] = [q EXCEPT !.wId = w, !.rId = r]]
    BY <1>3 DEF createPath
  <2>2. q \in PathRecord
    BY DEF PipelineAssumption
  <2>3. w \in Ids /\ r \in Ids
    BY <2>1, <2>2 DEF generateId, PipelineAssumption
  <2>4. status' = [status EXCEPT ![p] = "created"]
    BY <1>3 DEF createPath
  <2> QED BY <2>1, <2>2, <2>3, <2>4 DEF Recorded
<1>4. ASSUME NEW p \in Paths, connectPath(p) \/ removePath(p) \/ stopPath(p) PROVE Recorded'
  <2>1. /\ path' = path
        /\ \/ status' = status
           \/ \E s \in {"connected", "failed", "none"} : status' = [status EXCEPT ![p] = s]
    BY <1>4 DEF connectPath, removePath, stopPath
  <2> QED BY <2>1 DEF Recorded
<1>5. CASE \/ \E f \in Filters : createFilter(f) \/ removeFilter(f)
           \/ \E w \in writers : deleteWriter(w)
           \/ \E r \in readers : deleteReader(r)
           \/ stop
  BY <1>5 DEF createFilter, removeFilter, deleteWriter, deleteReader, stop, Recorded
<1>6. CASE stopped \/ \E w \in writers : disconnectWriter(w)
  BY <1>6 DEF stopped, disconnectWriter, Recorded
<1> QED BY <1>2, <1>3, <1>4, <1>5, <1>6 DEF Next

(* What an answer says is so, event by event.                              *)
LEMMA Truthful ==
  ASSUME CtrlInv, Recorded, CtrlNext, Len(outputNode') = Len(outputNode) + 1,
         NEW e, e = Head(events)
  PROVE  IF Last(outputNode') THEN achieved(e)'
         ELSE \/ UNCHANGED vars \/ stopping' = "failed"
              \/ e.action = "createPath" /\ status'[e.id] = "failed" /\ paths' = paths
<1> DEFINE Told == IF Last(outputNode') THEN achieved(e)'
                   ELSE \/ UNCHANGED vars \/ stopping' = "failed"
                        \/ /\ e.action = "createPath" /\ status'[e.id] = "failed"
                           /\ paths' = paths
<1>1. outputNode \in Seq(BOOLEAN) /\ Len(outputNode) \in Nat
  BY DEF CtrlInv, CtrlTypeOK
<1>2. outputNode' # outputNode /\ outputNode' # <<>>
  BY <1>1
<1>3. ASSUME NEW ok \in BOOLEAN, says(ok) PROVE Last(outputNode') = ok
  <2>1. outputNode' = Append(outputNode, ok)
    BY <1>3 DEF says
  <2> QED BY <1>1, <2>1 DEF Last
<1>4. ASSUME refused PROVE Told
  BY <1>3, <1>4 DEF refused
<1>5. CASE \/ listenSocket \/ readAndParse \/ sendAndClose \/ UNCHANGED ctrlVars
  BY <1>2, <1>5 DEF listenSocket, readAndParse, sendAndClose, ctrlVars
<1>6. CASE getStateEvent
  BY <1>3, <1>6 DEF getStateEvent, running, achieved
<1>7. CASE invalid
  BY <1>4, <1>7 DEF invalid
<1>8. CASE createFilterEvent
  <2>1. CASE createFilter(id) /\ says(TRUE)
    BY <1>3, <1>8, <2>1 DEF createFilterEvent, createFilter, running, id, achieved
  <2> QED BY <1>4, <1>8, <2>1 DEF createFilterEvent
<1>9. CASE createPathEvent
  BY <1>2, <1>4, <1>9 DEF createPathEvent
<1>10. CASE createPathConnect
  <2>1. connectPath(id) /\ says(connects(id)) /\ e.action = "createPath" /\ id \in Paths
        /\ e.id = id
    BY <1>10, NextEvent DEF createPathConnect, id, CtrlInv, Connecting
  <2>2. PICK p \in Paths : p = e.id
    BY <2>1
  <2>3. connectPath(p) /\ says(connects(p))
    BY <2>1, <2>2 DEF connects
  <2> DEFINE h == hops(path[p])
  <2>4. PICK n \in 0 .. Len(h) :
          /\ setGraph(linked(graph, h, n))
          /\ status' = [status EXCEPT ![p] = IF n = Len(h) THEN "connected" ELSE "failed"]
    BY <2>3 DEF connectPath
  <2>5. UNCHANGED <<paths, path>> /\ p \in paths
    BY <2>3 DEF connectPath
  <2>6. status'[p] = IF n = Len(h) THEN "connected" ELSE "failed"
    BY <2>4 DEF Recorded
  <2>7. CASE n = Len(h)
    <3>1. connects(p) = TRUE
      BY <2>6, <2>7 DEF connects
    <3>2. Last(outputNode') = TRUE
      BY <1>3, <2>3, <3>1
    <3>3. linksOf(p)' = linksOf(p)
      BY <2>5, Kept
    <3>4. DOMAIN h = 1 .. n
      BY <2>7, HopsOf DEF Recorded
    <3>5. linksOf(p) = {<<h[i][2], h[i][1]>> : i \in 1 .. n}
      BY <3>4 DEF linksOf
    <3>6. linksOf(p) \subseteq links'
      <4> HIDE DEF h
      <4> QED BY <2>4, <3>5 DEF setGraph, linked, graph
    <3>7. achieved(e)'
      BY <2>1, <2>2, <2>5, <3>3, <3>6 DEF achieved
    <3> QED BY <3>2, <3>7
  <2>8. CASE n # Len(h)
    <3>1. connects(p) = FALSE
      BY <2>6, <2>8 DEF connects
    <3>2. Last(outputNode') = FALSE
      BY <1>3, <2>3, <3>1
    <3> QED BY <2>1, <2>2, <2>5, <2>6, <2>8, <3>2
  <2> QED BY <2>7, <2>8
<1>11. CASE removePathEvent
  <2>1. Head(events).action = "removePath"
    BY <1>11 DEF removePathEvent, running
  <2>2. CASE says(TRUE) /\ id \notin paths'
    BY <1>3, <2>1, <2>2 DEF achieved, id
  <2>3. refused \/ (says(TRUE) /\ id \notin paths')
    BY <1>11 DEF removePathEvent, removePath, vars
  <2> QED BY <1>4, <2>2, <2>3
<1>12. CASE removeFilterEvent
  <2>1. Head(events).action = "removeFilter"
    BY <1>12 DEF removeFilterEvent, running
  <2>2. refused \/ (says(TRUE) /\ id \notin filters')
    BY <1>12 DEF removeFilterEvent, removeFilter, setGraph, destroyed
  <2>3. CASE says(TRUE) /\ id \notin filters'
    BY <1>3, <2>1, <2>3 DEF achieved, id
  <2> QED BY <1>4, <2>2, <2>3
<1>13. CASE stopEvent
  <2>1. Head(events).action = "stop"
    BY <1>13 DEF stopEvent, running
  <2>2. CASE stopped /\ says(TRUE)
    <3>1. filters' = {} /\ paths' = {} /\ writers' = {} /\ readers' = {} /\ links' = {}
      BY <2>2 DEF stopped, setGraph
    <3>2. achieved(e)'
      BY <2>1, <3>1 DEF achieved
    <3> QED BY <1>3, <2>2, <3>2
  <2>3. CASE stopping' = "failed" /\ says(FALSE)
    BY <1>3, <2>3
  <2>4. \/ UNCHANGED ctrlVars
        \/ stopped /\ says(TRUE)
        \/ stopping' = "failed" /\ says(FALSE)
    BY <1>13 DEF stopEvent
  <2> QED BY <1>5, <2>2, <2>3, <2>4
<1> QED BY <1>5, <1>6, <1>7, <1>8, <1>9, <1>10, <1>11, <1>12, <1>13 DEF CtrlNext, processEvent

(* Controller::processRequest, PipelineManager: an event that is said to   *)
(* have gone well did what it asks for; one that is said to have failed    *)
(* changed nothing, unless it is a path that stays half connected or a     *)
(* stop.  No client is answered twice or before all its events were run.   *)
THEOREM AnswersTrue ==
  ASSUME PipelineAssumption, ControllerAssumption PROVE CtrlSpec => Answered
<1> DEFINE Truth ==
      /\ Len(outputNode') = Len(outputNode) + 1 =>
           \E e \in {Head(events)} :
             IF Last(outputNode') THEN achieved(e)'
             ELSE \/ UNCHANGED vars \/ stopping' = "failed"
                  \/ e.action = "createPath" /\ status'[e.id] = "failed" /\ paths' = paths
      /\ answered' # answered => connectionSocket \notin answered \cup left /\ events = <<>>
<1>1. CtrlInit => CtrlInv /\ Recorded
  BY CtrlInvariant, RecordsKept DEF CtrlInit
<1>2. CtrlInv /\ [CtrlNext]_<<vars, ctrlVars>> => CtrlInv'
  BY CtrlInvariant
<1>3. CtrlInv /\ [CtrlNext]_<<vars, ctrlVars>> => [Next]_vars
  BY CtrlStep
<1>4. Recorded /\ [Next]_vars => Recorded'
  BY RecordsKept
<1>5. CtrlInv /\ Recorded /\ [CtrlNext]_<<vars, ctrlVars>> => [Truth]_<<ctrlVars, vars>>
  <2> SUFFICES ASSUME CtrlInv, Recorded, CtrlNext PROVE Truth
    OBVIOUS
  <2>1. ASSUME Len(outputNode') = Len(outputNode) + 1
        PROVE  \E e \in {Head(events)} :
                 IF Last(outputNode') THEN achieved(e)'
                 ELSE \/ UNCHANGED vars \/ stopping' = "failed"
                      \/ e.action = "createPath" /\ status'[e.id] = "failed" /\ paths' = paths
    BY <2>1, Truthful
  <2>2. ASSUME answered' # answered
        PROVE  connectionSocket \notin answered \cup left /\ events = <<>>
    <3>1. sendAndClose
      BY <2>2
         DEF CtrlNext, listenSocket, readAndParse, processEvent, getStateEvent, invalid,
             createFilterEvent, createPathEvent, createPathConnect, removePathEvent,
             removeFilterEvent, stopEvent, refused, says, ctrlVars
    <3> QED BY <3>1 DEF sendAndClose, CtrlInv, InTurnServed
  <2> QED BY <2>1, <2>2
<1> QED BY <1>1, <1>2, <1>3, <1>4, <1>5, PTL DEF CtrlSpec, Answered
==============================================================================
