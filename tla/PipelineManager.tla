--------------------------- MODULE PipelineManager ---------------------------
(***************************************************************************)
(* The graph of filters and paths that the control thread edits            *)
(* (PipelineManager.cpp, with connect, shareReader and disconnectReader of *)
(* Filter.cpp).  A path goes from a writer of its origin, through filters  *)
(* with one reader and one writer, to a reader of its destination.  Paths  *)
(* with the same origin writer share the queue.                            *)
(*                                                                         *)
(* A writer or reader is a pair of a filter and an id.  A reader that is   *)
(* connected is linked to its writer; a writer is connected if there is a  *)
(* link to it.  The side that is left alone keeps its entry until its own  *)
(* worker finds out.  Connections are made and broken in one step here:    *)
(* module Connection takes them apart.                                     *)
(***************************************************************************)
EXTENDS Integers, Sequences, FiniteSets, SequencesExt

CONSTANTS
  Filters,
  MaxWriters, MaxReaders,  \* of each filter
  Paths,        \* ids of paths, numbers: the order of the map
  Request,      \* path that the client asks for under each id: a record of
                \* org, wId, mids, dst and rId, where an id may be AnyId
  AnyId,          \* no id: the manager chooses one
  Ids,          \* of writers and readers
  MaxCreates    \* bound: filters created

DefaultId == 1

PathRecord == [org : Filters, wId : Ids \cup {AnyId}, mids : Seq(Filters),
               dst : Filters, rId : Ids \cup {AnyId}]

ASSUME PipelineAssumption ==
  /\ MaxWriters \in [Filters -> Nat] /\ MaxReaders \in [Filters -> Nat]
  /\ Paths \subseteq Nat /\ DefaultId \in Ids /\ AnyId \notin Ids /\ MaxCreates \in Nat
  /\ Request \in [Paths -> PathRecord]

VARIABLES
  filters,          \* filters that exist
  writers, readers, \* entries of the filters
  links,            \* pairs of a reader and the writer it reads from
  paths,            \* ids of the map
  path,             \* the record behind each id, with the ids that were chosen
  status,           \* of each path: created, connected, failed to connect, or cut
                    \* because its source ended
  deleted,          \* entries of the map whose record was deleted, during stop
  stopping,         \* idle, stopping, or failed to stop
  creates

vars == <<filters, writers, readers, links, paths, path, status, deleted, stopping, creates>>

graph == [filters |-> filters, writers |-> writers, readers |-> readers, links |-> links]

Init ==
  /\ filters = {} /\ writers = {} /\ readers = {} /\ links = {}
  /\ paths = {} /\ path = Request
  /\ status = [p \in Paths |-> "none"] /\ deleted = {}
  /\ stopping = "idle" /\ creates = 0

setGraph(g) ==
  /\ filters' = g.filters /\ writers' = g.writers
  /\ readers' = g.readers /\ links' = g.links

isRConnected(g, r) == \E w \in g.writers : <<r, w>> \in g.links
isWConnected(g, w) == \E r \in g.readers : <<r, w>> \in g.links

of(S, f) == {e \in S : e[1] = f}

hasFilter(p, f) == f \in {path[p].org, path[p].dst} \cup ToSet(path[p].mids)
-----------------------------------------------------------------------------
(* Operations on the graph.                                                *)

(* BaseFilter::connect: the reader must not be connected, and both ids     *)
(* must be free.                                                           *)
canConnect(g, w, r) ==
  /\ ~isRConnected(g, r)
  /\ w \notin g.writers /\ Cardinality(of(g.writers, w[1])) < MaxWriters[w[1]]
  /\ r \notin g.readers /\ Cardinality(of(g.readers, r[1])) < MaxReaders[r[1]]

(* handleGrouping and shareReader: the reader joins those of a writer that *)
(* is connected, unless one of them is of the same filter.                 *)
canShare(g, w, r) ==
  /\ isWConnected(g, w)
  /\ \A s \in g.readers : <<s, w>> \in g.links => s[1] # r[1]
  /\ ~isRConnected(g, r)

(* The graph with the first n of some hops, pairs of a writer and a reader. *)
linked(g, h, n) ==
  [g EXCEPT !.writers = @ \cup {h[i][1] : i \in 1 .. n},
            !.readers = @ \cup {h[i][2] : i \in 1 .. n},
            !.links = @ \cup {<<h[i][2], h[i][1]>> : i \in 1 .. n}]

(* Mutant of disconnected: the default reader is taken for the given one.  *)
disconnectedDefault(g, r) ==
  LET d == <<r[1], DefaultId>>
  IN [g EXCEPT !.readers = @ \ {d}, !.links = {l \in @ : l[1] # d}]

(* disconnectReader: the reader leaves; others may still share the queue.  *)
disconnected(g, r) ==
  [g EXCEPT !.readers = @ \ {r}, !.links = {l \in @ : l[1] # r}]

(* ~BaseFilter of each filter of F: their readers and writers leave their  *)
(* queues.                                                                 *)
destroyed(g, F) ==
  [filters |-> g.filters \ F,
   writers |-> {w \in g.writers : w[1] \notin F},
   readers |-> {r \in g.readers : r[1] \notin F},
   links |-> {l \in g.links : l[1][1] \notin F /\ l[2][1] \notin F}]
-----------------------------------------------------------------------------
(* The commands of the client.                                             *)

createFilter(f) ==
  /\ stopping = "idle" /\ creates < MaxCreates
  /\ f \notin filters
  /\ filters' = filters \cup {f} /\ creates' = creates + 1
  /\ UNCHANGED <<writers, readers, links, paths, path, status, deleted, stopping>>

(* An id that the client leaves open: the only one there is, or one that   *)
(* is not in use (a random number in the code).                            *)
generateId(max, used) == IF max = 1 THEN {DefaultId} ELSE Ids \ used

reserved(f) == {path[p].wId : p \in {q \in paths : path[q].org = f}}
               \cup {path[p].rId : p \in {q \in paths : path[q].dst = f}}

idsOf(S, f) == {e[2] : e \in of(S, f)}

(* The filters of a path must exist, and be different.                     *)
validPath(p) ==
  LET q == Request[p] IN
  /\ p \notin paths
  /\ q.org \in filters /\ q.dst \in filters
  /\ \A m \in ToSet(q.mids) : m \in filters /\ m \notin {q.org, q.dst}
  /\ IsInjective(q.mids)

createPath(p) ==
  LET q == Request[p] IN
  /\ stopping = "idle" /\ validPath(p)
  /\ \E w \in IF q.wId # AnyId THEN {q.wId}
              ELSE generateId(MaxWriters[q.org], idsOf(writers, q.org) \cup reserved(q.org)),
        r \in IF q.rId # AnyId THEN {q.rId}
              ELSE generateId(MaxReaders[q.dst], idsOf(readers, q.dst) \cup reserved(q.dst)) :
       path' = [path EXCEPT ![p] = [q EXCEPT !.wId = w, !.rId = r]]
  /\ paths' = paths \cup {p} /\ status' = [status EXCEPT ![p] = "created"]
  /\ UNCHANGED <<filters, writers, readers, links, deleted, stopping, creates>>

(* The hops of a path, as pairs of a writer and a reader.                  *)
hops(q) ==
  LET n == Len(q.mids) IN
  [i \in 1 .. n + 1 |->
     <<IF i = 1 THEN <<q.org, q.wId>> ELSE <<q.mids[i - 1], DefaultId>>,
       IF i = n + 1 THEN <<q.dst, q.rId>> ELSE <<q.mids[i], DefaultId>>>>]

(* Hop i, after those before it.  Only the first one may share the reader  *)
(* of another path.                                                        *)
canJoin(g, h, i) ==
  \/ canConnect(linked(g, h, i - 1), h[i][1], h[i][2])
  \/ i = 1 /\ canShare(g, h[1][1], h[1][2])

(* connectPath stops at the first hop that fails and undoes nothing.       *)
connectPath(p) ==
  /\ stopping = "idle" /\ p \in paths /\ status[p] = "created"
  /\ LET h == hops(path[p]) IN
     \E n \in 0 .. Len(h) :
       /\ IF ToSet(path[p].mids) \subseteq filters
            THEN /\ \A i \in 1 .. n : canJoin(graph, h, i)
                 /\ n < Len(h) => ~canJoin(graph, h, n + 1)
            ELSE n = 0
       /\ setGraph(linked(graph, h, n))
       /\ status' = [status EXCEPT ![p] = IF n = Len(h) THEN "connected" ELSE "failed"]
  /\ UNCHANGED <<paths, path, deleted, stopping, creates>>

complete(p) ==
  path[p].org \in filters /\ path[p].dst \in filters /\ ToSet(path[p].mids) \subseteq filters

(* deletePath: the tail is disconnected, the filters in the middle are     *)
(* deleted, and both ends if no other path of the map has them (a record   *)
(* that was deleted already may say anything).                             *)
withoutPath(p, spared) ==
  LET q == path[p]
      used(f) == f \in spared \/ \E o \in paths \ (deleted \cup {p}) : hasFilter(o, f)
  IN  destroyed(disconnected(graph, <<q.dst, q.rId>>),
                ToSet(q.mids) \cup {f \in {q.org, q.dst} : ~used(f)})

deletePath(p) ==
  /\ complete(p)
  /\ \E spared \in SUBSET (IF deleted = {} THEN {} ELSE {path[p].org, path[p].dst}) :
       setGraph(withoutPath(p, spared))

removePath(p) ==
  /\ stopping = "idle" /\ p \in paths
  /\ deletePath(p)
  /\ paths' = paths \ {p} /\ status' = [status EXCEPT ![p] = "none"]
  /\ UNCHANGED <<path, deleted, stopping, creates>>

removeFilter(f) ==
  /\ stopping = "idle" /\ f \in filters
  /\ \A p \in paths : ~hasFilter(p, f)
  /\ setGraph(destroyed(graph, {f}))
  /\ UNCHANGED <<paths, path, status, deleted, stopping, creates>>

(* stop has joined the workers and goes through the map; the entries stay  *)
(* in it until the end.                                                    *)
stop ==
  /\ stopping = "idle"
  /\ stopping' = "stopping"
  /\ UNCHANGED <<filters, writers, readers, links, paths, path, status, deleted, creates>>

stopPath(p) ==
  /\ stopping = "stopping"
  /\ p \in paths \ deleted /\ \A o \in paths \ deleted : p <= o
  /\ \/ deletePath(p) /\ deleted' = deleted \cup {p} /\ UNCHANGED stopping
     \/ /\ ~complete(p) /\ stopping' = "failed"
        /\ UNCHANGED <<filters, writers, readers, links, deleted>>
  /\ UNCHANGED <<paths, path, status, creates>>

stopped ==
  /\ stopping = "stopping" /\ paths \subseteq deleted
  /\ paths' = {} /\ deleted' = {} /\ status' = [p \in Paths |-> "none"]
  /\ setGraph([filters |-> {}, writers |-> {}, readers |-> {}, links |-> {}])
  /\ stopping' = "idle"
  /\ UNCHANGED <<path, creates>>
-----------------------------------------------------------------------------
(* The workers, when a filter finds an entry that lost its other side.     *)

deleteWriter(w) ==
  /\ stopping = "idle" /\ w \in writers /\ ~isWConnected(graph, w)
  /\ writers' = writers \ {w}
  /\ UNCHANGED <<filters, readers, links, paths, path, status, deleted, stopping, creates>>

deleteReader(r) ==
  /\ stopping = "idle" /\ r \in readers /\ ~isRConnected(graph, r)
  /\ readers' = readers \ {r}
  /\ UNCHANGED <<filters, writers, links, paths, path, status, deleted, stopping, creates>>

(* A source that ends lets go of one of its writers; the paths that start  *)
(* there are cut.                                                          *)
disconnectWriter(w) ==
  /\ stopping = "idle" /\ w \in writers /\ MaxReaders[w[1]] = 0
  /\ writers' = writers \ {w} /\ links' = {l \in links : l[2] # w}
  /\ status' = [p \in Paths |->
                  IF status[p] = "connected" /\ <<path[p].org, path[p].wId>> = w
                    THEN "cut" ELSE status[p]]
  /\ UNCHANGED <<filters, readers, paths, path, deleted, stopping, creates>>
-----------------------------------------------------------------------------
Next ==
  \/ \E f \in Filters : createFilter(f) \/ removeFilter(f)
  \/ \E p \in Paths : createPath(p) \/ connectPath(p) \/ removePath(p) \/ stopPath(p)
  \/ \E w \in writers : deleteWriter(w) \/ disconnectWriter(w)
  \/ \E r \in readers : deleteReader(r)
  \/ stop \/ stopped

Spec == Init /\ [][Next]_vars
-----------------------------------------------------------------------------
TypeOK ==
  /\ filters \subseteq Filters /\ paths \subseteq Paths /\ deleted \subseteq paths
  /\ writers \subseteq filters \X Ids /\ readers \subseteq filters \X Ids
  /\ links \subseteq readers \X writers
  /\ \A p \in paths : path[p].wId \in Ids /\ path[p].rId \in Ids
  /\ status \in [Paths -> {"none", "created", "connected", "failed", "cut"}]
  /\ stopping \in {"idle", "stopping", "failed"} /\ creates \in 0 .. MaxCreates

(* The links of a path that is connected.                                  *)
linksOf(p) == {<<hops(path[p])[i][2], hops(path[p])[i][1]>> : i \in DOMAIN hops(path[p])}

(* A path that was connected stays connected from end to end, whatever is  *)
(* done with the other paths, until it is removed or its source ends.      *)
PathStaysConnected ==
  \A p \in paths \ deleted : status[p] = "connected" => linksOf(p) \subseteq links

(* Nothing is left of a path that was removed: each link belongs to a path *)
(* that is there.                                                          *)
NoOrphanLink == \A l \in links : \E p \in paths \ deleted : l \in linksOf(p)

(* stop "destroys all paths": deleting them one by one does not fail.      *)
StopSucceeds == stopping # "failed"

(* createPath, connectPath, removePath, removeFilter: the graph, the map   *)
(* of paths and the entries of the filters agree after every command, and  *)
(* stop takes down what paths without a fork have built.                   *)
GraphSound == TypeOK /\ NoOrphanLink /\ PathStaysConnected /\ StopSucceeds
==============================================================================
