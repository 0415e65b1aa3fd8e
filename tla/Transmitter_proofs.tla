------------------------- MODULE Transmitter_proofs -------------------------
(***************************************************************************)
(* Proofs that the worker of the transmitter waits for exactly the frames  *)
(* that sources point at (FramesCounted), that each client is given every  *)
(* frame of a reader once and in order (OnceInOrder), and that what a      *)
(* client puts together of packets is a frame that was sent (Reassembled). *)
(***************************************************************************)
EXTENDS Transmitter, RtpPackets, FiniteSetTheorems, SequenceTheorems,
        WellFoundedInduction, TLAPS

Assumption == TransmitterAssumption /\ ~LeaveBusy

(* The readers that the worker waits for.                                  *)
holding == {r \in Readers : stream[r].frame # 0}

(* Every replica that is there was made for a connection, and connections  *)
(* are to readers that are there.                                          *)
Used ==
  /\ \A r \in Readers, i \in Ids : stream[r].rep[i] # "off" => r \in connections[i]
  /\ \A i \in Ids : connections[i] \subseteq reader

Counted ==
  /\ \A r \in Readers \ reader : stream[r].frame = 0
  /\ pFrames = Cardinality(holding)
  /\ pc \in {"idle", "single"} => holding = {}

(* A replicator: the master asks, and is given the frame last; who was     *)
(* given the frame does not wait for it; the source is read, or the frame  *)
(* is held, for somebody.                                                  *)
Replicates(s) ==
  /\ s.master = None => s.held = 0 /\ ~s.awaiting
  /\ s.master # None => s.rep[s.master] = "asks" /\ s.master \notin s.served
  /\ s.held = 0 => s.served = {}
  /\ s.awaiting => s.held = 0
  /\ s.awaiting \/ s.held # 0 => ~s.stop
  /\ \A i \in Ids : /\ s.rep[i] \in {"off", "asks"} => i \notin s.served
                    /\ s.rep[i] = "next" => i \in s.served

(* The frame of a source is the last one of its reader, or none.           *)
Points(s, m) == s.frame \in {0, m} /\ s.held <= m /\ (s.frame = 0 => ~s.processed)

Sources == \A r \in Readers : Replicates(stream[r]) /\ Points(stream[r], made[r])

(* The last frame that was given to the replicator, or dropped.            *)
Delivered(s, m) == IF s.frame # 0 /\ ~s.processed THEN m - 1 ELSE m

(* The frames that a client got, l, against those that the source gave.    *)
Rises(l) == \A k, j \in 1 .. Len(l) : k < j => l[k] < l[j]
Follows(l) == \A k \in 1 .. Len(l) - 1 : l[k + 1] = l[k] + 1
Latest(s, m, i) == IF s.held # 0 /\ i \notin s.served THEN m - 1 ELSE m

Given(s, m, i, l, r, gone) ==
  /\ Rises(l) /\ \A k \in 1 .. Len(l) : l[k] <= m
  /\ s.held <= m /\ (l # <<>> => s.rep[i] # "off")
  /\ s.held # 0 /\ i \notin s.served => \A k \in 1 .. Len(l) : l[k] < s.held
  /\ r \notin gone => /\ Follows(l)
                      /\ s.held # 0 => s.held = m
                      /\ l # <<>> => ~s.stop /\ l[Len(l)] = Latest(s, m, i)

Logs == \A i \in Ids, r \in Readers :
          Given(stream[r], Delivered(stream[r], made[r]), i, log[<<i, r>>], r, left)

IInv == TypeOK /\ Used /\ Counted /\ Sources

-----------------------------------------------------------------------------
(* The replicator.                                                         *)

LEMMA Picked == ASSUME NEW S, S # {} PROVE (CHOOSE i \in S : TRUE) \in S
  OBVIOUS

(* What all the steps of a replicator leave alone, with the same replicas. *)
Same(s, t) ==
  /\ t.frame = s.frame /\ t.processed = s.processed
  /\ \A i \in Ids : t.rep[i] = "off" <=> s.rep[i] = "off"

LEMMA DoGetNextFrame ==
  ASSUME NEW s \in Streams
  PROVE  /\ doGetNextFrame(s) \in Streams
         /\ \A t : t = doGetNextFrame(s) =>
              /\ t.awaiting /\ ~t.stop
              /\ t.frame = s.frame /\ t.processed = s.processed /\ t.rep = s.rep
              /\ t.held = s.held /\ t.served = s.served /\ t.master = s.master
  BY DEF doGetNextFrame, Streams

LEMMA Asked ==
  ASSUME NEW s \in Streams, NEW i \in Ids, Replicates(s), None \notin Ids,
         s.rep[i] \notin {"asks", "next"}
  PROVE  LET t == asked(i, s) IN
         /\ t \in Streams /\ Replicates(t)
         /\ t.frame = s.frame /\ t.processed = s.processed
         /\ \A j \in Ids : t.rep[j] = "off" <=> s.rep[j] = "off" /\ j # i
         /\ t.held = s.held /\ t.served = s.served /\ (t.stop => s.stop)
<1>1. CASE s.master = None
  <2> DEFINE u == [s EXCEPT !.rep[i] = "asks", !.master = i]
  <2>1. /\ u \in Streams /\ u.held = 0 /\ u.served = {} /\ u.master = i
        /\ u.frame = s.frame /\ u.processed = s.processed
        /\ u.rep = [s.rep EXCEPT ![i] = "asks"]
    BY <1>1 DEF Streams, Replicates
  <2>2. asked(i, s) = doGetNextFrame(u)
    BY <1>1 DEF asked
  <2> HIDE DEF u
  <2> QED
    BY <1>1, <2>1, <2>2, DoGetNextFrame DEF Streams, Replicates
<1>2. CASE s.master # None
  <2> DEFINE u == [s EXCEPT !.rep[i] = IF i \in s.served THEN "next" ELSE "asks"]
  <2>1. /\ u \in Streams /\ u.held = s.held /\ u.served = s.served
        /\ u.master = s.master /\ u.awaiting = s.awaiting /\ u.stop = s.stop
        /\ u.frame = s.frame /\ u.processed = s.processed
        /\ u.rep = [s.rep EXCEPT ![i] = IF i \in s.served THEN "next" ELSE "asks"]
    BY DEF Streams
  <2>2. asked(i, s) = u
    BY <1>2 DEF asked
  <2> HIDE DEF u
  <2> QED
    BY <1>2, <2>1, <2>2 DEF Streams, Replicates
<1> QED
  BY <1>1, <1>2

(* The others are given the frame that is held; the master only when they  *)
(* all have it, and then the frame is not held any more.                   *)
LEMMA Copies ==
  ASSUME NEW r \in Readers, NEW s \in Streams, Replicates(s), s.master # None,
         s.held # 0, None \notin Ids
  PROVE  LET t == copies(r, s) IN
         /\ t \in Streams /\ Replicates(t) /\ Same(s, t)
         /\ t.held = s.held /\ t.served = s.served \cup waiting(s)
         /\ t.master = s.master /\ t.stop = s.stop
  BY DEF Streams, Replicates, Same, copies, waiting, afterGetting

LEMMA Complete ==
  ASSUME NEW r \in Readers, NEW s \in Streams, Replicates(s), s.master # None,
         s.held # 0, None \notin Ids
  PROVE  LET t == complete(r, s) IN
         t \in Streams /\ Replicates(t) /\ Same(s, t) /\ t.held = 0 /\ ~t.stop
<1> DEFINE nxt == asksNext(s)
           heir == IF nxt = {} THEN None ELSE CHOOSE i \in nxt : TRUE
           rep == [i \in Ids |-> CASE i = s.master -> afterGetting(i, r)
                                   [] i \in nxt -> "asks"
                                   [] OTHER -> s.rep[i]]
           over == [s EXCEPT !.held = 0, !.served = {}, !.master = heir, !.rep = rep]
<1>1. /\ complete(r, s) = IF nxt = {} THEN over ELSE doGetNextFrame(over)
      /\ nxt = {i \in Ids : s.rep[i] = "next"}
  BY DEF complete, asksNext
<1>2. heir \in nxt \cup {None} /\ (heir = None <=> nxt = {})
  BY <1>1, Picked
<1>3. /\ rep \in [Ids -> {"off", "asks", "eager", "busy", "next"}]
      /\ \A i \in nxt : rep[i] = "asks"
      /\ \A i \in Ids : rep[i] # "next" /\ (rep[i] = "off" <=> s.rep[i] = "off")
  BY <1>1 DEF afterGetting, Replicates, Streams
<1> HIDE DEF rep, heir
<1>4. /\ over \in Streams /\ over.held = 0 /\ over.served = {} /\ over.master = heir
      /\ over.rep = rep /\ over.frame = s.frame /\ over.processed = s.processed
      /\ over.stop = s.stop /\ over.awaiting = s.awaiting
  BY <1>1, <1>2, <1>3 DEF Streams
<1>5. ~s.stop /\ ~s.awaiting
  BY DEF Replicates
<1> HIDE DEF over, nxt
<1>6. CASE nxt = {}
  BY <1>1, <1>2, <1>3, <1>4, <1>5, <1>6 DEF Replicates, Same
<1>7. CASE nxt # {}
  BY <1>1, <1>2, <1>3, <1>4, <1>5, <1>7, DoGetNextFrame DEF Replicates, Same
<1> QED
  BY <1>6, <1>7

LEMMA Received ==
  ASSUME NEW r \in Readers, NEW s \in Streams, Replicates(s), heldFor(s), None \notin Ids
  PROVE  LET t == deliverReceived(r, s) IN
         /\ t \in Streams /\ Replicates(t) /\ Same(s, t) /\ ~t.stop
         /\ \/ /\ t.held = s.held /\ receivers(r, s) = waiting(s)
               /\ t.served = s.served \cup waiting(s)
            \/ /\ t.held = 0 /\ receivers(r, s) = waiting(s) \cup {s.master}
               /\ active(s) \subseteq s.served \cup receivers(r, s)
<1> DEFINE c == copies(r, s)
<1>1. /\ c \in Streams /\ Replicates(c) /\ Same(s, c)
      /\ c.held = s.held /\ c.served = s.served \cup waiting(s)
      /\ c.master = s.master /\ c.stop = s.stop /\ s.master # None /\ s.held # 0
  BY Copies DEF heldFor
<1>2. ~s.stop
  BY <1>1 DEF Replicates
<1>3. active(c) = active(s)
  BY <1>1 DEF active, Same
<1> HIDE DEF c
<1>4. CASE allServed(c)
  <2>1. LET t == complete(r, c) IN
        t \in Streams /\ Replicates(t) /\ Same(c, t) /\ t.held = 0 /\ ~t.stop
    BY <1>1, Complete
  <2>2. /\ deliverReceived(r, s) = complete(r, c)
        /\ receivers(r, s) = waiting(s) \cup {s.master}
    BY <1>4 DEF deliverReceived, receivers, c
  <2>3. active(s) \subseteq s.served \cup receivers(r, s)
    BY <1>1, <1>3, <1>4, <2>2 DEF allServed
  <2> QED
    BY <1>1, <2>1, <2>2, <2>3 DEF Same
<1>5. CASE ~allServed(c)
  BY <1>1, <1>2, <1>5 DEF deliverReceived, receivers, c
<1> QED
  BY <1>4, <1>5

(* A replica that stops is not served any more, and the frame may be lost. *)
LEMMA Stopped ==
  ASSUME NEW s \in Streams, NEW i \in Ids, Replicates(s), s.rep[i] # "off",
         None \notin Ids
  PROVE  LET t == stopped(i, s) IN
         /\ t \in Streams /\ Replicates(t)
         /\ t.frame = s.frame /\ t.processed = s.processed
         /\ \A j \in Ids : t.rep[j] = "off" <=> s.rep[j] = "off" \/ j = i
         /\ t.held = 0 \/ (t.held = s.held /\ t.served = s.served \ {i})
<1> DEFINE gone == [s EXCEPT !.rep[i] = "off", !.served = @ \ {i}]
           heirs == IF waiting(gone) # {} THEN waiting(gone) ELSE asksNext(gone)
           heir == IF heirs = {} THEN None ELSE CHOOSE j \in heirs : TRUE
           rep == [j \in Ids |-> IF j \in asksNext(gone) THEN "asks" ELSE gone.rep[j]]
           none == [gone EXCEPT !.held = 0, !.served = {}, !.master = heir, !.rep = rep]
<1>1. /\ gone \in Streams /\ gone.rep = [s.rep EXCEPT ![i] = "off"]
      /\ gone.served = s.served \ {i} /\ gone.held = s.held /\ gone.master = s.master
      /\ gone.frame = s.frame /\ gone.processed = s.processed
      /\ gone.stop = s.stop /\ gone.awaiting = s.awaiting
  BY DEF Streams
<1> HIDE DEF gone
<1>2. /\ waiting(gone) = {j \in Ids : gone.rep[j] = "asks"} \ {s.master}
      /\ asksNext(gone) = {j \in Ids : gone.rep[j] = "next"}
      /\ active(gone) = {j \in Ids : gone.rep[j] # "off"}
  BY <1>1 DEF waiting, asksNext, active
<1>3. heir \in heirs \cup {None} /\ (heir = None <=> heirs = {})
  BY <1>2, Picked
<1>4. /\ rep \in [Ids -> {"off", "asks", "eager", "busy", "next"}]
      /\ \A j \in Ids : /\ rep[j] = "off" <=> s.rep[j] = "off" \/ j = i
                        /\ rep[j] # "next" /\ (j \in heirs => rep[j] = "asks")
  BY <1>1, <1>2 DEF Streams
<1> HIDE DEF rep, heir
<1>5. /\ none \in Streams /\ none.held = 0 /\ none.served = {} /\ none.master = heir
      /\ none.rep = rep /\ none.frame = s.frame /\ none.processed = s.processed
      /\ none.stop = s.stop /\ none.awaiting = s.awaiting
  BY <1>1, <1>2, <1>3, <1>4 DEF Streams
<1> HIDE DEF none
<1>6. stopped(i, s) =
        IF active(gone) # {} /\ i # s.master THEN gone
        ELSE IF heirs # {} THEN doGetNextFrame(none)
        ELSE IF active(gone) = {} \/ s.awaiting THEN doStopGettingFrames(none)
        ELSE none
  BY DEF stopped, gone, none, heir, rep
<1> HIDE DEF heirs
<1>7. LET t == doStopGettingFrames(none) IN
      /\ t \in Streams /\ t.held = 0 /\ t.served = {} /\ t.master = heir /\ t.rep = rep
      /\ t.frame = s.frame /\ t.processed = s.processed /\ ~t.awaiting
  BY <1>5 DEF doStopGettingFrames, Streams
<1>8. LET t == doGetNextFrame(none) IN
      /\ t \in Streams /\ t.held = 0 /\ t.served = {} /\ t.master = heir /\ t.rep = rep
      /\ t.frame = s.frame /\ t.processed = s.processed /\ t.awaiting /\ ~t.stop
  BY <1>5, DoGetNextFrame
<1>9. \A t : /\ t.held = 0 /\ t.served = {} /\ t.master = heir /\ t.rep = rep
             /\ (heir = None => ~t.awaiting) /\ (t.awaiting => ~t.stop)
             => Replicates(t)
  <2>1. heirs \subseteq Ids
    BY <1>2 DEF heirs
  <2> QED
    BY <1>3, <1>4, <2>1 DEF Replicates
<1>10. CASE active(gone) = {}
  <2>1. heirs = {}
    BY <1>2, <1>10 DEF heirs
  <2>2. stopped(i, s) = doStopGettingFrames(none)
    BY <1>6, <1>10, <2>1
  <2> QED
    BY <1>3, <1>4, <1>7, <1>9, <2>1, <2>2
<1>11. CASE active(gone) # {} /\ i = s.master /\ heirs = {}
  BY <1>3, <1>4, <1>5, <1>6, <1>7, <1>9, <1>11
<1>12. CASE active(gone) # {} /\ i = s.master /\ heirs # {}
  BY <1>3, <1>4, <1>6, <1>8, <1>9, <1>12
<1>13. CASE active(gone) # {} /\ i # s.master
  <2>1. stopped(i, s) = gone
    BY <1>6, <1>13
  <2>2. Replicates(gone)
    BY <1>1, <1>13 DEF Replicates, Streams
  <2> QED
    BY <1>1, <2>1, <2>2 DEF Streams
<1> QED
  BY <1>10, <1>11, <1>12, <1>13

-----------------------------------------------------------------------------
(* What clients were given.                                                *)

LEMMA Appended ==
  ASSUME NEW l \in Seq(Nat), NEW n \in Nat, Rises(l), \A k \in 1 .. Len(l) : l[k] < n
  PROVE  LET a == Append(l, n) IN
         /\ a \in Seq(Nat) /\ Rises(a) /\ \A k \in 1 .. Len(a) : a[k] <= n
         /\ a # <<>> /\ a[Len(a)] = n
         /\ Follows(l) /\ (l # <<>> => l[Len(l)] = n - 1) => Follows(a)
<1> DEFINE a == Append(l, n)
<1>1. /\ a \in Seq(Nat) /\ Len(a) = Len(l) + 1 /\ Len(l) \in Nat
      /\ a[Len(a)] = n /\ a # <<>>
      /\ \A k \in 1 .. Len(l) : a[k] = l[k] /\ l[k] \in Nat
      /\ (l = <<>> <=> Len(l) = 0)
  <2>1. a \in Seq(Nat) /\ Len(a) = Len(l) + 1 /\ Len(l) \in Nat
    BY AppendProperties
  <2>2. a[Len(a)] = n /\ \A k \in 1 .. Len(l) : a[k] = l[k] /\ l[k] \in Nat
    BY <2>1, AppendProperties, ElementOfSeq
  <2>3. a # <<>> /\ (l = <<>> <=> Len(l) = 0)
    <3>1. Len(a) # 0
      BY <2>1
    <3> QED
      BY <2>1, <3>1, EmptySeq
  <2> QED
    BY <2>1, <2>2, <2>3
<1> HIDE DEF a
<1>2. Rises(a) /\ \A k \in 1 .. Len(a) : a[k] <= n
  <2>1. \A k \in 1 .. Len(a) : k \in 1 .. Len(l) \/ k = Len(a)
    BY <1>1
  <2>2. \A k \in 1 .. Len(l) : a[k] = l[k] /\ l[k] \in Nat /\ l[k] < n
    BY <1>1
  <2>3. ASSUME NEW j \in 1 .. Len(a), NEW k \in 1 .. Len(a), j < k
        PROVE  a[j] < a[k]
    <3>1. j \in 1 .. Len(l)
      BY <1>1, <2>3
    <3>2. CASE k = Len(a)
      BY <1>1, <2>2, <3>1, <3>2
    <3>3. CASE k \in 1 .. Len(l)
      BY <2>2, <2>3, <3>1, <3>3 DEF Rises
    <3> QED
      BY <2>1, <3>2, <3>3
  <2>4. ASSUME NEW k \in 1 .. Len(a) PROVE a[k] <= n
    <3>1. CASE k = Len(a)
      BY <1>1, <3>1
    <3>2. CASE k \in 1 .. Len(l)
      <4>1. a[k] \in Nat /\ a[k] < n
        BY <2>2, <3>2
      <4> QED
        BY <1>1, <4>1
    <3> QED
      BY <2>1, <3>1, <3>2
  <2> QED
    BY <2>3, <2>4 DEF Rises
<1>3. ASSUME Follows(l), l # <<>> => l[Len(l)] = n - 1, NEW k \in 1 .. Len(a) - 1
      PROVE  a[k + 1] = a[k] + 1
  <2>1. CASE k = Len(l)
    BY <1>1, <1>3, <2>1
  <2>2. CASE k # Len(l)
    <3>1. k \in 1 .. Len(l) - 1 /\ k \in 1 .. Len(l) /\ k + 1 \in 1 .. Len(l)
      BY <1>1, <2>2
    <3> QED
      BY <1>1, <1>3, <3>1 DEF Follows
  <2> QED
    BY <2>1, <2>2
<1> QED
  BY <1>1, <1>2, <1>3 DEF a, Follows

(* A frame that is held is given to those that were not given it.          *)
LEMMA GivenReceived ==
  ASSUME NEW r \in Readers, NEW s \in Streams, Replicates(s), heldFor(s), None \notin Ids,
         NEW m \in Nat, NEW i \in Ids, NEW l \in Seq(Nat), NEW gone,
         Given(s, m, i, l, r, gone)
  PROVE  Given(deliverReceived(r, s), m, i,
               IF i \in receivers(r, s) THEN Append(l, s.held) ELSE l, r, gone)
<1> DEFINE t == deliverReceived(r, s)
           rs == receivers(r, s)
           a == Append(l, s.held)
<1>1. /\ t \in Streams /\ Same(s, t) /\ ~t.stop
      /\ \/ t.held = s.held /\ rs = waiting(s) /\ t.served = s.served \cup rs
         \/ /\ t.held = 0 /\ rs = waiting(s) \cup {s.master}
            /\ active(s) \subseteq s.served \cup rs
  BY Received
<1>2. /\ s.held \in Nat /\ s.held # 0 /\ ~s.stop /\ Len(l) \in Nat
      /\ \A k \in 1 .. Len(l) : l[k] \in Nat
  BY DEF heldFor, Replicates, Streams
<1>3. \A j \in rs : j \in Ids => j \notin s.served /\ s.rep[j] # "off"
  BY <1>1 DEF waiting, Replicates, Streams, heldFor
<1>4. l # <<>> => s.rep[i] # "off" /\ i \in active(s)
  BY DEF Given, active
<1> HIDE DEF t, rs
<1>5. CASE i \in rs
  <2>1. \A k \in 1 .. Len(l) : l[k] < s.held
    BY <1>2, <1>3, <1>5 DEF Given
  <2>2. r \notin gone => Follows(l) /\ s.held = m /\ (l # <<>> => l[Len(l)] = s.held - 1)
    BY <1>2, <1>3, <1>5 DEF Given, Latest
  <2>3. /\ a \in Seq(Nat) /\ Rises(a) /\ \A k \in 1 .. Len(a) : a[k] <= s.held
        /\ a # <<>> /\ a[Len(a)] = s.held /\ (r \notin gone => Follows(a))
        /\ Len(a) \in Nat /\ \A k \in 1 .. Len(a) : a[k] \in Nat
    <3>1. Rises(l) /\ s.held \in Nat
      BY <1>2 DEF Given
    <3>2. /\ a \in Seq(Nat) /\ Rises(a) /\ \A k \in 1 .. Len(a) : a[k] <= s.held
          /\ a # <<>> /\ a[Len(a)] = s.held
          /\ Follows(l) /\ (l # <<>> => l[Len(l)] = s.held - 1) => Follows(a)
      BY <2>1, <3>1, Appended
    <3> HIDE DEF a
    <3> QED
      BY <2>2, <3>2, LenProperties, ElementOfSeq
  <2> HIDE DEF a
  <2>4. s.held <= m /\ t.held <= m /\ (t.held # 0 => i \in t.served)
    BY <1>1, <1>2, <1>5 DEF Given
  <2>5. t.rep[i] # "off"
    BY <1>1, <1>3, <1>5 DEF Same
  <2>6. Given(t, m, i, a, r, gone)
    BY <1>1, <1>2, <2>2, <2>3, <2>4, <2>5 DEF Given, Latest
  <2> QED
    BY <1>5, <2>6 DEF t, rs, a
<1>6. CASE i \notin rs
  <2>1. t.held # 0 => (i \in t.served <=> i \in s.served) /\ t.held = s.held
    BY <1>1, <1>6
  <2>2. l # <<>> => t.rep[i] # "off"
    BY <1>1, <1>4 DEF Same
  <2>3. t.held = 0 /\ l # <<>> => i \in s.served
    BY <1>1, <1>2, <1>4, <1>6
  <2>4. t.held <= m
    BY <1>1, <1>2, m \in Nat DEF Given
  <2>5. Given(t, m, i, l, r, gone)
    BY <1>1, <1>2, <2>1, <2>2, <2>3, <2>4 DEF Given, Latest
  <2> QED
    BY <1>6, <2>5 DEF t, rs
<1> QED
  BY <1>5, <1>6

-----------------------------------------------------------------------------
(* Several clients leave one after the other.                              *)

LEMMA Smallest ==
  ASSUME NEW T, T \subseteq Nat, T # {}
  PROVE  \E n \in T : \A k \in T : n <= k
<1>1. PICK n \in T : \A k \in T : ~ (<<k, n>> \in OpToRel(<, Nat))
  BY NatLessThanWellFounded, WFMin
<1>2. ASSUME NEW k \in T PROVE n <= k
  <2>1. <<k, n>> \in Nat \X Nat /\ <<k, n>>[1] = k /\ <<k, n>>[2] = n
    OBVIOUS
  <2>2. ~(k < n)
    BY <1>1, <2>1, Zenon DEF OpToRel
  <2> QED
    BY <2>2
<1> QED
  BY <1>2

(* The order of leaving is some order: the fold is f[is] of a function     *)
(* that takes one client after the other away.                             *)
firstOf(T) == CHOOSE i \in T : TRUE
leaves(s, f, T) == IF T = {} THEN s ELSE leave(firstOf(T), f[T \ {firstOf(T)}])

LEMMA OneByOne ==
  ASSUME NEW s, NEW is, IsFiniteSet(is)
  PROVE  \E f : f = [T \in SUBSET is |-> leaves(s, f, T)]
<1> DEFINE upTo(n) == {T \in SUBSET is : Cardinality(T) <= n}
           Ends(n) == \E f : f = [T \in upTo(n) |-> leaves(s, f, T)]
           never == {n \in Nat : ~Ends(n)}
<1>1. \A T \in SUBSET is : /\ IsFiniteSet(T) /\ Cardinality(T) \in Nat
                           /\ Cardinality(T) <= Cardinality(is)
                           /\ (Cardinality(T) = 0 <=> T = {})
  BY FS_Subset, FS_CardinalityType, FS_EmptySet
<1>2. \A T \in SUBSET is : T # {} =>
        /\ T \ {firstOf(T)} \in SUBSET is
        /\ Cardinality(T \ {firstOf(T)}) = Cardinality(T) - 1
  BY <1>1, Picked, FS_RemoveElement DEF firstOf
<1>3. Ends(0)
  <2>1. [T \in upTo(0) |-> s] = [T \in upTo(0) |-> leaves(s, [S \in upTo(0) |-> s], T)]
    BY <1>1 DEF leaves
  <2> QED
    BY <2>1
<1>4. ASSUME NEW n \in Nat, Ends(n) PROVE Ends(n + 1)
  <2>1. PICK f : f = [T \in upTo(n) |-> leaves(s, f, T)]
    BY <1>4
  <2> DEFINE g == [T \in upTo(n + 1) |-> leaves(s, f, T)]
  <2>2. ASSUME NEW T \in upTo(n) PROVE g[T] = f[T]
    <3>1. T \in upTo(n + 1)
      BY <1>1
    <3> QED
      BY <2>1, <3>1
  <2>3. ASSUME NEW T \in upTo(n + 1) PROVE leaves(s, f, T) = leaves(s, g, T)
    <3>1. T # {} => T \ {firstOf(T)} \in upTo(n)
      BY <1>1, <1>2
    <3> HIDE DEF g
    <3> QED
      BY <2>2, <3>1 DEF leaves
  <2>4. g = [T \in upTo(n + 1) |-> leaves(s, g, T)]
    BY <2>3
  <2> QED
    BY <2>4
<1> HIDE DEF Ends
<1>5. never = {}
  <2>1. SUFFICES ASSUME never # {} PROVE FALSE
    OBVIOUS
  <2>2. PICK n \in never : \A k \in never : n <= k
    BY <2>1, Smallest
  <2>3. n \in Nat /\ n # 0
    BY <1>3, <2>2
  <2>4. n - 1 \in Nat /\ n - 1 \notin never /\ n = (n - 1) + 1
    BY <2>2, <2>3
  <2>5. Ends(n)
    BY <1>4, <2>4
  <2> QED
    BY <2>2, <2>5
<1>6. Ends(Cardinality(is)) /\ upTo(Cardinality(is)) = SUBSET is
  BY <1>1, <1>5
<1> QED
  BY <1>6 DEF Ends

inTurn(f, s, is) ==
  /\ f[{}] = s
  /\ \A T \in SUBSET is : T # {} => \E i \in T : f[T] = leave(i, f[T \ {i}])

LEMMA Folded ==
  ASSUME NEW s, NEW is, IsFiniteSet(is)
  PROVE  \E f : allLeave(is, s) = f[is] /\ inTurn(f, s, is)
<1> DEFINE f == CHOOSE f : f = [T \in SUBSET is |-> leaves(s, f, T)]
<1>1. f = [T \in SUBSET is |-> leaves(s, f, T)]
  BY OneByOne
<1>2. allLeave(is, s) = f[is]
  BY DEF allLeave, FoldSet, MapThenFoldSet, leaves, firstOf
<1> HIDE DEF f
<1>3. \A T \in SUBSET is : f[T] = leaves(s, f, T)
  BY <1>1
<1>4. f[{}] = s
  BY <1>3 DEF leaves
<1>5. ASSUME NEW T \in SUBSET is, T # {} PROVE \E i \in T : f[T] = leave(i, f[T \ {i}])
  BY <1>3, <1>5, Picked DEF leaves, firstOf
<1> QED
  BY <1>2, <1>4, <1>5 DEF inTurn

(* s without the replicas of the clients in T is t.                        *)
Gone(s, t, T) ==
  /\ t \in Streams /\ Replicates(t) /\ t.frame = s.frame /\ t.processed = s.processed
  /\ \A j \in Ids : t.rep[j] = "off" <=> s.rep[j] = "off" \/ j \in T
  /\ t.held = 0 \/ (t.held = s.held /\ t.served = s.served \ T)
  /\ (\A i \in T : s.rep[i] = "off") => t = s

LEMMA OneMoreGone ==
  ASSUME NEW s, NEW t, NEW T \in SUBSET Ids, NEW i \in T, Gone(s, t, T \ {i}),
         None \notin Ids
  PROVE  Gone(s, leave(i, t), T)
<1>1. CASE t.rep[i] = "off"
  <2>1. leave(i, t) = t /\ s.rep[i] = "off" /\ i \notin t.served
    BY <1>1 DEF leave, Gone, Replicates
  <2> QED
    BY <2>1 DEF Gone
<1>2. CASE t.rep[i] # "off"
  <2> DEFINE u == stopped(i, t)
  <2>1. leave(i, t) = u /\ s.rep[i] # "off"
    BY <1>2 DEF leave, Gone
  <2>2. /\ u \in Streams /\ Replicates(u)
        /\ u.frame = t.frame /\ u.processed = t.processed
        /\ \A j \in Ids : u.rep[j] = "off" <=> t.rep[j] = "off" \/ j = i
        /\ u.held = 0 \/ (u.held = t.held /\ u.served = t.served \ {i})
    BY <1>2, Stopped DEF Gone
  <2> HIDE DEF u
  <2> QED
    BY <2>1, <2>2 DEF Gone
<1> QED
  BY <1>1, <1>2

LEMMA Leaving ==
  ASSUME NEW s \in Streams, NEW is \in SUBSET Ids, IsFiniteSet(is), Replicates(s),
         None \notin Ids
  PROVE  Gone(s, allLeave(is, s), is)
<1>1. PICK f : allLeave(is, s) = f[is] /\ inTurn(f, s, is)
  BY Folded
<1> DEFINE wrong == {T \in SUBSET is : ~Gone(s, f[T], T)}
           sizes == {Cardinality(T) : T \in wrong}
<1>2. SUFFICES ASSUME wrong # {} PROVE FALSE
  BY <1>1
<1>3. sizes \subseteq Nat /\ sizes # {}
  BY <1>2, FS_Subset, FS_CardinalityType
<1>4. PICK n \in sizes : \A k \in sizes : n <= k
  BY <1>3, Smallest
<1>5. PICK T \in wrong : \A S \in wrong : Cardinality(T) <= Cardinality(S)
  BY <1>4
<1>6. T # {}
  BY <1>1, <1>5 DEF Gone, inTurn
<1>7. PICK i \in T : f[T] = leave(i, f[T \ {i}])
  BY <1>1, <1>5, <1>6 DEF inTurn
<1>8. /\ T \ {i} \in SUBSET is
      /\ Cardinality(T \ {i}) = Cardinality(T) - 1 /\ Cardinality(T) \in Nat
  BY <1>5, <1>7, FS_Subset, FS_RemoveElement, FS_CardinalityType
<1>9. Gone(s, f[T \ {i}], T \ {i})
  <2>1. T \ {i} \notin wrong
    BY <1>5, <1>8
  <2> QED
    BY <1>8, <2>1
<1>10. T \in SUBSET Ids /\ i \in T
  BY <1>5, <1>7
<1>11. Gone(s, leave(i, f[T \ {i}]), T)
  BY <1>9, <1>10, OneMoreGone
<1> QED
  BY <1>5, <1>7, <1>11

(* Who stays was given as much as before, and others may begin anew.       *)
LEMMA GivenLeaving ==
  ASSUME NEW s \in Streams, NEW t, NEW T \in SUBSET Ids, Gone(s, t, T),
         NEW m \in Nat, NEW i \in Ids, NEW l \in Seq(Nat), NEW r, NEW gone,
         Given(s, m, i, l, r, gone), NEW gone2,
         r \in gone2 <=> r \in gone \/ \E j \in T : s.rep[j] # "off"
  PROVE  Given(t, m, i, IF i \in T THEN <<>> ELSE l, r, gone2)
<1> DEFINE l2 == IF i \in T THEN <<>> ELSE l
<1>1. l2 \in Seq(Nat) /\ Rises(l2) /\ Follows(<<>>) /\ Len(<<>>) = 0
  BY DEF Rises, Follows, Given
<1>2. t.held <= m
  BY DEF Gone, Given
<1>3. l2 # <<>> => i \notin T /\ l2 = l
  OBVIOUS
<1>4. l2 # <<>> => t.rep[i] # "off"
  BY <1>3 DEF Gone, Given
<1>5. /\ \A k \in 1 .. Len(l2) : l2[k] <= m
      /\ t.held # 0 /\ i \notin t.served => \A k \in 1 .. Len(l2) : l2[k] < t.held
  BY <1>1, <1>3 DEF Gone, Given
<1>6. r \notin gone2 => /\ t = s /\ Follows(l2)
                        /\ l2 # <<>> => l2 = l
  BY <1>1, <1>3 DEF Gone, Given
<1>7. r \notin gone2 => /\ t.held # 0 => t.held = m
                        /\ l2 # <<>> => ~t.stop /\ l2[Len(l2)] = Latest(t, m, i)
  BY <1>6 DEF Given
<1> HIDE DEF l2
<1>8. Given(t, m, i, l2, r, gone2)
  BY <1>1, <1>2, <1>4, <1>5, <1>6, <1>7 DEF Given
<1> QED
  BY <1>8 DEF l2

-----------------------------------------------------------------------------
(* The sources of all the readers at once.                                 *)

LEMMA Becomes ==
  ASSUME NEW f \in [Readers -> Streams], \A r \in Readers : Replicates(f[r]),
         NEW l \in [Ids \X Readers -> Seq(Nat)], Become(f, l), NEW gone, None \notin Ids
  PROVE  /\ stream' \in [Readers -> Streams] /\ log' \in [Ids \X Readers -> Seq(Nat)]
         /\ \A r \in Readers : /\ Replicates(stream'[r]) /\ Same(f[r], stream'[r])
                               /\ stream'[r].held \in {0, f[r].held}
         /\ \A r \in Readers, i \in Ids, m \in Nat :
              Given(f[r], m, i, l[<<i, r>>], r, gone) => Given(stream'[r], m, i, log'[<<i, r>>], r, gone)
<1>1. ASSUME NEW r \in Readers
      PROVE  /\ stream'[r] \in Streams
             /\ Replicates(stream'[r]) /\ Same(f[r], stream'[r])
             /\ stream'[r].held \in {0, f[r].held}
  <2>1. stream'[r] = IF heldFor(f[r]) THEN deliverReceived(r, f[r]) ELSE f[r]
    BY DEF Become
  <2>2. CASE heldFor(f[r])
    BY <2>1, <2>2, Received
  <2>3. CASE ~heldFor(f[r])
    BY <2>1, <2>3 DEF Same
  <2> QED
    BY <2>2, <2>3
<1>2. stream' \in [Readers -> Streams]
  BY <1>1 DEF Become
<1>3. ASSUME NEW r \in Readers, NEW i \in Ids
      PROVE  log'[<<i, r>>] = IF heldFor(f[r]) /\ i \in receivers(r, f[r])
                          THEN Append(l[<<i, r>>], f[r].held) ELSE l[<<i, r>>]
  BY DEF Become, given
<1>4. ASSUME NEW r \in Readers, NEW i \in Ids
      PROVE  l[<<i, r>>] \in Seq(Nat) /\ f[r].held \in Nat /\ log'[<<i, r>>] \in Seq(Nat)
  <2>1. l[<<i, r>>] \in Seq(Nat) /\ f[r].held \in Nat
    BY DEF Streams
  <2>2. Append(l[<<i, r>>], f[r].held) \in Seq(Nat)
    BY <2>1, AppendProperties
  <2> QED
    BY <1>3, <2>1, <2>2
<1>5. log' \in [Ids \X Readers -> Seq(Nat)]
  <2>1. \A c \in Ids \X Readers : log'[c] \in Seq(Nat)
    BY <1>4
  <2> QED
    BY <2>1 DEF Become
<1>6. ASSUME NEW r \in Readers, NEW i \in Ids, NEW m \in Nat,
             Given(f[r], m, i, l[<<i, r>>], r, gone)
      PROVE  Given(stream'[r], m, i, log'[<<i, r>>], r, gone)
  <2>1. stream'[r] = IF heldFor(f[r]) THEN deliverReceived(r, f[r]) ELSE f[r]
    BY DEF Become
  <2>2. CASE heldFor(f[r])
    <3>1. Given(deliverReceived(r, f[r]), m, i,
                IF i \in receivers(r, f[r]) THEN Append(l[<<i, r>>], f[r].held) ELSE l[<<i, r>>], r, gone)
      BY <1>4, <1>6, <2>2, GivenReceived
    <3> QED
      BY <1>3, <2>1, <2>2, <3>1
  <2>3. CASE ~heldFor(f[r])
    BY <1>3, <1>6, <2>1, <2>3
  <2> QED
    BY <2>2, <2>3
<1> QED
  BY <1>1, <1>2, <1>5, <1>6

(* The sources point at what they pointed at.                              *)
FramesKept ==
  /\ stream' \in [Readers -> Streams] /\ log' \in [Ids \X Readers -> Seq(Nat)]
  /\ \A r \in Readers : /\ stream'[r].frame = stream[r].frame
                        /\ stream'[r].processed = stream[r].processed

LEMMA Asking ==
  ASSUME IInv, Assumption, NEW i \in Ids, NEW rs \in SUBSET Readers,
         \A r \in rs : stream[r].rep[i] \notin {"asks", "next"},
         Become([r \in Readers |-> IF r \in rs THEN asked(i, stream[r]) ELSE stream[r]],
                log),
         UNCHANGED <<made, left>>
  PROVE  /\ FramesKept /\ Sources'
         /\ \A r \in Readers, j \in Ids :
              stream'[r].rep[j] = "off" <=> stream[r].rep[j] = "off" /\ ~(j = i /\ r \in rs)
         /\ Logs => Logs'
<1> DEFINE f == [r \in Readers |-> IF r \in rs THEN asked(i, stream[r]) ELSE stream[r]]
<1>1. None \notin Ids
  BY DEF Assumption, TransmitterAssumption
<1>2. ASSUME NEW r \in Readers
      PROVE  /\ f[r] \in Streams /\ Replicates(f[r])
             /\ f[r].frame = stream[r].frame /\ f[r].processed = stream[r].processed
             /\ \A j \in Ids :
                  f[r].rep[j] = "off" <=> stream[r].rep[j] = "off" /\ ~(j = i /\ r \in rs)
             /\ f[r].held = stream[r].held /\ f[r].served = stream[r].served
             /\ (f[r].stop => stream[r].stop)
  <2>1. stream[r] \in Streams /\ Replicates(stream[r])
    BY DEF IInv, TypeOK, Sources
  <2>2. CASE r \in rs
    <3>1. f[r] = asked(i, stream[r]) /\ stream[r].rep[i] \notin {"asks", "next"}
      BY <2>2
    <3> HIDE DEF f
    <3> QED
      BY <1>1, <2>1, <2>2, <3>1, Asked
  <2>3. CASE r \notin rs
    <3>1. f[r] = stream[r]
      BY <2>3
    <3> HIDE DEF f
    <3> QED
      BY <2>1, <2>3, <3>1
  <2> QED
    BY <2>2, <2>3
<1>3. f \in [Readers -> Streams] /\ Become(f, log)
  <2>1. \A r \in Readers : f[r] \in Streams
    BY <1>2
  <2> QED
    BY <2>1
<1> HIDE DEF f
<1>4. log \in [Ids \X Readers -> Seq(Nat)]
  BY DEF IInv, TypeOK
<1>5. /\ stream' \in [Readers -> Streams] /\ log' \in [Ids \X Readers -> Seq(Nat)]
      /\ \A r \in Readers : /\ Replicates(stream'[r]) /\ Same(f[r], stream'[r])
                            /\ stream'[r].held \in {0, f[r].held}
      /\ \A r \in Readers, j \in Ids, m \in Nat :
           Given(f[r], m, j, log[<<j, r>>], r, left) => Given(stream'[r], m, j, log'[<<j, r>>], r, left)
  BY <1>1, <1>2, <1>3, <1>4, Becomes
<1>6. FramesKept
  BY <1>2, <1>5 DEF FramesKept, Same
<1>7. Sources'
  <2>1. \A r \in Readers : Points(stream[r], made[r]) /\ made[r] \in Nat
    BY DEF IInv, Sources, TypeOK
  <2> QED
    BY <1>2, <1>5, <2>1 DEF Sources, Points, Same
<1>8. ASSUME Logs PROVE Logs'
  <2> SUFFICES ASSUME NEW j \in Ids, NEW r \in Readers
               PROVE  Given(stream'[r], Delivered(stream'[r], made[r]), j, log'[<<j, r>>], r, left)
    BY DEF Logs
  <2> DEFINE m == Delivered(stream[r], made[r])
  <2>1. Delivered(stream'[r], made[r]) = m
    BY <1>2, <1>5 DEF Same, Delivered
  <2>2. Given(stream[r], m, j, log[<<j, r>>], r, left)
    BY <1>8 DEF Logs
  <2>3. m \in Nat
    BY DEF IInv, TypeOK, Sources, Points, Delivered, Streams
  <2> HIDE DEF m
  <2>4. Given(f[r], m, j, log[<<j, r>>], r, left)
    BY <1>2, <2>2 DEF Given, Latest
  <2> QED
    BY <1>5, <2>1, <2>3, <2>4
<1> QED
  BY <1>2, <1>5, <1>6, <1>7, <1>8 DEF Same

LEMMA Departing ==
  ASSUME IInv, Assumption, NEW is \in SUBSET Ids, stopPlaying(is), UNCHANGED made
  PROVE  /\ FramesKept /\ Sources'
         /\ \A r \in Readers, j \in Ids :
              stream'[r].rep[j] = "off" <=> stream[r].rep[j] = "off" \/ j \in is
         /\ Logs => Logs'
<1> DEFINE f == [r \in Readers |-> allLeave(is, stream[r])]
           l == [c \in Ids \X Readers |-> IF c[1] \in is THEN <<>> ELSE log[c]]
<1>1. None \notin Ids /\ IsFiniteSet(is)
  BY FS_Subset DEF Assumption, TransmitterAssumption
<1>2. ASSUME NEW r \in Readers PROVE Gone(stream[r], f[r], is)
  <2>1. stream[r] \in Streams /\ Replicates(stream[r])
    BY DEF IInv, TypeOK, Sources
  <2> QED
    BY <1>1, <2>1, Leaving
<1>3. f \in [Readers -> Streams] /\ Become(f, l) /\ left' = left \cup UNION {playsOn(i) : i \in is}
  <2>1. \A r \in Readers : f[r] \in Streams
    BY <1>2 DEF Gone
  <2> QED
    BY <2>1 DEF stopPlaying
<1> HIDE DEF f
<1>4. /\ log \in [Ids \X Readers -> Seq(Nat)]
      /\ \A j \in Ids, r \in Readers : l[<<j, r>>] = IF j \in is THEN <<>> ELSE log[<<j, r>>]
  BY DEF IInv, TypeOK
<1>5. l \in [Ids \X Readers -> Seq(Nat)]
  BY <1>4, EmptySeq
<1> HIDE DEF l
<1>6. /\ stream' \in [Readers -> Streams] /\ log' \in [Ids \X Readers -> Seq(Nat)]
      /\ \A r \in Readers : /\ Replicates(stream'[r]) /\ Same(f[r], stream'[r])
                            /\ stream'[r].held \in {0, f[r].held}
      /\ \A r \in Readers, j \in Ids, m \in Nat :
           Given(f[r], m, j, l[<<j, r>>], r, left') => Given(stream'[r], m, j, log'[<<j, r>>], r, left')
  BY <1>1, <1>2, <1>3, <1>5, Becomes DEF Gone
<1>7. FramesKept
  BY <1>2, <1>6 DEF FramesKept, Same, Gone
<1>8. Sources'
  <2>1. \A r \in Readers : Points(stream[r], made[r]) /\ made[r] \in Nat
    BY DEF IInv, Sources, TypeOK
  <2> QED
    BY <1>2, <1>6, <2>1 DEF Sources, Points, Same, Gone
<1>9. ASSUME Logs PROVE Logs'
  <2> SUFFICES ASSUME NEW j \in Ids, NEW r \in Readers
               PROVE  Given(stream'[r], Delivered(stream'[r], made[r]), j, log'[<<j, r>>], r, left')
    BY DEF Logs
  <2> DEFINE m == Delivered(stream[r], made[r])
  <2>1. Delivered(stream'[r], made[r]) = m
    BY <1>2, <1>6 DEF Same, Delivered, Gone
  <2>2. Given(stream[r], m, j, log[<<j, r>>], r, left)
    BY <1>9 DEF Logs
  <2>3. m \in Nat
    BY DEF IInv, TypeOK, Sources, Points, Delivered, Streams
  <2>4. r \in left' <=> r \in left \/ \E i \in is : stream[r].rep[i] # "off"
    BY <1>3 DEF playsOn
  <2>5. stream[r] \in Streams /\ log[<<j, r>>] \in Seq(Nat)
    BY DEF IInv, TypeOK
  <2> HIDE DEF m
  <2>6. Given(f[r], m, j, IF j \in is THEN <<>> ELSE log[<<j, r>>], r, left')
    BY <1>2, <2>2, <2>3, <2>4, <2>5, GivenLeaving
  <2>7. Given(f[r], m, j, l[<<j, r>>], r, left')
    BY <1>4, <2>6
  <2> QED
    BY <1>6, <2>1, <2>3, <2>7
<1> QED
  BY <1>2, <1>6, <1>7, <1>8, <1>9 DEF Same, Gone

-----------------------------------------------------------------------------
(* The steps keep the invariants.  No source gives a frame again if they   *)
(* all look whether it was processed.                                      *)

FramesOnce == \A r \in Readers : checksProcessed(r)

LEMMA CountedKept ==
  ASSUME Counted, FramesKept, UNCHANGED <<reader, pFrames>>,
         pc' \in {"idle", "single"} => pc \in {"idle", "single"}
  PROVE  Counted'
<1>1. holding' = holding
  BY DEF FramesKept, holding
<1> QED
  BY <1>1 DEF Counted, FramesKept

LEMMA StepTaken ==
  ASSUME InStep
  PROVE  pc' \in {"idle", "after"} /\ (pc' = "idle" => pc = "single")
  BY DEF InStep

LEMMA LogsStay ==
  ASSUME Logs, UNCHANGED <<log, left>>,
         \A r \in Readers :
           /\ stream'[r].held = stream[r].held /\ stream'[r].served = stream[r].served
           /\ stream'[r].stop => stream[r].stop
           /\ \A i \in Ids : stream'[r].rep[i] = "off" <=> stream[r].rep[i] = "off"
           /\ Delivered(stream'[r], made'[r]) = Delivered(stream[r], made[r])
  PROVE  Logs'
<1> SUFFICES ASSUME NEW i \in Ids, NEW r \in Readers
             PROVE  Given(stream'[r], Delivered(stream'[r], made'[r]), i, log[<<i, r>>], r, left)
  BY DEF Logs
<1> QED
  BY DEF Logs, Given, Latest

LEMMA InitIInv ==
  ASSUME Init, Assumption
  PROVE  IInv /\ Logs
<1>1. TypeOK
  BY FS_CardinalityType, EmptySeq
     DEF Init, TypeOK, NewStream, Streams, Assumption, TransmitterAssumption
<1>2. holding = {}
  BY DEF Init, holding, NewStream
<1>3. Used /\ Counted /\ Sources
  BY <1>2, FS_EmptySet DEF Init, Used, Counted, Sources, NewStream, Replicates, Points
<1>4. \A i \in Ids, r \in Readers : log[<<i, r>>] = <<>> /\ Len(<<>>) = 0
  BY DEF Init
<1>5. \A r \in Readers : stream[r].frame = 0 /\ stream[r].held = 0 /\ made[r] = 0
  BY DEF Init, NewStream
<1>6. Logs
  <2>1. Rises(<<>>) /\ Follows(<<>>) /\ Len(<<>>) = 0
    BY DEF Rises, Follows
  <2>2. \A r \in Readers : Delivered(stream[r], made[r]) = 0
    BY <1>5 DEF Delivered
  <2>3. \A i \in Ids, r \in Readers : Given(stream[r], 0, i, <<>>, r, left)
    BY <1>5, <2>1 DEF Given
  <2> QED
    BY <1>4, <2>2, <2>3 DEF Logs
<1> QED
  BY <1>1, <1>3, <1>6 DEF IInv

LEMMA Beginning ==
  ASSUME IInv, Assumption, begin
  PROVE  IInv' /\ (Logs => Logs')
<1>1. PICK new \in SUBSET {r \in reader : made[r] < MaxFrames} :
        /\ made' = [r \in Readers |-> IF r \in new THEN made[r] + 1 ELSE made[r]]
        /\ LET took == {r \in new : stream[r].frame = 0} IN
           /\ stream' = [r \in Readers |->
                           IF r \in took THEN setFrame(stream[r], made'[r]) ELSE stream[r]]
           /\ trigger' = trigger \cup took
           /\ pFrames' = Cardinality(took)
           /\ pc' = IF took = {} THEN "single" ELSE "step"
  BY DEF begin
<1>2. /\ \A r \in Readers : stream[r].frame = 0 /\ stream[r] \in Streams /\ made[r] \in Nat
      /\ new \subseteq Readers
  BY DEF begin, IInv, Counted, holding, TypeOK
<1>3. {r \in new : stream[r].frame = 0} = new
  BY <1>2
<1>4. /\ stream' = [r \in Readers |->
                      IF r \in new THEN [stream[r] EXCEPT !.frame = made'[r]] ELSE stream[r]]
      /\ trigger' = trigger \cup new /\ pFrames' = Cardinality(new)
      /\ pc' = IF new = {} THEN "single" ELSE "step"
  BY <1>1, <1>2, <1>3 DEF setFrame
<1>5. \A r \in Readers :
        /\ stream'[r].frame = IF r \in new THEN made'[r] ELSE 0
        /\ stream'[r].held = stream[r].held
        /\ stream'[r].processed = stream[r].processed /\ stream'[r].rep = stream[r].rep
        /\ stream'[r].served = stream[r].served /\ stream'[r].stop = stream[r].stop
        /\ stream'[r].master = stream[r].master
        /\ stream'[r].awaiting = stream[r].awaiting
  BY <1>2, <1>4 DEF Streams
<1>6. made' \in [Readers -> 0 .. MaxFrames]
  <2>1. \A r \in new : made[r] + 1 \in 0 .. MaxFrames
    BY <1>2 DEF Assumption, TransmitterAssumption
  <2> QED
    BY <1>1, <2>1 DEF IInv, TypeOK
<1>7. holding' = new
  <2>1. \A r \in new : made'[r] # 0 /\ made'[r] \in Nat
    BY <1>1, <1>2
  <2> QED
    BY <1>2, <1>4, <2>1 DEF holding, Streams
<1>8. /\ Cardinality(new) \in 0 .. Cardinality(Readers)
      /\ Cardinality(new) = 0 <=> new = {}
  <2>1. IsFiniteSet(Readers) /\ IsFiniteSet(new)
    BY <1>2, FS_Subset DEF Assumption, TransmitterAssumption
  <2> QED
    BY <1>2, <2>1, FS_Subset, FS_CardinalityType, FS_EmptySet
<1>9. TypeOK'
  <2>1. stream' \in [Readers -> Streams]
    BY <1>2, <1>4, <1>6 DEF Streams
  <2> QED
    BY <1>2, <1>4, <1>6, <1>8, <2>1 DEF IInv, TypeOK, begin
<1>10. Used'
  BY <1>5 DEF IInv, Used, begin
<1>11. Counted'
  BY <1>2, <1>4, <1>7, <1>8 DEF IInv, Counted, begin
<1>12. Sources'
  <2>1. \A r \in Readers : stream[r].held <= made[r] /\ stream[r].held \in Nat
    BY <1>2 DEF IInv, Sources, Points, Streams
  <2> QED
    BY <1>1, <1>2, <1>5, <2>1 DEF IInv, Sources, Points, Replicates
<1>13. ASSUME Logs PROVE Logs'
  <2>1. \A r \in Readers : ~stream[r].processed
    BY <1>2 DEF IInv, Sources, Points
  <2>2. \A r \in Readers : Delivered(stream'[r], made'[r]) = Delivered(stream[r], made[r])
    BY <1>1, <1>2, <1>5, <2>1 DEF Delivered
  <2> QED
    BY <1>5, <1>13, <2>2, LogsStay DEF begin
<1> QED
  BY <1>9, <1>10, <1>11, <1>12, <1>13 DEF IInv

LEMMA Quiet ==
  ASSUME IInv, quiet
  PROVE  IInv' /\ (Logs => Logs')
<1>1. FramesKept /\ Used' /\ Sources'
  BY DEF quiet, IInv, FramesKept, TypeOK, Used, Sources
<1>2. Counted'
  BY <1>1, StepTaken, CountedKept DEF IInv, quiet
<1>3. TypeOK'
  BY StepTaken DEF quiet, IInv, TypeOK
<1>4. Logs => Logs'
  BY LogsStay DEF quiet
<1> QED
  BY <1>1, <1>2, <1>3, <1>4 DEF IInv

LEMMA Event ==
  ASSUME IInv, NEW r \in Readers, event(r)
  PROVE  IInv' /\ (Logs => Logs')
<1>1. /\ stream' \in [Readers -> Streams]
      /\ \A q \in Readers :
           /\ stream'[q].frame = stream[q].frame /\ stream'[q].held = stream[q].held
           /\ stream'[q].processed = stream[q].processed /\ stream'[q].rep = stream[q].rep
           /\ stream'[q].served = stream[q].served /\ stream'[q].stop = stream[q].stop
           /\ stream'[q].master = stream[q].master
           /\ stream'[q].awaiting = stream[q].awaiting
  <2>1. /\ stream \in [Readers -> Streams]
        /\ \A q \in Readers :
             stream'[q] = IF q = r THEN [stream[r] EXCEPT !.call = TRUE] ELSE stream[q]
    BY DEF event, IInv, TypeOK
  <2>2. [stream[r] EXCEPT !.call = TRUE] \in Streams
    BY <2>1 DEF Streams
  <2>3. stream' \in [Readers -> Streams]
    BY <2>1, <2>2 DEF event
  <2> QED
    BY <2>1, <2>3 DEF Streams
<1>2. FramesKept /\ Used' /\ Sources'
  BY <1>1 DEF event, IInv, FramesKept, TypeOK, Used, Sources, Replicates, Points
<1>3. Counted'
  BY <1>2, StepTaken, CountedKept DEF IInv, event
<1>4. TypeOK'
  BY <1>1, StepTaken DEF event, IInv, TypeOK
<1>5. Logs => Logs'
  BY <1>1, LogsStay DEF event, Delivered
<1> QED
  BY <1>2, <1>3, <1>4, <1>5 DEF IInv

LEMMA Enough ==
  ASSUME IInv, NEW i \in Ids, NEW r \in Readers, enough(i, r)
  PROVE  IInv' /\ (Logs => Logs')
<1>1. /\ stream' \in [Readers -> Streams]
      /\ \A q \in Readers :
           /\ stream'[q].frame = stream[q].frame /\ stream'[q].held = stream[q].held
           /\ stream'[q].processed = stream[q].processed
           /\ \A j \in Ids : \/ stream'[q].rep[j] = stream[q].rep[j]
                             \/ stream'[q].rep[j] = "busy" /\ stream[q].rep[j] = "eager"
           /\ stream'[q].served = stream[q].served /\ stream'[q].stop = stream[q].stop
           /\ stream'[q].master = stream[q].master
           /\ stream'[q].awaiting = stream[q].awaiting
  <2> DEFINE s == [stream[r] EXCEPT !.rep[i] = "busy"]
  <2>1. /\ stream \in [Readers -> Streams] /\ stream' = [stream EXCEPT ![r] = s]
        /\ \A q \in Readers : stream'[q] = IF q = r THEN s ELSE stream[q]
    BY DEF enough, IInv, TypeOK
  <2>2. stream[r] \in Streams /\ stream[r].rep[i] = "eager"
    BY <2>1 DEF enough
  <2>3. /\ s \in Streams /\ s.rep = [stream[r].rep EXCEPT ![i] = "busy"]
        /\ s.frame = stream[r].frame /\ s.held = stream[r].held
        /\ s.processed = stream[r].processed /\ s.served = stream[r].served
        /\ s.stop = stream[r].stop /\ s.master = stream[r].master
        /\ s.awaiting = stream[r].awaiting
    BY <2>2 DEF Streams
  <2> HIDE DEF s
  <2>4. stream' \in [Readers -> Streams]
    BY <2>1, <2>3
  <2> QED
    BY <2>1, <2>2, <2>3, <2>4 DEF Streams
<1>2. FramesKept /\ Used'
  BY <1>1 DEF enough, IInv, FramesKept, TypeOK, Used
<1>3. Sources'
  <2>1. \A q \in Readers : stream[q].master \in Ids \cup {None}
    BY DEF IInv, TypeOK, Streams
  <2> QED
    BY <1>1, <2>1 DEF enough, IInv, Sources, Replicates, Points
<1>4. Counted'
  BY <1>2, CountedKept DEF IInv, enough
<1>5. TypeOK'
  BY <1>1 DEF enough, IInv, TypeOK
<1>6. Logs => Logs'
  BY <1>1, LogsStay DEF enough, Delivered
<1> QED
  BY <1>2, <1>3, <1>4, <1>5, <1>6 DEF IInv

LEMMA GivenDelivered ==
  ASSUME NEW s, NEW t, NEW m \in Nat, NEW i \in Ids, NEW l \in Seq(Nat), NEW r, NEW gone,
         Given(s, m - 1, i, l, r, gone), s.held = 0, t.held = m, i \notin t.served,
         t.stop = s.stop, t.rep = s.rep
  PROVE  Given(t, m, i, l, r, gone)
<1>1. Len(l) \in Nat /\ \A k \in 1 .. Len(l) : l[k] \in Nat
  BY LenProperties, ElementOfSeq
<1>2. \A k \in 1 .. Len(l) : l[k] < m /\ l[k] <= m
  BY <1>1 DEF Given
<1>3. m <= m
  OBVIOUS
<1>4. Latest(s, m - 1, i) = m - 1 /\ (Latest(t, m, i) = IF m # 0 THEN m - 1 ELSE m)
  BY DEF Latest
<1>5. m = 0 => l = <<>>
  <2>1. m = 0 => Len(l) = 0
    BY <1>1, <1>2
  <2> QED
    BY <2>1, EmptySeq
<1> QED
  BY <1>2, <1>3, <1>4, <1>5 DEF Given

(* A source gives its frame away, to the buffer of the master.             *)
LEMMA Delivering ==
  ASSUME IInv, Assumption, NEW r \in Readers, deliverFrame(r), canDeliver(r, stream[r])
  PROVE  /\ stream' \in [Readers -> Streams] /\ log' \in [Ids \X Readers -> Seq(Nat)]
         /\ Sources' /\ (Logs /\ FramesOnce => Logs')
         /\ \A q \in Readers : /\ stream'[q].frame = stream[q].frame
                               /\ \A i \in Ids : stream'[q].rep[i] = "off" <=> stream[q].rep[i] = "off"
<1> DEFINE s == [stream[r] EXCEPT !.call = FALSE, !.awaiting = FALSE,
                                  !.processed = TRUE, !.held = stream[r].frame]
           f == [stream EXCEPT ![r] = s]
<1>1. /\ Become(f, log) /\ UNCHANGED <<made, left>>
      /\ stream[r].awaiting /\ stream[r].frame # 0
      /\ FramesOnce => ~stream[r].processed
  BY DEF deliverFrame, With, canDeliver, FramesOnce
<1>2. /\ stream \in [Readers -> Streams] /\ log \in [Ids \X Readers -> Seq(Nat)]
      /\ made \in [Readers -> 0 .. MaxFrames] /\ None \notin Ids
      /\ \A q \in Readers : Replicates(stream[q]) /\ Points(stream[q], made[q])
  BY DEF IInv, TypeOK, Sources, Assumption, TransmitterAssumption
<1>3. stream[r] \in Streams
  BY <1>2
<1>4. /\ s \in Streams /\ s.frame = stream[r].frame /\ s.held = stream[r].frame
      /\ s.processed /\ ~s.awaiting /\ s.stop = stream[r].stop /\ s.rep = stream[r].rep
      /\ s.served = stream[r].served /\ s.master = stream[r].master
  BY <1>3 DEF Streams
<1>5. /\ stream[r].held = 0 /\ stream[r].served = {} /\ stream[r].frame = made[r]
      /\ ~stream[r].stop /\ stream[r].master # None
  BY <1>1, <1>2 DEF Replicates, Points
<1>6. Replicates(s) /\ Points(s, made[r])
  BY <1>1, <1>2, <1>4, <1>5 DEF Replicates, Points
<1> HIDE DEF s
<1>7. /\ f \in [Readers -> Streams]
      /\ \A q \in Readers : f[q] = IF q = r THEN s ELSE stream[q]
      /\ \A q \in Readers : Replicates(f[q]) /\ Points(f[q], made[q])
  BY <1>2, <1>4, <1>6
<1> HIDE DEF f
<1>8. /\ stream' \in [Readers -> Streams] /\ log' \in [Ids \X Readers -> Seq(Nat)]
      /\ \A q \in Readers : /\ Replicates(stream'[q]) /\ Same(f[q], stream'[q])
                            /\ stream'[q].held \in {0, f[q].held}
      /\ \A q \in Readers, j \in Ids, m \in Nat :
           Given(f[q], m, j, log[<<j, q>>], q, left)
           => Given(stream'[q], m, j, log'[<<j, q>>], q, left)
  BY <1>1, <1>2, <1>7, Becomes
<1>9. Sources'
  <2>1. \A q \in Readers : made'[q] = made[q] /\ made[q] \in Nat
    BY <1>1, <1>2
  <2> QED
    BY <1>7, <1>8, <2>1 DEF Sources, Points, Same
<1>10. ASSUME Logs, FramesOnce PROVE Logs'
  <2> SUFFICES ASSUME NEW j \in Ids, NEW q \in Readers
               PROVE  Given(stream'[q], Delivered(stream'[q], made[q]), j, log'[<<j, q>>], q, left)
    BY <1>1 DEF Logs
  <2> DEFINE m == Delivered(f[q], made[q])
  <2>1. Delivered(stream'[q], made[q]) = m
    BY <1>8 DEF Same, Delivered
  <2>2. m \in Nat
    BY <1>2, <1>7 DEF Delivered, Points, Streams
  <2>3. Given(stream[q], Delivered(stream[q], made[q]), j, log[<<j, q>>], q, left)
    BY <1>10 DEF Logs
  <2>4. log[<<j, q>>] \in Seq(Nat) /\ made[q] \in Nat
    BY <1>2
  <2>5. CASE q = r
    <3>1. Delivered(stream[r], made[r]) = made[r] - 1 /\ m = made[r] /\ f[q] = s
      BY <1>1, <1>4, <1>5, <1>7, <1>10, <2>5 DEF Delivered
    <3>2. Given(stream[r], made[r] - 1, j, log[<<j, r>>], r, left)
      BY <2>3, <2>5, <3>1
    <3>3. Given(s, made[r], j, log[<<j, r>>], r, left)
      BY <1>1, <1>4, <1>5, <2>4, <2>5, <3>2, GivenDelivered
    <3> HIDE DEF m
    <3> QED
      BY <1>8, <2>1, <2>2, <2>5, <3>1, <3>3
  <2>6. CASE q # r
    <3>1. f[q] = stream[q]
      BY <1>7, <2>6
    <3> QED
      BY <1>8, <2>1, <2>2, <2>3, <3>1
  <2> QED
    BY <2>5, <2>6
<1> QED
  BY <1>4, <1>7, <1>8, <1>9, <1>10 DEF Same

LEMMA Delivers ==
  ASSUME IInv, Assumption, NEW r \in Readers, deliverFrame(r)
  PROVE  IInv' /\ (Logs /\ FramesOnce => Logs')
<1>1. CASE canDeliver(r, stream[r])
  <2>1. /\ stream' \in [Readers -> Streams] /\ log' \in [Ids \X Readers -> Seq(Nat)]
        /\ Sources' /\ (Logs /\ FramesOnce => Logs')
        /\ \A q \in Readers : /\ stream'[q].frame = stream[q].frame
                              /\ \A i \in Ids : stream'[q].rep[i] = "off" <=> stream[q].rep[i] = "off"
    BY <1>1, Delivering
  <2>2. holding' = holding
    BY <2>1 DEF holding
  <2>3. Counted' /\ Used'
    BY <2>1, <2>2 DEF Counted, Used, IInv, deliverFrame
  <2>4. TypeOK'
    BY <2>1 DEF TypeOK, IInv, deliverFrame
  <2> QED
    BY <2>1, <2>3, <2>4 DEF IInv
<1>2. CASE ~canDeliver(r, stream[r])
  <2>1. /\ stream' \in [Readers -> Streams] /\ UNCHANGED log
        /\ \A q \in Readers :
             /\ stream'[q].frame = stream[q].frame /\ stream'[q].held = stream[q].held
             /\ stream'[q].processed = stream[q].processed /\ stream'[q].rep = stream[q].rep
             /\ stream'[q].served = stream[q].served /\ stream'[q].stop = stream[q].stop
             /\ stream'[q].master = stream[q].master
             /\ stream'[q].awaiting = stream[q].awaiting
    <3>1. /\ stream \in [Readers -> Streams] /\ UNCHANGED log
          /\ \A q \in Readers :
               stream'[q] = IF q = r THEN [stream[r] EXCEPT !.call = FALSE] ELSE stream[q]
      BY <1>2 DEF deliverFrame, IInv, TypeOK
    <3>2. [stream[r] EXCEPT !.call = FALSE] \in Streams
      BY <3>1 DEF Streams
    <3>3. stream' \in [Readers -> Streams]
      BY <1>2, <3>1, <3>2 DEF deliverFrame
    <3> QED
      BY <3>1, <3>3 DEF Streams
  <2>2. FramesKept /\ Used' /\ Sources'
    <3>1. UNCHANGED <<made, connections, reader>> /\ log \in [Ids \X Readers -> Seq(Nat)]
      BY DEF deliverFrame, IInv, TypeOK
    <3>2. FramesKept
      BY <2>1, <3>1 DEF FramesKept
    <3>3. Used'
      BY <2>1, <3>1 DEF IInv, Used
    <3>4. Sources'
      BY <2>1, <3>1 DEF IInv, Sources, Replicates, Points
    <3> QED
      BY <3>2, <3>3, <3>4
  <2>3. Counted'
    BY <2>2, CountedKept DEF IInv, deliverFrame
  <2>4. TypeOK'
    BY <2>1 DEF deliverFrame, IInv, TypeOK
  <2>5. Logs => Logs'
    BY <2>1, LogsStay DEF deliverFrame, Delivered
  <2> QED
    BY <2>2, <2>3, <2>4, <2>5 DEF IInv
<1> QED
  BY <1>1, <1>2

(* A client that is there asks for its next frame.                         *)
LEMMA Asks ==
  ASSUME IInv, Assumption, NEW i \in Ids, NEW r \in Readers,
         stream[r].rep[i] \in {"busy", "eager"}, Become(With(r, asked(i, stream[r])), log),
         UNCHANGED <<reader, trigger, connections, pFrames, made, left, changes>>,
         pc' \in {"idle", "single", "step", "after"},
         pc' \in {"idle", "single"} => pc \in {"idle", "single"}
  PROVE  IInv' /\ (Logs => Logs')
<1>1. With(r, asked(i, stream[r]))
        = [q \in Readers |-> IF q \in {r} THEN asked(i, stream[q]) ELSE stream[q]]
  BY DEF With, IInv, TypeOK
<1>2. /\ FramesKept /\ Sources'
      /\ \A q \in Readers, j \in Ids :
           stream'[q].rep[j] = "off" <=> stream[q].rep[j] = "off" /\ ~(j = i /\ q \in {r})
      /\ Logs => Logs'
  <2>1. Become([q \in Readers |-> IF q \in {r} THEN asked(i, stream[q]) ELSE stream[q]], log)
    BY <1>1
  <2>2. \A q \in {r} : stream[q].rep[i] \notin {"asks", "next"}
    OBVIOUS
  <2> QED
    BY <2>1, <2>2, Asking
<1>3. Used'
  BY <1>2 DEF IInv, Used
<1>4. Counted'
  BY <1>2, CountedKept DEF IInv
<1>5. TypeOK'
  BY <1>2 DEF IInv, TypeOK, FramesKept
<1> QED
  BY <1>2, <1>3, <1>4, <1>5 DEF IInv

LEMMA ClientsAsk ==
  ASSUME IInv, Assumption, NEW i \in Ids, NEW r \in Readers, askNext(i, r) \/ askAgain(i, r)
  PROVE  IInv' /\ (Logs => Logs')
<1>1. CASE askNext(i, r)
  BY <1>1, StepTaken, Asks DEF askNext
<1>2. CASE askAgain(i, r)
  <2>1. pc \in {"idle", "single", "step", "after"}
    BY DEF IInv, TypeOK
  <2> QED
    BY <1>2, <2>1, Asks DEF askAgain
<1> QED
  BY <1>1, <1>2

(* A client that comes was not there.                                      *)
LEMMA Coming ==
  ASSUME IInv, Assumption, NEW i \in Ids, NEW rs \in SUBSET reader,
         \A r \in rs : stream[r].rep[i] = "off",
         Become([r \in Readers |-> IF r \in rs THEN asked(i, stream[r]) ELSE stream[r]],
                log),
         connections' = [connections EXCEPT ![i] = rs],
         UNCHANGED <<reader, trigger, pFrames, made, left>>, changes' \in 0 .. MaxChanges,
         \A r \in Readers \ rs : stream[r].rep[i] = "off",
         pc' \in {"idle", "single", "step", "after"},
         pc' \in {"idle", "single"} => pc \in {"idle", "single"}
  PROVE  IInv' /\ (Logs => Logs')
<1>1. rs \in SUBSET Readers
  BY DEF IInv, TypeOK
<1>2. /\ FramesKept /\ Sources'
      /\ \A r \in Readers, j \in Ids :
           stream'[r].rep[j] = "off" <=> stream[r].rep[j] = "off" /\ ~(j = i /\ r \in rs)
      /\ Logs => Logs'
  BY <1>1, Asking
<1>3. connections' \in [Ids -> SUBSET Readers]
      /\ \A j \in Ids : connections'[j] = IF j = i THEN rs ELSE connections[j]
  BY <1>1 DEF IInv, TypeOK
<1>4. Used'
  BY <1>2, <1>3 DEF IInv, Used
<1>5. Counted'
  BY <1>2, CountedKept DEF IInv
<1>6. TypeOK'
  BY <1>2, <1>3 DEF IInv, TypeOK, FramesKept
<1> QED
  BY <1>2, <1>4, <1>5, <1>6 DEF IInv

LEMMA Changing ==
  ASSUME IInv, Assumption, Change
  PROVE  changes' \in 0 .. MaxChanges
  BY DEF IInv, TypeOK, Change, Assumption, TransmitterAssumption

(* What a connection may take is among the readers it was asked for.       *)
LEMMA Accepted ==
  ASSUME Assumption, NEW i \in Ids
  PROVE  /\ stdReaders(i) \subseteq ToSet(Request[i].readers)
         /\ mpegTsReaders(i) \subseteq ToSet(Request[i].readers)
         /\ rtspReaders(i) \subseteq ToSet(Request[i].readers)
<1> DEFINE rs == Request[i].readers
<1>1. rs \in Seq(Readers) /\ DOMAIN rs = 1 .. Len(rs) /\ Len(rs) \in Nat
  BY LenProperties DEF Assumption, TransmitterAssumption
<1>2. \A k \in DOMAIN rs : rs[k] \in ToSet(rs)
  BY DEF ToSet
<1>3. stdReaders(i) \subseteq ToSet(rs)
  BY <1>1, <1>2 DEF stdReaders
<1>4. mpegTsReaders(i) \subseteq ToSet(rs)
  BY <1>2 DEF mpegTsReaders
<1>5. rtspReaders(i) \subseteq ToSet(rs)
  BY DEF rtspReaders
<1> QED
  BY <1>3, <1>4, <1>5

LEMMA AddRTP ==
  ASSUME IInv, Assumption, NEW i \in Ids, addRTPConnection(i)
  PROVE  IInv' /\ (Logs => Logs')
<1> DEFINE rs == IF Request[i].port % 2 # 0 THEN {}
                 ELSE IF Request[i].format = "mpegts" THEN mpegTsReaders(i) ELSE stdReaders(i)
<1>1. /\ Change /\ connections[i] = {} /\ ToSet(Request[i].readers) \subseteq reader
      /\ connections' = [connections EXCEPT ![i] = rs]
      /\ Become([r \in Readers |-> IF r \in rs THEN asked(i, stream[r]) ELSE stream[r]], log)
      /\ UNCHANGED <<reader, trigger, pc, pFrames, made, left>>
  BY DEF addRTPConnection, canAdd
<1>2. rs \in SUBSET reader
  BY <1>1, Accepted
<1> HIDE DEF rs
<1>3. \A r \in Readers : stream[r].rep[i] = "off"
  BY <1>1 DEF IInv, Used
<1>4. reader \subseteq Readers /\ pc \in {"idle", "single", "step", "after"}
  BY DEF IInv, TypeOK
<1>5. changes' \in 0 .. MaxChanges
  BY <1>1, Changing
<1> QED
  BY <1>1, <1>2, <1>3, <1>4, <1>5, Coming

LEMMA AddRTSP ==
  ASSUME IInv, Assumption, NEW i \in Ids, addRTSPConnection(i)
  PROVE  IInv' /\ (Logs => Logs')
<1>1. rtspReaders(i) \subseteq reader /\ reader \subseteq Readers
  BY Accepted DEF addRTSPConnection, canAdd, IInv, TypeOK
<1>2. /\ connections' \in [Ids -> SUBSET Readers] /\ connections[i] = {}
      /\ \A j \in Ids : connections'[j] = IF j = i THEN rtspReaders(i) ELSE connections[j]
  BY <1>1 DEF IInv, TypeOK, addRTSPConnection, canAdd
<1>3. FramesKept /\ Sources'
  BY DEF addRTSPConnection, IInv, FramesKept, TypeOK, Sources
<1>4. Used'
  BY <1>1, <1>2 DEF addRTSPConnection, IInv, Used
<1>5. Counted'
  BY <1>3, CountedKept DEF IInv, addRTSPConnection
<1>6. TypeOK'
  BY <1>2, Changing DEF addRTSPConnection, IInv, TypeOK
<1>7. Logs => Logs'
  BY LogsStay DEF addRTSPConnection
<1> QED
  BY <1>3, <1>4, <1>5, <1>6, <1>7 DEF IInv

LEMMA Playing ==
  ASSUME IInv, Assumption, NEW i \in Ids, play(i)
  PROVE  IInv' /\ (Logs => Logs')
<1> DEFINE rs == connections[i]
<1>1. /\ connections' = [connections EXCEPT ![i] = rs]
      /\ rs \in SUBSET reader
      /\ \A r \in Readers \ rs : stream[r].rep[i] = "off"
  BY DEF play, IInv, TypeOK, Used
<1>2. /\ \A r \in rs : stream[r].rep[i] = "off"
      /\ Become([r \in Readers |-> IF r \in rs THEN asked(i, stream[r]) ELSE stream[r]], log)
      /\ UNCHANGED <<reader, trigger, pFrames, made, left>>
  BY DEF play
<1>3. /\ pc' \in {"idle", "single", "step", "after"}
      /\ pc' \in {"idle", "single"} => pc \in {"idle", "single"}
  BY StepTaken DEF play
<1>4. changes' \in 0 .. MaxChanges
  BY Changing DEF play
<1> HIDE DEF rs
<1> QED
  BY <1>1, <1>2, <1>3, <1>4, Coming

(* A client leaves, and its connection may be closed.                      *)
LEMMA Goes ==
  ASSUME IInv, Assumption, NEW i \in Ids, stopPlaying({i}),
         connections' \in {connections, [connections EXCEPT ![i] = {}]},
         UNCHANGED <<reader, trigger, pFrames, made>>, changes' \in 0 .. MaxChanges,
         pc' \in {"idle", "single", "step", "after"},
         pc' \in {"idle", "single"} => pc \in {"idle", "single"}
  PROVE  IInv' /\ (Logs => Logs')
<1>1. /\ FramesKept /\ Sources'
      /\ \A r \in Readers, j \in Ids :
           stream'[r].rep[j] = "off" <=> stream[r].rep[j] = "off" \/ j \in {i}
      /\ Logs => Logs'
  BY Departing
<1>2. /\ connections' \in [Ids -> SUBSET Readers]
      /\ \A j \in Ids : connections'[j] = connections[j] \/ (j = i /\ connections'[j] = {})
  BY DEF IInv, TypeOK
<1>3. left' \subseteq Readers
  BY DEF stopPlaying, playsOn, IInv, TypeOK
<1>4. Used'
  BY <1>1, <1>2 DEF IInv, Used
<1>5. Counted'
  BY <1>1, CountedKept DEF IInv
<1>6. TypeOK'
  BY <1>1, <1>2, <1>3 DEF IInv, TypeOK, FramesKept
<1> QED
  BY <1>1, <1>4, <1>5, <1>6 DEF IInv

LEMMA ClientsGo ==
  ASSUME IInv, Assumption, NEW i \in Ids, teardown(i) \/ removeConnection(i)
  PROVE  IInv' /\ (Logs => Logs')
<1>1. CASE teardown(i)
  BY <1>1, StepTaken, Changing, Goes DEF teardown
<1>2. CASE removeConnection(i)
  <2>1. pc \in {"idle", "single", "step", "after"}
    BY DEF IInv, TypeOK
  <2> QED
    BY <1>2, <2>1, Changing, Goes DEF removeConnection
<1> QED
  BY <1>1, <1>2

LEMMA ReaderDelete ==
  ASSUME IInv, Assumption, NEW r \in Readers, specificReaderDelete(r)
  PROVE  IInv' /\ (Logs => Logs')
<1> DEFINE is == usedBy(r)
<1>1. /\ is \in SUBSET Ids /\ \A i \in Ids : i \in is <=> r \in connections[i]
      /\ pc = "idle" /\ pc' = pc /\ reader' = reader \ {r} /\ UNCHANGED <<trigger, pFrames, made>>
      /\ connections' = [i \in Ids |-> IF i \in is THEN {} ELSE connections[i]]
      /\ stopPlaying(is) /\ Change
  BY DEF specificReaderDelete, usedBy, Assumption
<1> HIDE DEF is
<1>2. /\ FramesKept /\ Sources'
      /\ \A q \in Readers, j \in Ids :
           stream'[q].rep[j] = "off" <=> stream[q].rep[j] = "off" \/ j \in is
      /\ Logs => Logs'
  BY <1>1, Departing
<1>3. connections' \in [Ids -> SUBSET Readers] /\ left' \subseteq Readers
  BY <1>1 DEF stopPlaying, playsOn, IInv, TypeOK
<1>4. Used'
  BY <1>1, <1>2 DEF IInv, Used
<1>5. Counted'
  <2>1. holding' = holding
    BY <1>2 DEF FramesKept, holding
  <2>2. holding = {} /\ \A q \in Readers : stream[q].frame = 0
    BY <1>1 DEF IInv, Counted, holding
  <2> QED
    BY <1>1, <1>2, <2>1, <2>2 DEF IInv, Counted, FramesKept
<1>6. TypeOK'
  BY <1>1, <1>2, <1>3, Changing DEF IInv, TypeOK, FramesKept
<1> QED
  BY <1>2, <1>4, <1>5, <1>6 DEF IInv

LEMMA ReaderConfig ==
  ASSUME IInv, Assumption, NEW r \in Readers, specificReaderConfig(r)
  PROVE  IInv' /\ (Logs => Logs')
<1>1. /\ NewStream \in Streams /\ NewStream.frame = 0 /\ NewStream.held = 0
      /\ Replicates(NewStream) /\ Points(NewStream, 0) /\ Delivered(NewStream, 0) = 0
      /\ \A i \in Ids : NewStream.rep[i] = "off"
  <2>1. NewStream \in Streams
    BY DEF NewStream, Streams
  <2>2. /\ NewStream.frame = 0 /\ NewStream.held = 0 /\ NewStream.served = {}
        /\ NewStream.master = None /\ ~NewStream.awaiting /\ ~NewStream.processed
        /\ \A i \in Ids : NewStream.rep[i] = "off"
    BY DEF NewStream
  <2> QED
    BY <2>1, <2>2 DEF Replicates, Points, Delivered
<1> HIDE DEF NewStream
<1>2. /\ stream \in [Readers -> Streams] /\ made \in [Readers -> 0 .. MaxFrames]
      /\ 0 \in 0 .. MaxFrames /\ log \in [Ids \X Readers -> Seq(Nat)]
  BY DEF IInv, TypeOK, Assumption, TransmitterAssumption
<1>3. /\ stream' \in [Readers -> Streams] /\ made' \in [Readers -> 0 .. MaxFrames]
      /\ \A q \in Readers : /\ stream'[q] = IF q = r THEN NewStream ELSE stream[q]
                            /\ made'[q] = IF q = r THEN 0 ELSE made[q]
  BY <1>1, <1>2 DEF specificReaderConfig
<1>4. /\ log' \in [Ids \X Readers -> Seq(Nat)]
      /\ \A i \in Ids, q \in Readers : log'[<<i, q>>] = IF q = r THEN <<>> ELSE log[<<i, q>>]
  BY <1>2, EmptySeq DEF specificReaderConfig
<1>5. TypeOK'
  BY <1>3, <1>4, Changing DEF specificReaderConfig, IInv, TypeOK
<1>6. Used'
  BY <1>1, <1>3 DEF specificReaderConfig, IInv, Used
<1>7. Counted'
  <2>1. stream[r].frame = 0
    BY DEF specificReaderConfig, IInv, Counted
  <2>2. \A q \in Readers : stream'[q].frame = stream[q].frame
    BY <1>1, <1>3, <2>1
  <2>3. holding' = holding
    BY <2>2 DEF holding
  <2> QED
    BY <2>2, <2>3 DEF specificReaderConfig, IInv, Counted
<1>8. Sources'
  BY <1>1, <1>3 DEF IInv, Sources
<1>9. ASSUME Logs PROVE Logs'
  <2> SUFFICES ASSUME NEW i \in Ids, NEW q \in Readers
               PROVE  Given(stream'[q], Delivered(stream'[q], made'[q]), i, log'[<<i, q>>], q, left')
    BY DEF Logs
  <2>1. CASE q = r
    <3>1. Rises(<<>>) /\ Follows(<<>>) /\ Len(<<>>) = 0
      BY DEF Rises, Follows
    <3>2. Given(NewStream, 0, i, <<>>, r, left')
      BY <1>1, <3>1 DEF Given
    <3> QED
      BY <1>1, <1>3, <1>4, <2>1, <3>2
  <2>2. CASE q # r
    <3>1. q \in left' <=> q \in left
      BY <2>2 DEF specificReaderConfig
    <3>2. Given(stream[q], Delivered(stream[q], made[q]), i, log[<<i, q>>], q, left)
      BY <1>9 DEF Logs
    <3>3. Given(stream[q], Delivered(stream[q], made[q]), i, log[<<i, q>>], q, left')
      BY <3>1, <3>2 DEF Given
    <3> QED
      BY <1>3, <1>4, <2>2, <3>3
  <2> QED
    BY <2>1, <2>2
<1> QED
  BY <1>5, <1>6, <1>7, <1>8, <1>9 DEF IInv

(* The sources that gave their frame away are counted.                     *)
LEMMA Collecting ==
  ASSUME IInv, Assumption, collect
  PROVE  IInv' /\ (Logs => Logs')
<1> DEFINE got == {r \in reader : getsRid(r)}
<1>1. /\ pFrames' = pFrames - Cardinality(got)
      /\ pc' = IF pFrames' > 0 THEN "step" ELSE "idle"
      /\ stream' = [r \in Readers |-> IF r \in reader THEN gotFrame(stream[r]) ELSE stream[r]]
      /\ UNCHANGED <<reader, trigger, connections, made, log, left, changes>>
  BY DEF collect
<1>2. /\ reader \subseteq Readers /\ \A r \in Readers : stream[r] \in Streams
      /\ \A r \in Readers : Replicates(stream[r]) /\ Points(stream[r], made[r])
      /\ \A r \in Readers : made[r] \in Nat
      /\ \A r \in Readers \ reader : stream[r].frame = 0
  BY DEF IInv, TypeOK, Sources, Counted
<1>3. ASSUME NEW r \in Readers
      PROVE  /\ stream'[r] \in Streams
             /\ stream'[r].frame = IF r \in got THEN 0 ELSE stream[r].frame
             /\ stream'[r].processed <=> stream[r].processed /\ r \notin got
             /\ stream'[r].held = stream[r].held /\ stream'[r].served = stream[r].served
             /\ stream'[r].rep = stream[r].rep /\ stream'[r].stop = stream[r].stop
             /\ stream'[r].master = stream[r].master
             /\ stream'[r].awaiting = stream[r].awaiting
             /\ r \in got => /\ r \in reader /\ stream[r].frame # 0
                             /\ stream[r].processed \/ stream[r].stop
  <2> DEFINE s == stream[r]
             over == [s EXCEPT !.processed = FALSE, !.frame = 0]
  <2>1. /\ gotFrame(s) = IF s.processed \/ s.stop THEN over ELSE s
        /\ r \in got <=> r \in reader /\ s.frame # 0 /\ gotFrame(s).frame = 0
    BY DEF gotFrame, getsRid
  <2>2. /\ s \in Streams /\ over \in Streams /\ over.frame = 0 /\ ~over.processed
        /\ over.held = s.held /\ over.served = s.served /\ over.rep = s.rep
        /\ over.stop = s.stop /\ over.master = s.master /\ over.awaiting = s.awaiting
    BY <1>2 DEF Streams
  <2>3. /\ stream'[r] = IF r \in reader THEN gotFrame(s) ELSE s
        /\ r \notin reader => s.frame = 0
        /\ s.frame = 0 => ~s.processed
        /\ s.processed \in BOOLEAN
    BY <1>1, <1>2 DEF Points, Streams
  <2> HIDE DEF s, over, got
  <2>4. CASE r \in reader /\ (s.processed \/ s.stop)
    <3>1. stream'[r] = over /\ (r \in got <=> s.frame # 0) /\ r \in reader
      BY <2>1, <2>2, <2>3, <2>4
    <3> QED
      BY <2>2, <2>3, <2>4, <3>1 DEF s
  <2>5. CASE ~(r \in reader /\ (s.processed \/ s.stop))
    <3>1. stream'[r] = s /\ r \notin got
      BY <2>1, <2>3, <2>5
    <3> QED
      BY <2>2, <3>1 DEF s
  <2> QED
    BY <2>4, <2>5
<1> HIDE DEF got
<1>4. stream' \in [Readers -> Streams]
  BY <1>1, <1>3
<1>5. /\ got \subseteq holding /\ holding \subseteq Readers /\ holding' = holding \ got
  <2>1. got \subseteq Readers
    BY <1>2 DEF got
  <2> QED
    BY <1>3, <2>1 DEF holding
<1>6. /\ Cardinality(holding') = pFrames' /\ pFrames' \in 0 .. Cardinality(Readers)
      /\ pFrames' = 0 => holding' = {}
  <2>1. IsFiniteSet(Readers)
    BY DEF Assumption, TransmitterAssumption
  <2>2. /\ IsFiniteSet(holding) /\ IsFiniteSet(holding') /\ holding \cap got = got
        /\ Cardinality(holding') <= Cardinality(Readers) /\ Cardinality(holding') \in Nat
        /\ Cardinality(Readers) \in Nat
    BY <1>5, <2>1, FS_Subset, FS_CardinalityType
  <2>3. Cardinality(holding') = Cardinality(holding) - Cardinality(got)
    <3>1. Cardinality(holding \ got)
            = Cardinality(holding) - Cardinality(holding \cap got)
      BY <2>2, FS_Difference
    <3> QED
      BY <1>5, <2>2, <3>1
  <2>4. pFrames = Cardinality(holding)
    BY DEF IInv, Counted
  <2> QED
    BY <1>1, <2>2, <2>3, <2>4, FS_EmptySet
<1>7. TypeOK'
  BY <1>1, <1>4, <1>6 DEF IInv, TypeOK
<1>8. Used'
  BY <1>1, <1>3 DEF IInv, Used
<1>9. Counted'
  BY <1>1, <1>2, <1>3, <1>6 DEF Counted
<1>10. Sources'
  BY <1>1, <1>2, <1>3 DEF Sources, Replicates, Points
<1>11. ASSUME Logs PROVE Logs'
  <2> SUFFICES ASSUME NEW i \in Ids, NEW r \in Readers
               PROVE  Given(stream'[r], Delivered(stream'[r], made[r]), i, log[<<i, r>>], r, left)
    BY <1>1 DEF Logs
  <2> DEFINE m == Delivered(stream[r], made[r])
             m2 == Delivered(stream'[r], made[r])
             l == log[<<i, r>>]
  <2>1. Given(stream[r], m, i, l, r, left)
    BY <1>11 DEF Logs
  <2>2. l \in Seq(Nat) /\ Len(l) \in Nat /\ \A k \in 1 .. Len(l) : l[k] \in Nat
    BY LenProperties, ElementOfSeq DEF IInv, TypeOK
  <2>3. stream[r].held \in Nat /\ stream[r].processed \in BOOLEAN
    BY <1>2 DEF Streams
  <2>4. /\ m \in Nat /\ m2 \in Nat /\ m <= m2
        /\ m # m2 => stream[r].stop
    BY <1>2, <1>3, <2>3 DEF Delivered, Points
  <2>5. stream[r].stop => stream[r].held = 0
    BY <1>2 DEF Replicates
  <2> HIDE DEF m, m2, l
  <2>6. Given(stream'[r], m2, i, l, r, left)
    <3>1. /\ stream'[r].held = stream[r].held /\ stream'[r].served = stream[r].served
          /\ stream'[r].rep = stream[r].rep /\ stream'[r].stop = stream[r].stop
      BY <1>3
    <3>2. /\ Rises(l) /\ \A k \in 1 .. Len(l) : l[k] <= m
          /\ stream[r].held <= m /\ (l # <<>> => stream[r].rep[i] # "off")
          /\ stream[r].held # 0 /\ i \notin stream[r].served =>
               \A k \in 1 .. Len(l) : l[k] < stream[r].held
      BY <2>1 DEF Given
    <3>3. \A k \in 1 .. Len(l) : l[k] <= m2
      BY <2>2, <2>4, <3>2
    <3>4. stream[r].held <= m2
      BY <2>3, <2>4, <3>2
    <3>5. ASSUME r \notin left
          PROVE  /\ Follows(l)
                 /\ stream[r].held # 0 => stream[r].held = m2
                 /\ l # <<>> => ~stream[r].stop /\ l[Len(l)] = Latest(stream[r], m2, i)
      <4>1. /\ Follows(l)
            /\ stream[r].held # 0 => stream[r].held = m
            /\ l # <<>> => ~stream[r].stop /\ l[Len(l)] = Latest(stream[r], m, i)
        BY <2>1, <3>5 DEF Given
      <4>2. CASE m = m2
        BY <4>1, <4>2
      <4>3. CASE m # m2
        BY <2>4, <2>5, <4>1, <4>3
      <4> QED BY <4>2, <4>3
    <3>6. Latest(stream'[r], m2, i) = Latest(stream[r], m2, i)
      BY <3>1 DEF Latest
    <3> QED BY <3>1, <3>2, <3>3, <3>4, <3>5, <3>6 DEF Given
  <2> QED
    BY <2>6 DEF m2, l
<1> QED
  BY <1>7, <1>8, <1>9, <1>10, <1>11 DEF IInv

LEMMA NextIInv ==
  ASSUME IInv, Assumption, [Next]_vars
  PROVE  IInv' /\ (Logs /\ FramesOnce => Logs')
<1>1. CASE begin \/ quiet \/ collect
  BY <1>1, Beginning, Quiet, Collecting
<1>2. ASSUME NEW r \in Readers,
             event(r) \/ deliverFrame(r) \/ specificReaderConfig(r) \/ specificReaderDelete(r)
      PROVE  IInv' /\ (Logs /\ FramesOnce => Logs')
  BY <1>2, Event, Delivers, ReaderConfig, ReaderDelete
<1>3. ASSUME NEW i \in Ids, NEW r \in Readers,
             askNext(i, r) \/ askAgain(i, r) \/ enough(i, r)
      PROVE  IInv' /\ (Logs => Logs')
  BY <1>3, ClientsAsk, Enough
<1>4. ASSUME NEW i \in Ids,
             \/ addRTPConnection(i) \/ addRTSPConnection(i) \/ removeConnection(i)
             \/ play(i) \/ teardown(i)
      PROVE  IInv' /\ (Logs => Logs')
  BY <1>4, AddRTP, AddRTSP, ClientsGo, Playing
<1>5. CASE UNCHANGED vars
  BY <1>5 DEF vars, IInv, TypeOK, Used, Counted, holding, Sources, Logs
<1> QED
  BY <1>1, <1>2, <1>3, <1>4, <1>5 DEF Next

-----------------------------------------------------------------------------
(* specificReaderDelete, doProcessFrame: whatever clients and readers do,  *)
(* the worker waits for exactly the sources that point at a frame, points  *)
(* at none between its calls, and nobody uses a source that was closed.    *)
THEOREM WaitsForFrames == ASSUME Assumption PROVE Spec => []FramesCounted
<1>1. Init => IInv
  BY InitIInv
<1>2. IInv /\ [Next]_vars => IInv'
  BY NextIInv
<1>3. IInv => FramesCounted
  BY DEF IInv, FramesCounted, Used, Counted, holding, NoClosedSource, active
<1> QED
  BY <1>1, <1>2, <1>3, PTL DEF Spec

(* QueueSource: if every source looks whether its frame was processed, as  *)
(* all but those of H.264 and H.265 do, each client is given each frame    *)
(* once and in order, and misses none while nobody leaves.                 *)
THEOREM ClientsServed == ASSUME Assumption, FramesOnce PROVE Spec => []OnceInOrder
<1>1. Init => IInv /\ Logs
  BY InitIInv
<1>2. IInv /\ Logs /\ [Next]_vars => (IInv /\ Logs)'
  BY NextIInv
<1>3. ASSUME IInv, Logs PROVE OnceInOrder
  <2> SUFFICES ASSUME NEW i \in Ids, NEW r \in Readers,
                      NEW k \in 1 .. Len(log[<<i, r>>]) - 1
               PROVE  /\ log[<<i, r>>][k] < log[<<i, r>>][k + 1]
                      /\ r \notin left => log[<<i, r>>][k + 1] = log[<<i, r>>][k] + 1
    BY DEF OnceInOrder
  <2>1. Given(stream[r], Delivered(stream[r], made[r]), i, log[<<i, r>>], r, left)
    BY <1>3 DEF Logs
  <2>2. Len(log[<<i, r>>]) \in Nat
    BY <1>3, LenProperties DEF IInv, TypeOK
  <2>3. k \in 1 .. Len(log[<<i, r>>]) /\ k + 1 \in 1 .. Len(log[<<i, r>>]) /\ k < k + 1
    BY <2>2
  <2> QED
    BY <2>1, <2>3 DEF Given, Rises, Follows
<1> QED
  BY <1>1, <1>2, <1>3, PTL DEF Spec
-----------------------------------------------------------------------------
(***************************************************************************)
(* The packets.  What the sampler has gathered is the picture that is      *)
(* open; the fragmenter has the last one that was delivered, whole, and a  *)
(* header that says so; and every packet is of the frame it says it is.    *)
(***************************************************************************)
RtpAssumption == PacketsAssumption /\ Progressive

Dimensions == Int \X Int

Frames == [bytes : Nat \ {0}, wh : Dimensions, slices : Nat]

Fragmenters == [unit : Nat, fNumValidDataBytes : Nat, fCurDataOffset : Nat,
                fBufferIDx : Nat, time : Nat,
                header : [id : Nat, length : Nat, wh : Dimensions]]

PacketsTypeOK ==
  /\ payload \in Payloads /\ pictures \in Nat /\ sent \in Seq(Nat)
  /\ units \in Seq(Frames)
  /\ Len(units) \in {pictures, pictures + 1}
  /\ source = <<>> \/ source = <<Head(source)>>
  /\ sampler \in [bytes : Nat, wh : Dimensions]
  /\ fragmenter \in Fragmenters
  /\ received \subseteq packets

delimited == source # <<>> /\ Head(source).type = "AUD"

(* What the sampler gathered is the picture that is open, up to the unit   *)
(* that it is about to get, or the one that is ended.                      *)
Sampled ==
  LET last == units[Len(units)]
      now == [bytes |-> last.bytes, wh |-> last.wh]
  IN isVideo =>
       /\ source = <<>> /\ isOpen => sampler = now
       /\ source = <<>> /\ ~isOpen => sampler = [bytes |-> 0, wh |-> sizeBefore]
       /\ delimited => pictures > 0 /\ ~isOpen /\ sampler = now
       /\ source # <<>> /\ ~delimited => isOpen /\ append(Head(source)) = now

(* The last picture that went on to the fragmenter.                        *)
lastSampled == IF delimited THEN pictures - 1 ELSE pictures

Fragmenting ==
  LET f == fragmenter
      picture == units[f.unit]
  IN isVideo =>
       /\ sent # <<>> => validVideoSize
       /\ f.fNumValidDataBytes = 0 =>
            f.fCurDataOffset = 0 /\ (sent # <<>> => sent[Len(sent)] = lastSampled)
       /\ f.fNumValidDataBytes > 0 =>
            /\ validVideoSize
            /\ f.unit = lastSampled /\ f.unit > 0 /\ f.time = f.unit + 1
            /\ sent # <<>> => sent[Len(sent)] = lastSampled - 1
            /\ f.fNumValidDataBytes = picture.bytes /\ sampler.wh = picture.wh
            /\ f.fCurDataOffset < picture.bytes
            /\ f.fCurDataOffset > 0 =>
                 f.header = [id |-> f.fBufferIDx, length |-> picture.bytes, wh |-> picture.wh]

Sounding ==
  ~isVideo =>
    /\ Len(units) = pictures /\ \A k \in DOMAIN units : units[k].wh = NoSize
    /\ payload = "MPEG4" => \A k \in DOMAIN units : units[k].bytes < 8192
    /\ source = <<>> => (sent # <<>> => sent[Len(sent)] = pictures)
    /\ source # <<>> =>
         /\ pictures > 0 /\ Head(source).size = units[pictures].bytes
         /\ sent # <<>> => sent[Len(sent)] = pictures - 1

OfUnit(p) ==
  /\ p.unit \in 1 .. pictures
  /\ p.length = units[p.unit].bytes /\ p.wh = units[p.unit].wh
  /\ p.from = p.offset /\ p.marker = (p.to = p.length) /\ p.to - p.from <= MaxSize
  /\ p.time = IF isVideo THEN p.unit + 1 ELSE p.unit

(* What a packet is told apart by.                                         *)
Numbered ==
  /\ \A p \in packets :
       /\ payload = "UltraGridV" =>
            /\ p.id \in 0 .. fragmenter.fBufferIDx
            /\ p.id = fragmenter.fBufferIDx =>
                 fragmenter.fNumValidDataBytes > 0 /\ p.unit = fragmenter.unit
       /\ payload = "UltraGridA" => p.id \in 0 .. fragmenter.fBufferIDx - 1
       /\ payload = "MPEG4" => p.id = p.unit
  /\ \A p, q \in packets : p.id = q.id => p.unit = q.unit

SentInTurn == \A k \in 1 .. Len(sent) - 1 : sent[k + 1] = sent[k] + 1

PacketsInv ==
  /\ PacketsTypeOK /\ Sampled /\ Fragmenting /\ Sounding
  /\ \A p \in packets : OfUnit(p)
  /\ Numbered /\ SentInTurn

LEMMA SizeTaken ==
  ASSUME RtpAssumption, NEW s \in Sets, NEW wh
  PROVE  updateSPSInfo(s, wh) = TrueSize(s) /\ TrueSize(s) \in Dimensions
<1>1. /\ s.mbs \in Nat /\ s.units \in Nat /\ s.mbsOnly \in {0, 1}
      /\ s.crop[1] \in Nat /\ s.crop[2] \in Nat /\ s.crop[3] \in Nat /\ s.crop[4] \in Nat
      /\ 2 * (s.crop[1] + s.crop[2]) < s.mbs * 16
      /\ 2 * (s.crop[3] + s.crop[4]) < s.units * 16
      /\ s.mbsOnly = 1 \/ s.crop[3] + s.crop[4] = 0
  BY DEF RtpAssumption, PacketsAssumption, Progressive
<1> DEFINE width == s.mbs * 16 - (s.crop[1] * 2 + s.crop[2] * 2)
           height == (2 - s.mbsOnly) * s.units * 16 - (s.crop[3] * 2 + s.crop[4] * 2)
           trueHeight == (2 - s.mbsOnly) * (s.units * 16 - 2 * (s.crop[3] + s.crop[4]))
<1>2. width = s.mbs * 16 - 2 * (s.crop[1] + s.crop[2]) /\ width > 0 /\ width \in Int
  BY <1>1
<1>3. height = trueHeight /\ height > 0 /\ height \in Int
  <2>1. CASE s.mbsOnly = 1
    BY <1>1, <2>1
  <2>2. CASE s.mbsOnly = 0
    BY <1>1, <2>2
  <2> QED BY <1>1, <2>1, <2>2
<1>4. TrueSize(s) = <<width, height>>
  BY <1>2, <1>3 DEF TrueSize
<1>5. updateSPSInfo(s, wh) = <<IF width > 0 THEN width ELSE wh[1],
                               IF height > 0 THEN height ELSE wh[2]>>
  BY DEF updateSPSInfo
<1> HIDE DEF width, height
<1> QED BY <1>2, <1>3, <1>4, <1>5 DEF Dimensions

LEMMA FrameIs ==
  ASSUME NEW bytes \in Nat \ {0}, NEW wh \in Dimensions, NEW n \in Nat
  PROVE  [bytes |-> bytes, wh |-> wh, slices |-> n] \in Frames
BY DEF Frames

LEMMA RecordGrows ==
  ASSUME NEW b, NEW w, NEW n, NEW f, f = [bytes |-> b, wh |-> w, slices |-> n], NEW more,
         NEW g, g = [f EXCEPT !.bytes = @ + more, !.slices = @ + 1]
  PROVE  g = [bytes |-> b + more, wh |-> w, slices |-> n + 1]
OBVIOUS

LEMMA FrameGrows ==
  ASSUME NEW f \in Frames, NEW more \in Nat,
         NEW g, g = [f EXCEPT !.bytes = @ + more, !.slices = @ + 1]
  PROVE  g \in Frames /\ g.bytes = f.bytes + more /\ g.wh = f.wh
<1>1. /\ f = [bytes |-> f.bytes, wh |-> f.wh, slices |-> f.slices]
      /\ f.bytes \in Nat \ {0} /\ f.wh \in Dimensions /\ f.slices \in Nat
  BY DEF Frames
<1>2. g = [bytes |-> f.bytes + more, wh |-> f.wh, slices |-> f.slices + 1]
  BY <1>1, RecordGrows
<1>3. f.bytes + more \in Nat \ {0} /\ f.slices + 1 \in Nat
  BY <1>1
<1>4. g \in Frames
  BY <1>1, <1>2, <1>3 DEF Frames
<1> QED BY <1>2, <1>4

LEMMA FrameAppended ==
  ASSUME NEW f \in Frames, NEW s \in Seq(Frames)
  PROVE  /\ Append(s, f) \in Seq(Frames) /\ Len(Append(s, f)) = Len(s) + 1
         /\ Append(s, f)[Len(s) + 1] = f
         /\ \A k \in 1 .. Len(s) : Append(s, f)[k] = s[k]
OBVIOUS

LEMMA FrameReplaced ==
  ASSUME NEW f \in Frames, NEW s \in Seq(Frames), s # <<>>
  PROVE  LET t == [s EXCEPT ![Len(s)] = f]
         IN /\ t \in Seq(Frames) /\ Len(t) = Len(s) /\ t[Len(s)] = f
            /\ \A k \in 1 .. Len(s) - 1 : t[k] = s[k]
OBVIOUS

LEMMA PacketsStart == ASSUME RtpAssumption PROVE PacketsInit => PacketsInv
<1> SUFFICES ASSUME PacketsInit PROVE PacketsInv
  OBVIOUS
<1> USE DEF PacketsInit
<1>1. PacketsTypeOK
  BY DEF PacketsTypeOK, Fragmenters, Dimensions, NoSize, NoHeader
<1>2. Sampled
  BY DEF Sampled, isOpen, sizeBefore, delimited, NoSize
<1>3. Fragmenting /\ Sounding
  BY DEF Fragmenting, Sounding
<1>4. (\A p \in packets : OfUnit(p)) /\ Numbered /\ SentInTurn
  BY DEF Numbered, SentInTurn
<1> QED BY <1>1, <1>2, <1>3, <1>4 DEF PacketsInv

(* What arrives from the source changes nothing of the pictures that are   *)
(* ended, of which the fragments and the packets are.                      *)
LEMMA ArrivalKeeps ==
  ASSUME PacketsInv, source = <<>>,
         UNCHANGED <<payload, sampler, validVideoSize, fragmenter, packets, received, sent>>,
         pictures' \in Nat, pictures <= pictures',
         \A k \in 1 .. pictures : units'[k] = units[k],
         isVideo => lastSampled' = pictures
  PROVE  Fragmenting' /\ (\A p \in packets' : OfUnit(p)') /\ Numbered' /\ SentInTurn'
<1> USE DEF PacketsInv, PacketsTypeOK
<1>1. lastSampled = pictures /\ isVideo' = isVideo
  BY DEF lastSampled, delimited, isVideo
<1>2. Fragmenting'
  <2> SUFFICES ASSUME isVideo PROVE Fragmenting'
    BY <1>1 DEF Fragmenting
  <2>1. fragmenter.fNumValidDataBytes > 0 => fragmenter.unit \in 1 .. pictures
    BY <1>1 DEF Fragmenting
  <2>2. fragmenter.fNumValidDataBytes > 0 => units'[fragmenter.unit] = units[fragmenter.unit]
    BY <2>1
  <2> QED BY <1>1, <2>2 DEF Fragmenting
<1>3. ASSUME NEW p \in packets' PROVE OfUnit(p)'
  <2>1. p \in packets /\ OfUnit(p)
    OBVIOUS
  <2>2. p.unit \in 1 .. pictures /\ p.unit \in 1 .. pictures'
    BY <2>1 DEF OfUnit
  <2> QED BY <2>1, <2>2, <1>1 DEF OfUnit
<1>4. Numbered' /\ SentInTurn'
  BY DEF Numbered, SentInTurn
<1> QED BY <1>2, <1>3, <1>4

LEMMA ParameterSetStep ==
  ASSUME RtpAssumption, PacketsInv, NEW s \in Sets, parameterSet(s)
  PROVE  PacketsInv'
<1> USE DEF PacketsInv, PacketsTypeOK
<1> DEFINE nal == [type |-> "SPS", size |-> 2, sps |-> s]
           unit == [bytes |-> 2 + NAL_START_SIZE, wh |-> TrueSize(s), slices |-> 0]
<1>1. /\ isVideo /\ isVideo' /\ Len(units) = pictures /\ source = <<>> /\ source' = <<nal>>
      /\ UNCHANGED <<payload, sampler, validVideoSize, fragmenter, packets, received, sent,
                     pictures>>
      /\ units' = Append(units, unit)
  BY DEF parameterSet, arrives, isOpen, isVideo
<1>2. unit \in Frames
  <2> HIDE DEF PacketsInv
  <2>1. 2 + NAL_START_SIZE \in Nat \ {0}
    BY DEF NAL_START_SIZE
  <2> QED BY <2>1, SizeTaken, FrameIs
<1>3. /\ units' \in Seq(Frames)
      /\ Len(units') = pictures + 1 /\ units'[pictures + 1] = unit
      /\ \A k \in 1 .. pictures : units'[k] = units[k]
  <2>1. units \in Seq(Frames) /\ Len(units) = pictures /\ units' = Append(units, unit)
    BY <1>1
  <2> HIDE DEF unit, PacketsInv, PacketsTypeOK
  <2> QED BY <2>1, <1>2, FrameAppended
<1>4. ~delimited' /\ lastSampled' = pictures /\ Head(source') = nal
  BY <1>1 DEF delimited, lastSampled
<1>5. PacketsTypeOK'
  BY <1>1, <1>3, <1>4
<1>6. append(nal)' = [bytes |-> unit.bytes, wh |-> unit.wh]
  <2>1. sampler.bytes = 0
    BY <1>1 DEF Sampled, isOpen
  <2>2. append(nal)' = [bytes |-> sampler'.bytes + 2 + NAL_START_SIZE,
                        wh |-> updateSPSInfo(s, sampler'.wh)]
    BY DEF append
  <2> QED BY <2>1, <2>2, <1>1, SizeTaken DEF NAL_START_SIZE
<1>7. Sampled'
  BY <1>1, <1>3, <1>4, <1>6 DEF Sampled, isOpen
<1>8. Sounding'
  BY <1>1 DEF Sounding
<1> HIDE DEF nal, unit
<1> QED BY <1>1, <1>3, <1>4, <1>5, <1>7, <1>8, ArrivalKeeps

LEMMA SliceStep ==
  ASSUME RtpAssumption, PacketsInv, NEW size \in SliceSizes, slice(size)
  PROVE  PacketsInv'
<1> USE DEF PacketsInv, PacketsTypeOK
<1> DEFINE nal == [type |-> "slice", size |-> size]
           last == units[Len(units)]
<1>1. /\ isVideo /\ isVideo' /\ source = <<>> /\ source' = <<nal>> /\ size \in Nat \ {0}
      /\ UNCHANGED <<payload, sampler, validVideoSize, fragmenter, packets, received, sent,
                     pictures>>
  BY DEF slice, arrives, isVideo, RtpAssumption, PacketsAssumption
<1>2. ~delimited' /\ lastSampled' = pictures /\ Head(source') = nal
  BY <1>1 DEF delimited, lastSampled
<1>3. append(nal)' = [bytes |-> sampler.bytes + size + NAL_START_SIZE, wh |-> sampler.wh]
  BY <1>1 DEF append
<1>4. /\ units' \in Seq(Frames) /\ Len(units') = pictures + 1
      /\ \A k \in 1 .. pictures : units'[k] = units[k]
      /\ units'[pictures + 1].bytes = sampler.bytes + size + NAL_START_SIZE
      /\ units'[pictures + 1].wh = sampler.wh
  <2>1. size + NAL_START_SIZE \in Nat \ {0}
    BY <1>1 DEF NAL_START_SIZE
  <2>2. CASE isOpen
    <3>1. Len(units) = pictures + 1 /\ units # <<>>
      BY <2>2 DEF isOpen
    <3>2. last \in Frames
      BY <3>1
    <3>3. sampler.bytes = last.bytes /\ sampler.wh = last.wh
      BY <1>1, <2>2 DEF Sampled
    <3> DEFINE added == size + NAL_START_SIZE
               more == [last EXCEPT !.bytes = @ + added, !.slices = @ + 1]
    <3>4. last.bytes + size + NAL_START_SIZE = last.bytes + (size + NAL_START_SIZE)
      <4>1. last.bytes \in Nat
        BY <3>2 DEF Frames
      <4> HIDE DEF last, PacketsInv
      <4> QED BY <4>1, <1>1 DEF NAL_START_SIZE
    <3>5. units' = [units EXCEPT ![Len(units)] = more]
      BY <2>2, <3>4 DEF slice, Last
    <3>6. more \in Frames /\ more.bytes = last.bytes + (size + NAL_START_SIZE)
          /\ more.wh = last.wh
      <4>1. added \in Nat /\ more = [last EXCEPT !.bytes = @ + added, !.slices = @ + 1]
        BY <2>1
      <4>2. added = size + NAL_START_SIZE
        OBVIOUS
      <4> HIDE DEF more, last, added, PacketsInv, PacketsTypeOK
      <4>3. more \in Frames /\ more.bytes = last.bytes + added /\ more.wh = last.wh
        BY <4>1, <3>2, FrameGrows
      <4> QED BY <4>2, <4>3
    <3> HIDE DEF more, last
    <3>7. /\ units' \in Seq(Frames) /\ Len(units') = Len(units) /\ units'[Len(units)] = more
          /\ \A k \in 1 .. Len(units) - 1 : units'[k] = units[k]
      BY <3>1, <3>5, <3>6, FrameReplaced
    <3> QED BY <3>1, <3>3, <3>4, <3>6, <3>7
  <2>3. CASE ~isOpen
    <3>1. Len(units) = pictures
      BY <2>3 DEF isOpen
    <3>2. sampler.bytes = 0 /\ sampler.wh = sizeBefore /\ sizeBefore \in Dimensions
      BY <1>1, <2>3 DEF Sampled
    <3> DEFINE unit == [bytes |-> size + NAL_START_SIZE, wh |-> sizeBefore, slices |-> 1]
    <3>3. units' = Append(units, unit)
      BY <2>3 DEF slice
    <3>4. unit \in Frames /\ unit.bytes = size + NAL_START_SIZE /\ unit.wh = sizeBefore
      BY <2>1, <3>2, FrameIs
    <3>5. sampler.bytes + size + NAL_START_SIZE = size + NAL_START_SIZE
      BY <3>2, <1>1 DEF NAL_START_SIZE
    <3> HIDE DEF unit
    <3>6. /\ units' \in Seq(Frames) /\ Len(units') = pictures + 1 /\ units'[pictures + 1] = unit
          /\ \A k \in 1 .. pictures : units'[k] = units[k]
      BY <3>1, <3>3, <3>4, FrameAppended
    <3> QED BY <3>2, <3>4, <3>5, <3>6
  <2> QED BY <2>2, <2>3
<1>5. PacketsTypeOK'
  BY <1>1, <1>2, <1>4
<1>6. Sampled'
  BY <1>1, <1>2, <1>3, <1>4 DEF Sampled, isOpen
<1>7. Sounding'
  BY <1>1 DEF Sounding
<1> HIDE DEF nal
<1> QED BY <1>1, <1>2, <1>4, <1>5, <1>6, <1>7, ArrivalKeeps

LEMMA DelimiterStep == ASSUME RtpAssumption, PacketsInv, delimiter PROVE PacketsInv'
<1> USE DEF PacketsInv, PacketsTypeOK
<1>1. /\ isVideo /\ isVideo' /\ Len(units) = pictures + 1
      /\ source = <<>> /\ source' = <<[type |-> "AUD", size |-> 2]>>
      /\ UNCHANGED <<payload, sampler, validVideoSize, fragmenter, packets, received, sent,
                     units>>
      /\ pictures' = pictures + 1
  BY DEF delimiter, arrives, isOpen, isVideo
<1>2. delimited' /\ lastSampled' = pictures /\ pictures' \in Nat
  BY <1>1 DEF delimited, lastSampled
<1>3. PacketsTypeOK'
  BY <1>1
<1>4. Sampled'
  BY <1>1, <1>2 DEF Sampled, isOpen
<1>5. Sounding'
  BY <1>1 DEF Sounding
<1> QED BY <1>1, <1>2, <1>3, <1>4, <1>5, ArrivalKeeps

LEMMA SoundStep ==
  ASSUME RtpAssumption, PacketsInv, payload \in DOMAIN AudioSizes,
         NEW size \in AudioSizes[payload], sound(size)
  PROVE  PacketsInv'
<1> USE DEF PacketsInv, PacketsTypeOK
<1> DEFINE unit == [bytes |-> size, wh |-> NoSize, slices |-> 1]
<1>1. /\ ~isVideo /\ ~isVideo' /\ Len(units) = pictures
      /\ source = <<>> /\ source' = <<[type |-> "audio", size |-> size]>>
      /\ UNCHANGED <<payload, sampler, validVideoSize, fragmenter, packets, received, sent>>
      /\ units' = Append(units, unit) /\ pictures' = pictures + 1
  BY DEF sound, arrives, isVideo, Sounding
<1>2. size \in Nat \ {0} /\ (payload = "MPEG4" => size < 8192)
  <2> HIDE DEF PacketsInv, PacketsTypeOK
  <2>1. \A p \in DOMAIN AudioSizes : \A x \in AudioSizes[p] :
          x \in Nat \ {0} /\ (p = "MPEG4" => x < 8192)
    BY DEF RtpAssumption, PacketsAssumption
  <2> HIDE DEF unit, PacketsInv, PacketsTypeOK
  <2> QED BY <2>1
<1>3. unit \in Frames
  <2>1. NoSize \in Dimensions
    BY DEF NoSize, Dimensions
  <2> QED BY <1>2, <2>1, FrameIs
<1>4. /\ units' \in Seq(Frames)
      /\ Len(units') = pictures + 1 /\ units'[pictures + 1] = unit
      /\ \A k \in 1 .. pictures : units'[k] = units[k]
  <2>1. units \in Seq(Frames) /\ Len(units) = pictures /\ units' = Append(units, unit)
    BY <1>1
  <2> HIDE DEF unit, PacketsInv, PacketsTypeOK
  <2> QED BY <2>1, <1>3, FrameAppended
<1>5. PacketsTypeOK' /\ pictures' \in Nat
  BY <1>1, <1>4
<1>6. Sampled'
  BY <1>1 DEF Sampled
<1>7. Sounding'
  <2>1. \A k \in DOMAIN units' : k \in DOMAIN units \/ units'[k] = unit
    BY <1>1, <1>4
  <2>2. \A k \in DOMAIN units' :
          units'[k].wh = NoSize /\ (payload = "MPEG4" => units'[k].bytes < 8192)
    <3>1. ASSUME NEW k \in DOMAIN units, k \in DOMAIN units'
          PROVE  units'[k].wh = NoSize /\ (payload = "MPEG4" => units'[k].bytes < 8192)
      <4>1. k \in 1 .. pictures
        BY <1>1
      <4> QED BY <4>1, <1>1, <1>4 DEF Sounding
    <3> QED BY <3>1, <2>1, <1>2
  <2>3. sent # <<>> => sent[Len(sent)] = pictures
    BY <1>1 DEF Sounding
  <2>4. Head(source').size = units'[pictures'].bytes /\ pictures' > 0
    BY <1>1, <1>4
  <2>5. source' # <<>> /\ ~isVideo' /\ Len(units') = pictures' /\ pictures' - 1 = pictures
    BY <1>1, <1>4
  <2> HIDE DEF unit, PacketsInv, PacketsTypeOK
  <2> QED BY <2>2, <2>3, <2>4, <2>5, <1>1 DEF Sounding
<1> HIDE DEF unit
<1> QED BY <1>1, <1>4, <1>5, <1>6, <1>7, ArrivalKeeps

filled(f, n, b, t) == [f EXCEPT !.unit = n, !.fNumValidDataBytes = b, !.time = t]

LEMMA BufferFills ==
  ASSUME NEW f \in Fragmenters, NEW n, NEW b, NEW t
  PROVE  filled(f, n, b, t)
           = [unit |-> n, fNumValidDataBytes |-> b, fCurDataOffset |-> f.fCurDataOffset,
              fBufferIDx |-> f.fBufferIDx, time |-> t, header |-> f.header]
<1>1. PICK g : g = filled(f, n, b, t)
  OBVIOUS
<1>2. g = [unit |-> n, fNumValidDataBytes |-> b, fCurDataOffset |-> f.fCurDataOffset,
           fBufferIDx |-> f.fBufferIDx, time |-> t, header |-> f.header]
  BY <1>1 DEF Fragmenters, filled
<1> QED BY <1>1, <1>2

LEMMA SamplerStep == ASSUME RtpAssumption, PacketsInv, afterGettingFrame PROVE PacketsInv'
<1> DEFINE nal == Head(source)
           f == fragmenter
<1>1. /\ isVideo /\ isVideo' /\ source # <<>> /\ source' = <<>> /\ source = <<nal>>
      /\ f.fNumValidDataBytes = 0
      /\ UNCHANGED <<payload, packets, received, units, sent, pictures>>
  <2>1. /\ isVideo /\ source # <<>> /\ source' = Tail(source) /\ f.fNumValidDataBytes = 0
        /\ UNCHANGED <<payload, packets, received, units, sent, pictures>>
    BY DEF afterGettingFrame
  <2>2. source = <<nal>>
    BY <2>1 DEF PacketsInv, PacketsTypeOK
  <2>3. source' = <<>>
    BY <2>1, <2>2
  <2> QED BY <2>1, <2>2, <2>3 DEF isVideo
<1>2. /\ PacketsTypeOK /\ Sampled /\ Fragmenting /\ Sounding /\ Numbered /\ SentInTurn
      /\ \A p \in packets : OfUnit(p)
  BY DEF PacketsInv
<1>3. ~delimited' /\ lastSampled' = pictures
  BY <1>1 DEF delimited, lastSampled
<1>4. pictures \in Nat /\ units \in Seq(Frames) /\ Len(units) \in {pictures, pictures + 1}
  BY <1>2 DEF PacketsTypeOK
<1>5. Sounding' /\ SentInTurn' /\ \A p \in packets' : OfUnit(p)'
  BY <1>1, <1>2 DEF Sounding, SentInTurn, OfUnit
<1> HIDE DEF nal
<1>6. CASE nal.type # "AUD"
  <2>1. sampler' = append(nal) /\ UNCHANGED <<validVideoSize, fragmenter>>
    BY <1>6 DEF afterGettingFrame, nal
  <2>2. ~delimited /\ lastSampled = pictures
    BY <1>6 DEF delimited, lastSampled, nal
  <2> DEFINE last == units[Len(units)]
  <2>3. isOpen /\ sampler' = [bytes |-> last.bytes, wh |-> last.wh]
    BY <1>1, <1>2, <2>1, <2>2 DEF Sampled, nal
  <2>4. last \in Frames
    BY <1>4, <2>3 DEF isOpen
  <2>5. sampler' \in [bytes : Nat, wh : Dimensions]
    <3>1. last.bytes \in Nat /\ last.wh \in Dimensions
      BY <2>4 DEF Frames
    <3> HIDE DEF last
    <3> QED BY <3>1, <2>3
  <2>6. PacketsTypeOK'
    BY <1>1, <1>2, <2>1, <2>5 DEF PacketsTypeOK
  <2>7. Sampled'
    BY <1>1, <1>3, <2>3 DEF Sampled, isOpen
  <2>8. Fragmenting'
    BY <1>1, <1>2, <1>3, <2>1, <2>2 DEF Fragmenting
  <2>9. Numbered'
    BY <1>1, <1>2, <2>1 DEF Numbered
  <2> QED BY <1>5, <2>6, <2>7, <2>8, <2>9 DEF PacketsInv
<1>7. CASE nal.type = "AUD"
  <2>1. sampler' = [sampler EXCEPT !.bytes = 0] /\ fragmenter' = continuePlaying
    BY <1>7 DEF afterGettingFrame, nal
  <2>2. delimited /\ lastSampled = pictures - 1
    BY <1>1, <1>7 DEF delimited, lastSampled, nal
  <2> DEFINE last == units[pictures]
  <2>3. ~isOpen /\ pictures > 0 /\ Len(units) = pictures
    BY <1>1, <1>2, <1>4, <2>2 DEF Sampled, isOpen
  <2>4. last \in Frames /\ units # <<>>
    BY <1>4, <2>3
  <2>5. sampler = [bytes |-> last.bytes, wh |-> last.wh]
    BY <1>1, <1>2, <2>2, <2>3 DEF Sampled
  <2>6. sampler' = [bytes |-> 0, wh |-> last.wh]
    BY <2>1, <2>5
  <2>7. last.bytes \in Nat \ {0} /\ last.wh \in Dimensions
    BY <2>4 DEF Frames
  <2>8. /\ f.fCurDataOffset = 0 /\ (sent # <<>> => sent[Len(sent)] = pictures - 1)
        /\ sent # <<>> => validVideoSize
    BY <1>1, <1>2, <2>2 DEF Fragmenting
  <2>9. sizeBefore = last.wh
    BY <2>3, <2>4 DEF sizeBefore, Last
  <2>10. Sampled'
    <3>1. sizeBefore' = sizeBefore /\ ~isOpen'
      BY <1>1, <2>3 DEF sizeBefore, isOpen
    <3> HIDE DEF last
    <3> QED BY <1>1, <1>3, <2>6, <2>9, <3>1 DEF Sampled
  <2>11. f \in Fragmenters
    BY <1>2 DEF PacketsTypeOK
  <2>12. sampler' \in [bytes : Nat, wh : Dimensions]
    BY <2>6, <2>7
  <2>13. CASE validVideoSize
    <3>1. fragmenter' = [f EXCEPT !.unit = pictures, !.fNumValidDataBytes = last.bytes,
                                  !.time = pictures + 1]
      BY <2>1, <2>3, <2>5, <2>13 DEF continuePlaying, toFragmenter, delivered
    <3> HIDE DEF last, f
    <3>2. validVideoSize'
      BY <2>13, <1>7 DEF afterGettingFrame, nal
    <3>3. /\ fragmenter' \in Fragmenters
          /\ fragmenter'.unit = pictures /\ fragmenter'.fNumValidDataBytes = last.bytes
          /\ fragmenter'.time = pictures + 1 /\ fragmenter'.fCurDataOffset = 0
          /\ fragmenter'.fBufferIDx = f.fBufferIDx
      <4>1. fragmenter'
              = [unit |-> pictures, fNumValidDataBytes |-> last.bytes,
                 fCurDataOffset |-> f.fCurDataOffset, fBufferIDx |-> f.fBufferIDx,
                 time |-> pictures + 1, header |-> f.header]
        <5>1. fragmenter' = filled(f, pictures, last.bytes, pictures + 1)
          BY <3>1, Zenon DEF filled
        <5> QED BY <2>11, <5>1, BufferFills
      <4>2. last.bytes \in Nat /\ pictures + 1 \in Nat
        BY <1>4, <2>7
      <4> QED BY <1>4, <2>8, <2>11, <4>1, <4>2 DEF Fragmenters
    <3>4. PacketsTypeOK'
      BY <1>1, <1>2, <2>12, <3>3 DEF PacketsTypeOK
    <3>5. Fragmenting'
      <4>1. sampler'.wh = last.wh /\ units'[pictures] = last
        BY <1>1, <2>6 DEF last
      <4> QED BY <1>1, <1>3, <2>3, <2>7, <2>8, <3>2, <3>3, <4>1 DEF Fragmenting
    <3>6. Numbered'
      <4>1. payload = "UltraGridV" =>
              \A p \in packets : p.id \in 0 .. f.fBufferIDx /\ p.id # f.fBufferIDx
        BY <1>1, <1>2 DEF Numbered, f
      <4> QED BY <1>1, <1>2, <3>3, <4>1 DEF Numbered, f
    <3> QED BY <1>5, <2>10, <3>4, <3>5, <3>6 DEF PacketsInv
  <2>14. CASE ~validVideoSize
    <3>1. UNCHANGED fragmenter /\ sent = <<>>
      BY <2>1, <2>8, <2>14 DEF continuePlaying, toDummy
    <3>2. PacketsTypeOK'
      BY <1>1, <1>2, <2>12, <3>1 DEF PacketsTypeOK
    <3>3. Fragmenting'
      BY <1>1, <2>8, <3>1 DEF Fragmenting
    <3>4. Numbered'
      BY <1>1, <1>2, <3>1 DEF Numbered
    <3> QED BY <1>5, <2>10, <3>2, <3>3, <3>4 DEF PacketsInv
  <2> QED BY <2>13, <2>14
<1> QED BY <1>6, <1>7

taken(f, h, i, o, b) ==
  [f EXCEPT !.header = h, !.fBufferIDx = i, !.fCurDataOffset = o, !.fNumValidDataBytes = b]

LEMMA FragmentTaken ==
  ASSUME NEW f \in Fragmenters, NEW h, NEW i, NEW o, NEW b
  PROVE  taken(f, h, i, o, b)
           = [unit |-> f.unit, fNumValidDataBytes |-> b, fCurDataOffset |-> o,
              fBufferIDx |-> i, time |-> f.time, header |-> h]
<1>1. PICK g : g = taken(f, h, i, o, b)
  OBVIOUS
<1>2. g = [unit |-> f.unit, fNumValidDataBytes |-> b, fCurDataOffset |-> o,
           fBufferIDx |-> i, time |-> f.time, header |-> h]
  BY <1>1 DEF Fragmenters, taken
<1> QED BY <1>1, <1>2

(* A fragment fits into a packet and into what is left of its picture.     *)
LEMMA BytesOfFragment ==
  ASSUME RtpAssumption, NEW rest \in Nat \ {0}
  PROVE  numBytesToSend(rest) \in 1 .. rest /\ numBytesToSend(rest) <= MaxSize
BY DEF numBytesToSend, RtpAssumption, PacketsAssumption

LEMMA TurnAppended ==
  ASSUME SentInTurn, sent \in Seq(Nat), NEW n \in Nat,
         sent # <<>> => sent[Len(sent)] = n - 1, sent' = Append(sent, n)
  PROVE  /\ SentInTurn' /\ sent' \in Seq(Nat)
         /\ sent' # <<>> /\ sent'[Len(sent')] = n
<1>1. sent' \in Seq(Nat) /\ Len(sent') = Len(sent) + 1 /\ sent'[Len(sent) + 1] = n
      /\ \A k \in 1 .. Len(sent) : sent'[k] = sent[k]
  OBVIOUS
<1>2. ASSUME NEW k \in 1 .. Len(sent) PROVE sent'[k + 1] = sent'[k] + 1
  <2>1. CASE k = Len(sent)
    BY <1>1, <2>1
  <2>2. CASE k # Len(sent)
    <3>1. k \in 1 .. Len(sent) - 1 /\ k + 1 \in 1 .. Len(sent)
      BY <2>2
    <3> QED BY <1>1, <3>1 DEF SentInTurn
  <2> QED BY <2>1, <2>2
<1>3. Len(sent') - 1 = Len(sent) /\ sent' # <<>>
  BY <1>1
<1> QED BY <1>1, <1>2, <1>3 DEF SentInTurn

LEMMA FragmentStep == ASSUME RtpAssumption, PacketsInv, sendFragment PROVE PacketsInv'
<1> DEFINE f == fragmenter
           u == f.unit
           whole == units[u].bytes
           offset == f.fCurDataOffset
           n == numBytesToSend(whole - offset)
           done == offset + n = whole
           h == [id |-> f.fBufferIDx, length |-> whole, wh |-> units[u].wh]
<1>1. /\ isVideo /\ isVideo' /\ payload = "UltraGridV" /\ f.fNumValidDataBytes > 0
      /\ UNCHANGED <<payload, source, sampler, validVideoSize, received, units, pictures>>
  BY DEF sendFragment, isVideo
<1>2. /\ PacketsTypeOK /\ Sampled /\ Fragmenting /\ Sounding /\ Numbered /\ SentInTurn
      /\ \A q \in packets : OfUnit(q)
  BY DEF PacketsInv
<1>3. /\ f \in Fragmenters /\ pictures \in Nat /\ units \in Seq(Frames)
      /\ Len(units) \in {pictures, pictures + 1} /\ sent \in Seq(Nat)
  BY <1>2 DEF PacketsTypeOK
<1>4. /\ validVideoSize /\ u = lastSampled /\ u > 0 /\ f.time = u + 1
      /\ sent # <<>> => sent[Len(sent)] = u - 1
      /\ f.fNumValidDataBytes = whole /\ sampler.wh = units[u].wh /\ offset < whole
      /\ offset > 0 => f.header = h
  <2>1. /\ validVideoSize /\ u = lastSampled /\ u > 0 /\ f.time = u + 1
        /\ sent # <<>> => sent[Len(sent)] = lastSampled - 1
        /\ f.fNumValidDataBytes = whole /\ sampler.wh = units[u].wh /\ offset < whole
        /\ offset > 0 => f.header = h
    BY <1>1, <1>2 DEF Fragmenting
  <2> QED BY <2>1
<1>5. u \in 1 .. pictures /\ lastSampled' = lastSampled
  BY <1>1, <1>3, <1>4 DEF lastSampled, delimited, Fragmenters
<1>6. units[u] \in Frames /\ units'[u] = units[u]
  BY <1>1, <1>3, <1>5
<1>7. /\ whole \in Nat \ {0} /\ units[u].wh \in Dimensions /\ u \in Nat /\ offset \in Nat
      /\ f.fBufferIDx \in Nat /\ f.time \in Nat
  BY <1>3, <1>6 DEF Frames, Fragmenters
<1>8. header = h
  <2>1. offset # 0 => offset > 0
    BY <1>7
  <2> HIDE DEF whole
  <2>2. offset = 0 => header = [id |-> f.fBufferIDx, length |-> whole, wh |-> units[u].wh]
    BY <1>4 DEF header
  <2>3. offset # 0 => header = f.header
    BY DEF header
  <2> QED BY <1>4, <2>1, <2>2, <2>3
<1>9. /\ n \in Nat /\ n > 0 /\ n <= MaxSize /\ offset + n <= whole /\ offset + n \in Nat
  <2>1. whole - offset \in Nat \ {0} /\ MaxSize \in Nat
    BY <1>4, <1>7 DEF RtpAssumption, PacketsAssumption
  <2>2. n \in 1 .. (whole - offset) /\ n <= MaxSize
    BY <2>1, BytesOfFragment
  <2> HIDE DEF n, whole, offset
  <2> QED BY <1>7, <2>1, <2>2
<1> HIDE DEF n, h, done
<1>10. /\ packets' = packets \cup {packet(h, u, offset, n, done, f.time)}
       /\ fragmenter' = [f EXCEPT !.header = h, !.fBufferIDx = nextBuffer(f, done),
                                  !.fCurDataOffset = IF done THEN 0 ELSE @ + n,
                                  !.fNumValidDataBytes = IF done THEN 0 ELSE @]
       /\ sent' = IF done THEN Append(sent, u) ELSE sent
  <2>1. numBytesToSend(f.fNumValidDataBytes - f.fCurDataOffset) = n
    BY <1>4 DEF n
  <2>2. (offset + n = f.fNumValidDataBytes) = done
    BY <1>4 DEF done
  <2> QED BY <1>8, <2>1, <2>2 DEF sendFragment
<1>11. PICK p : p = packet(h, u, offset, n, done, f.time)
  OBVIOUS
<1>12. OfUnit(p)'
  <2>1. /\ p.unit = u /\ p.length = whole /\ p.wh = units[u].wh /\ p.from = offset
        /\ p.offset = offset /\ p.to = offset + n /\ p.time = u + 1
        /\ p.marker = done
    BY <1>4, <1>11 DEF packet, h
  <2>2. p.marker = (p.to = p.length)
    BY <2>1 DEF done
  <2>3. p.to - p.from <= MaxSize
    <3> HIDE DEF offset, whole
    <3>1. (offset + n) - offset = n
      BY <1>7, <1>9
    <3> QED BY <2>1, <3>1, <1>9
  <2>4. /\ p.unit \in 1 .. pictures' /\ p.length = units'[p.unit].bytes
        /\ p.wh = units'[p.unit].wh
    BY <1>1, <1>5, <1>6, <2>1
  <2>5. p.from = p.offset /\ p.time = p.unit + 1
    BY <2>1
  <2> QED BY <1>1, <2>2, <2>3, <2>4, <2>5 DEF OfUnit
<1>13. \A q \in packets' : OfUnit(q)'
  <2>1. ASSUME NEW q \in packets PROVE OfUnit(q)'
    <3>1. OfUnit(q)
      BY <1>2
    <3>2. OfUnit(q)' = OfUnit(q)
      BY <1>1 DEF OfUnit
    <3> QED BY <3>1, <3>2
  <2> QED BY <1>10, <1>11, <1>12, <2>1
<1>14. Sampled' /\ Sounding'
  BY <1>1, <1>2 DEF Sampled, Sounding, isOpen, sizeBefore, delimited, append
<1>15. p.id = f.fBufferIDx /\ p.unit = u /\ packets' = packets \cup {p}
  BY <1>10, <1>11 DEF packet, h
<1>16. /\ \A q \in packets : /\ q.id \in 0 .. f.fBufferIDx
                             /\ q.id = f.fBufferIDx => q.unit = u
       /\ \A q, r \in packets : q.id = r.id => q.unit = r.unit
  BY <1>1, <1>2 DEF Numbered
<1>17. h \in [id : Nat, length : Nat, wh : Dimensions]
  BY <1>7 DEF h
<1>18. source' = <<>> \/ source' = <<Head(source')>>
  BY <1>1, <1>2 DEF PacketsTypeOK
<1>19. /\ payload' \in Payloads /\ pictures' \in Nat /\ units' \in Seq(Frames)
       /\ Len(units') \in {pictures', pictures' + 1}
       /\ sampler' \in [bytes : Nat, wh : Dimensions] /\ received' \subseteq packets'
  BY <1>1, <1>2, <1>10 DEF PacketsTypeOK
<1>20. CASE done
  <2> DEFINE g == [unit |-> u, fNumValidDataBytes |-> 0, fCurDataOffset |-> 0,
                   fBufferIDx |-> f.fBufferIDx + 1, time |-> f.time, header |-> h]
  <2>1. fragmenter' = g
    <3>1. fragmenter' = [f EXCEPT !.header = h, !.fBufferIDx = f.fBufferIDx + 1,
                                  !.fCurDataOffset = 0, !.fNumValidDataBytes = 0]
      BY <1>10, <1>20 DEF nextBuffer
    <3>2. f \in Fragmenters
      BY <1>3
    <3>3. fragmenter' = taken(f, h, f.fBufferIDx + 1, 0, 0)
      BY <3>1, Zenon DEF taken
    <3> QED BY <3>2, <3>3, FragmentTaken
  <2>2. g \in Fragmenters
    BY <1>7, <1>17 DEF Fragmenters
  <2>3. SentInTurn' /\ sent' \in Seq(Nat) /\ sent' # <<>> /\ sent'[Len(sent')] = u
    BY <1>2, <1>3, <1>4, <1>7, <1>10, <1>20, TurnAppended
  <2>4. PacketsTypeOK'
    BY <1>18, <1>19, <2>1, <2>2, <2>3 DEF PacketsTypeOK
  <2>5. Fragmenting'
    BY <1>1, <1>4, <1>5, <2>1, <2>3 DEF Fragmenting
  <2>6. Numbered'
    <3>1. \A q \in packets' : /\ q.id \in 0 .. f.fBufferIDx
                              /\ q.id = f.fBufferIDx => q.unit = u
      BY <1>7, <1>15, <1>16
    <3>2. \A q \in packets' : q.id \in 0 .. f.fBufferIDx + 1 /\ q.id # f.fBufferIDx + 1
      BY <1>7, <3>1
    <3>3. \A q, r \in packets' : q.id = r.id => q.unit = r.unit
      BY <1>15, <1>16
    <3> QED BY <1>1, <2>1, <3>2, <3>3 DEF Numbered
  <2> QED BY <1>13, <1>14, <2>3, <2>4, <2>5, <2>6 DEF PacketsInv
<1>21. CASE ~done
  <2> DEFINE g == [unit |-> u, fNumValidDataBytes |-> whole, fCurDataOffset |-> offset + n,
                   fBufferIDx |-> f.fBufferIDx, time |-> f.time, header |-> h]
  <2>1. fragmenter' = g /\ sent' = sent
    <3>1. fragmenter' = [f EXCEPT !.header = h, !.fBufferIDx = f.fBufferIDx,
                                  !.fCurDataOffset = @ + n, !.fNumValidDataBytes = @]
      BY <1>10, <1>21 DEF nextBuffer
    <3>2. fragmenter' = [f EXCEPT !.header = h, !.fBufferIDx = f.fBufferIDx,
                                  !.fCurDataOffset = offset + n,
                                  !.fNumValidDataBytes = f.fNumValidDataBytes]
      BY <3>1, Zenon
    <3>3. fragmenter' = [f EXCEPT !.header = h, !.fBufferIDx = f.fBufferIDx,
                                  !.fCurDataOffset = offset + n,
                                  !.fNumValidDataBytes = whole]
      BY <1>4, <3>2
    <3>4. fragmenter' = g
      <4>1. f \in Fragmenters
        BY <1>3
      <4>2. fragmenter' = taken(f, h, f.fBufferIDx, offset + n, whole)
        BY <3>3, Zenon DEF taken
      <4> QED BY <4>1, <4>2, FragmentTaken
    <3>5. sent' = sent
      BY <1>10, <1>21
    <3> QED BY <3>4, <3>5
  <2>2. g \in Fragmenters
    BY <1>7, <1>9, <1>17 DEF Fragmenters
  <2>3. offset + n < whole
    BY <1>7, <1>9, <1>21 DEF done
  <2>4. PacketsTypeOK'
    BY <1>3, <1>18, <1>19, <2>1, <2>2 DEF PacketsTypeOK
  <2>5. Fragmenting'
    <3>1. /\ g.unit = u /\ g.fNumValidDataBytes = whole /\ g.fCurDataOffset = offset + n
          /\ g.fBufferIDx = f.fBufferIDx /\ g.time = f.time /\ g.header = h
      OBVIOUS
    <3>2. g.fNumValidDataBytes > 0
      BY <1>7
    <3> HIDE DEF g, offset
    <3> QED BY <1>1, <1>4, <1>5, <1>6, <2>1, <2>3, <3>1, <3>2 DEF Fragmenting, h
  <2>6. Numbered'
    <3>1. \A q \in packets' : /\ q.id \in 0 .. f.fBufferIDx
                              /\ q.id = f.fBufferIDx => q.unit = u
      BY <1>7, <1>15, <1>16
    <3>2. \A q, r \in packets' : q.id = r.id => q.unit = r.unit
      BY <1>15, <1>16
    <3>3. /\ g.unit = u /\ g.fNumValidDataBytes > 0 /\ g.fBufferIDx = f.fBufferIDx
      BY <1>7
    <3> QED BY <1>1, <2>1, <3>1, <3>2, <3>3 DEF Numbered
  <2>7. SentInTurn'
    BY <1>2, <2>1 DEF SentInTurn
  <2> QED BY <1>13, <1>14, <2>4, <2>5, <2>6, <2>7 DEF PacketsInv
<1> QED BY <1>20, <1>21

LEMMA FragmenterCounts ==
  ASSUME NEW f \in Fragmenters, NEW i
  PROVE  [f EXCEPT !.fBufferIDx = i]
           = [unit |-> f.unit, fNumValidDataBytes |-> f.fNumValidDataBytes,
              fCurDataOffset |-> f.fCurDataOffset, fBufferIDx |-> i, time |-> f.time,
              header |-> f.header]
<1>1. PICK g : g = [f EXCEPT !.fBufferIDx = i]
  OBVIOUS
<1>2. g = [unit |-> f.unit, fNumValidDataBytes |-> f.fNumValidDataBytes,
           fCurDataOffset |-> f.fCurDataOffset, fBufferIDx |-> i, time |-> f.time,
           header |-> f.header]
  BY <1>1 DEF Fragmenters
<1> QED BY <1>1, <1>2

(* A frame of audio of one piece fits into a packet.                       *)
LEMMA OnePiece ==
  ASSUME RtpAssumption, NEW size \in Nat \ {0}, pieces(size) = {0}
  PROVE  size <= MaxSize
<1> SUFFICES ASSUME size > MaxSize PROVE FALSE
  BY DEF RtpAssumption, PacketsAssumption
<1>1. MaxSize \in Nat \ {0}
  BY DEF RtpAssumption, PacketsAssumption
<1>2. MaxSize \in 0 .. size - 1 /\ MaxSize % MaxSize = 0
  BY <1>1
<1>3. MaxSize \in pieces(size)
  BY <1>2 DEF pieces
<1> QED BY <1>1, <1>3

(* What each piece of a frame of audio says.                               *)
LEMMA PieceSays ==
  ASSUME RtpAssumption, PacketsTypeOK, Sounding, ~isVideo, source # <<>>,
         payload = "UltraGridA" => pieces(Head(source).size) = {0},
         NEW from \in pieces(Head(source).size), NEW p, p = packetOf(from, Head(source).size)
  PROVE  /\ OfUnit(p) /\ p.unit = pictures
         /\ payload = "MPEG4" => p.id = pictures
         /\ payload # "MPEG4" => p.id = fragmenter.fBufferIDx
<1> DEFINE size == Head(source).size
           n == IF size - from > MaxSize THEN MaxSize ELSE size - from
           remaining == size - from - n
<1>1. /\ Len(units) = pictures /\ pictures > 0 /\ size = units[pictures].bytes
      /\ units[pictures].wh = NoSize
      /\ payload = "MPEG4" => size < 8192
  <2>1. Len(units) = pictures /\ pictures > 0 /\ size = units[pictures].bytes
    BY DEF Sounding
  <2>2. pictures \in DOMAIN units
    BY <2>1 DEF PacketsTypeOK
  <2> QED BY <2>1, <2>2 DEF Sounding
<1>2. size \in Nat \ {0} /\ pictures \in Nat /\ pictures \in 1 .. pictures
  <2>1. units[pictures] \in Frames
    BY <1>1 DEF PacketsTypeOK
  <2> QED BY <1>1, <2>1 DEF Frames, PacketsTypeOK
<1>3. from \in 0 .. size - 1 /\ MaxSize \in Nat \ {0}
  BY DEF pieces, RtpAssumption, PacketsAssumption
<1> HIDE DEF size
<1>4. /\ n \in Nat /\ n <= MaxSize /\ remaining \in Nat
      /\ from + n + remaining = size /\ (remaining = 0) = (from + n = size)
      /\ (from + n) - from = n
  BY <1>2, <1>3
<1>5. payload # "MPEG4" => payload = "UltraGridA" /\ from = 0 /\ n = size
  <2> SUFFICES ASSUME payload # "MPEG4" PROVE payload = "UltraGridA" /\ from = 0 /\ n = size
    OBVIOUS
  <2>1. payload = "UltraGridA"
    BY DEF isVideo, PacketsTypeOK, RtpAssumption, PacketsAssumption
  <2>2. pieces(size) = {0} /\ from \in pieces(size)
    BY <2>1 DEF size
  <2>3. size <= MaxSize
    BY <1>2, <2>2, OnePiece
  <2> QED BY <1>2, <1>3, <2>1, <2>2, <2>3
<1> HIDE DEF n, remaining
<1> DEFINE h == [id |-> IF payload = "MPEG4" THEN pictures ELSE fragmenter.fBufferIDx,
                 length |-> size, wh |-> NoSize]
<1>6. p = packet(h, pictures, from, n, remaining = 0, pictures)
  <2>1. CASE payload = "MPEG4"
    <3>1. (from + n + remaining) % 8192 = size
      <4>1. size \in Nat /\ size < 8192
        BY <1>1, <1>2, <2>1
      <4>2. size % 8192 = size
        BY <4>1
      <4> QED BY <1>4, <4>2
    <3>2. headerOfAAC(from, n, remaining) = h
      BY <2>1, <3>1 DEF headerOfAAC, fullFrameSize
    <3> QED BY <1>1, <2>1, <3>2 DEF packetOf, n, remaining, size
  <2>2. CASE payload # "MPEG4"
    <3>1. headerOfAudio(from, n) = h
      BY <1>5, <2>2 DEF headerOfAudio
    <3> QED BY <1>1, <2>2, <3>1 DEF packetOf, n, remaining, size
  <2> QED BY <2>1, <2>2
<1>7. /\ p.id = h.id /\ p.length = size /\ p.wh = NoSize /\ p.offset = from
      /\ p.unit = pictures /\ p.from = from /\ p.to = from + n /\ p.marker = (remaining = 0)
      /\ p.time = pictures
  BY <1>6 DEF packet
<1>8. OfUnit(p)
  <2>1. p.marker = (p.to = p.length)
    BY <1>4, <1>7
  <2>2. p.to - p.from <= MaxSize
    BY <1>4, <1>7
  <2>3. /\ p.unit \in 1 .. pictures /\ p.length = units[p.unit].bytes
        /\ p.wh = units[p.unit].wh
    BY <1>1, <1>2, <1>7
  <2>4. p.from = p.offset /\ p.time = p.unit
    BY <1>7
  <2> QED BY <2>1, <2>2, <2>3, <2>4 DEF OfUnit
<1> QED BY <1>7, <1>8

LEMMA AudioStep == ASSUME RtpAssumption, PacketsInv, sendAudio PROVE PacketsInv'
<1> DEFINE f == fragmenter
           cut == {packetOf(from, Head(source).size) : from \in pieces(Head(source).size)}
<1>1. /\ ~isVideo /\ ~isVideo' /\ source # <<>> /\ source' = <<>>
      /\ payload = "UltraGridA" => pieces(Head(source).size) = {0}
      /\ fragmenter' = [f EXCEPT !.fBufferIDx = f.fBufferIDx + 1]
      /\ UNCHANGED <<payload, sampler, validVideoSize, received, units, pictures>>
  BY DEF sendAudio, isVideo, nextBuffer
<1>2. packets' = packets \cup cut /\ sent' = Append(sent, Len(units))
  BY DEF sendAudio
<1>3. /\ PacketsTypeOK /\ Sampled /\ Fragmenting /\ Sounding /\ Numbered /\ SentInTurn
      /\ \A q \in packets : OfUnit(q)
  BY DEF PacketsInv
<1>4. /\ f \in Fragmenters /\ pictures \in Nat /\ sent \in Seq(Nat) /\ payload \in Payloads
  BY <1>3 DEF PacketsTypeOK
<1>5. /\ Len(units) = pictures
      /\ sent # <<>> => sent[Len(sent)] = pictures - 1
  BY <1>1, <1>3 DEF Sounding
<1>6. ASSUME NEW p \in cut
      PROVE  /\ OfUnit(p) /\ p.unit = pictures
             /\ payload = "MPEG4" => p.id = pictures
             /\ payload # "MPEG4" => p.id = f.fBufferIDx
  BY <1>1, <1>3, PieceSays
<1> HIDE DEF cut
<1>7. \A q \in packets' : OfUnit(q)'
  <2>1. ASSUME NEW q \in packets' PROVE OfUnit(q)'
    <3>1. OfUnit(q)
      BY <1>2, <1>3, <1>6
    <3>2. OfUnit(q)' = OfUnit(q)
      BY <1>1 DEF OfUnit
    <3> QED BY <3>1, <3>2
  <2> QED BY <2>1
<1>8. SentInTurn' /\ sent' \in Seq(Nat) /\ sent' # <<>> /\ sent'[Len(sent')] = pictures
  <2>1. sent' = Append(sent, pictures)
    BY <1>2, <1>5
  <2> QED BY <1>3, <1>4, <1>5, <2>1, TurnAppended
<1>9. fragmenter' \in Fragmenters /\ fragmenter'.fBufferIDx = f.fBufferIDx + 1
  <2>1. fragmenter' = [unit |-> f.unit, fNumValidDataBytes |-> f.fNumValidDataBytes,
              fCurDataOffset |-> f.fCurDataOffset, fBufferIDx |-> f.fBufferIDx + 1,
              time |-> f.time, header |-> f.header]
    BY <1>1, <1>4, FragmenterCounts
  <2> QED BY <1>4, <2>1 DEF Fragmenters
<1>10. PacketsTypeOK'
  BY <1>1, <1>2, <1>3, <1>8, <1>9 DEF PacketsTypeOK
<1>11. Sampled' /\ Fragmenting'
  BY <1>1 DEF Sampled, Fragmenting
<1>12. Sounding'
  BY <1>1, <1>3, <1>8 DEF Sounding
<1>13. Numbered'
  <2>1. f.fBufferIDx \in Nat
    BY <1>4 DEF Fragmenters
  <2>2. CASE payload = "MPEG4"
    <3>1. \A q \in packets' : q.id = q.unit
      BY <1>2, <1>3, <1>6, <2>2 DEF Numbered
    <3> QED BY <1>1, <2>2, <3>1 DEF Numbered
  <2>3. CASE payload # "MPEG4"
    <3>1. payload = "UltraGridA" /\ payload # "UltraGridV"
      BY <1>1, <1>4, <2>3 DEF isVideo, RtpAssumption, PacketsAssumption
    <3>2. \A q \in packets : q.id \in 0 .. f.fBufferIDx - 1
      BY <1>3, <3>1 DEF Numbered
    <3>3. \A q \in cut : q.id = f.fBufferIDx /\ q.unit = pictures
      BY <1>6, <2>3
    <3>4. \A q \in packets' : q.id \in 0 .. (f.fBufferIDx + 1) - 1
      BY <1>2, <2>1, <3>2, <3>3
    <3>5. \A q \in packets : q.id # f.fBufferIDx
      BY <2>1, <3>2
    <3>6. \A q, r \in packets' : q.id = r.id => q.unit = r.unit
      BY <1>2, <1>3, <3>3, <3>5 DEF Numbered
    <3> QED BY <1>1, <1>9, <3>1, <3>4, <3>6 DEF Numbered
  <2> QED BY <2>2, <2>3
<1> QED BY <1>7, <1>8, <1>10, <1>11, <1>12, <1>13 DEF PacketsInv

LEMMA ReceiveStep == ASSUME PacketsInv, receive PROVE PacketsInv'
<1>1. /\ UNCHANGED <<payload, source, sampler, validVideoSize, fragmenter, packets, units,
                     sent, pictures>>
      /\ received' \subseteq packets \cup received
  BY DEF receive
<1>2. /\ PacketsTypeOK /\ Sampled /\ Fragmenting /\ Sounding /\ Numbered /\ SentInTurn
      /\ \A q \in packets : OfUnit(q)
  BY DEF PacketsInv
<1>3. PacketsTypeOK'
  BY <1>1, <1>2 DEF PacketsTypeOK
<1>4. Sampled' /\ Sounding' /\ SentInTurn'
  BY <1>1, <1>2 DEF Sampled, Sounding, SentInTurn, isOpen, sizeBefore, delimited, append, isVideo
<1>5. Fragmenting' /\ Numbered'
  BY <1>1, <1>2 DEF Fragmenting, Numbered, lastSampled, delimited, isVideo
<1>6. ASSUME NEW q \in packets' PROVE OfUnit(q)'
  <2>1. OfUnit(q)
    BY <1>1, <1>2
  <2>2. OfUnit(q)' = OfUnit(q)
    BY <1>1 DEF OfUnit, isVideo
  <2> QED BY <2>1, <2>2
<1> QED BY <1>3, <1>4, <1>5, <1>6 DEF PacketsInv

LEMMA PacketsStutter == ASSUME PacketsInv, UNCHANGED packetsVars PROVE PacketsInv'
BY DEF packetsVars, PacketsInv, PacketsTypeOK, Sampled, Fragmenting, Sounding, OfUnit, Numbered,
       SentInTurn, isVideo, isOpen, sizeBefore, delimited, lastSampled, append

THEOREM PacketsInvariance == ASSUME RtpAssumption PROVE PacketsSpec => []PacketsInv
<1>1. PacketsInit => PacketsInv
  BY PacketsStart
<1>2. PacketsInv /\ [PacketsNext]_packetsVars => PacketsInv'
  <2> SUFFICES ASSUME PacketsInv, [PacketsNext]_packetsVars PROVE PacketsInv'
    OBVIOUS
  <2>1. ASSUME NEW s \in Sets, parameterSet(s) PROVE PacketsInv'
    BY <2>1, ParameterSetStep
  <2>2. ASSUME NEW size \in SliceSizes, slice(size) PROVE PacketsInv'
    BY <2>2, SliceStep
  <2>3. CASE delimiter
    BY <2>3, DelimiterStep
  <2>4. ASSUME payload \in DOMAIN AudioSizes, NEW size \in AudioSizes[payload], sound(size)
        PROVE  PacketsInv'
    BY <2>4, SoundStep
  <2>5. CASE afterGettingFrame
    BY <2>5, SamplerStep
  <2>6. CASE sendFragment
    BY <2>6, FragmentStep
  <2>7. CASE sendAudio
    BY <2>7, AudioStep
  <2>8. CASE receive
    BY <2>8, ReceiveStep
  <2>9. CASE UNCHANGED packetsVars
    BY <2>9, PacketsStutter
  <2> QED BY <2>1, <2>2, <2>3, <2>4, <2>5, <2>6, <2>7, <2>8, <2>9 DEF PacketsNext
<1> QED BY <1>1, <1>2, PTL DEF PacketsSpec

THEOREM AllReassembled == ASSUME RtpAssumption PROVE PacketsSpec => []Reassembled
<1>1. PacketsInv => Reassembled
  <2> SUFFICES ASSUME PacketsInv PROVE Reassembled
    OBVIOUS
  <2>1. /\ PacketsTypeOK /\ SentInTurn /\ Numbered /\ \A p \in packets : OfUnit(p)
    BY DEF PacketsInv
  <2>2. AllSent
    BY <2>1 DEF AllSent, SentInTurn, OfUnit
  <2>3. received \subseteq packets /\ pictures \in Nat
        /\ units \in Seq(Frames) /\ Len(units) \in {pictures, pictures + 1}
    BY <2>1 DEF PacketsTypeOK
  <2>4. ASSUME NEW first \in received
        PROVE  \E k \in DOMAIN units : \A p \in gathered(first.id) :
                 /\ p.unit = k /\ p.length = units[k].bytes /\ p.wh = units[k].wh
                 /\ p.from = p.offset /\ p.marker = (p.to = p.length)
                 /\ \A q \in gathered(first.id) : p.time = q.time
    <3>1. first \in packets /\ OfUnit(first)
      BY <2>1, <2>3
    <3>2. first.unit \in DOMAIN units
      BY <2>3, <3>1 DEF OfUnit
    <3>3. ASSUME NEW p \in gathered(first.id)
          PROVE  p \in packets /\ OfUnit(p) /\ p.unit = first.unit
      BY <2>1, <2>3, <3>1 DEF gathered, Numbered
    <3>4. ASSUME NEW p \in gathered(first.id)
          PROVE  /\ p.unit = first.unit
                 /\ p.length = units[first.unit].bytes /\ p.wh = units[first.unit].wh
                 /\ p.from = p.offset /\ p.marker = (p.to = p.length)
                 /\ \A q \in gathered(first.id) : p.time = q.time
      BY <3>3 DEF OfUnit
    <3> QED BY <3>2, <3>4
  <2> QED BY <2>2, <2>4 DEF Reassembled
<1>2. PacketsSpec => []PacketsInv
  BY PacketsInvariance
<1> QED BY <1>1, <1>2, PTL
=============================================================================
