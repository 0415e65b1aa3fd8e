---------------------------- MODULE SessionStats -----------------------------
(***************************************************************************)
(* What the receiver measures of a session (StreamClientState and          *)
(* SCSSubsessionStats of SourceManager.cpp): a periodic task of live555,   *)
(* begun with the first subsession, looks at what each has received and    *)
(* keeps the best and the worst loss of an interval; the state of the      *)
(* filter reports them with the average.  Rates are measured the same way  *)
(* and left out.  Packets arrive once the server was told to play, when    *)
(* all is set up, so sources start with nothing received.                  *)
(***************************************************************************)
EXTENDS Integers, FiniteSets, FiniteSetsExt

CONSTANTS
  Ports,        \* of the subsessions
  Interval,     \* statsMeasurementIntervalMS, in ticks
  Lateness,     \* by how much the worker may be late to run the scheduler
  MaxTime, MaxPackets  \* bounds

VARIABLES
  session,      \* "set up", "playing" or "removed"
  smsStats,     \* [a set of ports -> a record]: a map
  db,           \* [Ports -> what its source counts: packets expected and received]
  now,
  nextStatsMeasurementUSecs,
  task          \* when sessionStatsMeasurementTask is due, or None

None == -1

vars == <<session, smsStats, db, now, nextStatsMeasurementUSecs, task>>

Init ==
  /\ session = "set up" /\ smsStats = << >>
  /\ db = [p \in Ports |-> [expected |-> 0, received |-> 0]]
  /\ now = 0 /\ nextStatsMeasurementUSecs = 0 /\ task = None

-----------------------------------------------------------------------------
(* Fractions, as pairs.                                                    *)
less(a, b) == a[1] * b[2] < b[1] * a[2]

SCSSubsessionStats(p) ==
  [expected |-> db[p].expected, received |-> db[p].received,
   packetLossFractionMin |-> <<1, 1>>, packetLossFractionMax |-> <<0, 1>>]

lossFraction(expected, received) ==
  IF expected = 0 THEN <<0, 1>> ELSE <<expected - received, expected>>

(* Mutant of periodicStatMeasurement: an interval in which nothing was     *)
(* expected is not one.                                                    *)
skipsEmpty(s, d) ==
  LET f == lossFraction(d.expected - s.expected, d.received - s.received)
      b == d.expected > s.expected
  IN [expected |-> d.expected, received |-> d.received,
      packetLossFractionMin |->
        IF b /\ less(f, s.packetLossFractionMin) THEN f ELSE s.packetLossFractionMin,
      packetLossFractionMax |->
        IF b /\ less(s.packetLossFractionMax, f) THEN f ELSE s.packetLossFractionMax]

(* The loss since the last time; packets that come late make up for those  *)
(* that were missing before.                                               *)
periodicStatMeasurement(s, d) ==
  LET f == lossFraction(d.expected - s.expected, d.received - s.received) IN
  [expected |-> d.expected, received |-> d.received,
   packetLossFractionMin |->
     IF less(f, s.packetLossFractionMin) THEN f ELSE s.packetLossFractionMin,
   packetLossFractionMax |->
     IF less(s.packetLossFractionMax, f) THEN f ELSE s.packetLossFractionMax]

(* A delay that would be negative is none.                                 *)
scheduleNextStatsMeasurement(next) ==
  /\ nextStatsMeasurementUSecs' = next + Interval
  /\ task' = Max({now, next + Interval})

(* continueAfterSETUP, initiateSession: the time starts anew with every    *)
(* subsession, while the task goes on as it was scheduled.                 *)
addNewSubsessionStats(p) ==
  /\ session = "set up" /\ p \notin DOMAIN smsStats
  /\ smsStats' = [q \in DOMAIN smsStats \cup {p} |->
                    IF q = p THEN SCSSubsessionStats(p) ELSE smsStats[q]]
  /\ IF task = None THEN scheduleNextStatsMeasurement(now)
     ELSE nextStatsMeasurementUSecs' = now /\ UNCHANGED task
  /\ UNCHANGED <<session, db, now>>

play ==
  /\ session = "set up" /\ DOMAIN smsStats # {} /\ session' = "playing"
  /\ UNCHANGED <<smsStats, db, now, nextStatsMeasurementUSecs, task>>

periodicSubsessionStatsMeasurement ==
  /\ task # None /\ task <= now
  /\ smsStats' = [p \in DOMAIN smsStats |-> periodicStatMeasurement(smsStats[p], db[p])]
  /\ scheduleNextStatsMeasurement(nextStatsMeasurementUSecs)
  /\ UNCHANGED <<session, db, now>>

(* removeSession deletes the session with its subsessions' statistics, and *)
(* ~StreamClientState takes back the task.                                 *)
removeSession ==
  /\ session # "removed" /\ session' = "removed"
  /\ smsStats' = << >> /\ task' = None
  /\ UNCHANGED <<db, now, nextStatsMeasurementUSecs>>
-----------------------------------------------------------------------------
(* A packet arrives, after some that are missing, or one of those that     *)
(* were missing.                                                           *)
arrives(p, missing) ==
  /\ session = "playing" /\ p \in DOMAIN smsStats
  /\ db[p].expected + missing < MaxPackets
  /\ db' = [db EXCEPT ![p] = [expected |-> @.expected + missing + 1,
                              received |-> @.received + 1]]
  /\ UNCHANGED <<session, smsStats, now, nextStatsMeasurementUSecs, task>>

arrivesLate(p) ==
  /\ session = "playing" /\ db[p].received < db[p].expected
  /\ db' = [db EXCEPT ![p].received = @ + 1]
  /\ UNCHANGED <<session, smsStats, now, nextStatsMeasurementUSecs, task>>

tick ==
  /\ now < MaxTime /\ (task = None \/ now < task + Lateness)
  /\ now' = now + 1
  /\ UNCHANGED <<session, smsStats, db, nextStatsMeasurementUSecs, task>>

Next ==
  \/ \E p \in Ports : \/ addNewSubsessionStats(p) \/ arrivesLate(p)
                      \/ \E missing \in 0 .. 2 : arrives(p, missing)
  \/ play \/ periodicSubsessionStatsMeasurement \/ removeSession \/ tick

Spec == Init /\ [][Next]_vars
-----------------------------------------------------------------------------
(* What the state of the filter says of a subsession.                      *)
doGetState(p) ==
  LET s == smsStats[p]
      loss == IF s.expected = 0 THEN <<1, 1>>
              ELSE <<s.expected - s.received, s.expected>>
      avg == IF less(loss, <<0, 1>>) THEN <<0, 1>> ELSE loss
  IN [avg |-> avg, min |-> s.packetLossFractionMin,
      max |-> IF ~less(avg, <<1, 1>>) THEN <<1, 1>> ELSE s.packetLossFractionMax]

(* The average that is reported is between the extremes, whatever comes    *)
(* late and whenever subsessions are added; a subsession is measured as    *)
(* long as the session is there, by a task that is due in time.            *)
Statistics ==
  /\ \A p \in DOMAIN smsStats : LET said == doGetState(p) IN
       ~less(said.avg, said.min) /\ ~less(said.max, said.avg)
  /\ task # None <=> DOMAIN smsStats # {}
  /\ task # None => task <= now + Interval
=============================================================================
