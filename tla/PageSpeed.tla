------------------------------ MODULE PageSpeed ------------------------------
(***************************************************************************)
(* PageSpeed measurements of a verified site: asked for one at a time,     *)
(* taken from the stream under a lease, tried at most three times.         *)
(*                                                                         *)
(* Source: api/app/services/performance.py, worker/app/pagespeed/          *)
(* consumer.py, client.py, worker/app/reaper.py.                           *)
(*                                                                         *)
(* The claim commits by itself, before the measurement.  What comes of it  *)
(* is written whatever the row says by then.  A message whose claim finds  *)
(* nothing to take is acked, so after a death only the reaper brings the   *)
(* run back.                                                               *)
(***************************************************************************)
EXTENDS Integers, FiniteSets

CONSTANTS
    Run,           \* rows of performance_run, all of one site
    Consumer,      \* worker processes
    MaxTries,      \* 3 in the code
    MaxSetbacks    \* bound: consumers that die or outlast their lease

ASSUME PageSpeedAssumption == MaxTries \in Nat \ {0} /\ MaxSetbacks \in Nat

VARIABLES
    run,       \* [Run -> row]
    observed,  \* [Run -> it has its row of performance_observation]
    request,   \* [Run -> [1..MaxTries -> the performance.requested event before that try]]
    prober,    \* [Consumer -> the message in hand]
    setbacks

speedVars == <<run, observed, request, prober, setbacks>>

Active == {"queued", "running"}
Settled == {"completed", "failed"}
RunRow == [status : {"none"} \cup Active \cup Settled, attempts : 0..MaxTries, lease : BOOLEAN]
EventState == {"none", "new", "pending", "acked"}
Hands == {<<>>} \cup (Run \X (1..MaxTries) \X {"measuring", "acking"})

SpeedInit ==
    /\ run = [r \in Run |-> [status |-> "none", attempts |-> 0, lease |-> FALSE]]
    /\ observed = [r \in Run |-> FALSE]
    /\ request = [r \in Run |-> [n \in 1..MaxTries |-> "none"]]
    /\ prober = [c \in Consumer |-> <<>>]
    /\ setbacks = 0

\* create_run: one active run of the site (an index says so as well), queued
\* with its event.
CreateRun(r) ==
    /\ run[r].status = "none"
    /\ \A other \in Run : run[other].status \notin Active
    /\ run' = [run EXCEPT ![r].status = "queued"]
    /\ request' = [request EXCEPT ![r][1] = "new"]
    /\ UNCHANGED <<observed, prober, setbacks>>

Claimed(r) == run[r].attempts < MaxTries
              /\ \/ run[r].status = "queued"
                 \/ run[r].status = "running" /\ ~run[r].lease

Idle(c) == prober[c] = <<>>

\* A message is read, or taken over after a minute from whoever holds it, and
\* its run claimed; it is acked when there is nothing to claim.
TakeRequest(c, r, n) ==
    /\ Idle(c) /\ request[r][n] \in {"new", "pending"}
    /\ IF Claimed(r)
       THEN /\ run' = [run EXCEPT ![r] = [status |-> "running", attempts |-> @.attempts + 1, lease |-> TRUE]]
            /\ prober' = [prober EXCEPT ![c] = <<r, n, "measuring">>]
            /\ request' = [request EXCEPT ![r][n] = "pending"]
       ELSE /\ request' = [request EXCEPT ![r][n] = "acked"]
            /\ UNCHANGED <<run, prober>>
    /\ UNCHANGED <<observed, setbacks>>

Measuring(c, r) == ~Idle(c) /\ prober[c][1] = r /\ prober[c][3] = "measuring"

\* The row is written by id alone: a run somebody else has settled, too.
Settle(c, r, status) ==
    /\ run' = [run EXCEPT ![r].status = status, ![r].lease = FALSE]
    /\ prober' = [prober EXCEPT ![c][3] = "acking"]

\* The observation, unless the run has one, and the end of the run together.
Measured(c, r) ==
    /\ Measuring(c, r)
    /\ Settle(c, r, "completed")
    /\ observed' = [observed EXCEPT ![r] = TRUE]
    /\ UNCHANGED <<request, setbacks>>

\* The target is out of scope, or the provider refuses, is late or answers badly.
Refused(c, r) ==
    /\ Measuring(c, r)
    /\ Settle(c, r, "failed")
    /\ UNCHANGED <<request, observed, setbacks>>

AckRequest(c) ==
    /\ ~Idle(c) /\ prober[c][3] = "acking"
    /\ request' = [request EXCEPT ![prober[c][1]][prober[c][2]] = "acked"]
    /\ prober' = [prober EXCEPT ![c] = <<>>]
    /\ UNCHANGED <<run, observed, setbacks>>

\* The process dies, or the write fails: the message stays pending.
LoseConsumer(c) ==
    /\ ~Idle(c) /\ setbacks < MaxSetbacks
    /\ setbacks' = setbacks + 1
    /\ prober' = [prober EXCEPT ![c] = <<>>]
    /\ UNCHANGED <<run, observed, request>>

\* Two minutes pass.
LapseRun(r) ==
    /\ run[r].lease
    /\ run' = [run EXCEPT ![r].lease = FALSE]
    /\ IF \E c \in Consumer : Measuring(c, r)
       THEN setbacks < MaxSetbacks /\ setbacks' = setbacks + 1
       ELSE setbacks' = setbacks
    /\ UNCHANGED <<observed, request, prober>>

\* requeue_sql: the row and the event that will bring it back, in one statement.
Requeue(r) ==
    /\ run' = [run EXCEPT ![r].status = "queued"]
    /\ request' = [request EXCEPT ![r][run[r].attempts + 1] = "new"]

\* After the lease and five minutes more.
ReapRun(r) ==
    /\ run[r].status = "running" /\ ~run[r].lease
    /\ IF run[r].attempts < MaxTries
       THEN Requeue(r)
       ELSE run' = [run EXCEPT ![r].status = "failed"] /\ UNCHANGED request
    /\ UNCHANGED <<observed, prober, setbacks>>

SpeedNext ==
    \/ \E r \in Run : CreateRun(r) \/ LapseRun(r) \/ ReapRun(r)
    \/ \E c \in Consumer : AckRequest(c) \/ LoseConsumer(c)
    \/ \E c \in Consumer, r \in Run : Measured(c, r) \/ Refused(c, r)
    \/ \E c \in Consumer, r \in Run, n \in 1..MaxTries : TakeRequest(c, r, n)

\* Consumers read what is on the stream, a request to the provider ends, leases
\* lapse and the reaper sweeps.
SpeedFairness ==
    /\ \A c \in Consumer :
          /\ WF_speedVars(\E r \in Run, n \in 1..MaxTries : TakeRequest(c, r, n))
          /\ WF_speedVars(\E r \in Run : Measured(c, r) \/ Refused(c, r))
          /\ WF_speedVars(AckRequest(c))
    /\ \A r \in Run : WF_speedVars(LapseRun(r)) /\ WF_speedVars(ReapRun(r))

SpeedSpec == SpeedInit /\ [][SpeedNext]_speedVars /\ SpeedFairness
-----------------------------------------------------------------------------
(* Properties.                                                             *)

SpeedTypeOK ==
    /\ run \in [Run -> RunRow]
    /\ observed \in [Run -> BOOLEAN]
    /\ request \in [Run -> [1..MaxTries -> EventState]]
    /\ prober \in [Consumer -> Hands]
    /\ setbacks \in 0..MaxSetbacks

\* A measurement that was asked for ends, though the message of a dead consumer
\* is acked by the next that reads it; until then it keeps the site from another.
EveryMeasurementEnds ==
    \A r \in Run : run[r].status = "queued" ~> run[r].status \in Settled
=============================================================================
