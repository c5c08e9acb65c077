------------------------------ MODULE Routines ------------------------------
(***************************************************************************)
(* One routine of a site: its schedule, the runs the scheduler and people  *)
(* queue for it, and the consumers that claim, carry out and finish them.  *)
(*                                                                         *)
(* Source: api/app/services/routines.py, worker/app/routines/scheduler.py, *)
(* schedule.py and runner.py, worker/app/reaper.py.                        *)
(*                                                                         *)
(* A run is known by the minute it is for: (routine_id, scheduled_for) is  *)
(* unique.  The work of a run and the row that says it is done commit      *)
(* together; a failure, and a skip of a run that could not be claimed, is  *)
(* written by two statements of their own, the run first and the routine   *)
(* after it, and none of them asks for the status it overwrites.           *)
(***************************************************************************)
EXTENDS Integers, FiniteSets

CONSTANTS
    Runner,       \* consumer processes
    Horizon,      \* bound: minutes the clock runs through
    MaxRunAttempts,  \* MAX_RUN_ATTEMPTS, 3 in the code
    MaxFailures,  \* MAX_CONSECUTIVE_FAILURES, 5 in the code
    MaxRuns,      \* bound: runs queued
    MaxTroubles   \* bound: freezes, thaws, edits of the schedule and deaths of consumers

ASSUME RoutineAssumption ==
    /\ Horizon \in Nat /\ MaxRunAttempts \in Nat \ {0} /\ MaxFailures \in Nat \ {0}
    /\ MaxRuns \in Nat /\ MaxTroubles \in Nat

VARIABLES
    kind,      \* what the routine does
    clock,     \* the present minute
    switches,  \* freezes and thaws so far; losing the verification shuts the gate alike
    routine,   \* [enabled, next: next_run_at, failures: consecutive_failures, edits]
    run,       \* [Slot -> row of routine_run]
    message,   \* the unacked messages <<slot, number of the event>>
    runner,    \* [Runner -> the run it is at and where it stands]
    crawling,  \* a crawl of the site is queued or running
    made,      \* [Slot -> crawls, syncs, analyses, scans and reports its run left]
    billed,    \* [Slot -> model calls of its run]
    overrun,   \* the slots whose lease lapsed under a consumer still at work
    downs

routineVars == <<kind, clock, switches, routine, run, message, runner, crawling, made, billed,
                 overrun, downs>>

Slot == 0..Horizon
Kind == {"site_audit", "connector_sync", "keyword_refresh", "content_briefs", "competitor_scan",
         "ai_visibility_scan", "ai_citation_scan", "sitemap_coverage", "weekly_report"}
Done == {"completed", "skipped", "failed"}
RunRow == [status : {"none", "queued", "running"} \cup Done, attempts : 0..MaxRunAttempts,
        lease : BOOLEAN]
Position == [pc : {"idle", "collect", "work", "refused", "skip", "count", "reset", "ack"},
             slot : Slot, event : 1..(MaxRunAttempts + 1)]
Free == [pc |-> "idle", slot |-> 0, event |-> 1]
NoRun == [status |-> "none", attempts |-> 0, lease |-> FALSE]

\* The slot is every minute: next_occurrence after m.
NextOccurrence(m) == m + 1

RoutineInit ==
    /\ kind \in Kind
    /\ clock = 0 /\ switches = 0
    /\ routine = [enabled |-> TRUE, next |-> NextOccurrence(0), failures |-> 0, edits |-> 0]
    /\ run = [s \in Slot |-> NoRun]
    /\ message = {}
    /\ runner = [w \in Runner |-> Free]
    /\ crawling = FALSE
    /\ made = [s \in Slot |-> 0]
    /\ billed = [s \in Slot |-> 0]
    /\ overrun = {}
    /\ downs = 0

Troubled == switches + routine.edits + downs < MaxTroubles

\* The site is active, verified and not frozen.
GateOpen == switches % 2 = 0

-----------------------------------------------------------------------------
(* The site, the clock, people and the scheduler.                          *)

\* Nothing a consumer does reads the clock, so it moves between runs.
Tick ==
    /\ clock < Horizon /\ clock' = clock + 1
    /\ \A s \in Slot : run[s].status \notin {"queued", "running"}
    /\ UNCHANGED <<kind, switches, routine, run, message, runner, crawling, made, billed, overrun,
                   downs>>

SwitchGate ==
    /\ Troubled /\ switches' = switches + 1
    /\ UNCHANGED <<kind, clock, routine, run, message, runner, crawling, made, billed, overrun, downs>>

\* upsert: an edit anchors the schedule anew, and keeps the failures counted.
Upsert ==
    /\ GateOpen /\ Troubled
    /\ \E enabled \in BOOLEAN :
          routine' = [routine EXCEPT !.enabled = enabled, !.next = NextOccurrence(clock),
                                     !.edits = @ + 1]
    /\ UNCHANGED <<kind, clock, switches, run, message, runner, crawling, made, billed, overrun, downs>>

Queueable == Cardinality({s \in Slot : run[s].status # "none"}) < MaxRuns

\* trigger: a run of this minute, refused with 409 if there is one.
Trigger ==
    /\ GateOpen /\ run[clock].status = "none" /\ Queueable
    /\ run' = [run EXCEPT ![clock].status = "queued"]
    /\ message' = message \cup {<<clock, 1>>}
    /\ UNCHANGED <<kind, clock, switches, routine, runner, crawling, made, billed, overrun, downs>>

SkipReason == ~GateOpen \/ routine.failures >= MaxFailures

\* claim_due_routines: one transaction under the lock of the routine.  However
\* many slots have passed, only the oldest gets a run; advance_from_slot walks
\* to the first one after now.
Schedule ==
    LET slot == routine.next IN
    /\ routine.enabled /\ slot <= clock
    /\ Queueable \/ SkipReason \/ run[slot].status # "none"
    /\ routine' = [routine EXCEPT !.next = NextOccurrence(clock)]
    /\ IF run[slot].status # "none" THEN UNCHANGED <<run, message>>
       ELSE /\ run' = [run EXCEPT ![slot].status = IF SkipReason THEN "skipped" ELSE "queued"]
            /\ message' = IF SkipReason THEN message ELSE message \cup {<<slot, 1>>}
    /\ UNCHANGED <<kind, clock, switches, runner, crawling, made, billed, overrun, downs>>

-----------------------------------------------------------------------------
(* A consumer.                                                             *)

\* Mutant of AwaitingWork: the lease is not looked at.
AwaitingWorkWhileLeased(s) == run[s].status \in {"queued", "running"}
\* A run nobody works on: queued, or running under a lapsed lease.
AwaitingWork(s) == run[s].status = "queued" \/ (run[s].status = "running" /\ ~run[s].lease)

\* Mutant of Takeable: the attempts are not looked at.
TakeableForEver(s) == AwaitingWork(s) /\ GateOpen

Takeable(s) == AwaitingWork(s) /\ GateOpen /\ run[s].attempts < MaxRunAttempts

At(w, pc) == runner' = [runner EXCEPT ![w].pc = pc]

\* CLAIM_RUN_SQL, on a message that is new or that somebody kept for two minutes.
ClaimRun(w, m) ==
    LET s == m[1] IN
    /\ runner[w].pc = "idle" /\ m \in message /\ Takeable(s)
    /\ run' = [run EXCEPT ![s].status = "running", ![s].attempts = @ + 1, ![s].lease = TRUE]
    /\ runner' = [runner EXCEPT ![w] =
                     [pc |-> IF kind = "ai_citation_scan" THEN "collect" ELSE "work",
                      slot |-> s, event |-> m[2]]]
    /\ UNCHANGED <<kind, clock, switches, routine, message, crawling, made, billed, overrun, downs>>

RefuseRun(w, m) ==
    /\ runner[w].pc = "idle" /\ m \in message /\ ~Takeable(m[1])
    /\ runner' = [runner EXCEPT ![w] = [pc |-> "refused", slot |-> m[1], event |-> m[2]]]
    /\ UNCHANGED <<kind, clock, switches, routine, run, message, crawling, made, billed, overrun,
                   downs>>

\* _record_unclaimable: asks a second time what the claim had found.
Explain(w) ==
    LET s == runner[w].slot IN
    /\ runner[w].pc = "refused"
    /\ At(w, IF AwaitingWork(s) /\ (~GateOpen \/ run[s].attempts >= MaxRunAttempts)
             THEN "skip" ELSE "ack")
    /\ UNCHANGED <<kind, clock, switches, routine, run, message, crawling, made, billed, overrun,
                   downs>>

\* _finish, its first statement: whatever the row says by now.
Finished(s, status) ==
    [run EXCEPT ![s].status = status, ![s].lease = FALSE]

SkipRun(w) ==
    /\ runner[w].pc = "skip"
    /\ run' = Finished(runner[w].slot, "skipped")
    /\ At(w, "reset")
    /\ UNCHANGED <<kind, clock, switches, routine, message, crawling, made, billed, overrun, downs>>

\* _collect_citations: the models are asked before the transaction opens.
Collect(w) ==
    /\ runner[w].pc = "collect"
    /\ billed' = [billed EXCEPT ![runner[w].slot] = @ + 1]
    /\ At(w, "work")
    /\ UNCHANGED <<kind, clock, switches, routine, run, message, crawling, made, overrun, downs>>

\* What a transaction leaves.  A crawl is not queued beside another, nor a sync
\* beside that of the same window; a scan is inserted whatever there is, and the
\* rest is written over what there is of its window, its analysis, its day or its
\* period: a coverage report is of the day its crawl finished.
AuditLeaves(s) == IF crawling THEN made[s] ELSE made[s] + 1
SyncLeaves(s) == IF made[s] > 0 THEN made[s] ELSE 1
RefreshLeaves(s) == 1
BriefsLeave(s) == 1
CompetitorsLeave(s) == made[s] + 1
VisibilityLeaves(s) == 1
ScanLeaves(s) == made[s] + 1
CoverageLeaves(s) == 1
ReportLeaves(s) == 1

Leaves(s) == CASE kind = "site_audit" -> AuditLeaves(s)
               [] kind = "connector_sync" -> SyncLeaves(s)
               [] kind = "keyword_refresh" -> RefreshLeaves(s)
               [] kind = "content_briefs" -> BriefsLeave(s)
               [] kind = "competitor_scan" -> CompetitorsLeave(s)
               [] kind = "ai_visibility_scan" -> VisibilityLeaves(s)
               [] kind = "ai_citation_scan" -> ScanLeaves(s)
               [] kind = "sitemap_coverage" -> CoverageLeaves(s)
               [] kind = "weekly_report" -> ReportLeaves(s)

\* Written over what is there, so never found done already.
Overwrites == kind \in {"keyword_refresh", "content_briefs", "ai_visibility_scan",
                       "sitemap_coverage", "weekly_report"}

\* consecutive_failures, capped where nothing tells higher numbers apart.
Failures(status) ==
    IF status # "failed" THEN 0
    ELSE IF routine.failures < MaxFailures THEN routine.failures + 1 ELSE routine.failures

\* The transaction of process_run: the work, the run and the routine at once.
\* It skips when there is nothing to work on: no connector, no evidence, no
\* finished crawl, no model to ask.  A weekly report can always be written.
Perform(w) ==
    LET s == runner[w].slot IN
    /\ runner[w].pc = "work"
    /\ \/ /\ made' = [made EXCEPT ![s] = Leaves(s)]
          /\ run' = Finished(s, IF Leaves(s) = made[s] /\ ~Overwrites
                                THEN "skipped" ELSE "completed")
          /\ crawling' = (crawling \/ kind = "site_audit")
       \/ /\ kind # "weekly_report"
          /\ run' = Finished(s, "skipped")
          /\ UNCHANGED <<made, crawling>>
    /\ routine' = [routine EXCEPT !.failures = Failures("completed")]
    /\ At(w, "ack")
    /\ UNCHANGED <<kind, clock, switches, message, billed, overrun, downs>>

\* The work raised: the transaction is undone and the run said to have failed.
FailRun(w) ==
    /\ runner[w].pc = "work"
    /\ run' = Finished(runner[w].slot, "failed")
    /\ At(w, "count")
    /\ UNCHANGED <<kind, clock, switches, routine, message, crawling, made, billed, overrun, downs>>

\* _finish, its second statement.
Count(w) ==
    /\ runner[w].pc \in {"count", "reset"}
    /\ routine' = [routine EXCEPT
                      !.failures = Failures(IF runner[w].pc = "count" THEN "failed" ELSE "skipped")]
    /\ At(w, "ack")
    /\ UNCHANGED <<kind, clock, switches, run, message, crawling, made, billed, overrun, downs>>

AckRun(w) ==
    /\ runner[w].pc = "ack"
    /\ message' = message \ {<<runner[w].slot, runner[w].event>>}
    /\ runner' = [runner EXCEPT ![w] = Free]
    /\ UNCHANGED <<kind, clock, switches, routine, run, crawling, made, billed, overrun, downs>>

\* The process dies, or an error outside process_run leaves the message pending.
GoDown(w) ==
    /\ runner[w].pc # "idle" /\ Troubled
    /\ downs' = downs + 1
    /\ runner' = [runner EXCEPT ![w] = Free]
    /\ UNCHANGED <<kind, clock, switches, routine, run, message, crawling, made, billed, overrun>>

-----------------------------------------------------------------------------
(* Leases, the reaper, and the crawl a site audit asked for.               *)

AtWork(s) == \E w \in Runner : runner[w].slot = s /\ runner[w].pc \in {"collect", "work"}

LapseRun(s) ==
    /\ run[s].status = "running" /\ run[s].lease
    /\ run' = [run EXCEPT ![s].lease = FALSE]
    /\ overrun' = IF AtWork(s) THEN overrun \cup {s} ELSE overrun
    /\ UNCHANGED <<kind, clock, switches, routine, message, runner, crawling, made, billed, downs>>

\* Mutant of Requeued: no event goes with the row.
RequeuedSilently(s) == message

\* requeue_sql: the event is inserted with the rows it is for.
Requeued(s) == message \cup {<<s, run[s].attempts + 1>>}

\* requeue_sql and fail_sql; neither tells the routine.
ReapRun(s) ==
    /\ run[s].status = "running" /\ ~run[s].lease
    /\ IF run[s].attempts < MaxRunAttempts
       THEN /\ run' = [run EXCEPT ![s].status = "queued"]
            /\ message' = Requeued(s)
       ELSE run' = Finished(s, "failed") /\ message' = message
    /\ UNCHANGED <<kind, clock, switches, routine, runner, crawling, made, billed, overrun, downs>>

CrawlEnds ==
    /\ crawling /\ crawling' = FALSE
    /\ UNCHANGED <<kind, clock, switches, routine, run, message, runner, made, billed, overrun, downs>>

RoutineNext ==
    \/ Tick \/ SwitchGate \/ Upsert \/ Trigger \/ Schedule \/ CrawlEnds
    \/ \E w \in Runner, m \in message : ClaimRun(w, m) \/ RefuseRun(w, m)
    \/ \E w \in Runner : \/ Explain(w) \/ SkipRun(w) \/ Collect(w) \/ Perform(w) \/ FailRun(w)
                         \/ Count(w) \/ AckRun(w) \/ GoDown(w)
    \/ \E s \in Slot : LapseRun(s) \/ ReapRun(s)

\* Consumers read what there is and go on with what they took; leases lapse and
\* the reaper sweeps.
RoutineFairness ==
    /\ \A w \in Runner :
          /\ WF_routineVars(\E m \in message : ClaimRun(w, m) \/ RefuseRun(w, m))
          /\ WF_routineVars(Explain(w) \/ SkipRun(w) \/ Collect(w) \/ Perform(w) \/ Count(w)
                            \/ AckRun(w))
    /\ \A s \in Slot : WF_routineVars(LapseRun(s) \/ ReapRun(s))

RoutineSpec == RoutineInit /\ [][RoutineNext]_routineVars /\ RoutineFairness

-----------------------------------------------------------------------------
(* Properties.                                                             *)

RoutineTypeOK ==
    /\ kind \in Kind /\ clock \in Slot /\ switches \in 0..MaxTroubles
    /\ routine \in [enabled : BOOLEAN, next : 1..(Horizon + 1), failures : 0..MaxFailures,
                    edits : 0..MaxTroubles]
    /\ run \in [Slot -> RunRow]
    /\ message \subseteq Slot \X (1..(MaxRunAttempts + 1))
    /\ runner \in [Runner -> Position]
    /\ crawling \in BOOLEAN
    /\ made \in [Slot -> Nat] /\ billed \in [Slot -> Nat]
    /\ overrun \subseteq Slot /\ downs \in 0..MaxTroubles

\* The models are asked no more often than a run may be attempted, and a run
\* leaves one piece of work behind it, through deaths, redeliveries and sweeps:
\* two only if its lease lapsed under a consumer that was still at work.
WorkIsNotRepeated ==
    \A s \in Slot :
       /\ billed[s] <= run[s].attempts /\ run[s].attempts <= MaxRunAttempts
       /\ s \notin overrun => made[s] <= 1

\* _finish overwrites whatever it meets, yet a completed run stays completed
\* unless it was overrun, or refused before the gate opened again.
CompletedStays ==
    [][\A s \in Slot :
          run[s].status = "completed" /\ s \notin overrun /\ switches < 2
             => run'[s] = run[s]]_routineVars

\* Every queued run ends, deaths and lost messages included.  A thaw may strand
\* it: refused while the site was frozen and explained after, it is taken for
\* claimed by another consumer, and its message is acked.
EveryRunEnds ==
    [](switches < 2) =>
        \A s \in Slot : run[s].status \in {"queued", "running"} ~> run[s].status \in Done

\* A run ends, and ends once.
RunsEndForGood == CompletedStays /\ EveryRunEnds
=============================================================================
