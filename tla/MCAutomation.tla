---------------------------- MODULE MCAutomation ----------------------------
(* What a workspace's processes do on their own: syncs of connectors,      *)
(* reports sent to webhooks, PageSpeed measurements, verification of       *)
(* deployed changes.  They share no state, so one of them moves from the   *)
(* start of a behaviour and the others rest in their initial states, where *)
(* nothing is asked of fairness.                                           *)
EXTENDS ConnectorSync, Notifications, PageSpeed, Outcomes, TLC
CONSTANTS s1, c1, w1, w2

OneSync == {s1}
OneConnector == {c1}
TwoWorkers == {w1, w2}
OfTheConnector == [s \in Sync |-> c1]

VARIABLE part

Init ==
    /\ part \in {"sync", "reports", "speed", "outcomes"}
    /\ SyncInit /\ NoticeInit /\ SpeedInit /\ OutcomesInit
    /\ part = "sync" \/ analytics = {}

Next ==
    /\ UNCHANGED part
    /\ \/ part = "sync" /\ SyncNext /\ UNCHANGED <<noticeVars, speedVars, outcomeVars>>
       \/ part = "reports" /\ NoticeNext /\ UNCHANGED <<syncVars, speedVars, outcomeVars>>
       \/ part = "speed" /\ SpeedNext /\ UNCHANGED <<syncVars, noticeVars, outcomeVars>>
       \/ part = "outcomes" /\ OutcomesNext /\ UNCHANGED <<syncVars, noticeVars, speedVars>>

Spec == Init /\ [][Next]_<<part, syncVars, noticeVars, speedVars, outcomeVars>>
             /\ SyncFairness /\ NoticeFairness /\ SpeedFairness /\ OutcomesFairness

TypeOK == SyncTypeOK /\ NoticeTypeOK /\ SpeedTypeOK /\ OutcomesTypeOK

\* Whatever dies and whatever is lost, what was queued comes to an end: syncs, reports
\* (unless a dispatcher died over one) and measurements (each stated in its module).
WorkEnds == EverySyncEnds /\ EveryDeliveryEnds /\ EveryMeasurementEnds
=============================================================================
