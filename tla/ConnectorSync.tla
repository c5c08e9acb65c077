---------------------------- MODULE ConnectorSync ----------------------------
(***************************************************************************)
(* Syncs of Search Console and Analytics data: requested through the API,  *)
(* carried out day by day and page by page by leased consumers that leave  *)
(* a checkpoint after every page, ended by them or by the reaper.          *)
(*                                                                         *)
(* Source: api/app/services/connectors.py (create_sync), worker/app/       *)
(* connectors/runtime.py (claim_sync, SyncProgress, complete_sync,         *)
(* fail_sync), gsc and analytics (sync.py, consumer.py), reaper.py.        *)
(*                                                                         *)
(* Each type of connector has its own consumer group on the one stream;    *)
(* the group that cannot do the work acks its copy of a message, so only   *)
(* the copy of the right group is kept here.  A message is reclaimed after *)
(* 60 s, far less than a lease lasts.  Nothing but status='running' tells  *)
(* the holder of a lease from an earlier one that is merely slow.          *)
(***************************************************************************)
EXTENDS Integers, FiniteSets

CONSTANTS
    Sync,         \* rows of connector_sync that may come to exist
    Connector,    \* Google connectors
    ConnectorOf,  \* [Sync -> Connector]
    Worker,       \* consumer processes
    Days,         \* days in the range a sync is asked for
    Pages,        \* pages of rows a day has at the provider
    Copies,       \* bound: how often the relay publishes one message
    MaxDeaths     \* bound: consumers that die at work

ASSUME SyncAssumption ==
    /\ Sync # {} /\ ConnectorOf \in [Sync -> Connector]
    /\ Days \in Nat \ {0} /\ Pages \in Nat \ {0}
    /\ Copies \in Nat \ {0} /\ MaxDeaths \in Nat

VARIABLES
    analytics,  \* the connectors of type google_analytics
    active,     \* [Connector -> status='active']
    sync,       \* [Sync -> row]
    metrics,    \* pages of rows stored, by connector, day and page
    entry,      \* [Sync \X Copy -> its message in the group's stream]
    consumer,   \* [Worker -> the sync it carries out and where it stands]
    told,       \* [Sync -> the ends announced through the outbox]
    deaths

syncVars == <<analytics, active, sync, metrics, entry, consumer, told, deaths>>

Copy == 1..Copies
Day == 1..Days
Ended == {"completed", "failed"}

\* cursor_json: the day to ask for next and the rows of it already stored.
Cursor == [day : 1..(Days + 1), page : 0..Pages]
Start == [day |-> 1, page |-> 0]
SyncRow == [status : {"none", "queued", "running"} \cup Ended, lease : BOOLEAN,
            cursor : Cursor, days : 0..Days]
ConsumerState == [pc : {"idle", "fetch", "checkpoint", "complete", "fail", "ack"},
                  entry : Sync \X Copy, at : Cursor, base : 0..Days, own : 0..Days]
Waiting == [pc |-> "idle", entry |-> <<CHOOSE s \in Sync : TRUE, 1>>, at |-> Start,
            base |-> 0, own |-> 0]

SyncInit ==
    /\ analytics \in SUBSET Connector
    /\ active = [c \in Connector |-> TRUE]
    /\ sync = [s \in Sync |-> [status |-> "none", lease |-> FALSE, cursor |-> Start, days |-> 0]]
    /\ metrics = {}
    /\ entry = [e \in Sync \X Copy |-> "none"]
    /\ consumer = [w \in Worker |-> Waiting]
    /\ told = [s \in Sync |-> {}]
    /\ deaths = 0

-----------------------------------------------------------------------------
(* The API, and what people and Google do to the connector.                *)

\* create_sync: a repeated key answers with the row there is.
CreateSync(s) ==
    /\ active[ConnectorOf[s]] /\ sync[s].status = "none"
    /\ sync' = [sync EXCEPT ![s].status = "queued"]
    /\ \E twice \in BOOLEAN :
          entry' = [e \in Sync \X Copy |->
                       IF e[1] = s /\ (e[2] = 1 \/ twice) THEN "new" ELSE entry[e]]
    /\ UNCHANGED <<analytics, active, metrics, consumer, told, deaths>>

\* A consent asked for again or a disconnect takes a connector out of use, and
\* a consent given brings it back.
ToggleConnector(c) ==
    /\ active' = [active EXCEPT ![c] = ~active[c]]
    /\ UNCHANGED <<analytics, sync, metrics, entry, consumer, told, deaths>>

-----------------------------------------------------------------------------
(* A consumer.                                                             *)

\* claim_sync: the predicate of the UPDATE.
Claimable(s) ==
    /\ active[ConnectorOf[s]]
    /\ \/ sync[s].status = "queued"
       \/ sync[s].status = "running" /\ ~sync[s].lease

Deliverable(e) == entry[e] \in {"new", "pending"}

\* The cursor of a range walked to its end is refused as invalid_sync_cursor.
FirstStep(s) == IF sync[s].cursor.day > Days THEN "fail" ELSE "fetch"

\* A new message, or one somebody has kept for a minute, and the claim it leads to.
Claim(w, e) ==
    LET s == e[1] IN
    /\ consumer[w].pc = "idle" /\ Deliverable(e) /\ Claimable(s)
    /\ sync' = [sync EXCEPT ![s].status = "running", ![s].lease = TRUE]
    /\ entry' = [entry EXCEPT ![e] = "pending"]
    /\ consumer' = [consumer EXCEPT ![w] =
                       [pc |-> FirstStep(s), entry |-> e, at |-> sync[s].cursor,
                        base |-> sync[s].days, own |-> 0]]
    /\ UNCHANGED <<analytics, active, metrics, told, deaths>>

\* A sync that cannot be claimed: the message is acked, whoever holds the sync.
Decline(w, e) ==
    /\ consumer[w].pc = "idle" /\ Deliverable(e) /\ ~Claimable(e[1])
    /\ entry' = [entry EXCEPT ![e] = "acked"]
    /\ UNCHANGED <<analytics, active, sync, metrics, consumer, told, deaths>>

\* Search Console: a page of rows, and after the last the empty page that ends the day.
SearchStep(at) == IF at.page < Pages THEN [at EXCEPT !.page = @ + 1]
                  ELSE [day |-> at.day + 1, page |-> 0]
\* Analytics: the total tells the last page, so no empty page is asked for.
LandingStep(at) == IF at.page + 1 < Pages THEN [at EXCEPT !.page = @ + 1]
                   ELSE [day |-> at.day + 1, page |-> 0]

Step(c, at) == IF c \in analytics THEN LandingStep(at) ELSE SearchStep(at)

\* The rows of a page, written over those that have their keys.
Upserted(c, at) ==
    IF at.page < Pages THEN metrics \cup {<<c, at.day, at.page + 1>>} ELSE metrics

\* One page asked for and its rows upserted.
Page(w) ==
    LET at == consumer[w].at
        c == ConnectorOf[consumer[w].entry[1]]
        next == Step(c, at) IN
    /\ consumer[w].pc = "fetch"
    /\ metrics' = Upserted(c, at)
    /\ consumer' = [consumer EXCEPT ![w] =
                       [@ EXCEPT !.pc = "checkpoint", !.at = next,
                                 !.own = consumer[w].own + (next.day - at.day)]]
    /\ UNCHANGED <<analytics, active, sync, entry, told, deaths>>

\* Mutant of DaysDone: what earlier claims did is forgotten.
DaysSinceClaim(w) == consumer[w].own

\* SyncProgress: counts go on from what the claim found.
DaysDone(w) == consumer[w].base + consumer[w].own

\* SyncProgress.write: the checkpoint, which also renews the lease.
Checkpoint(w) ==
    LET s == consumer[w].entry[1] at == consumer[w].at IN
    /\ consumer[w].pc = "checkpoint"
    /\ sync' = IF sync[s].status = "running"
               THEN [sync EXCEPT ![s] = [@ EXCEPT !.cursor = at, !.days = DaysDone(w), !.lease = TRUE]]
               ELSE sync
    /\ consumer' = [consumer EXCEPT ![w].pc = IF at.day > Days THEN "complete" ELSE "fetch"]
    /\ UNCHANGED <<analytics, active, metrics, entry, told, deaths>>

\* Mutant of End: the row is written whatever its status.
EndAnyway(s, status) == [sync EXCEPT ![s].status = status, ![s].lease = FALSE]

\* The UPDATE of complete_sync and fail_sync asks for status='running'.
End(s, status) ==
    IF sync[s].status = "running"
    THEN [sync EXCEPT ![s].status = status, ![s].lease = FALSE] ELSE sync

\* complete_sync: the event is announced whether or not the row was still running.
Complete(w) ==
    LET s == consumer[w].entry[1] IN
    /\ consumer[w].pc = "complete"
    /\ sync' = IF sync[s].status = "running"
               THEN [End(s, "completed") EXCEPT ![s].days = DaysDone(w)] ELSE End(s, "completed")
    /\ told' = [told EXCEPT ![s] = @ \cup {"completed"}]
    /\ consumer' = [consumer EXCEPT ![w].pc = "ack"]
    /\ UNCHANGED <<analytics, active, metrics, entry, deaths>>

\* fail_sync: the provider refuses or times out, or the cursor is past the range.
\* Only authorization_required costs the connector its status.
Fail(w) ==
    LET s == consumer[w].entry[1] IN
    /\ consumer[w].pc \in {"fetch", "fail"}
    /\ sync' = End(s, "failed")
    /\ told' = [told EXCEPT ![s] = @ \cup {"failed"}]
    /\ \/ active' = active
       \/ consumer[w].pc = "fetch" /\ active' = [active EXCEPT ![ConnectorOf[s]] = FALSE]
    /\ consumer' = [consumer EXCEPT ![w].pc = "ack"]
    /\ UNCHANGED <<analytics, metrics, entry, deaths>>

Ack(w) ==
    /\ consumer[w].pc = "ack"
    /\ entry' = [entry EXCEPT ![consumer[w].entry] = "acked"]
    /\ consumer' = [consumer EXCEPT ![w] = Waiting]
    /\ UNCHANGED <<analytics, active, sync, metrics, told, deaths>>

\* The consumer dies, or an error it does not know of leaves the message pending.
Die(w) ==
    /\ consumer[w].pc # "idle" /\ deaths < MaxDeaths
    /\ deaths' = deaths + 1
    /\ consumer' = [consumer EXCEPT ![w] = Waiting]
    /\ UNCHANGED <<analytics, active, sync, metrics, entry, told>>

-----------------------------------------------------------------------------
(* Time and the reaper.                                                    *)

\* Five minutes without a checkpoint, by a death or by slow pages.
Lapse(s) ==
    /\ sync[s].status = "running" /\ sync[s].lease
    /\ sync' = [sync EXCEPT ![s].lease = FALSE]
    /\ UNCHANGED <<analytics, active, metrics, entry, consumer, told, deaths>>

\* Mutant of Reap: the row is queued again, and no event goes with it.
ReapSilently(s) ==
    /\ sync[s].status = "running" /\ ~sync[s].lease
    /\ sync' = [sync EXCEPT ![s].status = "queued"]
    /\ UNCHANGED <<analytics, active, metrics, entry, consumer, told, deaths>>

\* fail_sql of the reaper: connector_sync counts no attempts, so it is not queued again.
Reap(s) ==
    /\ sync[s].status = "running" /\ ~sync[s].lease
    /\ sync' = [sync EXCEPT ![s].status = "failed"]
    /\ UNCHANGED <<analytics, active, metrics, entry, consumer, told, deaths>>

SyncNext ==
    \/ \E s \in Sync : CreateSync(s) \/ Lapse(s) \/ Reap(s)
    \/ \E c \in Connector : ToggleConnector(c)
    \/ \E w \in Worker, e \in Sync \X Copy : Claim(w, e) \/ Decline(w, e)
    \/ \E w \in Worker : Page(w) \/ Checkpoint(w) \/ Complete(w) \/ Fail(w) \/ Ack(w) \/ Die(w)

\* Consumers read while there is work and go on with what they took; leases lapse
\* and the reaper sweeps.
SyncFairness ==
    /\ \A w \in Worker :
          /\ WF_syncVars(\E e \in Sync \X Copy : Claim(w, e) \/ Decline(w, e))
          /\ WF_syncVars(Page(w) \/ Checkpoint(w) \/ Complete(w) \/ Ack(w))
          /\ WF_syncVars(consumer[w].pc = "fail" /\ Fail(w))
    /\ \A s \in Sync : WF_syncVars(Lapse(s)) /\ WF_syncVars(Reap(s))

SyncSpec == SyncInit /\ [][SyncNext]_syncVars /\ SyncFairness

-----------------------------------------------------------------------------
(* Properties.                                                             *)

SyncTypeOK ==
    /\ analytics \in SUBSET Connector
    /\ active \in [Connector -> BOOLEAN]
    /\ sync \in [Sync -> SyncRow]
    /\ metrics \subseteq Connector \X Day \X (1..Pages)
    /\ entry \in [Sync \X Copy -> {"none", "new", "pending", "acked"}]
    /\ consumer \in [Worker -> ConsumerState]
    /\ told \in [Sync -> SUBSET Ended]
    /\ deaths \in 0..MaxDeaths

\* A sync reports the work it did, through resumes and through a slow consumer
\* overtaken by a second one: the days counted are the days behind the cursor.
ReportsItsWork ==
    \A s \in Sync : sync[s].days = IF sync[s].status = "completed" THEN Days
                                   ELSE sync[s].cursor.day - 1

\* Seen from the API a sync is one piece of leased work: it is taken, perhaps by
\* several consumers, and ends once; what it stored is never lost, and it is
\* completed only when all of its range is there.
Work == INSTANCE LeasedWork
            WITH Work <- Sync, Part <- Day \X (1..Pages),
                 life <- [s \in Sync |-> sync[s].status],
                 done <- [s \in Sync |-> {piece \in Day \X (1..Pages) :
                                            <<ConnectorOf[s], piece[1], piece[2]>> \in metrics}]
ImplementsLeasedWork == Work!Spec

\* A sync once claimed ends.  A queued one does while its connector stays active:
\* if it does not, the message is declined, and nothing queues the sync again.
EverySyncEnds ==
    \A s \in Sync :
       /\ sync[s].status = "running" ~> sync[s].status \in Ended
       /\ []active[ConnectorOf[s]] => (sync[s].status = "queued" ~> sync[s].status \in Ended)
=============================================================================
