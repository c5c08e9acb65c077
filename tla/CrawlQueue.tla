----------------------------- MODULE CrawlQueue -----------------------------
(***************************************************************************)
(* The crawl pipeline of one tenant: a crawl is requested in the database, *)
(* announced through the outbox and a Redis stream, leased and run by a    *)
(* crawler slot, and returned to the queue by the reaper when its lease    *)
(* runs out.                                                               *)
(*                                                                         *)
(* Source: crawler/src/stream-consumer.ts and database.ts (the slots),     *)
(* worker/app/outbox.py (dispatch), worker/app/reaper.py (sweep),          *)
(* api/app/services/sites.py (create_crawl).                               *)
(*                                                                         *)
(* Time is abstract: a lease is live, lapsed (past lease_until) or stale   *)
(* (past the reaper's grace), a pending message is idle once 60 s passed   *)
(* since it was delivered or kept.  Neither happens while a slot keeps     *)
(* both with a working heartbeat.  What may fail is named by Faults, and   *)
(* at most MaxFaults failures happen in a behaviour.                       *)
(***************************************************************************)
EXTENDS Integers, FiniteSets

CONSTANTS
    Crawl,       \* rows of crawl_job that may come to exist
    SiteOf,      \* [Crawl -> the site it crawls]
    Slot,        \* crawler slots, each a consumer of the group
    Msg,         \* bound: stream entries that exist at once
    Faults,      \* the failures considered
    MaxFaults    \* bound: how many of them happen

\* A crawler process dies; a heartbeat fails once and is not tried again; Redis
\* refuses or loses an XACK; the relay dies between XADD and its commit.
FaultKind == {"crash", "heartbeat", "ack", "relay"}

ASSUME CrawlAssumption ==
    /\ Faults \subseteq FaultKind
    /\ MaxFaults \in Nat
    /\ IsFiniteSet(Crawl) /\ IsFiniteSet(Msg)
    /\ Crawl # {} /\ Msg # {}

\* crawl_job.attempts is bounded by the claim (attempts<3).
MaxAttempts == 3

VARIABLES
    job,        \* [Crawl -> row of crawl_job]
    staged,     \* [Crawl -> its unpublished crawl.requested rows of outbox_event]
    stream,     \* [Msg -> entry of the stream and its state in the group]
    slot,       \* [Slot -> what the slot is doing]
    announced,  \* [Crawl -> crawl.completed events it emitted]
    faults      \* failures that happened

vars == <<job, staged, stream, slot, announced, faults>>

\* "completed" stands for completed and partial.
Terminal == {"completed", "failed"}
Active == {"queued", "running"}
JobRow == [status : {"none"} \cup Active \cup Terminal, attempts : 0..MaxAttempts,
           lease : {"none", "live", "lapsed", "stale"}, result_summary : BOOLEAN]
Entry == [crawl : Crawl, state : {"free", "new", "pending"}, idle : BOOLEAN]
SlotState == [pc : {"idle", "claim", "claiming", "crawl", "save", "ack", "release"},
              msg : Msg, crawl : Crawl, hb : BOOLEAN]

SomeCrawl == CHOOSE c \in Crawl : TRUE
FreeEntry == [crawl |-> SomeCrawl, state |-> "free", idle |-> FALSE]
IdleSlot == [pc |-> "idle", msg |-> CHOOSE m \in Msg : TRUE, crawl |-> SomeCrawl, hb |-> FALSE]

Init ==
    /\ job = [c \in Crawl |-> [status |-> "none", attempts |-> 0, lease |-> "none",
                         result_summary |-> FALSE]]
    /\ staged = [c \in Crawl |-> 0]
    /\ stream = [m \in Msg |-> FreeEntry]
    /\ slot = [w \in Slot |-> IdleSlot]
    /\ announced = [c \in Crawl |-> 0]
    /\ faults = 0

Fails(kind) ==
    /\ kind \in Faults /\ faults < MaxFaults
    /\ faults' = faults + 1

Working(w) == slot[w].pc \in {"crawl", "save", "ack", "release"}
Beating(w) == Working(w) /\ ~slot[w].hb

\* A claim holds the row lock until it commits; other writers of the row wait.
Locked(c) == \E w \in Slot : slot[w].pc = "claiming" /\ slot[w].crawl = c

\* crawl_job_one_active_per_site_idx.
SiteIsFree(c) ==
    \A o \in Crawl \ {c} : SiteOf[o] = SiteOf[c] => job[o].status \notin Active

Rest(w) == slot' = [slot EXCEPT ![w] = IdleSlot]
Acked(m) == stream' = [stream EXCEPT ![m] = FreeEntry]

-----------------------------------------------------------------------------
(* The API, the relay and the clock.                                       *)

\* create_crawl: the row and its event in one transaction; the unique index
\* refuses a second active crawl of the site.
Request(c) ==
    /\ job[c].status = "none"
    /\ SiteIsFree(c)
    /\ job' = [job EXCEPT ![c].status = "queued"]
    /\ staged' = [staged EXCEPT ![c] = @ + 1]
    /\ UNCHANGED <<stream, slot, announced, faults>>

\* Stream ids are never reused: an entry is taken again only when no slot still
\* holds the id it had.
Unused(m) ==
    /\ stream[m].state = "free"
    /\ ~\E w \in Slot : slot[w].pc # "idle" /\ slot[w].msg = m

\* dispatch_batch: XADD, then published_at.  If the transaction is lost after
\* the XADD, the event is published again.
Publish(c) ==
    /\ staged[c] > 0
    /\ \E m \in Msg : /\ Unused(m)
                      /\ stream' = [stream EXCEPT ![m] =
                                       [crawl |-> c, state |-> "new", idle |-> FALSE]]
    /\ \/ staged' = [staged EXCEPT ![c] = @ - 1] /\ UNCHANGED faults
       \/ Fails("relay") /\ UNCHANGED staged
    /\ UNCHANGED <<job, slot, announced>>

LeaseLapses(c) ==
    /\ job[c].lease = "live"
    /\ ~\E w \in Slot : Beating(w) /\ slot[w].crawl = c
    /\ job' = [job EXCEPT ![c].lease = "lapsed"]
    /\ UNCHANGED <<staged, stream, slot, announced, faults>>

GracePasses(c) ==
    /\ job[c].lease = "lapsed"
    /\ job' = [job EXCEPT ![c].lease = "stale"]
    /\ UNCHANGED <<staged, stream, slot, announced, faults>>

GoesIdle(m) ==
    /\ stream[m].state = "pending" /\ ~stream[m].idle
    /\ ~\E w \in Slot : slot[w].msg = m /\ (Beating(w) \/ slot[w].pc \in {"claim", "claiming"})
    /\ stream' = [stream EXCEPT ![m].idle = TRUE]
    /\ UNCHANGED <<job, staged, slot, announced, faults>>

\* Mutant: rows whose attempts are spent are left running.
ReapRequeuesOnly(c) ==
    /\ job[c].status = "running" /\ job[c].lease = "stale" /\ ~Locked(c)
    /\ job[c].attempts < MaxAttempts
    /\ job' = [job EXCEPT ![c].status = "queued", ![c].lease = "none"]
    /\ staged' = [staged EXCEPT ![c] = @ + 1]
    /\ UNCHANGED <<stream, slot, announced, faults>>

\* The reaper: a running row whose lease is past the grace is queued again with
\* a new event, or failed when its attempts are spent.
Reap(c) ==
    /\ job[c].status = "running" /\ job[c].lease = "stale" /\ ~Locked(c)
    /\ IF job[c].attempts < MaxAttempts
       THEN /\ job' = [job EXCEPT ![c].status = "queued", ![c].lease = "none"]
            /\ staged' = [staged EXCEPT ![c] = @ + 1]
       ELSE /\ job' = [job EXCEPT ![c].status = "failed", ![c].lease = "none"]
            /\ UNCHANGED staged
    /\ UNCHANGED <<stream, slot, announced, faults>>

-----------------------------------------------------------------------------
(* A crawler slot.                                                         *)

\* XAUTOCLAIM an idle entry, or read a new one.  A terminal crawl's entry is
\* delivered like any other.
Receive(w) ==
    LET idle == {m \in Msg : stream[m].state = "pending" /\ stream[m].idle}
        new == {m \in Msg : stream[m].state = "new"}
    IN
    /\ slot[w].pc = "idle"
    /\ \E m \in IF idle # {} THEN idle ELSE new :
          /\ stream' = [stream EXCEPT ![m].state = "pending", ![m].idle = FALSE]
          /\ slot' = [slot EXCEPT ![w] = [IdleSlot EXCEPT !.pc = "claim", !.msg = m,
                                            !.crawl = stream[m].crawl]]
    /\ UNCHANGED <<job, staged, announced, faults>>

\* One running crawl per workspace, as the claim's snapshot shows it.
TurnIsFree(c) ==
    ~\E o \in Crawl \ {c} : job[o].status = "running" /\ job[o].lease = "live"

\* Mutant: a finished row is claimed again when its message comes back.
ClaimableOnceFinished(c) ==
    /\ job[c].attempts < MaxAttempts
    /\ job[c].status = "running" => job[c].lease # "live"
    /\ TurnIsFree(c)

Claimable(c) ==
    /\ job[c].attempts < MaxAttempts
    /\ \/ job[c].status = "queued"
       \/ job[c].status = "running" /\ job[c].lease # "live"
    /\ TurnIsFree(c)

\* claimCrawl's UPDATE: it locks the row it matched.  No match: the entry of a
\* finished or exhausted crawl is acked, any other is left for a later retry.
Claim(w) ==
    LET c == slot[w].crawl IN
    /\ slot[w].pc = "claim" /\ ~Locked(c)
    /\ \/ /\ Claimable(c)
          /\ slot' = [slot EXCEPT ![w].pc = "claiming"]
          /\ UNCHANGED stream
       \/ /\ ~Claimable(c)
          /\ IF job[c].status \in Terminal \/ job[c].attempts >= MaxAttempts
             THEN Acked(slot[w].msg)
             ELSE UNCHANGED stream
          /\ Rest(w)
    /\ UNCHANGED <<job, staged, announced, faults>>

ClaimCommits(w) ==
    LET c == slot[w].crawl IN
    /\ slot[w].pc = "claiming"
    /\ job' = [job EXCEPT ![c].status = "running", ![c].attempts = @ + 1, ![c].lease = "live"]
    /\ slot' = [slot EXCEPT ![w].pc = "crawl"]
    /\ UNCHANGED <<staged, stream, announced, faults>>

\* The heartbeat renews the lease of a running row and keeps the message; it
\* does not ask whose claim the row carries.  On a row that is not running it
\* fails, and a heartbeat that failed is not tried again.
Heartbeat(w) ==
    LET c == slot[w].crawl
        m == slot[w].msg
    IN
    /\ Beating(w) /\ ~Locked(c)
    /\ IF job[c].status = "running"
       THEN /\ job' = [job EXCEPT ![c].lease = "live"]
            /\ stream' = [stream EXCEPT ![m].idle = FALSE]
            /\ UNCHANGED slot
       ELSE /\ slot' = [slot EXCEPT ![w].hb = TRUE]
            /\ UNCHANGED <<job, stream>>
    /\ UNCHANGED <<staged, announced, faults>>

HeartbeatFails(w) ==
    /\ Beating(w)
    /\ Fails("heartbeat")
    /\ slot' = [slot EXCEPT ![w].hb = TRUE]
    /\ UNCHANGED <<job, staged, stream, announced>>

\* crawlSite returns or throws; a heartbeat that failed is looked at only here.
CrawlEnds(w) ==
    /\ slot[w].pc = "crawl"
    /\ \E next \in {"save", "release"} :
          /\ slot[w].hb => next = "release"
          /\ slot' = [slot EXCEPT ![w].pc = next]
    /\ UNCHANGED <<job, staged, stream, announced, faults>>

\* persistObservation extends lease_until, whatever the row's status.
SavePage(w) ==
    LET c == slot[w].crawl IN
    /\ slot[w].pc = "save" /\ ~Locked(c)
    /\ job' = [job EXCEPT ![c].lease = "live"]
    /\ UNCHANGED <<staged, stream, slot, announced, faults>>

SaveFails(w) ==
    /\ slot[w].pc = "save"
    /\ slot' = [slot EXCEPT ![w].pc = "release"]
    /\ UNCHANGED <<job, staged, stream, announced, faults>>

\* completeCrawl: the final status, whatever the row's status was, and the
\* crawl.completed event unless the content collapsed.  A finished row turned
\* active again would meet the unique index; a terminal status never does.
Complete(w) ==
    LET c == slot[w].crawl IN
    /\ slot[w].pc = "save" /\ ~Locked(c)
    /\ \E outcome \in Terminal :
          /\ job' = [job EXCEPT ![c].status = outcome, ![c].lease = "none",
                                ![c].result_summary = TRUE]
          /\ announced' = [announced EXCEPT ![c] = IF outcome = "completed" THEN @ + 1 ELSE @]
    /\ slot' = [slot EXCEPT ![w].pc = "ack"]
    /\ UNCHANGED <<staged, stream, faults>>

\* XACK: any consumer of the group may ack, and an entry acked twice stays so.
Ack(w) ==
    LET m == slot[w].msg IN
    /\ slot[w].pc = "ack"
    /\ IF stream[m].state = "pending"
       THEN Acked(m) ELSE UNCHANGED stream
    /\ Rest(w)
    /\ UNCHANGED <<job, staged, announced, faults>>

\* An XACK that throws, refused or with its answer lost, lands in the same
\* catch as a failed crawl.
AckFails(w) ==
    LET m == slot[w].msg IN
    /\ slot[w].pc = "ack"
    /\ Fails("ack")
    /\ \/ UNCHANGED stream
       \/ stream[m].state = "pending" /\ Acked(m)
    /\ slot' = [slot EXCEPT ![w].pc = "release"]
    /\ UNCHANGED <<job, staged, announced>>

Released(c) == IF job[c].attempts >= MaxAttempts THEN "failed" ELSE "queued"

\* Mutant: the message of a failed crawl is acked.
ReleaseAcks(w) ==
    LET c == slot[w].crawl IN
    /\ slot[w].pc = "release" /\ ~Locked(c)
    /\ job' = [job EXCEPT ![c].status = Released(c), ![c].lease = "none"]
    /\ Acked(slot[w].msg)
    /\ Rest(w)
    /\ UNCHANGED <<staged, announced, faults>>

\* releaseFailedCrawl, whatever the row's status.  The entry stays pending and
\* is redelivered.  If the row cannot be active again the statement throws and
\* the process dies with the slot.
Release(w) ==
    LET c == slot[w].crawl IN
    /\ slot[w].pc = "release" /\ ~Locked(c)
    /\ IF Released(c) = "queued" /\ ~SiteIsFree(c)
       THEN UNCHANGED job
       ELSE job' = [job EXCEPT ![c].status = Released(c), ![c].lease = "none"]
    /\ Rest(w)
    /\ UNCHANGED <<staged, stream, announced, faults>>

\* The process dies; an open claim rolls back, the entry stays pending.
Crash(w) ==
    /\ slot[w].pc # "idle"
    /\ Fails("crash")
    /\ Rest(w)
    /\ UNCHANGED <<job, staged, stream, announced>>

-----------------------------------------------------------------------------
Progress(w) ==
    \/ Receive(w) \/ Claim(w) \/ ClaimCommits(w) \/ CrawlEnds(w) \/ SaveFails(w)
    \/ Complete(w) \/ Ack(w) \/ Release(w)

SlotStep(w) ==
    \/ Progress(w) \/ Heartbeat(w) \/ HeartbeatFails(w) \/ SavePage(w)
    \/ AckFails(w) \/ Crash(w)

CrawlStep(c) == Request(c) \/ Publish(c) \/ LeaseLapses(c) \/ GracePasses(c) \/ Reap(c)

Next ==
    \/ \E w \in Slot : SlotStep(w)
    \/ \E c \in Crawl : CrawlStep(c)
    \/ \E m \in Msg : GoesIdle(m)

\* Slots, relay and reaper run for as long as their processes live, and time
\* passes.  Nobody has to request a crawl, and nothing has to fail.
SlotFairness == \A w \in Slot : WF_vars(Progress(w))

\* run_dispatcher: an error costs the relay five seconds, never its loop.
RelayFairness == \A c \in Crawl : WF_vars(Publish(c))

\* run_reaper, and the time that lapses leases and lets messages go idle.
SweepFairness ==
    /\ \A c \in Crawl : WF_vars(Reap(c)) /\ WF_vars(LeaseLapses(c)) /\ WF_vars(GracePasses(c))
    /\ \A m \in Msg : WF_vars(GoesIdle(m))

Spec == Init /\ [][Next]_vars /\ SlotFairness /\ RelayFairness /\ SweepFairness

-----------------------------------------------------------------------------
(* Properties.                                                             *)

\* Rows, entries and slots stay in their shapes; no crawl is claimed more than
\* three times or has more events staged than requests and sweeps wrote.
TypeOK ==
    /\ job \in [Crawl -> JobRow]
    /\ staged \in [Crawl -> 0..MaxAttempts]
    /\ stream \in [Msg -> Entry]
    /\ slot \in [Slot -> SlotState]
    /\ announced \in [Crawl -> 0..MaxAttempts]
    /\ faults \in 0..MaxFaults

Delivers(c) == staged[c] > 0 \/ \E m \in Msg : stream[m].state # "free" /\ stream[m].crawl = c

\* "A row can never be queued without the event that would pick it up"
\* (reaper.py:81): otherwise nothing ever looks at it again, and its site can
\* never be crawled any more.
QueuedHasDelivery == \A c \in Crawl : job[c].status = "queued" => Delivers(c)

\* A running row always has a lease the reaper can find expired.
RunningIsLeased == \A c \in Crawl : job[c].status = "running" => job[c].lease # "none"

\* A site has one active crawl, whatever its earlier crawls' slots still do.
OneActivePerSite ==
    \A c, o \in Crawl :
        (c # o /\ SiteOf[c] = SiteOf[o]) => ~(job[c].status \in Active /\ job[o].status \in Active)

\* A crawl that ended stays as it ended (DATA_MODEL.md, the crawl's states), and
\* its analysis is not asked for again.
StaysFinished(c) ==
    job[c].status \in Terminal => job'[c].status = job[c].status /\ announced'[c] = announced[c]

\* Every requested crawl comes to an end.
EveryCrawlSettles == \A c \in Crawl : job[c].status = "queued" ~> job[c].status \in Terminal

\* Whatever fails, a crawl with attempts left loses its last delivery only after
\* it ran to its end once: no request is lost before it has a result.
LostOnlyAfterResult ==
    \A c \in Crawl :
        (job[c].status \in Active /\ job[c].attempts < MaxAttempts /\ ~Delivers(c))
            => job[c].result_summary
=============================================================================
