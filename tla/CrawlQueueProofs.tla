-------------------------- MODULE CrawlQueueProofs --------------------------
(***************************************************************************)
(* Proofs about CrawlQueue for every set of crawls, sites, slots, entries  *)
(* and failures: whatever crashes or is lost, no request is forgotten      *)
(* before it has a result, a site has one active crawl, and a running row  *)
(* has a lease.                                                            *)
(*                                                                         *)
(* None of the three is inductive alone.  That a claim writes a row only   *)
(* as it matched it needs the row lock (ClaimInv); that an acked entry was *)
(* the slot's own needs the entry and the slot to name one crawl           *)
(* (EntryInv); that an ack comes after a result needs the slot's progress  *)
(* and the row to agree (ResultInv).                                       *)
(*                                                                         *)
(* The last section is about CrawlFaults.  While heartbeats and acks work  *)
(* a slot past its claim is the only one at its crawl, and its lease is    *)
(* live (HolderInv): so nobody writes over a crawl that ended.             *)
(***************************************************************************)
EXTENDS CrawlFaults, TLAPS

\* What the proofs need of the types: the counters may be any number here.
Shape ==
    /\ job \in [Crawl -> JobRow]
    /\ staged \in [Crawl -> Nat]
    /\ stream \in [Msg -> Entry]
    /\ slot \in [Slot -> SlotState]

\* An open claim holds the lock of a row that still is as the claim matched it.
ClaimInv ==
    \A w \in Slot : slot[w].pc = "claiming" =>
        /\ job[slot[w].crawl].status \in Active
        /\ job[slot[w].crawl].attempts < MaxAttempts
        /\ \A v \in Slot \ {w} : slot[v].pc = "claiming" => slot[v].crawl # slot[w].crawl

\* The entry a slot holds is its crawl's, unless somebody acked it already.
EntryInv ==
    \A w \in Slot : slot[w].pc # "idle" =>
        stream[slot[w].msg].state = "free" \/ stream[slot[w].msg].crawl = slot[w].crawl

\* An ack follows a saved result, and a crawl ends with one or with its
\* attempts spent.
ResultInv ==
    /\ \A w \in Slot : slot[w].pc = "ack" => job[slot[w].crawl].result_summary
    /\ \A c \in Crawl : job[c].status \in Terminal =>
           job[c].result_summary \/ job[c].attempts >= MaxAttempts

\* Events, entries and slots are about rows that exist.
KnownInv ==
    /\ \A c \in Crawl : Delivers(c) => job[c].status # "none"
    /\ \A w \in Slot : slot[w].pc # "idle" => job[slot[w].crawl].status # "none"

IInv ==
    /\ Shape
    /\ KnownInv
    /\ ClaimInv
    /\ RunningIsLeased
    /\ OneActivePerSite
    /\ EntryInv
    /\ ResultInv
    /\ LostOnlyAfterResult

-----------------------------------------------------------------------------
\* The values that stand for "nothing" are typed.
LEMMA NothingIsTyped ==
    SomeCrawl \in Crawl /\ IdleSlot \in SlotState /\ FreeEntry \in Entry
BY CrawlAssumption DEF CrawlAssumption, SomeCrawl, IdleSlot, SlotState, FreeEntry, Entry

\* Nothing has been requested yet.
LEMMA InitEstablishes == Init => IInv
<1> SUFFICES ASSUME Init PROVE IInv
  OBVIOUS
<1>1. Shape
  BY NothingIsTyped DEF Init, Shape, JobRow, MaxAttempts
<1>2. ClaimInv /\ EntryInv /\ KnownInv
  BY DEF Init, ClaimInv, EntryInv, KnownInv, Delivers, IdleSlot, FreeEntry
<1>3. RunningIsLeased /\ OneActivePerSite /\ ResultInv /\ LostOnlyAfterResult
  BY DEF Init, RunningIsLeased, OneActivePerSite, ResultInv, LostOnlyAfterResult,
         IdleSlot, Active, Terminal
<1> QED BY <1>1, <1>2, <1>3 DEF IInv

\* A slot goes on without writing a row.  It may ack its entry on the way, if
\* the crawl has a result, has ended or may not be tried again.
LEMMA SlotMoves ==
    ASSUME IInv, UNCHANGED <<job, staged>>,
           NEW w \in Slot, NEW q \in SlotState,
           slot' = [slot EXCEPT ![w] = q],
           q.pc # "claiming",
           q.pc # "idle" => q.msg = slot[w].msg /\ q.crawl = slot[w].crawl /\ slot[w].pc # "idle",
           q.pc = "ack" => job[q.crawl].result_summary,
           \/ UNCHANGED stream
           \/ /\ Acked(slot[w].msg) /\ slot[w].pc # "idle"
              /\ \/ job[slot[w].crawl].result_summary
                 \/ job[slot[w].crawl].status \in Terminal
                 \/ job[slot[w].crawl].attempts >= MaxAttempts
    PROVE  IInv'
<1> USE NothingIsTyped DEF IInv
<1>1. Shape'
  BY DEF Shape, Acked, SlotState
<1>2. ClaimInv'
  BY DEF ClaimInv, Shape
<1>3. RunningIsLeased' /\ OneActivePerSite'
  BY DEF RunningIsLeased, OneActivePerSite
<1>4. EntryInv'
  BY DEF EntryInv, Shape, Acked, FreeEntry, SlotState
<1>5. ResultInv'
  BY DEF ResultInv, Shape
<1>6. LostOnlyAfterResult'
  <2>1. CASE UNCHANGED stream
    BY <2>1 DEF LostOnlyAfterResult, Delivers
  <2>2. CASE Acked(slot[w].msg) /\ slot[w].pc # "idle"
    <3>1. ASSUME NEW c \in Crawl, job[c].status \in Active, job[c].attempts < MaxAttempts,
                 ~job[c].result_summary
          PROVE  Delivers(c)'
      <4>1. c # slot[w].crawl \/ UNCHANGED stream
        BY <3>1 DEF Active, Terminal, MaxAttempts, Shape, JobRow
      <4>2. Delivers(c)
        BY <3>1 DEF LostOnlyAfterResult
      <4>3. ASSUME NEW m \in Msg, stream[m].state # "free", stream[m].crawl = c,
                   c # slot[w].crawl
            PROVE  stream'[m] = stream[m]
        BY <2>2, <4>3 DEF EntryInv, Acked, Shape
      <4> QED BY <4>1, <4>2, <4>3 DEF Delivers
    <3> QED BY <3>1 DEF LostOnlyAfterResult
  <2> QED BY <2>1, <2>2
<1>7. KnownInv'
  BY DEF KnownInv, Delivers, Shape, Acked, FreeEntry
<1> QED BY <1>1, <1>2, <1>3, <1>4, <1>5, <1>6, <1>7

\* A lease changes, and entries are kept or go idle.
LEMMA LeaseMoves ==
    ASSUME IInv, UNCHANGED <<staged, slot>>,
           NEW c \in Crawl, NEW l \in {"live", "lapsed", "stale"},
           job' = [job EXCEPT ![c].lease = l],
           stream' \in [Msg -> Entry],
           \A m \in Msg : stream'[m].crawl = stream[m].crawl /\ stream'[m].state = stream[m].state
    PROVE  IInv'
<1> USE DEF IInv
<1>1. job' \in [Crawl -> JobRow]
  BY DEF Shape, JobRow
<1>2. \A o \in Crawl : /\ job'[o].status = job[o].status
                       /\ job'[o].attempts = job[o].attempts
                       /\ job'[o].result_summary = job[o].result_summary
                       /\ job'[o].lease = job[o].lease \/ job'[o].lease # "none"
  BY DEF Shape, JobRow
<1>3. Shape'
  BY <1>1 DEF Shape
<1>4. ClaimInv'
  BY <1>2 DEF ClaimInv, Shape, SlotState
<1>5. RunningIsLeased' /\ OneActivePerSite'
  BY <1>2 DEF RunningIsLeased, OneActivePerSite
<1>6. EntryInv'
  BY DEF EntryInv, Shape, SlotState
<1>7. ResultInv'
  BY <1>2 DEF ResultInv, Shape, SlotState
<1>8. LostOnlyAfterResult'
  BY <1>2 DEF LostOnlyAfterResult, Delivers
<1>9. KnownInv'
  BY <1>2 DEF KnownInv, Delivers, Shape, SlotState
<1> QED BY <1>3, <1>4, <1>5, <1>6, <1>7, <1>8, <1>9

-----------------------------------------------------------------------------
(* The API, the relay, the reaper and the clock.                           *)

\* A new row comes with its event, on a site that has no active crawl.
LEMMA RequestStep == ASSUME IInv, NEW c \in Crawl, Request(c) PROVE IInv'
<1> USE DEF IInv, Request
<1>1. job[c] \in JobRow /\ job' \in [Crawl -> JobRow]
  BY DEF Shape, JobRow, Active
<1>2. Shape'
  BY <1>1 DEF Shape
<1>3. ClaimInv'
  BY DEF ClaimInv, Shape, SlotState, Active
<1>4. RunningIsLeased' /\ OneActivePerSite'
  BY DEF RunningIsLeased, OneActivePerSite, SiteIsFree, Shape
<1>5. EntryInv'
  BY DEF EntryInv
<1>6. ResultInv'
  BY <1>1 DEF ResultInv, Shape, SlotState, JobRow, Terminal
<1>7. LostOnlyAfterResult'
  BY DEF LostOnlyAfterResult, Delivers, Shape
<1>8. KnownInv'
  BY DEF KnownInv, Delivers, Shape, SlotState
<1> QED BY <1>2, <1>3, <1>4, <1>5, <1>6, <1>7, <1>8

\* An event reaches the stream before it leaves the outbox.
LEMMA PublishStep == ASSUME IInv, NEW c \in Crawl, Publish(c) PROVE IInv'
<1> USE DEF IInv
<1>1. PICK m \in Msg : /\ Unused(m)
                       /\ stream' = [stream EXCEPT ![m] =
                                        [crawl |-> c, state |-> "new", idle |-> FALSE]]
  BY DEF Publish
<1>2. staged' = staged \/ staged' = [staged EXCEPT ![c] = @ - 1]
  BY DEF Publish
<1>3. UNCHANGED <<job, slot>> /\ staged[c] > 0
  BY DEF Publish
<1>4. Shape'
  BY <1>1, <1>2, <1>3 DEF Shape, Entry
<1>5. ClaimInv' /\ RunningIsLeased' /\ OneActivePerSite' /\ ResultInv'
  BY <1>3 DEF ClaimInv, RunningIsLeased, OneActivePerSite, ResultInv
<1>6. EntryInv'
  BY <1>1, <1>3 DEF EntryInv, Unused, Shape
<1>7. LostOnlyAfterResult'
  <2>1. Delivers(c)'
    BY <1>1 DEF Delivers, Shape
  <2>2. ASSUME NEW o \in Crawl \ {c}, Delivers(o) PROVE Delivers(o)'
    BY <1>1, <1>2, <2>2 DEF Delivers, Unused, Shape
  <2> QED BY <1>3, <2>1, <2>2 DEF LostOnlyAfterResult
<1>8. KnownInv'
  BY <1>1, <1>2, <1>3 DEF KnownInv, Delivers, Shape
<1> QED BY <1>4, <1>5, <1>6, <1>7, <1>8

\* The reaper queues a row again with a new event, or ends it.
LEMMA ReapStep == ASSUME IInv, NEW c \in Crawl, Reap(c) PROVE IInv'
<1> USE DEF IInv
<1>1. job[c] \in JobRow /\ job[c].status = "running" /\ ~Locked(c) /\ UNCHANGED <<stream, slot>>
  BY DEF Shape, Reap
<1>2. \/ /\ job' = [job EXCEPT ![c].status = "queued", ![c].lease = "none"]
         /\ staged' = [staged EXCEPT ![c] = @ + 1]
      \/ /\ job' = [job EXCEPT ![c].status = "failed", ![c].lease = "none"]
         /\ UNCHANGED staged /\ job[c].attempts >= MaxAttempts
  BY <1>1 DEF Reap, JobRow, MaxAttempts
<1>3. Shape'
  BY <1>1, <1>2 DEF Shape, JobRow, Active, Terminal
<1>4. /\ \A o \in Crawl \ {c} : job'[o] = job[o]
      /\ job'[c].status \in {"queued", "failed"}
      /\ job'[c].status = "failed" => job'[c].attempts >= MaxAttempts
  BY <1>1, <1>2 DEF Shape, JobRow
<1>5. ClaimInv'
  BY <1>1, <1>4 DEF ClaimInv, Locked, Shape, SlotState
<1>6. RunningIsLeased' /\ OneActivePerSite'
  BY <1>1, <1>4 DEF RunningIsLeased, OneActivePerSite, Active
<1>7. EntryInv'
  BY <1>1 DEF EntryInv
<1>8. job'[c].result_summary = job[c].result_summary
  BY <1>1, <1>2 DEF Shape, JobRow
<1>9. ResultInv'
  BY <1>1, <1>4, <1>8 DEF ResultInv, Terminal, Shape, SlotState
<1>10. LostOnlyAfterResult'
  <2>1. Delivers(c)' \/ job'[c].status = "failed"
    <3>1. staged[c] \in Nat
      BY DEF Shape
    <3>2. staged'[c] = staged[c] + 1 \/ job'[c].status = "failed"
      BY <1>1, <1>2 DEF Shape, JobRow
    <3> QED BY <3>1, <3>2 DEF Delivers
  <2>2. \A o \in Crawl \ {c} : Delivers(o) => Delivers(o)'
    BY <1>1, <1>2 DEF Delivers, Shape
  <2> QED BY <1>4, <2>1, <2>2 DEF LostOnlyAfterResult, Active
<1>11. KnownInv'
  <2>1. \A o \in Crawl : job[o].status # "none" => job'[o].status # "none"
    BY <1>4
  <2>2. \A o \in Crawl \ {c} : Delivers(o)' => Delivers(o)
    BY <1>1, <1>2 DEF Delivers, Shape
  <2>3. \A v \in Slot : slot[v].crawl \in Crawl
    BY DEF Shape, SlotState
  <2> QED BY <1>1, <1>4, <2>1, <2>2, <2>3 DEF KnownInv
<1> QED BY <1>3, <1>5, <1>6, <1>7, <1>9, <1>10, <1>11

\* Leases and entries grow old.
LEMMA ClockStep ==
    ASSUME IInv, \/ \E c \in Crawl : LeaseLapses(c) \/ GracePasses(c)
                 \/ \E m \in Msg : GoesIdle(m)
    PROVE  IInv'
<1> USE DEF IInv
<1>1. ASSUME NEW c \in Crawl, LeaseLapses(c) \/ GracePasses(c) PROVE IInv'
  <2>1. PICK l \in {"live", "lapsed", "stale"} : job' = [job EXCEPT ![c].lease = l]
    BY <1>1 DEF LeaseLapses, GracePasses
  <2>2. UNCHANGED <<staged, stream, slot>>
    BY <1>1 DEF LeaseLapses, GracePasses
  <2> QED BY <2>1, <2>2, LeaseMoves DEF Shape
<1>2. ASSUME NEW m \in Msg, GoesIdle(m) PROVE IInv'
  <2>1. UNCHANGED <<job, staged, slot>>
    BY <1>2 DEF GoesIdle
  <2>2. stream' \in [Msg -> Entry]
    BY <1>2 DEF GoesIdle, Shape, Entry
  <2>3. \A n \in Msg : stream'[n].crawl = stream[n].crawl /\ stream'[n].state = stream[n].state
    BY <1>2 DEF GoesIdle, Shape, Entry
  <2>4. Shape' /\ ClaimInv' /\ RunningIsLeased' /\ OneActivePerSite' /\ ResultInv'
    BY <2>1, <2>2 DEF Shape, ClaimInv, RunningIsLeased, OneActivePerSite, ResultInv
  <2>5. EntryInv'
    BY <2>1, <2>3 DEF EntryInv, Shape, SlotState
  <2>6. LostOnlyAfterResult'
    BY <2>1, <2>3 DEF LostOnlyAfterResult, Delivers
  <2>7. KnownInv'
    BY <2>1, <2>3 DEF KnownInv, Delivers
  <2> QED BY <2>4, <2>5, <2>6, <2>7
<1> QED BY <1>1, <1>2

-----------------------------------------------------------------------------
(* A slot.                                                                 *)

\* A slot takes an entry and its crawl together.
LEMMA ReceiveStep == ASSUME IInv, NEW w \in Slot, Receive(w) PROVE IInv'
<1> USE NothingIsTyped DEF IInv
<1>1. PICK m \in Msg :
         /\ stream[m].state # "free"
         /\ stream' = [stream EXCEPT ![m].state = "pending", ![m].idle = FALSE]
         /\ slot' = [slot EXCEPT ![w] = [IdleSlot EXCEPT !.pc = "claim", !.msg = m,
                                           !.crawl = stream[m].crawl]]
  BY DEF Receive
<1>2. UNCHANGED <<job, staged>>
  BY DEF Receive
<1>3. stream[m] \in Entry
  BY DEF Shape
<1>4. stream' \in [Msg -> Entry]
  BY <1>1, <1>3 DEF Shape, Entry
<1>5. slot' \in [Slot -> SlotState]
  BY <1>1, <1>3 DEF Shape, Entry, SlotState
<1>6. \A n \in Msg : /\ stream'[n].crawl = stream[n].crawl
                     /\ stream'[n].state = "free" <=> stream[n].state = "free"
  BY <1>1, <1>3 DEF Shape, Entry
<1>7. \A v \in Slot \ {w} : slot'[v] = slot[v]
  BY <1>1 DEF Shape
<1>8. slot'[w].pc = "claim" /\ slot'[w].msg = m /\ slot'[w].crawl = stream[m].crawl
  BY <1>1 DEF Shape, IdleSlot
<1>9. Shape' /\ RunningIsLeased' /\ OneActivePerSite'
  BY <1>2, <1>4, <1>5 DEF Shape, RunningIsLeased, OneActivePerSite
<1>10. ClaimInv' /\ ResultInv'
  BY <1>2, <1>7, <1>8 DEF ClaimInv, ResultInv
<1>11. EntryInv'
  BY <1>6, <1>7, <1>8 DEF EntryInv, Shape, SlotState
<1>12. LostOnlyAfterResult'
  BY <1>2, <1>6 DEF LostOnlyAfterResult, Delivers
<1>13. KnownInv'
  BY <1>1, <1>2, <1>6, <1>7, <1>8 DEF KnownInv, Delivers, Shape, Entry
<1> QED BY <1>9, <1>10, <1>11, <1>12, <1>13

\* A claim locks the row it matches; one that matches nothing acks only what
\* need not be delivered again.
LEMMA ClaimStep == ASSUME IInv, NEW w \in Slot, Claim(w) PROVE IInv'
<1> DEFINE c == slot[w].crawl
<1>1. slot[w] \in SlotState /\ slot[w].pc = "claim" /\ ~Locked(c) /\ UNCHANGED <<job, staged>>
  BY DEF IInv, Shape, Claim
<1>2. CASE Claimable(c) /\ slot' = [slot EXCEPT ![w].pc = "claiming"] /\ UNCHANGED stream
  <2> USE DEF IInv
  <2>1. slot' \in [Slot -> SlotState]
    BY <1>1, <1>2 DEF Shape, SlotState
  <2>2. \A v \in Slot : /\ slot'[v].msg = slot[v].msg /\ slot'[v].crawl = slot[v].crawl
                        /\ v # w => slot'[v].pc = slot[v].pc
    BY <1>1, <1>2 DEF Shape, SlotState
  <2>3. slot'[w].pc = "claiming"
    BY <1>1, <1>2 DEF Shape, SlotState
  <2>4. Shape' /\ RunningIsLeased' /\ OneActivePerSite' /\ LostOnlyAfterResult'
    BY <1>1, <1>2, <2>1 DEF Shape, RunningIsLeased, OneActivePerSite, LostOnlyAfterResult, Delivers
  <2>5. ClaimInv'
    BY <1>1, <1>2, <2>2, <2>3 DEF ClaimInv, Claimable, Locked, Active
  <2>6. EntryInv' /\ ResultInv'
    BY <1>1, <1>2, <2>2, <2>3 DEF EntryInv, ResultInv
  <2>7. KnownInv'
    BY <1>1, <1>2, <2>2 DEF KnownInv, Delivers
  <2> QED BY <2>4, <2>5, <2>6, <2>7
<1>3. CASE /\ slot' = [slot EXCEPT ![w] = IdleSlot]
           /\ \/ UNCHANGED stream
              \/ /\ Acked(slot[w].msg)
                 /\ job[c].status \in Terminal \/ job[c].attempts >= MaxAttempts
  BY <1>1, <1>3, SlotMoves, NothingIsTyped DEF IdleSlot
<1> QED BY <1>2, <1>3 DEF Claim, Rest

\* The claim is written on the row it locked.
LEMMA ClaimCommitsStep == ASSUME IInv, NEW w \in Slot, ClaimCommits(w) PROVE IInv'
<1> DEFINE c == slot[w].crawl
<1> USE DEF IInv
<1>1. slot[w] \in SlotState /\ c \in Crawl /\ job[c] \in JobRow /\ UNCHANGED <<staged, stream>>
  BY DEF Shape, SlotState, ClaimCommits
<1>2. slot[w].pc = "claiming" /\ job[c].status \in Active /\ job[c].attempts < MaxAttempts
  BY DEF ClaimInv, ClaimCommits
<1>3. job' = [job EXCEPT ![c] = [job[c] EXCEPT !.status = "running", !.attempts = @ + 1,
                                               !.lease = "live"]]
  BY DEF ClaimCommits
<1>4. slot' = [slot EXCEPT ![w] = [slot[w] EXCEPT !.pc = "crawl"]]
  BY DEF ClaimCommits
<1>5. job' \in [Crawl -> JobRow]
  <2>1. [job[c] EXCEPT !.status = "running", !.attempts = @ + 1, !.lease = "live"] \in JobRow
    <3>1. job[c].attempts + 1 \in 0..MaxAttempts
      BY <1>1, <1>2 DEF JobRow, MaxAttempts
    <3> QED BY <1>1, <3>1 DEF JobRow, Active
  <2> QED BY <1>3, <2>1 DEF Shape
<1>6. slot' \in [Slot -> SlotState]
  BY <1>1, <1>4 DEF Shape, SlotState
<1>7. Shape'
  BY <1>1, <1>5, <1>6 DEF Shape
<1>8. ClaimInv'
  BY <1>1, <1>2, <1>3, <1>4 DEF ClaimInv, Shape, SlotState
<1>9. RunningIsLeased' /\ OneActivePerSite'
  BY <1>1, <1>2, <1>3 DEF RunningIsLeased, OneActivePerSite, Shape, JobRow
<1>10. EntryInv'
  BY <1>1, <1>2, <1>4 DEF EntryInv, Shape, SlotState
<1>11. ResultInv'
  BY <1>1, <1>2, <1>3, <1>4 DEF ResultInv, Shape, SlotState, JobRow, Terminal
<1>12. LostOnlyAfterResult'
  BY <1>1, <1>2, <1>3 DEF LostOnlyAfterResult, Delivers, Shape, JobRow, MaxAttempts
<1>13. KnownInv'
  BY <1>1, <1>2, <1>3, <1>4 DEF KnownInv, Delivers, Shape, SlotState, JobRow
<1> QED BY <1>7, <1>8, <1>9, <1>10, <1>11, <1>12, <1>13

\* Renewing a lease, saving a page, losing the heartbeat, ending the crawl and
\* dying write nothing but leases.
LEMMA CrawlingStep ==
    ASSUME IInv, NEW w \in Slot,
           \/ Heartbeat(w) \/ HeartbeatFails(w) \/ CrawlEnds(w)
           \/ SavePage(w) \/ SaveFails(w) \/ Crash(w)
    PROVE  IInv'
<1> DEFINE c == slot[w].crawl
<1>1. slot[w] \in SlotState /\ c \in Crawl /\ slot[w].msg \in Msg
  BY DEF IInv, Shape, SlotState
<1>2. UNCHANGED staged
  BY DEF Heartbeat, HeartbeatFails, CrawlEnds, SavePage, SaveFails, Crash
<1>3. CASE /\ job' = [job EXCEPT ![c].lease = "live"] /\ UNCHANGED slot
           /\ UNCHANGED stream \/ stream' = [stream EXCEPT ![slot[w].msg].idle = FALSE]
  <2>1. stream' \in [Msg -> Entry]
    BY <1>3 DEF IInv, Shape, Entry
  <2>2. \A m \in Msg : stream'[m].crawl = stream[m].crawl /\ stream'[m].state = stream[m].state
    BY <1>3 DEF IInv, Shape, Entry
  <2> QED BY <1>1, <1>2, <1>3, <2>1, <2>2, LeaseMoves
<1>4. ASSUME NEW q \in {IdleSlot, [slot[w] EXCEPT !.hb = TRUE], [slot[w] EXCEPT !.pc = "save"],
                        [slot[w] EXCEPT !.pc = "release"]},
             slot' = [slot EXCEPT ![w] = q], UNCHANGED <<job, stream>>,
             slot[w].pc # "idle",
             q.pc \in {"idle", "crawl", "save", "ack", "release"},
             q.pc = "ack" => slot[w].pc = "ack"
      PROVE  IInv'
  <2>1. q \in SlotState
    BY <1>1, <1>4, NothingIsTyped DEF SlotState
  <2>2. q.pc # "idle" => q.msg = slot[w].msg /\ q.crawl = slot[w].crawl
    BY <1>1, <1>4 DEF IdleSlot, SlotState
  <2>3. q.pc = "ack" => job[q.crawl].result_summary
    BY <1>4, <2>2 DEF IInv, ResultInv
  <2> QED BY <1>2, <1>4, <2>1, <2>2, <2>3, SlotMoves
<1>5. CASE Heartbeat(w)
  <2>1. CASE job[c].status = "running"
    BY <1>3, <1>5, <2>1 DEF Heartbeat
  <2>2. CASE job[c].status # "running"
    <3>1. slot' = [slot EXCEPT ![w] = [slot[w] EXCEPT !.hb = TRUE]] /\ UNCHANGED <<job, stream>>
      BY <1>5, <2>2 DEF Heartbeat
    <3> QED BY <1>1, <1>4, <1>5, <3>1 DEF Heartbeat, Beating, Working, SlotState
  <2> QED BY <2>1, <2>2
<1>6. CASE HeartbeatFails(w)
  <2>1. slot' = [slot EXCEPT ![w] = [slot[w] EXCEPT !.hb = TRUE]] /\ UNCHANGED <<job, stream>>
    BY <1>6 DEF HeartbeatFails
  <2> QED BY <1>1, <1>4, <1>6, <2>1 DEF HeartbeatFails, Beating, Working, SlotState
<1>7. CASE CrawlEnds(w)
  <2>1. \/ slot' = [slot EXCEPT ![w] = [slot[w] EXCEPT !.pc = "save"]]
        \/ slot' = [slot EXCEPT ![w] = [slot[w] EXCEPT !.pc = "release"]]
    BY <1>7 DEF CrawlEnds
  <2> QED BY <1>1, <1>4, <1>7, <2>1 DEF CrawlEnds, SlotState
<1>8. CASE SavePage(w)
  BY <1>3, <1>8 DEF SavePage
<1>9. CASE SaveFails(w)
  <2>1. slot' = [slot EXCEPT ![w] = [slot[w] EXCEPT !.pc = "release"]]
    BY <1>9 DEF SaveFails
  <2> QED BY <1>1, <1>4, <1>9, <2>1 DEF SaveFails, SlotState
<1>10. CASE Crash(w)
  BY <1>4, <1>10 DEF Crash, Rest, IdleSlot
<1> QED BY <1>5, <1>6, <1>7, <1>8, <1>9, <1>10

\* The crawl's result and its final status are written together.
LEMMA CompleteStep == ASSUME IInv, NEW w \in Slot, Complete(w) PROVE IInv'
<1> DEFINE c == slot[w].crawl
<1> USE DEF IInv
<1>1. slot[w] \in SlotState /\ c \in Crawl /\ job[c] \in JobRow /\ UNCHANGED <<staged, stream>>
  BY DEF Shape, SlotState, Complete
<1>2. slot[w].pc = "save" /\ ~Locked(c)
  BY DEF Complete
<1>3. PICK outcome \in Terminal :
         job' = [job EXCEPT ![c] = [job[c] EXCEPT !.status = outcome, !.lease = "none",
                                                  !.result_summary = TRUE]]
  BY DEF Complete
<1>4. slot' = [slot EXCEPT ![w] = [slot[w] EXCEPT !.pc = "ack"]]
  BY DEF Complete
<1>5. [job[c] EXCEPT !.status = outcome, !.lease = "none", !.result_summary = TRUE] \in JobRow
  BY <1>1 DEF JobRow
<1>6. Shape'
  BY <1>1, <1>3, <1>4, <1>5 DEF Shape, SlotState
<1>7. ClaimInv'
  BY <1>1, <1>2, <1>3, <1>4 DEF ClaimInv, Locked, Shape, SlotState
<1>8. RunningIsLeased' /\ OneActivePerSite'
  BY <1>1, <1>3 DEF RunningIsLeased, OneActivePerSite, Shape, JobRow, Active, Terminal
<1>9. EntryInv'
  BY <1>1, <1>2, <1>4 DEF EntryInv, Shape, SlotState
<1>10. ResultInv'
  BY <1>1, <1>3, <1>4 DEF ResultInv, Shape, SlotState, JobRow
<1>11. LostOnlyAfterResult'
  BY <1>1, <1>3 DEF LostOnlyAfterResult, Delivers, Shape, JobRow, Active, Terminal
<1>12. KnownInv'
  BY <1>1, <1>2, <1>3, <1>4 DEF KnownInv, Delivers, Shape, SlotState, JobRow, Terminal
<1> QED BY <1>6, <1>7, <1>8, <1>9, <1>10, <1>11, <1>12

\* An ack, applied, refused or lost, comes after the result.
LEMMA AckStep == ASSUME IInv, NEW w \in Slot, Ack(w) \/ AckFails(w) PROVE IInv'
<1>1. slot[w] \in SlotState /\ slot[w].pc = "ack" /\ UNCHANGED <<job, staged>>
  BY DEF IInv, Shape, Ack, AckFails
<1>2. job[slot[w].crawl].result_summary
  BY <1>1 DEF IInv, ResultInv
<1>3. UNCHANGED stream \/ Acked(slot[w].msg)
  BY DEF Ack, AckFails
<1>4. CASE Ack(w)
  BY <1>1, <1>2, <1>3, <1>4, SlotMoves, NothingIsTyped DEF Ack, Rest, IdleSlot
<1>5. CASE AckFails(w)
  <2> DEFINE q == [slot[w] EXCEPT !.pc = "release"]
  <2>1. slot' = [slot EXCEPT ![w] = q]
    BY <1>5 DEF AckFails
  <2>2. q \in SlotState /\ q.pc = "release" /\ q.msg = slot[w].msg /\ q.crawl = slot[w].crawl
    BY <1>1 DEF SlotState
  <2> QED BY <1>1, <1>2, <1>3, <2>1, <2>2, SlotMoves
<1> QED BY <1>4, <1>5

\* A released row is queued only where the site is free, and keeps its entry.
LEMMA ReleaseStep == ASSUME IInv, NEW w \in Slot, Release(w) PROVE IInv'
<1> DEFINE c == slot[w].crawl
<1>1. slot[w] \in SlotState /\ c \in Crawl /\ job[c] \in JobRow /\ UNCHANGED <<staged, stream>>
  BY DEF IInv, Shape, SlotState, Release
<1>2. slot[w].pc = "release" /\ ~Locked(c) /\ slot' = [slot EXCEPT ![w] = IdleSlot]
  BY DEF Release, Rest
<1>3. CASE UNCHANGED job
  BY <1>1, <1>2, <1>3, SlotMoves, NothingIsTyped DEF IdleSlot
<1>4. CASE /\ job' = [job EXCEPT ![c] = [job[c] EXCEPT !.status = Released(c), !.lease = "none"]]
           /\ Released(c) = "queued" => SiteIsFree(c)
  <2> USE DEF IInv
  <2>1. Released(c) \in {"queued", "failed"}
    BY DEF Released
  <2>2. /\ job'[c].status = Released(c) /\ job'[c].attempts = job[c].attempts
        /\ job'[c].result_summary = job[c].result_summary
        /\ \A o \in Crawl \ {c} : job'[o] = job[o]
    BY <1>1, <1>4 DEF Shape, JobRow
  <2>3. [job[c] EXCEPT !.status = Released(c), !.lease = "none"] \in JobRow
    BY <1>1, <2>1 DEF JobRow, Active, Terminal
  <2>4. Shape'
    BY <1>1, <1>2, <1>4, <2>3, NothingIsTyped DEF Shape
  <2>5. ClaimInv'
    BY <1>1, <1>2, <2>2 DEF ClaimInv, Locked, Shape, SlotState, IdleSlot
  <2>6. RunningIsLeased'
    BY <2>1, <2>2 DEF RunningIsLeased
  <2>7. OneActivePerSite'
    BY <1>4, <2>1, <2>2 DEF OneActivePerSite, SiteIsFree, Active
  <2>8. EntryInv'
    BY <1>1, <1>2 DEF EntryInv, Shape, IdleSlot
  <2>9. ResultInv'
    BY <1>1, <1>2, <2>2 DEF ResultInv, Released, Terminal, Shape, SlotState, IdleSlot
  <2>10. LostOnlyAfterResult'
    <3>1. ASSUME job[c].attempts < MaxAttempts, ~job[c].result_summary PROVE Delivers(c)
      <4>1. job[c].status \in Active
        BY <1>1, <1>2, <3>1 DEF ResultInv, KnownInv, JobRow, MaxAttempts, Active, Terminal
      <4> QED BY <1>1, <3>1, <4>1 DEF LostOnlyAfterResult
    <3> QED BY <1>1, <2>2, <3>1 DEF LostOnlyAfterResult, Delivers
  <2>11. KnownInv'
    <3>1. \A o \in Crawl : job[o].status # "none" => job'[o].status # "none"
      BY <2>1, <2>2
    <3>2. \A v \in Slot : slot[v].crawl \in Crawl /\ slot'[v] \in {slot[v], IdleSlot}
      BY <1>2 DEF Shape, SlotState
    <3> QED BY <1>1, <3>1, <3>2 DEF KnownInv, Delivers, IdleSlot
  <2> QED BY <2>4, <2>5, <2>6, <2>7, <2>8, <2>9, <2>10, <2>11
<1> QED BY <1>3, <1>4 DEF Release

-----------------------------------------------------------------------------
\* Every step preserves the invariant.
LEMMA StepPreserves == IInv /\ [Next]_vars => IInv'
<1> SUFFICES ASSUME IInv, [Next]_vars PROVE IInv'
  OBVIOUS
<1>1. ASSUME NEW w \in Slot, SlotStep(w) PROVE IInv'
  BY <1>1, ReceiveStep, ClaimStep, ClaimCommitsStep, CrawlingStep, CompleteStep, AckStep,
     ReleaseStep DEF SlotStep, Progress
<1>2. ASSUME NEW c \in Crawl, CrawlStep(c) PROVE IInv'
  BY <1>2, RequestStep, PublishStep, ReapStep, ClockStep DEF CrawlStep
<1>3. ASSUME NEW m \in Msg, GoesIdle(m) PROVE IInv'
  BY <1>3, ClockStep
<1>4. CASE UNCHANGED vars
  BY <1>4 DEF vars, IInv, Shape, ClaimInv, RunningIsLeased, OneActivePerSite, EntryInv,
              ResultInv, KnownInv, LostOnlyAfterResult, Delivers
<1> QED BY <1>1, <1>2, <1>3, <1>4 DEF Next

\* The inductive invariant of the crawl pipeline holds in every state.
THEOREM CrawlInvariance == Spec => []IInv
<1>1. Init => IInv
  BY InitEstablishes
<1>2. IInv /\ [Next]_vars => IInv'
  BY StepPreserves
<1> QED BY <1>1, <1>2, PTL DEF Spec

\* No failure, however many happen, loses a request before it has a result.
THEOREM NotLostTheorem == Spec => []LostOnlyAfterResult
BY CrawlInvariance, PTL DEF IInv

\* A stale slot that writes over a later state never gives a site two active
\* crawls.
THEOREM OneActiveTheorem == Spec => []OneActivePerSite
BY CrawlInvariance, PTL DEF IInv

\* The reaper can see every running row's lease run out.
THEOREM LeaseTheorem == Spec => []RunningIsLeased
BY CrawlInvariance, PTL DEF IInv

-----------------------------------------------------------------------------
(* While heartbeats and acks work.                                         *)

\* A queued row may be tried again, and a row that does not exist never was.
UntriedInv ==
    \A c \in Crawl :
        /\ job[c].status = "queued" => job[c].attempts < MaxAttempts
        /\ job[c].status = "none" => job[c].attempts = 0 /\ ~job[c].result_summary

\* A slot past its claim has the row to itself, running and leased, until it is
\* completed; until then its heartbeat works.
Alone(w) == \A v \in Slot \ {w} :
    slot[v].pc \in {"claiming", "crawl", "save", "release"} => slot[v].crawl # slot[w].crawl

Holder(w) ==
    /\ slot[w].pc # "ack" => ~slot[w].hb
    /\ slot[w].pc \in {"crawl", "save", "release"} =>
          /\ job[slot[w].crawl].status = "running" /\ job[slot[w].crawl].lease = "live"
          /\ Alone(w)
    /\ slot[w].pc = "ack" => job[slot[w].crawl].status \in Terminal

HolderInv == \A w \in Slot : Holder(w)

\* A row has a result only once it ended.
UnfinishedInv == \A c \in Crawl : job[c].status \in Active => ~job[c].result_summary

QueueInv ==
    /\ IInv
    /\ UntriedInv
    /\ working => HolderInv /\ UnfinishedInv

\* The ways a row may change: it is requested, swept, claimed, completed or
\* released, and otherwise only its lease moves.
RowStep(c) ==
    \/ /\ job'[c].status = job[c].status /\ job'[c].attempts = job[c].attempts
       /\ job'[c].result_summary = job[c].result_summary /\ announced'[c] = announced[c]
    \/ /\ \/ job[c].status = "none" /\ job'[c].status = "queued"
          \/ job[c].status = "running" /\ job'[c].status = "failed"
          \/ /\ job[c].status = "running" /\ job'[c].status = "queued"
             /\ job[c].attempts < MaxAttempts
          \/ /\ job'[c].status = Released(c)
             /\ \E w \in Slot : slot[w].pc = "release" /\ slot[w].crawl = c
       /\ job'[c].attempts = job[c].attempts
       /\ job'[c].result_summary = job[c].result_summary /\ announced'[c] = announced[c]
    \/ /\ job[c].status \in Active /\ job'[c].status = "running"
       /\ job'[c].result_summary = job[c].result_summary /\ announced'[c] = announced[c]
    \/ /\ job'[c].status \in Terminal
       /\ \E w \in Slot : slot[w].pc = "save" /\ slot[w].crawl = c

\* Every step changes a row in one of these ways.
LEMMA RowsStep == ASSUME IInv, [Next]_vars, NEW c \in Crawl PROVE RowStep(c)
<1>0. ASSUME NEW w \in Slot, Complete(w)
      PROVE  \E outcome \in Terminal :
                job' = [job EXCEPT ![slot[w].crawl] =
                           [job[slot[w].crawl] EXCEPT !.status = outcome, !.lease = "none",
                                                      !.result_summary = TRUE]]
  BY <1>0 DEF Complete
<1> USE DEF IInv, Shape, RowStep
<1>1. ASSUME NEW o \in Crawl, CrawlStep(o) PROVE RowStep(c)
  <2>1. job[o] \in JobRow
    OBVIOUS
  <2> QED BY <1>1, <2>1 DEF CrawlStep, Request, Publish, LeaseLapses, GracePasses, Reap, JobRow
<1>2. ASSUME NEW w \in Slot, SlotStep(w) PROVE RowStep(c)
  <2> DEFINE o == slot[w].crawl
  <2>1. slot[w] \in SlotState /\ o \in Crawl /\ job[o] \in JobRow
    BY DEF SlotState
  <2>2. CASE ClaimCommits(w)
    <3>1. job[o].status \in Active
      BY <2>2 DEF ClaimInv, ClaimCommits
    <3> QED BY <2>1, <2>2, <3>1 DEF ClaimCommits, JobRow
  <2>3. CASE Heartbeat(w) \/ SavePage(w)
    BY <2>1, <2>3 DEF Heartbeat, SavePage, JobRow
  <2>4. CASE Complete(w)
    <3>1. PICK outcome \in Terminal :
             job' = [job EXCEPT ![o] = [job[o] EXCEPT !.status = outcome, !.lease = "none",
                                                      !.result_summary = TRUE]]
      BY <1>0, <2>4
    <3>2. \A x \in Crawl \ {o} : job'[x] = job[x] /\ announced'[x] = announced[x]
      BY <2>1, <2>4, <3>1 DEF Complete
    <3>3. job'[o].status \in Terminal
      BY <2>1, <3>1 DEF JobRow
    <3> QED BY <2>1, <2>4, <3>2, <3>3 DEF Complete
  <2>5. CASE Release(w)
    <3>1. UNCHANGED announced
      BY <2>5 DEF Release
    <3>2. UNCHANGED job
          \/ job' = [job EXCEPT ![o] = [job[o] EXCEPT !.status = Released(o), !.lease = "none"]]
      BY <2>5 DEF Release
    <3> QED BY <2>1, <2>5, <3>1, <3>2 DEF Release, JobRow
  <2>6. CASE \/ Receive(w) \/ Claim(w) \/ CrawlEnds(w) \/ SaveFails(w) \/ Ack(w)
             \/ HeartbeatFails(w) \/ AckFails(w) \/ Crash(w)
    BY <2>6 DEF Receive, Claim, CrawlEnds, SaveFails, Ack, HeartbeatFails, AckFails, Crash
  <2> QED BY <1>2, <2>2, <2>3, <2>4, <2>5, <2>6 DEF SlotStep, Progress
<1>3. ASSUME NEW m \in Msg, GoesIdle(m) PROVE RowStep(c)
  BY <1>3 DEF GoesIdle
<1>4. CASE UNCHANGED vars
  BY <1>4 DEF vars
<1> QED BY <1>1, <1>2, <1>3, <1>4 DEF Next

\* Only rows with attempts left are queued again.
LEMMA UntriedStep == ASSUME IInv, UntriedInv, [Next]_vars PROVE UntriedInv'
<1> SUFFICES ASSUME NEW c \in Crawl
    PROVE  /\ job'[c].status = "queued" => job'[c].attempts < MaxAttempts
           /\ job'[c].status = "none" => job'[c].attempts = 0 /\ ~job'[c].result_summary
  BY DEF UntriedInv
<1>1. job[c] \in JobRow /\ job'[c] \in JobRow
  BY StepPreserves DEF IInv, Shape
<1>2. RowStep(c)
  BY RowsStep
<1>3. \A w \in Slot : slot[w].pc = "release" /\ slot[w].crawl = c => job[c].status # "none"
  BY DEF IInv, KnownInv
<1> QED BY <1>1, <1>2, <1>3 DEF UntriedInv, RowStep, Released, JobRow, MaxAttempts, Active, Terminal

\* While working, what ended is written by nobody any more.
LEMMA FinishedStep ==
    ASSUME IInv, HolderInv, [Next]_vars, NEW c \in Crawl
    PROVE  StaysFinished(c)
<1>1. job[c] \in JobRow /\ RowStep(c)
  BY RowsStep DEF IInv, Shape
<1>2. \A w \in Slot : slot[w].pc \in {"save", "release"} /\ slot[w].crawl = c
                         => job[c].status = "running"
  BY DEF HolderInv, Holder
<1> QED BY <1>1, <1>2 DEF StaysFinished, RowStep, JobRow, Active, Terminal

\* A result is only written together with the end of its crawl.
LEMMA UnfinishedStep ==
    ASSUME IInv, UntriedInv, HolderInv, UnfinishedInv, [Next]_vars
    PROVE  UnfinishedInv'
<1> SUFFICES ASSUME NEW c \in Crawl, job'[c].status \in Active
    PROVE  ~job'[c].result_summary
  BY DEF UnfinishedInv
<1>1. job[c] \in JobRow /\ RowStep(c)
  BY RowsStep DEF IInv, Shape
<1>2. \A w \in Slot : slot[w].pc \in {"save", "release"} /\ slot[w].crawl = c
                         => job[c].status = "running"
  BY DEF HolderInv, Holder
<1> QED BY <1>1, <1>2 DEF UntriedInv, UnfinishedInv, RowStep, JobRow, Active, Terminal

-----------------------------------------------------------------------------
\* A step by which one slot reaches q leaves the other slots their rows, if
\* their rows are left alone and q is no second holder of them.
LEMMA OthersHold ==
    ASSUME Shape, HolderInv, NEW w \in Slot, NEW q \in SlotState,
           slot' = [slot EXCEPT ![w] = q],
           \A v \in Slot \ {w} :
              \/ /\ job'[slot[v].crawl].status = job[slot[v].crawl].status
                 /\ job'[slot[v].crawl].lease = job[slot[v].crawl].lease
              \/ slot[v].pc \notin {"crawl", "save", "release", "ack"},
           q.pc \in {"claiming", "crawl", "save", "release"} =>
              \/ q.crawl = slot[w].crawl /\ slot[w].pc \in {"claiming", "crawl", "save", "release"}
              \/ \A v \in Slot \ {w} : slot[v].pc \in {"crawl", "save", "release"}
                                          => slot[v].crawl # q.crawl,
           Holder(w)'
    PROVE  HolderInv'
<1> SUFFICES ASSUME NEW v \in Slot \ {w} PROVE Holder(v)'
  BY DEF HolderInv
<1>1. slot'[v] = slot[v] /\ slot'[w] = q /\ \A u \in Slot \ {w} : slot'[u] = slot[u]
  BY DEF Shape
<1>2. Holder(v)
  BY DEF HolderInv
<1>3. slot[v].pc \in {"crawl", "save", "release"} => Alone(v)'
  BY <1>1, <1>2 DEF Holder, Alone
<1> QED BY <1>1, <1>2, <1>3 DEF Holder

\* The API, the relay, the reaper and the clock take no row from its holder.
LEMMA CrawlHolds ==
    ASSUME IInv, HolderInv, NEW c \in Crawl, CrawlStep(c)
    PROVE  HolderInv'
<1> SUFFICES ASSUME NEW w \in Slot PROVE Holder(w)'
  BY DEF HolderInv
<1>1. UNCHANGED slot
  BY DEF CrawlStep, Request, Publish, LeaseLapses, GracePasses, Reap
<1>2. Holder(w) /\ slot[w] \in SlotState /\ job[c] \in JobRow /\ job \in [Crawl -> JobRow]
  BY DEF HolderInv, IInv, Shape
<1>3. Alone(w)' <=> Alone(w)
  BY <1>1 DEF Alone
<1>4. \A o \in Crawl \ {c} : job'[o] = job[o]
  BY <1>2 DEF CrawlStep, Request, Publish, LeaseLapses, GracePasses, Reap
<1>5. CASE slot[w].crawl # c
  BY <1>1, <1>2, <1>3, <1>4, <1>5 DEF Holder, SlotState
<1>6. CASE slot[w].crawl = c
  <2>1. slot[w].pc \in {"crawl", "save", "release"} => UNCHANGED job
    BY <1>2, <1>6 DEF Holder, CrawlStep, Request, Publish, LeaseLapses, GracePasses, Reap,
                      Beating, Working
  <2>2. slot[w].pc = "ack" => job'[c].status = job[c].status
    BY <1>2, <1>6 DEF Holder, CrawlStep, Request, Publish, LeaseLapses, GracePasses, Reap,
                      Terminal, JobRow
  <2> QED BY <1>1, <1>2, <1>3, <1>6, <2>1, <2>2 DEF Holder
<1> QED BY <1>5, <1>6

\* Taking an entry, claiming, resting and dying write no row.
LEMMA RestHolds ==
    ASSUME IInv, HolderInv, NEW w \in Slot,
           Receive(w) \/ Claim(w) \/ Ack(w) \/ Crash(w)
    PROVE  HolderInv'
<1> DEFINE c == slot[w].crawl
<1>1. Shape /\ slot[w] \in SlotState /\ UNCHANGED job
  BY DEF IInv, Shape, Receive, Claim, Ack, Crash
<1>2. CASE slot' = [slot EXCEPT ![w] = IdleSlot]
  <2>1. Holder(w)'
    BY <1>1, <1>2 DEF Holder, IdleSlot, Shape
  <2> QED BY <1>1, <1>2, <2>1, OthersHold, NothingIsTyped DEF IdleSlot
<1>3. CASE Receive(w)
  <2>1. PICK m \in Msg :
           slot' = [slot EXCEPT ![w] = [IdleSlot EXCEPT !.pc = "claim", !.msg = m,
                                                        !.crawl = stream[m].crawl]]
    BY <1>3 DEF Receive
  <2> DEFINE q == [IdleSlot EXCEPT !.pc = "claim", !.msg = m, !.crawl = stream[m].crawl]
  <2>2. q \in SlotState /\ q.pc = "claim" /\ ~q.hb
    BY <1>1, NothingIsTyped DEF IdleSlot, SlotState, Shape, Entry
  <2>3. Holder(w)'
    BY <1>1, <2>1, <2>2 DEF Holder, Shape
  <2> HIDE DEF q
  <2> QED BY <1>1, <2>1, <2>2, <2>3, OthersHold DEF q
<1>4. CASE slot' = [slot EXCEPT ![w].pc = "claiming"] /\ Claimable(c) /\ slot[w].pc = "claim"
  <2> DEFINE q == [slot[w] EXCEPT !.pc = "claiming"]
  <2>1. q \in SlotState /\ q.pc = "claiming" /\ q.crawl = c /\ q.hb = slot[w].hb
    BY <1>1 DEF SlotState
  <2>2. slot' = [slot EXCEPT ![w] = q]
    BY <1>4
  <2>3. Holder(w)'
    BY <1>1, <1>4, <2>1, <2>2 DEF HolderInv, Holder, Shape
  <2>4. \A v \in Slot \ {w} : slot[v].pc \in {"crawl", "save", "release"} => slot[v].crawl # c
    BY <1>4 DEF HolderInv, Holder, Claimable
  <2> HIDE DEF q
  <2> QED BY <1>1, <2>1, <2>2, <2>3, <2>4, OthersHold
<1> QED BY <1>2, <1>3, <1>4 DEF Claim, Ack, Crash, Rest

\* The claim that commits is the only one at its row.
LEMMA CommitHolds == ASSUME IInv, HolderInv, NEW w \in Slot, ClaimCommits(w) PROVE HolderInv'
<1> DEFINE c == slot[w].crawl
           q == [slot[w] EXCEPT !.pc = "crawl"]
<1>1. /\ Shape /\ slot[w] \in SlotState /\ c \in Crawl /\ job[c] \in JobRow
      /\ slot[w].pc = "claiming" /\ job[c].status \in Active
  BY DEF IInv, Shape, SlotState, ClaimCommits, ClaimInv
<1>2. q \in SlotState /\ q.pc = "crawl" /\ q.crawl = c /\ q.hb = slot[w].hb
  BY <1>1 DEF SlotState
<1>3. slot' = [slot EXCEPT ![w] = q]
  BY DEF ClaimCommits
<1>4. job' = [job EXCEPT ![c] = [job[c] EXCEPT !.status = "running", !.attempts = @ + 1,
                                               !.lease = "live"]]
  BY DEF ClaimCommits
<1>5. \A v \in Slot \ {w} :
         slot[v].pc \in {"claiming", "crawl", "save", "release", "ack"} => slot[v].crawl # c
  BY <1>1 DEF IInv, ClaimInv, HolderInv, Holder, Alone, Active, Terminal
<1>6. job'[c].status = "running" /\ job'[c].lease = "live"
  BY <1>1, <1>4 DEF Shape, JobRow
<1>7. Alone(w)'
  BY <1>1, <1>2, <1>3, <1>5 DEF Alone, Shape
<1>8. Holder(w)'
  BY <1>1, <1>2, <1>3, <1>6, <1>7 DEF HolderInv, Holder, Shape
<1>9. \A v \in Slot \ {w} : \/ job'[slot[v].crawl] = job[slot[v].crawl]
                            \/ slot[v].pc \notin {"crawl", "save", "release", "ack"}
  BY <1>1, <1>4, <1>5 DEF Shape, SlotState
<1> HIDE DEF q
<1> QED BY <1>1, <1>2, <1>3, <1>8, <1>9, OthersHold

\* Crawling on, the slot keeps its row; only a failed heartbeat marks it.
LEMMA CrawlingHolds ==
    ASSUME IInv, HolderInv, NEW w \in Slot, ~Fault(w),
           \/ Heartbeat(w) \/ HeartbeatFails(w) \/ CrawlEnds(w) \/ SavePage(w) \/ SaveFails(w)
    PROVE  HolderInv'
<1> DEFINE c == slot[w].crawl
<1>1. Shape /\ slot[w] \in SlotState /\ c \in Crawl /\ job[c] \in JobRow /\ Holder(w)
  BY DEF IInv, Shape, SlotState, HolderInv
<1>2. CASE UNCHANGED slot /\ job' = [job EXCEPT ![c].lease = "live"]
  <2>1. \A o \in Crawl : /\ job'[o].status = job[o].status
                         /\ job'[o].lease \in {job[o].lease, "live"}
    BY <1>1, <1>2 DEF Shape, JobRow
  <2>2. \A v \in Slot : slot[v].crawl \in Crawl /\ slot'[v] = slot[v]
    BY <1>1, <1>2 DEF Shape, SlotState
  <2> QED BY <2>1, <2>2 DEF HolderInv, Holder, Alone
<1>3. ASSUME NEW q \in {[slot[w] EXCEPT !.pc = "save"], [slot[w] EXCEPT !.pc = "release"]},
             slot' = [slot EXCEPT ![w] = q], slot[w].pc \in {"crawl", "save"}, UNCHANGED job
      PROVE  HolderInv'
  <2>1. q \in SlotState /\ q.pc \in {"save", "release"} /\ q.crawl = c /\ q.hb = slot[w].hb
    BY <1>1, <1>3 DEF SlotState
  <2>2. Alone(w)'
    BY <1>1, <1>3, <2>1 DEF Holder, Alone, Shape
  <2>3. Holder(w)'
    BY <1>1, <1>3, <2>1, <2>2 DEF Holder, Shape
  <2> QED BY <1>1, <1>3, <2>1, <2>3, OthersHold
<1>4. CASE slot' = [slot EXCEPT ![w].hb = TRUE] /\ Beating(w) /\ UNCHANGED job
  <2> DEFINE q == [slot[w] EXCEPT !.hb = TRUE]
  <2>1. q \in SlotState /\ q.pc = slot[w].pc /\ q.crawl = c /\ q.hb /\ slot'[w] = q
    BY <1>1, <1>4 DEF Shape, SlotState
  <2>2. slot[w].pc = "ack"
    BY <1>4, <2>1 DEF Fault, Beating
  <2>3. Holder(w)'
    BY <1>1, <1>4, <2>1, <2>2 DEF Holder
  <2>4. slot' = [slot EXCEPT ![w] = q]
    BY <1>4
  <2> HIDE DEF q
  <2> QED BY <1>1, <1>4, <2>1, <2>2, <2>3, <2>4, OthersHold
<1>5. CASE CrawlEnds(w)
  <2>1. \/ slot' = [slot EXCEPT ![w] = [slot[w] EXCEPT !.pc = "save"]]
        \/ slot' = [slot EXCEPT ![w] = [slot[w] EXCEPT !.pc = "release"]]
    BY <1>5 DEF CrawlEnds
  <2> QED BY <1>3, <1>5, <2>1 DEF CrawlEnds
<1>6. CASE SaveFails(w)
  <2>1. slot' = [slot EXCEPT ![w] = [slot[w] EXCEPT !.pc = "release"]]
    BY <1>6 DEF SaveFails
  <2> QED BY <1>3, <1>6, <2>1 DEF SaveFails
<1> QED BY <1>2, <1>4, <1>5, <1>6 DEF Heartbeat, HeartbeatFails, SavePage

\* Only the holder writes the final status, or gives the row back.
LEMMA EndHolds ==
    ASSUME IInv, HolderInv, NEW w \in Slot, Complete(w) \/ Release(w)
    PROVE  HolderInv'
<1> DEFINE c == slot[w].crawl
<1>1. /\ Shape /\ slot[w] \in SlotState /\ c \in Crawl /\ job[c] \in JobRow
      /\ slot[w].pc \in {"save", "release"} /\ Holder(w) /\ ~Locked(c)
  BY DEF IInv, Shape, SlotState, HolderInv, Complete, Release
<1>2. \A v \in Slot \ {w} :
         slot[v].pc \in {"claiming", "crawl", "save", "release", "ack"} => slot[v].crawl # c
  BY <1>1 DEF HolderInv, Holder, Alone, Terminal
<1>3. \A o \in Crawl \ {c} : job'[o] = job[o]
  BY <1>1 DEF Complete, Release, Shape
<1>4. \A v \in Slot \ {w} : \/ job'[slot[v].crawl] = job[slot[v].crawl]
                            \/ slot[v].pc \notin {"crawl", "save", "release", "ack"}
  BY <1>1, <1>2, <1>3 DEF Shape, SlotState
<1>5. CASE Complete(w)
  <2> DEFINE q == [slot[w] EXCEPT !.pc = "ack"]
  <2>1. q \in SlotState /\ q.pc = "ack" /\ q.crawl = c
    BY <1>1 DEF SlotState
  <2>2. slot' = [slot EXCEPT ![w] = q]
    BY <1>5 DEF Complete
  <2>3. PICK outcome \in Terminal :
           job' = [job EXCEPT ![c] = [job[c] EXCEPT !.status = outcome, !.lease = "none",
                                                    !.result_summary = TRUE]]
    BY <1>5 DEF Complete
  <2>4. Holder(w)'
    BY <1>1, <2>1, <2>2, <2>3 DEF Holder, Shape, JobRow
  <2> HIDE DEF q
  <2> QED BY <1>1, <1>4, <2>1, <2>2, <2>4, OthersHold
<1>6. CASE Release(w)
  <2>1. slot' = [slot EXCEPT ![w] = IdleSlot]
    BY <1>6 DEF Release, Rest
  <2>2. Holder(w)'
    BY <1>1, <2>1 DEF Holder, IdleSlot, Shape
  <2> QED BY <1>1, <1>4, <2>1, <2>2, OthersHold, NothingIsTyped DEF IdleSlot
<1> QED BY <1>5, <1>6

\* While heartbeats and acks work, every step leaves each slot its row.
LEMMA HolderStep ==
    ASSUME IInv, HolderInv, [Next]_vars, \A w \in Slot : ~Fault(w)
    PROVE  HolderInv'
<1>1. ASSUME NEW w \in Slot, SlotStep(w) PROVE HolderInv'
  <2>1. ~AckFails(w)
    <3>1. slot[w] \in SlotState
      BY DEF IInv, Shape
    <3> QED BY <3>1 DEF AckFails, Fault, IInv, Shape, SlotState
  <2> QED BY <1>1, <2>1, RestHolds, CommitHolds, CrawlingHolds, EndHolds DEF SlotStep, Progress
<1>2. ASSUME NEW c \in Crawl, CrawlStep(c) PROVE HolderInv'
  BY <1>2, CrawlHolds
<1>3. ASSUME NEW m \in Msg, GoesIdle(m) PROVE HolderInv'
  BY <1>3 DEF GoesIdle, HolderInv, Holder, Alone
<1>4. CASE UNCHANGED vars
  BY <1>4 DEF vars, HolderInv, Holder, Alone
<1> QED BY <1>1, <1>2, <1>3, <1>4 DEF Next

-----------------------------------------------------------------------------
\* The invariant of the pipeline, and what it adds while heartbeats and acks
\* work, hold in every state.
THEOREM QueueInvariance == QueueSpec => []QueueInv
<1>1. QueueInit => QueueInv
  <2> SUFFICES ASSUME QueueInit PROVE QueueInv
    OBVIOUS
  <2>1. IInv
    BY InitEstablishes DEF QueueInit
  <2>2. UntriedInv /\ HolderInv /\ UnfinishedInv
    BY DEF QueueInit, Init, UntriedInv, HolderInv, Holder, UnfinishedInv, IdleSlot, Active, MaxAttempts
  <2> QED BY <2>1, <2>2 DEF QueueInv
<1>2. QueueInv /\ [QueueNext]_<<vars, working>> => QueueInv'
  <2> SUFFICES ASSUME QueueInv, [QueueNext]_<<vars, working>> PROVE QueueInv'
    OBVIOUS
  <2>1. [Next]_vars
    BY DEF QueueNext
  <2>2. working' => working /\ (UNCHANGED vars \/ \A w \in Slot : ~Fault(w))
    BY DEF QueueNext
  <2>3. IInv' /\ UntriedInv'
    BY <2>1, StepPreserves, UntriedStep DEF QueueInv
  <2>4. ASSUME working' PROVE UnfinishedInv'
    BY <2>1, <2>2, <2>4, UnfinishedStep DEF QueueInv
  <2>5. ASSUME working' PROVE HolderInv'
    <3>1. CASE UNCHANGED vars
      BY <2>2, <2>5, <3>1 DEF vars, QueueInv, HolderInv, Holder, Alone
    <3>2. CASE \A w \in Slot : ~Fault(w)
      BY <2>1, <2>2, <2>5, <3>2, HolderStep DEF QueueInv
    <3> QED BY <2>2, <2>5, <3>1, <3>2
  <2> QED BY <2>3, <2>4, <2>5 DEF QueueInv
<1> QED BY <1>1, <1>2, PTL DEF QueueSpec

\* While heartbeats and acks work, no crash, lost publication or double delivery
\* leaves a queued row without the event that picks it up.
THEOREM DeliveryTheorem == QueueSpec => []QueueIsDelivered
<1>1. QueueInv => QueueIsDelivered
  BY DEF QueueInv, IInv, UntriedInv, UnfinishedInv, LostOnlyAfterResult, QueueIsDelivered,
         QueuedHasDelivery, Active
<1> QED BY <1>1, QueueInvariance, PTL

\* While they work, a crawl that ended stays as it ended and is announced once,
\* whatever dies and is published or delivered twice.
THEOREM FinishedTheorem == QueueSpec => FinishedStaysFinished
<1>1. QueueInv /\ [QueueNext]_<<vars, working>>
         => [working' => \A c \in Crawl : StaysFinished(c)]_<<vars, working>>
  <2> SUFFICES ASSUME QueueInv, QueueNext, working' PROVE \A c \in Crawl : StaysFinished(c)
    OBVIOUS
  <2> QED BY FinishedStep DEF QueueInv, QueueNext
<1> QED BY <1>1, QueueInvariance, PTL DEF QueueSpec, FinishedStaysFinished

=============================================================================
