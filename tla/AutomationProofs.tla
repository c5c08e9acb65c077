-------------------------- MODULE AutomationProofs --------------------------
(***************************************************************************)
(* Proofs about what a workspace's processes do on their own:              *)
(* ConnectorSync, Outcomes, Notifications and PageSpeed, and the four side *)
(* by side in MCAutomation, for every number of consumers, syncs, days,    *)
(* pages, changes, receipts, reports, attempts and deaths.                 *)
(*                                                                         *)
(* They are about a lease or a lock that does not hold: two consumers at   *)
(* one sync, a sweep that died, two dispatchers with one report in hand.   *)
(* The invariants say what each actor may rely on all the same.            *)
(***************************************************************************)
EXTENDS MCAutomation, TLAPS, FiniteSetTheorems

-----------------------------------------------------------------------------
(* ConnectorSync.  Two consumers may be at one sync, the earlier one       *)
(* unaware of the later.  What makes that harmless is true of each of them *)
(* alone: all the rows behind the place it has reached are stored, and the *)
(* days it counts are the days behind that place.  A checkpoint then       *)
(* writes a cursor of which the same is true, whoever leaves it and        *)
(* however late.                                                           *)

Finish == [day |-> Days + 1, page |-> 0]

\* Every page of connector c before the place at is among the stored ones.
HasAll(stored, c, at) ==
    \A d \in Day, p \in 1..Pages :
       d < at.day \/ (d = at.day /\ p <= at.page) => <<c, d, p>> \in stored

\* What is true of a row of connector_sync.
RowOK(s) ==
    /\ HasAll(metrics, ConnectorOf[s], sync[s].cursor)
    /\ sync[s].status = "completed" => HasAll(metrics, ConnectorOf[s], Finish)
    /\ sync[s].days = IF sync[s].status = "completed" THEN Days ELSE sync[s].cursor.day - 1

\* What is true of a consumer at work.
ConsumerOK(w) ==
    consumer[w].pc # "idle" =>
       /\ HasAll(metrics, ConnectorOf[consumer[w].entry[1]], consumer[w].at)
       /\ consumer[w].pc = "fetch" => consumer[w].at.day <= Days
       /\ consumer[w].pc = "complete" => consumer[w].at.day = Days + 1
       /\ consumer[w].base + consumer[w].own = consumer[w].at.day - 1

\* The inductive invariant.
SyncInv ==
    /\ SyncTypeOK
    /\ \A s \in Sync : RowOK(s)
    /\ \A w \in Worker : ConsumerOK(w)

-----------------------------------------------------------------------------
\* Rows are only added, so what is stored stays stored.
LEMMA HoldsStays ==
    ASSUME NEW c, NEW at, NEW old, NEW new, old \subseteq new, HasAll(old, c, at)
    PROVE  HasAll(new, c, at)
BY DEF HasAll

\* A place past the end has everything behind it.
LEMMA HoldsAtEnd ==
    ASSUME NEW c, NEW stored, NEW at, at.day = Days + 1, HasAll(stored, c, at)
    PROVE  /\ HasAll(stored, c, Finish)
           /\ \A d \in Day, p \in 1..Pages : <<c, d, p>> \in stored
BY SyncAssumption DEF SyncAssumption, HasAll, Finish, Day

\* One page further, and the page itself stored, the place reached is still one of
\* which everything behind is there: for the empty page that ends a day of Search
\* Console and for the total that ends one of Analytics.
LEMMA StepHolds ==
    ASSUME NEW c \in Connector, NEW at \in Cursor, at.day <= Days, NEW stored, HasAll(stored, c, at),
           NEW new,
           new = IF at.page < Pages THEN stored \cup {<<c, at.day, at.page + 1>>} ELSE stored
    PROVE  /\ Step(c, at) \in Cursor
           /\ Step(c, at).day \in {at.day, at.day + 1}
           /\ HasAll(new, c, Step(c, at)) /\ stored \subseteq new
<1> USE SyncAssumption DEF SyncAssumption
<1>0. at = [day |-> at.day, page |-> at.page] /\ at.day \in 1..Days /\ at.page \in 0..Pages
  BY DEF Cursor
<1>1. CASE Step(c, at) = [at EXCEPT !.page = at.page + 1] /\ at.page < Pages
  <2>1. Step(c, at) = [day |-> at.day, page |-> at.page + 1]
    BY <1>0, <1>1
  <2>2. HasAll(new, c, Step(c, at))
    BY <1>0, <1>1, <2>1 DEF HasAll, Day
  <2> QED BY <1>0, <1>1, <2>1, <2>2 DEF Cursor
<1>2. CASE Step(c, at) = [day |-> at.day + 1, page |-> 0] /\ at.page + 1 >= Pages
  <2>1. HasAll(new, c, Step(c, at))
    BY <1>0, <1>2 DEF HasAll, Day
  <2> QED BY <1>0, <1>2, <2>1 DEF Cursor
<1> QED BY <1>0, <1>1, <1>2 DEF Step, LandingStep, SearchStep

\* A consumer at rest is in one of the states a consumer can be in.
LEMMA WaitingIsConsumer == Waiting \in ConsumerState /\ Waiting.pc = "idle"
<1>1. (CHOOSE s \in Sync : TRUE) \in Sync
  BY SyncAssumption DEF SyncAssumption
<1> QED BY <1>1, SyncAssumption DEF SyncAssumption, Waiting, ConsumerState, Cursor, Start, Copy

\* At first no sync has stored or counted a day.
LEMMA SyncInitEstablishes == SyncInit => SyncInv
<1> SUFFICES ASSUME SyncInit PROVE SyncInv
  OBVIOUS
<1> USE SyncAssumption DEF SyncAssumption, SyncInit
<1>1. SyncTypeOK
  BY WaitingIsConsumer DEF SyncTypeOK, SyncRow, Cursor, Start, Ended
<1>2. \A s \in Sync : RowOK(s)
  BY DEF RowOK, HasAll, Start, Day
<1>3. \A w \in Worker : ConsumerOK(w)
  BY WaitingIsConsumer DEF ConsumerOK
<1> QED BY <1>1, <1>2, <1>3 DEF SyncInv

-----------------------------------------------------------------------------
\* Rows that stay as they are, or lose only their lease or move to a status that is
\* not completed, keep what is true of them, whatever more is stored.
LEMMA RowKept ==
    ASSUME SyncInv, NEW s \in Sync, metrics \subseteq metrics',
           sync'[s].cursor = sync[s].cursor, sync'[s].days = sync[s].days,
           sync'[s].status = "completed" <=> sync[s].status = "completed"
    PROVE  RowOK(s)'
BY DEF SyncInv, RowOK, HasAll

\* A consumer that stands still, goes idle or goes to ack holds no more than before,
\* and the rows behind it are only ever added to.
LEMMA ConsumerKept ==
    ASSUME SyncInv, NEW w \in Worker, metrics \subseteq metrics',
           \/ consumer'[w] = consumer[w]
           \/ consumer'[w].pc = "idle"
           \/ /\ consumer'[w].pc = "ack" /\ consumer[w].pc # "idle"
              /\ consumer'[w].entry = consumer[w].entry /\ consumer'[w].at = consumer[w].at
              /\ consumer'[w].base = consumer[w].base /\ consumer'[w].own = consumer[w].own
    PROVE  ConsumerOK(w)'
BY DEF SyncInv, ConsumerOK, HasAll

RowStatus == {"none", "queued", "running"} \cup Ended
ConsumerPc == {"idle", "fetch", "checkpoint", "complete", "fail", "ack"}

\* A write of the status or the lease of one row, and what it leaves alone.
LEMMA StatusWritten ==
    ASSUME SyncTypeOK, NEW s \in Sync, NEW st \in RowStatus, NEW l \in BOOLEAN,
           \/ sync' = [sync EXCEPT ![s].status = st]
           \/ sync' = [sync EXCEPT ![s].lease = l] /\ st = sync[s].status
           \/ sync' = [sync EXCEPT ![s].status = st, ![s].lease = l]
    PROVE  /\ sync' \in [Sync -> SyncRow] /\ sync'[s].status = st
           /\ sync'[s].cursor = sync[s].cursor /\ sync'[s].days = sync[s].days
           /\ \A x \in Sync \ {s} : sync'[x] = sync[x]
<1>1. CASE sync' = [sync EXCEPT ![s].status = st]
  BY <1>1 DEF SyncTypeOK, SyncRow, RowStatus
<1>2. CASE sync' = [sync EXCEPT ![s].lease = l] /\ st = sync[s].status
  BY <1>2 DEF SyncTypeOK, SyncRow
<1>3. CASE sync' = [sync EXCEPT ![s].status = st, ![s].lease = l]
  <2> DEFINE new == [sync[s] EXCEPT !.status = st, !.lease = l]
  <2>1. sync[s] \in SyncRow
    BY DEF SyncTypeOK
  <2>2. new \in SyncRow /\ new.status = st /\ new.cursor = sync[s].cursor /\ new.days = sync[s].days
    BY <2>1 DEF SyncRow, RowStatus
  <2>3. sync' = [sync EXCEPT ![s] = new]
    BY <1>3 DEF SyncTypeOK
  <2> HIDE DEF new
  <2> QED BY <2>2, <2>3 DEF SyncTypeOK
<1> QED BY <1>1, <1>2, <1>3

\* A consumer that only moves on.
LEMMA ConsumerMoves ==
    ASSUME SyncTypeOK, NEW w \in Worker, NEW pc \in ConsumerPc,
           consumer' = [consumer EXCEPT ![w].pc = pc]
    PROVE  /\ consumer' \in [Worker -> ConsumerState] /\ consumer'[w].pc = pc
           /\ consumer'[w].entry = consumer[w].entry /\ consumer'[w].at = consumer[w].at
           /\ consumer'[w].base = consumer[w].base /\ consumer'[w].own = consumer[w].own
           /\ \A x \in Worker \ {w} : consumer'[x] = consumer[x]
BY DEF SyncTypeOK, ConsumerState, ConsumerPc

\* No step breaks the invariant.
LEMMA SyncStep == SyncInv /\ [SyncNext]_syncVars => SyncInv'
<1> SUFFICES ASSUME SyncInv, [SyncNext]_syncVars PROVE SyncInv'
  OBVIOUS
<1> USE SyncAssumption DEF SyncAssumption
<1>0. SyncTypeOK /\ (\A s \in Sync : RowOK(s)) /\ (\A w \in Worker : ConsumerOK(w))
  BY DEF SyncInv
<1>1. CASE UNCHANGED syncVars
  <2>1. SyncTypeOK'
    BY <1>0, <1>1 DEF syncVars, SyncTypeOK
  <2>2. (\A s \in Sync : RowOK(s)') /\ (\A w \in Worker : ConsumerOK(w)')
    BY <1>1, RowKept, ConsumerKept DEF syncVars
  <2> QED BY <2>1, <2>2 DEF SyncInv
<1>2. ASSUME NEW s \in Sync, CreateSync(s) PROVE SyncInv'
  <2>0. /\ sync' \in [Sync -> SyncRow] /\ sync'[s].status = "queued" /\ sync[s].status = "none"
        /\ sync'[s].cursor = sync[s].cursor /\ sync'[s].days = sync[s].days
        /\ \A x \in Sync \ {s} : sync'[x] = sync[x]
    BY <1>0, <1>2, StatusWritten DEF CreateSync, RowStatus
  <2>1. SyncTypeOK'
    <3>1. entry' \in [Sync \X Copy -> {"none", "new", "pending", "acked"}]
      BY <1>0, <1>2 DEF CreateSync, SyncTypeOK
    <3> QED BY <1>0, <1>2, <2>0, <3>1 DEF CreateSync, SyncTypeOK
  <2>2. \A x \in Sync : RowOK(x)'
    BY <1>2, <2>0, RowKept DEF CreateSync
  <2>3. \A w \in Worker : ConsumerOK(w)'
    BY <1>2, ConsumerKept DEF CreateSync
  <2> QED BY <2>1, <2>2, <2>3 DEF SyncInv
<1>3. ASSUME NEW s \in Sync, Lapse(s) \/ Reap(s) PROVE SyncInv'
  <2>0. /\ sync' \in [Sync -> SyncRow]
        /\ sync'[s].status \in {"running", "failed"} /\ sync[s].status = "running"
        /\ sync'[s].cursor = sync[s].cursor /\ sync'[s].days = sync[s].days
        /\ \A x \in Sync \ {s} : sync'[x] = sync[x]
    BY <1>0, <1>3, StatusWritten DEF Lapse, Reap, RowStatus, Ended
  <2>1. SyncTypeOK'
    BY <1>0, <1>3, <2>0 DEF Lapse, Reap, SyncTypeOK
  <2>2. \A x \in Sync : RowOK(x)'
    BY <1>3, <2>0, RowKept DEF Lapse, Reap
  <2>3. \A w \in Worker : ConsumerOK(w)'
    BY <1>3, ConsumerKept DEF Lapse, Reap
  <2> QED BY <2>1, <2>2, <2>3 DEF SyncInv
<1>4. ASSUME NEW c \in Connector, ToggleConnector(c) PROVE SyncInv'
  <2>1. SyncTypeOK'
    BY <1>0, <1>4 DEF ToggleConnector, SyncTypeOK
  <2>2. (\A s \in Sync : RowOK(s)') /\ (\A w \in Worker : ConsumerOK(w)')
    BY <1>4, RowKept, ConsumerKept DEF ToggleConnector
  <2> QED BY <2>1, <2>2 DEF SyncInv
<1>5. ASSUME NEW w \in Worker, NEW e \in Sync \X Copy, Claim(w, e) PROVE SyncInv'
  <2> DEFINE s == e[1]
  <2>1. /\ s \in Sync /\ sync[s] \in SyncRow /\ sync[s].cursor \in Cursor
        /\ sync[s].cursor.day \in 1..(Days + 1) /\ sync[s].days \in 0..Days
    BY <1>0 DEF SyncTypeOK, SyncRow, Cursor
  <2>2. sync[s].status \in {"queued", "running"}
    BY <1>5 DEF Claim, Claimable
  <2>3. /\ metrics' = metrics /\ UNCHANGED <<analytics, active, told, deaths>>
        /\ sync' = [sync EXCEPT ![s].status = "running", ![s].lease = TRUE]
        /\ entry' = [entry EXCEPT ![e] = "pending"]
        /\ consumer' = [consumer EXCEPT ![w] =
                          [pc |-> FirstStep(s), entry |-> e, at |-> sync[s].cursor,
                           base |-> sync[s].days, own |-> 0]]
    BY <1>5 DEF Claim
  <2> HIDE DEF s
  <2>4. /\ sync' \in [Sync -> SyncRow] /\ sync'[s].status = "running"
        /\ sync'[s].cursor = sync[s].cursor /\ sync'[s].days = sync[s].days
        /\ \A x \in Sync \ {s} : sync'[x] = sync[x]
    BY <1>0, <2>1, <2>3, StatusWritten DEF RowStatus
  <2>5. SyncTypeOK' /\ \A x \in Sync : RowOK(x)'
    <3>1. consumer' \in [Worker -> ConsumerState]
      BY <1>0, <2>1, <2>3 DEF SyncTypeOK, ConsumerState, FirstStep
    <3>2. \A x \in Sync : RowOK(x)'
      BY <2>1, <2>2, <2>3, <2>4, RowKept
    <3> QED BY <1>0, <2>3, <2>4, <3>1, <3>2 DEF SyncTypeOK
  <2>6. ConsumerOK(w)'
    BY <1>0, <2>1, <2>2, <2>3 DEF SyncTypeOK, RowOK, ConsumerOK, FirstStep, Cursor, s
  <2>7. ASSUME NEW x \in Worker \ {w} PROVE ConsumerOK(x)'
    BY <1>0, <2>3, ConsumerKept DEF SyncTypeOK
  <2> QED BY <2>5, <2>6, <2>7 DEF SyncInv
<1>6. ASSUME NEW w \in Worker, NEW e \in Sync \X Copy, Decline(w, e) PROVE SyncInv'
  <2>1. SyncTypeOK'
    BY <1>0, <1>6 DEF Decline, SyncTypeOK
  <2>2. (\A s \in Sync : RowOK(s)') /\ (\A x \in Worker : ConsumerOK(x)')
    BY <1>6, RowKept, ConsumerKept DEF Decline
  <2> QED BY <2>1, <2>2 DEF SyncInv
<1>7. ASSUME NEW w \in Worker, Page(w) PROVE SyncInv'
  <2>0. PICK c \in Connector, at \in Cursor :
           c = ConnectorOf[consumer[w].entry[1]] /\ at = consumer[w].at
    BY <1>0 DEF SyncTypeOK, ConsumerState
  <2>1. /\ consumer[w].pc = "fetch" /\ at.day \in 1..Days /\ at.page \in 0..Pages
        /\ consumer[w].base \in 0..Days /\ consumer[w].own \in 0..Days
    BY <1>0, <1>7, <2>0 DEF Page, SyncTypeOK, ConsumerState, ConsumerOK, Cursor
  <2>2. HasAll(metrics, c, at) /\ consumer[w].base + consumer[w].own = at.day - 1
    BY <1>0, <2>0, <2>1 DEF ConsumerOK
  <2>3. /\ UNCHANGED <<analytics, active, sync, entry, told, deaths>>
        /\ metrics' = IF at.page < Pages THEN metrics \cup {<<c, at.day, at.page + 1>>} ELSE metrics
        /\ consumer' = [consumer EXCEPT ![w] =
                           [consumer[w] EXCEPT !.pc = "checkpoint", !.at = Step(c, at),
                              !.own = consumer[w].own + (Step(c, at).day - at.day)]]
    BY <1>7, <2>0 DEF Page, Upserted
  <2>4. /\ Step(c, at) \in Cursor /\ Step(c, at).day \in {at.day, at.day + 1}
        /\ HasAll(metrics', c, Step(c, at)) /\ metrics \subseteq metrics'
    <3>1. at.day <= Days /\ HasAll(metrics, c, at)
      BY <2>1, <2>2
    <3>2. metrics' = IF at.page < Pages THEN metrics \cup {<<c, at.day, at.page + 1>>} ELSE metrics
      BY <2>3
    <3>3. Step(c, at) \in Cursor
      BY <3>1, StepHolds
    <3>4. Step(c, at).day \in {at.day, at.day + 1}
      BY <3>1, StepHolds
    <3>5. HasAll(metrics', c, Step(c, at))
      BY <3>1, <3>2, StepHolds
    <3>6. metrics \subseteq metrics'
      BY <3>2
    <3> QED BY <3>3, <3>4, <3>5, <3>6
  <2>5. /\ consumer' \in [Worker -> ConsumerState]
        /\ consumer'[w].pc = "checkpoint" /\ consumer'[w].at = Step(c, at)
        /\ consumer'[w].base = consumer[w].base /\ consumer'[w].entry = consumer[w].entry
        /\ consumer'[w].own = consumer[w].own + (Step(c, at).day - at.day)
    <3> DEFINE own == consumer[w].own + (Step(c, at).day - at.day)
    <3>1. own \in 0..Days
      BY <2>1, <2>2, <2>4
    <3>2. consumer' = [consumer EXCEPT ![w] =
                          [consumer[w] EXCEPT !.pc = "checkpoint", !.at = Step(c, at), !.own = own]]
      BY <2>3
    <3> HIDE DEF own
    <3>3. /\ consumer' \in [Worker -> ConsumerState]
          /\ consumer'[w].pc = "checkpoint" /\ consumer'[w].at = Step(c, at)
          /\ consumer'[w].base = consumer[w].base /\ consumer'[w].entry = consumer[w].entry
          /\ consumer'[w].own = own
      <4> DEFINE new == [consumer[w] EXCEPT !.pc = "checkpoint", !.at = Step(c, at), !.own = own]
      <4>1. consumer[w] \in ConsumerState
        BY <1>0 DEF SyncTypeOK
      <4>2. /\ new \in ConsumerState /\ new.pc = "checkpoint" /\ new.at = Step(c, at)
            /\ new.base = consumer[w].base /\ new.entry = consumer[w].entry /\ new.own = own
        BY <2>4, <3>1, <4>1 DEF ConsumerState
      <4>3. consumer' = [consumer EXCEPT ![w] = new]
        BY <3>2
      <4> HIDE DEF new
      <4> QED BY <1>0, <4>2, <4>3 DEF SyncTypeOK
    <3> QED BY <3>3 DEF own
  <2>6. metrics' \subseteq Connector \X Day \X (1..Pages)
    BY <1>0, <2>1, <2>3 DEF SyncTypeOK, Day
  <2>7. SyncTypeOK'
    BY <1>0, <2>3, <2>5, <2>6 DEF SyncTypeOK
  <2>8. \A s \in Sync : RowOK(s)'
    BY <2>3, <2>4, RowKept
  <2>9. ConsumerOK(w)'
    <3>1. consumer'[w].base + consumer'[w].own = consumer'[w].at.day - 1
      BY <2>1, <2>2, <2>4, <2>5
    <3>2. HasAll(metrics', ConnectorOf[consumer'[w].entry[1]], consumer'[w].at)
      BY <2>0, <2>4, <2>5
    <3> QED BY <2>5, <3>1, <3>2 DEF ConsumerOK
  <2>10. ASSUME NEW x \in Worker \ {w} PROVE ConsumerOK(x)'
    BY <1>0, <2>3, <2>4, ConsumerKept DEF SyncTypeOK
  <2> QED BY <2>7, <2>8, <2>9, <2>10 DEF SyncInv
<1>8. ASSUME NEW w \in Worker, Checkpoint(w) PROVE SyncInv'
  <2>0. PICK s \in Sync, at \in Cursor : s = consumer[w].entry[1] /\ at = consumer[w].at
    BY <1>0 DEF SyncTypeOK, ConsumerState
  <2>1. /\ at.day \in 1..(Days + 1) /\ consumer[w].pc = "checkpoint" /\ sync[s] \in SyncRow
        /\ consumer[w].base \in 0..Days /\ consumer[w].own \in 0..Days
    BY <1>0, <1>8, <2>0 DEF Checkpoint, SyncTypeOK, ConsumerState, Cursor
  <2>2. HasAll(metrics, ConnectorOf[s], at) /\ DaysDone(w) = at.day - 1
    BY <1>0, <2>0, <2>1 DEF ConsumerOK, DaysDone
  <2>3. /\ UNCHANGED <<analytics, active, metrics, entry, told, deaths>>
        /\ \/ sync[s].status # "running" /\ sync' = sync
           \/ /\ sync[s].status = "running"
              /\ sync' = [sync EXCEPT
                    ![s] = [sync[s] EXCEPT !.cursor = at, !.days = at.day - 1, !.lease = TRUE]]
        /\ consumer' = [consumer EXCEPT ![w].pc = IF at.day > Days THEN "complete" ELSE "fetch"]
    BY <1>8, <2>0, <2>2 DEF Checkpoint
  <2>4. /\ consumer' \in [Worker -> ConsumerState]
        /\ consumer'[w].pc = IF at.day > Days THEN "complete" ELSE "fetch"
        /\ consumer'[w].entry = consumer[w].entry /\ consumer'[w].at = consumer[w].at
        /\ consumer'[w].base = consumer[w].base /\ consumer'[w].own = consumer[w].own
    <3>1. (IF at.day > Days THEN "complete" ELSE "fetch") \in ConsumerPc
      BY DEF ConsumerPc
    <3> QED BY <1>0, <2>3, <3>1, ConsumerMoves
  <2>5. SyncTypeOK' /\ \A x \in Sync : RowOK(x)'
    <3>1. CASE sync[s].status # "running"
      BY <1>0, <2>3, <2>4, <3>1, RowKept DEF SyncTypeOK
    <3>2. CASE sync[s].status = "running"
      <4>1. at.day - 1 \in 0..Days
        BY <2>1
      <4>2. /\ sync' \in [Sync -> SyncRow] /\ sync'[s].status = "running"
            /\ sync'[s].cursor = at /\ sync'[s].days = at.day - 1
            /\ \A x \in Sync \ {s} : sync'[x] = sync[x]
        <5> DEFINE new == [sync[s] EXCEPT !.cursor = at, !.days = at.day - 1, !.lease = TRUE]
        <5>1. /\ new \in SyncRow /\ new.status = "running" /\ new.cursor = at
              /\ new.days = at.day - 1
          BY <2>1, <3>2, <4>1 DEF SyncRow
        <5>2. sync' = [sync EXCEPT ![s] = new]
          BY <2>3, <3>2
        <5> HIDE DEF new
        <5> QED BY <1>0, <5>1, <5>2 DEF SyncTypeOK
      <4>3. RowOK(s)'
        BY <2>2, <2>3, <4>2 DEF RowOK
      <4>4. \A x \in Sync \ {s} : RowOK(x)'
        BY <2>3, <4>2, RowKept
      <4> QED BY <1>0, <2>3, <2>4, <4>2, <4>3, <4>4 DEF SyncTypeOK
    <3> QED BY <3>1, <3>2
  <2>6. ConsumerOK(w)'
    BY <2>0, <2>1, <2>2, <2>3, <2>4 DEF ConsumerOK, DaysDone
  <2>7. ASSUME NEW x \in Worker \ {w} PROVE ConsumerOK(x)'
    BY <1>0, <2>3, ConsumerKept DEF SyncTypeOK
  <2> QED BY <2>5, <2>6, <2>7 DEF SyncInv
<1>9. ASSUME NEW w \in Worker, Complete(w) PROVE SyncInv'
  <2>0. PICK s \in Sync : s = consumer[w].entry[1]
    BY <1>0 DEF SyncTypeOK, ConsumerState
  <2>1. /\ sync[s] \in SyncRow /\ consumer[w].pc = "complete" /\ consumer[w].at \in Cursor
    BY <1>0, <1>9, <2>0 DEF Complete, SyncTypeOK, ConsumerState
  <2>2. HasAll(metrics, ConnectorOf[s], Finish) /\ DaysDone(w) = Days
    BY <1>0, <2>0, <2>1, HoldsAtEnd DEF ConsumerOK, DaysDone
  <2>3. /\ UNCHANGED <<analytics, active, metrics, entry, deaths>>
        /\ \/ sync[s].status # "running" /\ sync' = sync
           \/ /\ sync[s].status = "running"
              /\ sync' = [sync EXCEPT ![s] = [sync[s] EXCEPT !.status = "completed", !.lease = FALSE,
                                                      !.days = Days]]
        /\ told' = [told EXCEPT ![s] = told[s] \cup {"completed"}]
        /\ consumer' = [consumer EXCEPT ![w].pc = "ack"]
    BY <1>0, <1>9, <2>0, <2>1, <2>2 DEF Complete, End, SyncTypeOK, SyncRow
  <2>4. /\ consumer' \in [Worker -> ConsumerState] /\ consumer'[w].pc = "ack"
        /\ consumer'[w].entry = consumer[w].entry /\ consumer'[w].at = consumer[w].at
        /\ consumer'[w].base = consumer[w].base /\ consumer'[w].own = consumer[w].own
        /\ \A x \in Worker \ {w} : consumer'[x] = consumer[x]
    BY <1>0, <2>3, ConsumerMoves DEF ConsumerPc
  <2>5. told' \in [Sync -> SUBSET Ended]
    BY <1>0, <2>1, <2>3 DEF SyncTypeOK, Ended
  <2>6. SyncTypeOK' /\ \A x \in Sync : RowOK(x)'
    <3>1. CASE sync[s].status # "running"
      BY <1>0, <2>3, <2>4, <2>5, <3>1, RowKept DEF SyncTypeOK
    <3>2. CASE sync[s].status = "running"
      <4>1. sync[s].cursor \in Cursor /\ Days \in 0..Days
        BY <2>1 DEF SyncRow
      <4>2. /\ sync' \in [Sync -> SyncRow] /\ sync'[s].status = "completed"
            /\ sync'[s].cursor = sync[s].cursor /\ sync'[s].days = Days
            /\ \A x \in Sync \ {s} : sync'[x] = sync[x]
        <5> DEFINE new == [sync[s] EXCEPT !.status = "completed", !.lease = FALSE, !.days = Days]
        <5>1. /\ new \in SyncRow /\ new.status = "completed" /\ new.cursor = sync[s].cursor
              /\ new.days = Days
          BY <2>1, <4>1 DEF SyncRow, Ended
        <5>2. sync' = [sync EXCEPT ![s] = new]
          BY <2>3, <3>2
        <5> HIDE DEF new
        <5> QED BY <1>0, <5>1, <5>2 DEF SyncTypeOK
      <4>3. RowOK(s)'
        BY <1>0, <2>1, <2>2, <2>3, <4>2 DEF RowOK
      <4>4. \A x \in Sync \ {s} : RowOK(x)'
        BY <2>3, <4>2, RowKept
      <4> QED BY <1>0, <2>3, <2>4, <2>5, <4>2, <4>3, <4>4 DEF SyncTypeOK
    <3> QED BY <3>1, <3>2
  <2>7. ASSUME NEW x \in Worker PROVE ConsumerOK(x)'
    BY <2>1, <2>3, <2>4, ConsumerKept
  <2> QED BY <2>6, <2>7 DEF SyncInv
<1>10. ASSUME NEW w \in Worker, Fail(w) PROVE SyncInv'
  <2>0. PICK s \in Sync : s = consumer[w].entry[1]
    BY <1>0 DEF SyncTypeOK, ConsumerState
  <2>1. sync[s] \in SyncRow /\ consumer[w].pc \in {"fetch", "fail"}
    BY <1>0, <1>10, <2>0 DEF Fail, SyncTypeOK, ConsumerState
  <2>2. /\ UNCHANGED <<analytics, metrics, entry, deaths>>
        /\ active' \in [Connector -> BOOLEAN]
        /\ \/ sync[s].status # "running" /\ sync' = sync
           \/ /\ sync[s].status = "running"
              /\ sync' = [sync EXCEPT ![s].status = "failed", ![s].lease = FALSE]
        /\ told' = [told EXCEPT ![s] = told[s] \cup {"failed"}]
        /\ consumer' = [consumer EXCEPT ![w].pc = "ack"]
    BY <1>0, <1>10, <2>0, <2>1 DEF Fail, End, SyncTypeOK
  <2>3. /\ consumer' \in [Worker -> ConsumerState] /\ consumer'[w].pc = "ack"
        /\ consumer'[w].entry = consumer[w].entry /\ consumer'[w].at = consumer[w].at
        /\ consumer'[w].base = consumer[w].base /\ consumer'[w].own = consumer[w].own
        /\ \A x \in Worker \ {w} : consumer'[x] = consumer[x]
    BY <1>0, <2>2, ConsumerMoves DEF ConsumerPc
  <2>4. told' \in [Sync -> SUBSET Ended]
    BY <1>0, <2>1, <2>2 DEF SyncTypeOK, Ended
  <2>5. SyncTypeOK' /\ \A x \in Sync : RowOK(x)'
    <3>1. CASE sync[s].status # "running"
      BY <1>0, <2>2, <2>3, <2>4, <3>1, RowKept DEF SyncTypeOK
    <3>2. CASE sync[s].status = "running"
      <4>1. /\ sync' \in [Sync -> SyncRow] /\ sync'[s].status = "failed"
            /\ sync'[s].cursor = sync[s].cursor /\ sync'[s].days = sync[s].days
            /\ \A x \in Sync \ {s} : sync'[x] = sync[x]
        BY <1>0, <2>1, <2>2, <3>2, StatusWritten DEF RowStatus, Ended
      <4>2. \A x \in Sync : RowOK(x)'
        BY <2>1, <2>2, <3>2, <4>1, RowKept
      <4> QED BY <1>0, <2>2, <2>3, <2>4, <4>1, <4>2 DEF SyncTypeOK
    <3> QED BY <3>1, <3>2
  <2>6. ASSUME NEW x \in Worker PROVE ConsumerOK(x)'
    BY <2>1, <2>2, <2>3, ConsumerKept
  <2> QED BY <2>5, <2>6 DEF SyncInv
<1>11. ASSUME NEW w \in Worker, Ack(w) \/ Die(w) PROVE SyncInv'
  <2>1. SyncTypeOK'
    BY <1>0, <1>11, WaitingIsConsumer DEF Ack, Die, SyncTypeOK
  <2>2. \A s \in Sync : RowOK(s)'
    BY <1>11, RowKept DEF Ack, Die
  <2>3. ASSUME NEW x \in Worker PROVE ConsumerOK(x)'
    BY <1>0, <1>11, WaitingIsConsumer, ConsumerKept DEF Ack, Die, SyncTypeOK
  <2> QED BY <2>1, <2>2, <2>3 DEF SyncInv
<1> QED BY <1>1, <1>2, <1>3, <1>4, <1>5, <1>6, <1>7, <1>8, <1>9, <1>10, <1>11 DEF SyncNext

\* The invariant holds in every state of every behaviour.
THEOREM SyncInvariance == SyncSpec => []SyncInv
<1>1. SyncInit => SyncInv
  BY SyncInitEstablishes
<1>2. SyncInv /\ [SyncNext]_syncVars => SyncInv'
  BY SyncStep
<1> QED BY <1>1, <1>2, PTL DEF SyncSpec

\* The days a sync reports are the days behind its cursor, and all of them when it
\* is completed (SyncProgress, complete_sync), however often it was resumed.
THEOREM ReportTheorem == SyncSpec => []ReportsItsWork
<1>1. SyncInv => ReportsItsWork
  BY DEF SyncInv, RowOK, ReportsItsWork
<1> QED BY <1>1, SyncInvariance, PTL

-----------------------------------------------------------------------------
(* ConnectorSync implements LeasedWork.                                    *)

Life == [s \in Sync |-> sync[s].status]
Stored == [s \in Sync |-> {piece \in Day \X (1..Pages) :
                           <<ConnectorOf[s], piece[1], piece[2]>> \in metrics}]

\* A write of one status is one move of the abstract work.
LEMMA StatusMoves ==
    ASSUME SyncTypeOK, NEW s \in Sync, NEW st, UNCHANGED metrics,
           sync'[s].status = st, sync' \in [Sync -> SyncRow],
           \A x \in Sync \ {s} : sync'[x].status = sync[x].status
    PROVE  Life' = [Life EXCEPT ![s] = st] /\ Stored' = Stored
BY DEF SyncTypeOK, Life, Stored

\* What leaves every status alone and only stores more is progress.
LEMMA StoringIsProgress ==
    ASSUME metrics \subseteq metrics', \A x \in Sync : sync'[x].status = sync[x].status
    PROVE  Work!Progress
<1>1. Life' = Life
  BY DEF Life
<1>2. Stored' \in [Sync -> SUBSET (Day \X (1..Pages))] /\ \A s \in Sync : Stored[s] \subseteq Stored'[s]
  BY DEF Stored
<1> QED BY <1>1, <1>2 DEF Work!Progress, Life, Stored

\* A sync that is not there yet is work that has not begun.
LEMMA InitRefines == SyncInit => Work!Init
BY DEF SyncInit, Work!Init

\* Each step of a sync is a step of the work it stands for, or none of it.
LEMMA StepRefines == SyncInv /\ SyncInv' /\ [SyncNext]_syncVars => [Work!Next]_<<Life, Stored>>
<1> SUFFICES ASSUME SyncInv, SyncInv', [SyncNext]_syncVars PROVE [Work!Next]_<<Life, Stored>>
  OBVIOUS
<1> USE SyncAssumption DEF SyncAssumption
<1>0. SyncTypeOK /\ SyncTypeOK'
  BY DEF SyncInv
<1>1. ASSUME metrics \subseteq metrics', \A x \in Sync : sync'[x].status = sync[x].status
      PROVE  Work!Next
  BY <1>1, StoringIsProgress DEF Work!Next
<1>2. ASSUME NEW s \in Sync, NEW from, NEW st, sync[s].status \in from, UNCHANGED metrics,
             sync'[s].status = st, \A x \in Sync \ {s} : sync'[x].status = sync[x].status
      PROVE  Work!Moves(s, from, st)
  <2>1. Life' = [Life EXCEPT ![s] = st] /\ Stored' = Stored
    BY <1>0, <1>2, StatusMoves DEF SyncTypeOK
  <2>2. Life[s] \in from
    BY <1>2 DEF Life
  <2> QED BY <2>1, <2>2 DEF Work!Moves, Life, Stored
<1>3. CASE UNCHANGED syncVars
  BY <1>3 DEF syncVars, Life, Stored
<1>4. ASSUME NEW s \in Sync, CreateSync(s) PROVE Work!Next
  <2>1. Work!Moves(s, {"none"}, "queued")
    <3>1. sync'[s].status = "queued" /\ \A x \in Sync \ {s} : sync'[x] = sync[x]
      BY <1>0, <1>4, StatusWritten DEF CreateSync, RowStatus
    <3> QED BY <1>2, <1>4, <3>1 DEF CreateSync
  <2> QED BY <2>1 DEF Work!Next, Work!Ask
<1>5. ASSUME NEW s \in Sync, Lapse(s) PROVE Work!Next
  BY <1>0, <1>1, <1>5 DEF Lapse, SyncTypeOK, SyncRow
<1>6. ASSUME NEW s \in Sync, Reap(s) PROVE Work!Next
  <2>1. Work!Moves(s, {"running"}, "failed")
    <3>1. sync'[s].status = "failed" /\ \A x \in Sync \ {s} : sync'[x] = sync[x]
      BY <1>0, <1>6, StatusWritten DEF Reap, RowStatus, Ended
    <3> QED BY <1>2, <1>6, <3>1 DEF Reap
  <2> QED BY <2>1 DEF Work!Next, Work!Fail
<1>7. ASSUME NEW c \in Connector, ToggleConnector(c) PROVE Work!Next
  BY <1>1, <1>7 DEF ToggleConnector
<1>8. ASSUME NEW w \in Worker, NEW e \in Sync \X Copy, Claim(w, e) PROVE Work!Next
  <2>1. PICK s \in Sync : s = e[1]
    BY DEF SyncTypeOK
  <2>2. Work!Moves(s, {"queued", "running"}, "running")
    <3>1. sync[s].status \in {"queued", "running"} /\ UNCHANGED metrics
      BY <1>8, <2>1 DEF Claim, Claimable
    <3>2. sync'[s].status = "running" /\ \A x \in Sync \ {s} : sync'[x] = sync[x]
      BY <1>0, <1>8, <2>1, StatusWritten DEF Claim, RowStatus
    <3> QED BY <1>2, <3>1, <3>2
  <2> QED BY <2>2 DEF Work!Next, Work!Take
<1>9. ASSUME NEW w \in Worker, NEW e \in Sync \X Copy, Decline(w, e) PROVE Work!Next
  BY <1>1, <1>9 DEF Decline
<1>10. ASSUME NEW w \in Worker, Page(w) PROVE Work!Next
  BY <1>1, <1>10 DEF Page, Upserted
<1>11. ASSUME NEW w \in Worker, Checkpoint(w) PROVE Work!Next
  <2>1. PICK s \in Sync : s = consumer[w].entry[1]
    BY <1>0 DEF SyncTypeOK, ConsumerState
  <2>2. CASE sync' = sync
    BY <1>1, <1>11, <2>2 DEF Checkpoint
  <2>3. CASE sync' # sync
    <3> DEFINE new == [sync[s] EXCEPT !.cursor = consumer[w].at, !.days = DaysDone(w), !.lease = TRUE]
    <3>1. sync' = [sync EXCEPT ![s] = new] /\ UNCHANGED metrics
      BY <1>11, <2>1, <2>3 DEF Checkpoint
    <3>2. new.status = sync[s].status
      BY <1>0 DEF SyncTypeOK, SyncRow
    <3> HIDE DEF new
    <3>3. \A x \in Sync : sync'[x].status = sync[x].status
      BY <1>0, <3>1, <3>2 DEF SyncTypeOK
    <3> QED BY <1>1, <3>1, <3>3
  <2> QED BY <2>2, <2>3
<1>12. ASSUME NEW w \in Worker, Complete(w) PROVE Work!Next
  <2>1. PICK s \in Sync : s = consumer[w].entry[1]
    BY <1>0 DEF SyncTypeOK, ConsumerState
  <2>2. CASE sync[s].status # "running"
    BY <1>1, <1>12, <2>1, <2>2 DEF Complete, End
  <2>3. CASE sync[s].status = "running"
    <3>1. consumer[w].pc = "complete" /\ consumer[w].at \in Cursor
      BY <1>0, <1>12 DEF Complete, SyncTypeOK, ConsumerState
    <3>2. \A d \in Day, p \in 1..Pages : <<ConnectorOf[s], d, p>> \in metrics
      BY <2>1, <3>1, HoldsAtEnd DEF SyncInv, ConsumerOK
    <3>3. Stored[s] = Day \X (1..Pages)
      BY <3>2 DEF Stored
    <3>4. /\ sync'[s].status = "completed" /\ UNCHANGED metrics
          /\ \A x \in Sync \ {s} : sync'[x] = sync[x]
      BY <1>0, <1>12, <2>1, <2>3 DEF Complete, End, SyncTypeOK, SyncRow
    <3>5. Work!Moves(s, {"running"}, "completed")
      BY <1>2, <2>3, <3>4
    <3> QED BY <3>3, <3>5 DEF Work!Next, Work!Complete, Stored
  <2> QED BY <2>2, <2>3
<1>13. ASSUME NEW w \in Worker, Fail(w) PROVE Work!Next
  <2>1. PICK s \in Sync : s = consumer[w].entry[1]
    BY <1>0 DEF SyncTypeOK, ConsumerState
  <2>2. CASE sync[s].status # "running"
    BY <1>1, <1>13, <2>1, <2>2 DEF Fail, End
  <2>3. CASE sync[s].status = "running"
    <3>1. /\ sync'[s].status = "failed" /\ UNCHANGED metrics
          /\ \A x \in Sync \ {s} : sync'[x] = sync[x]
      BY <1>0, <1>13, <2>1, <2>3, StatusWritten DEF Fail, End, RowStatus, Ended
    <3>2. Work!Moves(s, {"running"}, "failed")
      BY <1>2, <2>3, <3>1
    <3> QED BY <3>2 DEF Work!Next, Work!Fail
  <2> QED BY <2>2, <2>3
<1>14. ASSUME NEW w \in Worker, Ack(w) \/ Die(w) PROVE Work!Next
  BY <1>1, <1>14 DEF Ack, Die
<1> QED BY <1>3, <1>4, <1>5, <1>6, <1>7, <1>8, <1>9, <1>10, <1>11, <1>12, <1>13, <1>14 DEF SyncNext

\* A sync, carried out by consumers that die, resume and overtake one another, is
\* one piece of leased work: it ends once, and completed only when nothing of its
\* range is missing (claim_sync, SyncProgress, complete_sync, fail_sync, the reaper).
THEOREM SyncImplements == SyncSpec => ImplementsLeasedWork
<1>1. SyncInit => Work!Init
  BY InitRefines
<1>2. SyncInv /\ SyncInv' /\ [SyncNext]_syncVars => [Work!Next]_<<Life, Stored>>
  BY StepRefines
<1> QED BY <1>1, <1>2, SyncInvariance, PTL DEF SyncSpec, ImplementsLeasedWork, Work!Spec, Life, Stored

-----------------------------------------------------------------------------
(* Outcomes.  Of a change deployed once, the sweep has one row to write and *)
(* one place in its batch, and it asks for nothing that was verified.      *)

SweepRow == [on : BOOLEAN, todo : BoundedSeq(Change, Batch), read : {"live", "absent", NoPage}]

\* Deployed once or never.
Once(c) == \A m, n \in Of(c) : m = n

\* Whose page the sweep has yet to read or to record.
Pending(c) == \E i \in DOMAIN sweep.todo : sweep.todo[i] = c

\* What was verified was seen, and only of receipts there are; a sweep holds a page
\* only of a change that is left, and only changes with a receipt are left to it.
SweepOK ==
    /\ \A n \in Number : verification[n] = "verified" => n \in seen
    /\ seen \cup series \subseteq DOMAIN receipt
    /\ sweep.read # NoPage => sweep.todo # <<>>
    /\ \A c \in Change : Pending(c) => Of(c) # {}

ChangeOK(c) ==
    /\ \A n \in Of(c) : /\ n \in seen => verification[n] = "verified"
                        /\ n \in series => n \in seen
    /\ \A i, j \in DOMAIN sweep.todo : sweep.todo[i] = c /\ sweep.todo[j] = c => i = j
    /\ Pending(c) => \A n \in Of(c) : verification[n] # "verified"

\* The inductive invariant.
OutcomesInv ==
    /\ OutcomesTypeOK /\ sweep \in SweepRow
    /\ SweepOK
    /\ \A c \in Change : Once(c) => ChangeOK(c)

\* The sequences of at most n elements.
LEMMA BoundedSeqIs ==
    ASSUME NEW S, NEW n \in Nat, NEW q
    PROVE  q \in BoundedSeq(S, n) <=> q \in Seq(S) /\ Len(q) <= n
<1>1. q \in BoundedSeq(S, n) <=> \E m \in 0..n : q \in [1..m -> S]
  BY DEF BoundedSeq, SeqOf
<1>2. ASSUME NEW m \in 0..n, q \in [1..m -> S] PROVE q \in Seq(S) /\ Len(q) <= n
  BY <1>2
<1>3. ASSUME q \in Seq(S), Len(q) <= n PROVE Len(q) \in 0..n /\ q \in [1..Len(q) -> S]
  BY <1>3
<1> QED BY <1>1, <1>2, <1>3

\* A sweep that is over.
LEMMA NoSweepTyped == NoSweep \in SweepRow /\ NoSweep.todo = <<>> /\ NoSweep.read = NoPage
<1>1. <<>> \in Seq(Change) /\ Len(<<>>) = 0
  OBVIOUS
<1>2. Batch \in Nat /\ 0 <= Batch
  BY OutcomesAssumption DEF OutcomesAssumption
<1>3. <<>> \in BoundedSeq(Change, Batch)
  BY <1>1, <1>2, BoundedSeqIs
<1> QED BY <1>3 DEF NoSweep, SweepRow

\* At first nothing is deployed, swept or seen.
LEMMA OutcomesInitEstablishes == OutcomesInit => OutcomesInv
<1> SUFFICES ASSUME OutcomesInit PROVE OutcomesInv
  OBVIOUS
<1>1. receipt = <<>> /\ sweep = NoSweep /\ seen = {} /\ series = {}
  BY DEF OutcomesInit
<1>2. <<>> \in BoundedSeq(Receipt, MaxReceipts) /\ sweep.todo \in BoundedSeq(Change, Batch)
  <2>1. <<>> \in Seq(Receipt) /\ Len(<<>>) = 0
    OBVIOUS
  <2>2. MaxReceipts \in Nat /\ 0 <= MaxReceipts
    BY OutcomesAssumption DEF OutcomesAssumption
  <2> QED BY <1>1, <2>1, <2>2, BoundedSeqIs, NoSweepTyped DEF SweepRow
<1>3. OutcomesTypeOK /\ sweep \in SweepRow
  BY <1>1, <1>2, NoSweepTyped, OutcomesAssumption DEF OutcomesInit, OutcomesTypeOK, SweepRow, NoSweep, NoPage,
     Found,
     OutcomesAssumption
<1>4. SweepOK /\ \A c \in Change : ChangeOK(c)
  BY <1>1 DEF OutcomesInit, SweepOK, ChangeOK, Pending, Of, NoSweep, Number
<1> QED BY <1>3, <1>4 DEF OutcomesInv

\* The receipts of the changes are what they are, and a sweep loses changes at most.
LEMMA NothingSwept ==
    ASSUME OutcomesInv, OutcomesTypeOK', sweep' \in SweepRow, SweepOK',
           UNCHANGED <<verification, seen>>,
           \A c \in Change : Of(c)' = Of(c),
           \/ sweep'.todo = sweep.todo \/ sweep'.todo = <<>>
           \/ sweep.todo # <<>> /\ sweep'.todo = Tail(sweep.todo),
           \A c \in Change : Once(c) => \A n \in Of(c) : n \in series' => n \in seen
    PROVE  OutcomesInv'
<1>1. ASSUME NEW c \in Change, Once(c)' PROVE ChangeOK(c)'
  <2>1. Once(c) /\ ChangeOK(c) /\ Of(c)' = Of(c)
    BY <1>1 DEF OutcomesInv, Once
  <2>2. \A n \in Of(c)' : /\ n \in seen' => verification'[n] = "verified"
                          /\ n \in series' => n \in seen'
    BY <2>1 DEF ChangeOK
  <2>3. CASE sweep'.todo = sweep.todo
    BY <2>1, <2>2, <2>3 DEF ChangeOK, Pending
  <2>4. CASE sweep'.todo = <<>>
    BY <2>1, <2>2, <2>4 DEF ChangeOK, Pending
  <2>5. CASE sweep.todo # <<>> /\ sweep'.todo = Tail(sweep.todo)
    <3> DEFINE todo == sweep.todo
               rest == Tail(todo)
    <3>1. todo \in Seq(Change) /\ todo # <<>>
      BY BoundedSeqIs, OutcomesAssumption, <2>5 DEF OutcomesAssumption, OutcomesInv, SweepRow
    <3>2. \A i \in DOMAIN rest : i + 1 \in DOMAIN todo /\ rest[i] = todo[i + 1] /\ i \in Nat
      BY <3>1
    <3>3. \A i, j \in DOMAIN todo : todo[i] = c /\ todo[j] = c => i = j
      BY <2>1 DEF ChangeOK
    <3> HIDE DEF todo, rest
    <3>4. \A i, j \in DOMAIN rest : rest[i] = c /\ rest[j] = c => i = j
      BY <3>2, <3>3
    <3>5. Pending(c)' => Pending(c)
      BY <2>5, <3>2 DEF Pending, todo, rest
    <3> QED BY <2>1, <2>2, <2>5, <3>4, <3>5 DEF ChangeOK, todo, rest
  <2> QED BY <2>3, <2>4, <2>5
<1> QED BY <1>1 DEF OutcomesInv

\* A deployment adds a receipt, which nothing has been said of; the change is
\* deployed twice, or in no batch yet.
LEMMA DeployStep ==
    ASSUME OutcomesInv, NEW c \in Change, Deploy(c)
    PROVE  OutcomesInv'
<1> DEFINE new == [of |-> c, age |-> "fresh"]
           last == Len(receipt) + 1
<1>1. /\ OutcomesTypeOK /\ sweep \in SweepRow /\ SweepOK
      /\ receipt \in Seq(Receipt) /\ Len(receipt) < MaxReceipts
      /\ receipt' = Append(receipt, new) /\ new \in Receipt
      /\ UNCHANGED <<page, verification, sweep, series, seen, sweepDeaths>>
  BY BoundedSeqIs, OutcomesAssumption
     DEF OutcomesAssumption, OutcomesInv, OutcomesTypeOK, Deploy, Receipt, Age
<1>2. /\ receipt' \in Seq(Receipt) /\ Len(receipt') = last /\ last \in 1..MaxReceipts
      /\ DOMAIN receipt' = DOMAIN receipt \cup {last} /\ last \notin DOMAIN receipt
      /\ \A n \in DOMAIN receipt : receipt'[n] = receipt[n]
      /\ receipt'[last].of = c
  BY <1>1, OutcomesAssumption DEF OutcomesAssumption
<1> HIDE DEF new, last
<1>3. receipt' \in BoundedSeq(Receipt, MaxReceipts)
  BY BoundedSeqIs, <1>2, OutcomesAssumption DEF OutcomesAssumption
<1>4. OutcomesTypeOK' /\ sweep' \in SweepRow
  <2>1. deployed' \in [Change -> BOOLEAN]
    BY <1>1 DEF Deploy, OutcomesTypeOK
  <2> QED BY <1>1, <1>3, <2>1 DEF OutcomesTypeOK
<1>5. \A q \in Change : Of(q)' = IF q = c THEN Of(q) \cup {last} ELSE Of(q)
  BY <1>2 DEF Of
<1>6. SweepOK'
  BY <1>1, <1>2, <1>5 DEF SweepOK, Pending
<1>7. ASSUME NEW q \in Change, Once(q)' PROVE ChangeOK(q)'
  <2>1. Once(q)
    BY <1>5, <1>7 DEF Once
  <2>2. ChangeOK(q)
    BY <2>1 DEF OutcomesInv
  <2>3. CASE q # c
    BY <1>1, <1>5, <2>2, <2>3 DEF ChangeOK, Pending
  <2>4. CASE q = c
    <3>1. last \notin Of(c) /\ last \notin seen \cup series
      BY <1>1, <1>2 DEF Of, SweepOK
    <3>2. Of(c) = {}
      BY <1>5, <1>7, <2>4, <3>1 DEF Once
    <3>3. ~Pending(c)
      BY <1>1, <3>2 DEF SweepOK
    <3> QED BY <1>1, <1>5, <2>2, <2>4, <3>1, <3>2, <3>3 DEF ChangeOK, Pending
  <2> QED BY <2>3, <2>4
<1> QED BY <1>4, <1>6, <1>7 DEF OutcomesInv

\* Time makes no receipt another change's.
LEMMA GrowOldStep ==
    ASSUME OutcomesInv, NEW n \in Number, GrowOld(n)
    PROVE  OutcomesInv'
<1> DEFINE new == [receipt[n] EXCEPT !.age = IF receipt[n].age = "fresh" THEN "stale" ELSE "full"]
<1>1. /\ OutcomesTypeOK /\ sweep \in SweepRow /\ SweepOK
      /\ receipt \in Seq(Receipt) /\ Len(receipt) <= MaxReceipts /\ n \in DOMAIN receipt
      /\ UNCHANGED <<deployed, page, verification, sweep, series, seen, sweepDeaths>>
  BY BoundedSeqIs, OutcomesAssumption DEF OutcomesInv, OutcomesTypeOK, GrowOld, OutcomesAssumption
<1>2. receipt' = [receipt EXCEPT ![n] = new]
  BY DEF GrowOld
<1>3. receipt[n] \in Receipt
  BY <1>1
<1>4. new \in Receipt /\ new.of = receipt[n].of
  BY <1>3 DEF Receipt, Age
<1> HIDE DEF new
<1>5. /\ receipt' \in Seq(Receipt) /\ Len(receipt') = Len(receipt) /\ DOMAIN receipt' = DOMAIN receipt
      /\ \A m \in DOMAIN receipt : receipt'[m].of = receipt[m].of
  BY <1>1, <1>2, <1>4
<1>6. receipt' \in BoundedSeq(Receipt, MaxReceipts)
  BY BoundedSeqIs, <1>1, <1>5, OutcomesAssumption DEF OutcomesAssumption
<1>7. \A c \in Change : Of(c)' = Of(c)
  BY <1>5 DEF Of
<1>8. OutcomesTypeOK' /\ sweep' \in SweepRow /\ SweepOK'
  BY <1>1, <1>5, <1>6, <1>7 DEF OutcomesTypeOK, SweepOK, Pending
<1>9. \A c \in Change : Once(c) => \A m \in Of(c) : m \in series' => m \in seen
  BY <1>1 DEF OutcomesInv, ChangeOK
<1> QED BY <1>1, <1>7, <1>8, <1>9, NothingSwept

\* What the live page shows, what is rolled back, and a sweep that reads, ends or dies.
LEMMA ReadingStep ==
    ASSUME OutcomesInv,
           \/ \E c \in Change : RollBack(c) \/ \E f \in Found : PageChanges(c, f)
           \/ ReadPage \/ EndSweep \/ SweepDies \/ UNCHANGED outcomeVars
    PROVE  OutcomesInv'
<1>1. /\ OutcomesTypeOK /\ sweep \in SweepRow /\ SweepOK
      /\ UNCHANGED <<receipt, verification, series, seen>>
  BY DEF OutcomesInv, RollBack, PageChanges, ReadPage, EndSweep, SweepDies, outcomeVars
<1>2. \A c \in Change : Of(c)' = Of(c)
  BY <1>1 DEF Of
<1>3. /\ deployed' \in [Change -> BOOLEAN] /\ page' \in [Change -> Found]
      /\ sweepDeaths' \in 0..MaxSweepDeaths
  <2>1. ASSUME NEW c \in Change, RollBack(c) PROVE deployed' \in [Change -> BOOLEAN] /\ page' = page
    BY <1>1, <2>1 DEF RollBack, OutcomesTypeOK
  <2>2. ASSUME NEW c \in Change, NEW f \in Found, PageChanges(c, f)
        PROVE  page' \in [Change -> Found] /\ deployed' = deployed
    BY <1>1, <2>2 DEF PageChanges, OutcomesTypeOK
  <2>3. CASE SweepDies
    BY <1>1, <2>3, OutcomesAssumption DEF SweepDies, OutcomesTypeOK, OutcomesAssumption
  <2> QED BY <1>1, <2>1, <2>2, <2>3 DEF RollBack, PageChanges, ReadPage, EndSweep, outcomeVars,
                                        OutcomesTypeOK
<1>4. /\ sweep' \in SweepRow
      /\ \/ sweep' = sweep
         \/ sweep'.todo = <<>> /\ sweep'.read = NoPage
         \/ sweep'.todo = sweep.todo /\ sweep.todo # <<>>
         \/ sweep'.todo = Tail(sweep.todo) /\ sweep'.read = NoPage /\ sweep.todo # <<>>
  <2>1. CASE ReadPage /\ page[Head(sweep.todo)] = "unreachable"
    <3>1. sweep.todo \in Seq(Change) /\ sweep.todo # <<>> /\ Len(sweep.todo) <= Batch
      BY BoundedSeqIs, <1>1, <2>1, OutcomesAssumption DEF ReadPage, SweepRow, OutcomesAssumption
    <3>2. Tail(sweep.todo) \in Seq(Change) /\ Len(Tail(sweep.todo)) <= Batch
      BY <3>1, OutcomesAssumption DEF OutcomesAssumption
    <3>3. Tail(sweep.todo) \in BoundedSeq(Change, Batch)
      BY <3>2, BoundedSeqIs, OutcomesAssumption DEF OutcomesAssumption
    <3>4. sweep' = [sweep EXCEPT !.todo = Tail(sweep.todo)] /\ sweep.read = NoPage
      BY <2>1 DEF ReadPage
    <3> QED BY <1>1, <3>1, <3>3, <3>4 DEF SweepRow
  <2>2. CASE ReadPage /\ page[Head(sweep.todo)] # "unreachable"
    <3>1. sweep.todo \in Seq(Change) /\ sweep.todo # <<>>
      BY BoundedSeqIs, OutcomesAssumption, <1>1, <2>2 DEF OutcomesAssumption, ReadPage, SweepRow
    <3>2. page[Head(sweep.todo)] \in {"live", "absent"}
      BY <1>1, <2>2, <3>1 DEF OutcomesTypeOK, Found
    <3> QED BY <1>1, <2>2, <3>1, <3>2 DEF ReadPage, SweepRow
  <2>3. CASE EndSweep \/ SweepDies
    BY <2>3, NoSweepTyped DEF EndSweep, SweepDies
  <2> QED BY <1>1, <2>1, <2>2, <2>3 DEF RollBack, PageChanges, outcomeVars
<1>5. OutcomesTypeOK'
  BY <1>1, <1>3, <1>4 DEF OutcomesTypeOK, SweepRow, Found, NoPage
<1>6. SweepOK'
  <2>1. \A c \in Change : Pending(c)' => Pending(c)
    <3>1. sweep.todo \in Seq(Change)
      BY BoundedSeqIs, OutcomesAssumption, <1>1 DEF OutcomesAssumption, SweepRow
    <3>2. CASE sweep.todo # <<>> /\ sweep'.todo = Tail(sweep.todo)
      <4>1. \A i \in DOMAIN Tail(sweep.todo) :
               i + 1 \in DOMAIN sweep.todo /\ Tail(sweep.todo)[i] = sweep.todo[i + 1]
        BY <3>1, <3>2
      <4> QED BY <3>2, <4>1 DEF Pending
    <3>3. CASE sweep'.todo = <<>> \/ sweep'.todo = sweep.todo
      BY <3>3 DEF Pending
    <3> QED BY <1>4, <3>2, <3>3
  <2>2. sweep'.read # NoPage => sweep'.todo # <<>>
    BY <1>1, <1>4 DEF SweepOK
  <2> QED BY <1>1, <1>2, <2>1, <2>2 DEF SweepOK
<1>7. \A c \in Change : Once(c) => \A n \in Of(c) : n \in series' => n \in seen
  BY <1>1 DEF OutcomesInv, ChangeOK
<1>8. \/ sweep'.todo = sweep.todo \/ sweep'.todo = <<>>
      \/ sweep.todo # <<>> /\ sweep'.todo = Tail(sweep.todo)
  BY <1>4
<1> QED BY <1>1, <1>2, <1>4, <1>5, <1>6, <1>7, <1>8, NothingSwept

\* A sweep takes a change once for each of its receipts, and none that was verified.
LEMMA StartStep ==
    ASSUME OutcomesInv, StartSweep
    PROVE  OutcomesInv'
<1>1. /\ OutcomesTypeOK /\ SweepOK
      /\ UNCHANGED <<receipt, deployed, page, verification, series, seen, sweepDeaths>>
  BY DEF OutcomesInv, StartSweep
<1>2. PICK batch \in Candidates :
         sweep' = [on |-> TRUE, todo |-> [i \in DOMAIN batch |-> receipt[batch[i]].of], read |-> NoPage]
  BY DEF StartSweep
<1> DEFINE todo == [i \in DOMAIN batch |-> receipt[batch[i]].of]
<1>3. receipt \in Seq(Receipt) /\ batch \in Seq(DOMAIN receipt) /\ Len(batch) <= Batch
  BY <1>1, BoundedSeqIs, OutcomesAssumption DEF OutcomesTypeOK, Candidates, OutcomesAssumption
<1>4. /\ \A i \in DOMAIN batch : batch[i] \in DOMAIN receipt /\ receipt[batch[i]].of \in Change
      /\ DOMAIN batch = 1..Len(batch)
  <2>1. \A k \in DOMAIN receipt : receipt[k] \in Receipt
    BY <1>3
  <2>2. DOMAIN batch = 1..Len(batch) /\ \A i \in DOMAIN batch : batch[i] \in DOMAIN receipt
    BY <1>3
  <2> QED BY <2>1, <2>2 DEF Receipt
<1>5. todo \in Seq(Change) /\ Len(todo) = Len(batch)
  BY <1>3, <1>4
<1>6. sweep' \in SweepRow /\ sweep'.todo = todo /\ sweep'.read = NoPage
  <2>1. todo \in BoundedSeq(Change, Batch)
    BY <1>3, <1>5, BoundedSeqIs, OutcomesAssumption DEF OutcomesAssumption
  <2> HIDE DEF todo
  <2> QED BY <1>2, <2>1 DEF SweepRow, todo
<1>7. \A i, j \in DOMAIN batch : batch[i] = batch[j] => i = j
  <2>1. \A i \in DOMAIN batch : i \in Nat /\ batch[i] \in Nat /\ 1 <= i
    BY <1>3, <1>4
  <2>2. \A i \in DOMAIN batch : \A j \in 1..(i - 1) : batch[j] < batch[i]
    BY DEF Candidates
  <2>3. ASSUME NEW i \in DOMAIN batch, NEW j \in DOMAIN batch, j < i PROVE batch[j] < batch[i]
    <3>1. j \in 1..(i - 1)
      BY <2>1, <2>3
    <3> QED BY <2>2, <3>1
  <2> QED BY <2>1, <2>3
<1>8. ASSUME NEW c \in Change, NEW i \in DOMAIN todo, todo[i] = c
      PROVE  batch[i] \in Of(c) /\ \A n \in Of(c) : verification[n] # "verified"
  <2>1. i \in DOMAIN batch /\ Unverified(batch[i]) /\ receipt[batch[i]].of = c
    BY <1>4, <1>8 DEF Candidates
  <2> QED BY <1>4, <2>1 DEF Of, Unverified, StatusOf
<1>9. OutcomesTypeOK'
  BY <1>1, <1>6 DEF OutcomesTypeOK, SweepRow
<1>10. \A c \in Change : Of(c)' = Of(c)
  BY <1>1 DEF Of
<1>11. SweepOK'
  BY <1>1, <1>6, <1>8, <1>10 DEF SweepOK, Pending
<1>12. ASSUME NEW c \in Change, Once(c)' PROVE ChangeOK(c)'
  <2>1. Once(c) /\ ChangeOK(c)
    BY <1>10, <1>12 DEF OutcomesInv, Once
  <2>2. ASSUME NEW i \in DOMAIN todo, NEW j \in DOMAIN todo, todo[i] = c, todo[j] = c PROVE i = j
    BY <1>7, <1>8, <2>1, <2>2 DEF Once
  <2>3. Pending(c)' => \A n \in Of(c)' : verification'[n] # "verified"
    BY <1>1, <1>6, <1>8, <1>10 DEF Pending
  <2> HIDE DEF todo
  <2> QED BY <1>1, <1>6, <1>10, <2>1, <2>2, <2>3 DEF ChangeOK
<1> QED BY <1>6, <1>9, <1>11, <1>12 DEF OutcomesInv

\* What is recorded of a change deployed once is written where there was no
\* sighting, and the change is then in the batch no longer.
LEMMA RecordStep ==
    ASSUME OutcomesInv, RecordPage
    PROVE  OutcomesInv'
<1>1. /\ OutcomesTypeOK /\ sweep \in SweepRow /\ SweepOK /\ sweep.todo # <<>>
      /\ UNCHANGED <<receipt, deployed, page, series, sweepDeaths>>
      /\ sweep' = [sweep EXCEPT !.todo = Tail(sweep.todo), !.read = NoPage]
  BY DEF OutcomesInv, RecordPage, SweepOK
<1>2. /\ receipt \in Seq(Receipt) /\ Len(receipt) <= MaxReceipts
      /\ sweep.todo \in Seq(Change) /\ Len(sweep.todo) <= Batch
  BY <1>1, BoundedSeqIs, OutcomesAssumption DEF OutcomesTypeOK, SweepRow, OutcomesAssumption
<1>3. PICK c \in Change : c = Head(sweep.todo)
  BY <1>1, <1>2
<1>4. PICK n \in Of(c), status \in {"verified", "failed"} :
         /\ verification' = [verification EXCEPT ![n] = status]
         /\ seen' = IF status = "verified" THEN seen \cup {n} ELSE seen
  BY <1>3 DEF RecordPage
<1>5. n \in DOMAIN receipt /\ n \in Number /\ receipt[n].of = c
  BY <1>2, OutcomesAssumption DEF Of, Number, OutcomesAssumption
<1>6. /\ verification' \in [Number -> {"none", "failed", "verified"}]
      /\ \A m \in Number : verification'[m] = IF m = n THEN status ELSE verification[m]
  BY <1>1, <1>4, <1>5 DEF OutcomesTypeOK
<1> DEFINE todo == sweep.todo
           rest == Tail(todo)
<1>7. /\ rest \in Seq(Change) /\ Len(rest) <= Batch
      /\ \A i \in DOMAIN rest : i + 1 \in DOMAIN todo /\ rest[i] = todo[i + 1] /\ i \in Nat /\ i + 1 # 1
      /\ 1 \in DOMAIN todo /\ todo[1] = c
  BY <1>1, <1>2, <1>3, OutcomesAssumption DEF OutcomesAssumption
<1>8. sweep' \in SweepRow /\ sweep'.todo = rest /\ sweep'.read = NoPage
  <2>1. rest \in BoundedSeq(Change, Batch)
    BY <1>7, BoundedSeqIs, OutcomesAssumption DEF OutcomesAssumption
  <2> HIDE DEF rest
  <2> QED BY <1>1, <2>1 DEF SweepRow, rest
<1> HIDE DEF todo, rest
<1>9. OutcomesTypeOK'
  BY <1>1, <1>4, <1>5, <1>6, <1>8 DEF OutcomesTypeOK, SweepRow
<1>10. \A q \in Change : Of(q)' = Of(q) /\ Of(q) \subseteq Number
  BY <1>1, <1>2, OutcomesAssumption DEF Of, Number, OutcomesAssumption
<1>11. \A q \in Change : Pending(q)' => Pending(q)
  BY <1>7, <1>8 DEF Pending, todo
<1>12. SweepOK'
  <2>1. \A m \in Number : verification'[m] = "verified" => m \in seen'
    BY <1>1, <1>4, <1>6 DEF SweepOK
  <2> QED BY <1>1, <1>4, <1>5, <1>8, <1>10, <1>11, <2>1 DEF SweepOK
<1>13. ASSUME NEW q \in Change, Once(q)' PROVE ChangeOK(q)'
  <2>1. Once(q) /\ ChangeOK(q) /\ Of(q)' = Of(q)
    BY <1>10, <1>13 DEF OutcomesInv, Once
  <2>2. \A i, j \in DOMAIN todo : todo[i] = q /\ todo[j] = q => i = j
    BY <2>1 DEF ChangeOK, todo
  <2>3. \A i, j \in DOMAIN rest : rest[i] = q /\ rest[j] = q => i = j
    BY <1>7, <2>2
  <2>4. CASE q # c
    <3>1. n \notin Of(q)
      BY <1>5, <2>4 DEF Of
    <3> QED BY <1>1, <1>4, <1>6, <1>8, <1>10, <1>11, <2>1, <2>3, <3>1 DEF ChangeOK
  <2>5. CASE q = c
    <3>1. Of(c) = {n}
      BY <2>1, <2>5 DEF Once
    <3>2. verification[n] # "verified"
      BY <1>7, <2>1, <2>5 DEF ChangeOK, Pending, todo
    <3>3. n \notin seen
      BY <2>1, <2>5, <3>1, <3>2 DEF ChangeOK
    <3>4. n \notin series
      BY <2>1, <2>5, <3>1, <3>3 DEF ChangeOK
    <3>5. ~Pending(q)'
      <4>1. \A i \in DOMAIN rest : rest[i] # c
        BY <1>7, <2>2, <2>5
      <4> QED BY <1>8, <2>5, <4>1 DEF Pending
    <3> QED BY <1>1, <1>4, <1>6, <1>8, <1>10, <2>1, <2>3, <2>5, <3>1, <3>3, <3>4, <3>5 DEF ChangeOK
  <2> QED BY <2>4, <2>5
<1> QED BY <1>8, <1>9, <1>12, <1>13 DEF OutcomesInv

\* What is measured was verified, in the one receipt there is.
LEMMA MeasureStep ==
    ASSUME OutcomesInv, NEW c \in Change, Measure(c)
    PROVE  OutcomesInv'
<1>1. /\ OutcomesTypeOK /\ sweep \in SweepRow /\ SweepOK
      /\ UNCHANGED <<receipt, deployed, page, verification, sweep, seen, sweepDeaths>>
  BY DEF OutcomesInv, Measure
<1>2. PICK n \in Of(c) : Measurable(n) /\ series' = series \cup {n}
  BY DEF Measure
<1>3. receipt \in Seq(Receipt) /\ Len(receipt) <= MaxReceipts
  BY <1>1, BoundedSeqIs, OutcomesAssumption DEF OutcomesTypeOK, OutcomesAssumption
<1>4. n \in DOMAIN receipt /\ n \in Number /\ receipt[n].of = c
  BY <1>2, <1>3, OutcomesAssumption DEF Of, Number, OutcomesAssumption
<1>5. \A q \in Change : Of(q)' = Of(q)
  BY <1>1 DEF Of
<1>6. OutcomesTypeOK' /\ sweep' \in SweepRow /\ SweepOK'
  BY <1>1, <1>2, <1>4, <1>5 DEF OutcomesTypeOK, SweepOK, Pending
<1>7. ASSUME NEW q \in Change, Once(q), NEW m \in Of(q), m \in series' PROVE m \in seen
  <2>1. CASE m \in series
    BY <1>7, <2>1 DEF OutcomesInv, ChangeOK
  <2>2. CASE m = n
    <3>1. q = c
      BY <1>4, <1>7, <2>2 DEF Of
    <3>2. Of(c) = {n}
      BY <1>2, <1>7, <3>1 DEF Once
    <3>3. verification[n] = "verified"
      BY <1>2, <1>4, <3>2 DEF Measurable, StatusOf
    <3> QED BY <1>1, <1>4, <2>2, <3>3 DEF SweepOK
  <2> QED BY <1>2, <1>7, <2>1, <2>2
<1> QED BY <1>1, <1>5, <1>6, <1>7, NothingSwept

\* OutcomesInv is inductive, and holds in every state of the specification.
THEOREM OutcomesInvariance == OutcomesSpec => []OutcomesInv
<1>1. OutcomesInv /\ [OutcomesNext]_outcomeVars => OutcomesInv'
  BY DeployStep, GrowOldStep, ReadingStep, StartStep, RecordStep, MeasureStep DEF OutcomesNext
<1> QED BY <1>1, OutcomesInitEstablishes, PTL DEF OutcomesSpec

\* Every variable of the deployments, the sweep and the measurement keeps its type.
THEOREM OutcomesTypeCorrect == OutcomesSpec => []OutcomesTypeOK
<1>1. OutcomesInv => OutcomesTypeOK
  BY DEF OutcomesInv
<1> QED BY <1>1, OutcomesInvariance, PTL

\* Of a change deployed once, what was seen live stays recorded as seen, and what is
\* measured was seen live, for every size of the batch.
THEOREM SightingsTheorem == OutcomesSpec => []SightingsAreKept
<1>1. OutcomesInv => SightingsAreKept
  <2> SUFFICES ASSUME OutcomesInv, NEW n \in DOMAIN receipt, DeployedOnce(receipt[n].of)
               PROVE  /\ n \in seen => verification[n] = "verified"
                      /\ n \in series => n \in seen
    BY DEF SightingsAreKept
  <2>1. receipt \in Seq(Receipt)
    BY BoundedSeqIs, OutcomesAssumption DEF OutcomesInv, OutcomesTypeOK, OutcomesAssumption
  <2>2. PICK c \in Change : c = receipt[n].of
    <3>1. receipt[n] \in Receipt
      BY <2>1
    <3> QED BY <3>1 DEF Receipt
  <2>3. IsFiniteSet(Of(c))
    <3>1. IsFiniteSet(1..Len(receipt))
      BY <2>1, FS_Interval
    <3>2. Of(c) \subseteq 1..Len(receipt)
      BY <2>1 DEF Of
    <3> QED BY <3>1, <3>2, FS_Subset
  <2>4. \E m : Of(c) = {m}
    BY <2>2, <2>3, FS_Singleton DEF DeployedOnce
  <2>5. n \in Of(c) /\ Once(c)
    BY <2>2, <2>4 DEF Of, Once
  <2> QED BY <2>5 DEF OutcomesInv, ChangeOK
<1> QED BY <1>1, OutcomesInvariance, PTL

-----------------------------------------------------------------------------
(* Notifications.  A lease that lapses gives a row to a second dispatcher   *)
(* while the first still has it in hand, so the same report may be on its   *)
(* way more than once; but every hand took an attempt of its own.  While    *)
(* none lapses the lease says whether a dispatcher has the row (TendInv).   *)

\* The dispatchers that may still post a delivery.
Unsent(d) == {p \in Dispatcher : Holds(p, d) /\ ~dispatcher[p][d].sent}

\* What was posted and what may yet be is within the attempts of the row.
PostsOK(d) ==
    /\ IsFiniteSet(Unsent(d))
    /\ posted[d] + Cardinality(Unsent(d)) <= delivery[d].attempts

\* The inductive invariant.
NoticeInv == NoticeTypeOK /\ \A d \in Delivery : PostsOK(d)

\* At first nothing is in hand and nothing posted.
LEMMA NoticeInitEstablishes == NoticeInit => NoticeInv
<1> SUFFICES ASSUME NoticeInit PROVE NoticeInv
  OBVIOUS
<1> USE NotificationAssumption DEF NoticeInit, NotificationAssumption, Nothing
<1>1. NoticeTypeOK
  BY DEF NoticeTypeOK, DeliveryRow, InHand
<1>2. ASSUME NEW d \in Delivery PROVE PostsOK(d)
  <2>1. Unsent(d) = {}
    BY DEF Unsent, Holds
  <2> QED BY <2>1, FS_EmptySet DEF PostsOK
<1> QED BY <1>1, <1>2 DEF NoticeInv

\* Fewer that may still post leave the bound as it is.
LEMMA PostsKept ==
    ASSUME NoticeTypeOK, NEW d \in Delivery, PostsOK(d), Unsent(d)' \subseteq Unsent(d),
           posted'[d] = posted[d], delivery'[d].attempts = delivery[d].attempts
    PROVE  PostsOK(d)'
<1>1. /\ IsFiniteSet(Unsent(d)') /\ Cardinality(Unsent(d)') \in Nat /\ Cardinality(Unsent(d)) \in Nat
      /\ Cardinality(Unsent(d)') <= Cardinality(Unsent(d))
  BY FS_Subset, FS_CardinalityType DEF PostsOK
<1>2. posted[d] \in Int /\ delivery[d].attempts \in Int
  BY NotificationAssumption DEF NoticeTypeOK, DeliveryRow, NotificationAssumption
<1>3. posted[d] + Cardinality(Unsent(d)') <= delivery[d].attempts
  BY <1>1, <1>2 DEF PostsOK
<1> QED BY <1>1, <1>3 DEF PostsOK

\* A claim takes an attempt for every row it puts in hand.
LEMMA ClaimBatchPreserves ==
    ASSUME NoticeInv, NEW p \in Dispatcher, ClaimBatch(p)
    PROVE  NoticeInv'
<1>1. /\ NoticeTypeOK /\ \A d \in Delivery : PostsOK(d) /\ ~Holds(p, d)
      /\ MaxPosts \in Nat
  BY NotificationAssumption DEF NoticeInv, ClaimBatch, Resting, NotificationAssumption
<1>0. PICK chosen \in SUBSET Delivery :
         /\ \A d \in chosen : Due(d)
         /\ delivery' = [d \in Delivery |->
               IF d \in chosen THEN [delivery[d] EXCEPT !.attempts = @ + 1, !.lease = TRUE]
               ELSE delivery[d]]
         /\ dispatcher' = [dispatcher EXCEPT ![p] =
               [d \in Delivery |->
                   IF d \in chosen THEN [attempts |-> delivery[d].attempts + 1,
                                         enabled |-> (channel[d] = "open"), sent |-> FALSE]
                   ELSE Nothing]]
         /\ UNCHANGED <<channel, posted, losses>>
  BY DEF ClaimBatch, FullBatch
<1>2. ASSUME NEW d \in Delivery, d \in chosen
      PROVE  /\ delivery[d] \in DeliveryRow /\ delivery[d].attempts + 1 \in 0..MaxPosts
             /\ delivery'[d] = [delivery[d] EXCEPT !.attempts = @ + 1, !.lease = TRUE]
             /\ delivery'[d] \in DeliveryRow
             /\ delivery'[d].attempts = delivery[d].attempts + 1
  <2>1. delivery[d] \in DeliveryRow
    BY <1>1 DEF NoticeTypeOK
  <2>2. delivery[d].attempts + 1 \in 0..MaxPosts
    <3>1. delivery[d].attempts < MaxPosts
      BY <1>0, <1>2 DEF Due
    <3> QED BY <1>1, <2>1, <3>1 DEF DeliveryRow
  <2>3. delivery'[d] = [delivery[d] EXCEPT !.attempts = @ + 1, !.lease = TRUE]
    BY <1>0, <1>2
  <2> QED BY <2>1, <2>2, <2>3 DEF DeliveryRow
<1>3. ASSUME NEW d \in Delivery, d \notin chosen
      PROVE  delivery'[d] = delivery[d] /\ delivery[d] \in DeliveryRow
  BY <1>0, <1>1, <1>3 DEF NoticeTypeOK
<1>4. delivery' \in [Delivery -> DeliveryRow]
  <2>1. delivery' = [d \in Delivery |-> delivery'[d]]
    BY <1>0
  <2>2. \A d \in Delivery : delivery'[d] \in DeliveryRow
    BY <1>2, <1>3
  <2> QED BY <2>1, <2>2
<1>5. PICK batch : /\ dispatcher' = [dispatcher EXCEPT ![p] = batch]
                   /\ batch = [d \in Delivery |->
                                  IF d \in chosen THEN [attempts |-> delivery[d].attempts + 1,
                                                  enabled |-> (channel[d] = "open"), sent |-> FALSE]
                                  ELSE Nothing]
  BY <1>0
<1>6. batch \in [Delivery -> InHand]
  <2>1. ASSUME NEW d \in Delivery, d \in chosen PROVE batch[d] \in InHand
    BY <1>2, <1>5, <2>1 DEF InHand
  <2>2. ASSUME NEW d \in Delivery, d \notin chosen PROVE batch[d] \in InHand
    BY <1>1, <1>5, <2>2 DEF InHand, Nothing
  <2> QED BY <1>5, <2>1, <2>2
<1>7. /\ dispatcher'[p] = batch
      /\ \A q \in Dispatcher \ {p} : dispatcher'[q] = dispatcher[q]
      /\ dispatcher' \in [Dispatcher -> [Delivery -> InHand]]
  BY <1>1, <1>5, <1>6 DEF NoticeTypeOK
<1>8. NoticeTypeOK'
  BY <1>0, <1>1, <1>4, <1>7 DEF NoticeTypeOK
<1>9. ASSUME NEW d \in Delivery PROVE PostsOK(d)'
  <2>1. CASE d \in chosen
    <3>1. Unsent(d)' \subseteq Unsent(d) \cup {p} /\ p \notin Unsent(d)
      BY <1>1, <1>7 DEF Unsent, Holds
    <3>2. /\ IsFiniteSet(Unsent(d) \cup {p})
          /\ Cardinality(Unsent(d) \cup {p}) = Cardinality(Unsent(d)) + 1
          /\ Cardinality(Unsent(d)) \in Nat
      BY <1>1, <3>1, FS_AddElement, FS_CardinalityType DEF PostsOK
    <3>3. /\ IsFiniteSet(Unsent(d)') /\ Cardinality(Unsent(d)') \in Nat
          /\ Cardinality(Unsent(d)') <= Cardinality(Unsent(d)) + 1
      BY <3>1, <3>2, FS_Subset, FS_CardinalityType
    <3>4. posted[d] \in 0..MaxPosts /\ posted'[d] = posted[d]
      BY <1>0, <1>1 DEF NoticeTypeOK
    <3>5. delivery[d].attempts \in 0..MaxPosts /\ delivery'[d].attempts = delivery[d].attempts + 1
      BY <1>1, <1>2, <2>1 DEF DeliveryRow
    <3>6. posted[d] + Cardinality(Unsent(d)) <= delivery[d].attempts
      BY <1>1 DEF PostsOK
    <3>7. posted'[d] + Cardinality(Unsent(d)') <= delivery'[d].attempts
      BY <1>1, <3>2, <3>3, <3>4, <3>5, <3>6
    <3> QED BY <3>3, <3>7 DEF PostsOK
  <2>2. CASE d \notin chosen
    <3>1. Unsent(d)' \subseteq Unsent(d)
      BY <1>5, <1>7, <2>2 DEF Unsent, Holds, Nothing
    <3> QED BY <1>0, <1>1, <1>3, <2>2, <3>1, PostsKept
  <2> QED BY <2>1, <2>2
<1> QED BY <1>8, <1>9 DEF NoticeInv

\* A post is the one its attempt was taken for.
LEMMA PostPreserves ==
    ASSUME NoticeInv, NEW p \in Dispatcher, NEW d \in Delivery, Post(p, d)
    PROVE  NoticeInv'
<1>1. /\ NoticeTypeOK /\ (\A e \in Delivery : PostsOK(e)) /\ p \in Unsent(d)
      /\ MaxPosts \in Nat
  BY NotificationAssumption DEF NoticeInv, Post, Unsent, NotificationAssumption
<1>2. /\ IsFiniteSet(Unsent(d)) /\ Cardinality(Unsent(d)) \in Nat
      /\ Cardinality(Unsent(d) \ {p}) = Cardinality(Unsent(d)) - 1
      /\ IsFiniteSet(Unsent(d) \ {p}) /\ Cardinality(Unsent(d) \ {p}) \in Nat
  BY <1>1, FS_RemoveElement, FS_CardinalityType DEF PostsOK
<1>3. posted[d] \in 0..MaxPosts /\ delivery[d].attempts \in 0..MaxPosts
  BY <1>1 DEF NoticeTypeOK, DeliveryRow
<1>4. posted[d] + 1 <= delivery[d].attempts
  BY <1>1, <1>2, <1>3 DEF PostsOK
<1>5. posted[d] + 1 \in 0..MaxPosts
  BY <1>1, <1>3, <1>4
<1>6. posted' \in [Delivery -> 0..MaxPosts] /\ posted'[d] = posted[d] + 1
      /\ \A e \in Delivery \ {d} : posted'[e] = posted[e]
  BY <1>1, <1>5 DEF NoticeTypeOK, Post
<1>7. PICK hand : /\ hand = [dispatcher[p][d] EXCEPT !.sent = TRUE]
                  /\ dispatcher' = [dispatcher EXCEPT ![p] = [dispatcher[p] EXCEPT ![d] = hand]]
  BY DEF Post
<1>8. dispatcher[p] \in [Delivery -> InHand] /\ hand \in InHand /\ hand.sent
  <2>1. dispatcher[p] \in [Delivery -> InHand]
    BY <1>1 DEF NoticeTypeOK
  <2>2. dispatcher[p][d] \in InHand
    BY <2>1
  <2> QED BY <1>7, <2>1, <2>2 DEF InHand
<1>9. /\ dispatcher' \in [Dispatcher -> [Delivery -> InHand]]
      /\ dispatcher'[p][d] = hand
      /\ \A q \in Dispatcher, e \in Delivery : q # p \/ e # d => dispatcher'[q][e] = dispatcher[q][e]
  BY <1>1, <1>7, <1>8 DEF NoticeTypeOK
<1>10. NoticeTypeOK'
  BY <1>1, <1>6, <1>9 DEF NoticeTypeOK, Post
<1>11. PostsOK(d)'
  <2>1. Unsent(d)' = Unsent(d) \ {p}
    BY <1>8, <1>9 DEF Unsent, Holds
  <2>2. posted'[d] + Cardinality(Unsent(d)') <= delivery'[d].attempts
    <3>1. delivery' = delivery
      BY DEF Post
    <3> QED BY <1>1, <1>2, <1>3, <1>6, <2>1, <3>1 DEF PostsOK
  <2> QED BY <1>2, <2>1, <2>2 DEF PostsOK
<1>12. ASSUME NEW e \in Delivery, e # d PROVE PostsOK(e)'
  <2>1. Unsent(e)' \subseteq Unsent(e)
    BY <1>9, <1>12 DEF Unsent, Holds
  <2> QED BY <1>1, <1>6, <1>12, <2>1, PostsKept DEF Post
<1> QED BY <1>10, <1>11, <1>12 DEF NoticeInv

\* What is written about a delivery takes it out of a hand.
LEMMA WritePreserves ==
    ASSUME NoticeInv, NEW p \in Dispatcher, NEW d \in Delivery,
           NEW status \in {"queued"} \cup Over, Write(p, d, status),
           UNCHANGED <<channel, posted, losses>>
    PROVE  NoticeInv'
<1>1. /\ NoticeTypeOK /\ (\A e \in Delivery : PostsOK(e)) /\ MaxPosts \in Nat
  BY NotificationAssumption DEF NoticeInv, NotificationAssumption
<1>2. PICK row : /\ row = [delivery[d] EXCEPT !.status = status, !.lease = FALSE]
                 /\ delivery' = [delivery EXCEPT ![d] = row]
  BY DEF Write
<1>3. row \in DeliveryRow /\ row.attempts = delivery[d].attempts
  BY <1>1, <1>2 DEF NoticeTypeOK, DeliveryRow
<1>4. delivery' \in [Delivery -> DeliveryRow]
      /\ \A e \in Delivery : delivery'[e].attempts = delivery[e].attempts
  BY <1>1, <1>2, <1>3 DEF NoticeTypeOK
<1>5. Nothing \in InHand /\ Nothing.attempts = 0
  BY <1>1 DEF InHand, Nothing
<1>6. /\ dispatcher' \in [Dispatcher -> [Delivery -> InHand]]
      /\ dispatcher'[p][d] = Nothing
      /\ \A q \in Dispatcher, e \in Delivery : q # p \/ e # d => dispatcher'[q][e] = dispatcher[q][e]
  <2>1. dispatcher[p] \in [Delivery -> InHand]
    BY <1>1 DEF NoticeTypeOK
  <2>2. dispatcher' = [dispatcher EXCEPT ![p] = [dispatcher[p] EXCEPT ![d] = Nothing]]
    BY DEF Write
  <2> QED BY <1>1, <1>5, <2>1, <2>2 DEF NoticeTypeOK
<1>7. NoticeTypeOK'
  BY <1>1, <1>4, <1>6 DEF NoticeTypeOK
<1>8. ASSUME NEW e \in Delivery PROVE PostsOK(e)'
  <2>1. Unsent(e)' \subseteq Unsent(e)
    BY <1>5, <1>6 DEF Unsent, Holds
  <2> QED BY <1>1, <1>4, <2>1, PostsKept
<1> QED BY <1>7, <1>8 DEF NoticeInv

\* The rest adds nothing to a hand.
LEMMA AroundNoticePreserves ==
    ASSUME NoticeInv,
           \/ \E d \in Delivery : CreateChannel(d) \/ QueueDelivery(d) \/ Revoke(d) \/ LapseDelivery(d)
           \/ \E p \in Dispatcher : Lose(p)
           \/ UNCHANGED noticeVars
    PROVE  NoticeInv'
<1>1. /\ NoticeTypeOK /\ (\A e \in Delivery : PostsOK(e)) /\ MaxPosts \in Nat /\ MaxLosses \in Nat
  BY NotificationAssumption DEF NoticeInv, NotificationAssumption
<1>2. delivery' \in [Delivery -> DeliveryRow]
      /\ \A e \in Delivery : delivery'[e].attempts = delivery[e].attempts
  <2>1. ASSUME NEW d \in Delivery, QueueDelivery(d) \/ LapseDelivery(d)
        PROVE  \E row \in DeliveryRow : /\ row.attempts = delivery[d].attempts
                                        /\ delivery' = [delivery EXCEPT ![d] = row]
    <3>1. delivery[d] \in DeliveryRow
      BY <1>1 DEF NoticeTypeOK
    <3>2. CASE QueueDelivery(d)
      BY <3>1, <3>2 DEF QueueDelivery, DeliveryRow
    <3>3. CASE LapseDelivery(d)
      BY <3>1, <3>3 DEF LapseDelivery, DeliveryRow
    <3> QED BY <2>1, <3>2, <3>3
  <2>2. CASE \E d \in Delivery : QueueDelivery(d) \/ LapseDelivery(d)
    BY <1>1, <2>1, <2>2 DEF NoticeTypeOK
  <2>3. CASE ~\E d \in Delivery : QueueDelivery(d) \/ LapseDelivery(d)
    BY <1>1, <2>3 DEF CreateChannel, Revoke, Lose, noticeVars, NoticeTypeOK
  <2> QED BY <2>2, <2>3
<1>3. channel' \in [Delivery -> {"none", "open", "revoked"}] /\ posted' = posted
  BY <1>1 DEF CreateChannel, QueueDelivery, Revoke, LapseDelivery, Lose, noticeVars, NoticeTypeOK
<1>4. losses' \in 0..MaxLosses
  BY <1>1 DEF CreateChannel, QueueDelivery, Revoke, LapseDelivery, Lose, noticeVars, NoticeTypeOK
<1>5. [e \in Delivery |-> Nothing] \in [Delivery -> InHand] /\ Nothing.attempts = 0
  BY <1>1 DEF InHand, Nothing
<1>6. /\ dispatcher' \in [Dispatcher -> [Delivery -> InHand]]
      /\ \A q \in Dispatcher, e \in Delivery :
            dispatcher'[q][e] = dispatcher[q][e] \/ dispatcher'[q][e] = Nothing
  <2>1. CASE \E p \in Dispatcher : Lose(p)
    BY <1>1, <1>5, <2>1 DEF Lose, NoticeTypeOK
  <2>2. CASE ~\E p \in Dispatcher : Lose(p)
    BY <1>1, <2>2 DEF CreateChannel, QueueDelivery, Revoke, LapseDelivery, noticeVars, NoticeTypeOK
  <2> QED BY <2>1, <2>2
<1>7. NoticeTypeOK'
  BY <1>1, <1>2, <1>3, <1>4, <1>6 DEF NoticeTypeOK
<1>8. ASSUME NEW e \in Delivery PROVE PostsOK(e)'
  <2>1. Unsent(e)' \subseteq Unsent(e)
    BY <1>5, <1>6 DEF Unsent, Holds
  <2> QED BY <1>1, <1>2, <1>3, <2>1, PostsKept
<1> QED BY <1>7, <1>8 DEF NoticeInv

\* Every step preserves the invariant.
LEMMA NoticeStepPreserves == NoticeInv /\ [NoticeNext]_noticeVars => NoticeInv'
<1> SUFFICES ASSUME NoticeInv, [NoticeNext]_noticeVars PROVE NoticeInv'
  OBVIOUS
<1>1. ASSUME NEW p \in Dispatcher, NEW d \in Delivery,
             Block(p, d) \/ Post(p, d) \/ Delivered(p, d) \/ Errs(p, d)
      PROVE  NoticeInv'
  <2>1. AfterError(dispatcher[p][d].attempts) \in {"queued"} \cup Over
    BY DEF AfterError, Over
  <2>2. "blocked" \in Over /\ "delivered" \in Over
    BY DEF Over
  <2>3. CASE Post(p, d)
    BY <2>3, PostPreserves
  <2>4. CASE Block(p, d)
    BY <2>2, <2>4, WritePreserves DEF Block
  <2>5. CASE Delivered(p, d)
    BY <2>2, <2>5, WritePreserves DEF Delivered
  <2>6. CASE Errs(p, d)
    BY <2>1, <2>6, WritePreserves DEF Errs
  <2> QED BY <1>1, <2>3, <2>4, <2>5, <2>6
<1>2. ASSUME NEW p \in Dispatcher, ClaimBatch(p) PROVE NoticeInv'
  BY <1>2, ClaimBatchPreserves
<1> QED BY <1>1, <1>2, AroundNoticePreserves DEF NoticeNext

\* The inductive invariant holds in every state of every behaviour.
THEOREM NoticeInvariance == NoticeSpec => []NoticeInv
BY NoticeInitEstablishes, NoticeStepPreserves, PTL DEF NoticeSpec

\* While no dispatcher died at work and no lease lapsed under one, a delivery in hand
\* is in one hand, and a row that waits for its last attempt does not: it is in hand.
OnlyLossStrands ==
    losses = 0 =>
       \A d \in Delivery :
          /\ \A p, q \in Dispatcher : Holds(p, d) /\ Holds(q, d) => p = q
          /\ delivery[d].status = "queued" /\ delivery[d].attempts = MaxPosts
                => \E p \in Dispatcher : Holds(p, d)

\* What says delivered was posted.
DeliveredWasPosted == \A d \in Delivery : delivery[d].status = "delivered" => posted[d] > 0

\* What is true of a row and of the hands it is in while nothing is lost: the lease says
\* whether somebody has it.
Tended(d) ==
    /\ delivery[d].status = "none" => delivery[d].attempts = 0
    /\ \A p \in Dispatcher :
          Holds(p, d) => /\ delivery[d].status = "queued" /\ delivery[d].lease
                         /\ dispatcher[p][d].attempts = delivery[d].attempts
    /\ \A p, q \in Dispatcher : Holds(p, d) /\ Holds(q, d) => p = q
    /\ delivery[d].lease => \E p \in Dispatcher : Holds(p, d)
    /\ delivery[d].status = "queued" /\ delivery[d].attempts = MaxPosts => delivery[d].lease

\* What is true of it in any case.
PostedOK(d) ==
    delivery[d].status = "delivered" \/ (\E p \in Dispatcher : dispatcher[p][d].sent)
        => posted[d] > 0

\* The two together, inductive beside NoticeInv.
TendInv ==
    /\ losses = 0 => \A d \in Delivery : Tended(d)
    /\ \A d \in Delivery : PostedOK(d)

\* Nothing is asked for at first.
LEMMA TendInit == NoticeInit => TendInv
BY NotificationAssumption
   DEF NotificationAssumption, NoticeInit, TendInv, Tended, PostedOK, Holds, Nothing

\* A row and its hands that stay keep what is true of them.
LEMMA TendedStays ==
    ASSUME NEW d \in Delivery, Tended(d), delivery'[d] = delivery[d],
           \A p \in Dispatcher : dispatcher'[p][d].attempts = dispatcher[p][d].attempts
    PROVE  Tended(d)'
BY DEF Tended, Holds

\* A claim takes rows nobody has.
LEMMA ClaimTends ==
    ASSUME NoticeInv, TendInv, NEW p \in Dispatcher, ClaimBatch(p)
    PROVE  TendInv'
<1>1. /\ NoticeTypeOK /\ losses' = losses /\ posted' = posted
      /\ \A d \in Delivery : ~Holds(p, d)
      /\ MaxPosts \in Nat \ {0}
  BY NotificationAssumption DEF NoticeInv, ClaimBatch, Resting, NotificationAssumption
<1>0. PICK chosen \in SUBSET Delivery :
         /\ \A d \in chosen : Due(d)
         /\ delivery' = [d \in Delivery |->
               IF d \in chosen THEN [delivery[d] EXCEPT !.attempts = @ + 1, !.lease = TRUE]
               ELSE delivery[d]]
         /\ dispatcher' = [dispatcher EXCEPT ![p] =
               [d \in Delivery |->
                   IF d \in chosen THEN [attempts |-> delivery[d].attempts + 1,
                                         enabled |-> (channel[d] = "open"), sent |-> FALSE]
                   ELSE Nothing]]
  BY DEF ClaimBatch, FullBatch
<1>2. PICK batch : /\ dispatcher' = [dispatcher EXCEPT ![p] = batch]
                   /\ batch = [d \in Delivery |->
                                  IF d \in chosen THEN [attempts |-> delivery[d].attempts + 1,
                                                  enabled |-> (channel[d] = "open"), sent |-> FALSE]
                                  ELSE Nothing]
  BY <1>0
<1>3. dispatcher'[p] = batch /\ \A q \in Dispatcher \ {p} : dispatcher'[q] = dispatcher[q]
  BY <1>1, <1>2 DEF NoticeTypeOK
<1>4. ASSUME NEW d \in Delivery, d \in chosen
      PROVE  /\ delivery'[d].status = "queued" /\ delivery'[d].lease
             /\ delivery'[d].attempts = delivery[d].attempts + 1
             /\ delivery[d].attempts \in Nat
             /\ dispatcher'[p][d].attempts = delivery[d].attempts + 1
             /\ ~dispatcher'[p][d].sent
  <2>1. delivery[d] \in DeliveryRow /\ delivery[d].status = "queued"
    BY <1>0, <1>1, <1>4 DEF NoticeTypeOK, Due
  <2>2. delivery'[d] = [delivery[d] EXCEPT !.attempts = @ + 1, !.lease = TRUE]
    BY <1>0, <1>4
  <2> QED BY <1>1, <1>2, <1>3, <1>4, <2>1, <2>2 DEF DeliveryRow
<1>5. ASSUME NEW d \in Delivery, d \notin chosen
      PROVE  /\ delivery'[d] = delivery[d]
             /\ dispatcher'[p][d].attempts = 0 /\ ~dispatcher'[p][d].sent
  <2>1. delivery'[d] = delivery[d]
    BY <1>0, <1>5
  <2>2. dispatcher'[p][d] = Nothing
    BY <1>2, <1>3, <1>5
  <2> QED BY <2>1, <2>2 DEF Nothing
<1>6. ASSUME NEW d \in Delivery PROVE dispatcher[p][d].attempts = 0
  <2>1. dispatcher[p][d] \in InHand
    BY <1>1 DEF NoticeTypeOK
  <2> QED BY <1>1, <2>1 DEF Holds, InHand
<1>7. ASSUME NEW d \in Delivery, losses' = 0 PROVE Tended(d)'
  <2>1. Tended(d)
    BY <1>1, <1>7 DEF TendInv
  <2>2. CASE d \in chosen
    <3>1. \A q \in Dispatcher : ~Holds(q, d)
      BY <1>0, <2>1, <2>2 DEF Tended, Due
    <3>2. \A q \in Dispatcher \ {p} : ~Holds(q, d)'
      BY <1>3, <3>1 DEF Holds
    <3>3. Holds(p, d)'
      BY <1>4, <2>2 DEF Holds
    <3> QED BY <1>4, <2>2, <3>2, <3>3 DEF Tended
  <2>3. CASE d \notin chosen
    <3>1. \A q \in Dispatcher : dispatcher'[q][d].attempts = dispatcher[q][d].attempts
      BY <1>3, <1>5, <1>6, <2>3
    <3> QED BY <1>5, <2>1, <2>3, <3>1, TendedStays
  <2> QED BY <2>2, <2>3
<1>8. ASSUME NEW d \in Delivery PROVE PostedOK(d)'
  <2>1. delivery'[d].status = delivery[d].status
    BY <1>0, <1>4, <1>5 DEF Due
  <2>2. \A q \in Dispatcher : dispatcher'[q][d].sent => dispatcher[q][d].sent
    BY <1>3, <1>4, <1>5
  <2> QED BY <1>1, <2>1, <2>2 DEF TendInv, PostedOK
<1> QED BY <1>7, <1>8 DEF TendInv

\* A post changes what was posted and nothing else that counts.
LEMMA PostTends ==
    ASSUME NoticeInv, NoticeInv', TendInv, NEW p \in Dispatcher, NEW d \in Delivery, Post(p, d)
    PROVE  TendInv'
<1>1. NoticeTypeOK /\ losses' = losses /\ delivery' = delivery
  BY DEF NoticeInv, Post
<1>2. /\ dispatcher'[p][d].attempts = dispatcher[p][d].attempts
      /\ \A q \in Dispatcher, e \in Delivery : q # p \/ e # d => dispatcher'[q][e] = dispatcher[q][e]
  <2>1. dispatcher[p] \in [Delivery -> InHand] /\ dispatcher[p][d] \in InHand
    BY <1>1 DEF NoticeTypeOK
  <2>2. dispatcher' = [dispatcher EXCEPT ![p] =
                          [dispatcher[p] EXCEPT ![d] = [dispatcher[p][d] EXCEPT !.sent = TRUE]]]
    BY DEF Post
  <2> QED BY <1>1, <2>1, <2>2 DEF NoticeTypeOK, InHand
<1>3. /\ posted'[d] > 0
      /\ \A e \in Delivery \ {d} : posted'[e] = posted[e]
  BY <1>1, NotificationAssumption DEF Post, NoticeTypeOK, NotificationAssumption
<1>4. ASSUME NEW e \in Delivery, losses' = 0 PROVE Tended(e)'
  <2>1. Tended(e)
    BY <1>1, <1>4 DEF TendInv
  <2>2. \A q \in Dispatcher : dispatcher'[q][e].attempts = dispatcher[q][e].attempts
    BY <1>2
  <2> QED BY <1>1, <2>1, <2>2, TendedStays
<1>5. ASSUME NEW e \in Delivery PROVE PostedOK(e)'
  BY <1>1, <1>2, <1>3 DEF TendInv, PostedOK
<1> QED BY <1>4, <1>5 DEF TendInv

\* What is written about a row leaves it in nobody's hands, and queued only if it may
\* be tried again.
LEMMA WriteTends ==
    ASSUME NoticeInv, TendInv, NEW p \in Dispatcher, NEW d \in Delivery, Holds(p, d),
           NEW status \in {"queued"} \cup Over, Write(p, d, status),
           UNCHANGED <<channel, posted, losses>>,
           status = "queued" => dispatcher[p][d].attempts # MaxPosts,
           status = "delivered" => dispatcher[p][d].sent
    PROVE  TendInv'
<1>1. NoticeTypeOK /\ losses' = losses /\ posted' = posted
  BY DEF NoticeInv
<1>2. /\ delivery'[d].status = status /\ ~delivery'[d].lease
      /\ delivery'[d].attempts = delivery[d].attempts
      /\ \A e \in Delivery \ {d} : delivery'[e] = delivery[e]
  BY <1>1 DEF Write, NoticeTypeOK, DeliveryRow
<1>3. /\ dispatcher'[p][d] = Nothing
      /\ \A q \in Dispatcher, e \in Delivery : q # p \/ e # d => dispatcher'[q][e] = dispatcher[q][e]
  <2>1. dispatcher[p] \in [Delivery -> InHand]
    BY <1>1 DEF NoticeTypeOK
  <2>2. dispatcher' = [dispatcher EXCEPT ![p] = [dispatcher[p] EXCEPT ![d] = Nothing]]
    BY DEF Write
  <2> QED BY <1>1, <2>1, <2>2 DEF NoticeTypeOK
<1>4. ASSUME losses' = 0 PROVE Tended(d)'
  <2>1. Tended(d)
    BY <1>1, <1>4 DEF TendInv
  <2>2. \A q \in Dispatcher : ~Holds(q, d)'
    BY <1>3, <2>1 DEF Tended, Holds, Nothing
  <2>3. status = "queued" => delivery[d].attempts # MaxPosts
    BY <2>1 DEF Tended
  <2> QED BY <1>2, <2>2, <2>3 DEF Tended, Over
<1>5. ASSUME NEW e \in Delivery \ {d}, losses' = 0 PROVE Tended(e)'
  BY <1>1, <1>2, <1>3, <1>5, TendedStays DEF TendInv
<1>6. PostedOK(d)'
  <2>1. delivery'[d].status = "delivered" \/ (\E q \in Dispatcher : dispatcher'[q][d].sent)
           => \E q \in Dispatcher : dispatcher[q][d].sent
    BY <1>2, <1>3 DEF Nothing
  <2> QED BY <1>1, <2>1 DEF TendInv, PostedOK
<1>7. ASSUME NEW e \in Delivery \ {d} PROVE PostedOK(e)'
  BY <1>1, <1>2, <1>3 DEF TendInv, PostedOK
<1> QED BY <1>4, <1>5, <1>6, <1>7 DEF TendInv

\* A lease that lapses has somebody under it, or was never taken.
LEMMA AroundTends ==
    ASSUME NoticeInv, TendInv,
           \/ \E d \in Delivery : CreateChannel(d) \/ QueueDelivery(d) \/ Revoke(d) \/ LapseDelivery(d)
           \/ \E p \in Dispatcher : Lose(p)
           \/ UNCHANGED noticeVars
    PROVE  TendInv'
<1>1. NoticeTypeOK /\ losses \in Nat /\ MaxPosts \in Nat \ {0}
  BY NotificationAssumption DEF NoticeInv, NoticeTypeOK, NotificationAssumption
<1>2. CASE \E d \in Delivery : CreateChannel(d) \/ Revoke(d) \/ UNCHANGED noticeVars
  <2>1. UNCHANGED <<delivery, dispatcher, posted, losses>>
    BY <1>2 DEF CreateChannel, Revoke, noticeVars
  <2> QED BY <2>1 DEF TendInv, Tended, PostedOK, Holds
<1>3. ASSUME NEW d \in Delivery, QueueDelivery(d) PROVE TendInv'
  <2>1. /\ UNCHANGED <<dispatcher, posted, losses>>
        /\ delivery[d].status = "none" /\ delivery'[d].status = "queued"
        /\ delivery'[d].attempts = delivery[d].attempts /\ delivery'[d].lease = delivery[d].lease
        /\ \A e \in Delivery \ {d} : delivery'[e] = delivery[e]
    BY <1>1, <1>3 DEF QueueDelivery, NoticeTypeOK, DeliveryRow
  <2>2. ASSUME losses' = 0 PROVE Tended(d)'
    <3>1. Tended(d)
      BY <2>1, <2>2 DEF TendInv
    <3>2. delivery[d].attempts = 0 /\ \A p \in Dispatcher : ~Holds(p, d)
      BY <2>1, <3>1 DEF Tended
    <3> QED BY <1>1, <2>1, <3>1, <3>2 DEF Tended, Holds
  <2>3. ASSUME NEW e \in Delivery \ {d}, losses' = 0 PROVE Tended(e)'
    BY <2>1, <2>3, TendedStays DEF TendInv
  <2>4. ASSUME NEW e \in Delivery PROVE PostedOK(e)'
    BY <2>1 DEF TendInv, PostedOK
  <2> QED BY <2>2, <2>3, <2>4 DEF TendInv
<1>4. ASSUME NEW d \in Delivery, LapseDelivery(d) PROVE TendInv'
  <2>1. /\ UNCHANGED <<dispatcher, posted>> /\ delivery[d].lease
        /\ \A e \in Delivery : delivery'[e].status = delivery[e].status
    BY <1>1, <1>4 DEF LapseDelivery, NoticeTypeOK, DeliveryRow
  <2>2. ASSUME NEW e \in Delivery PROVE PostedOK(e)'
    BY <2>1 DEF TendInv, PostedOK
  <2>3. losses' # 0
    <3>1. CASE losses = 0
      <4>1. \E p \in Dispatcher : Holds(p, d)
        BY <2>1, <3>1 DEF TendInv, Tended
      <4> QED BY <1>4, <3>1, <4>1 DEF LapseDelivery
    <3>2. CASE losses # 0
      BY <1>1, <1>4, <3>2 DEF LapseDelivery
    <3> QED BY <3>1, <3>2
  <2> QED BY <2>2, <2>3 DEF TendInv
<1>5. ASSUME NEW p \in Dispatcher, Lose(p) PROVE TendInv'
  <2>1. losses' # 0 /\ UNCHANGED <<delivery, posted>>
    BY <1>1, <1>5 DEF Lose
  <2>2. ASSUME NEW e \in Delivery, NEW q \in Dispatcher
        PROVE  dispatcher'[q][e].sent => dispatcher[q][e].sent
    BY <1>1, <1>5 DEF Lose, NoticeTypeOK, Nothing
  <2> QED BY <2>1, <2>2 DEF TendInv, PostedOK
<1>6. CASE UNCHANGED noticeVars
  BY <1>6 DEF noticeVars, TendInv, Tended, PostedOK, Holds
<1> QED BY <1>2, <1>3, <1>4, <1>5, <1>6

\* Every step preserves it.
LEMMA TendStep == NoticeInv /\ TendInv /\ [NoticeNext]_noticeVars => TendInv'
<1> SUFFICES ASSUME NoticeInv, TendInv, [NoticeNext]_noticeVars PROVE TendInv'
  OBVIOUS
<1>1. ASSUME NEW p \in Dispatcher, NEW d \in Delivery,
             Block(p, d) \/ Post(p, d) \/ Delivered(p, d) \/ Errs(p, d)
      PROVE  TendInv'
  <2>1. CASE Post(p, d)
    BY <2>1, NoticeStepPreserves, PostTends
  <2>2. CASE Block(p, d)
    BY <2>2, WriteTends DEF Block, Over
  <2>3. CASE Delivered(p, d)
    BY <2>3, WriteTends DEF Delivered, Over
  <2>4. CASE Errs(p, d)
    <3> DEFINE status == AfterError(dispatcher[p][d].attempts)
    <3>1. /\ status \in {"queued"} \cup Over /\ status # "delivered"
          /\ status = "queued" => dispatcher[p][d].attempts # MaxPosts
      BY NotificationAssumption DEF AfterError, Over, NotificationAssumption
    <3>2. Holds(p, d) /\ Write(p, d, status) /\ UNCHANGED <<channel, posted, losses>>
      BY <2>4 DEF Errs
    <3> HIDE DEF status
    <3> QED BY <3>1, <3>2, WriteTends
  <2> QED BY <1>1, <2>1, <2>2, <2>3, <2>4
<1>2. ASSUME NEW p \in Dispatcher, ClaimBatch(p) PROVE TendInv'
  BY <1>2, ClaimTends
<1> QED BY <1>1, <1>2, AroundTends DEF NoticeNext

\* Only a dispatcher that dies at work, or outlasts its lease, leaves a delivery behind on
\* its last attempt or in two hands (CLAIM_SQL, deliver), and what says delivered was
\* posted, whatever is lost.
THEOREM DeliveriesTheorem == NoticeSpec => [](OnlyLossStrands /\ DeliveredWasPosted)
<1>1. TendInv => OnlyLossStrands /\ DeliveredWasPosted
  BY DEF TendInv, Tended, PostedOK, OnlyLossStrands, DeliveredWasPosted
<1> QED BY <1>1, TendInit, TendStep, NoticeInitEstablishes, NoticeStepPreserves, PTL DEF NoticeSpec

-----------------------------------------------------------------------------
(* PageSpeed.  A requeue writes an event for the try after the last one:   *)
(* the types are inductive because it asks that there be one.              *)
(*                                                                         *)
(* A message whose claim finds nothing to take is acked, and so is one     *)
(* whose consumer has written an end.  Neither takes from a queued run the *)
(* event that will bring it back: a queued run can always be claimed, and  *)
(* a run whose end is written is never queued again.                       *)

\* A run that says queued has a try left, and the event of that try is still to be
\* read (requeue_sql: never queued without the event that would pick it up).
QueuedIsOnStream ==
    \A r \in Run :
       run[r].status = "queued" =>
          run[r].attempts < MaxTries /\ request[r][run[r].attempts + 1] = "new"

\* A site has one run under way at most (create_run).
OneRunAtATime ==
    \A r, other \in Run : run[r].status \in Active /\ run[other].status \in Active => r = other

\* A run that says completed has its observation (process_run).
CompletedIsObserved == \A r \in Run : run[r].status = "completed" => observed[r]

\* A run that ended stays ended, whoever writes it again.
SettledStays == \A r \in Run : run[r].status \in Settled => run'[r].status \in Settled

\* What is true of a run: nobody tries one that was not asked for.
RunOK(r) ==
    /\ run[r].status = "none" => run[r].attempts = 0
    /\ run[r].status = "queued" =>
          run[r].attempts < MaxTries /\ request[r][run[r].attempts + 1] = "new"
    /\ run[r].status = "completed" => observed[r]

\* Whoever is about to ack a message has written the end of its run.
EndBeforeAck(c) == ~Idle(c) /\ prober[c][3] = "acking" => run[prober[c][1]].status \in Settled

\* The inductive invariant.
SpeedInv ==
    /\ SpeedTypeOK
    /\ \A r \in Run : RunOK(r)
    /\ \A c \in Consumer : EndBeforeAck(c)
    /\ OneRunAtATime

\* At first no run is asked for.
LEMMA SpeedInitEstablishes == SpeedInit => SpeedTypeOK
BY PageSpeedAssumption DEF SpeedInit, SpeedTypeOK, PageSpeedAssumption, RunRow, EventState, Hands

\* A write of one row and of what a consumer has in hand.
LEMMA RowWritten ==
    ASSUME SpeedTypeOK, NEW r \in Run, NEW row \in RunRow, run' = [run EXCEPT ![r] = row]
    PROVE  run' \in [Run -> RunRow]
BY DEF SpeedTypeOK

\* A write of one event.
LEMMA EventWritten ==
    ASSUME SpeedTypeOK, NEW r \in Run, NEW n \in 1..MaxTries, NEW state \in EventState,
           request' = [request EXCEPT ![r][n] = state]
    PROVE  request' \in [Run -> [1..MaxTries -> EventState]]
<1>1. request[r] \in [1..MaxTries -> EventState]
  BY DEF SpeedTypeOK
<1> QED BY <1>1 DEF SpeedTypeOK

\* What a consumer takes in hand, or lets go.
LEMMA HandWritten ==
    ASSUME SpeedTypeOK, NEW c \in Consumer, NEW hand \in Hands, prober' = [prober EXCEPT ![c] = hand]
    PROVE  prober' \in [Consumer -> Hands]
BY DEF SpeedTypeOK

\* A run that is created, lapses or is reaped.
LEMMA RunStep ==
    ASSUME SpeedTypeOK, NEW r \in Run, CreateRun(r) \/ LapseRun(r) \/ ReapRun(r)
    PROVE  SpeedTypeOK'
<1> USE PageSpeedAssumption DEF PageSpeedAssumption
<1>1. run[r] \in RunRow
  BY DEF SpeedTypeOK
<1>2. UNCHANGED <<observed, prober>> /\ setbacks' \in 0..MaxSetbacks
  BY DEF CreateRun, LapseRun, ReapRun, Requeue, SpeedTypeOK
<1>3. \E row \in RunRow : run' = [run EXCEPT ![r] = row]
  <2>1. CASE CreateRun(r)
    BY <1>1, <2>1 DEF CreateRun, RunRow, Active
  <2>2. CASE LapseRun(r)
    BY <1>1, <2>2 DEF LapseRun, RunRow
  <2>3. CASE ReapRun(r)
    BY <1>1, <2>3 DEF ReapRun, Requeue, RunRow, Active, Settled
  <2> QED BY <2>1, <2>2, <2>3
<1>4. run' \in [Run -> RunRow]
  BY <1>3, RowWritten
<1>5. request' \in [Run -> [1..MaxTries -> EventState]]
  <2>1. "new" \in EventState /\ 1 \in 1..MaxTries
    BY DEF EventState
  <2>2. CASE CreateRun(r)
    BY <2>1, <2>2, EventWritten DEF CreateRun
  <2>3. CASE UNCHANGED request
    BY <2>3 DEF SpeedTypeOK
  <2>4. CASE ReapRun(r) /\ run[r].attempts < MaxTries
    <3> DEFINE next == run[r].attempts + 1
    <3>1. next \in 1..MaxTries
      BY <1>1, <2>4 DEF RunRow
    <3>2. request' = [request EXCEPT ![r][next] = "new"]
      BY <2>4 DEF ReapRun, Requeue
    <3> HIDE DEF next
    <3> QED BY <2>1, <3>1, <3>2, EventWritten
  <2> QED BY <2>2, <2>3, <2>4 DEF LapseRun, ReapRun
<1> QED BY <1>2, <1>4, <1>5 DEF SpeedTypeOK

\* A message that is taken.
LEMMA TakeStep ==
    ASSUME SpeedTypeOK, NEW c \in Consumer, NEW r \in Run, NEW n \in 1..MaxTries, TakeRequest(c, r, n)
    PROVE  SpeedTypeOK'
<1> USE PageSpeedAssumption DEF PageSpeedAssumption
<1>1. run[r] \in RunRow
  BY DEF SpeedTypeOK
<1>2. UNCHANGED <<observed, setbacks>> /\ "pending" \in EventState /\ "acked" \in EventState
  BY DEF TakeRequest, EventState
<1>3. CASE Claimed(r)
  <2> DEFINE row == [status |-> "running", attempts |-> run[r].attempts + 1, lease |-> TRUE]
             hand == <<r, n, "measuring">>
  <2>1. row \in RunRow
    BY <1>1, <1>3 DEF Claimed, RunRow, Active
  <2>2. hand \in Hands
    BY DEF Hands
  <2>3. /\ run' = [run EXCEPT ![r] = row] /\ prober' = [prober EXCEPT ![c] = hand]
        /\ request' = [request EXCEPT ![r][n] = "pending"]
    BY <1>3 DEF TakeRequest
  <2> HIDE DEF row, hand
  <2> QED BY <1>2, <2>1, <2>2, <2>3, RowWritten, EventWritten, HandWritten DEF SpeedTypeOK
<1>4. CASE ~Claimed(r)
  <2>1. UNCHANGED <<run, prober>> /\ request' = [request EXCEPT ![r][n] = "acked"]
    BY <1>4 DEF TakeRequest
  <2> QED BY <1>2, <2>1, EventWritten DEF SpeedTypeOK
<1> QED BY <1>3, <1>4

\* A measurement that ends.
LEMMA ProbeStep ==
    ASSUME SpeedTypeOK, NEW c \in Consumer, NEW r \in Run, Measured(c, r) \/ Refused(c, r)
    PROVE  SpeedTypeOK'
<1>1. run[r] \in RunRow /\ prober[c] \in Hands /\ prober[c] # <<>>
  BY DEF SpeedTypeOK, Measured, Refused, Measuring, Idle
<1>2. UNCHANGED <<request, setbacks>> /\ observed' \in [Run -> BOOLEAN]
  BY DEF Measured, Refused, SpeedTypeOK
<1>3. PICK status \in Settled : Settle(c, r, status)
  BY DEF Measured, Refused, Settled
<1>4. \E row \in RunRow : run' = [run EXCEPT ![r] = row]
  BY <1>1, <1>3 DEF Settle, RunRow
<1>5. \E hand \in Hands : prober' = [prober EXCEPT ![c] = hand]
  <2>1. PICK s \in Run, n \in 1..MaxTries, stage \in {"measuring", "acking"} :
           prober[c] = <<s, n, stage>>
    BY <1>1 DEF Hands
  <2>2. [prober[c] EXCEPT ![3] = "acking"] = <<s, n, "acking">>
    BY <2>1
  <2>3. prober' = [prober EXCEPT ![c] = <<s, n, "acking">>]
    BY <1>3, <2>2 DEF Settle
  <2>4. <<s, n, "acking">> \in Hands
    BY DEF Hands
  <2> QED BY <2>3, <2>4
<1>6. run' \in [Run -> RunRow]
  BY <1>4, RowWritten
<1>7. prober' \in [Consumer -> Hands]
  BY <1>5, HandWritten
<1> QED BY <1>2, <1>6, <1>7 DEF SpeedTypeOK

\* A message that is acked, or lost with its consumer.
LEMMA LetGoStep ==
    ASSUME SpeedTypeOK, NEW c \in Consumer, AckRequest(c) \/ LoseConsumer(c)
    PROVE  SpeedTypeOK'
<1>1. UNCHANGED <<run, observed>> /\ setbacks' \in 0..MaxSetbacks
  BY PageSpeedAssumption DEF AckRequest, LoseConsumer, SpeedTypeOK, PageSpeedAssumption
<1>2. prober' \in [Consumer -> Hands]
  BY DEF AckRequest, LoseConsumer, SpeedTypeOK, Hands
<1>3. request' \in [Run -> [1..MaxTries -> EventState]]
  <2>1. CASE AckRequest(c)
    <3>1. PICK s \in Run, n \in 1..MaxTries, stage \in {"measuring", "acking"} :
             prober[c] = <<s, n, stage>>
      BY <2>1 DEF AckRequest, Idle, SpeedTypeOK, Hands
    <3>2. request' = [request EXCEPT ![s][n] = "acked"]
      BY <2>1, <3>1 DEF AckRequest
    <3>3. "acked" \in EventState
      BY DEF EventState
    <3> QED BY <3>2, <3>3, EventWritten
  <2>2. CASE LoseConsumer(c)
    BY <2>2 DEF LoseConsumer, SpeedTypeOK
  <2> QED BY <2>1, <2>2
<1> QED BY <1>1, <1>2, <1>3 DEF SpeedTypeOK

\* Every step keeps the types.
LEMMA SpeedStepPreserves == SpeedTypeOK /\ [SpeedNext]_speedVars => SpeedTypeOK'
<1> SUFFICES ASSUME SpeedTypeOK, [SpeedNext]_speedVars PROVE SpeedTypeOK'
  OBVIOUS
<1>1. CASE SpeedNext
  BY <1>1, RunStep, TakeStep, ProbeStep, LetGoStep DEF SpeedNext
<1>2. CASE UNCHANGED speedVars
  BY <1>2 DEF speedVars, SpeedTypeOK
<1> QED BY <1>1, <1>2

\* What the runs promise holds at first.
LEMMA SpeedInvInit == SpeedInit => SpeedInv
BY SpeedInitEstablishes
   DEF SpeedInit, SpeedInv, RunOK, EndBeforeAck, OneRunAtATime, Active, Idle

\* A step about one run keeps what is true of the others, of what is in hand of
\* them, and of how many are under way.
LEMMA OneRunMoves ==
    ASSUME SpeedInv, SpeedTypeOK', NEW r \in Run, RunOK(r)',
           \A s \in Run \ {r} : run'[s] = run[s] /\ request'[s] = request[s]
                                /\ observed'[s] = observed[s],
           \/ run'[r].status \in Active => run[r].status \in Active
           \/ \A s \in Run : run[s].status \notin Active,
           run[r].status \in Settled => run'[r].status \in Settled,
           \A c \in Consumer : \/ prober'[c] = prober[c] \/ prober'[c] = <<>>
                               \/ prober'[c][3] = "measuring"
                               \/ prober'[c][1] = r /\ run'[r].status \in Settled
    PROVE  SpeedInv' /\ SettledStays
<1>1. \A s \in Run : RunOK(s)'
  BY DEF SpeedInv, RunOK
<1>2. SettledStays
  BY DEF SettledStays
<1>3. ASSUME NEW c \in Consumer PROVE EndBeforeAck(c)'
  <2>1. CASE prober'[c] = prober[c] /\ prober[c] # <<>>
    <3>1. PICK s \in Run : prober[c][1] = s
      BY <2>1 DEF SpeedInv, SpeedTypeOK, Hands
    <3> QED BY <1>2, <2>1, <3>1 DEF SpeedInv, EndBeforeAck, Idle, SettledStays
  <2>2. CASE prober'[c] = <<>>
    BY <2>2 DEF EndBeforeAck, Idle
  <2>3. CASE prober'[c][3] = "measuring" \/ (prober'[c][1] = r /\ run'[r].status \in Settled)
    BY <2>3 DEF EndBeforeAck
  <2> QED BY <2>1, <2>2, <2>3
<1>4. OneRunAtATime'
  BY DEF SpeedInv, OneRunAtATime
<1> QED BY <1>1, <1>2, <1>3, <1>4 DEF SpeedInv

\* A run that is created, lapses or is reaped.
LEMMA RunKeeps ==
    ASSUME SpeedInv, SpeedTypeOK', NEW r \in Run, CreateRun(r) \/ LapseRun(r) \/ ReapRun(r)
    PROVE  SpeedInv' /\ SettledStays
<1> USE PageSpeedAssumption DEF PageSpeedAssumption
<1>1. /\ UNCHANGED <<observed, prober>>
      /\ \A s \in Run \ {r} : run'[s] = run[s] /\ request'[s] = request[s]
  BY DEF CreateRun, LapseRun, ReapRun, Requeue, SpeedInv, SpeedTypeOK
<1>2. run[r] \in RunRow /\ request[r] \in [1..MaxTries -> EventState] /\ RunOK(r)
  BY DEF SpeedInv, SpeedTypeOK
<1>3. CASE CreateRun(r)
  <2>1. /\ run[r].status = "none" /\ run'[r].status = "queued"
        /\ run'[r].attempts = 0 /\ request'[r][1] = "new"
    BY <1>2, <1>3 DEF CreateRun, SpeedInv, SpeedTypeOK, RunRow, RunOK
  <2>2. RunOK(r)'
    BY <2>1 DEF RunOK
  <2>3. \A s \in Run : run[s].status \notin Active
    BY <1>3 DEF CreateRun
  <2> QED BY <1>1, <2>1, <2>2, <2>3, OneRunMoves DEF Settled
<1>4. CASE LapseRun(r)
  <2>1. run'[r].status = run[r].status /\ run'[r].attempts = run[r].attempts /\ request' = request
    BY <1>2, <1>4 DEF LapseRun, SpeedInv, SpeedTypeOK, RunRow
  <2>2. RunOK(r)'
    BY <1>1, <1>2, <2>1 DEF RunOK
  <2> QED BY <1>1, <2>1, <2>2, OneRunMoves
<1>5. CASE ReapRun(r) /\ run[r].attempts < MaxTries
  <2> DEFINE next == run[r].attempts + 1
  <2>1. next \in 1..MaxTries
    BY <1>2, <1>5 DEF RunRow
  <2>2. request' = [request EXCEPT ![r][next] = "new"] /\ run' = [run EXCEPT ![r].status = "queued"]
    BY <1>5 DEF ReapRun, Requeue
  <2>3. run'[r].status = "queued" /\ run'[r].attempts = run[r].attempts
    BY <1>2, <2>2 DEF SpeedInv, SpeedTypeOK, RunRow
  <2>4. request'[r][next] = "new"
    <3> HIDE DEF next
    <3> QED BY <1>2, <2>1, <2>2 DEF SpeedInv, SpeedTypeOK
  <2>5. RunOK(r)'
    BY <1>5, <2>3, <2>4 DEF RunOK
  <2>6. run[r].status = "running"
    BY <1>5 DEF ReapRun
  <2> QED BY <1>1, <2>3, <2>5, <2>6, OneRunMoves DEF Active, Settled
<1>6. CASE ReapRun(r) /\ ~(run[r].attempts < MaxTries)
  <2>1. run[r].status = "running" /\ run'[r].status = "failed" /\ request' = request
    BY <1>2, <1>6 DEF ReapRun, SpeedInv, SpeedTypeOK, RunRow
  <2>2. RunOK(r)'
    BY <2>1 DEF RunOK
  <2> QED BY <1>1, <2>1, <2>2, OneRunMoves DEF Active, Settled
<1> QED BY <1>3, <1>4, <1>5, <1>6

\* A message that is taken: what is queued is claimed, so only what is not queued
\* has its event acked.
LEMMA TakeKeeps ==
    ASSUME SpeedInv, SpeedTypeOK', NEW c \in Consumer, NEW r \in Run, NEW n \in 1..MaxTries,
           TakeRequest(c, r, n)
    PROVE  SpeedInv' /\ SettledStays
<1>1. run[r] \in RunRow /\ RunOK(r) /\ prober \in [Consumer -> Hands]
  BY DEF SpeedInv, SpeedTypeOK
<1>2. observed' = observed /\ \A s \in Run \ {r} : run'[s] = run[s] /\ request'[s] = request[s]
  BY DEF TakeRequest, SpeedInv, SpeedTypeOK
<1>3. CASE Claimed(r)
  <2>1. run[r].status \in Active /\ run'[r].status = "running"
    BY <1>3 DEF Claimed, Active, TakeRequest, SpeedInv, SpeedTypeOK
  <2>2. \A b \in Consumer : prober'[b] = prober[b] \/ prober'[b][3] = "measuring"
    BY <1>1, <1>3 DEF TakeRequest
  <2>3. RunOK(r)'
    BY <2>1 DEF RunOK
  <2> QED BY <1>2, <2>1, <2>2, <2>3, OneRunMoves DEF Active, Settled
<1>4. CASE ~Claimed(r)
  <2>1. UNCHANGED <<run, prober>>
    BY <1>4 DEF TakeRequest
  <2>2. run[r].status # "queued"
    BY <1>1, <1>4 DEF RunOK, Claimed
  <2>3. RunOK(r)'
    BY <1>1, <1>2, <2>1, <2>2 DEF RunOK
  <2> QED BY <1>2, <2>1, <2>3, OneRunMoves
<1> QED BY <1>3, <1>4

\* A measurement that ends, whatever its run says by then.
LEMMA ProbeKeeps ==
    ASSUME SpeedInv, SpeedTypeOK', NEW c \in Consumer, NEW r \in Run, Measured(c, r) \/ Refused(c, r)
    PROVE  SpeedInv' /\ SettledStays
<1>1. run[r] \in RunRow /\ prober \in [Consumer -> Hands]
  BY DEF SpeedInv, SpeedTypeOK
<1>2. /\ \A s \in Run \ {r} : run'[s] = run[s] /\ observed'[s] = observed[s]
      /\ UNCHANGED request
  BY DEF Measured, Refused, Settle, SpeedInv, SpeedTypeOK
<1>3. run'[r].status \in Settled /\ (run'[r].status = "completed" => observed'[r])
  BY <1>1 DEF Measured, Refused, Settle, Settled, SpeedInv, SpeedTypeOK, RunRow
<1>4. RunOK(r)'
  BY <1>3 DEF RunOK, Settled
<1>5. \A b \in Consumer : prober'[b] = prober[b] \/ prober'[b][1] = r
  <2>1. prober[c] # <<>> /\ prober[c][1] = r /\ prober' = [prober EXCEPT ![c][3] = "acking"]
    BY DEF Measured, Refused, Settle, Measuring, Idle
  <2>2. PICK s \in Run, n \in 1..MaxTries, stage \in {"measuring", "acking"} :
           prober[c] = <<s, n, stage>>
    BY <1>1, <2>1 DEF Hands
  <2>3. [prober[c] EXCEPT ![3] = "acking"] = <<r, n, "acking">>
    BY <2>1, <2>2
  <2>4. prober' = [prober EXCEPT ![c] = <<r, n, "acking">>]
    BY <2>1, <2>3
  <2> QED BY <1>1, <2>4
<1>6. run'[r].status \notin Active
  BY <1>3 DEF Active, Settled
<1> QED BY <1>2, <1>3, <1>4, <1>5, <1>6, OneRunMoves

\* A message that is acked, or lost with its consumer.
LEMMA LetGoKeeps ==
    ASSUME SpeedInv, SpeedTypeOK', NEW c \in Consumer, AckRequest(c) \/ LoseConsumer(c)
    PROVE  SpeedInv' /\ SettledStays
<1>1. /\ UNCHANGED <<run, observed>> /\ prober[c] # <<>>
      /\ \A b \in Consumer : prober'[b] = prober[b] \/ prober'[b] = <<>>
  BY DEF AckRequest, LoseConsumer, Idle, SpeedInv, SpeedTypeOK
<1>2. PICK r \in Run, n \in 1..MaxTries, stage \in {"measuring", "acking"} :
         prober[c] = <<r, n, stage>>
  BY <1>1 DEF Hands, SpeedInv, SpeedTypeOK
<1>3. \A s \in Run \ {r} : request'[s] = request[s]
  BY <1>2 DEF AckRequest, LoseConsumer, SpeedInv, SpeedTypeOK
<1>4. RunOK(r)'
  <2>1. CASE AckRequest(c)
    <3>1. run[r].status \in Settled
      BY <1>1, <1>2, <2>1 DEF AckRequest, SpeedInv, EndBeforeAck
    <3>2. run[r].status = "completed" => observed[r]
      BY DEF SpeedInv, RunOK
    <3> QED BY <1>1, <3>1, <3>2 DEF RunOK, Settled
  <2>2. CASE LoseConsumer(c)
    BY <1>1, <2>2 DEF LoseConsumer, SpeedInv, RunOK
  <2> QED BY <2>1, <2>2
<1> QED BY <1>1, <1>3, <1>4, OneRunMoves

\* Every step keeps the invariant, and what ended stays ended.
LEMMA SpeedInvStep == SpeedInv /\ [SpeedNext]_speedVars => SpeedInv' /\ [SettledStays]_speedVars
<1> SUFFICES ASSUME SpeedInv, [SpeedNext]_speedVars PROVE SpeedInv' /\ [SettledStays]_speedVars
  OBVIOUS
<1>1. SpeedTypeOK'
  BY SpeedStepPreserves DEF SpeedInv
<1>2. CASE SpeedNext
  BY <1>1, <1>2, RunKeeps, TakeKeeps, ProbeKeeps, LetGoKeeps DEF SpeedNext
<1>3. CASE UNCHANGED speedVars
  BY <1>1, <1>3 DEF speedVars, SpeedInv, RunOK, EndBeforeAck, Idle, OneRunAtATime
<1> QED BY <1>2, <1>3

\* The inductive invariant of the measurements holds in every state: runs, events and
\* consumers keep their types, and nobody tries a fourth time.
THEOREM SpeedInvariance == SpeedSpec => []SpeedInv
BY SpeedInvInit, SpeedInvStep, PTL DEF SpeedSpec

\* Wherever consumers die and leases lapse under them: a queued run has the event that
\* will bring it back, a site has one run under way, and a run that ended stays ended
\* (requeue_sql, create_run, process_run).
THEOREM MeasurementTheorem ==
    SpeedSpec => /\ [](QueuedIsOnStream /\ OneRunAtATime /\ CompletedIsObserved)
                 /\ [][SettledStays]_speedVars
<1>1. SpeedInv => QueuedIsOnStream /\ OneRunAtATime /\ CompletedIsObserved
  BY DEF SpeedInv, RunOK, QueuedIsOnStream, CompletedIsObserved
<1> QED BY <1>1, SpeedInvInit, SpeedInvStep, PTL DEF SpeedSpec

-----------------------------------------------------------------------------
(* The processes together, as MCAutomation has them.                       *)

\* Whichever process moves, each of them moves as it does alone.
LEMMA PartsAlone == Spec => SyncSpec /\ NoticeSpec /\ SpeedSpec /\ OutcomesSpec
<1>1. Init => SyncInit /\ NoticeInit /\ SpeedInit /\ OutcomesInit
  BY DEF Init
<1>2. ASSUME [Next]_<<part, syncVars, noticeVars, speedVars, outcomeVars>>
      PROVE  /\ [SyncNext]_syncVars /\ [NoticeNext]_noticeVars
             /\ [SpeedNext]_speedVars /\ [OutcomesNext]_outcomeVars
  BY <1>2 DEF Next
<1> QED BY <1>1, <1>2, PTL DEF Spec, SyncSpec, NoticeSpec, SpeedSpec, OutcomesSpec

\* The rows of syncs, reports, measurements and verifications keep their types: no
\* report is posted more often than it may be tried, whoever dies or is overtaken.
THEOREM PartsTypeCorrect == Spec => []TypeOK
<1>1. SyncInv /\ NoticeInv /\ SpeedInv /\ OutcomesTypeOK => TypeOK
  BY DEF TypeOK, SyncInv, NoticeInv, SpeedInv
<1> QED BY <1>1, PartsAlone, SyncInvariance, NoticeInvariance, SpeedInvariance,
           OutcomesTypeCorrect, PTL
=============================================================================
