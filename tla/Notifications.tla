---------------------------- MODULE Notifications ----------------------------
(***************************************************************************)
(* Reports delivered to the webhooks of a workspace: one delivery for each *)
(* report and channel, claimed in batches by dispatchers that sweep the    *)
(* table, posted, and tried again a bounded number of times.               *)
(*                                                                         *)
(* Source: worker/app/notifications/deliver.py, worker/app/routines/       *)
(* runner.py (_run_weekly_report), api/app/services/notifications.py.      *)
(*                                                                         *)
(* No message prompts a dispatcher and no reaper looks at the table: a     *)
(* lapsed lease is found by the next sweep.  A delivery in hand keeps the  *)
(* status queued, and what comes of it is written without asking again.    *)
(***************************************************************************)
EXTENDS Integers, FiniteSets

CONSTANTS
    Delivery,     \* rows of notification_delivery, each with a channel of its own
    Dispatcher,   \* worker processes
    MaxPosts,     \* MAX_ATTEMPTS, 5 in the code
    ClaimLimit,   \* CLAIM_BATCH, 10 in the code
    MaxLosses     \* bound: dispatchers that die at work or outlast a lease

ASSUME NotificationAssumption == {MaxPosts, ClaimLimit} \subseteq Nat \ {0} /\ MaxLosses \in Nat

VARIABLES
    channel,     \* [Delivery -> whether its channel is open, which is enabled and not revoked]
    delivery,    \* [Delivery -> row]
    dispatcher,  \* [Dispatcher -> its batch, each row as it was claimed]
    posted,      \* [Delivery -> times the destination may have received it]
    losses

noticeVars == <<channel, delivery, dispatcher, posted, losses>>

Over == {"delivered", "failed", "blocked"}
DeliveryRow == [status : {"none", "queued"} \cup Over, attempts : 0..MaxPosts, lease : BOOLEAN]
\* attempts is 0 for a delivery that is not in the batch.
InHand == [attempts : 0..MaxPosts, enabled : BOOLEAN, sent : BOOLEAN]
Nothing == [attempts |-> 0, enabled |-> FALSE, sent |-> FALSE]

NoticeInit ==
    /\ channel = [d \in Delivery |-> "none"]
    /\ delivery = [d \in Delivery |-> [status |-> "none", attempts |-> 0, lease |-> FALSE]]
    /\ dispatcher = [p \in Dispatcher |-> [d \in Delivery |-> Nothing]]
    /\ posted = [d \in Delivery |-> 0]
    /\ losses = 0

Holds(p, d) == dispatcher[p][d].attempts > 0
Resting(p) == \A d \in Delivery : ~Holds(p, d)

\* NotificationChannelService.create.  How many there are is read before the insert and
\* held by nothing until it, so MAX_CHANNELS_PER_TENANT is no bound.
CreateChannel(d) ==
    /\ channel[d] = "none"
    /\ channel' = [channel EXCEPT ![d] = "open"]
    /\ UNCHANGED <<delivery, dispatcher, posted, losses>>

\* _run_weekly_report: ON CONFLICT(channel_id,report_id) DO NOTHING.
QueueDelivery(d) ==
    /\ channel[d] = "open" /\ delivery[d].status = "none"
    /\ delivery' = [delivery EXCEPT ![d].status = "queued"]
    /\ UNCHANGED <<channel, dispatcher, posted, losses>>

\* NotificationChannelService.revoke.
Revoke(d) ==
    /\ channel[d] = "open"
    /\ channel' = [channel EXCEPT ![d] = "revoked"]
    /\ UNCHANGED <<delivery, dispatcher, posted, losses>>

\* Mutant of Due: the attempts are not looked at.
DueForEver(d) == delivery[d].status = "queued" /\ ~delivery[d].lease

Due(d) == delivery[d].status = "queued" /\ delivery[d].attempts < MaxPosts /\ ~delivery[d].lease

\* As many of the rows that are due as LIMIT lets by.  The oldest come first, but no
\* row is claimed more than MaxPosts times, so none keeps the others out for long:
\* which are taken is left open.
FullBatch(batch) ==
    LET due == {d \in Delivery : Due(d)} IN
    batch \subseteq due /\ batch # {} /\ (batch = due \/ Cardinality(batch) = ClaimLimit)
                        /\ Cardinality(batch) <= ClaimLimit

\* CLAIM_SQL, with what the channel of each row says at this moment.
ClaimBatch(p) ==
    /\ Resting(p)
    /\ \E batch \in SUBSET Delivery :
          /\ FullBatch(batch)
          /\ delivery' = [d \in Delivery |->
                IF d \in batch THEN [delivery[d] EXCEPT !.attempts = @ + 1, !.lease = TRUE]
                ELSE delivery[d]]
          /\ dispatcher' = [dispatcher EXCEPT ![p] =
                [d \in Delivery |->
                    IF d \in batch THEN [attempts |-> delivery[d].attempts + 1,
                                         enabled |-> (channel[d] = "open"), sent |-> FALSE]
                    ELSE Nothing]]
    /\ UNCHANGED <<channel, posted, losses>>

\* What the dispatcher writes about a row, and goes on to the next.
Write(p, d, status) ==
    /\ delivery' = [delivery EXCEPT ![d].status = status, ![d].lease = FALSE]
    /\ dispatcher' = [dispatcher EXCEPT ![p][d] = Nothing]

Block(p, d) ==
    /\ Holds(p, d) /\ ~dispatcher[p][d].enabled
    /\ Write(p, d, "blocked")
    /\ UNCHANGED <<channel, posted, losses>>

Post(p, d) ==
    /\ Holds(p, d) /\ dispatcher[p][d].enabled /\ ~dispatcher[p][d].sent
    /\ posted' = [posted EXCEPT ![d] = @ + 1]
    /\ dispatcher' = [dispatcher EXCEPT ![p][d].sent = TRUE]
    /\ UNCHANGED <<channel, delivery, losses>>

Delivered(p, d) ==
    /\ Holds(p, d) /\ dispatcher[p][d].sent
    /\ Write(p, d, "delivered")
    /\ UNCHANGED <<channel, posted, losses>>

\* Mutant of AfterError: the last attempt is taken for one to try again.
AfterErrorOnceMore(attempts) == IF attempts > MaxPosts THEN "failed" ELSE "queued"

AfterError(attempts) == IF attempts >= MaxPosts THEN "failed" ELSE "queued"

\* The target is refused by the egress policy or the secret does not open; or the
\* destination answers with an error, or not in time, whatever it has received.
Errs(p, d) ==
    /\ Holds(p, d) /\ dispatcher[p][d].enabled
    /\ Write(p, d, AfterError(dispatcher[p][d].attempts))
    /\ UNCHANGED <<channel, posted, losses>>

Lose(p) ==
    /\ ~Resting(p) /\ losses < MaxLosses
    /\ losses' = losses + 1
    /\ dispatcher' = [dispatcher EXCEPT ![p] = [d \in Delivery |-> Nothing]]
    /\ UNCHANGED <<channel, delivery, posted>>

\* Two minutes pass: the dispatcher died, or the batch is slow and this row still in it.
LapseDelivery(d) ==
    /\ delivery[d].lease
    /\ delivery' = [delivery EXCEPT ![d].lease = FALSE]
    /\ IF \E p \in Dispatcher : Holds(p, d)
       THEN losses < MaxLosses /\ losses' = losses + 1
       ELSE losses' = losses
    /\ UNCHANGED <<channel, dispatcher, posted>>

NoticeNext ==
    \/ \E d \in Delivery : CreateChannel(d) \/ QueueDelivery(d) \/ Revoke(d) \/ LapseDelivery(d)
    \/ \E p \in Dispatcher : ClaimBatch(p) \/ Lose(p)
    \/ \E p \in Dispatcher, d \in Delivery : Block(p, d) \/ Post(p, d) \/ Delivered(p, d) \/ Errs(p, d)

\* Dispatchers sweep and work through what they claimed; every post is answered
\* or times out; leases lapse.
NoticeFairness ==
    /\ \A p \in Dispatcher :
          /\ WF_noticeVars(ClaimBatch(p))
          /\ \A d \in Delivery : WF_noticeVars(Block(p, d) \/ Delivered(p, d) \/ Errs(p, d))
    /\ \A d \in Delivery : WF_noticeVars(LapseDelivery(d))

NoticeSpec == NoticeInit /\ [][NoticeNext]_noticeVars /\ NoticeFairness

-----------------------------------------------------------------------------
(* Properties.                                                             *)

NoticeTypeOK ==
    /\ channel \in [Delivery -> {"none", "open", "revoked"}]
    /\ delivery \in [Delivery -> DeliveryRow]
    /\ dispatcher \in [Dispatcher -> [Delivery -> InHand]]
    /\ posted \in [Delivery -> 0..MaxPosts]
    /\ losses \in 0..MaxLosses

\* The last attempt died with its dispatcher, or an earlier one that was slow wrote
\* queued over what it came to: CLAIM_SQL never takes the row again and nothing else
\* would, so it says queued for ever.
Stranded(d) ==
    /\ delivery[d].status = "queued" /\ delivery[d].attempts = MaxPosts
    /\ losses > 0 /\ \A p \in Dispatcher : ~Holds(p, d)

\* Every delivery is delivered, blocked or given up, through errors, deaths and
\* slow batches; only a death or a lapsed lease at the end of its attempts strands one.
EveryDeliveryEnds ==
    \A d \in Delivery : delivery[d].status = "queued" ~> delivery[d].status \in Over \/ Stranded(d)
=============================================================================
