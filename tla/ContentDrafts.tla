--------------------------- MODULE ContentDrafts ---------------------------
(***************************************************************************)
(* The content drafts of one workspace: copy requested for a brief or a    *)
(* page, written by a worker with the workspace's own model key, reviewed  *)
(* and edited by people, and sent for approval as a proposal.              *)
(*                                                                         *)
(* Source: api/app/services/content_drafts.py and proposals.py             *)
(* (create_new_page, create_page_edit, reopen_draft), worker/app/          *)
(* content_drafts/consumer.py, worker/app/reaper.py; agent.py and          *)
(* reddit.py spend from the same budget.                                   *)
(*                                                                         *)
(* A person's request reads the row, then writes it at its commit without  *)
(* asking again: other requests and writers come in between.  A model call *)
(* may outlast its lease (300 s a try, three tries, against 6 minutes).    *)
(* A lease is live, lapsed or stale (past the reaper's grace).             *)
(***************************************************************************)
EXTENDS Integers, FiniteSets

CONSTANTS
    Draft,        \* rows of content_draft that may come to exist
    Target,       \* briefs of new posts and pages with open questions
    TargetOf,     \* [Draft -> the brief or page it is written for]
    Person,       \* people with a request in flight
    Writer,       \* worker processes
    Chatter,      \* chat answers and Reddit drafts being written
    MaxAttempts,  \* MAX_ATTEMPTS, 3 in the code
    Budget,       \* content_draft_monthly_budget_micros, in calls
    MaxChats,     \* bound: paid chat answers in a behaviour
    MaxFaults     \* bound: worker deaths and lost acks

ASSUME DraftAssumption ==
    /\ Draft # {} /\ IsFiniteSet(Draft) /\ IsFiniteSet(Writer) /\ IsFiniteSet(Chatter)
    /\ TargetOf \in [Draft -> Target]
    /\ MaxAttempts \in Nat \ {0} /\ Budget \in Nat \ {0}
    /\ MaxChats \in Nat /\ MaxFaults \in Nat

VARIABLES
    draft,      \* [Draft -> row of content_draft]
    proposal,   \* [Draft -> state of the last proposal made from it]
    sitemap,    \* state of the site's sitemap_entry proposal
    message,    \* [Draft -> sequence number of an event -> where it is]
    session,    \* [Person -> the request in flight and what it read]
    writer,     \* [Writer -> the draft it calls the model for]
    chat,       \* [Chatter -> whether it calls the model]
    chatSpend,  \* cost_micros of agent_message and reddit_draft, in calls
    billed,     \* [Draft -> model calls made for it]
    faults

vars == <<draft, proposal, sitemap, message, session, writer, chat, chatSpend, billed, faults>>

Live == {"queued", "running", "ready"}
Withdrawable == {"queued", "ready", "failed"}
Event == 1..MaxAttempts
DraftRow == [status : {"none", "failed", "submitted", "withdrawn"} \cup Live,
             attempts : 0..MaxAttempts, lease : {"none", "live", "lapsed", "stale"},
             cost : 0..1, text : {"none", "model", "person"}, flagged : BOOLEAN]
Idle == [op |-> "none", draft |-> CHOOSE d \in Draft : TRUE, stale |-> FALSE, flagged |-> FALSE]
Resting == [pc |-> "idle", draft |-> CHOOSE d \in Draft : TRUE, event |-> 1]

Init ==
    /\ draft = [d \in Draft |-> [status |-> "none", attempts |-> 0, lease |-> "none",
                                 cost |-> 0, text |-> "none", flagged |-> FALSE]]
    /\ proposal = [d \in Draft |-> "none"]
    /\ sitemap = "none"
    /\ message = [d \in Draft |-> [k \in Event |-> "none"]]
    /\ session = [p \in Person |-> Idle]
    /\ writer = [w \in Writer |-> Resting]
    /\ chat = [c \in Chatter |-> FALSE]
    /\ chatSpend = 0
    /\ billed = [d \in Draft |-> 0]
    /\ faults = 0

Fails == faults < MaxFaults /\ faults' = faults + 1

\* workspace_model_spend: drafts, chat answers and Reddit drafts of the month.  A draft
\* holds the cost of the last call that was answered: one or nothing.
Paid == {d \in Draft : draft[d].cost = 1}
Spent == chatSpend + Cardinality(Paid)

\* content_draft_one_live_per_brief_idx and content_draft_one_live_answer_per_page_idx.
OnlyLive(d) == \A o \in Draft \ {d} : TargetOf[o] = TargetOf[d] => draft[o].status \notin Live

\* proposal_one_live_per_draft_idx.
HasLiveProposal(d) == proposal[d] \in {"review", "approved", "deployed"}

\* The event that re-delivers a row: the first number not used yet.
Announce(d) ==
    LET fresh == {k \in Event : message[d][k] = "none"} IN
    message' = [message EXCEPT ![d] =
        [k \in Event |-> IF k \in fresh /\ \A j \in fresh : k <= j THEN "due" ELSE @[k]]]

\* A write that moved the version on: the forms read before it are stale.
Bumped(d, p) ==
    [q \in Person |-> IF q = p THEN Idle
                      ELSE IF session[q].op # "none" /\ session[q].draft = d
                           THEN [session[q] EXCEPT !.stale = TRUE] ELSE session[q]]

Begin(p, op, d) ==
    session' = [session EXCEPT ![p] =
        [op |-> op, draft |-> d, stale |-> FALSE, flagged |-> op = "edit" /\ draft[d].flagged]]
InFlight(p, op, d) == session[p].op = op /\ session[p].draft = d

-----------------------------------------------------------------------------
(* Requests of people.                                                     *)

\* request, request_answers: refused when the budget is spent or the target has
\* a live draft; the row and its event in one transaction.
Request(d) ==
    /\ draft[d].status = "none"
    /\ Spent < Budget
    /\ OnlyLive(d)
    /\ draft' = [draft EXCEPT ![d].status = "queued"]
    /\ Announce(d)
    /\ UNCHANGED <<proposal, sitemap, session, writer, chat, chatSpend, billed, faults>>

\* Mutant of Open: submit does not look at the flags.
OpenUnresolved(p) ==
    /\ session[p].op = "none"
    /\ \E d \in Draft :
          \/ draft[d].status = "ready" /\ \E op \in {"edit", "submit"} : Begin(p, op, d)
          \/ draft[d].status \in Withdrawable /\ Begin(p, "withdraw", d)
    /\ UNCHANGED <<draft, proposal, sitemap, message, writer, chat, chatSpend, billed, faults>>

\* update and submit read a row that is ready, with the form's version;
\* submit wants every flag resolved.  withdraw reads one that is withdrawable.
Open(p) ==
    /\ session[p].op = "none"
    /\ \E d \in Draft :
          \/ draft[d].status = "ready" /\ Begin(p, "edit", d)
          \/ draft[d].status = "ready" /\ ~draft[d].flagged /\ Begin(p, "submit", d)
          \/ draft[d].status \in Withdrawable /\ Begin(p, "withdraw", d)
    /\ UNCHANGED <<draft, proposal, sitemap, message, writer, chat, chatSpend, billed, faults>>

\* update: the edited fields; the status is not written.  With a flag resolved the
\* list is written as it was read: the others are open again, whoever resolved them.
Edit(p, d) ==
    /\ InFlight(p, "edit", d)
    /\ \E flagged \in {draft[d].flagged, session[p].flagged, FALSE} :
          draft' = [draft EXCEPT ![d].text = "person", ![d].flagged = flagged]
    /\ session' = Bumped(d, p)
    /\ UNCHANGED <<proposal, sitemap, message, writer, chat, chatSpend, billed, faults>>

\* _propose_sitemap_entry: an entry nobody approved yet is superseded by one
\* that lists every post pending now; an approved or deployed one is left alone.
\* The site may have no sitemap, and another request may have been first.
Listed == UNCHANGED sitemap \/ (sitemap # "approved" /\ sitemap' = "review")

\* create_new_page, create_page_edit: policy may reject the change at once.
Proposed(d) == \E s \in {"review", "ended"} : proposal' = [proposal EXCEPT ![d] = s]

\* The savepoint the unique index refused: the request fails.
Refused(p, d) ==
    /\ InFlight(p, "submit", d) /\ HasLiveProposal(d)
    /\ session' = [session EXCEPT ![p] = Idle]
    /\ UNCHANGED <<draft, proposal, sitemap, message, writer, chat, chatSpend, billed, faults>>

Submitted(p, d) ==
    /\ InFlight(p, "submit", d) /\ ~HasLiveProposal(d)
    /\ Proposed(d)
    /\ draft' = [draft EXCEPT ![d].status = "submitted"]
    /\ session' = Bumped(d, p)
    /\ UNCHANGED <<message, writer, chat, chatSpend, billed, faults>>

\* submit: a post, and the sitemap entry that lists it.  _submit_answers: an edit
\* of a page.  Which of the two a draft is has no other effect here.
SubmitPost(p, d) == Submitted(p, d) /\ Listed
SubmitAnswers(p, d) == Submitted(p, d) /\ UNCHANGED sitemap

Withdraw(p, d) ==
    /\ InFlight(p, "withdraw", d)
    /\ draft' = [draft EXCEPT ![d].status = "withdrawn"]
    /\ session' = Bumped(d, p)
    /\ UNCHANGED <<proposal, sitemap, message, writer, chat, chatSpend, billed, faults>>

-----------------------------------------------------------------------------
(* What becomes of the proposal.                                           *)

\* approve_proposal reads a proposal under review before it rejects it.
OpenRejection(p, d) ==
    /\ session[p].op = "none" /\ proposal[d] = "review"
    /\ Begin(p, "reject", d)
    /\ UNCHANGED <<draft, proposal, sitemap, message, writer, chat, chatSpend, billed, faults>>

\* reopen_draft: a submitted draft is ready again.
Reopened(d) == IF draft[d].status = "submitted"
               THEN [draft EXCEPT ![d].status = "ready"] ELSE draft

\* The write the live index refuses fails the request it is part of.
CanReopen(d) == draft[d].status = "submitted" => OnlyLive(d)

\* approve_proposal, decision "rejected".  A proposal that ended meanwhile is
\* written rejected once more, whatever was made from the draft since.
Reject(p, d) ==
    /\ InFlight(p, "reject", d)
    /\ IF CanReopen(d)
       THEN /\ draft' = Reopened(d)
            /\ proposal' = [proposal EXCEPT ![d] = IF session[p].stale THEN @ ELSE "ended"]
            /\ session' = Bumped(d, p)
       ELSE /\ session' = [session EXCEPT ![p] = Idle]
            /\ UNCHANGED <<draft, proposal>>
    /\ UNCHANGED <<sitemap, message, writer, chat, chatSpend, billed, faults>>

\* Approvals and deployment.
Advance(d) ==
    /\ \/ proposal[d] = "review" /\ proposal' = [proposal EXCEPT ![d] = "approved"]
       \/ proposal[d] = "approved" /\ proposal' = [proposal EXCEPT ![d] = "deployed"]
    /\ UNCHANGED <<draft, sitemap, message, session, writer, chat, chatSpend, billed, faults>>

AdvanceSitemap ==
    /\ \/ sitemap = "review" /\ sitemap' \in {"approved", "none"}
       \/ sitemap = "approved" /\ sitemap' = "none"
    /\ UNCHANGED <<draft, proposal, message, session, writer, chat, chatSpend, billed, faults>>

\* rollback_deployment of a pull request that had not merged.
RollBack(d) ==
    /\ proposal[d] = "deployed" /\ CanReopen(d)
    /\ proposal' = [proposal EXCEPT ![d] = "ended"]
    /\ draft' = Reopened(d)
    /\ session' = [p \in Person |-> IF session[p].op # "none" /\ session[p].draft = d
                                    THEN [session[p] EXCEPT !.stale = TRUE] ELSE session[p]]
    /\ UNCHANGED <<sitemap, message, writer, chat, chatSpend, billed, faults>>

-----------------------------------------------------------------------------
(* The worker.                                                             *)

Claimable(d) ==
    /\ draft[d].attempts < MaxAttempts
    /\ \/ draft[d].status = "queued"
       \/ draft[d].status = "running" /\ draft[d].lease \in {"lapsed", "stale"}

Claimed(d) == [draft EXCEPT ![d].status = "running", ![d].attempts = @ + 1, ![d].lease = "live"]

\* _fail: only a running row.
Failed(d) == IF draft[d].status = "running"
             THEN [draft EXCEPT ![d].status = "failed", ![d].lease = "none"] ELSE draft

Acked(d, k) == message' = [message EXCEPT ![d][k] = "acked"]

\* The budget is spent, there is no key, or the brief is not for a new post any more:
\* the _fail of the draft just claimed.
Unwritable(d) == [Claimed(d) EXCEPT ![d].status = "failed", ![d].lease = "none"]

\* tenant_key raises on a key that does not open: the claim stays, until its lease is
\* over.  The consumer acks the message on a ValueError and keeps it on another error.
Unopened(d, k) ==
    /\ draft' = Claimed(d)
    /\ Acked(d, k) \/ message' = [message EXCEPT ![d][k] = "held"]

\* One delivery: the claim commits on its own, then the budget and the key are
\* looked at.  A claim that matched nothing is acked.
Receive(w, d, k) ==
    /\ writer[w].pc = "idle" /\ message[d][k] = "due"
    /\ IF ~Claimable(d)
       THEN Acked(d, k) /\ UNCHANGED <<draft, writer, billed>>
       ELSE \/ /\ draft' = Unwritable(d)
               /\ Acked(d, k)
               /\ UNCHANGED <<writer, billed>>
            \/ Spent < Budget /\ Unopened(d, k) /\ UNCHANGED <<writer, billed>>
            \/ /\ Spent < Budget
               /\ draft' = Claimed(d)
               /\ message' = [message EXCEPT ![d][k] = "held"]
               /\ writer' = [writer EXCEPT ![w] = [pc |-> "call", draft |-> d, event |-> k]]
               /\ billed' = [billed EXCEPT ![d] = @ + 1]
    /\ UNCHANGED <<proposal, sitemap, session, chat, chatSpend, faults>>

\* Mutant of Written: the status is not looked at.
WrittenAnyhow(d) ==
    {[draft EXCEPT ![d] = [@ EXCEPT !.status = "ready", !.lease = "none", !.cost = 1,
                                    !.text = "model", !.flagged = f]] : f \in BOOLEAN}

\* The answer as it is written: a running row becomes ready, any other is left.
Written(d) ==
    IF draft[d].status = "running"
    THEN {[draft EXCEPT ![d] = [@ EXCEPT !.status = "ready", !.lease = "none", !.cost = 1,
                                         !.text = "model", !.flagged = f]] : f \in BOOLEAN}
    ELSE {draft}

\* The cost of an unusable answer is written whatever the row's status.
Unusable(d) == [Failed(d) EXCEPT ![d].cost = 1]

\* The call returns: an answer, an unusable one, or a final refusal.  The message
\* is acked after the write, or kept when the process dies or the XACK is lost.
Answer(w) ==
    LET d == writer[w].draft IN
    /\ writer[w].pc = "call"
    /\ draft' \in Written(d) \cup {Unusable(d), Failed(d)}
    /\ \/ Acked(d, writer[w].event) /\ UNCHANGED faults
       \/ Fails /\ UNCHANGED message
    /\ writer' = [writer EXCEPT ![w] = Resting]
    /\ UNCHANGED <<proposal, sitemap, session, chat, chatSpend, billed>>

\* A retryable provider error keeps the message and leaves the row running.
Defer(w) ==
    /\ writer[w].pc = "call"
    /\ writer' = [writer EXCEPT ![w] = Resting]
    /\ UNCHANGED <<draft, proposal, sitemap, message, session, chat, chatSpend, billed, faults>>

\* The process dies during the call.
Crash(w) ==
    /\ writer[w].pc # "idle" /\ Fails
    /\ writer' = [writer EXCEPT ![w] = Resting]
    /\ UNCHANGED <<draft, proposal, sitemap, message, session, chat, chatSpend, billed>>

\* A kept message is claimed again once idle for 7 minutes, longer than a lease.
Redeliver(d, k) ==
    /\ message[d][k] = "held" /\ draft[d].lease # "live"
    /\ message' = [message EXCEPT ![d][k] = "due"]
    /\ UNCHANGED <<draft, proposal, sitemap, session, writer, chat, chatSpend, billed, faults>>

LeaseRuns(d) ==
    /\ \E now \in {<<"live", "lapsed">>, <<"lapsed", "stale">>} :
          draft[d].lease = now[1] /\ draft' = [draft EXCEPT ![d].lease = now[2]]
    /\ UNCHANGED <<proposal, sitemap, message, session, writer, chat, chatSpend, billed, faults>>

\* Mutant of Reap: no event goes with the requeued row.
ReapSilently(d) ==
    /\ draft[d].status = "running" /\ draft[d].lease = "stale"
    /\ IF draft[d].attempts < MaxAttempts
       THEN draft' = [draft EXCEPT ![d].status = "queued", ![d].lease = "none"]
       ELSE draft' = Failed(d)
    /\ UNCHANGED <<proposal, sitemap, message, session, writer, chat, chatSpend, billed, faults>>

\* The reaper: requeue with a new event, or fail when the attempts are spent.
Reap(d) ==
    /\ draft[d].status = "running" /\ draft[d].lease = "stale"
    /\ IF draft[d].attempts < MaxAttempts
       THEN /\ draft' = [draft EXCEPT ![d].status = "queued", ![d].lease = "none"]
            /\ Announce(d)
       ELSE /\ draft' = Failed(d)
            /\ UNCHANGED message
    /\ UNCHANGED <<proposal, sitemap, session, writer, chat, chatSpend, billed, faults>>

-----------------------------------------------------------------------------
(* The other spenders of the budget.                                       *)

\* _converse and draft (reddit.py) read the month's spend, then call.
StartChat(c) ==
    /\ ~chat[c] /\ Spent < Budget /\ chatSpend < MaxChats
    /\ chat' = [chat EXCEPT ![c] = TRUE]
    /\ UNCHANGED <<draft, proposal, sitemap, message, session, writer, chatSpend, billed, faults>>

\* The answer and its cost commit together; a failed call records nothing.
EndChat(c) ==
    /\ chat[c]
    /\ chat' = [chat EXCEPT ![c] = FALSE]
    /\ chatSpend' \in {chatSpend, chatSpend + 1}
    /\ UNCHANGED <<draft, proposal, sitemap, message, session, writer, billed, faults>>

-----------------------------------------------------------------------------
PersonStep(p) ==
    \/ Open(p)
    \/ \E d \in Draft : OpenRejection(p, d) \/ Edit(p, d) \/ SubmitPost(p, d) \/ SubmitAnswers(p, d)
                        \/ Refused(p, d) \/ Withdraw(p, d) \/ Reject(p, d)

Work(w) == Answer(w) \/ \E d \in Draft, k \in Event : Receive(w, d, k)

Next ==
    \/ \E p \in Person : PersonStep(p)
    \/ \E w \in Writer : Work(w) \/ Defer(w) \/ Crash(w)
    \/ \E d \in Draft : Request(d) \/ Advance(d) \/ RollBack(d) \/ LeaseRuns(d) \/ Reap(d)
    \/ \E d \in Draft, k \in Event : Redeliver(d, k)
    \/ \E c \in Chatter : StartChat(c) \/ EndChat(c)
    \/ AdvanceSitemap

\* Workers, reaper and redelivery run while their processes live; time passes.
DraftFairness ==
    /\ \A w \in Writer : WF_vars(Work(w))
    /\ \A d \in Draft : WF_vars(LeaseRuns(d)) /\ WF_vars(Reap(d))
    /\ \A d \in Draft, k \in Event : WF_vars(Redeliver(d, k))

Spec == Init /\ [][Next]_vars /\ DraftFairness

-----------------------------------------------------------------------------
(* Properties.                                                             *)

TypeOK ==
    /\ draft \in [Draft -> DraftRow]
    /\ proposal \in [Draft -> {"none", "review", "approved", "deployed", "ended"}]
    /\ sitemap \in {"none", "review", "approved"}
    /\ message \in [Draft -> [Event -> {"none", "due", "held", "acked"}]]
    /\ session \in [Person -> [op : {"none", "edit", "submit", "withdraw", "reject"},
                               draft : Draft, stale : BOOLEAN, flagged : BOOLEAN]]
    /\ writer \in [Writer -> [pc : {"idle", "call"}, draft : Draft, event : Event]]
    /\ chat \in [Chatter -> BOOLEAN] /\ chatSpend \in Nat
    /\ billed \in [Draft -> 0..MaxAttempts] /\ faults \in 0..MaxFaults

\* Text a person edited or sent is never replaced by a model's answer, however
\* late: a writer whose lease lapsed may still be waiting for one.
ReviewedTextSurvives ==
    [][\A d \in Draft : draft[d].text = "person" => draft'[d].text = "person"]_vars

\* A draft with a live proposal that has an open flag: sent unreviewed, or reopened.
Unreviewed(d) == HasLiveProposal(d) /\ draft[d].flagged

\* What is sent was reviewed: only a request that had read the draft before somebody
\* else's write leaves a draft with a live proposal and an open flag.
SentIsReviewed ==
    [][\A d \in Draft : ~Unreviewed(d) /\ Unreviewed(d)' =>
         \E p \in Person : session[p].draft = d /\ session[p].stale /\ session'[p] = Idle]_vars

\* The budget is read before a call and the cost recorded after it, so the month
\* can be overspent: by one call for each caller at work, and no more.
OverspendIsBounded == Spent < Budget + Cardinality(Writer) + Cardinality(Chatter)

\* Every requested draft is written, fails or is withdrawn.
EveryDraftSettles ==
    \A d \in Draft : draft[d].status = "queued" ~> draft[d].status \notin {"queued", "running"}

=============================================================================
