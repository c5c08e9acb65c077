# SEO Autopilot: a TLA+ model

SEO Autopilot crawls a customer's site, finds problems, drafts fixes and puts the
approved ones on the site as GitHub pull requests. Around that it syncs Search
Console and Analytics, measures pages, writes content drafts with the workspace's own
model key, runs scheduled routines, reports to webhooks and answers in a chat.
This directory models the parts of it in which several requests, processes or people
touch the same rows. Nineteen modules model the code and one states an abstract
promise, TLC checks them on small instances, and TLAPS proves what is checked of
their safety for every value of their constants. Paths are relative to
`services/` unless they begin with `apps/` or `docs/`.

## 1. Inventory

### Parts, their state and their operations

| Part | State | Operations | Model |
|---|---|---|---|
| Proposal review (`api/app/services/proposals.py`, `domain/proposals.py`) | `proposal.status`, `proposal_approval` | create, approve, reject | `ProposalReview` |
| Membership and identity (`services/membership.py`, `identity.py`) | `tenant_membership`, `invitation`, row locks | invite, accept, change role, remove | `Membership`; its effect on decisions in `ProposalReview` |
| Deployment and publishing (`deploy_proposal`, `publish_proposal`, `deploy_proposals`, `domain/github_adapter.py`) | `deployment_receipt`, `proposal.status`, pull requests | deploy, adopt, merge, deploy a batch | `Deployment`, `BatchDeployment` |
| Rollback and its reconciliation (`services/governance.py`, `rollback_reconciliation.py`) | `rollback_receipt`, receipts, revert pull requests | close, open a revert, record, learn its fate | `Deployment` |
| Governance (`services/governance.py`) | site mode, freeze, freeze window, budget | set mode, freeze, lift | the gate of `Deployment` and of `Routines` |
| Crawl requests, outbox relay, crawler slots, reaper (`services/sites.py`, `worker/app/outbox.py`, `crawler/src/stream-consumer.ts`, `database.ts`, `worker/app/reaper.py`) | `crawl_job`, `outbox_event`, the Redis stream, leases | request, publish, claim, heartbeat, complete, ack, release, reap | `CrawlQueue` |
| Crawl engine (`crawler/src/crawl-engine.ts`) | queue and set of seen URLs | read sitemaps, fetch, enqueue | `Frontier` |
| Analysis and drafting of changes (`worker/app/analysis.py`, `services/opportunities.py`, `proposal_drafting.py`, `proposal_drafts.py`) | `opportunity`, `proposal` | analyse, suppress, sweep, draft | `Opportunities` |
| Calibration (`services/calibrations.py`) | calibration runs, reviews | start a run, review an item | `Calibration` |
| Content drafts (`services/content_drafts.py`, `worker/app/content_drafts/consumer.py`) | `content_draft`, its live proposal, leases, the month's spend | request, write, edit, submit, withdraw, reopen | `ContentDrafts` |
| Connectors and OAuth (`services/connectors.py`, `github_connector.py`, `tenant_credentials.py`, `worker/app/connectors/runtime.py`) | `connector`, `connector_secret`, OAuth states | begin, callback, choose, take a token or a DNS provider, renew, disconnect | `Connections` |
| Search Console and Analytics sync (`worker/app/connectors/runtime.py`, `gsc`, `analytics`) | `connector_sync`, its cursor, metric rows | request, claim, page, checkpoint, end | `ConnectorSync`, `LeasedWork` |
| PageSpeed runs (`services/performance.py`, `worker/app/pagespeed`) | `performance_run`, observations | request, claim, measure, ack, reap | `PageSpeed` |
| Routines (`services/routines.py`, `worker/app/routines`) | `routine`, `routine_run` | edit, schedule, trigger, claim, perform, finish | `Routines` |
| Notifications (`worker/app/notifications/deliver.py`) | `notification_delivery`, channels | create a channel, queue, claim, post, retry | `Notifications` |
| Verification and measurement (`services/deployment_verification.py`, `measurements.py`) | verifications, measurements | sweep, look, measure | `Outcomes` |
| Agent workspace (`services/agent.py`, `agent_model.py`, `domain/skills.py`) | sessions, messages | post, route, run a skill, schedule | `Conversation` |
| Keywords and briefs (`worker/app/keywords`, `briefs`, `services/briefs.py`) | clusters, `brief` | refresh, group, write, move, draft from | `Research`, `Clustering` |
| Tracked questions (`services/ai_citations.py`, `worker/app/citations/scan.py`) | tracked prompts, the month's spend | track, retire, scan | `Citations` |
| Site and DNS verification, egress and LLM routing, routes, CLI, migrations, web | | | not modelled, section 8 |

`PROJECT.json` lists every component with its source files.

### How they interact

* A request to the API is one PostgreSQL transaction at READ COMMITTED
  (`api/app/db/session.py`). Each SELECT sees what others committed before it.
  SQLAlchemy's identity map keeps the attributes a session loaded first, even
  when a later SELECT returns the row again, and an UPDATE names only the
  columns that differ from what was loaded. An exception rolls all of it back.
* Requests share nothing but rows. What serialises them is a few unique indexes
  (an approver's decision, a receipt's key, one active crawl per site, one open
  calibration, one unrevoked secret per connector, a routine's minute) and the
  locks an INSERT, an UPDATE or a SELECT FOR UPDATE takes.
* Deploying, merging and rolling back call GitHub from inside the transaction, a
  chat calls a model: what was done outside stays when the transaction is lost.
* The API writes an `outbox_event` in the transaction that writes the row; the
  relay moves events to a Redis stream, at least once; consumers acknowledge.
* Consumers take a row under a lease (crawls, drafts, syncs, PageSpeed runs,
  routine runs) and the reaper gives back what a dead one held. Notifications have
  leases but no reaper: the next sweep finds what lapsed.
* The reconciler, the verification sweep and the drafting sweep run one at a time,
  under an advisory lock.
* People merge and close pull requests on GitHub, and change pages, at any moment.

### What is hard here

Decisions counted on a snapshot and written later; two requests past one check;
a call to GitHub, Google or a model whose transaction is lost; a person acting
between a read and a write; a consumer whose lease lapsed and which goes on writing;
a message delivered again, or acknowledged by somebody who could not do its work; an
ack that fails after the work was done; spent attempts; sweeps that look at the
oldest first; limits that are read and then acted on. `PROJECT.json` lists the
hazards at their lines with the properties that cover them. What makes each part
correct is stated with its run in section 3.

## 2. Modules

Operators whose comment begins with "Mutant:" are deliberately wrong variants of the
definition below them. No specification uses them; `PROJECT.json` pairs each with
the property that notices it. `MC...` modules hold the small sets and bounds TLC uses,
and the compositions; `...Proofs` modules hold the theorems.

### Changes: ProposalReview, Deployment, BatchDeployment

| TLA+ | Code |
|---|---|
| `ResolveRequiredApproverCount`, `SelfReviewScope`, `InitialStatus` | the pure policy in `domain/proposals.py` and `_create` |
| `Begin`, `ReadProposal`, `CheckSole`, `ReadPrior`, `Write` | one `approve_proposal` or `reject_proposal` cut at its SELECTs; `req[r]` is its local variables |
| `DuplicateApproval` | the IntegrityError of a second row of one approver |
| `WriteStatus` | the column is written only when it differs from the loaded one |
| `LoadToDeploy`, `WriteDeployed`, `DropDeploy`, `LoadToUndo`, `WriteUndone`, `WriteReverting`, `SettleRevert` (`DeploymentStep`) | what deployments, rollbacks and the sweep read and write of the proposal under review; the rest of them is in `Deployment` |
| `AcceptInvitation`, `ChangeRole`, `Remove`, `Expire` | what happens between the reads of a request; an expiry is never stored, since the exception raised with it rolls it back |
| `LoadProposal`, `CheckKey`, `CheckSite`, `CheckBudget`, `ClaimKey`, `CallAdapter`, `MergePull`, `CommitDeploy` | `deploy_proposal` and `publish_proposal`, in the order each visits them |
| `ClaimKey` | the INSERT of the pending receipt: another request with the key waits for the holder to end, then answers with its receipt or goes on |
| `LoadForReview`, `WriteReview` | any number of reviews that loaded a proposal and have yet to write its status: `review[p]` is what they will write |
| `LoadForUndo`, `PickReceipt`, `ReadPull`, `ClosePull`, `OpenRevert`, `CommitUndo` | `rollback_deployment` with the adapter's `rollback` and `_open_revert` |
| `AbortDeploy`, `AbortUndo`, `AbortBatch` | an error, timeout or crash at any step: rows are lost, GitHub's state is not |
| `Reversed`, `Abandoned` (`Reconcile`) | the sweep on a revert that was merged or closed |
| `ClaimBatch`, `LookUpPull`, `ReadBase`, `CreateBranch`, `WriteFile`, `OpenPull`, `CommitBatch` | `deploy_proposals` and `deploy_batch`: one branch per key, its files written one by one |
| `ReadForUndo`, `CloseForUndo`, `RecordUndo` | a rollback of one change of a batch: it reads the pull request, closes it at GitHub, and commits its rows, each a step of its own; one that is lost takes no further step |

Contents are abstracted to the shapes that `self_review_scope` tells apart, and in a
batch to whether a file holds what was reviewed. `proposal.version` is never changed
by the code, so the approvals of "this version" are all of them. `PickReceipt`
merges two adjacent SELECTs whose answers change together, in one transaction. In
`Deployment` two variables keep what GitHub alone could tell: `reverted`, the merged
pull requests whose change a revert has taken out since, and `slipped`, those that
merged between the GET of a rollback and its PATCH. A
revert the sweep finds merged settles the rollback and leaves the content draft
as it is: only the rollback request itself reopens a draft.

### Crawls: CrawlQueue, Frontier

| TLA+ | Code |
|---|---|
| `Request` | `create_crawl`: row and event in one transaction, under the unique index |
| `Publish` | `dispatch_batch`; its fault is a transaction lost after the XADD |
| `Receive`, `Claim`, `ClaimCommits` | XAUTOCLAIM before XREADGROUP; the claim's UPDATE matches under its snapshot and holds the row until it commits |
| `Heartbeat`, `HeartbeatFails` | the timer: it renews the lease of a running row whosever claim it carries, and after one failure is not tried again |
| `CrawlEnds`, `SavePage`, `SaveFails`, `Complete`, `Ack`, `AckFails`, `Release` | `runCrawlMessage`; an XACK that throws lands in the catch of a failed crawl |
| `LeaseLapses`, `GracePasses`, `GoesIdle`, `Reap`, `Crash` | time, the sweep, a process that ends |
| `ReadSitemaps`, `Visit`, `Enqueue` | `crawlSite`: one URL leaves the queue, is asked for or refused by robots.txt, fails, redirects or answers, and its links are enqueued within depth, links per page and the discovery budget |

Time is three values of a lease and a flag of an entry, with the one assumption
that a slot whose heartbeat works keeps both, and that a claim takes less than
the 60 s after which an entry is idle. Each slot is a process of its own, which
dies alone: slots of a process that die together are a case of several crashes.
`CrawlFaults` adds a variable, `working`, that remembers whether heartbeats and acks
worked so far, and states what the queue promises while they do. A heartbeat that
fails between the commit of a result and the ack is no fault of that kind: the row is
not running any more, and nothing is renewed.
In `Frontier` the site is found out as it is fetched: what a page links to is settled
when it is asked for. Pages are normalized URLs of the host. "The sitemaps" are the
twenty the crawl looks at: it does not say when robots.txt names more.

### Findings: Opportunities, Research, Clustering, Calibration

* `Opportunities`: `Analyse` to `CommitAnalysis` is the one transaction of
  `analyze_crawl`, with the opportunities it upserts and those it resolves (its
  UPDATE sees what was committed when it starts; the upserts show when it commits).
  A crawl knows which completed before it (`older`), as a site has one active crawl at a
  time, and an analysis which began `earlier` and which went on `beside` it: the code
  looks at neither, and `FixedStaysClosed` says what follows.
  `Ask`, `Sweep`, `Check`, `Create`, `Commit` are a draft from its checks, over the
  call to GitHub, to its commit; `Sweep` takes the advisory lock, which belongs to a
  connection and may be lost while the sweep goes on (`LoseLock`). `LoadLive`, `Finish`
  and `Revive` are what reviews, deployments and rollbacks make of a proposal: one that
  was rejected is live again when somebody who had loaded it before commits, and one that
  failed may be decided on again. `beside` marks a proposal that came back, or that a
  sweep without its lock made, to a page another sweep had taken.
* `Research`: `Refresh` to `CommitRefresh` is a run of the keyword analysis, which keeps
  a cluster's row where the topic is formed again and deletes the others with their
  briefs; `WriteBriefs` the brief routine; `LoadToMove`/`Move` and
  `LoadToDraft`/`RequestDraft` the requests of people. `MAX_BRIEFS_PER_RUN`, 50 rows
  against the one topic checked, is left out.
* `Clustering`: `Compare` takes searches in the order of the code's index and joins
  them by union-find as written, parent pointers and all; `NameGroup` labels the
  groups and numbers two that share a label. A search is its set of words. That a row
  keeps 200 characters of a label and of its key is left out.
* `Calibration`: `Check`, `SeekOpen`, `Insert`, `LoseInsert`, `CommitCall` are the two
  idempotent writes under their unique indexes. A run looks for its key and then for an
  open run, so a retry may be told that its own run is in the way.

### Automation: ConnectorSync, PageSpeed, Notifications, Outcomes, Routines

* `ConnectorSync`: `Claim`/`Decline`, `Page`, `Checkpoint`, `Complete`, `Fail`, `Ack`,
  `Die`, `Lapse`, `Reap`. Both providers share the runtime; they differ in the step
  from one page to the next (`SearchStep`, `LandingStep`). A row knows only
  status='running', so a slow consumer and its successor may both be at work.
* `LeasedWork` is the abstract specification of a piece of leased work: its parts
  stay done, it ends once, and it is completed only when whole. `ConnectorSync`
  implements it with a sync's status as its life and the metric rows of its connector
  as what is done.
* `PageSpeed`, `Notifications`, `Routines`: the claim, the work, the row that says so,
  the ack, deaths, lapsed leases and (but for notifications) the reaper. A batch of
  notifications takes at most `ClaimLimit` of the due rows, whichever they are. `Perform`
  of `Routines` is the one transaction of a run of each kind: an audit queues a
  crawl, a sync queues syncs, a citation scan bills the models before the
  transaction opens, a competitor scan adds rows, a keyword refresh, the briefs,
  sitemap coverage and a visibility snapshot overwrite what is there, a weekly report
  queues deliveries and never skips. A failure and a skip are written by two statements,
  the run's and the routine's, and neither asks for the status it overwrites.
* `Outcomes`: `StartSweep`, `ReadPage`, `RecordPage`, `EndSweep` are the verification
  sweep with its batch in deployment order, `Measure` the measurement. `Candidates`
  holds the batch its query returns, the oldest unverified receipts in their order.

### People: Membership, ContentDrafts, Connections, Conversation, Citations

* `Membership`: `Begin`, `Takes`/`CountOwner`, `Commit` are a request that changes or
  removes a member, with the row locks of `_membership` and of the count of remaining
  owners, taken one by one; `BreakDeadlock` is PostgreSQL ending one of a cycle.
* `ContentDrafts`: requests of people cut between their read and their commit
  (`Begin`, then `Edit`, `Submit...`, `Withdraw`, `Reject`), writers with lease,
  `Answer`, `Defer`, `Crash`, redelivery and reaper; chats that spend from the same
  budget. An edit writes the flags as the request had read them, less those it resolves.
  A claim whose key does not open (`Unopened`) stays running until its lease is over.
* `Connections`: `BeginProperty`/`BeginWorkspace`, `Arrive`, `BindProperty`,
  `BindWorkspace` are the consent and its callback (loaded before the call to
  Google, only changed columns written); `Load`, `Renew`, `Lose` the workers that
  renew grants; `SignIn`, `ChooseRepository`, `ConnectPersonalAccessToken` GitHub;
  `ConnectDnsProvider` a provider's token.
* `Conversation`: `StartPost`, `AddQuestion`, `Pick`/`Routing`, `RunSkill`, `Answer`
  are one post in one transaction. A text is what the router makes of it: its worth
  for each skill, whether it opens as a question, whether it says how often
  (`cadence`); `Schedules` turns a skill's routine on only for the last.
* `Citations`: `FindRoom`/`Track` is the count of the questions of a site and the row
  that follows it; `StartScan`, `Ask`, `Persist` a scan within the month's budget. An
  answer costs anything up to `MaxCost` estimates (`Answers`); an error is recorded with
  no cost and may have been billed (`Errs`). `unreckoned` sums what is billed beside
  what the estimates cover and the rows record.

### Compositions

`MCProposals`, `MCAutomation`, `MCWorkspace` and `MCFindings` put several modules
into one specification with a variable `part`: one part moves from the start of a
behaviour and the others rest in their initial states. The rows of most of these
parts are their own, and there an interleaving could add states to a run and no
behaviour to a property. Where parts do touch, the shared rows are in one module:
`ContentDrafts` holds the writers, the people and the chats on one budget, `CrawlQueue`
the API, the relay, the slots and the reaper, `Opportunities` the analyses and the
drafters.

One column is shared by four modules: `proposal.status`, which reviews, deployments,
batches and rollbacks write, and which the drafting sweep reads. Each module has its
writers, and those that are the subject of another are reduced to what they read and
write of the proposal:

| Module | In detail | As steps that only read and write the status |
|---|---|---|
| `ProposalReview` | approvals and rejections | `DeploymentStep`: deployments, rollbacks, the reconciling sweep |
| `Deployment` | deployments, rollbacks, the sweep, GitHub | `LoadForReview`, `WriteReview`: any number of reviews in flight |
| `BatchDeployment` | batches and the rollbacks of their changes | `ReviewCommits`: any review in flight, at any time |
| `Opportunities` | drafts of people, the agent and the sweep | `LoadLive`, `Finish`, `Revive`: reviews, deployments and rollbacks |

## 3. Runs

Passing runs:

| Run | Instance | Shows |
|---|---|---|
| `proposals` | 3 people (author owner, an approver, an outsider), 2 requests, 6 kinds of proposal; the same review under deployments and rollbacks of one key; 2 deployers and 2 rollbacks on one key beside any number of reviews; 2 batches of 2 changes under one key; symmetric | who stands behind an approval (`QuorumBehindApproval`, `SeparationOfDuties`); a committed rejection is undone by an approval or a deployment that had loaded the proposal before it, or by a rollback, which makes it failed, and by nothing else (`OnlyTheseRevive`); a key has one holder and what waits for a revert is watched (`DeploymentsAreHeld`); a batch is recorded as its pull request holds it, and once one of its changes is recorded as rolled back none of them can still be merged, though a rollback may be lost after it closed the pull request (`BatchStandsTogether`) |
| `deploy_serial` | 1 proposal, 2 keys, 1 deploy or publish slot, 1 rollback slot, 1 review at a time, 2 rollback rows, 2 days, budget 1 | receipts match GitHub however people act and wherever a request is lost (`ReceiptsMatchGitHub`: a pull request for each receipt, and for a rolled-back one a pull request that was closed, or merged and taken out by a revert, but for a merge that slips between the GET and the PATCH of a rollback); `RollbacksHold`: a rollback is final, and only one older than a new deployment strands it; every settled revert is noticed |
| `crawl_crash` | 2 crawls of one site, 2 slots, 2 entries; 2 deaths of slots or relay, or 1 heartbeat or ack that fails | while heartbeats and acks work a queued row has its event, a finished crawl stays finished, and every requested crawl settles; whatever fails, no crawl is lost before it has a result (`LostOnlyAfterResult`) |
| `drafts` | 1 draft, 2 people, 2 writers, a chat, 2 attempts, budget 1, 1 fault | nothing opens a flag on a draft that was sent but a form read before somebody else's write (`SentIsReviewed`); what a person edited or sent is not replaced by a late answer, every requested draft settles |
| `connections` | 2 Google connectors, 1 repository, 2 properties, 2 consents, 1 renewing worker, 2 client secrets | an active connector is usable; `OnlyConsentMoves`: what a disconnect destroyed or a consent bound is changed only by a consent, or by somebody who had loaded it before |
| `routines` | 1 routine of each kind, 2 consumers, 1 minute, 2 attempts, parked after 1 failure, 2 troubles | models are not asked more often than a run may be tried, a run leaves one piece of work unless its lease lapsed at work, a completed run stays completed, every run ends while the gate is not opened again under it |
| `automation` | a sync of 2 days of 2 pages under 2 workers; 2 deliveries under 2 dispatchers; 2 PageSpeed runs under 2 consumers; 2 changes, batch 1, 2 receipts; a death in each | a sync reports the days it stored and implements `LeasedWork`; work ends (`WorkEnds`); what was seen live stays so recorded; every deployed change is looked at once its pages answer |
| `workspace` | 3 people, 2 member requests; 3 drafts and a chat on a budget of 1; 2 posters, 3 skills, 4 messages; 4 questions, at most 2 tracked, 3 scans of 2 at a time, calls of 0 to 2 estimates; 3 calibration calls on 2 keys; symmetric | an owner remains; limits give way by what overlapped, and the scans' by what is billed and not recorded, and no more; the conversation alternates; the agent acts once and only when told, and schedules only on words that say how often; a retry is told of its own row |
| `findings` | 2 rules on a page, 2 crawls, 2 consumers, 2 drafters, 2 proposals; a walk of 4 pages; 2 windows, 2 people; 4 searches; symmetric | what a newer crawl found fixed stays closed, unless a person or an older crawl analysed beside or after it opens it; of two live proposals of sweeps on a page one came back or is of a sweep that lost its lock; a crawl that says it is complete is; briefs and dismissals survive reruns; topics are the connected components |

@@STATES@@

Runs that end in a violation, each of a sentence of the repository quoted in
`PROJECT.json`:

| Run | Property | Behaviour |
|---|---|---|
| `connections_revoked` | `RevokedHoldsNothing` | a worker loads a grant, the connector is disconnected, and the renewal stores a live secret for it again (`worker/app/connectors/runtime.py:406`) |
| `opportunities_suppressed` | `SuppressedIsNotDrafted` | a crawl finds a suppressed opportunity again; the upsert opens the row and leaves the reason, and the sweep drafts from it (`worker/app/analysis.py:370`) |
| `outcomes_backlog` | `WholeBacklogIsReached` | a change whose page does not answer stays at the head of the batch, and the sweep never comes to the next (`api/app/services/deployment_verification.py:110`) |

Other behaviours the properties are stated around, each an exception a property
names rather than a run of its own:

* a quorum of two that neither of two overlapping approvals counted stays unapproved; a
  stale approval or a deployment in flight revives a rejection;
* a merge between the GET and the PATCH of a rollback leaves the change live and recorded
  as rolled back; a rollback lost after it closed a batch's pull request leaves every
  receipt of it "applied";
* "a stale form [fails] loudly" (`api/app/services/content_drafts.py:366`) holds of a form
  older than the row the request loads; one that loaded it before a colleague cleared the flags
  and sent the draft puts them back (`:409`);
* "so the cap holds even when a provider's answer runs long" (`worker/app/citations/scan.py:29`)
  holds of the estimates: an answer that raises after it was billed is recorded with no cost
  (`models.py:145`, `scan.py:244`), and so leaves room for more;
* an older crawl analysed after a newer one opens what that found fixed
  (`worker/app/analysis.py:369`), and the proposal queue then shows the findings of whichever
  was analysed last (`api/app/services/opportunities.py:111` orders analyses by their rows);
* an ack that throws after Redis applied it sends a completed crawl back to queued with no
  event (hence the variable `working` of `CrawlFaults`);
* a delivery whose last attempt died says queued for ever; a run explained after a thaw is
  left behind by its message; a budget is overspent by what was in flight; a client that
  sends one calibration key for two things may be answered with the other;
* of a dismissed brief `api/app/services/briefs.py:26` says that the next run rebuilds it,
  `worker/app/briefs/generate.py:4` that it keeps its status: the code, and `BriefsAreKept`,
  follow the second.

### Bounds, and why they are enough

* Two requests are enough for each race the code leaves open: a decision is taken on
  one snapshot and met by one other commit. Where three matter (a last-owner count
  over three members, three calibration calls of which two share a key, three drafts
  on a budget of one) the instance has three. The proofs hold for any number.
* Two keys let a proposal be deployed, rolled back, approved and deployed again;
  `LastDay = 1` lets a request outlive its day. A rollback with no row left cannot
  commit, so properties speak of the first two.
* `MaxAttempts` is the code's 3 for crawls and smaller elsewhere (2 for drafts, routines
  and PageSpeed, against 3; 2 for notifications, against 5): one retry and a last
  attempt are what the code tells apart. Two days of two pages give a sync an inner
  and a last page of an inner and a last day.
* `crawl_crash` has two deaths, or one heartbeat or ack that fails, in which case the
  promises that rest on them are no longer asked for: `LostOnlyAfterResult` is, and
  its theorem needs no bound on faults.
* A walk covers four pages; the origin links to as many as may be and the others to
  one, which still makes chains, rings and pages past each limit. One person or
  agent drafts beside the sweeps; the analyses and the drafting are separate parts of
  the run with the same `Next`, the drafting once with people and the agent and no proposal
  that comes back, once with sweeps alone and proposals that do.
* After the first post of a conversation the texts are a plain one, and for the manager
  one that asks for a run: what the first left behind meets both.
* The clock of the routines passes one minute, in which a schedule and a person
  compete for a slot; `MaxTroubles` pairs any two of edits, freezes, thaws and deaths.
* Counters that grow have a bound each (`MaxPosts`, `MaxScans`, `MaxCost`, `MaxUnreckoned`, `MaxReceipts`,
  `MaxClients`, `MaxBounces`, `MaxChats`, `MaxFaults`, `MaxLosses`, `MaxSetbacks`,
  `MaxRuns`, `MaxProposals`, `MaxRefreshes`, `MaxAsks`), named where it is declared.
* Of the two changes of a batch one may be rejected, approved at any time and edited on
  GitHub by hand; the other is approved again only once it failed (`OneDisturbed`).
* `ClaimLimit` is 1 of two deliveries, against 10: a batch that leaves a row behind. A call
  of two estimates is one dearer than was reckoned with.
* Deadlock is not checked: a system in which nobody asks for anything more has
  stopped legitimately, and requests, people and rows are bounded. PostgreSQL's own
  deadlocks are modelled and broken in `Membership`.
* Symmetry is used only in runs without liveness, of sets nothing chooses from.

### Fairness

Each assumption is a definition of its own, and names what the code does for ever:

| Definition | Code |
|---|---|
| `ReconcileFairness` | `run_reconcile_sweep` passes while the worker lives; a row it cannot settle does not keep it from the next. A site whose credential is gone, and more than its 100 rows a pass, are not in the model |
| `SlotFairness`, `RelayFairness`, `SweepFairness` | `runConsumer`; `run_dispatcher`, which an error costs five seconds and never its loop (`worker/app/main.py`); `run_reaper`, and time |
| `DraftFairness` | writers, redelivery and reaper |
| `SyncFairness` | `run_gsc_consumer` and its Analytics twin; leases lapse, the reaper sweeps |
| `NoticeFairness` | `run_notification_dispatcher`: it claims, and every post is answered or times out |
| `SpeedFairness` | `run_pagespeed_consumer` |
| `RoutineFairness` | the routine consumer; scheduling owes nothing |
| `OutcomesFairness` | `run_verification_sweep`; changes grow old |

All are weak fairness. People, requests, GitHub and governance owe nothing, and no
process owes success: where it may succeed or fail the fair action is their
disjunction, so fairness is kept by either. `SyncFairness` asks a
consumer that has failed to say so.

## 4. Refinement

`ImplementsLeasedWork` is `Work!Spec`, an instance of `LeasedWork` with the refinement
mapping written in `ConnectorSync`. Every step of the detailed module is a step of
the abstract one or a stutter: a page is `Progress` or, of rows already stored,
nothing; a checkpoint, an ack, a death and a second claim are nothing; two consumers
at one sync are still one piece of work. TLC checks it in `automation`, and
`SyncImplements` proves it for every value of the constants.

## 5. Proofs

Eight modules hold the theorems. Each theorem is of a specification whose constants are
any values its `...Assumption` allows: sets that are finite where the database or
Redis makes them so, bounds that are numbers, sentinels that are none of the things
they stand beside. None needs the small instance of a run, nor its bound on failures
or requests. The temporal step is always the same: an invariant that the initial
states have and no step breaks, with one lemma per action or per group of actions
that leave the same parts alone, then PTL. Type correctness is part of every
invariant. The safety properties are seldom inductive by themselves; what each
invariant adds to them is the argument.

| Module | Theorems that state a property of a run | What the inductive invariant adds |
|---|---|---|
| `ProposalReviewProofs` | `QuorumTheorem`, `SeparationTheorem`, `RevivalTheorem` | what a request in flight still knows (`RequestInv`): the approvers it counted are among those on record, since rows are never deleted and a count can only be too low; its `self` mark was earned; the status it loaded was decidable. `TakenBackInv`: a revert is waited for only where a rollback was recorded. `FloorInv`: a proposal asks for its tier's approvers at least |
| `DeploymentProofs` | `HeldTheorem`, `GitHubTheorem`, `RollbacksTheorem`, `BatchTheorem`, `PartsTypeCorrect` | of a deployment: what a request that holds a key has read and opened (`RequestsOK`), what a rollback past its lookup may rely on, a pull request it is about to close being unmerged or slipped (`UndoesOK`), that only merged pull requests are reverted, that a merged revert took the change out and every row is of a receipt. Of a batch: a branch has all files of a list that claimed its key or none, nothing nobody reviewed is written over, and a request half-way has written what it no longer has to do; a pull request the application closed has receipts (`PullOK`), and a rollback that says so has closed its own (`UndosOK`) |
| `CrawlQueueProofs` | `NotLostTheorem`, `DeliveryTheorem`, `FinishedTheorem` | an open claim holds the lock of a row still as it matched it (`ClaimInv`), the entry a slot holds names its crawl unless somebody acked it (`EntryInv`), an ack follows a saved result (`ResultInv`), nothing is about rows that do not exist (`KnownInv`). While heartbeats and acks work, a slot past its claim has the row to itself, running and leased (`HolderInv`), and no active row has a result |
| `ContentDraftsProofs` | `ReviewedTheorem`, `TextTheorem` | nobody writes a draft that a person edited, sent or is deciding about, and nothing leads back there (`PastInv`); a request whose draft nobody wrote since it was read still knows its flags: a submission that there are none, an edit that the flags it may put back are open anyway (`FreshInv`). What is recorded and the calls at work exceed the budget only by the callers that read it together (`SpendInv`); a call is recorded with the attempt it was made in (`RestInv`); a draft has no more events than tries, so that the requeue finds one (`EventsInv`) |
| `ConnectionsProofs` | `TypeCorrect`, `UsableTheorem`, `ConsentTheorem`, `RoutineTypeCorrect`, `RepeatTheorem` | a row says it has a secret exactly when it has one, consents stay with connectors of their provider, a callback at Google holds an open consent, and a grant, stored or being renewed, is of a consent given and closed. Routines: a consumer that has yet to ask the models has an attempt of its own; while no lease lapsed under somebody at work one consumer is at a run; a run about to be skipped cannot be taken until the gate opens |
| `WorkspaceProofs` | `LastOwnerTheorem`, `LimitsTheorem`, `TurnsTheorem`, `ToldTheorem`, `RetriesTheorem`, `PartsTypeCorrect` | membership: a request between lock and commit holds its target's row, and whoever it counted is an owner with the row held by it. Conversation: whoever could add a message under the number it read is alone and next, and a post has only read until a button or the router chose. Calibration: the unique indexes over the rows of open transactions too. Citations: the requests that found room count beside the questions there are (`QuestionsInv`), what scans at work may still reckon with beside what is recorded and what is billed unreckoned (`ScanInv`) |
| `AutomationProofs` | `ReportTheorem`, `SyncImplements`, `SightingsTheorem`, `PartsTypeCorrect` | syncs: every page before a place is stored and the days counted are those before it, of the row and of what each consumer holds, so a late checkpoint is true. Verification: a batch holds a change deployed once at most once, and only while it is not verified. Notifications: a report was posted no more often than it was tried, each hand it is in took an attempt of its own (`NoticeInv`), and while nothing is lost its lease says whether it is in a hand (`TendInv`). PageSpeed: a queued run has the event of its next try, and whoever is about to ack has seen the run end (`EndBeforeAck`) |
| `FindingsProofs` | `FixedTheorem`, `SweepTheorem`, `CompleteTheorem`, `TopicsTheorem`, `BriefsTheorem`, `PartsTypeCorrect` | analyses: what one has yet to close it has matched, unless another began beside it (`AnalysesOK`), a finished one leaves no older evidence open on what it found fixed (`LastDecides`), and of two analyses one is earlier (`OrderOK`). Drafting: the sweep that holds the lock has a page once before it, and none on which another sweep's proposal is live, those marked `beside` left aside (`SweepsOK`). A crawl: what waits is in the order of its hops, none more than one past the head and nothing visited past it, and while nothing was cut the links of whatever was visited are known, a hop further at most (`CrawlInv`). Topics: the forest and what was compared are in step (`ClusterInv`). Keywords: a run is newer than what it writes over, has its window to itself, and takes away only what its evidence does not form |

Every safety property that a passing run checks is the statement of one of these
theorems, and so is the refinement. Listed besides them in `PROJECT.json` are results
that no run lists:

* of reviews, `HighRiskTheorem`, `OneDecisionTheorem` and `DraftTheorem`; of crawls,
  `OneActiveTheorem` and `LeaseTheorem`; of drafts, `DraftsTypeCorrect`;
* the parts of the compound ones: `StrandTheorem`, `OverspendTheorem`, `RoomTheorem`,
  `SpendTheorem`, and `CompletedTheorem`, the safety half of `RunsEndForGood`;
* what `EveryDraftSettles` and `WorkEnds` need of safety: a queued draft (`QueuedTheorem`)
  and a queued PageSpeed run (`MeasurementTheorem`) have an event still to be read, and
  only a dispatcher that died or outlasted its lease leaves a report behind on its last
  attempt (`DeliveriesTheorem`).

The modules also hold the invariants themselves (`Invariance` and its namesakes) and the
type theorems of the parts of a composition.

Some arguments deserve a word.

* `RollbacksTheorem` assumes `Serial`: one slot for rollback requests, which is what
  `deploy_serial` checks. With two at once the code does record two rows for one receipt
  (there is no unique constraint), and "a rollback is final" is not promised. The
  half of `RollbacksHold` that does not need it, `OnlyStaleRollbackStrands`, is proved
  for any number (`StrandTheorem`).
* `SyncImplements` is the refinement of section 4, action by action (`StepRefines`), for
  every number of consumers, days, pages and deaths.
* `LimitsTheorem` puts together `OverspendTheorem`, `RoomTheorem` and `SpendTheorem`. A
  sum over drafts or scans would need induction over the set; the proofs count instead:
  the drafts that are paid, the questions that are active, and, of the scans, the pairs
  of a scan and one of the estimates it may still spend (`Owed`) or has spent
  (`Charged`).
* `CompleteTheorem` and `TopicsTheorem` are about loops over data. The induction theorems
  of the library cannot be instantiated, so what needs induction is argued from the
  least counterexample, which `WFMin` gives for the numbers (`Smallest`, `UpTo`), or from
  a closed set: a crawl that ended has visited a set closed under the links of its
  pages, and a search's group is closed under likeness. `Hops` and `Find` are recursive
  functions, and their equations are justified by showing that such a function
  exists. `QueuedTheorem` uses the same minimum to say which event `Announce` takes.
* The compositions let one part move at a time and leave the others as they are, so each
  part moves as it does alone (`PartsAlone`) and the theorems of the parts hold of the
  whole. In `MCWorkspace` the drafts are an instance of `ContentDrafts`; `MoneyFacts`, an
  instance of its proofs under the same substitution, brings its theorems over.
* `NotLostTheorem` speaks of `Spec` of `CrawlQueue`, in which heartbeats and acks may fail
  without end; `DeliveryTheorem` and `FinishedTheorem` of `QueueSpec` of `CrawlFaults`,
  which promises more and only while they work.

What the proofs assume of the constants and no run could tell apart: the sets of
proposals, keys, drafts, crawls and syncs are not empty, what a count or a sum ranges over is finite, and
in `Research` the topics people ask for are numbered apart from the windows of the
keyword runs (`ResearchAssumption`), which stands for the rows having ids of their own.

## 6. What is only model-checked

* All liveness, which is out of the prover's reach: `RevertIsNoticed`, `CrawlsSettle`,
  `EveryDraftSettles`, `EveryRunEnds` (in `RunsEndForGood`), `WorkEnds`,
  `BacklogIsReached`.
* The three runs that end in a violation, which show a behaviour and not a theorem.

## 7. Plan

1. Refinement: `PageSpeed` and `ContentDrafts` against an abstract leased work whose
   end may be overtaken; `ProposalReview` and `Deployment` against the abstract life
   of a change (proposed, approved, live, undone).
2. The mode ceiling of governance; Reddit drafts.

## 8. Not modelled

* Races that are in the model or the code but have no property, because the
  repository promises nothing of them: a freeze or a lower budget that arrives after
  the site was read and before the adapter is called (`services/proposals.py:896`,
  `:917`), two requests that count one day's receipts, two people editing one draft
  (`services/content_drafts.py:375`, `:757`), two groups of one name that
  exchange the number of their key between runs (`worker/app/keywords/cluster.py`).
* The gap in `claimCrawl` between the UPDATE that matched nothing and the SELECT
  that asks why: the model decides both on one state.
* Pure computation on data: the rules over page contents, scores, fingerprints,
  prompts, keyword metrics, the statistics of a measurement, and the texts that
  generators and models write. No interleaving depends on them.
* Fetching, rendering and parsing of pages, proxies; the egress guard and LLM
  routing, which are stateless checks; site and DNS verification, one lookup and one
  status column.
* Argument parsing and wiring (HTTP routes, CLI), migrations (their indexes and
  constraints are part of the modules that rely on them), generated clients and the
  web front end.
* Row-level security and token checks, enforced by the database and a library.
* Services outside the repository (GitHub, Redis, Google, webhooks, models) are
  modelled by what the code sees of them, and marked external in `PROJECT.json`
  where they have a definition of their own.
