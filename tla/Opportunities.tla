---------------------------- MODULE Opportunities ----------------------------
(***************************************************************************)
(* What a crawl finds and who drafts a change for it: analyses of crawls   *)
(* open and close opportunities, people judge them, and a sweep, the agent *)
(* and people turn them into proposals.                                    *)
(*                                                                         *)
(* Source: worker/app/analysis.py, analysis_consumer.py,                   *)
(* api/app/services/opportunities.py, proposal_drafts.py,                  *)
(* proposal_drafting.py, agent.py (_propose).                              *)
(*                                                                         *)
(* An analysis is one transaction: its UPDATE sees the rows committed when *)
(* the statement starts, its upserts show when it commits.  A draft reads  *)
(* the file at GitHub between its checks and its commit.  The site stays   *)
(* verified and in a mode that lets the sweep draft.  What ends a proposal *)
(* and brings it back is ProposalReview's, here as far as drafts see it.   *)
(***************************************************************************)
EXTENDS Integers, FiniteSets

CONSTANTS
    Opportunity,  \* one for each page and rule: the fingerprint
    PageOf,       \* [Opportunity -> its page]
    Crawl,        \* completed crawls of the site
    Analyst,      \* consumers of crawl.completed
    Drafter,      \* requests and sweeps that draft
    MaxProposals, \* bound: proposals of the model
    Nobody        \* no crawl, no opportunity, no drafter

SitePage == {PageOf[o] : o \in Opportunity}
ProposalId == 1..MaxProposals

ASSUME OpportunityAssumption ==
    /\ MaxProposals \in Nat
    /\ Nobody \notin Opportunity \cup Crawl \cup Drafter

VARIABLES
    crawl,     \* [Crawl -> its event, the crawls older than it, what it read and found]
    analysis,  \* [Crawl -> row of analysis_run; earlier has those created before it,
               \*  beside those at work while it was]
    analyst,   \* [Analyst -> the crawl in hand and the rows its UPDATE matched]
    row,       \* [Opportunity -> row of opportunity]
    drafter,   \* [Drafter -> who drafts, what is left to do, the file being read]
    proposal,  \* [ProposalId -> row of proposal, the drafter that has not committed it;
               \*  loaded: a request that read it live may still write it; beside: it came
               \*  back, or from a sweep with no lock, to a page another sweep had taken]
    sweeping   \* the holder of the drafting sweep's advisory lock

findVars == <<crawl, analysis, analyst, row, drafter, proposal, sweeping>>

CrawlRow == [event : {"none", "new", "pending", "acked"}, older : SUBSET Crawl,
             read : SUBSET SitePage, issues : SUBSET Opportunity]
Analysis == [done : BOOLEAN, earlier : SUBSET Crawl, beside : SUBSET Crawl]
NoAnalysis == [done |-> FALSE, earlier |-> {}, beside |-> {}]
AnalystState == [crawl : Crawl \cup {Nobody}, matched : SUBSET Opportunity]
OpportunityRow == [status : {"none", "open", "expired", "suppressed"}, reason : BOOLEAN,
                   evidence : Crawl \cup {Nobody}, returned : BOOLEAN]
DrafterState == [as : {"nobody", "person", "agent", "sweep"}, todo : SUBSET Opportunity,
                 at : Opportunity \cup {Nobody}, judged : BOOLEAN]
ProposalRow == [status : {"none", "added", "live", "rejected", "failed"},
                of : Opportunity \cup {Nobody}, by : {"nobody", "person", "agent", "sweep"},
                tx : Drafter \cup {Nobody}, judged : BOOLEAN, loaded : BOOLEAN, beside : BOOLEAN]
Resting == [as |-> "nobody", todo |-> {}, at |-> Nobody, judged |-> FALSE]
NoProposal == [status |-> "none", of |-> Nobody, by |-> "nobody", tx |-> Nobody,
               judged |-> FALSE, loaded |-> FALSE, beside |-> FALSE]

FindInit ==
    /\ crawl = [c \in Crawl |-> [event |-> "none", older |-> {}, read |-> {}, issues |-> {}]]
    /\ analysis = [c \in Crawl |-> NoAnalysis]
    /\ analyst = [w \in Analyst |-> [crawl |-> Nobody, matched |-> {}]]
    /\ row = [o \in Opportunity |-> [status |-> "none", reason |-> FALSE,
                                     evidence |-> Nobody, returned |-> FALSE]]
    /\ drafter = [d \in Drafter |-> Resting]
    /\ proposal = [i \in ProposalId |-> NoProposal]
    /\ sweeping = Nobody

-----------------------------------------------------------------------------
(* Analyses.                                                               *)

\* A crawl completes, whatever it could read, and its event is on the stream.  A
\* site has one crawl at a time: what completed before is older.
CrawlCompletes(c) ==
    /\ crawl[c].event = "none"
    /\ \E read \in SUBSET SitePage : \E issues \in SUBSET {o \in Opportunity : PageOf[o] \in read} :
          crawl' = [crawl EXCEPT ![c] = [event |-> "new", read |-> read, issues |-> issues,
                                         older |-> {k \in Crawl : crawl[k].event # "none"}]]
    /\ UNCHANGED <<analysis, analyst, row, drafter, proposal, sweeping>>

Delivered(c) == crawl[c].event \in {"new", "pending"}
InProgress == {analyst[w].crawl : w \in Analyst} \ {Nobody}
Begun == InProgress \cup {c \in Crawl : analysis[c].done}

\* INSERT analysis_run ON CONFLICT DO NOTHING waits for a concurrent insert.
NotYet(c) == c \notin InProgress /\ ~analysis[c].done

\* Mutant: only what this crawl did not find is closed, whatever its pages.
EverythingElse(c) == {o \in Opportunity : row[o].status = "open" /\ o \in crawl[c].issues}

\* The rows an analysis closes: open, of the pages the crawl read.
Superseded(c) == {o \in Opportunity : row[o].status = "open" /\ PageOf[o] \in crawl[c].read}

Analyse(w, c) ==
    /\ analyst[w].crawl = Nobody /\ Delivered(c) /\ NotYet(c)
    /\ crawl' = [crawl EXCEPT ![c].event = "pending"]
    /\ analyst' = [analyst EXCEPT ![w] = [crawl |-> c, matched |-> Superseded(c)]]
    /\ analysis' = [k \in Crawl |->
          IF k = c THEN [done |-> FALSE, earlier |-> Begun, beside |-> InProgress]
          ELSE IF k \in InProgress THEN [analysis[k] EXCEPT !.beside = @ \cup {c}]
          ELSE analysis[k]]
    /\ UNCHANGED <<row, drafter, proposal, sweeping>>

\* The upsert of one finding: open again, with the evidence of this crawl.
Reopened(o, c) == [row[o] EXCEPT !.status = "open", !.evidence = c, !.returned = FALSE]

\* The transaction commits: rows matched and still open are expired, and every
\* issue of the crawl is open.
CommitAnalysis(w) ==
    LET c == analyst[w].crawl IN
    /\ c # Nobody
    /\ row' = [o \in Opportunity |->
          IF o \in crawl[c].issues THEN Reopened(o, c)
          ELSE IF o \in analyst[w].matched /\ row[o].status = "open"
               THEN [row[o] EXCEPT !.status = "expired"]
          ELSE row[o]]
    /\ analysis' = [analysis EXCEPT ![c].done = TRUE]
    /\ analyst' = [analyst EXCEPT ![w] = [crawl |-> Nobody, matched |-> {}]]
    /\ UNCHANGED <<crawl, drafter, proposal, sweeping>>

\* A finished analysis is acked, at once or when its event comes back.
AckAnalysis(c) ==
    /\ Delivered(c) /\ analysis[c].done
    /\ crawl' = [crawl EXCEPT ![c].event = "acked"]
    /\ UNCHANGED <<analysis, analyst, row, drafter, proposal, sweeping>>

\* The consumer dies or the transaction fails: everything of it is undone.
AnalysisFails(w) ==
    LET c == analyst[w].crawl IN
    /\ c # Nobody
    /\ analysis' = [k \in Crawl |->
          IF k = c THEN NoAnalysis
          ELSE [analysis[k] EXCEPT !.earlier = @ \ {c}, !.beside = @ \ {c}]]
    /\ analyst' = [analyst EXCEPT ![w] = [crawl |-> Nobody, matched |-> {}]]
    /\ UNCHANGED <<crawl, row, drafter, proposal, sweeping>>

-----------------------------------------------------------------------------
(* People's judgement.                                                     *)

Suppress(o) ==
    /\ row[o].status # "none"
    /\ row' = [row EXCEPT ![o].status = "suppressed", ![o].reason = TRUE]
    /\ UNCHANGED <<crawl, analysis, analyst, drafter, proposal, sweeping>>

\* Any opportunity may be put back, one that was found fixed as well.
Unsuppress(o) ==
    /\ row[o].status # "none"
    /\ row' = [row EXCEPT ![o].status = "open", ![o].reason = FALSE, ![o].returned = TRUE]
    /\ UNCHANGED <<crawl, analysis, analyst, drafter, proposal, sweeping>>

-----------------------------------------------------------------------------
(* Drafts.                                                                 *)

LiveOf(o) == {i \in ProposalId : proposal[i].status = "live" /\ proposal[i].of = o}
LiveOn(page) == {i \in ProposalId : proposal[i].status = "live" /\ PageOf[proposal[i].of] = page}

\* The crawl of the latest completed analysis, and the queue it confirms.
LatestAnalysed == {c \in Crawl : /\ analysis[c].done
                                 /\ \A k \in Crawl : analysis[k].done => c \notin analysis[k].earlier}
Current == {o \in Opportunity : /\ row[o].status = "open" /\ ~row[o].reason
                                /\ LatestAnalysed # {} => row[o].evidence \in LatestAnalysed}

\* Mutant: the sweep asks for the opportunity only, not for its page.
DraftableAlone == {o \in Opportunity : row[o].status = "open" /\ LiveOf(o) = {}}

\* DRAFTABLE_SQL: open, and no live proposal for it or for its page.
Draftable == {o \in Opportunity : row[o].status = "open" /\ LiveOn(PageOf[o]) = {}}

\* DISTINCT ON (page_id): one opportunity for each page.
OnePerPage(todo) == \A o, p \in todo : PageOf[o] = PageOf[p] => o = p

\* A person asks for a draft, the agent goes through the current queue.
Ask(d) ==
    /\ drafter[d] = Resting
    /\ \/ \E o \in Opportunity :
             drafter' = [drafter EXCEPT ![d] = [Resting EXCEPT !.as = "person", !.todo = {o}]]
       \/ /\ Current # {}
          /\ drafter' = [drafter EXCEPT ![d] = [Resting EXCEPT !.as = "agent", !.todo = Current]]
    /\ UNCHANGED <<crawl, analysis, analyst, row, proposal, sweeping>>

\* pg_try_advisory_lock.
LockIsFree == sweeping = Nobody

\* What it takes of the draftable ones depends on its rules, their score and LIMIT.
Sweep(d) ==
    /\ drafter[d] = Resting /\ LockIsFree
    /\ \E todo \in SUBSET Draftable :
          /\ OnePerPage(todo)
          /\ drafter' = [drafter EXCEPT ![d] = [Resting EXCEPT !.as = "sweep", !.todo = todo]]
    /\ sweeping' = d
    /\ UNCHANGED <<crawl, analysis, analyst, row, proposal>>

\* The lock is the connection's, which nothing uses until the sweep is through its
\* list: when it drops, the sweep goes on and another process may begin one.
LoseLock(d) ==
    /\ drafter[d].as = "sweep" /\ sweeping = d
    /\ sweeping' = Nobody
    /\ UNCHANGED <<crawl, analysis, analyst, row, drafter, proposal>>

\* draft_from_opportunity: _load_opportunity, _refuse_if_already_proposed.  A
\* request sees the proposals it has added and not committed.
Answerable(d, o) ==
    /\ row[o].status = "open"
    /\ \A i \in ProposalId : proposal[i].of = o =>
          proposal[i].status # "live" /\ proposal[i].tx # d

Check(d, o) ==
    /\ drafter[d].at = Nobody /\ o \in drafter[d].todo
    /\ drafter' = [drafter EXCEPT
          ![d].todo = @ \ {o},
          ![d].at = IF Answerable(d, o) THEN o ELSE Nobody,
          ![d].judged = Answerable(d, o) /\ row[o].reason]
    /\ UNCHANGED <<crawl, analysis, analyst, row, proposal, sweeping>>

\* No repair for this file, or the file cannot be read: the next one.
Refuse(d) ==
    /\ drafter[d].at # Nobody
    /\ drafter' = [drafter EXCEPT ![d].at = Nobody, ![d].judged = FALSE]
    /\ UNCHANGED <<crawl, analysis, analyst, row, proposal, sweeping>>

\* A sweep's proposal is live on the page, or a sweep has yet to draft for it.
Taken(page, but) ==
    \/ \E i \in LiveOn(page) : proposal[i].by = "sweep"
    \/ \E d \in Drafter \ {but} : /\ drafter[d].as = "sweep"
                                 /\ \E o \in drafter[d].todo \cup ({drafter[d].at} \ {Nobody}) :
                                       PageOf[o] = page

Free == {i \in ProposalId : proposal[i].status = "none"}
NextIs(i) == i \in Free /\ \A j \in Free : i <= j

\* create_proposal: a sweep and a person commit each, the agent its whole list.
Create(d) ==
    /\ drafter[d].at # Nobody
    /\ \E i \in ProposalId :
          /\ NextIs(i)
          /\ proposal' = [proposal EXCEPT ![i] =
                [status |-> IF drafter[d].as = "agent" THEN "added" ELSE "live",
                 of |-> drafter[d].at, by |-> drafter[d].as,
                 tx |-> IF drafter[d].as = "agent" THEN d ELSE Nobody,
                 judged |-> drafter[d].judged, loaded |-> FALSE,
                 beside |-> /\ drafter[d].as = "sweep" /\ sweeping # d
                            /\ Taken(PageOf[drafter[d].at], d)]]
    /\ drafter' = [drafter EXCEPT ![d].at = Nobody, ![d].judged = FALSE]
    /\ UNCHANGED <<crawl, analysis, analyst, row, sweeping>>

\* The agent's message is one transaction.
Commit(d) ==
    /\ drafter[d].as = "agent" /\ drafter[d].todo = {} /\ drafter[d].at = Nobody
    /\ proposal' = [i \in ProposalId |->
          IF proposal[i].tx = d THEN [proposal[i] EXCEPT !.status = "live", !.tx = Nobody]
          ELSE proposal[i]]
    /\ drafter' = [drafter EXCEPT ![d] = Resting]
    /\ UNCHANGED <<crawl, analysis, analyst, row, sweeping>>

\* Nothing is left, or the process dies: what is not committed is undone and
\* the lock of a sweep that still has it goes.
Rest(d) ==
    /\ drafter[d].as # "nobody"
    /\ drafter' = [drafter EXCEPT ![d] = Resting]
    /\ sweeping' = IF sweeping = d THEN Nobody ELSE sweeping
    /\ proposal' = [i \in ProposalId |-> IF proposal[i].tx = d THEN NoProposal ELSE proposal[i]]
    /\ UNCHANGED <<crawl, analysis, analyst, row>>

\* A person writes the proposal: nothing asks for another one.
WriteByHand(o) ==
    /\ row[o].status # "none"
    /\ \E i \in ProposalId :
          /\ NextIs(i)
          /\ proposal' = [proposal EXCEPT ![i] =
                              [NoProposal EXCEPT !.status = "live", !.of = o, !.by = "person"]]
    /\ UNCHANGED <<crawl, analysis, analyst, row, drafter, sweeping>>

-----------------------------------------------------------------------------
(* What becomes of proposals.  A deployed one is live here.                *)

\* A review or a deployment SELECTs the proposal and takes no lock; how many do,
\* and which of them never write, makes no difference here.
LoadLive(i) ==
    /\ proposal[i].status = "live"
    /\ proposal' = [proposal EXCEPT ![i].loaded = TRUE]
    /\ UNCHANGED <<crawl, analysis, analyst, row, drafter, sweeping>>

\* It is rejected; or its deployment is rolled back, whatever its status.
Finish(i) ==
    /\ \/ proposal[i].status = "live"
          /\ \E over \in {"rejected", "failed"} : proposal' = [proposal EXCEPT ![i].status = over]
       \/ proposal[i].status = "rejected" /\ proposal[i].loaded
          /\ proposal' = [proposal EXCEPT ![i].status = "failed"]
    /\ UNCHANGED <<crawl, analysis, analyst, row, drafter, sweeping>>

\* A request that loaded it before it was rejected commits "approved", "deployed" or
\* "review_required"; a failed one may be decided on again.  Nothing asks for its page.
Revive(i) ==
    /\ proposal[i].status = "failed" \/ (proposal[i].status = "rejected" /\ proposal[i].loaded)
    /\ proposal' = [proposal EXCEPT ![i].status = "live",
          ![i].beside = proposal[i].by = "sweep" /\ Taken(PageOf[proposal[i].of], Nobody)]
    /\ UNCHANGED <<crawl, analysis, analyst, row, drafter, sweeping>>

FindNext ==
    \/ \E c \in Crawl : CrawlCompletes(c) \/ AckAnalysis(c) \/ \E w \in Analyst : Analyse(w, c)
    \/ \E w \in Analyst : CommitAnalysis(w) \/ AnalysisFails(w)
    \/ \E o \in Opportunity : Suppress(o) \/ Unsuppress(o) \/ WriteByHand(o)
                              \/ \E d \in Drafter : Check(d, o)
    \/ \E d \in Drafter : Ask(d) \/ Sweep(d) \/ Refuse(d) \/ Create(d) \/ Commit(d) \/ Rest(d)
                            \/ LoseLock(d)
    \/ \E i \in ProposalId : LoadLive(i) \/ Finish(i) \/ Revive(i)

FindSpec == FindInit /\ [][FindNext]_findVars
-----------------------------------------------------------------------------
(* Properties.                                                             *)

FindTypeOK ==
    /\ crawl \in [Crawl -> CrawlRow]
    /\ analysis \in [Crawl -> Analysis]
    /\ analyst \in [Analyst -> AnalystState]
    /\ row \in [Opportunity -> OpportunityRow]
    /\ drafter \in [Drafter -> DrafterState]
    /\ proposal \in [ProposalId -> ProposalRow]
    /\ sweeping \in Drafter \cup {Nobody}

\* What a newer crawl of the page found fixed is open on older evidence only if a
\* person put it back, or if the older crawl was analysed beside the newer or after
\* it: no analysis asks how old its crawl is, so out of order the older one decides.
FixedStaysClosed ==
    \A o \in Opportunity : \A c \in Crawl :
       LET e == row[o].evidence IN
       (/\ row[o].status = "open" /\ ~row[o].returned
        /\ analysis[c].done /\ PageOf[o] \in crawl[c].read
        /\ e \in crawl[c].older)
          => e \in analysis[c].beside \/ c \in analysis[e].earlier

\* However many processes sweep, die and start again, and whatever people and the
\* agent draft meanwhile, the sweep has one live proposal for a page at a time, but
\* for two ways to it that ask nothing of the page: a proposal that was over is live
\* again, by a request that loaded it before or after a rollback; and a sweep goes
\* on when its lock is gone.  Of two on a page, one came that way, and it came when
\* a sweep's proposal was live there or a sweep had the page before it.
SweepDraftsAPageOnce ==
    \A i, j \in ProposalId :
       (/\ i # j /\ proposal[i].status = "live" /\ proposal[j].status = "live"
        /\ proposal[i].by = "sweep" /\ proposal[j].by = "sweep"
        /\ PageOf[proposal[i].of] = PageOf[proposal[j].of])
          => proposal[i].beside \/ proposal[j].beside

\* An opportunity judged invalid is not drafted: whoever drafted it found it
\* judged when it was loaded.
SuppressedIsNotDrafted == \A i \in ProposalId : ~proposal[i].judged
=============================================================================
