------------------------------- MODULE Research -------------------------------
(***************************************************************************)
(* Topics of a site's searches, and the briefs written about them: one     *)
(* routine groups the searches of a window of days into clusters, another  *)
(* writes a brief for each cluster worth one, people move the briefs and   *)
(* ask for posts to be drafted from them.                                  *)
(*                                                                         *)
(* Source: worker/app/keywords/analysis.py, briefs/generate.py,            *)
(* routines/runner.py, api/app/services/briefs.py, content_drafts.py.      *)
(*                                                                         *)
(* Each run is one transaction, undone when it fails.  A cluster is known  *)
(* by the window and the topic, and keeps its row when a window is         *)
(* analysed again; its brief goes with it (ON DELETE CASCADE), and a draft *)
(* keeps its brief (a foreign key).                                        *)
(***************************************************************************)
EXTENDS Integers, FiniteSets

CONSTANTS
    Topic,
    Window,        \* windows of days that hold evidence
    Refresher,     \* runs of keyword_refresh that may be at work
    Generator,     \* runs of content_briefs that may be at work
    Editor,        \* requests that move a brief
    Writer,        \* requests for a draft
    MaxRefreshes,  \* bound: analyses
    MaxAsks        \* bound: times a topic is asked for by a person

ASSUME ResearchAssumption ==
    /\ MaxRefreshes \in Nat /\ MaxAsks \in Nat
    /\ Window \cap (1..MaxAsks) = {}

VARIABLES
    refreshed,   \* [Window -> created_at of its keyword_analysis_run, 0 without one]
    cluster,     \* [Window \X Topic -> its opportunity_score, or no row]
    brief,       \* [BriefId -> row of content_brief, or none]
    draft,       \* the briefs some content_draft was written from
    refresher,   \* [Refresher -> the analysis at work, in its transaction]
    generator,   \* [Generator -> the clusters chosen, and whether one has gone since]
    editor,      \* [Editor -> the brief loaded, and the status it then had]
    writer,      \* [Writer -> the brief loaded]
    clock

researchVars == <<refreshed, cluster, brief, draft, refresher, generator, editor, writer, clock>>

\* At least MIN_CLUSTER_SCORE, at least EXPLORATORY_FLOOR, below both.
Score == {"strong", "weak", "faint"}
Gone == "none"
Cluster == Window \X Topic
\* A topic a person named has no cluster: its briefs are numbered.
Asked == (1..MaxAsks) \X Topic
BriefId == Cluster \cup Asked
BriefStatus == {"queued", "in_progress", "done", "dismissed"}
Kind == {"new_page", "refresh"}
NoBrief == [status |-> Gone, kind |-> Gone]
NoRefresh == [window |-> Gone, formed |-> [t \in Topic |-> Gone], doomed |-> {}, at |-> 0]
NoRun == [chosen |-> {}, lost |-> FALSE]
NoId == <<>>
NotMoving == [brief |-> NoId, read |-> Gone]

\* ALLOWED_TRANSITIONS.
Allowed == [queued |-> {"in_progress", "done", "dismissed"}, in_progress |-> {"queued", "done", "dismissed"},
            done |-> {"in_progress"}, dismissed |-> {"queued"}]

ResearchInit ==
    /\ refreshed = [w \in Window |-> 0]
    /\ cluster = [c \in Cluster |-> Gone]
    /\ brief = [b \in BriefId |-> NoBrief]
    /\ draft = {}
    /\ refresher = [r \in Refresher |-> NoRefresh]
    /\ generator = [g \in Generator |-> NoRun]
    /\ editor = [e \in Editor |-> NotMoving]
    /\ writer = [x \in Writer |-> NoId]
    /\ clock = 0

-----------------------------------------------------------------------------
(* keyword_refresh.                                                        *)

\* Mutant of Unformed: the clusters of the window are deleted and made again.
Refilled(w, formed) == {c \in Cluster : c[1] = w /\ cluster[c] # Gone /\ c \notin draft}

\* Clusters the evidence no longer forms, unless a draft was written from their brief.
Unformed(w, formed) ==
    {c \in Cluster : c[1] = w /\ cluster[c] # Gone /\ formed[c[2]] = Gone /\ c \notin draft}

\* The searches of a window are read and grouped; searches no key opens are skipped, and
\* there may be none.  The upsert of the run's row holds back another run of this window.
\* The deletion sees the drafts that are committed.
Refresh(r, w, formed) ==
    /\ refresher[r] = NoRefresh /\ clock < MaxRefreshes
    /\ \A s \in Refresher : refresher[s].window # w
    /\ clock' = clock + 1
    /\ refresher' = [refresher EXCEPT ![r] =
                        [window |-> w, formed |-> formed, doomed |-> Unformed(w, formed), at |-> clock + 1]]
    /\ UNCHANGED <<refreshed, cluster, brief, draft, generator, editor, writer>>

\* The rows go, their briefs with them, and the run commits.
CommitRefresh(r) ==
    LET run == refresher[r] IN
    /\ run # NoRefresh /\ run.doomed \cap draft = {}
    /\ refresher' = [refresher EXCEPT ![r] = NoRefresh]
    /\ refreshed' = [refreshed EXCEPT ![run.window] = run.at]
    /\ cluster' = [c \in Cluster |->
                      IF c[1] = run.window /\ run.formed[c[2]] # Gone THEN run.formed[c[2]]
                      ELSE IF c \in run.doomed THEN Gone ELSE cluster[c]]
    /\ brief' = [b \in BriefId |-> IF b \in run.doomed THEN NoBrief ELSE brief[b]]
    /\ generator' = [g \in Generator |->
                        [generator[g] EXCEPT !.lost = @ \/ generator[g].chosen \cap run.doomed # {}]]
    /\ UNCHANGED <<draft, editor, writer, clock>>

\* A draft came to refer to one of the briefs: the deletion fails, and the run with it.
AbortRefresh(r) ==
    /\ refresher[r].doomed \cap draft # {}
    /\ refresher' = [refresher EXCEPT ![r] = NoRefresh]
    /\ UNCHANGED <<refreshed, cluster, brief, draft, generator, editor, writer, clock>>

-----------------------------------------------------------------------------
(* content_briefs.                                                         *)

\* The analysis begun last, of those committed.
Latest == {w \in Window : refreshed[w] > 0 /\ \A v \in Window : refreshed[v] <= refreshed[w]}

\* Those with demand; or, when there are none, the site's own strongest.  A cluster kept
\* for its draft is among them, with the score it had.
Worthwhile ==
    LET scored(scores) == {c \in Cluster : c[1] \in Latest /\ cluster[c] \in scores}
    IN  IF scored({"strong"}) # {} THEN scored({"strong"}) ELSE scored({"weak"})

ChooseClusters(g) ==
    /\ generator[g] = NoRun /\ Worthwhile # {}
    /\ generator' = [generator EXCEPT ![g] = [chosen |-> Worthwhile, lost |-> FALSE]]
    /\ UNCHANGED <<refreshed, cluster, brief, draft, refresher, editor, writer, clock>>

\* Mutant of Rewritten: a brief that is written again is queued again.
Requeued(b, kind) == [status |-> "queued", kind |-> kind]

\* The upsert: a brief that exists keeps its status.
Rewritten(b, kind) == [status |-> IF brief[b] = NoBrief THEN "queued" ELSE brief[b].status, kind |-> kind]

\* Each is a refresh of a page of the site, or a new page.  A cluster that has gone
\* fails the run.
WriteBriefs(g) ==
    /\ generator[g] # NoRun
    /\ generator' = [generator EXCEPT ![g] = NoRun]
    /\ IF generator[g].lost THEN UNCHANGED brief
       ELSE \E kind \in Kind :
               brief' = [b \in BriefId |->
                            IF b \in generator[g].chosen THEN Rewritten(b, kind) ELSE brief[b]]
    /\ UNCHANGED <<refreshed, cluster, draft, refresher, editor, writer, clock>>

-----------------------------------------------------------------------------
(* People.                                                                 *)

Live(b) == brief[b].status \notin {Gone, "dismissed"}

\* content_brief_topic_live_idx.
OtherLive(b) == b \in Asked /\ \E n \in 1..MaxAsks : <<n, b[2]>> # b /\ Live(<<n, b[2]>>)

\* create_topic: no page of the site covers it, and nobody else's request is alive.
CreateTopic(b) ==
    /\ b \in Asked /\ brief[b] = NoBrief
    /\ \A n \in 1..(b[1] - 1) : brief[<<n, b[2]>>] # NoBrief
    /\ ~OtherLive(b)
    /\ brief' = [brief EXCEPT ![b] = [status |-> "queued", kind |-> "new_page"]]
    /\ UNCHANGED <<refreshed, cluster, draft, refresher, generator, editor, writer, clock>>

LoadToMove(e, b) ==
    /\ editor[e] = NotMoving /\ brief[b] # NoBrief
    /\ editor' = [editor EXCEPT ![e] = [brief |-> b, read |-> brief[b].status]]
    /\ UNCHANGED <<refreshed, cluster, brief, draft, refresher, generator, writer, clock>>

\* content_brief_dismissal_check: a request that read another status does not touch the
\* reason a dismissal has left since.
Holds(b, read, target) ==
    brief[b].status = "dismissed" => target = "dismissed" \/ read = "dismissed"

\* update_status: the transition is allowed from the status that was read, and written
\* over the one there is; a row that has gone, a constraint or an index refuses it.
Move(e, target) ==
    LET b == editor[e].brief  read == editor[e].read IN
    /\ editor[e] # NotMoving
    /\ editor' = [editor EXCEPT ![e] = NotMoving]
    /\ IF /\ target \in Allowed[read] /\ brief[b] # NoBrief
          /\ Holds(b, read, target) /\ (target # "dismissed" => ~OtherLive(b))
       THEN brief' = [brief EXCEPT ![b].status = target]
       ELSE UNCHANGED brief
    /\ UNCHANGED <<refreshed, cluster, draft, refresher, generator, writer, clock>>

\* ContentDraftService.request, its checks.
LoadToDraft(x, b) ==
    /\ writer[x] = NoId /\ Live(b) /\ brief[b].kind = "new_page"
    /\ writer' = [writer EXCEPT ![x] = b]
    /\ UNCHANGED <<refreshed, cluster, brief, draft, refresher, generator, editor, clock>>

\* Its insert: refused when the brief has gone.
RequestDraft(x) ==
    /\ writer[x] # NoId
    /\ writer' = [writer EXCEPT ![x] = NoId]
    /\ draft' = IF brief[writer[x]] = NoBrief THEN draft ELSE draft \cup {writer[x]}
    /\ UNCHANGED <<refreshed, cluster, brief, refresher, generator, editor, clock>>

ResearchNext ==
    \/ \E r \in Refresher :
          \/ \E w \in Window, formed \in [Topic -> Score \cup {Gone}] : Refresh(r, w, formed)
          \/ CommitRefresh(r) \/ AbortRefresh(r)
    \/ \E g \in Generator : ChooseClusters(g) \/ WriteBriefs(g)
    \/ \E b \in BriefId : CreateTopic(b)
    \/ \E e \in Editor :
          (\E b \in BriefId : LoadToMove(e, b)) \/ (\E target \in BriefStatus : Move(e, target))
    \/ \E x \in Writer : RequestDraft(x) \/ \E b \in BriefId : LoadToDraft(x, b)

ResearchSpec == ResearchInit /\ [][ResearchNext]_researchVars
-----------------------------------------------------------------------------
\* Besides the ranges: a cluster's brief and a draft's brief exist.
ResearchTypeOK ==
    /\ \A w \in Window : refreshed[w] \in 0..clock
    /\ \A c \in Cluster : cluster[c] \in Score \cup {Gone}
    /\ \A b \in BriefId : brief[b] # NoBrief =>
          brief[b].status \in BriefStatus /\ brief[b].kind \in Kind /\ (b \in Cluster => cluster[b] # Gone)
    /\ \A b \in draft : brief[b] # NoBrief

\* "deleting and recreating the clusters erased every brief the daily rerun touched, and
\* once a brief had a draft the delete would fail outright" (keywords/analysis.py): a run
\* takes away a brief only when its topic is not formed any more and nothing was drafted
\* from it, and it fails only when a draft was asked for while it ran.
BriefsOutliveReruns == [][
    \A r \in Refresher :
       LET run == refresher[r] IN
       run # NoRefresh /\ refresher'[r] = NoRefresh =>
          IF refreshed' = refreshed THEN \E c \in draft : cluster[c] # Gone /\ c \in run.doomed
          ELSE \A b \in BriefId : brief[b] # NoBrief /\ brief'[b] = NoBrief =>
                  b[1] = run.window /\ run.formed[b[2]] = Gone /\ b \notin draft]_researchVars

\* "A brief a human has acted on or dismissed keeps its status" (briefs/generate.py): a
\* dismissed brief is taken up again only by a person who saw it dismissed, whatever runs
\* and requests overlap.
DismissalHolds == [][
    \A b \in BriefId :
       brief[b].status = "dismissed" /\ brief'[b].status \notin {"dismissed", Gone} =>
          /\ brief'[b].status = "queued"
          /\ \E e \in Editor : editor[e] = [brief |-> b, read |-> "dismissed"] /\ editor'[e] = NotMoving
    ]_researchVars

\* Reruns take away no brief whose topic is still formed or that a draft was written
\* from, and no dismissal but by a person who saw it.
BriefsAreKept == BriefsOutliveReruns /\ DismissalHolds
=============================================================================
