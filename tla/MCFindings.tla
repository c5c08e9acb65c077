----------------------------- MODULE MCFindings ------------------------------
(* What is found out about a site: a crawl walks it, its findings become   *)
(* opportunities and proposals, its searches become topics and briefs.     *)
(* The parts share no state here, so one of them moves from the start of a *)
(* behaviour and the others rest.                                          *)
EXTENDS Opportunities, Frontier, Research, Clustering, TLC
CONSTANTS a1, a2, a3, h, c1, c2, w1, w2, e1, e2

TwoWorkers == {w1, w2}
TwoCrawls == {c1, c2}

\* One page with two rules; two crawls of it, two consumers, two drafters.
TwoRules == {a1, a2}
OnePage == [o \in TwoRules |-> h]

\* A site of four pages.
Pages == {a1, a2, a3, h}
CrawlLimits == [pages : {2, 4}, found : {3, 5}] \ {[pages |-> 4, found |-> 3]}

\* One topic in two windows; two people who move briefs, one who asks for drafts.
TwoWindows == TwoCrawls
TwoPeople == {e1, e2}
TwoConsumers == {e1, e2}

\* Four words, the first two of one stem, and the searches of one or two of them.
FourWords == 1..4
Stemmed == [w \in FourWords |-> IF w = 2 THEN 1 ELSE w]
ShortSearches == {ws \in SUBSET FourWords : Cardinality(ws) <= 2 /\ ws \notin {{1, 2}, {4}, {2, 4}}}

VARIABLE part

Init ==
    /\ part \in {"analyses", "drafting", "returns", "pages", "refreshes", "people", "topics"}
    /\ IF part = "topics" THEN words \in [1..Searches -> ShortSearches] ELSE words = [i \in 1..Searches |-> {3}]
    /\ part # "pages" => disallowed = {} /\ limit = [pages |-> 2, found |-> 3]
    /\ FindInit /\ FrontierInit /\ ResearchInit /\ ClusterInit
    /\ Cardinality(disallowed) <= 1

\* Analyses of two crawls, with nobody who drafts; or drafts of what one crawl found,
\* which one consumer analyses: by sweeps, and one person or agent at a time; or by
\* sweeps alone, of proposals that are loaded, fail and come back.
Analyses == FindNext /\ drafter' = drafter /\ proposal' = proposal
OneCrawl == FindNext /\ crawl'[c2].event = "none" /\ analyst'[e2].crawl = Nobody
Drafting ==
    /\ OneCrawl
    /\ Cardinality({d \in Drafter : drafter'[d].as \in {"person", "agent"}}) < 2
    /\ \A i \in ProposalId : ~proposal'[i].loaded /\ proposal'[i].status # "failed"
Returns ==
    /\ OneCrawl
    /\ \A d \in Drafter : drafter'[d].as \in {"nobody", "sweep"}
    /\ \A i \in ProposalId : proposal'[i].by # "person"
    /\ \A o \in Opportunity : row'[o].status \in {"none", "open"} /\ ~row'[o].returned

\* Bound: the origin links to as many pages as may be, the others to one.
Walk == FrontierNext /\ \A p \in Pages \ {h} : Len(links'[p].found) <= 1

\* Reruns of two windows, one person who moves briefs; or one rerun, and two people.
Reruns ==
    /\ ResearchNext
    /\ editor'[e2] = NotMoving /\ \A n \in Asked : brief'[n] = NoBrief
People ==
    /\ ResearchNext
    /\ writer' = writer /\ refreshed'[c2] = 0
    /\ \A r \in Refresher : refresher'[r] # NoRefresh =>
          refresher'[r].window = c1 /\ \A t \in Topic : refresher'[r].formed[t] \in {Gone, "strong"}

Next ==
    /\ UNCHANGED part
    /\ \/ part = "analyses" /\ Analyses
       \/ part = "drafting" /\ Drafting
       \/ part = "returns" /\ Returns
       \/ part = "pages" /\ Walk
       \/ part = "refreshes" /\ Reruns
       \/ part = "people" /\ People
       \/ part = "topics" /\ ClusterNext
    /\ part \notin {"analyses", "drafting", "returns"} => UNCHANGED findVars
    /\ part # "pages" => UNCHANGED frontierVars
    /\ part \notin {"refreshes", "people"} => UNCHANGED researchVars
    /\ part # "topics" => UNCHANGED clusterVars

Spec == Init /\ [][Next]_<<part, findVars, frontierVars, researchVars, clusterVars>>
-----------------------------------------------------------------------------
\* The type invariants of the parts.
TypeOK == FindTypeOK /\ FrontierTypeOK /\ ResearchTypeOK /\ ClusteringTypeOK

\* Workers are interchangeable, rules are, and so are pages but the origin.
Alike == Permutations(TwoWorkers) \cup Permutations({a1, a2})
=============================================================================
