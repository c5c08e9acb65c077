--------------------------- MODULE FindingsProofs ---------------------------
(***************************************************************************)
(* Proofs about Opportunities, Research, Frontier and Clustering, for every *)
(* number of pages, rules, crawls, consumers, drafters, topics, windows,   *)
(* runs, people and searches, and every limit.                             *)
(*                                                                         *)
(* Opportunities has two invariants that never meet.  One is about         *)
(* analyses: what one of them has yet to close it has matched already,     *)
(* unless another began before it ended.  The other is about drafts: the   *)
(* sweep that holds the lock has a page at most once before it, and none   *)
(* that a sweep has a live proposal for.                                   *)
(*                                                                         *)
(* Research has one of its own: a run of the keyword analysis is newer     *)
(* than what it writes over, has its window to itself and takes away only  *)
(* what its evidence does not form; briefs are of clusters that are there. *)
(*                                                                         *)
(* A crawl keeps its pages by their hops: what waits is in the order of    *)
(* its hops, none more than one further than the head, and whatever was    *)
(* visited is no further than the head.  Clustering keeps the forest and   *)
(* what was compared in step: searches that were compared and are alike    *)
(* have one root, and a search belongs together with its root.             *)
(***************************************************************************)
EXTENDS MCFindings,
        FiniteSetTheorems, SequenceTheorems, WellFoundedInduction, TLAPS

\* An analysis with c in hand has yet to commit.
Analysing(w, c) == analyst[w].crawl = c /\ c # Nobody

\* That o is open although the analysis of c came after the one that found it.
Stale(o, c) ==
    /\ row[o].status = "open" /\ ~row[o].returned /\ row[o].evidence # Nobody
    /\ PageOf[o] \in crawl[c].read
    /\ row[o].evidence \in analysis[c].earlier /\ row[o].evidence \notin analysis[c].beside

\* An analysis that is not done yet is begun beside all those that may still change
\* the rows, and has matched every row it must close; a crawl it found begun still is.
AnalysesOK ==
    /\ \A w \in Analyst, c \in Crawl : Analysing(w, c) =>
          /\ ~analysis[c].done
          /\ \A k \in Crawl : c \in analysis[k].earlier => c \in analysis[k].beside
          /\ \A v \in Analyst : Analysing(v, c) => v = w
          /\ \A o \in Opportunity : Stale(o, c) => o \in analyst[w].matched
    /\ \A c \in Crawl : analysis[c].earlier \subseteq Begun
    /\ \A c \in Begun : crawl[c].event # "none"

\* Where no two overlap, the analysis that began last decides what is open.
LastDecides == \A o \in Opportunity, c \in Crawl : analysis[c].done => ~Stale(o, c)

\* No crawl is older than itself, evidence is of a finished analysis, and of two
\* analyses one began first.
OrderOK ==
    /\ \A c \in Crawl : c \notin crawl[c].older
    /\ \A o \in Opportunity : row[o].evidence # Nobody => analysis[row[o].evidence].done
    /\ \A c, k \in Begun : c # k => c \in analysis[k].earlier \/ k \in analysis[c].earlier

\* The pages that drafter d has yet to draft for.
Ahead(d) == drafter[d].todo \cup ({drafter[d].at} \ {Nobody})

\* A proposal a sweep drafted for a page that no other sweep had.
SweptLive(i) == proposal[i].status = "live" /\ proposal[i].by = "sweep" /\ ~proposal[i].beside
HoldsLock(d) == drafter[d].as = "sweep" /\ sweeping = d

SweepsOK ==
    /\ \A d \in Drafter : HoldsLock(d) =>
          /\ \A o, p \in Ahead(d) : PageOf[o] = PageOf[p] => o = p
          /\ drafter[d].at \notin drafter[d].todo
          /\ \A o \in Ahead(d), i \in ProposalId :
                SweptLive(i) => PageOf[proposal[i].of] # PageOf[o]
    /\ \A i \in ProposalId : proposal[i].tx # Nobody => proposal[i].by # "sweep"

\* The inductive invariant.
FindInv ==
    FindTypeOK /\ AnalysesOK /\ LastDecides /\ OrderOK /\ SweepsOK /\ SweepDraftsAPageOnce

-----------------------------------------------------------------------------
(* Analyses.                                                               *)

\* The variables each half of the invariant is about.
AnalysesFacts == AnalysesOK /\ LastDecides /\ OrderOK
DraftsFacts == SweepsOK /\ SweepDraftsAPageOnce

\* Steps of drafters touch nothing the analyses go by.
LEMMA AnalysesFramed ==
    ASSUME AnalysesFacts, UNCHANGED <<crawl, analysis, analyst, row>>
    PROVE  AnalysesFacts'
BY DEF AnalysesFacts, AnalysesOK, LastDecides, OrderOK, Analysing, Stale, Begun, InProgress

\* Steps of analyses touch nothing the drafters go by.
LEMMA DraftsFramed ==
    ASSUME DraftsFacts, UNCHANGED <<drafter, proposal, sweeping>>
    PROVE  DraftsFacts'
BY DEF DraftsFacts, SweepsOK, SweepDraftsAPageOnce, Ahead, SweptLive, HoldsLock

\* At first nothing is found and nobody drafts.
LEMMA FindInitEstablishes == FindInit => FindInv
<1> SUFFICES ASSUME FindInit PROVE FindInv
  OBVIOUS
<1>1. FindTypeOK
  BY DEF FindInit, FindTypeOK, CrawlRow, Analysis, AnalystState, OpportunityRow, DrafterState, ProposalRow,
         Resting, NoProposal, NoAnalysis
<1>2. InProgress = {} /\ Begun = {}
  BY DEF FindInit, InProgress, Begun, NoAnalysis
<1>3. AnalysesOK
  BY <1>2 DEF FindInit, AnalysesOK, Analysing, NoAnalysis
<1>4. SweepsOK /\ SweepDraftsAPageOnce
  BY DEF FindInit, SweepsOK, SweepDraftsAPageOnce, Resting, NoProposal, HoldsLock
<1>5. LastDecides
  BY DEF FindInit, LastDecides, Stale
<1>6. OrderOK
  BY <1>2 DEF FindInit, OrderOK
<1> QED BY <1>1, <1>3, <1>4, <1>5, <1>6 DEF FindInv

\* A crawl that completes was read by no analysis yet, and an ack tells none.
LEMMA CrawlEventStep ==
    ASSUME FindInv, NEW c \in Crawl, CrawlCompletes(c) \/ AckAnalysis(c)
    PROVE  FindTypeOK' /\ AnalysesFacts'
<1>1. /\ FindTypeOK /\ AnalysesOK /\ LastDecides /\ OrderOK
      /\ UNCHANGED <<analysis, analyst, row, drafter, proposal, sweeping>>
  BY DEF FindInv, CrawlCompletes, AckAnalysis
<1>2. PICK new \in CrawlRow : /\ crawl' = [crawl EXCEPT ![c] = new] /\ new.event # "none"
                              /\ c \in Begun => new.read = crawl[c].read
                              /\ c \notin new.older
  <2>1. CASE CrawlCompletes(c)
    <3>1. PICK read \in SUBSET SitePage, issues \in SUBSET Opportunity :
             crawl' = [crawl EXCEPT ![c] = [event |-> "new", read |-> read, issues |-> issues,
                                            older |-> {k \in Crawl : crawl[k].event # "none"}]]
      BY <2>1 DEF CrawlCompletes
    <3>2. c \notin Begun
      BY <1>1, <2>1 DEF CrawlCompletes, AnalysesOK
    <3> DEFINE before == {k \in Crawl : crawl[k].event # "none"}
               new == [event |-> "new", read |-> read, issues |-> issues, older |-> before]
    <3>3. before \in SUBSET Crawl /\ c \notin before
      BY <2>1 DEF CrawlCompletes
    <3>4. new \in CrawlRow /\ new.event = "new" /\ new.older = before
      BY <3>3 DEF CrawlRow
    <3> HIDE DEF before
    <3> QED BY <3>1, <3>2, <3>3, <3>4 DEF before
  <2>2. CASE AckAnalysis(c)
    <3> DEFINE new == [crawl[c] EXCEPT !.event = "acked"]
    <3>1. crawl' = [crawl EXCEPT ![c] = new] /\ crawl[c] \in CrawlRow
      BY <1>1, <2>2 DEF AckAnalysis, FindTypeOK
    <3>2. /\ new \in CrawlRow /\ new.event = "acked" /\ new.read = crawl[c].read
          /\ new.older = crawl[c].older
      BY <3>1 DEF CrawlRow
    <3> HIDE DEF new
    <3> QED BY <1>1, <3>1, <3>2 DEF OrderOK
  <2> QED BY <2>1, <2>2
<1>3. crawl' \in [Crawl -> CrawlRow] /\ \A k \in Crawl : crawl'[k] = IF k = c THEN new ELSE crawl[k]
  BY <1>1, <1>2 DEF FindTypeOK
<1>4. FindTypeOK'
  BY <1>1, <1>3 DEF FindTypeOK
<1>5. /\ Begun' = Begun /\ \A w \in Analyst, k \in Crawl : Analysing(w, k)' <=> Analysing(w, k)
      /\ \A w \in Analyst, k \in Crawl : Analysing(w, k) => k \in Begun
  BY <1>1 DEF Begun, InProgress, Analysing
<1>6. \A k \in Begun, o \in Opportunity : k \in Crawl /\ Stale(o, k)' => Stale(o, k)
  BY <1>1, <1>2, <1>3 DEF Stale
<1>7. \A k \in Begun : k \in Crawl
  BY <1>1 DEF Begun, InProgress, FindTypeOK, AnalystState
<1>8. AnalysesOK'
  <2>1. \A k \in Begun' : crawl'[k].event # "none"
    BY <1>1, <1>2, <1>3, <1>5, <1>7 DEF AnalysesOK
  <2> QED BY <1>1, <1>5, <1>6, <2>1 DEF AnalysesOK
<1>9. LastDecides'
  BY <1>1, <1>6 DEF LastDecides, Begun
<1>10. OrderOK'
  BY <1>1, <1>2, <1>3, <1>5 DEF OrderOK
<1> QED BY <1>4, <1>8, <1>9, <1>10 DEF AnalysesFacts

\* An analysis is created after all that have begun and beside those that have not
\* ended, and matches the open rows of its pages.
LEMMA AnalyseStep ==
    ASSUME FindInv, NEW w \in Analyst, NEW c \in Crawl, Analyse(w, c)
    PROVE  FindTypeOK' /\ AnalysesFacts'
<1>1. /\ FindTypeOK /\ AnalysesOK /\ LastDecides /\ OrderOK
      /\ analyst[w].crawl = Nobody /\ c \notin InProgress /\ ~analysis[c].done
      /\ UNCHANGED <<row, drafter, proposal, sweeping>>
  BY DEF FindInv, Analyse, NotYet
<1>2. c # Nobody /\ Nobody \notin Crawl
  BY OpportunityAssumption DEF OpportunityAssumption
<1>3. InProgress \subseteq Crawl /\ Begun \subseteq Crawl /\ c \notin Begun
  BY <1>1 DEF Begun, InProgress, FindTypeOK, AnalystState
<1> DEFINE crawled == [crawl[c] EXCEPT !.event = "pending"]
           taken == [crawl |-> c, matched |-> Superseded(c)]
<1>4. crawl' = [crawl EXCEPT ![c] = crawled] /\ analyst' = [analyst EXCEPT ![w] = taken]
  BY DEF Analyse
<1>5. /\ crawled \in CrawlRow /\ crawled.event = "pending" /\ crawled.read = crawl[c].read
      /\ crawled.older = crawl[c].older
  BY <1>1 DEF FindTypeOK, CrawlRow
<1>6. taken \in AnalystState /\ taken.crawl = c /\ taken.matched = Superseded(c)
  BY DEF AnalystState, Superseded
<1> HIDE DEF crawled, taken
<1>7. /\ crawl' \in [Crawl -> CrawlRow]
      /\ \A k \in Crawl : /\ crawl'[k].read = crawl[k].read /\ crawl'[k].older = crawl[k].older
                          /\ crawl'[k].event = IF k = c THEN "pending" ELSE crawl[k].event
      /\ analyst' \in [Analyst -> AnalystState]
      /\ \A v \in Analyst : analyst'[v] = IF v = w THEN taken ELSE analyst[v]
  BY <1>1, <1>4, <1>5, <1>6 DEF FindTypeOK
<1>8. /\ analysis' \in [Crawl -> Analysis]
      /\ \A k \in Crawl \ {c} : /\ analysis'[k].done = analysis[k].done
                                /\ analysis'[k].earlier = analysis[k].earlier
                                /\ analysis[k].beside \subseteq analysis'[k].beside
      /\ ~analysis'[c].done /\ analysis'[c].earlier = Begun /\ analysis'[c].beside = InProgress
  <2> DEFINE new == [done |-> FALSE, earlier |-> Begun, beside |-> InProgress]
             grown(k) == [analysis[k] EXCEPT !.beside = @ \cup {c}]
  <2>1. \A k \in Crawl : analysis'[k] = IF k = c THEN new
                                      ELSE IF k \in InProgress THEN grown(k) ELSE analysis[k]
    BY DEF Analyse
  <2>2. new \in Analysis /\ ~new.done /\ new.earlier = Begun /\ new.beside = InProgress
    BY <1>3 DEF Analysis
  <2>3. ASSUME NEW k \in Crawl
        PROVE  /\ analysis[k] \in Analysis /\ grown(k) \in Analysis
               /\ grown(k).done = analysis[k].done /\ grown(k).earlier = analysis[k].earlier
               /\ analysis[k].beside \subseteq grown(k).beside
    BY <1>1 DEF FindTypeOK, Analysis
  <2>4. analysis' = [k \in Crawl |-> analysis'[k]]
    BY DEF Analyse
  <2> HIDE DEF new, grown
  <2> QED BY <2>1, <2>2, <2>3, <2>4
<1>9. /\ Begun' = Begun \cup {c}
      /\ \A v \in Analyst, k \in Crawl : Analysing(v, k)' =>
            (v = w /\ k = c) \/ (v # w /\ k # c /\ Analysing(v, k))
      /\ \A v \in Analyst, k \in Crawl : Analysing(v, k) => k \in InProgress
  <2>1. \A v \in Analyst, k \in Crawl : Analysing(v, k) => k \in InProgress
    BY DEF Analysing, InProgress
  <2>2. InProgress' = InProgress \cup {c}
    BY <1>1, <1>2, <1>6, <1>7 DEF InProgress
  <2>3. {k \in Crawl : analysis'[k].done} = {k \in Crawl : analysis[k].done}
    BY <1>1, <1>8
  <2>4. \A v \in Analyst, k \in Crawl : Analysing(v, k)' => (v = w /\ k = c) \/ (v # w /\ Analysing(v, k))
    BY <1>6, <1>7 DEF Analysing
  <2> QED BY <1>1, <2>1, <2>2, <2>3, <2>4 DEF Begun
<1>10. FindTypeOK'
  BY <1>1, <1>7, <1>8 DEF FindTypeOK
<1>11. ASSUME NEW v \in Analyst, NEW k \in Crawl, Analysing(v, k)'
       PROVE  /\ ~analysis'[k].done
              /\ \A j \in Crawl : k \in analysis'[j].earlier => k \in analysis'[j].beside
              /\ \A u \in Analyst : Analysing(u, k)' => u = v
              /\ \A o \in Opportunity : Stale(o, k)' => o \in analyst'[v].matched
  <2>1. CASE v = w /\ k = c
    <3>1. \A j \in Crawl : c \notin analysis'[j].earlier
      BY <1>1, <1>3, <1>8 DEF AnalysesOK
    <3>2. \A o \in Opportunity : Stale(o, c)' => o \in Superseded(c)
      BY <1>1, <1>7 DEF Stale, Superseded
    <3> QED BY <1>6, <1>7, <1>8, <1>9, <2>1, <3>1, <3>2
  <2>2. CASE v # w /\ k # c /\ Analysing(v, k)
    <3>1. \A j \in Crawl : k \in analysis'[j].earlier => k \in analysis'[j].beside
      BY <1>1, <1>8, <1>9, <2>2 DEF AnalysesOK
    <3>2. \A o \in Opportunity : Stale(o, k)' => Stale(o, k)
      BY <1>1, <1>7, <1>8, <2>2 DEF Stale
    <3> QED BY <1>1, <1>7, <1>8, <1>9, <2>2, <3>1, <3>2 DEF AnalysesOK
  <2> QED BY <1>9, <1>11, <2>1, <2>2
<1>12. AnalysesOK'
  <2>1. \A k \in Crawl : analysis'[k].earlier \subseteq Begun'
    BY <1>1, <1>8, <1>9 DEF AnalysesOK
  <2>2. \A k \in Begun' : crawl'[k].event # "none"
    BY <1>1, <1>3, <1>7, <1>9 DEF AnalysesOK
  <2> QED BY <1>11, <2>1, <2>2 DEF AnalysesOK
<1>13. LastDecides'
  BY <1>1, <1>7, <1>8 DEF LastDecides, Stale
<1>14. OrderOK'
  <2>1. \A o \in Opportunity : row'[o].evidence # Nobody => analysis'[row'[o].evidence].done
    BY <1>1, <1>8 DEF OrderOK, FindTypeOK, OpportunityRow
  <2>2. ASSUME NEW j \in Begun', NEW k \in Begun', j # k
        PROVE  j \in analysis'[k].earlier \/ k \in analysis'[j].earlier
    BY <1>1, <1>3, <1>8, <1>9, <2>2 DEF OrderOK
  <2> QED BY <1>1, <1>7, <2>1, <2>2 DEF OrderOK
<1> QED BY <1>10, <1>12, <1>13, <1>14 DEF AnalysesFacts

\* What is committed was found by this crawl or matched when it began.
LEMMA CommitStep ==
    ASSUME FindInv, NEW w \in Analyst, CommitAnalysis(w)
    PROVE  FindTypeOK' /\ AnalysesFacts'
<1>1. /\ FindTypeOK /\ AnalysesOK /\ LastDecides /\ OrderOK
      /\ UNCHANGED <<crawl, drafter, proposal, sweeping>>
  BY DEF FindInv, CommitAnalysis
<1>2. PICK c \in Crawl : c = analyst[w].crawl /\ c # Nobody
  BY <1>1 DEF CommitAnalysis, FindTypeOK, AnalystState
<1> DEFINE idle == [crawl |-> Nobody, matched |-> {}]
           ended == [analysis[c] EXCEPT !.done = TRUE]
<1>3. analyst' = [analyst EXCEPT ![w] = idle] /\ analysis' = [analysis EXCEPT ![c] = ended]
  BY <1>2 DEF CommitAnalysis
<1>4. idle \in AnalystState /\ idle.crawl = Nobody
  BY DEF AnalystState
<1>5. /\ ended \in Analysis /\ ended.done
      /\ ended.earlier = analysis[c].earlier /\ ended.beside = analysis[c].beside
  <2>1. analysis[c] \in Analysis
    BY <1>1 DEF FindTypeOK
  <2> QED BY <2>1 DEF Analysis
<1> HIDE DEF idle, ended
<1>6. /\ analyst' \in [Analyst -> AnalystState]
      /\ \A v \in Analyst : analyst'[v] = IF v = w THEN idle ELSE analyst[v]
      /\ analysis' \in [Crawl -> Analysis]
      /\ \A k \in Crawl : /\ analysis'[k].earlier = analysis[k].earlier
                          /\ analysis'[k].beside = analysis[k].beside
                          /\ analysis'[k].done = (k = c \/ analysis[k].done)
  BY <1>1, <1>3, <1>4, <1>5 DEF FindTypeOK, Analysis
<1>7. /\ row' \in [Opportunity -> OpportunityRow]
      /\ \A o \in Opportunity :
            \/ row'[o].evidence = c
            \/ row'[o].status = "expired"
            \/ row'[o] = row[o] /\ (o \notin analyst[w].matched \/ row[o].status # "open")
      /\ \A o \in Opportunity : row'[o].evidence \in {c, row[o].evidence}
  <2> DEFINE found(o) == [row[o] EXCEPT !.status = "open", !.evidence = c, !.returned = FALSE]
             closed(o) == [row[o] EXCEPT !.status = "expired"]
  <2>1. \A o \in Opportunity :
           row'[o] = IF o \in crawl[c].issues THEN found(o)
                     ELSE IF o \in analyst[w].matched /\ row[o].status = "open" THEN closed(o) ELSE row[o]
    BY <1>2 DEF CommitAnalysis, Reopened
  <2>2. ASSUME NEW o \in Opportunity
        PROVE  /\ row[o] \in OpportunityRow /\ found(o) \in OpportunityRow /\ closed(o) \in OpportunityRow
               /\ found(o).evidence = c /\ closed(o).status = "expired"
               /\ closed(o).evidence = row[o].evidence
    BY <1>1 DEF FindTypeOK, OpportunityRow
  <2>3. row' = [o \in Opportunity |-> row'[o]]
    BY DEF CommitAnalysis
  <2> HIDE DEF found, closed
  <2>4. \A o \in Opportunity : row'[o] \in OpportunityRow
    BY <2>1, <2>2
  <2>5. row' \in [Opportunity -> OpportunityRow]
    BY <2>3, <2>4
  <2> QED BY <2>1, <2>2, <2>5
<1>8. FindTypeOK'
  BY <1>1, <1>6, <1>7 DEF FindTypeOK
<1>9. /\ Analysing(w, c) /\ Begun' = Begun
      /\ \A v \in Analyst, k \in Crawl : Analysing(v, k)' => v # w /\ k # c /\ Analysing(v, k)
  <2>1. Analysing(w, c)
    BY <1>2 DEF Analysing
  <2>2. \A v \in Analyst : Analysing(v, c) => v = w
    BY <1>1, <2>1 DEF AnalysesOK
  <2>3. \A v \in Analyst, k \in Crawl : Analysing(v, k)' => v # w /\ Analysing(v, k)
    BY <1>4, <1>6 DEF Analysing
  <2>4. InProgress \subseteq InProgress' \cup {c} /\ InProgress' \subseteq InProgress /\ c \in InProgress
    BY <1>2, <1>4, <1>6 DEF InProgress
  <2>5. {k \in Crawl : analysis'[k].done} = {k \in Crawl : analysis[k].done} \cup {c}
    BY <1>6
  <2> QED BY <2>1, <2>2, <2>3, <2>4, <2>5 DEF Begun
<1>10. \A k \in Crawl : c \in analysis[k].earlier => c \in analysis[k].beside
  BY <1>1, <1>9 DEF AnalysesOK
<1>11. \A k \in Crawl, o \in Opportunity :
          Stale(o, k)' => Stale(o, k) /\ (o \notin analyst[w].matched \/ row[o].status # "open")
  BY <1>1, <1>6, <1>7, <1>10 DEF Stale
<1>12. AnalysesOK'
  <2>1. ASSUME NEW v \in Analyst, NEW k \in Crawl, Analysing(v, k)'
        PROVE  /\ ~analysis'[k].done
               /\ \A j \in Crawl : k \in analysis'[j].earlier => k \in analysis'[j].beside
               /\ \A u \in Analyst : Analysing(u, k)' => u = v
               /\ \A o \in Opportunity : Stale(o, k)' => o \in analyst'[v].matched
    BY <1>1, <1>6, <1>9, <1>11, <2>1 DEF AnalysesOK
  <2>2. \A k \in Crawl : analysis'[k].earlier \subseteq Begun'
    BY <1>1, <1>6, <1>9 DEF AnalysesOK
  <2>3. \A k \in Begun' : crawl'[k].event # "none"
    BY <1>1, <1>9 DEF AnalysesOK
  <2> QED BY <2>1, <2>2, <2>3 DEF AnalysesOK
<1>13. ASSUME NEW k \in Crawl, NEW o \in Opportunity, analysis'[k].done PROVE ~Stale(o, k)'
  <2>1. CASE k = c
    <3>1. \A p \in Opportunity : Stale(p, c) => p \in analyst[w].matched /\ row[p].status = "open"
      BY <1>1, <1>9 DEF AnalysesOK, Stale
    <3> QED BY <1>11, <2>1, <3>1
  <2>2. CASE analysis[k].done
    <3>1. ~Stale(o, k)
      BY <1>1, <2>2 DEF LastDecides, Stale
    <3> QED BY <1>11, <3>1
  <2> QED BY <1>6, <1>13, <2>1, <2>2
<1>14. LastDecides'
  BY <1>13 DEF LastDecides
<1>15. OrderOK'
  <2>1. ASSUME NEW o \in Opportunity, row'[o].evidence # Nobody
        PROVE  analysis'[row'[o].evidence].done
    <3>1. PICK e \in Crawl : e = row'[o].evidence /\ (e = c \/ analysis[e].done)
      <4>1. row[o].evidence \in Crawl \cup {Nobody}
        BY <1>1 DEF FindTypeOK, OpportunityRow
      <4> QED BY <1>1, <1>7, <2>1, <4>1 DEF OrderOK
    <3> QED BY <1>6, <3>1
  <2>2. Begun \subseteq Crawl
    BY <1>1 DEF Begun, InProgress, FindTypeOK, AnalystState
  <2>3. \A j, k \in Begun' : j # k => j \in analysis'[k].earlier \/ k \in analysis'[j].earlier
    BY <1>1, <1>6, <1>9, <2>2 DEF OrderOK
  <2> QED BY <1>1, <2>1, <2>3 DEF OrderOK
<1> QED BY <1>8, <1>12, <1>14, <1>15 DEF AnalysesFacts

\* An analysis that failed is as if it had never begun.
LEMMA FailStep ==
    ASSUME FindInv, NEW w \in Analyst, AnalysisFails(w)
    PROVE  FindTypeOK' /\ AnalysesFacts'
<1>1. /\ FindTypeOK /\ AnalysesOK /\ LastDecides /\ OrderOK
      /\ UNCHANGED <<crawl, row, drafter, proposal, sweeping>>
  BY DEF FindInv, AnalysisFails
<1>2. PICK c \in Crawl : c = analyst[w].crawl /\ c # Nobody
  BY <1>1 DEF AnalysisFails, FindTypeOK, AnalystState
<1> DEFINE idle == [crawl |-> Nobody, matched |-> {}]
<1>3. analyst' = [analyst EXCEPT ![w] = idle] /\ idle \in AnalystState /\ idle.crawl = Nobody
  BY DEF AnalysisFails, AnalystState
<1> HIDE DEF idle
<1>4. /\ analyst' \in [Analyst -> AnalystState]
      /\ \A v \in Analyst : analyst'[v] = IF v = w THEN idle ELSE analyst[v]
  BY <1>1, <1>3 DEF FindTypeOK
<1>5. /\ analysis' \in [Crawl -> Analysis]
      /\ \A k \in Crawl \ {c} : /\ analysis'[k].earlier = analysis[k].earlier \ {c}
                                /\ analysis'[k].beside = analysis[k].beside \ {c}
                                /\ analysis'[k].done = analysis[k].done
      /\ ~analysis'[c].done /\ analysis'[c].earlier = {}
  <2> DEFINE without(k) == [analysis[k] EXCEPT !.earlier = @ \ {c}, !.beside = @ \ {c}]
  <2>1. \A k \in Crawl : analysis'[k] = IF k = c THEN NoAnalysis ELSE without(k)
    BY <1>2 DEF AnalysisFails
  <2>2. NoAnalysis \in Analysis /\ ~NoAnalysis.done /\ NoAnalysis.earlier = {}
    BY DEF NoAnalysis, Analysis
  <2>3. ASSUME NEW k \in Crawl
        PROVE  /\ without(k) \in Analysis /\ without(k).done = analysis[k].done
               /\ without(k).earlier = analysis[k].earlier \ {c}
               /\ without(k).beside = analysis[k].beside \ {c}
    <3>1. analysis[k] \in Analysis
      BY <1>1 DEF FindTypeOK
    <3>2. /\ analysis[k].earlier \ {c} \in SUBSET Crawl /\ analysis[k].beside \ {c} \in SUBSET Crawl
          /\ analysis[k].done \in BOOLEAN
      BY <3>1 DEF Analysis
    <3> QED BY <3>1, <3>2 DEF Analysis
  <2>4. analysis' = [k \in Crawl |-> analysis'[k]]
    BY DEF AnalysisFails
  <2> HIDE DEF without
  <2> QED BY <2>1, <2>2, <2>3, <2>4
<1>6. FindTypeOK'
  BY <1>1, <1>4, <1>5 DEF FindTypeOK
<1>7. /\ Begun \ {c} \subseteq Begun' /\ Begun' \subseteq Begun
      /\ \A v \in Analyst, k \in Crawl : Analysing(v, k)' => v # w /\ k # c /\ Analysing(v, k)
  <2>1. Analysing(w, c)
    BY <1>2 DEF Analysing
  <2>2. \A v \in Analyst : Analysing(v, c) => v = w
    BY <1>1, <2>1 DEF AnalysesOK
  <2>3. \A v \in Analyst, k \in Crawl : Analysing(v, k)' => v # w /\ Analysing(v, k)
    BY <1>3, <1>4 DEF Analysing
  <2>4. InProgress \ {c} \subseteq InProgress' /\ InProgress' \subseteq InProgress
    BY <1>2, <1>3, <1>4 DEF InProgress
  <2>5. \A k \in Crawl : analysis'[k].done <=> k # c /\ analysis[k].done
    BY <1>5
  <2> QED BY <2>1, <2>2, <2>3, <2>4, <2>5 DEF Begun
<1>8. \A k \in Crawl \ {c}, o \in Opportunity : Stale(o, k)' => Stale(o, k)
  BY <1>1, <1>5 DEF Stale
<1>9. AnalysesOK'
  <2>1. ASSUME NEW v \in Analyst, NEW k \in Crawl, Analysing(v, k)'
        PROVE  /\ ~analysis'[k].done
               /\ \A j \in Crawl : k \in analysis'[j].earlier => k \in analysis'[j].beside
               /\ \A u \in Analyst : Analysing(u, k)' => u = v
               /\ \A o \in Opportunity : Stale(o, k)' => o \in analyst'[v].matched
    BY <1>1, <1>4, <1>5, <1>7, <1>8, <2>1 DEF AnalysesOK
  <2>2. \A k \in Crawl : analysis'[k].earlier \subseteq Begun'
    BY <1>1, <1>5, <1>7 DEF AnalysesOK
  <2>3. \A k \in Begun' : crawl'[k].event # "none"
    BY <1>1, <1>7 DEF AnalysesOK
  <2> QED BY <2>1, <2>2, <2>3 DEF AnalysesOK
<1>10. LastDecides'
  BY <1>1, <1>5, <1>8 DEF LastDecides
<1>11. OrderOK'
  <2>1. ~analysis[c].done
    BY <1>1, <1>2 DEF AnalysesOK, Analysing
  <2>2. \A o \in Opportunity : row'[o].evidence # Nobody => analysis'[row'[o].evidence].done
    BY <1>1, <1>5, <2>1 DEF OrderOK, FindTypeOK, OpportunityRow
  <2>3. c \notin Begun'
    BY <1>2, <1>5, <1>7 DEF Begun, InProgress, Analysing
  <2>4. Begun \subseteq Crawl
    BY <1>1 DEF Begun, InProgress, FindTypeOK, AnalystState
  <2>5. ASSUME NEW j \in Begun', NEW k \in Begun', j # k
        PROVE  j \in analysis'[k].earlier \/ k \in analysis'[j].earlier
    BY <1>1, <1>5, <1>7, <2>3, <2>4, <2>5 DEF OrderOK
  <2> QED BY <1>1, <2>2, <2>5 DEF OrderOK
<1> QED BY <1>6, <1>9, <1>10, <1>11 DEF AnalysesFacts

\* A judgement closes an opportunity, or says that a person put it back.
LEMMA JudgeStep ==
    ASSUME FindInv, NEW o \in Opportunity, Suppress(o) \/ Unsuppress(o)
    PROVE  FindTypeOK' /\ AnalysesFacts'
<1>1. /\ FindTypeOK /\ AnalysesOK /\ LastDecides /\ OrderOK
      /\ UNCHANGED <<crawl, analysis, analyst, drafter, proposal, sweeping>>
  BY DEF FindInv, Suppress, Unsuppress
<1>2. PICK new \in OpportunityRow : /\ row' = [row EXCEPT ![o] = new]
                                    /\ new.status # "open" \/ new.returned
                                    /\ new.evidence = row[o].evidence
  <2>0. row[o] \in OpportunityRow
    BY <1>1 DEF FindTypeOK
  <2>1. CASE Suppress(o)
    <3> DEFINE new == [row[o] EXCEPT !.status = "suppressed", !.reason = TRUE]
    <3>1. row' = [row EXCEPT ![o] = new]
      BY <2>1 DEF Suppress
    <3>2. new \in OpportunityRow /\ new.status = "suppressed" /\ new.evidence = row[o].evidence
      BY <2>0 DEF OpportunityRow
    <3> HIDE DEF new
    <3> QED BY <3>1, <3>2
  <2>2. CASE Unsuppress(o)
    <3> DEFINE new == [row[o] EXCEPT !.status = "open", !.reason = FALSE, !.returned = TRUE]
    <3>1. row' = [row EXCEPT ![o] = new]
      BY <2>2 DEF Unsuppress
    <3>2. new \in OpportunityRow /\ new.returned /\ new.evidence = row[o].evidence
      BY <2>0 DEF OpportunityRow
    <3> HIDE DEF new
    <3> QED BY <3>1, <3>2
  <2> QED BY <2>1, <2>2
<1>3. row' \in [Opportunity -> OpportunityRow] /\ \A p \in Opportunity : row'[p] = IF p = o THEN new ELSE row[p]
  BY <1>1, <1>2 DEF FindTypeOK
<1>4. FindTypeOK'
  BY <1>1, <1>3 DEF FindTypeOK
<1>5. \A k \in Crawl, p \in Opportunity : Stale(p, k)' => Stale(p, k)
  BY <1>1, <1>2, <1>3 DEF Stale
<1>6. /\ Begun' = Begun /\ \A w \in Analyst, k \in Crawl : Analysing(w, k)' <=> Analysing(w, k)
  BY <1>1 DEF Begun, InProgress, Analysing
<1>7. AnalysesOK'
  BY <1>1, <1>5, <1>6 DEF AnalysesOK
<1>8. LastDecides'
  BY <1>1, <1>5 DEF LastDecides
<1>9. OrderOK'
  BY <1>1, <1>2, <1>3, <1>6 DEF OrderOK
<1> QED BY <1>4, <1>7, <1>8, <1>9 DEF AnalysesFacts

-----------------------------------------------------------------------------
(* Drafts.                                                                 *)

\* Steps after which no sweep that holds the lock has more before it, and whatever is
\* live on a page now and was not is alone there.
LEMMA SweepsNoMore ==
    ASSUME FindInv,
           \A d \in Drafter : HoldsLock(d)' =>
              HoldsLock(d) /\ Ahead(d)' \subseteq Ahead(d) /\ drafter'[d].at \notin drafter'[d].todo,
           \A i \in ProposalId : SweptLive(i)' =>
              \/ SweptLive(i) /\ proposal'[i].of = proposal[i].of
              \/ /\ \A j \in ProposalId \ {i} : SweptLive(j)' =>
                       PageOf[proposal'[j].of] # PageOf[proposal'[i].of]
                 /\ \A d \in Drafter : HoldsLock(d)' =>
                       \A o \in Ahead(d)' : PageOf[proposal'[i].of] # PageOf[o],
           \A i \in ProposalId : proposal'[i].tx # Nobody => proposal'[i].by # "sweep"
    PROVE  DraftsFacts'
<1>1. SweepsOK /\ SweepDraftsAPageOnce
  BY DEF FindInv
<1>2. SweepsOK'
  <2>1. ASSUME NEW d \in Drafter, HoldsLock(d)'
        PROVE  /\ \A o, p \in Ahead(d)' : PageOf[o] = PageOf[p] => o = p
               /\ drafter'[d].at \notin drafter'[d].todo
               /\ \A o \in Ahead(d)', i \in ProposalId :
                     SweptLive(i)' => PageOf[proposal'[i].of] # PageOf[o]
    BY <1>1, <2>1 DEF SweepsOK
  <2> QED BY <2>1 DEF SweepsOK
<1>3. SweepDraftsAPageOnce'
  <2> SUFFICES ASSUME NEW i \in ProposalId, NEW j \in ProposalId, i # j, SweptLive(i)', SweptLive(j)'
               PROVE  PageOf[proposal'[i].of] # PageOf[proposal'[j].of]
    BY DEF SweepDraftsAPageOnce, SweptLive
  <2>1. CASE /\ SweptLive(i) /\ proposal'[i].of = proposal[i].of
             /\ SweptLive(j) /\ proposal'[j].of = proposal[j].of
    BY <1>1, <2>1 DEF SweepDraftsAPageOnce, SweptLive
  <2> QED BY <2>1
<1> QED BY <1>2, <1>3 DEF DraftsFacts

\* A proposal that is live after the step as it was before.
LEMMA StaysLive ==
    ASSUME NEW i \in ProposalId, proposal'[i] = proposal[i]
    PROVE  SweptLive(i)' = SweptLive(i) /\ proposal'[i].of = proposal[i].of
BY DEF SweptLive

\* What is taken on a page, in the words of the invariant.
LEMMA NotTaken ==
    ASSUME FindTypeOK, NEW page, NEW but, ~Taken(page, but)
    PROVE  /\ \A i \in ProposalId : SweptLive(i) => PageOf[proposal[i].of] # page
           /\ \A d \in Drafter \ {but} : HoldsLock(d) => \A o \in Ahead(d) : PageOf[o] # page
BY DEF Taken, LiveOn, SweptLive, HoldsLock, Ahead

\* One drafter goes on, and the proposals are what they were.
LEMMA DrafterMoves ==
    ASSUME FindInv, NEW d \in Drafter, NEW new \in DrafterState, drafter' = [drafter EXCEPT ![d] = new],
           new.as = "sweep" =>
              /\ drafter[d].as = "sweep" /\ new.at \notin new.todo
              /\ new.todo \cup ({new.at} \ {Nobody}) \subseteq Ahead(d),
           UNCHANGED <<crawl, analysis, analyst, row, proposal, sweeping>>
    PROVE  FindTypeOK' /\ DraftsFacts'
<1>1. FindTypeOK /\ SweepsOK
  BY DEF FindInv
<1>2. /\ drafter' \in [Drafter -> DrafterState]
      /\ \A e \in Drafter : drafter'[e] = IF e = d THEN new ELSE drafter[e]
  BY <1>1 DEF FindTypeOK
<1>3. FindTypeOK'
  BY <1>1, <1>2 DEF FindTypeOK
<1>4. ASSUME NEW e \in Drafter, HoldsLock(e)'
      PROVE  HoldsLock(e) /\ Ahead(e)' \subseteq Ahead(e) /\ drafter'[e].at \notin drafter'[e].todo
  BY <1>1, <1>2, <1>4 DEF Ahead, SweepsOK, HoldsLock
<1>5. \A i \in ProposalId : /\ SweptLive(i)' => SweptLive(i) /\ proposal'[i].of = proposal[i].of
                            /\ proposal'[i].tx # Nobody => proposal'[i].by # "sweep"
  BY <1>1 DEF SweptLive, SweepsOK
<1> QED BY <1>3, <1>4, <1>5, SweepsNoMore

\* Somebody asks for drafts, and what is before a drafter is checked or refused.
LEMMA DraftingStep ==
    ASSUME FindInv, NEW d \in Drafter, Ask(d) \/ Refuse(d) \/ \E o \in Opportunity : Check(d, o)
    PROVE  FindTypeOK' /\ DraftsFacts'
<1>1. /\ FindTypeOK /\ drafter[d] \in DrafterState
      /\ UNCHANGED <<crawl, analysis, analyst, row, proposal, sweeping>>
  BY DEF FindInv, FindTypeOK, Ask, Refuse, Check
<1>2. CASE Ask(d)
  <2>1. PICK as \in {"person", "agent"}, chosen \in SUBSET Opportunity :
           drafter' = [drafter EXCEPT ![d] = [Resting EXCEPT !.as = as, !.todo = chosen]]
    BY <1>2 DEF Ask, Current
  <2> DEFINE new == [Resting EXCEPT !.as = as, !.todo = chosen]
  <2>2. new \in DrafterState /\ new.as = as
    BY DEF Resting, DrafterState
  <2> HIDE DEF new
  <2>3. drafter' = [drafter EXCEPT ![d] = new]
    BY <2>1 DEF new
  <2> QED BY <1>1, <2>2, <2>3, DrafterMoves
<1>3. CASE Refuse(d)
  <2> DEFINE new == [drafter[d] EXCEPT !.at = Nobody, !.judged = FALSE]
  <2>1. drafter' = [drafter EXCEPT ![d] = new]
    BY <1>3 DEF Refuse
  <2>2. new \in DrafterState /\ new.as = drafter[d].as /\ new.at = Nobody /\ new.todo = drafter[d].todo
    BY <1>1 DEF DrafterState
  <2>3. Nobody \notin drafter[d].todo
    BY <1>1, OpportunityAssumption DEF DrafterState, OpportunityAssumption
  <2> HIDE DEF new
  <2> QED BY <1>1, <2>1, <2>2, <2>3, DrafterMoves DEF Ahead
<1>4. ASSUME NEW o \in Opportunity, Check(d, o) PROVE FindTypeOK' /\ DraftsFacts'
  <2> DEFINE before == IF Answerable(d, o) THEN o ELSE Nobody
             judged == Answerable(d, o) /\ row[o].reason
             chosen == drafter[d].todo \ {o}
             new == [drafter[d] EXCEPT !.todo = chosen, !.at = before, !.judged = judged]
  <2>1. drafter' = [drafter EXCEPT ![d] = new]
    BY <1>4 DEF Check
  <2>2. judged \in BOOLEAN
    BY <1>1 DEF FindTypeOK, OpportunityRow
  <2>3. before \in {o, Nobody} /\ o \in drafter[d].todo /\ Nobody \notin chosen
    BY <1>1, <1>4, OpportunityAssumption DEF Check, DrafterState, OpportunityAssumption
  <2>4. chosen \in SUBSET Opportunity
    BY <1>1 DEF DrafterState
  <2> HIDE DEF before, judged
  <2>5. new \in DrafterState /\ new.as = drafter[d].as /\ new.at = before /\ new.todo = chosen
    BY <1>1, <2>2, <2>3, <2>4 DEF DrafterState
  <2> HIDE DEF new
  <2>6. new.at \notin new.todo /\ new.todo \cup ({new.at} \ {Nobody}) \subseteq Ahead(d)
    BY <2>3, <2>5 DEF Ahead
  <2> QED BY <1>1, <2>1, <2>5, <2>6, DrafterMoves
<1> QED BY <1>2, <1>3, <1>4

\* The lock is free: nobody sweeps, and the pages taken have no live proposal.
LEMMA SweepStep ==
    ASSUME FindInv, NEW d \in Drafter, Sweep(d)
    PROVE  FindTypeOK' /\ DraftsFacts'
<1>1. /\ FindTypeOK /\ SweepsOK /\ SweepDraftsAPageOnce /\ sweeping = Nobody /\ sweeping' = d
      /\ UNCHANGED <<crawl, analysis, analyst, row, proposal>>
  BY DEF FindInv, Sweep, LockIsFree
<1>2. PICK chosen \in SUBSET Draftable :
         OnePerPage(chosen) /\ drafter' = [drafter EXCEPT ![d] = [Resting EXCEPT !.as = "sweep", !.todo = chosen]]
  BY DEF Sweep
<1> DEFINE new == [Resting EXCEPT !.as = "sweep", !.todo = chosen]
<1>3. new \in DrafterState /\ new.as = "sweep" /\ new.todo = chosen /\ new.at = Nobody
  <2>1. chosen \in SUBSET Opportunity
    BY DEF Draftable
  <2> QED BY <2>1 DEF Resting, DrafterState
<1> HIDE DEF new
<1>4. /\ drafter' \in [Drafter -> DrafterState]
      /\ \A e \in Drafter : drafter'[e] = IF e = d THEN new ELSE drafter[e]
  BY <1>1, <1>2, <1>3 DEF FindTypeOK, new
<1>5. FindTypeOK'
  BY <1>1, <1>4 DEF FindTypeOK
<1>7. Ahead(d)' = chosen /\ Nobody \notin chosen /\ chosen \subseteq Opportunity
  BY <1>3, <1>4, OpportunityAssumption DEF Ahead, Draftable, OpportunityAssumption
<1>8. \A o \in chosen, i \in ProposalId : SweptLive(i) => PageOf[proposal[i].of] # PageOf[o]
  BY DEF Draftable, LiveOn, SweptLive
<1>9. SweepsOK'
  <2>1. ASSUME NEW e \in Drafter, HoldsLock(e)' PROVE e = d
    BY <1>1, <2>1 DEF HoldsLock
  <2>2. \A i \in ProposalId : SweptLive(i)' = SweptLive(i) /\ proposal'[i] = proposal[i]
    BY <1>1 DEF SweptLive
  <2>3. \A o, p \in chosen : PageOf[o] = PageOf[p] => o = p
    BY <1>2 DEF OnePerPage
  <2> QED BY <1>1, <1>3, <1>4, <1>7, <1>8, <2>1, <2>2, <2>3 DEF SweepsOK
<1>10. SweepDraftsAPageOnce'
  BY <1>1 DEF SweepDraftsAPageOnce
<1> QED BY <1>5, <1>9, <1>10 DEF DraftsFacts

\* The proposals change, one of them or those of a transaction, and nobody sweeps more.
LEMMA ProposalsMove ==
    ASSUME FindInv, NEW d \in Drafter,
           Commit(d) \/ Rest(d)
    PROVE  FindTypeOK' /\ DraftsFacts'
<1>1. /\ FindTypeOK /\ SweepsOK
      /\ drafter' = [drafter EXCEPT ![d] = Resting]
      /\ UNCHANGED <<crawl, analysis, analyst, row>>
  BY DEF FindInv, Commit, Rest
<1>2. Resting \in DrafterState /\ Resting.as = "nobody" /\ d # Nobody
  BY OpportunityAssumption DEF Resting, DrafterState, OpportunityAssumption
<1>3. /\ drafter' \in [Drafter -> DrafterState]
      /\ \A e \in Drafter : drafter'[e] = IF e = d THEN Resting ELSE drafter[e]
  BY <1>1, <1>2 DEF FindTypeOK
<1>4. /\ proposal' \in [ProposalId -> ProposalRow]
      /\ \A i \in ProposalId :
            \/ proposal'[i] = proposal[i]
            \/ proposal'[i].tx = Nobody /\ proposal'[i].by # "sweep"
  <2> DEFINE live(i) == [proposal[i] EXCEPT !.status = "live", !.tx = Nobody]
  <2>1. /\ \A i \in ProposalId : proposal'[i] = proposal[i]
                                 \/ (proposal[i].tx = d /\ proposal'[i] \in {live(i), NoProposal})
        /\ proposal' = [i \in ProposalId |-> proposal'[i]]
    BY DEF Commit, Rest
  <2>2. ASSUME NEW i \in ProposalId
        PROVE  /\ proposal[i] \in ProposalRow /\ live(i) \in ProposalRow
               /\ live(i).tx = Nobody /\ live(i).by = proposal[i].by
    <3>1. proposal[i] \in ProposalRow
      BY <1>1 DEF FindTypeOK
    <3> QED BY <3>1 DEF ProposalRow
  <2>3. NoProposal \in ProposalRow /\ NoProposal.tx = Nobody /\ NoProposal.by = "nobody"
    BY DEF NoProposal, ProposalRow
  <2>4. \A i \in ProposalId : proposal[i].tx = d => proposal[i].by # "sweep"
    BY <1>1, <1>2 DEF SweepsOK
  <2> HIDE DEF live
  <2> QED BY <2>1, <2>2, <2>3, <2>4
<1>5. sweeping' \in Drafter \cup {Nobody} /\ sweeping' \in {sweeping, Nobody}
  BY <1>1 DEF Commit, Rest, FindTypeOK
<1>6. FindTypeOK'
  BY <1>1, <1>3, <1>4, <1>5 DEF FindTypeOK
<1>7. ASSUME NEW e \in Drafter, HoldsLock(e)'
      PROVE  HoldsLock(e) /\ Ahead(e)' \subseteq Ahead(e) /\ drafter'[e].at \notin drafter'[e].todo
  <2>1. e # Nobody /\ drafter'[e].as = "sweep" /\ sweeping' = e
    BY <1>7, OpportunityAssumption DEF HoldsLock, OpportunityAssumption
  <2>2. drafter'[e] = drafter[e] /\ HoldsLock(e)
    BY <1>2, <1>3, <1>5, <2>1 DEF HoldsLock
  <2> QED BY <1>1, <2>2 DEF Ahead, SweepsOK
<1>8. \A i \in ProposalId : /\ SweptLive(i)' => SweptLive(i) /\ proposal'[i].of = proposal[i].of
                            /\ proposal'[i].tx # Nobody => proposal'[i].by # "sweep"
  BY <1>1, <1>4 DEF SweptLive, SweepsOK
<1> QED BY <1>6, <1>7, <1>8, SweepsNoMore

\* The lock of a sweep drops: nobody holds it.
LEMMA LockStep ==
    ASSUME FindInv, NEW d \in Drafter, LoseLock(d)
    PROVE  FindTypeOK' /\ DraftsFacts'
<1>1. /\ FindTypeOK /\ SweepsOK /\ SweepDraftsAPageOnce /\ sweeping' = Nobody
      /\ UNCHANGED <<crawl, analysis, analyst, row, drafter, proposal>>
  BY DEF FindInv, LoseLock
<1>2. \A e \in Drafter : ~HoldsLock(e)'
  BY <1>1, OpportunityAssumption DEF HoldsLock, OpportunityAssumption
<1>3. SweepsOK'
  BY <1>1, <1>2 DEF SweepsOK
<1>4. FindTypeOK' /\ SweepDraftsAPageOnce'
  BY <1>1 DEF FindTypeOK, SweepDraftsAPageOnce
<1> QED BY <1>3, <1>4 DEF DraftsFacts

\* A person's proposal, one that is loaded, the end of one and its return.
LEMMA ByHandStep ==
    ASSUME FindInv,
           \/ \E o \in Opportunity : WriteByHand(o)
           \/ \E i \in ProposalId : LoadLive(i) \/ Finish(i) \/ Revive(i)
    PROVE  FindTypeOK' /\ DraftsFacts'
<1>1. FindTypeOK /\ SweepsOK /\ UNCHANGED <<crawl, analysis, analyst, row, drafter, sweeping>>
  BY DEF FindInv, WriteByHand, LoadLive, Finish, Revive
<1>2. PICK i \in ProposalId, new \in ProposalRow :
         /\ proposal' = [proposal EXCEPT ![i] = new]
         /\ new.tx # Nobody => new.by # "sweep"
         /\ \/ new.status # "live" \/ new.by # "sweep" \/ new.beside
            \/ SweptLive(i) /\ new.of = proposal[i].of
            \/ ~Taken(PageOf[new.of], Nobody)
  <2>1. ASSUME NEW o \in Opportunity, NEW i \in ProposalId,
               proposal' = [proposal EXCEPT ![i] =
                               [NoProposal EXCEPT !.status = "live", !.of = o, !.by = "person"]]
        PROVE  \E new \in ProposalRow : /\ proposal' = [proposal EXCEPT ![i] = new]
                                        /\ new.by = "person"
    <3> DEFINE new == [NoProposal EXCEPT !.status = "live", !.of = o, !.by = "person"]
    <3>1. new \in ProposalRow /\ new.by = "person"
      BY DEF NoProposal, ProposalRow
    <3>2. proposal' = [proposal EXCEPT ![i] = new]
      BY <2>1
    <3> HIDE DEF new
    <3> QED BY <3>1, <3>2
  <2>2. ASSUME NEW i \in ProposalId, Finish(i)
        PROVE  \E new \in ProposalRow : /\ proposal' = [proposal EXCEPT ![i] = new]
                                        /\ new.status # "live"
                                        /\ new.tx # Nobody => new.by # "sweep"
    <3>0. PICK over \in {"rejected", "failed"} : proposal' = [proposal EXCEPT ![i].status = over]
      BY <2>2 DEF Finish
    <3> DEFINE new == [proposal[i] EXCEPT !.status = over]
    <3>1. proposal[i] \in ProposalRow /\ (proposal[i].tx # Nobody => proposal[i].by # "sweep")
      BY <1>1 DEF FindTypeOK, SweepsOK
    <3>2. new \in ProposalRow /\ new.status = over /\ new.tx = proposal[i].tx /\ new.by = proposal[i].by
      BY <3>1 DEF ProposalRow
    <3>3. proposal' = [proposal EXCEPT ![i] = new]
      BY <3>0
    <3> HIDE DEF new
    <3> QED BY <3>1, <3>2, <3>3
  <2>3. ASSUME NEW i \in ProposalId, LoadLive(i)
        PROVE  \E new \in ProposalRow :
                  /\ proposal' = [proposal EXCEPT ![i] = new]
                  /\ new.status = proposal[i].status /\ new.by = proposal[i].by
                  /\ new.beside = proposal[i].beside /\ new.of = proposal[i].of
                  /\ new.tx # Nobody => new.by # "sweep"
    <3> DEFINE new == [proposal[i] EXCEPT !.loaded = TRUE]
    <3>1. proposal[i] \in ProposalRow /\ (proposal[i].tx # Nobody => proposal[i].by # "sweep")
      BY <1>1 DEF FindTypeOK, SweepsOK
    <3>2. /\ new \in ProposalRow /\ new.status = proposal[i].status /\ new.tx = proposal[i].tx
          /\ new.by = proposal[i].by /\ new.beside = proposal[i].beside /\ new.of = proposal[i].of
      BY <3>1 DEF ProposalRow
    <3>3. proposal' = [proposal EXCEPT ![i] = new]
      BY <2>3 DEF LoadLive
    <3> HIDE DEF new
    <3> QED BY <3>1, <3>2, <3>3
  <2>4. ASSUME NEW i \in ProposalId, Revive(i)
        PROVE  \E new \in ProposalRow :
                  /\ proposal' = [proposal EXCEPT ![i] = new]
                  /\ new.by # "sweep" \/ new.beside \/ ~Taken(PageOf[new.of], Nobody)
                  /\ new.tx # Nobody => new.by # "sweep"
    <3> DEFINE met == proposal[i].by = "sweep" /\ Taken(PageOf[proposal[i].of], Nobody)
               new == [proposal[i] EXCEPT !.status = "live", !.beside = met]
    <3>1. proposal[i] \in ProposalRow /\ (proposal[i].tx # Nobody => proposal[i].by # "sweep")
      BY <1>1 DEF FindTypeOK, SweepsOK
    <3>2. met \in BOOLEAN
      BY Zenon
    <3>3. met \/ proposal[i].by # "sweep" \/ ~Taken(PageOf[proposal[i].of], Nobody)
      BY Zenon
    <3>4. proposal' = [proposal EXCEPT ![i] = new]
      BY <2>4 DEF Revive
    <3> HIDE DEF met
    <3>5. /\ new \in ProposalRow /\ new.tx = proposal[i].tx /\ new.by = proposal[i].by
          /\ new.beside = met /\ new.of = proposal[i].of
      BY <3>1, <3>2 DEF ProposalRow
    <3> HIDE DEF new
    <3> QED BY <3>1, <3>3, <3>4, <3>5
  <2>5. CASE \E o \in Opportunity : WriteByHand(o)
    BY <2>1, <2>5 DEF WriteByHand
  <2>6. CASE \E i \in ProposalId : LoadLive(i)
    BY <2>3, <2>6 DEF SweptLive
  <2>7. CASE \E i \in ProposalId : Finish(i)
    BY <2>2, <2>7
  <2>8. CASE \E i \in ProposalId : Revive(i)
    BY <2>4, <2>8
  <2> QED BY <2>5, <2>6, <2>7, <2>8
<1>3. /\ proposal' \in [ProposalId -> ProposalRow]
      /\ \A j \in ProposalId : proposal'[j] = IF j = i THEN new ELSE proposal[j]
  BY <1>1, <1>2 DEF FindTypeOK
<1>4. FindTypeOK'
  BY <1>1, <1>3 DEF FindTypeOK
<1>5. \A e \in Drafter : /\ HoldsLock(e)' = HoldsLock(e) /\ Ahead(e)' = Ahead(e)
                         /\ HoldsLock(e) => drafter'[e].at \notin drafter'[e].todo
  BY <1>1 DEF Ahead, SweepsOK, HoldsLock
<1>6. \A j \in ProposalId \ {i} : SweptLive(j)' = SweptLive(j) /\ proposal'[j].of = proposal[j].of
  BY <1>3, StaysLive
<1>7. \A j \in ProposalId : proposal'[j].tx # Nobody => proposal'[j].by # "sweep"
  BY <1>1, <1>2, <1>3 DEF SweepsOK
<1>8. ASSUME SweptLive(i)'
      PROVE  \/ SweptLive(i) /\ proposal'[i].of = proposal[i].of
             \/ /\ \A j \in ProposalId \ {i} : SweptLive(j)' =>
                      PageOf[proposal'[j].of] # PageOf[proposal'[i].of]
                /\ \A d \in Drafter : HoldsLock(d)' =>
                      \A o \in Ahead(d)' : PageOf[proposal'[i].of] # PageOf[o]
  <2>1. proposal'[i] = new
    BY <1>3
  <2>2. CASE ~Taken(PageOf[new.of], Nobody)
    <3>1. /\ \A j \in ProposalId : SweptLive(j) => PageOf[proposal[j].of] # PageOf[new.of]
          /\ \A d \in Drafter \ {Nobody} : HoldsLock(d) => \A o \in Ahead(d) : PageOf[o] # PageOf[new.of]
      BY <1>1, <2>2, NotTaken
    <3>2. Nobody \notin Drafter
      BY OpportunityAssumption DEF OpportunityAssumption
    <3> QED BY <1>5, <1>6, <2>1, <3>1, <3>2
  <2>3. CASE SweptLive(i) /\ new.of = proposal[i].of
    BY <2>1, <2>3
  <2>4. ~(new.status # "live" \/ new.by # "sweep" \/ new.beside)
    BY <1>8, <2>1 DEF SweptLive
  <2> QED BY <1>2, <2>2, <2>3, <2>4
<1>9. \A j \in ProposalId : SweptLive(j)' =>
         \/ SweptLive(j) /\ proposal'[j].of = proposal[j].of
         \/ /\ \A k \in ProposalId \ {j} : SweptLive(k)' =>
                  PageOf[proposal'[k].of] # PageOf[proposal'[j].of]
            /\ \A d \in Drafter : HoldsLock(d)' =>
                  \A o \in Ahead(d)' : PageOf[proposal'[j].of] # PageOf[o]
  BY <1>6, <1>8
<1> QED BY <1>4, <1>5, <1>7, <1>9, SweepsNoMore

\* What the sweep creates is for a page that is before it no longer; a sweep without
\* the lock says if another had the page.
LEMMA CreateStep ==
    ASSUME FindInv, NEW d \in Drafter, Create(d)
    PROVE  FindTypeOK' /\ DraftsFacts'
<1>1. /\ FindTypeOK /\ SweepsOK /\ drafter[d] \in DrafterState
      /\ drafter[d].at \in Opportunity /\ drafter[d].at # Nobody
      /\ UNCHANGED <<crawl, analysis, analyst, row, sweeping>>
  BY DEF FindInv, FindTypeOK, DrafterState, Create
<1> DEFINE met == drafter[d].as = "sweep" /\ sweeping # d /\ Taken(PageOf[drafter[d].at], d)
           made == [status |-> IF drafter[d].as = "agent" THEN "added" ELSE "live",
                    of |-> drafter[d].at, by |-> drafter[d].as,
                    tx |-> IF drafter[d].as = "agent" THEN d ELSE Nobody,
                    judged |-> drafter[d].judged, loaded |-> FALSE, beside |-> met]
           new == [drafter[d] EXCEPT !.at = Nobody, !.judged = FALSE]
<1>2. PICK i \in ProposalId : NextIs(i) /\ proposal' = [proposal EXCEPT ![i] = made]
  BY DEF Create
<1>3. drafter' = [drafter EXCEPT ![d] = new]
  BY DEF Create
<1>4. met \in BOOLEAN
  BY Zenon
<1>5. ~met => drafter[d].as # "sweep" \/ sweeping = d \/ ~Taken(PageOf[drafter[d].at], d)
  BY Zenon
<1> HIDE DEF met
<1>6. made \in ProposalRow /\ made.of = drafter[d].at /\ made.by = drafter[d].as
      /\ (made.tx # Nobody => made.by = "agent") /\ made.beside = met
  BY <1>1, <1>4 DEF DrafterState, ProposalRow
<1>7. new \in DrafterState /\ new.as = drafter[d].as /\ new.at = Nobody /\ new.todo = drafter[d].todo
  BY <1>1 DEF DrafterState
<1> HIDE DEF made, new
<1>8. /\ drafter' \in [Drafter -> DrafterState]
      /\ \A e \in Drafter : drafter'[e] = IF e = d THEN new ELSE drafter[e]
      /\ proposal' \in [ProposalId -> ProposalRow]
      /\ \A j \in ProposalId : proposal'[j] = IF j = i THEN made ELSE proposal[j]
  BY <1>1, <1>2, <1>3, <1>6, <1>7 DEF FindTypeOK
<1>9. FindTypeOK'
  BY <1>1, <1>8 DEF FindTypeOK
<1>10. /\ Ahead(d)' = drafter[d].todo /\ Nobody \notin drafter[d].todo
       /\ drafter[d].todo \subseteq Ahead(d) /\ drafter[d].at \in Ahead(d)
       /\ \A e \in Drafter \ {d} : Ahead(e)' = Ahead(e) /\ drafter'[e] = drafter[e]
  BY <1>1, <1>7, <1>8, OpportunityAssumption DEF Ahead, DrafterState, OpportunityAssumption
<1>11. \A e \in Drafter : HoldsLock(e)' = HoldsLock(e)
  BY <1>1, <1>7, <1>8 DEF HoldsLock
<1>12. \A e \in Drafter : HoldsLock(e)' =>
          HoldsLock(e) /\ Ahead(e)' \subseteq Ahead(e) /\ drafter'[e].at \notin drafter'[e].todo
  BY <1>1, <1>7, <1>8, <1>10, <1>11 DEF SweepsOK
<1>13. \A j \in ProposalId : proposal'[j].tx # Nobody => proposal'[j].by # "sweep"
  BY <1>1, <1>6, <1>8 DEF SweepsOK
<1>14. \A j \in ProposalId \ {i} : SweptLive(j)' = SweptLive(j) /\ proposal'[j].of = proposal[j].of
  BY <1>8, StaysLive
<1>15. ASSUME SweptLive(i)'
       PROVE  /\ \A j \in ProposalId : SweptLive(j) => PageOf[proposal[j].of] # PageOf[drafter[d].at]
              /\ \A e \in Drafter : HoldsLock(e) => \A o \in Ahead(e)' : PageOf[o] # PageOf[drafter[d].at]
  <2>1. drafter[d].as = "sweep" /\ (sweeping = d \/ ~Taken(PageOf[drafter[d].at], d))
    BY <1>5, <1>6, <1>8, <1>15 DEF SweptLive
  <2>2. CASE sweeping = d
    <3>1. /\ HoldsLock(d) /\ \A e \in Drafter : HoldsLock(e) => e = d
          /\ \A o, p \in Ahead(d) : PageOf[o] = PageOf[p] => o = p
          /\ drafter[d].at \notin drafter[d].todo
          /\ \A o \in Ahead(d), j \in ProposalId : SweptLive(j) => PageOf[proposal[j].of] # PageOf[o]
      BY <1>1, <2>1, <2>2 DEF HoldsLock, SweepsOK
    <3> QED BY <1>10, <3>1
  <2>3. CASE sweeping # d
    <3>1. /\ \A j \in ProposalId : SweptLive(j) => PageOf[proposal[j].of] # PageOf[drafter[d].at]
          /\ \A e \in Drafter \ {d} : HoldsLock(e) => \A o \in Ahead(e) : PageOf[o] # PageOf[drafter[d].at]
      BY <1>1, <2>1, <2>3, NotTaken
    <3>2. ~HoldsLock(d)
      BY <2>3 DEF HoldsLock
    <3> QED BY <1>10, <3>1, <3>2
  <2> QED BY <2>2, <2>3
<1>16. ASSUME NEW j \in ProposalId, SweptLive(j)'
       PROVE  \/ SweptLive(j) /\ proposal'[j].of = proposal[j].of
              \/ /\ \A k \in ProposalId \ {j} : SweptLive(k)' =>
                       PageOf[proposal'[k].of] # PageOf[proposal'[j].of]
                 /\ \A e \in Drafter : HoldsLock(e)' =>
                       \A o \in Ahead(e)' : PageOf[proposal'[j].of] # PageOf[o]
  <2>1. CASE j # i
    BY <1>14, <1>16, <2>1
  <2>2. CASE j = i
    <3>1. proposal'[j].of = drafter[d].at
      BY <1>6, <1>8, <2>2
    <3> QED BY <1>11, <1>14, <1>15, <1>16, <2>2, <3>1
  <2> QED BY <2>1, <2>2
<1> QED BY <1>9, <1>12, <1>13, <1>16, SweepsNoMore

-----------------------------------------------------------------------------
\* No step of a crawl, an analysis, a person or a drafter breaks FindInv.
LEMMA FindStep == FindInv /\ [FindNext]_findVars => FindInv'
<1> SUFFICES ASSUME FindInv, [FindNext]_findVars PROVE FindTypeOK' /\ AnalysesFacts' /\ DraftsFacts'
  BY DEF FindInv, AnalysesFacts, DraftsFacts
<1>1. FindTypeOK /\ AnalysesFacts /\ DraftsFacts
  BY DEF FindInv, AnalysesFacts, DraftsFacts
<1>2. CASE UNCHANGED findVars
  BY <1>1, <1>2, AnalysesFramed, DraftsFramed DEF findVars, FindTypeOK
<1>3. ASSUME NEW c \in Crawl, CrawlCompletes(c) \/ AckAnalysis(c) \/ \E w \in Analyst : Analyse(w, c)
      PROVE  FindTypeOK' /\ AnalysesFacts' /\ DraftsFacts'
  <2>1. UNCHANGED <<drafter, proposal, sweeping>>
    BY <1>3 DEF CrawlCompletes, AckAnalysis, Analyse
  <2> QED BY <1>1, <1>3, <2>1, CrawlEventStep, AnalyseStep, DraftsFramed
<1>4. ASSUME NEW w \in Analyst, CommitAnalysis(w) \/ AnalysisFails(w)
      PROVE  FindTypeOK' /\ AnalysesFacts' /\ DraftsFacts'
  <2>1. UNCHANGED <<drafter, proposal, sweeping>>
    BY <1>4 DEF CommitAnalysis, AnalysisFails
  <2> QED BY <1>1, <1>4, <2>1, CommitStep, FailStep, DraftsFramed
<1>5. ASSUME NEW o \in Opportunity, Suppress(o) \/ Unsuppress(o)
      PROVE  FindTypeOK' /\ AnalysesFacts' /\ DraftsFacts'
  <2>1. UNCHANGED <<drafter, proposal, sweeping>>
    BY <1>5 DEF Suppress, Unsuppress
  <2> QED BY <1>1, <1>5, <2>1, JudgeStep, DraftsFramed
<1>6. ASSUME \/ \E o \in Opportunity : WriteByHand(o) \/ \E d \in Drafter : Check(d, o)
             \/ \E d \in Drafter : Ask(d) \/ Sweep(d) \/ Refuse(d) \/ Create(d) \/ Commit(d) \/ Rest(d)
                                     \/ LoseLock(d)
             \/ \E i \in ProposalId : LoadLive(i) \/ Finish(i) \/ Revive(i)
      PROVE  FindTypeOK' /\ AnalysesFacts' /\ DraftsFacts'
  <2>1. UNCHANGED <<crawl, analysis, analyst, row>>
    BY <1>6 DEF WriteByHand, Check, Ask, Sweep, Refuse, Create, Commit, Rest, LoseLock, LoadLive,
              Finish, Revive
  <2>2. FindTypeOK' /\ DraftsFacts'
    BY <1>6, DraftingStep, SweepStep, ProposalsMove, LockStep, ByHandStep, CreateStep
  <2> QED BY <1>1, <2>1, <2>2, AnalysesFramed
<1> QED BY <1>2, <1>3, <1>4, <1>5, <1>6 DEF FindNext

\* FindInv is inductive, and holds in every state of the specification.
THEOREM FindInvariance == FindSpec => []FindInv
BY FindInitEstablishes, FindStep, PTL DEF FindSpec

\* Every variable of Opportunities keeps its type.
THEOREM FindTypeCorrect == FindSpec => []FindTypeOK
<1>1. FindInv => FindTypeOK
  BY DEF FindInv
<1> QED BY <1>1, FindInvariance, PTL

\* What a newer crawl of the page found fixed is open on older evidence only where a
\* person put it back or the older crawl was analysed beside the newer or after it,
\* however many analyses overlap, fail and are repeated.
THEOREM FixedTheorem == FindSpec => []FixedStaysClosed
<1>1. FindInv => FixedStaysClosed
  <2> SUFFICES ASSUME FindInv, NEW o \in Opportunity, NEW c \in Crawl, NEW e, e = row[o].evidence,
                      row[o].status = "open", ~row[o].returned,
                      analysis[c].done, PageOf[o] \in crawl[c].read, e \in crawl[c].older
               PROVE  e \in analysis[c].beside \/ c \in analysis[e].earlier
    BY DEF FixedStaysClosed
  <2>1. FindTypeOK /\ OrderOK /\ LastDecides
    BY DEF FindInv
  <2>2. e \in Crawl /\ e # Nobody /\ e # c
    BY <2>1, OpportunityAssumption DEF FindTypeOK, CrawlRow, OrderOK, OpportunityAssumption
  <2>3. e \in Begun /\ c \in Begun
    BY <2>1, <2>2 DEF OrderOK, Begun
  <2>4. e \in analysis[c].earlier \/ c \in analysis[e].earlier
    BY <2>1, <2>2, <2>3 DEF OrderOK
  <2>5. e \in analysis[c].earlier => e \in analysis[c].beside
    BY <2>1, <2>2 DEF LastDecides, Stale
  <2> QED BY <2>4, <2>5
<1> QED BY <1>1, FindInvariance, PTL

\* The sweep has one live proposal for a page at a time, however many processes sweep,
\* die and start again, but for what comes back after its end and for a sweep whose
\* lock is gone, where another sweep has the page.
THEOREM SweepTheorem == FindSpec => []SweepDraftsAPageOnce
<1>1. FindInv => SweepDraftsAPageOnce
  BY DEF FindInv
<1> QED BY <1>1, FindInvariance, PTL

-----------------------------------------------------------------------------
(* Research.  What a rerun has in hand was decided when it began; that its *)
(* window has no other run until it ends, and that no draft came to refer  *)
(* to what it takes away, is what keeps the decision true.                 *)

Editing == [brief : BriefId, read : BriefStatus] \cup {NotMoving}
BriefRow == [status : BriefStatus, kind : Kind] \cup {NoBrief}
Run == [window : Window, formed : [Topic -> Score \cup {Gone}], doomed : SUBSET Cluster,
        at : 1..MaxRefreshes]

ResearchTyped ==
    /\ clock \in Nat
    /\ refreshed \in [Window -> 0..clock]
    /\ cluster \in [Cluster -> Score \cup {Gone}]
    /\ brief \in [BriefId -> BriefRow]
    /\ draft \subseteq BriefId
    /\ refresher \in [Refresher -> Run \cup {NoRefresh}]
    /\ generator \in [Generator -> [chosen : SUBSET Cluster, lost : BOOLEAN]]
    /\ editor \in [Editor -> Editing]
    /\ writer \in [Writer -> BriefId \cup {NoId}]

\* A run is newer than what it writes over, has its window to itself and takes away
\* only what its evidence does not form; briefs go with their clusters, and the
\* clusters a generator may still write for have not gone.
ResearchOK ==
    /\ \A r \in Refresher : refresher[r] # NoRefresh =>
          /\ refreshed[refresher[r].window] < refresher[r].at /\ refresher[r].at <= clock
          /\ \A c \in refresher[r].doomed :
                c[1] = refresher[r].window /\ refresher[r].formed[c[2]] = Gone
    /\ \A r, q \in Refresher :
          refresher[r] # NoRefresh /\ refresher[q] # NoRefresh
             /\ refresher[r].window = refresher[q].window => r = q
    /\ \A c \in Cluster : brief[c] # NoBrief => cluster[c] # Gone
    /\ \A b \in draft : brief[b] # NoBrief
    /\ \A g \in Generator : ~generator[g].lost =>
          \A c \in generator[g].chosen : cluster[c] # Gone

\* The inductive invariant.
ResearchInv == ResearchTyped /\ ResearchOK

\* What a missing row says is no score and no status.
LEMMA NotGone == NoBrief \notin [status : BriefStatus, kind : Kind] /\ Gone \notin Score \cup BriefStatus
BY DEF NoBrief, BriefStatus, Gone, Score

\* The topics a person named are numbered apart from the windows.
LEMMA AskedIsNoCluster == \A b \in Asked : b \notin Cluster
BY ResearchAssumption DEF ResearchAssumption, Asked, Cluster

\* No run has the number of a run that is none.
LEMMA RunIsSome == NoRefresh \notin Run
BY ResearchAssumption DEF NoRefresh, Run, ResearchAssumption

\* At first no topic is found and no brief written.
LEMMA ResearchInitEstablishes == ResearchInit => ResearchInv
<1> SUFFICES ASSUME ResearchInit PROVE ResearchInv
  OBVIOUS
<1>1. /\ NoBrief \in BriefRow /\ NotMoving \in Editing /\ NoId \in BriefId \cup {NoId}
      /\ NoRefresh \in Run \cup {NoRefresh} /\ NoRun \in [chosen : SUBSET Cluster, lost : BOOLEAN]
      /\ NoRun.chosen = {}
  BY DEF BriefRow, Editing, NoRun
<1>2. ResearchTyped
  BY <1>1 DEF ResearchInit, ResearchTyped
<1>3. ResearchOK
  BY <1>1 DEF ResearchInit, ResearchOK, Cluster, BriefId
<1> QED BY <1>2, <1>3 DEF ResearchInv

\* An analysis begins: its window has no other.
LEMMA RefreshStep ==
    ASSUME ResearchInv, NEW r \in Refresher, NEW w \in Window, NEW formed \in [Topic -> Score \cup {Gone}],
           Refresh(r, w, formed)
    PROVE  ResearchInv'
<1>1. /\ ResearchTyped /\ ResearchOK /\ refresher[r] = NoRefresh /\ clock < MaxRefreshes /\ clock' = clock + 1
      /\ \A s \in Refresher : refresher[s].window # w
      /\ UNCHANGED <<refreshed, cluster, brief, draft, generator, editor, writer>>
  BY DEF ResearchInv, Refresh
<1> DEFINE new == [window |-> w, formed |-> formed, doomed |-> Unformed(w, formed), at |-> clock + 1]
<1>2. refresher' = [refresher EXCEPT ![r] = new]
  BY DEF Refresh
<1>3. /\ new \in Run /\ new.window = w /\ new.at = clock + 1 /\ new.formed = formed
      /\ new.doomed = Unformed(w, formed)
  <2>1. clock + 1 \in 1..MaxRefreshes
    BY <1>1, ResearchAssumption DEF ResearchTyped, ResearchAssumption
  <2>2. Unformed(w, formed) \in SUBSET Cluster
    BY DEF Unformed
  <2> QED BY <2>1, <2>2 DEF Run
<1> HIDE DEF new
<1>4. /\ refresher' \in [Refresher -> Run \cup {NoRefresh}]
      /\ \A s \in Refresher : refresher'[s] = IF s = r THEN new ELSE refresher[s]
  BY <1>1, <1>2, <1>3 DEF ResearchTyped
<1>5. clock' \in Nat /\ refreshed' \in [Window -> 0..clock'] /\ \A v \in Window : refreshed[v] < clock + 1
  <2>1. \A v \in Window : refreshed[v] \in 0..clock
    BY <1>1 DEF ResearchTyped
  <2> QED BY <1>1, <2>1 DEF ResearchTyped
<1>6. ResearchTyped'
  BY <1>1, <1>4, <1>5 DEF ResearchTyped
<1>7. \A c \in new.doomed : c[1] = w /\ formed[c[2]] = Gone
  BY <1>3 DEF Unformed
<1>8. ASSUME NEW s \in Refresher, refresher'[s] # NoRefresh
      PROVE  /\ refreshed'[refresher'[s].window] < refresher'[s].at /\ refresher'[s].at <= clock'
             /\ \A c \in refresher'[s].doomed :
                   c[1] = refresher'[s].window /\ refresher'[s].formed[c[2]] = Gone
  <2>1. CASE s = r
    BY <1>1, <1>3, <1>4, <1>5, <1>7, <2>1
  <2>2. CASE s # r
    <3>1. refresher'[s] = refresher[s] /\ refresher[s] # NoRefresh /\ refresher[s] \in Run
      BY <1>1, <1>4, <1>8, <2>2 DEF ResearchTyped
    <3>2. refresher[s].at <= clock /\ refresher[s].at \in Nat
      BY <1>1, <3>1 DEF ResearchOK, Run
    <3>3. refresher[s].at <= clock'
      BY <1>1, <3>2 DEF ResearchTyped
    <3> QED BY <1>1, <3>1, <3>3 DEF ResearchOK
  <2> QED BY <2>1, <2>2
<1>9. \A s, q \in Refresher :
          refresher'[s] # NoRefresh /\ refresher'[q] # NoRefresh
             /\ refresher'[s].window = refresher'[q].window => s = q
  BY <1>1, <1>3, <1>4 DEF ResearchOK
<1>10. ResearchOK'
  BY <1>1, <1>8, <1>9 DEF ResearchOK
<1> QED BY <1>6, <1>10 DEF ResearchInv

\* A run commits: the clusters it takes away have no draft, and go with their briefs.
LEMMA CommitRefreshStep ==
    ASSUME ResearchInv, NEW r \in Refresher, CommitRefresh(r)
    PROVE  ResearchInv'
<1>1. /\ ResearchTyped /\ ResearchOK /\ refresher[r] # NoRefresh /\ refresher[r].doomed \cap draft = {}
      /\ refresher' = [refresher EXCEPT ![r] = NoRefresh]
      /\ refreshed' = [refreshed EXCEPT ![refresher[r].window] = refresher[r].at]
      /\ UNCHANGED <<draft, editor, writer, clock>>
  BY DEF ResearchInv, CommitRefresh
<1>2. PICK w \in Window, formed \in [Topic -> Score \cup {Gone}], doomed \in SUBSET Cluster, moment \in Nat :
         /\ refresher[r].window = w /\ refresher[r].formed = formed /\ refresher[r].doomed = doomed
         /\ refresher[r].at = moment /\ refreshed[w] < moment /\ moment <= clock
         /\ \A c \in doomed : c[1] = w /\ formed[c[2]] = Gone
  <2>1. refresher[r] \in Run
    BY <1>1 DEF ResearchTyped
  <2>2. /\ refresher[r].window \in Window /\ refresher[r].formed \in [Topic -> Score \cup {Gone}]
        /\ refresher[r].doomed \in SUBSET Cluster /\ refresher[r].at \in Nat
    BY <2>1, ResearchAssumption DEF Run, ResearchAssumption
  <2> QED BY <1>1, <2>2 DEF ResearchOK
<1>3. /\ refresher' \in [Refresher -> Run \cup {NoRefresh}]
      /\ \A s \in Refresher : refresher'[s] = IF s = r THEN NoRefresh ELSE refresher[s]
  BY <1>1 DEF ResearchTyped
<1>4. /\ refreshed' \in [Window -> 0..clock']
      /\ \A v \in Window : refreshed'[v] = IF v = w THEN moment ELSE refreshed[v]
  BY <1>1, <1>2 DEF ResearchTyped
<1>5. /\ cluster' \in [Cluster -> Score \cup {Gone}]
      /\ \A c \in Cluster \ doomed : cluster[c] # Gone => cluster'[c] # Gone
  <2>1. \A c \in Cluster : cluster'[c] = IF c[1] = w /\ formed[c[2]] # Gone THEN formed[c[2]]
                                         ELSE IF c \in doomed THEN Gone ELSE cluster[c]
    BY <1>2 DEF CommitRefresh
  <2>2. \A c \in Cluster : c[2] \in Topic
    BY DEF Cluster
  <2>3. cluster' = [c \in Cluster |-> cluster'[c]]
    BY DEF CommitRefresh
  <2> QED BY <1>1, <2>1, <2>2, <2>3 DEF ResearchTyped
<1>6. /\ brief' \in [BriefId -> BriefRow]
      /\ \A b \in BriefId : brief'[b] = IF b \in doomed THEN NoBrief ELSE brief[b]
  BY <1>1, <1>2 DEF CommitRefresh, ResearchTyped, BriefRow
<1>7. /\ generator' \in [Generator -> [chosen : SUBSET Cluster, lost : BOOLEAN]]
      /\ \A g \in Generator : /\ generator'[g].chosen = generator[g].chosen
                              /\ ~generator'[g].lost =>
                                    ~generator[g].lost /\ generator[g].chosen \cap doomed = {}
  <2> DEFINE told(g) == [generator[g] EXCEPT !.lost = @ \/ generator[g].chosen \cap doomed # {}]
  <2>1. generator' = [g \in Generator |-> told(g)]
    BY <1>2 DEF CommitRefresh
  <2>2. ASSUME NEW g \in Generator
        PROVE  /\ told(g) \in [chosen : SUBSET Cluster, lost : BOOLEAN]
               /\ told(g).chosen = generator[g].chosen
               /\ ~told(g).lost => ~generator[g].lost /\ generator[g].chosen \cap doomed = {}
    <3>1. generator[g] \in [chosen : SUBSET Cluster, lost : BOOLEAN]
      BY <1>1 DEF ResearchTyped
    <3> QED BY <3>1
  <2> HIDE DEF told
  <2> QED BY <2>1, <2>2
<1>8. ResearchTyped'
  BY <1>1, <1>3, <1>4, <1>5, <1>6, <1>7 DEF ResearchTyped
<1>9. ASSUME NEW s \in Refresher, refresher'[s] # NoRefresh
      PROVE  /\ refreshed'[refresher'[s].window] < refresher'[s].at /\ refresher'[s].at <= clock'
             /\ \A c \in refresher'[s].doomed :
                   c[1] = refresher'[s].window /\ refresher'[s].formed[c[2]] = Gone
  <2>1. s # r /\ refresher'[s] = refresher[s]
    BY <1>3, <1>9
  <2>2. refresher[s].window # w
    BY <1>1, <1>2, <1>9, <2>1 DEF ResearchOK
  <2>3. refresher[s].window \in Window
    BY <1>1, <1>9, <2>1 DEF ResearchTyped, Run
  <2> QED BY <1>1, <1>4, <1>9, <2>1, <2>2, <2>3 DEF ResearchOK
<1>10. /\ \A c \in Cluster : brief'[c] # NoBrief => cluster'[c] # Gone
       /\ \A b \in draft' : brief'[b] # NoBrief
  <2>1. Cluster \subseteq BriefId
    BY DEF BriefId
  <2> QED BY <1>1, <1>2, <1>5, <1>6, <2>1 DEF ResearchOK, ResearchTyped
<1>11. \A g \in Generator : ~generator'[g].lost => \A c \in generator'[g].chosen : cluster'[c] # Gone
  <2>1. \A g \in Generator : generator[g].chosen \subseteq Cluster
    BY <1>1 DEF ResearchTyped
  <2> QED BY <1>1, <1>5, <1>7, <2>1 DEF ResearchOK
<1>12. ResearchOK'
  <2>1. \A s, q \in Refresher :
           refresher'[s] # NoRefresh /\ refresher'[q] # NoRefresh
              /\ refresher'[s].window = refresher'[q].window => s = q
    BY <1>1, <1>3 DEF ResearchOK
  <2> QED BY <1>9, <1>10, <1>11, <2>1 DEF ResearchOK
<1> QED BY <1>8, <1>12 DEF ResearchInv

\* Briefs are written for clusters that have not gone.
LEMMA BriefsStep ==
    ASSUME ResearchInv, NEW g \in Generator, ChooseClusters(g) \/ WriteBriefs(g)
    PROVE  ResearchInv'
<1>1. /\ ResearchTyped /\ ResearchOK
      /\ UNCHANGED <<refreshed, cluster, draft, refresher, editor, writer, clock>>
  BY DEF ResearchInv, ChooseClusters, WriteBriefs
<1>2. CASE ChooseClusters(g)
  <2> DEFINE new == [chosen |-> Worthwhile, lost |-> FALSE]
  <2>1. generator' = [generator EXCEPT ![g] = new] /\ brief' = brief
    BY <1>2 DEF ChooseClusters
  <2>2. Worthwhile \subseteq Cluster /\ \A c \in Worthwhile : cluster[c] # Gone
    BY NotGone DEF Worthwhile, Gone
  <2>3. new \in [chosen : SUBSET Cluster, lost : BOOLEAN] /\ new.chosen = Worthwhile
    BY <2>2
  <2> HIDE DEF new
  <2>4. /\ generator' \in [Generator -> [chosen : SUBSET Cluster, lost : BOOLEAN]]
        /\ \A k \in Generator : generator'[k] = IF k = g THEN new ELSE generator[k]
    BY <1>1, <2>1, <2>3 DEF ResearchTyped
  <2>5. ResearchTyped'
    BY <1>1, <2>1, <2>4 DEF ResearchTyped
  <2>6. \A k \in Generator : ~generator'[k].lost => \A c \in generator'[k].chosen : cluster'[c] # Gone
    BY <1>1, <2>2, <2>3, <2>4 DEF ResearchOK
  <2>7. ResearchOK'
    BY <1>1, <2>1, <2>6 DEF ResearchOK
  <2> QED BY <2>5, <2>7 DEF ResearchInv
<1>3. CASE WriteBriefs(g)
  <2>1. generator' = [generator EXCEPT ![g] = NoRun]
    BY <1>3 DEF WriteBriefs
  <2>2. NoRun \in [chosen : SUBSET Cluster, lost : BOOLEAN] /\ NoRun.chosen = {}
    BY DEF NoRun
  <2>3. /\ generator' \in [Generator -> [chosen : SUBSET Cluster, lost : BOOLEAN]]
        /\ \A k \in Generator : generator'[k] = IF k = g THEN NoRun ELSE generator[k]
    BY <1>1, <2>1, <2>2 DEF ResearchTyped
  <2>4. /\ brief' \in [BriefId -> BriefRow]
        /\ \A b \in BriefId : \/ brief'[b] = brief[b]
                              \/ brief'[b] # NoBrief /\ b \in generator[g].chosen /\ ~generator[g].lost
    <3>1. CASE UNCHANGED brief
      BY <1>1, <3>1 DEF ResearchTyped
    <3>2. ASSUME NEW kind \in Kind, ~generator[g].lost,
                 brief' = [b \in BriefId |->
                              IF b \in generator[g].chosen THEN Rewritten(b, kind) ELSE brief[b]]
          PROVE  /\ brief' \in [BriefId -> BriefRow]
                 /\ \A b \in BriefId : \/ brief'[b] = brief[b]
                                       \/ brief'[b] # NoBrief /\ b \in generator[g].chosen /\ ~generator[g].lost
      <4>1. ASSUME NEW b \in BriefId PROVE Rewritten(b, kind) \in BriefRow /\ Rewritten(b, kind) # NoBrief
        <5>1. brief[b] \in BriefRow
          BY <1>1 DEF ResearchTyped
        <5>2. (IF brief[b] = NoBrief THEN "queued" ELSE brief[b].status) \in BriefStatus
          BY <5>1 DEF BriefRow, BriefStatus
        <5>3. Rewritten(b, kind) \in [status : BriefStatus, kind : Kind]
          BY <5>2 DEF Rewritten
        <5> QED BY <5>3, NotGone DEF BriefRow
      <4>2. \A b \in BriefId : brief[b] \in BriefRow
        BY <1>1 DEF ResearchTyped
      <4> QED BY <3>2, <4>1, <4>2
    <3> QED BY <1>3, <3>1, <3>2 DEF WriteBriefs
  <2>5. ResearchTyped'
    BY <1>1, <2>3, <2>4 DEF ResearchTyped
  <2>6. ASSUME NEW c \in Cluster, brief'[c] # NoBrief PROVE cluster'[c] # Gone
    <3>1. c \in BriefId
      BY DEF BriefId
    <3> QED BY <1>1, <2>4, <2>6, <3>1 DEF ResearchOK
  <2>7. \A b \in draft' : brief'[b] # NoBrief
    BY <1>1, <2>4 DEF ResearchOK, ResearchTyped
  <2>8. \A k \in Generator : ~generator'[k].lost => \A c \in generator'[k].chosen : cluster'[c] # Gone
    BY <1>1, <2>2, <2>3 DEF ResearchOK
  <2>9. ResearchOK'
    BY <1>1, <2>6, <2>7, <2>8 DEF ResearchOK
  <2> QED BY <2>5, <2>9 DEF ResearchInv
<1> QED BY <1>2, <1>3

\* A run that fails, and what people do: no brief that there is goes, and none comes
\* for a cluster.
LEMMA PeopleStep ==
    ASSUME ResearchInv,
           \/ \E r \in Refresher : AbortRefresh(r)
           \/ \E b \in BriefId : CreateTopic(b)
           \/ \E e \in Editor : \/ \E b \in BriefId : LoadToMove(e, b)
                                \/ \E target \in BriefStatus : Move(e, target)
           \/ \E x \in Writer : RequestDraft(x) \/ \E b \in BriefId : LoadToDraft(x, b)
    PROVE  ResearchInv'
<1>1. ResearchTyped /\ ResearchOK /\ UNCHANGED <<refreshed, cluster, generator, clock>>
  BY DEF ResearchInv, AbortRefresh, CreateTopic, LoadToMove, Move, RequestDraft, LoadToDraft
<1>2. /\ refresher' \in [Refresher -> Run \cup {NoRefresh}]
      /\ \A r \in Refresher : refresher'[r] \in {refresher[r], NoRefresh}
  <2>1. CASE UNCHANGED refresher
    BY <1>1, <2>1 DEF ResearchTyped
  <2>2. ASSUME NEW r \in Refresher, AbortRefresh(r)
        PROVE  /\ refresher' \in [Refresher -> Run \cup {NoRefresh}]
               /\ \A s \in Refresher : refresher'[s] \in {refresher[s], NoRefresh}
    BY <1>1, <2>2 DEF AbortRefresh, ResearchTyped
  <2> QED BY <2>1, <2>2 DEF CreateTopic, LoadToMove, Move, RequestDraft, LoadToDraft
<1>3. editor' \in [Editor -> Editing]
  <2>1. NotMoving \in Editing
    BY DEF Editing
  <2>2. ASSUME NEW e \in Editor, NEW b \in BriefId, LoadToMove(e, b) PROVE editor' \in [Editor -> Editing]
    <3> DEFINE new == [brief |-> b, read |-> brief[b].status]
    <3>1. brief[b].status \in BriefStatus
      BY <1>1, <2>2 DEF LoadToMove, ResearchTyped, BriefRow
    <3>2. new \in Editing /\ editor' = [editor EXCEPT ![e] = new]
      BY <2>2, <3>1 DEF Editing, LoadToMove
    <3> HIDE DEF new
    <3> QED BY <1>1, <3>2 DEF ResearchTyped
  <2>3. ASSUME NEW e \in Editor, NEW target, Move(e, target) PROVE editor' \in [Editor -> Editing]
    BY <1>1, <2>1, <2>3 DEF Move, ResearchTyped
  <2> QED BY <1>1, <2>2, <2>3 DEF AbortRefresh, CreateTopic, RequestDraft, LoadToDraft, ResearchTyped
<1>4. writer' \in [Writer -> BriefId \cup {NoId}]
  <2>1. ASSUME NEW x \in Writer, RequestDraft(x) \/ \E b \in BriefId : LoadToDraft(x, b)
        PROVE  writer' \in [Writer -> BriefId \cup {NoId}]
    BY <1>1, <2>1 DEF RequestDraft, LoadToDraft, ResearchTyped
  <2> QED BY <1>1, <2>1 DEF AbortRefresh, CreateTopic, LoadToMove, Move, ResearchTyped
<1>5. /\ brief' \in [BriefId -> BriefRow]
      /\ \A b \in BriefId : \/ brief'[b] = brief[b]
                            \/ brief'[b] # NoBrief /\ (b \in Cluster => brief[b] # NoBrief)
  <2>1. CASE UNCHANGED brief
    BY <1>1, <2>1 DEF ResearchTyped
  <2>2. ASSUME NEW b \in BriefId, NEW new \in [status : BriefStatus, kind : Kind],
               brief' = [brief EXCEPT ![b] = new], b \in Cluster => brief[b] # NoBrief
        PROVE  /\ brief' \in [BriefId -> BriefRow]
               /\ \A c \in BriefId : \/ brief'[c] = brief[c]
                                     \/ brief'[c] # NoBrief /\ (c \in Cluster => brief[c] # NoBrief)
    <3>1. new \in BriefRow /\ new # NoBrief
      BY NotGone DEF BriefRow
    <3> QED BY <1>1, <2>2, <3>1 DEF ResearchTyped
  <2>3. ASSUME NEW b \in BriefId, CreateTopic(b)
        PROVE  /\ brief' \in [BriefId -> BriefRow]
               /\ \A c \in BriefId : \/ brief'[c] = brief[c]
                                     \/ brief'[c] # NoBrief /\ (c \in Cluster => brief[c] # NoBrief)
    <3> DEFINE new == [status |-> "queued", kind |-> "new_page"]
    <3>1. new \in [status : BriefStatus, kind : Kind]
      BY DEF BriefStatus, Kind
    <3>2. brief' = [brief EXCEPT ![b] = new]
      BY <2>3 DEF CreateTopic
    <3>3. b \notin Cluster
      BY <2>3, AskedIsNoCluster DEF CreateTopic
    <3> HIDE DEF new
    <3> QED BY <2>2, <3>1, <3>2, <3>3
  <2>4. ASSUME NEW e \in Editor, NEW target \in BriefStatus, Move(e, target), ~UNCHANGED brief
        PROVE  /\ brief' \in [BriefId -> BriefRow]
               /\ \A c \in BriefId : \/ brief'[c] = brief[c]
                                     \/ brief'[c] # NoBrief /\ (c \in Cluster => brief[c] # NoBrief)
    <3>1. PICK b \in BriefId : b = editor[e].brief
      BY <1>1, <2>4 DEF Move, ResearchTyped, Editing
    <3> DEFINE new == [brief[b] EXCEPT !.status = target]
    <3>2. brief[b] # NoBrief /\ brief' = [brief EXCEPT ![b] = new]
      BY <2>4, <3>1 DEF Move
    <3>3. brief[b] \in [status : BriefStatus, kind : Kind]
      BY <1>1, <3>2 DEF ResearchTyped, BriefRow
    <3>4. new \in [status : BriefStatus, kind : Kind]
      BY <3>3
    <3> HIDE DEF new
    <3> QED BY <2>2, <3>2, <3>4
  <2> QED BY <2>1, <2>3, <2>4 DEF AbortRefresh, LoadToMove, RequestDraft, LoadToDraft
<1>6. draft' \subseteq BriefId /\ \A b \in draft' : brief'[b] # NoBrief
  <2>1. \A b \in draft : b \in BriefId /\ brief[b] # NoBrief /\ brief'[b] # NoBrief
    BY <1>1, <1>5 DEF ResearchTyped, ResearchOK
  <2>2. ASSUME NEW x \in Writer, RequestDraft(x)
        PROVE  draft' \subseteq BriefId /\ \A b \in draft' : brief'[b] # NoBrief
    <3>1. writer[x] \in BriefId /\ brief' = brief
      BY <1>1, <2>2 DEF RequestDraft, ResearchTyped
    <3> QED BY <2>1, <2>2, <3>1 DEF RequestDraft
  <2>3. CASE UNCHANGED draft
    BY <2>1, <2>3
  <2> QED BY <2>2, <2>3 DEF AbortRefresh, CreateTopic, LoadToMove, Move, LoadToDraft
<1>7. ResearchTyped'
  BY <1>1, <1>2, <1>3, <1>4, <1>5, <1>6 DEF ResearchTyped
<1>8. \A c \in Cluster : brief'[c] # NoBrief => cluster'[c] # Gone
  <2>1. Cluster \subseteq BriefId
    BY DEF BriefId
  <2> QED BY <1>1, <1>5, <2>1 DEF ResearchOK
<1>9. ASSUME NEW r \in Refresher, refresher'[r] # NoRefresh
      PROVE  /\ refresher'[r] = refresher[r] /\ refreshed'[refresher'[r].window] < refresher'[r].at
             /\ refresher'[r].at <= clock'
             /\ \A c \in refresher'[r].doomed :
                   c[1] = refresher'[r].window /\ refresher'[r].formed[c[2]] = Gone
  BY <1>1, <1>2, <1>9 DEF ResearchOK
<1>10. ResearchOK'
  <2>1. \A g \in Generator : ~generator'[g].lost => \A c \in generator'[g].chosen : cluster'[c] # Gone
    BY <1>1 DEF ResearchOK
  <2>2. \A r, q \in Refresher :
           refresher'[r] # NoRefresh /\ refresher'[q] # NoRefresh
              /\ refresher'[r].window = refresher'[q].window => r = q
    BY <1>1, <1>9 DEF ResearchOK
  <2> QED BY <1>6, <1>8, <1>9, <2>1, <2>2 DEF ResearchOK
<1> QED BY <1>7, <1>10 DEF ResearchInv

\* A step that changes nothing of Research keeps its invariant.
LEMMA ResearchStutter == ResearchInv /\ UNCHANGED researchVars => ResearchInv'
BY DEF ResearchInv, ResearchTyped, ResearchOK, researchVars

\* ResearchInv is inductive, and holds in every state of the specification.
THEOREM ResearchInvariance == ResearchSpec => []ResearchInv
<1>1. ResearchInv /\ [ResearchNext]_researchVars => ResearchInv'
  BY RefreshStep, CommitRefreshStep, BriefsStep, PeopleStep, ResearchStutter DEF ResearchNext
<1> QED BY <1>1, ResearchInitEstablishes, PTL DEF ResearchSpec

\* A run that ends has committed what it decided, or met a draft.
LEMMA RunsEnd ==
    ASSUME ResearchInv, [ResearchNext]_researchVars, NEW r \in Refresher,
           refresher[r] # NoRefresh, refresher'[r] = NoRefresh
    PROVE  \/ CommitRefresh(r)
           \/ AbortRefresh(r)
<1>1. ResearchTyped
  BY DEF ResearchInv
<1>2. ASSUME NEW q \in Refresher, NEW w \in Window, NEW formed \in [Topic -> Score \cup {Gone}],
             Refresh(q, w, formed)
      PROVE  FALSE
  <2> DEFINE new == [window |-> w, formed |-> formed, doomed |-> Unformed(w, formed), at |-> clock + 1]
  <2>1. refresher' = [refresher EXCEPT ![q] = new] /\ refresher[q] = NoRefresh
    BY <1>2 DEF Refresh
  <2> HIDE DEF new
  <2>2. refresher'[r] = refresher[r]
    BY <1>1, <2>1 DEF ResearchTyped
  <2> QED BY <2>2
<1>3. ASSUME NEW q \in Refresher, q # r, CommitRefresh(q) \/ AbortRefresh(q) PROVE FALSE
  BY <1>1, <1>3 DEF CommitRefresh, AbortRefresh, ResearchTyped
<1>4. ~UNCHANGED refresher
  OBVIOUS
<1> QED BY <1>2, <1>3, <1>4
        DEF ResearchNext, researchVars, ChooseClusters, WriteBriefs, CreateTopic, LoadToMove, Move,
            RequestDraft, LoadToDraft

\* A dismissed brief is left as it is by all but a person who read that it is dismissed.
LEMMA DismissedStays ==
    ASSUME ResearchInv, [ResearchNext]_researchVars, NEW b \in BriefId,
           brief[b].status = "dismissed", brief'[b].status \notin {"dismissed", Gone}
    PROVE  /\ brief'[b].status = "queued"
           /\ \E e \in Editor : editor[e] = [brief |-> b, read |-> "dismissed"] /\ editor'[e] = NotMoving
<1>1. ResearchTyped
  BY DEF ResearchInv
<1>2. brief[b] # NoBrief /\ NoBrief.status = Gone /\ brief'[b] # brief[b]
  BY DEF NoBrief, Gone
<1>3. ASSUME NEW r \in Refresher, CommitRefresh(r) PROVE FALSE
  BY <1>2, <1>3 DEF CommitRefresh
<1>4. ASSUME NEW g \in Generator, WriteBriefs(g) PROVE FALSE
  BY <1>2, <1>4 DEF WriteBriefs, Rewritten
<1>5. ASSUME NEW c \in BriefId, CreateTopic(c) PROVE FALSE
  BY <1>1, <1>2, <1>5 DEF CreateTopic, ResearchTyped
<1>6. ASSUME NEW e \in Editor, NEW target \in BriefStatus, Move(e, target)
      PROVE  /\ brief'[b].status = "queued"
             /\ editor[e] = [brief |-> b, read |-> "dismissed"] /\ editor'[e] = NotMoving
  <2>1. editor[e] \in [brief : BriefId, read : BriefStatus] /\ editor'[e] = NotMoving
    BY <1>1, <1>6 DEF Move, ResearchTyped, Editing
  <2> DEFINE c == editor[e].brief
  <2>2. /\ target \in Allowed[editor[e].read] /\ Holds(c, editor[e].read, target)
        /\ brief' = [brief EXCEPT ![c].status = target]
    BY <1>2, <1>6 DEF Move
  <2>3. c = b
    BY <1>1, <1>2, <2>1, <2>2 DEF ResearchTyped
  <2>4. brief'[b].status = target
    <3>1. brief[b] \in [status : BriefStatus, kind : Kind]
      BY <1>1, <1>2 DEF ResearchTyped, BriefRow
    <3>2. brief'[b] = [brief[b] EXCEPT !.status = target]
      BY <1>1, <2>2, <2>3 DEF ResearchTyped
    <3> QED BY <3>1, <3>2
  <2>5. editor[e].read = "dismissed"
    BY <2>2, <2>3, <2>4 DEF Holds
  <2>6. target = "queued"
    BY <2>2, <2>5 DEF Allowed
  <2> QED BY <2>1, <2>3, <2>4, <2>5, <2>6
<1> QED BY <1>2, <1>3, <1>4, <1>5, <1>6
        DEF ResearchNext, researchVars, Refresh, AbortRefresh, ChooseClusters, LoadToMove, RequestDraft,
            LoadToDraft

\* No rerun takes away a brief whose topic its evidence forms or that a draft was
\* written from, a rerun fails only over a draft, and a dismissal is taken back only
\* by a person who saw it.
THEOREM BriefsTheorem == ResearchSpec => BriefsAreKept
<1>1. ASSUME ResearchInv, [ResearchNext]_researchVars, NEW r \in Refresher,
             refresher[r] # NoRefresh, refresher'[r] = NoRefresh
      PROVE  IF refreshed' = refreshed THEN \E c \in draft : cluster[c] # Gone /\ c \in refresher[r].doomed
             ELSE \A b \in BriefId : brief[b] # NoBrief /\ brief'[b] = NoBrief =>
                     b[1] = refresher[r].window /\ refresher[r].formed[b[2]] = Gone /\ b \notin draft
  <2>1. ResearchTyped /\ ResearchOK
    BY <1>1 DEF ResearchInv
  <2>2. refresher[r] \in Run
    BY <1>1, <2>1 DEF ResearchTyped
  <2>3. CASE CommitRefresh(r)
    <3>1. refreshed' # refreshed
      <4>1. /\ refreshed' = [refreshed EXCEPT ![refresher[r].window] = refresher[r].at]
            /\ refresher[r].window \in Window /\ refresher[r].at \in Nat
        BY <2>2, <2>3, ResearchAssumption DEF CommitRefresh, Run, ResearchAssumption
      <4>2. refreshed[refresher[r].window] < refresher[r].at /\ refreshed[refresher[r].window] \in Nat
        BY <1>1, <2>1, <4>1 DEF ResearchOK, ResearchTyped
      <4> QED BY <2>1, <4>1, <4>2 DEF ResearchTyped
    <3>2. ASSUME NEW b \in BriefId, brief[b] # NoBrief, brief'[b] = NoBrief
          PROVE  b[1] = refresher[r].window /\ refresher[r].formed[b[2]] = Gone /\ b \notin draft
      <4>1. b \in refresher[r].doomed /\ refresher[r].doomed \cap draft = {}
        BY <2>3, <3>2 DEF CommitRefresh
      <4> QED BY <1>1, <2>1, <4>1 DEF ResearchOK
    <3> QED BY <3>1, <3>2
  <2>4. CASE AbortRefresh(r)
    <3>1. PICK c \in draft : c \in refresher[r].doomed
      BY <2>4 DEF AbortRefresh
    <3>2. c \in Cluster
      BY <2>2, <3>1 DEF Run
    <3> QED BY <2>1, <2>4, <3>1, <3>2 DEF AbortRefresh, ResearchOK
  <2> QED BY <1>1, <2>3, <2>4, RunsEnd
<1>2. ResearchInv /\ [ResearchNext]_researchVars =>
        [\A r \in Refresher :
            LET run == refresher[r] IN
            run # NoRefresh /\ refresher'[r] = NoRefresh =>
               IF refreshed' = refreshed THEN \E c \in draft : cluster[c] # Gone /\ c \in run.doomed
               ELSE \A b \in BriefId : brief[b] # NoBrief /\ brief'[b] = NoBrief =>
                       b[1] = run.window /\ run.formed[b[2]] = Gone /\ b \notin draft]_researchVars
  BY <1>1
<1>3. ResearchInv /\ [ResearchNext]_researchVars =>
        [\A b \in BriefId :
            brief[b].status = "dismissed" /\ brief'[b].status \notin {"dismissed", Gone} =>
               /\ brief'[b].status = "queued"
               /\ \E e \in Editor : editor[e] = [brief |-> b, read |-> "dismissed"] /\ editor'[e] = NotMoving
            ]_researchVars
  BY DismissedStays
<1>4. ResearchSpec => BriefsOutliveReruns
  BY <1>2, ResearchInvariance, PTL DEF ResearchSpec, BriefsOutliveReruns
<1>5. ResearchSpec => DismissalHolds
  BY <1>3, ResearchInvariance, PTL DEF ResearchSpec, DismissalHolds
<1> QED BY <1>4, <1>5 DEF BriefsAreKept
-----------------------------------------------------------------------------
(* Counting: what holds of 0 and of every next number holds.              *)

\* Among numbers there is a least: what induction over a hop count or a list rests on.
LEMMA Smallest ==
    ASSUME NEW T \in SUBSET Nat, T # {}
    PROVE  \E m \in T : \A k \in T : m <= k
<1> DEFINE R == OpToRel(<, Nat)
<1>1. IsWellFoundedOn(R, Nat)
  BY NatLessThanWellFounded
<1>2. PICK m \in T : \A k \in T : <<k, m>> \notin R
  BY <1>1, WFMin
<1>3. \A k \in T : ~(k < m)
  BY <1>2 DEF OpToRel
<1> QED BY <1>3

\* A set of numbers with 0 that goes on has all of them up to n.
LEMMA UpTo ==
    ASSUME NEW n \in Nat, NEW T, 0 \in T,
           \A k \in 0..n : k # 0 /\ k - 1 \in T => k \in T
    PROVE  \A k \in 0..n : k \in T
<1> DEFINE Bad == {k \in 0..n : k \notin T}
<1> SUFFICES ASSUME Bad # {} PROVE FALSE
  OBVIOUS
<1>1. Bad \in SUBSET Nat
  OBVIOUS
<1>2. PICK m \in Bad : \A k \in Bad : m <= k
  BY <1>1, Smallest
<1>3. m # 0 /\ m - 1 \in 0..n /\ ~(m <= m - 1)
  BY <1>2
<1>4. m - 1 \in T
  BY <1>2, <1>3
<1> QED BY <1>2, <1>3, <1>4
-----------------------------------------------------------------------------
(* A crawl.                                                                *)

\* Hops is what its definition says.
LEMMA HopsDefined ==
    Hops = [n \in 0..MaxDepth |->
              IF n = 0 THEN {Home} \cup sitemap
              ELSE Hops[n - 1] \cup UNION {Elements(links[p].found) : p \in Hops[n - 1]}]
<1> DEFINE Step(S) == S \cup UNION {Elements(links[p].found) : p \in S}
           IsHops(f, n) == f = [k \in 0..n |-> IF k = 0 THEN {Home} \cup sitemap ELSE Step(f[k - 1])]
           T == {n \in 0..MaxDepth : \E f : IsHops(f, n)}
<1>1. MaxDepth \in Nat
  BY FrontierAssumption DEF FrontierAssumption
<1>2. 0 \in T
  <2>1. \E f : IsHops(f, 0)
    <3> DEFINE f == [k \in 0..0 |-> IF k = 0 THEN {Home} \cup sitemap ELSE {}]
    <3>1. IsHops(f, 0)
      OBVIOUS
    <3> HIDE DEF f
    <3> QED BY <3>1
  <2> QED BY <1>1, <2>1
<1>3. ASSUME NEW n \in 0..MaxDepth, n # 0, n - 1 \in T PROVE n \in T
  <2>1. PICK f : IsHops(f, n - 1)
    BY <1>3
  <2> DEFINE g == [k \in 0..n |-> IF k = n THEN Step(f[n - 1]) ELSE f[k]]
  <2> HIDE DEF Step
  <2>2. \A k \in 0..n : g[k] = IF k = 0 THEN {Home} \cup sitemap ELSE Step(g[k - 1])
    <3> SUFFICES ASSUME NEW k \in 0..n
                 PROVE  g[k] = IF k = 0 THEN {Home} \cup sitemap ELSE Step(g[k - 1])
      OBVIOUS
    <3>1. CASE k = n
      <4>1. k # 0 /\ k - 1 # n /\ k - 1 \in 0..n
        BY <1>1, <1>3, <3>1
      <4> QED BY <3>1, <4>1
    <3>2. CASE k # n
      <4>1. k \in 0..(n - 1) /\ (k # 0 => k - 1 \in 0..(n - 1) /\ k - 1 \in 0..n /\ k - 1 # n)
        BY <1>1, <1>3, <3>2
      <4> QED BY <2>1, <3>2, <4>1
    <3> QED BY <3>1, <3>2
  <2>3. IsHops(g, n)
    BY <2>2
  <2> QED BY <1>3, <2>3
<1>4. MaxDepth \in T
  <2> HIDE DEF T
  <2> QED BY <1>1, <1>2, <1>3, UpTo
<1>5. PICK f : IsHops(f, MaxDepth)
  BY <1>4
<1> QED BY <1>5 DEF Hops

Entry == [url : Page, depth : 0..MaxDepth]
State == [queue : Seq(Entry), truncated : BOOLEAN]

\* No page waits twice.
Distinct(q) == \A i, j \in DOMAIN q : q[i].url = q[j].url => i = j

\* What asking for the pages of U does to the crawl s: entries of new pages are added at
\* its end, and every page is known or the crawl says that it is cut.
Extends(s, r, U, depth) ==
    /\ r \in State /\ Distinct(r.queue)
    /\ Len(s.queue) <= Len(r.queue)
    /\ \A i \in 1..Len(s.queue) : r.queue[i] = s.queue[i]
    /\ \A i \in 1..Len(r.queue) : i > Len(s.queue) =>
          /\ r.queue[i].depth = depth
          /\ r.queue[i].url \in U \ (visited' \cup Queued(s.queue))
    /\ ~r.truncated => ~s.truncated /\ (depth <= MaxDepth => U \subseteq visited' \cup Queued(r.queue))
    /\ Cardinality(visited' \cup Queued(r.queue)) <= limit.found

\* A queue that gets one entry more.
LEMMA QueuedAppend ==
    ASSUME NEW q \in Seq(Entry), NEW e \in Entry
    PROVE  /\ Append(q, e) \in Seq(Entry) /\ Len(Append(q, e)) = Len(q) + 1 /\ Len(q) \in Nat
           /\ DOMAIN q = 1..Len(q) /\ DOMAIN Append(q, e) = 1..(Len(q) + 1)
           /\ \A i \in 1..Len(q) : Append(q, e)[i] = q[i]
           /\ Append(q, e)[Len(q) + 1] = e
           /\ Queued(Append(q, e)) = Queued(q) \cup {e.url}
<1>1. /\ Append(q, e) \in Seq(Entry) /\ Len(Append(q, e)) = Len(q) + 1 /\ Len(q) \in Nat
      /\ DOMAIN q = 1..Len(q) /\ DOMAIN Append(q, e) = 1..(Len(q) + 1)
      /\ \A i \in 1..Len(q) : Append(q, e)[i] = q[i]
      /\ Append(q, e)[Len(q) + 1] = e
  OBVIOUS
<1>2. \A i \in 1..(Len(q) + 1) : i \in 1..Len(q) \/ i = Len(q) + 1
  BY <1>1
<1>3. /\ \A i \in 1..Len(q) : i \in 1..(Len(q) + 1)
      /\ Len(q) + 1 \in 1..(Len(q) + 1)
  BY <1>1
<1>4. Queued(Append(q, e)) = Queued(q) \cup {e.url}
  <2> DEFINE r == Append(q, e)
             n == Len(q)
  <2>0. /\ DOMAIN q = 1..n /\ DOMAIN r = 1..(n + 1)
        /\ \A i \in 1..n : r[i] = q[i]
        /\ r[n + 1] = e
    BY <1>1
  <2> HIDE DEF r, n
  <2>1. Queued(r) \subseteq Queued(q) \cup {e.url}
    BY <1>2, <2>0 DEF Queued, n
  <2>2. Queued(q) \cup {e.url} \subseteq Queued(r)
    BY <1>3, <2>0 DEF Queued, n
  <2> QED BY <2>1, <2>2 DEF r
<1> QED BY <1>1, <1>4

\* The pages of a queue can be counted.
LEMMA QueuedFinite ==
    ASSUME NEW q \in Seq(Entry)
    PROVE  IsFiniteSet(Queued(q)) /\ Cardinality(Queued(q)) \in Nat /\ Queued(q) \subseteq Page
<1> DEFINE f == [i \in 1..Len(q) |-> q[i].url]
<1>1. DOMAIN q = 1..Len(q) /\ Len(q) \in Nat /\ \A i \in 1..Len(q) : q[i] \in Entry
  OBVIOUS
<1>2. f \in Surjection(1..Len(q), Queued(q))
  BY <1>1 DEF Surjection, Queued
<1>3. IsFiniteSet(1..Len(q))
  BY <1>1, FS_Interval
<1>4. IsFiniteSet(Queued(q))
  BY <1>2, <1>3, FS_Surjection
<1> QED BY <1>1, <1>4, FS_CardinalityType DEF Queued, Entry

\* One page more is asked for.
LEMMA EnqueueStep ==
    ASSUME NEW s, NEW r, NEW U, NEW url \in Page, NEW depth \in Nat,
           s.queue \in Seq(Entry), IsFiniteSet(visited'), limit.found \in Nat,
           Extends(s, r, U, depth)
    PROVE  Extends(s, Enqueue(r, url, depth), U \cup {url}, depth)
<1>0. Len(s.queue) \in Nat /\ DOMAIN s.queue = 1..Len(s.queue)
  OBVIOUS
<1>1. r \in State /\ r.queue \in Seq(Entry) /\ r.truncated \in BOOLEAN /\ MaxDepth \in Nat
  BY FrontierAssumption DEF Extends, State, FrontierAssumption
<1>2. CASE depth > MaxDepth \/ url \in visited' \cup Queued(r.queue)
  <2>1. Enqueue(r, url, depth) = r
    BY <1>2 DEF Enqueue
  <2> QED BY <1>1, <1>2, <2>1 DEF Extends
<1>3. CASE ~(depth > MaxDepth \/ url \in visited' \cup Queued(r.queue)) /\ Full(r)
  <2> DEFINE t == [r EXCEPT !.truncated = TRUE]
  <2>1. Enqueue(r, url, depth) = t
    BY <1>3 DEF Enqueue
  <2>2. t \in State /\ t.queue = r.queue /\ t.truncated = TRUE
    BY <1>1 DEF State
  <2> HIDE DEF t
  <2> QED BY <1>1, <2>1, <2>2 DEF Extends
<1>4. CASE ~(depth > MaxDepth \/ url \in visited' \cup Queued(r.queue)) /\ ~Full(r)
  <2> DEFINE e == [url |-> url, depth |-> depth]
             q == Append(r.queue, e)
             t == [r EXCEPT !.queue = q]
             n == Len(r.queue)
  <2>1. Enqueue(r, url, depth) = t
    BY <1>4 DEF Enqueue
  <2>2. e \in Entry /\ e.url = url /\ e.depth = depth
    BY <1>1, <1>4 DEF Entry
  <2> HIDE DEF e
  <2>3. /\ q \in Seq(Entry) /\ Len(q) = n + 1 /\ n \in Nat
        /\ DOMAIN r.queue = 1..n /\ DOMAIN q = 1..(n + 1)
        /\ \A i \in 1..n : q[i] = r.queue[i]
        /\ q[n + 1] = e
        /\ Queued(q) = Queued(r.queue) \cup {url}
    BY <1>1, <2>2, QueuedAppend
  <2>4. t \in State /\ t.queue = q /\ t.truncated = r.truncated
    BY <1>1, <2>3 DEF State
  <2> HIDE DEF q, t, n
  <2>5. Len(s.queue) <= n /\ Len(s.queue) <= Len(q)
    BY <1>0, <2>3 DEF Extends, n
  <2>6. \A i \in 1..(n + 1) : i \in 1..n \/ i = n + 1
    BY <2>3
  <2>7. \A i \in 1..n : q[i].url # url
    BY <1>4, <2>3 DEF Queued
  <2>8. Distinct(q)
    BY <2>2, <2>3, <2>6, <2>7 DEF Distinct, Extends
  <2>9. \A i \in 1..Len(s.queue) : q[i] = s.queue[i]
    BY <2>3, <2>5 DEF Extends
  <2>10. url \notin Queued(s.queue)
    <3>1. \A i \in 1..Len(s.queue) : i \in 1..n /\ r.queue[i] = s.queue[i]
      BY <1>0, <2>3, <2>5, <2>9
    <3>2. Queued(s.queue) \subseteq Queued(r.queue)
      BY <1>0, <2>3, <3>1 DEF Queued
    <3> QED BY <1>4, <3>2
  <2>11. \A i \in 1..(n + 1) : i > Len(s.queue) =>
            /\ q[i].depth = depth
            /\ q[i].url \in (U \cup {url}) \ (visited' \cup Queued(s.queue))
    BY <1>4, <2>2, <2>3, <2>6, <2>10 DEF Extends, n
  <2>12. Cardinality(visited' \cup Queued(q)) <= limit.found
    <3> DEFINE W == Queued(r.queue)
    <3>1. IsFiniteSet(W) /\ Cardinality(W) \in Nat /\ Cardinality(visited') \in Nat
      BY <1>1, QueuedFinite, FS_CardinalityType
    <3>2. Cardinality(W) + Cardinality(visited') < limit.found
      BY <1>4, <3>1 DEF Full
    <3>3. /\ IsFiniteSet(visited' \cup W)
          /\ Cardinality(visited' \cup W) = Cardinality(visited') + Cardinality(W) - Cardinality(visited' \cap W)
      BY <3>1, FS_Union
    <3>4. Cardinality(visited' \cap W) \in Nat
      BY FS_Intersection, FS_CardinalityType
    <3>5. visited' \cup Queued(q) = (visited' \cup W) \cup {url} /\ url \notin visited' \cup W
      BY <1>4, <2>3
    <3>6. Cardinality(visited' \cup Queued(q)) = Cardinality(visited' \cup W) + 1
      BY <3>3, <3>5, FS_AddElement
    <3> QED BY <3>1, <3>2, <3>3, <3>4, <3>6
  <2> QED BY <1>1, <2>1, <2>3, <2>4, <2>5, <2>8, <2>9, <2>11, <2>12 DEF Extends
<1> QED BY <1>2, <1>3, <1>4

\* What the loop over the pages leaves, after each of them.
Loop(f, state, urls, depth, n) ==
    f = [k \in 0..n |-> IF k = 0 THEN state ELSE Enqueue(f[k - 1], urls[k], depth)]

\* EnqueueAll is a loop over the pages.
LEMMA EnqueueAllDefined ==
    ASSUME NEW state, NEW urls, NEW depth, Len(urls) \in Nat
    PROVE  \E f : /\ Loop(f, state, urls, depth, Len(urls))
                  /\ EnqueueAll(state, urls, depth) = f[Len(urls)]
<1> DEFINE T == {n \in 0..Len(urls) : \E f : Loop(f, state, urls, depth, n)}
<1>1. 0 \in T
  <2>1. \E f : Loop(f, state, urls, depth, 0)
    <3> DEFINE f == [k \in 0..0 |-> IF k = 0 THEN state ELSE {}]
    <3>1. Loop(f, state, urls, depth, 0)
      BY DEF Loop
    <3> HIDE DEF f
    <3> QED BY <3>1
  <2> QED BY <2>1
<1>2. ASSUME NEW n \in 0..Len(urls), n # 0, n - 1 \in T PROVE n \in T
  <2>1. PICK f : Loop(f, state, urls, depth, n - 1)
    BY <1>2
  <2> DEFINE g == [k \in 0..n |-> IF k = n THEN Enqueue(f[n - 1], urls[n], depth) ELSE f[k]]
  <2>2. \A k \in 0..n : g[k] = IF k = 0 THEN state ELSE Enqueue(g[k - 1], urls[k], depth)
    <3> SUFFICES ASSUME NEW k \in 0..n
                 PROVE  g[k] = IF k = 0 THEN state ELSE Enqueue(g[k - 1], urls[k], depth)
      OBVIOUS
    <3>1. CASE k = n
      <4>1. k # 0 /\ k - 1 # n /\ k - 1 \in 0..n
        BY <1>2, <3>1
      <4> QED BY <3>1, <4>1
    <3>2. CASE k # n
      <4>1. k \in 0..(n - 1) /\ (k # 0 => k - 1 \in 0..(n - 1) /\ k - 1 \in 0..n /\ k - 1 # n)
        BY <1>2, <3>2
      <4> QED BY <2>1, <3>2, <4>1 DEF Loop
    <3> QED BY <3>1, <3>2
  <2>3. Loop(g, state, urls, depth, n)
    BY <2>2 DEF Loop
  <2> HIDE DEF g
  <2> QED BY <1>2, <2>3
<1>3. Len(urls) \in T
  <2> HIDE DEF T
  <2> QED BY <1>1, <1>2, UpTo
<1>4. \E f : Loop(f, state, urls, depth, Len(urls))
  BY <1>3
<1>5. Loop(CHOOSE f : Loop(f, state, urls, depth, Len(urls)), state, urls, depth, Len(urls))
  BY <1>4
<1>6. EnqueueAll(state, urls, depth)
        = (CHOOSE f : Loop(f, state, urls, depth, Len(urls)))[Len(urls)]
  BY DEF EnqueueAll, Loop
<1> QED BY <1>5, <1>6

\* Asking for a sequence of pages is asking for each of them.
LEMMA EnqueueAllExtends ==
    ASSUME NEW s \in State, NEW urls \in Seq(Page), NEW depth \in Nat,
           Distinct(s.queue), IsFiniteSet(visited'), limit.found \in Nat,
           Cardinality(visited' \cup Queued(s.queue)) <= limit.found
    PROVE  Extends(s, EnqueueAll(s, urls, depth), Elements(urls), depth)
<1> DEFINE n == Len(urls)
           Part(k) == {urls[i] : i \in 1..k}
<1>1. n \in Nat /\ DOMAIN urls = 1..n /\ \A i \in 1..n : urls[i] \in Page
  OBVIOUS
<1>2. s.queue \in Seq(Entry) /\ Len(s.queue) \in Nat /\ DOMAIN s.queue = 1..Len(s.queue)
  BY DEF State
<1>3. PICK f : /\ Loop(f, s, urls, depth, n)
               /\ EnqueueAll(s, urls, depth) = f[n]
  BY <1>1, EnqueueAllDefined
<1> HIDE DEF n
<1> HIDE DEF Part
<1> DEFINE T == {k \in 0..n : Extends(s, f[k], Part(k), depth)}
<1>4. 0 \in T
  <2>1. f[0] = s /\ 0 \in 0..n
    BY <1>1, <1>3 DEF Loop
  <2>2. Part(0) = {}
    BY DEF Part
  <2>3. Extends(s, s, {}, depth)
    BY <1>2 DEF Extends
  <2> QED BY <2>1, <2>2, <2>3
<1>5. ASSUME NEW k \in 0..n, k # 0, k - 1 \in T PROVE k \in T
  <2>1. k \in 1..n /\ k - 1 \in 0..n /\ k \in 0..n
    BY <1>1, <1>5
  <2>2. f[k] = Enqueue(f[k - 1], urls[k], depth)
    BY <1>3, <1>5, <2>1 DEF Loop
  <2>3. Part(k) = Part(k - 1) \cup {urls[k]}
    <3>1. \A i \in 1..k : i \in 1..(k - 1) \/ i = k
      BY <1>1, <2>1
    <3>2. \A i \in 1..(k - 1) : i \in 1..k
      BY <1>1, <2>1
    <3>3. k \in 1..k
      BY <2>1
    <3> QED BY <3>1, <3>2, <3>3 DEF Part
  <2>4. urls[k] \in Page
    BY <1>1, <2>1
  <2>5. Extends(s, f[k - 1], Part(k - 1), depth)
    BY <1>5
  <2> HIDE DEF T
  <2>6. Extends(s, Enqueue(f[k - 1], urls[k], depth), Part(k - 1) \cup {urls[k]}, depth)
    BY <1>2, <2>4, <2>5, EnqueueStep
  <2>7. Extends(s, f[k], Part(k), depth)
    BY <2>2, <2>3, <2>6
  <2> QED BY <2>1, <2>7 DEF T
<1>6. n \in T
  <2> HIDE DEF T
  <2>1. n \in Nat /\ n \in 0..n
    BY <1>1 DEF n
  <2>2. \A k \in 0..n : k \in T
    BY <1>4, <1>5, <2>1, UpTo
  <2> QED BY <2>1, <2>2
<1>7. Part(n) = Elements(urls)
  BY <1>1 DEF Elements, Part
<1>8. Extends(s, f[n], Part(n), depth)
  BY <1>6
<1> HIDE DEF T
<1> QED BY <1>3, <1>7, <1>8

\* Sequences of pages without repetition are sequences of pages.
LEMMA PathsAreSequences ==
    ASSUME NEW n \in Nat, NEW s \in Paths(n) PROVE s \in Seq(Page)
BY DEF Paths

Seen == visited \cup Queued(queue)

Fetched == [html : BOOLEAN, found : Seq(Page), cut : BOOLEAN]

CrawlTypes ==
    /\ limit \in Limits /\ disallowed \in SUBSET Page
    /\ queue \in Seq(Entry) /\ Distinct(queue)
    /\ visited \in SUBSET Page /\ IsFiniteSet(visited) /\ Queued(queue) \cap visited = {}
    /\ Home \in Seen /\ Cardinality(Seen) <= limit.found
    /\ observed \in Seq(Page) /\ Len(observed) <= limit.pages
    /\ Elements(observed) \subseteq visited \ disallowed
    /\ truncated \in BOOLEAN /\ sitemap \in SUBSET Page
    /\ links \in [Page -> Fetched] /\ \A p \in Page \ visited : links[p].found = <<>>

\* The queue loses its head.
LEMMA QueuedTail ==
    ASSUME NEW q \in Seq(Entry), q # <<>>
    PROVE  /\ Head(q) \in Entry /\ Head(q) = q[1] /\ Tail(q) \in Seq(Entry)
           /\ Len(q) \in Nat \ {0} /\ Len(Tail(q)) = Len(q) - 1
           /\ DOMAIN q = 1..Len(q) /\ DOMAIN Tail(q) = 1..(Len(q) - 1)
           /\ \A i \in 1..(Len(q) - 1) : i + 1 \in 1..Len(q) /\ Tail(q)[i] = q[i + 1]
           /\ Queued(q) = {Head(q).url} \cup Queued(Tail(q))
           /\ Distinct(q) => Distinct(Tail(q)) /\ Head(q).url \notin Queued(Tail(q))
<1> DEFINE n == Len(q)
           t == Tail(q)
           head == Head(q)
<1>1. /\ head \in Entry /\ head = q[1] /\ t \in Seq(Entry) /\ n \in Nat \ {0} /\ Len(t) = n - 1
      /\ DOMAIN q = 1..n /\ DOMAIN t = 1..(n - 1)
      /\ \A i \in 1..(n - 1) : i + 1 \in 1..n /\ t[i] = q[i + 1]
  OBVIOUS
<1> HIDE DEF n, t, head
<1>2. /\ \A i \in 1..n : i = 1 \/ (i - 1 \in 1..(n - 1) /\ (i - 1) + 1 = i)
      /\ 1 \in 1..n
      /\ \A i, j \in 1..(n - 1) : i + 1 = j + 1 => i = j
      /\ \A i \in 1..(n - 1) : i + 1 # 1
  BY <1>1
<1>3. Queued(q) = {head.url} \cup Queued(t)
  <2>1. ASSUME NEW i \in 1..n PROVE q[i].url \in {head.url} \cup Queued(t)
    <3>1. CASE i = 1
      BY <1>1, <3>1
    <3>2. CASE i # 1
      <4>1. i - 1 \in 1..(n - 1) /\ t[i - 1] = q[i]
        BY <1>1, <1>2, <3>2
      <4> QED BY <1>1, <4>1 DEF Queued
    <3> QED BY <3>1, <3>2
  <2>2. head.url \in Queued(q)
    BY <1>1, <1>2 DEF Queued
  <2>3. ASSUME NEW i \in 1..(n - 1) PROVE t[i].url \in Queued(q)
    <3>1. i + 1 \in DOMAIN q /\ t[i] = q[i + 1]
      BY <1>1
    <3> QED BY <3>1 DEF Queued
  <2> QED BY <1>1, <2>1, <2>2, <2>3 DEF Queued
<1>4. ASSUME Distinct(q) PROVE Distinct(t) /\ head.url \notin Queued(t)
  <2>1. ASSUME NEW i \in 1..(n - 1), NEW j \in 1..(n - 1), t[i].url = t[j].url PROVE i = j
    <3>1. q[i + 1].url = q[j + 1].url /\ i + 1 \in 1..n /\ j + 1 \in 1..n
      BY <1>1, <2>1
    <3>2. i + 1 = j + 1
      BY <1>1, <1>4, <3>1 DEF Distinct
    <3> QED BY <1>2, <3>2
  <2>2. \A i \in 1..(n - 1) : t[i].url # head.url
    BY <1>1, <1>2, <1>4 DEF Distinct
  <2>3. Distinct(t)
    BY <1>1, <2>1 DEF Distinct
  <2> QED BY <1>1, <2>2, <2>3 DEF Queued
<1> QED BY <1>1, <1>3, <1>4 DEF n, t, head

\* What a page that is visited does: it is seen, and what it links to is asked for.
VisitOf(entry, found) ==
    /\ queue # <<>> /\ entry = Head(queue)
    /\ visited' = visited \cup {entry.url}
    /\ UNCHANGED <<limit, disallowed, sitemap>>
    /\ Extends([queue |-> Tail(queue), truncated |-> truncated],
               [queue |-> queue', truncated |-> truncated'], Elements(found), entry.depth + 1)
    /\ links' \in [Page -> Fetched]
    /\ links'[entry.url].found = found /\ \A p \in Page \ {entry.url} : links'[p] = links[p]

\* Every visit is one, and an observation is of a page that was asked for and is open.
LEMMA VisitIsVisitOf ==
    ASSUME CrawlTypes, Visit
    PROVE  /\ \E found : VisitOf(Head(queue), found)
           /\ observed' \in Seq(Page) /\ Len(observed') <= limit.pages
           /\ Elements(observed') \subseteq visited' \ disallowed
<1> DEFINE entry == Head(queue)
           rest == [queue |-> Tail(queue), truncated |-> truncated]
<1>0. queue \in Seq(Entry) /\ queue # <<>> /\ Len(observed) < limit.pages /\ observed \in Seq(Page)
  BY DEF CrawlTypes, Visit, Going
<1>1. /\ entry \in Entry /\ Tail(queue) \in Seq(Entry)
      /\ Queued(queue) = {entry.url} \cup Queued(Tail(queue))
      /\ Distinct(Tail(queue)) /\ entry.url \notin Queued(Tail(queue))
  BY <1>0, QueuedTail DEF CrawlTypes
<1>2. entry.url \in Page /\ entry.depth \in Nat /\ entry.depth + 1 \in Nat
  BY <1>1, FrontierAssumption DEF Entry, FrontierAssumption
<1>3. rest \in State /\ rest.queue = Tail(queue) /\ rest.truncated = truncated
  BY <1>1 DEF State, CrawlTypes
<1>4. visited' = visited \cup {entry.url} /\ IsFiniteSet(visited') /\ visited' \subseteq Page
  BY <1>2, FS_AddElement DEF CrawlTypes, Visit
<1>5. Cardinality(visited' \cup Queued(rest.queue)) <= limit.found /\ limit.found \in Nat
  <2>1. visited' \cup Queued(rest.queue) = Seen
    BY <1>1, <1>3, <1>4 DEF Seen
  <2> QED BY <2>1, FrontierAssumption DEF CrawlTypes, FrontierAssumption
<1>6. links[entry.url].found = <<>> /\ links \in [Page -> Fetched]
  BY <1>1, <1>2 DEF CrawlTypes
<1>7. /\ limit' = limit /\ disallowed' = disallowed /\ sitemap' = sitemap
      /\ limit.pages \in Nat
  BY FrontierAssumption DEF Visit, CrawlTypes, FrontierAssumption
<1>8. Elements(observed) \subseteq visited \ disallowed
  BY DEF CrawlTypes
<1>9. CASE queue' = rest.queue /\ UNCHANGED <<observed, truncated, links>>
  <2>1. Elements(<<>>) = {}
    BY DEF Elements
  <2>2. [queue |-> queue', truncated |-> truncated'] = rest
    BY <1>3, <1>9
  <2>3. Extends(rest, rest, {}, entry.depth + 1)
    <3>1. rest.queue \in Seq(Entry)
      BY <1>1, <1>3
    <3> HIDE DEF rest
    <3>2. Len(rest.queue) \in Nat /\ DOMAIN rest.queue = 1..Len(rest.queue)
      BY <3>1
    <3> QED BY <1>1, <1>3, <1>5, <3>1, <3>2 DEF Extends
  <2>4. VisitOf(entry, <<>>)
    <3> HIDE DEF entry
    <3> QED BY <1>0, <1>4, <1>6, <1>7, <1>9, <2>1, <2>2, <2>3 DEF VisitOf, entry
  <2>5. /\ observed' \in Seq(Page) /\ Len(observed') <= limit.pages
        /\ Elements(observed') \subseteq visited' \ disallowed
    BY <1>0, <1>4, <1>7, <1>8, <1>9
  <2> QED BY <2>4, <2>5
<1>10. ASSUME NEW answer \in Answer, entry.url \notin disallowed,
              links' = [links EXCEPT ![entry.url] = answer],
              queue' = EnqueueAll(rest, answer.found, entry.depth + 1).queue,
              truncated' = EnqueueAll(rest, answer.found, entry.depth + 1).truncated,
              observed' = Append(observed, entry.url)
       PROVE  /\ \E found : VisitOf(entry, found)
              /\ observed' \in Seq(Page) /\ Len(observed') <= limit.pages
              /\ Elements(observed') \subseteq visited' \ disallowed
  <2> DEFINE r == EnqueueAll(rest, answer.found, entry.depth + 1)
  <2>1. answer \in Fetched /\ answer.found \in Seq(Page)
    <3>1. answer.found \in Paths(MaxLinks) /\ MaxLinks \in Nat
      BY FrontierAssumption DEF Answer, FrontierAssumption
    <3>2. answer.found \in Seq(Page)
      BY <3>1, PathsAreSequences
    <3> QED BY <3>2 DEF Answer, Fetched
  <2>2. Extends(rest, r, Elements(answer.found), entry.depth + 1)
    <3> HIDE DEF rest, entry
    <3> QED BY <1>1, <1>2, <1>3, <1>4, <1>5, <2>1, EnqueueAllExtends
  <2>3. r \in State /\ queue' = r.queue /\ truncated' = r.truncated
    BY <1>10, <2>2 DEF Extends
  <2> HIDE DEF r
  <2>4. [queue |-> queue', truncated |-> truncated'] = r
    BY <2>3 DEF State
  <2>5. /\ links' \in [Page -> Fetched] /\ links'[entry.url] = answer
        /\ \A p \in Page \ {entry.url} : links'[p] = links[p]
    <3> HIDE DEF entry
    <3> QED BY <1>2, <1>6, <1>10, <2>1
  <2>6. VisitOf(entry, answer.found)
    <3> HIDE DEF entry
    <3> QED BY <1>0, <1>4, <1>7, <2>2, <2>4, <2>5 DEF VisitOf, entry
  <2>7. observed' \in Seq(Page) /\ Len(observed') <= limit.pages
    BY <1>0, <1>2, <1>7, <1>10
  <2>8. Elements(observed') = Elements(observed) \cup {entry.url}
    <3> DEFINE o == observed'
               m == Len(observed)
    <3>1. /\ m \in Nat /\ DOMAIN observed = 1..m /\ DOMAIN o = 1..(m + 1)
          /\ \A i \in 1..m : o[i] = observed[i] /\ i \in 1..(m + 1)
          /\ o[m + 1] = entry.url /\ m + 1 \in 1..(m + 1)
      BY <1>0, <1>2, <1>10
    <3>2. \A i \in 1..(m + 1) : i \in 1..m \/ i = m + 1
      BY <3>1
    <3> HIDE DEF o, m, entry
    <3>3. Elements(o) = Elements(observed) \cup {entry.url}
      BY <3>1, <3>2 DEF Elements
    <3> QED BY <3>3 DEF o
  <2> QED BY <1>4, <1>8, <1>10, <2>6, <2>7, <2>8
<1> QED BY <1>9, <1>10 DEF Visit

Waiting == 1..Len(queue)

\* The hops d to each known page, by the order in which the pages were found.
Reached(d) ==
    /\ d \in [Page -> Nat] /\ d[Home] = 0
    /\ \A i \in Waiting : queue[i].depth = d[queue[i].url]
    /\ \A i, j \in Waiting :
          /\ i <= j => queue[i].depth <= queue[j].depth
          /\ queue[j].depth <= queue[i].depth + 1
    /\ \A p \in visited : d[p] <= MaxDepth /\ \A i \in Waiting : d[p] <= queue[i].depth
    /\ \A p \in Seen : \/ d[p] = 0 /\ p \in {Home} \cup sitemap
                       \/ \E q \in visited : d[p] = d[q] + 1 /\ p \in Elements(links[q].found)
    /\ ~truncated =>
          /\ \A p \in sitemap : p \in Seen /\ d[p] = 0
          /\ \A p \in visited : d[p] < MaxDepth =>
                \A q \in Elements(links[p].found) : q \in Seen /\ d[q] <= d[p] + 1

CrawlInv == CrawlTypes /\ \E d : Reached(d)

\* What asking for pages does to the pages known.
LEMMA ExtendsSeen ==
    ASSUME NEW s \in State, NEW r, NEW U, NEW depth \in Nat, Extends(s, r, U, depth)
    PROVE  /\ r.queue \in Seq(Entry) /\ Distinct(r.queue) /\ r.truncated \in BOOLEAN
           /\ Len(s.queue) \in Nat /\ Len(r.queue) \in Nat /\ Len(s.queue) <= Len(r.queue)
           /\ DOMAIN s.queue = 1..Len(s.queue) /\ DOMAIN r.queue = 1..Len(r.queue)
           /\ \A i \in 1..Len(s.queue) : r.queue[i] = s.queue[i]
           /\ \A i \in 1..Len(r.queue) : i \notin 1..Len(s.queue) =>
                 /\ r.queue[i].depth = depth
                 /\ r.queue[i].url \in U \ (visited' \cup Queued(s.queue))
           /\ Queued(s.queue) \subseteq Queued(r.queue)
           /\ \A p \in Queued(r.queue) \ Queued(s.queue) : p \in U \ visited'
           /\ ~r.truncated => /\ ~s.truncated
                              /\ depth <= MaxDepth => U \subseteq visited' \cup Queued(r.queue)
           /\ Cardinality(visited' \cup Queued(r.queue)) <= limit.found
<1>1. r.queue \in Seq(Entry) /\ Distinct(r.queue) /\ r.truncated \in BOOLEAN
  BY DEF Extends, State
<1>2. /\ Len(s.queue) \in Nat /\ Len(r.queue) \in Nat
      /\ DOMAIN s.queue = 1..Len(s.queue) /\ DOMAIN r.queue = 1..Len(r.queue)
  <2>1. s.queue \in Seq(Entry)
    BY DEF State
  <2> QED BY <1>1, <2>1
<1>3. /\ Len(s.queue) <= Len(r.queue)
      /\ \A i \in 1..Len(s.queue) : r.queue[i] = s.queue[i] /\ i \in 1..Len(r.queue)
  BY <1>2 DEF Extends
<1>4. \A i \in 1..Len(r.queue) : i \notin 1..Len(s.queue) =>
         /\ r.queue[i].depth = depth
         /\ r.queue[i].url \in U \ (visited' \cup Queued(s.queue))
  <2>1. \A i \in 1..Len(r.queue) : i \notin 1..Len(s.queue) => i > Len(s.queue)
    BY <1>2
  <2> QED BY <2>1 DEF Extends
<1>5. Queued(s.queue) \subseteq Queued(r.queue)
  BY <1>2, <1>3 DEF Queued
<1>6. \A p \in Queued(r.queue) \ Queued(s.queue) : p \in U \ visited'
  <2> SUFFICES ASSUME NEW i \in 1..Len(r.queue), r.queue[i].url \notin Queued(s.queue)
               PROVE  r.queue[i].url \in U \ visited'
    BY <1>2 DEF Queued
  <2>1. i \notin 1..Len(s.queue)
    BY <1>2, <1>3 DEF Queued
  <2> QED BY <1>4, <2>1
<1>7. /\ ~r.truncated => /\ ~s.truncated
                         /\ depth <= MaxDepth => U \subseteq visited' \cup Queued(r.queue)
      /\ Cardinality(visited' \cup Queued(r.queue)) <= limit.found
  BY DEF Extends
<1> QED BY <1>1, <1>2, <1>3, <1>4, <1>5, <1>6, <1>7

\* A page that waits is not yet visited.
LEMMA QueuedApart ==
    ASSUME CrawlTypes
    PROVE  \A i \in Waiting : /\ queue[i] \in Entry /\ queue[i].url \in Page \ visited
                              /\ queue[i].url \in Queued(queue) /\ queue[i].depth \in 0..MaxDepth
<1>1. DOMAIN queue = Waiting /\ \A i \in Waiting : queue[i] \in Entry
  BY DEF CrawlTypes, Waiting
<1>2. \A i \in Waiting : queue[i].url \in Queued(queue)
  BY <1>1 DEF Queued
<1> QED BY <1>1, <1>2 DEF Entry, CrawlTypes

\* The types, of a visit.
LEMMA VisitTypes ==
    ASSUME CrawlTypes, NEW found \in Seq(Page), VisitOf(Head(queue), found),
           observed' \in Seq(Page), Len(observed') <= limit.pages,
           Elements(observed') \subseteq visited' \ disallowed
    PROVE  CrawlTypes'
<1> DEFINE entry == Head(queue)
<1>1. /\ entry \in Entry /\ Tail(queue) \in Seq(Entry)
      /\ Queued(queue) = {entry.url} \cup Queued(Tail(queue))
      /\ Distinct(Tail(queue)) /\ entry.url \notin Queued(Tail(queue))
  BY QueuedTail DEF CrawlTypes, VisitOf
<1>2. entry.url \in Page /\ entry.depth + 1 \in Nat
  BY <1>1, FrontierAssumption DEF Entry, FrontierAssumption
<1>3. Elements(found) \in SUBSET Page
  BY DEF Elements
<1>4. /\ queue' \in Seq(Entry) /\ Distinct(queue') /\ truncated' \in BOOLEAN
      /\ Queued(Tail(queue)) \subseteq Queued(queue')
      /\ \A p \in Queued(queue') \ Queued(Tail(queue)) : p \in Elements(found) \ visited'
      /\ Cardinality(visited' \cup Queued(queue')) <= limit.found
  <2> DEFINE s == [queue |-> Tail(queue), truncated |-> truncated]
             r == [queue |-> queue', truncated |-> truncated']
             next == entry.depth + 1
  <2>1. Extends(s, r, Elements(found), next) /\ next \in Nat
    BY <1>2 DEF VisitOf
  <2>2. /\ s.queue = Tail(queue) /\ s.truncated = truncated
        /\ r.queue = queue' /\ r.truncated = truncated'
    OBVIOUS
  <2>3. s \in State
    BY <1>1 DEF State, CrawlTypes
  <2> HIDE DEF entry, s, r, next
  <2> QED BY <2>1, <2>2, <2>3, ExtendsSeen
<1>5. /\ visited' = visited \cup {entry.url} /\ limit' = limit /\ disallowed' = disallowed
      /\ sitemap' = sitemap /\ links' \in [Page -> Fetched]
      /\ \A p \in Page \ {entry.url} : links'[p] = links[p]
  BY DEF VisitOf
<1> HIDE DEF entry
<1>6. IsFiniteSet(visited') /\ visited' \in SUBSET Page
  BY <1>2, <1>5, FS_AddElement DEF CrawlTypes
<1>7. Queued(queue') \cap visited' = {}
  BY <1>1, <1>4, <1>5 DEF CrawlTypes
<1>8. Seen' = visited' \cup Queued(queue') /\ Home \in Seen'
  BY <1>1, <1>4, <1>5 DEF CrawlTypes, Seen
<1>9. \A p \in Page \ visited' : links'[p].found = <<>>
  BY <1>5 DEF CrawlTypes
<1> QED BY <1>4, <1>5, <1>6, <1>7, <1>8, <1>9 DEF CrawlTypes

\* The hops, of a visit.
LEMMA VisitReached ==
    ASSUME CrawlTypes, CrawlTypes', NEW found \in Seq(Page), VisitOf(Head(queue), found),
           NEW d, Reached(d),
           NEW e, e = [p \in Page |-> IF p \in Seen THEN d[p] ELSE Head(queue).depth + 1]
    PROVE  Reached(e)'
<1> DEFINE entry == Head(queue)
           q == Tail(queue)
           m == Len(q)
           n == Len(queue')
           D == entry.depth
<1>1. /\ queue \in Seq(Entry) /\ queue # <<>>
      /\ visited' = visited \cup {entry.url} /\ sitemap' = sitemap
      /\ links'[entry.url].found = found /\ \A p \in Page \ {entry.url} : links'[p] = links[p]
  BY DEF VisitOf, CrawlTypes
<1>2. /\ entry \in Entry /\ entry = queue[1] /\ q \in Seq(Entry)
      /\ Len(queue) \in Nat \ {0} /\ m = Len(queue) - 1
      /\ \A i \in 1..m : i + 1 \in Waiting /\ q[i] = queue[i + 1]
      /\ Queued(queue) = {entry.url} \cup Queued(q)
      /\ entry.url \notin Queued(q)
  BY <1>1, QueuedTail DEF CrawlTypes, Waiting
<1>3. /\ entry.url \in Page /\ D \in Nat /\ D <= MaxDepth /\ D + 1 \in Nat /\ MaxDepth \in Nat
      /\ Elements(found) \in SUBSET Page /\ 1 \in Waiting /\ m \in Nat
  BY <1>2, FrontierAssumption DEF Entry, FrontierAssumption, Elements, Waiting
<1>4. /\ queue' \in Seq(Entry) /\ truncated' \in BOOLEAN /\ n \in Nat /\ m <= n
      /\ DOMAIN queue' = 1..n
      /\ \A i \in 1..m : queue'[i] = q[i]
      /\ \A i \in 1..n : i \notin 1..m =>
            queue'[i].depth = D + 1 /\ queue'[i].url \in Elements(found) \ (visited' \cup Queued(q))
      /\ Queued(q) \subseteq Queued(queue')
      /\ \A p \in Queued(queue') \ Queued(q) : p \in Elements(found) \ visited'
      /\ ~truncated' => ~truncated /\ (D + 1 <= MaxDepth => Elements(found) \subseteq visited' \cup Queued(queue'))
  <2> DEFINE s == [queue |-> q, truncated |-> truncated]
             r == [queue |-> queue', truncated |-> truncated']
             next == D + 1
  <2>0. next = D + 1
    OBVIOUS
  <2>1. Extends(s, r, Elements(found), next) /\ next \in Nat
    BY <1>3 DEF VisitOf
  <2>2. s.queue = q /\ s.truncated = truncated /\ r.queue = queue' /\ r.truncated = truncated'
    OBVIOUS
  <2>3. s \in State
    BY <1>2 DEF State, CrawlTypes
  <2> HIDE DEF entry, q, s, r, next, D, m, n
  <2>4. /\ r.queue \in Seq(Entry) /\ r.truncated \in BOOLEAN
        /\ Len(r.queue) \in Nat /\ Len(s.queue) <= Len(r.queue)
        /\ DOMAIN r.queue = 1..Len(r.queue)
        /\ \A i \in 1..Len(s.queue) : r.queue[i] = s.queue[i]
        /\ \A i \in 1..Len(r.queue) : i \notin 1..Len(s.queue) =>
              /\ r.queue[i].depth = next
              /\ r.queue[i].url \in Elements(found) \ (visited' \cup Queued(s.queue))
    BY <2>1, <2>3, ExtendsSeen
  <2>5. /\ Queued(q) \subseteq Queued(queue')
        /\ \A p \in Queued(queue') \ Queued(q) : p \in Elements(found) \ visited'
        /\ ~truncated' => ~truncated /\ (next <= MaxDepth => Elements(found) \subseteq visited' \cup Queued(queue'))
    BY <2>1, <2>2, <2>3, ExtendsSeen
  <2>6. Len(queue') = n /\ Len(q) = m
    BY DEF n, m
  <2> QED BY <2>0, <2>2, <2>4, <2>5, <2>6
<1>5. Waiting' = 1..n
  BY DEF Waiting
<1> HIDE DEF q, m, n, D, entry
<1>6. /\ Seen = visited' \cup Queued(q) /\ Seen' = visited' \cup Queued(queue')
      /\ Seen \subseteq Seen' /\ Seen' \subseteq Page /\ entry.url \in Seen
      /\ \A p \in Seen' \ Seen : p \in Elements(found)
  <2>1. Seen = visited' \cup Queued(q) /\ Seen' = visited' \cup Queued(queue')
    BY <1>1, <1>2 DEF Seen
  <2>2. Queued(queue') \subseteq Page
    BY <1>4, QueuedFinite
  <2> QED BY <1>1, <1>4, <2>1, <2>2 DEF CrawlTypes
<1>7. d \in [Page -> Nat] /\ d[Home] = 0 /\ Home \in Seen
  BY DEF Reached, CrawlTypes
<1>8. /\ e \in [Page -> Nat] /\ \A p \in Seen : e[p] = d[p]
      /\ \A p \in Page \ Seen : e[p] = D + 1
  BY <1>3, <1>6, <1>7 DEF D, entry
<1>9. d[entry.url] = D /\ e[entry.url] = D
  BY <1>2, <1>3, <1>6, <1>8 DEF Reached, D
\* What waits, before and after.
<1>10. ASSUME NEW i \in 1..m
       PROVE  /\ queue'[i] = queue[i + 1] /\ i + 1 \in Waiting
              /\ queue'[i].depth \in Nat /\ D <= queue'[i].depth /\ queue'[i].depth <= D + 1
              /\ queue'[i].url \in Seen /\ e[queue'[i].url] = queue'[i].depth
  <2>1. queue'[i] = queue[i + 1] /\ i + 1 \in Waiting /\ 1 <= i + 1
    <3>1. i + 1 \in Waiting /\ q[i] = queue[i + 1]
      BY <1>2
    <3>2. queue'[i] = q[i]
      BY <1>4
    <3>3. 1 <= i + 1
      BY <1>3
    <3> QED BY <3>1, <3>2, <3>3
  <2>2. queue[i + 1] \in Entry /\ queue[i + 1].url \in Seen /\ queue[i + 1].depth \in Nat
    BY <2>1, QueuedApart DEF Seen
  <2>3. D <= queue[i + 1].depth /\ queue[i + 1].depth <= D + 1
    BY <1>2, <1>3, <2>1 DEF Reached, D
  <2>4. d[queue[i + 1].url] = queue[i + 1].depth
    BY <2>1 DEF Reached
  <2> QED BY <1>8, <2>1, <2>2, <2>3, <2>4
<1>11. ASSUME NEW i \in 1..n, i \notin 1..m
       PROVE  queue'[i].depth = D + 1 /\ e[queue'[i].url] = queue'[i].depth
  BY <1>3, <1>4, <1>6, <1>8, <1>11
<1>12. ASSUME NEW i \in 1..n
       PROVE  /\ queue'[i].depth = e[queue'[i].url]
              /\ queue'[i].depth \in Nat /\ D <= queue'[i].depth /\ queue'[i].depth <= D + 1
  <2>1. CASE i \in 1..m
    BY <1>10, <2>1
  <2>2. CASE i \notin 1..m
    <3>1. queue'[i].depth = D + 1 /\ queue'[i].depth = e[queue'[i].url]
      BY <1>11, <2>2
    <3> QED BY <1>3, <3>1
  <2> QED BY <2>1, <2>2
<1>13. ASSUME NEW i \in 1..n, NEW j \in 1..n
       PROVE  /\ i <= j => queue'[i].depth <= queue'[j].depth
              /\ queue'[j].depth <= queue'[i].depth + 1
  <2>1. queue'[j].depth <= queue'[i].depth + 1
    BY <1>3, <1>12
  <2>2. CASE j \notin 1..m
    BY <1>3, <1>11, <1>12, <2>1, <2>2
  <2>3. CASE j \in 1..m /\ i \notin 1..m
    <3>1. ~(i <= j)
      BY <1>3, <1>4, <2>3
    <3> QED BY <2>1, <3>1
  <2>4. CASE j \in 1..m /\ i \in 1..m
    <3>1. i <= j => i + 1 <= j + 1
      BY <1>3, <2>4
    <3>2. i + 1 \in Waiting /\ j + 1 \in Waiting /\ queue'[i] = queue[i + 1] /\ queue'[j] = queue[j + 1]
      BY <1>10, <2>4
    <3> QED BY <2>1, <3>1, <3>2 DEF Reached
  <2> QED BY <2>2, <2>3, <2>4
\* What is visited.
<1>14. ASSUME NEW p \in visited'
       PROVE  /\ e[p] = d[p] /\ e[p] \in Nat /\ e[p] <= D /\ p \in Seen /\ p \in Page
  <2>1. p \in Seen /\ p \in Page /\ e[p] = d[p]
    BY <1>6, <1>8
  <2>2. CASE p = entry.url
    BY <1>3, <1>9, <2>1, <2>2
  <2>3. CASE p \in visited
    <3>1. d[p] <= queue[1].depth
      BY <1>3, <2>3 DEF Reached
    <3> QED BY <1>2, <1>7, <2>1, <3>1 DEF D
  <2> QED BY <1>1, <2>2, <2>3
<1>15. ASSUME NEW p \in visited'
       PROVE  e[p] <= MaxDepth /\ \A i \in 1..n : e[p] <= queue'[i].depth
  <2>1. e[p] \in Nat /\ e[p] <= D
    BY <1>14
  <2>2. e[p] <= MaxDepth
    BY <1>3, <2>1
  <2>3. ASSUME NEW i \in 1..n PROVE e[p] <= queue'[i].depth
    <3>1. queue'[i].depth \in Nat /\ D <= queue'[i].depth
      BY <1>12
    <3> QED BY <1>3, <2>1, <3>1
  <2> QED BY <2>2, <2>3
\* How each page was reached.
<1>16. ASSUME NEW p \in Seen'
       PROVE  \/ e[p] = 0 /\ p \in {Home} \cup sitemap
              \/ \E r \in visited' : e[p] = e[r] + 1 /\ p \in Elements(links'[r].found)
  <2>1. CASE p \in Seen
    <3>1. \/ d[p] = 0 /\ p \in {Home} \cup sitemap
          \/ \E r \in visited : d[p] = d[r] + 1 /\ p \in Elements(links[r].found)
      BY <2>1 DEF Reached
    <3>2. ASSUME NEW r \in visited
          PROVE  r \in visited' /\ e[r] = d[r] /\ links'[r] = links[r]
      <4>1. r \in visited' /\ r \in Page /\ r # entry.url
        BY <1>1, <1>2, <3>2 DEF CrawlTypes
      <4> QED BY <1>1, <1>14, <4>1
    <3> QED BY <1>8, <2>1, <3>1, <3>2
  <2>2. CASE p \notin Seen
    <3>1. p \in Elements(found) /\ p \in Page /\ e[p] = D + 1
      BY <1>6, <1>8, <2>2
    <3> QED BY <1>1, <1>9, <3>1
  <2> QED BY <2>1, <2>2
\* Nothing is missing, as long as nothing is cut.
<1>17. ASSUME ~truncated', NEW p \in sitemap' PROVE p \in Seen' /\ e[p] = 0
  <2>1. p \in Seen /\ d[p] = 0
    BY <1>1, <1>4, <1>17 DEF Reached
  <2> QED BY <1>6, <1>8, <2>1
<1>18. ASSUME ~truncated', NEW p \in visited', e[p] < MaxDepth,
              NEW r \in Elements(links'[p].found)
       PROVE  r \in Seen' /\ e[r] <= e[p] + 1
  <2>1. CASE p = entry.url
    <3>1. r \in Elements(found) /\ e[p] = D /\ D + 1 <= MaxDepth
      BY <1>1, <1>3, <1>9, <1>18, <2>1
    <3>2. r \in Seen'
      BY <1>4, <1>6, <1>18, <3>1
    <3>3. CASE r \notin Seen
      BY <1>3, <1>6, <1>8, <3>1, <3>2, <3>3
    <3>4. CASE r \in visited'
      <4>1. e[r] \in Nat /\ e[r] <= D
        BY <1>14, <3>4
      <4> QED BY <1>3, <3>1, <3>2, <4>1
    <3>5. CASE r \in Queued(queue')
      <4>1. PICK i \in 1..n : r = queue'[i].url
        BY <1>4, <3>5 DEF Queued
      <4> QED BY <1>12, <3>1, <3>2, <4>1
    <3> QED BY <1>6, <3>2, <3>4, <3>5
  <2>2. CASE p # entry.url
    <3>1. p \in visited /\ links'[p] = links[p] /\ e[p] = d[p]
      BY <1>1, <1>14, <2>2
    <3>2. r \in Seen /\ d[r] <= d[p] + 1
      BY <1>4, <1>18, <3>1 DEF Reached
    <3> QED BY <1>6, <1>8, <3>1, <3>2
  <2> QED BY <2>1, <2>2
<1>19. e[Home] = 0
  BY <1>7, <1>8
<1>20. /\ \A i \in Waiting' : queue'[i].depth = e[queue'[i].url]
       /\ \A i, j \in Waiting' :
             /\ i <= j => queue'[i].depth <= queue'[j].depth
             /\ queue'[j].depth <= queue'[i].depth + 1
       /\ \A p \in visited' : e[p] <= MaxDepth /\ \A i \in Waiting' : e[p] <= queue'[i].depth
  BY <1>5, <1>12, <1>13, <1>15
<1>21. \A p \in Seen' : \/ e[p] = 0 /\ p \in {Home} \cup sitemap'
                        \/ \E r \in visited' : e[p] = e[r] + 1 /\ p \in Elements(links'[r].found)
  BY <1>1, <1>16
<1>22. ~truncated' =>
          /\ \A p \in sitemap' : p \in Seen' /\ e[p] = 0
          /\ \A p \in visited' : e[p] < MaxDepth =>
                \A r \in Elements(links'[p].found) : r \in Seen' /\ e[r] <= e[p] + 1
  BY <1>17, <1>18
<1> QED BY <1>8, <1>19, <1>20, <1>21, <1>22 DEF Reached

\* The sitemaps are read: what they declare is asked for, at no hops.
LEMMA ReadSitemapsKeeps ==
    ASSUME CrawlTypes, NEW d, Reached(d), ReadSitemaps,
           NEW e, e = [p \in Page |-> 0]
    PROVE  CrawlTypes' /\ Reached(e)'
<1>1. PICK declared \in Paths(MaxDeclared), long \in BOOLEAN :
         LET state == EnqueueAll([queue |-> queue, truncated |-> long], declared, 0) IN
         /\ sitemap' = Elements(declared)
         /\ queue' = state.queue /\ truncated' = state.truncated
  BY DEF ReadSitemaps
<1> DEFINE s == [queue |-> queue, truncated |-> long]
           r == EnqueueAll(s, declared, 0)
           n == Len(queue')
<1>2. /\ s.queue = queue /\ s \in State
      /\ r.queue = queue' /\ r.truncated = truncated' /\ sitemap' = Elements(declared)
  BY <1>1 DEF State, CrawlTypes
<1>3. /\ visited' = visited /\ visited = {} /\ Len(queue) = 1 /\ sitemap = {}
      /\ limit' = limit /\ disallowed' = disallowed /\ observed' = observed /\ links' = links
  BY DEF ReadSitemaps
<1>4. declared \in Seq(Page) /\ Elements(declared) \in SUBSET Page
  <2>1. declared \in Seq(Page)
    BY PathsAreSequences, FrontierAssumption DEF FrontierAssumption
  <2> QED BY <2>1 DEF Elements
<1>5. Extends(s, r, Elements(declared), 0)
  <2>1. Cardinality(visited' \cup Queued(queue)) <= limit.found /\ limit.found \in Nat
    BY <1>3, FrontierAssumption DEF CrawlTypes, Seen, FrontierAssumption
  <2>2. Distinct(s.queue) /\ IsFiniteSet(visited')
    BY <1>2, <1>3 DEF CrawlTypes
  <2> HIDE DEF s
  <2> QED BY <1>2, <1>4, <2>1, <2>2, EnqueueAllExtends
<1> HIDE DEF s, r
<1>6. /\ r.queue \in Seq(Entry) /\ Distinct(r.queue) /\ r.truncated \in BOOLEAN
      /\ Len(s.queue) \in Nat /\ Len(r.queue) \in Nat /\ Len(s.queue) <= Len(r.queue)
      /\ DOMAIN r.queue = 1..Len(r.queue)
      /\ \A i \in 1..Len(s.queue) : r.queue[i] = s.queue[i]
      /\ \A i \in 1..Len(r.queue) : i \notin 1..Len(s.queue) => r.queue[i].depth = 0
      /\ Queued(s.queue) \subseteq Queued(r.queue)
      /\ \A p \in Queued(r.queue) \ Queued(s.queue) : p \in Elements(declared) \ visited'
      /\ ~r.truncated => (0 <= MaxDepth => Elements(declared) \subseteq visited' \cup Queued(r.queue))
      /\ Cardinality(visited' \cup Queued(r.queue)) <= limit.found
  <2> DEFINE none == 0
  <2>1. none = 0
    OBVIOUS
  <2>2. Extends(s, r, Elements(declared), none) /\ none \in Nat
    BY <1>5
  <2> HIDE DEF none
  <2>4. s \in State
    BY <1>2
  <2>3. /\ r.queue \in Seq(Entry) /\ Distinct(r.queue) /\ r.truncated \in BOOLEAN
        /\ Len(s.queue) \in Nat /\ Len(r.queue) \in Nat /\ Len(s.queue) <= Len(r.queue)
        /\ DOMAIN r.queue = 1..Len(r.queue)
        /\ \A i \in 1..Len(s.queue) : r.queue[i] = s.queue[i]
    BY <2>2, <2>4, ExtendsSeen
  <2>5. \A i \in 1..Len(r.queue) : i \notin 1..Len(s.queue) =>
           /\ r.queue[i].depth = none
           /\ r.queue[i].url \in Elements(declared) \ (visited' \cup Queued(s.queue))
    BY <2>2, <2>4, ExtendsSeen
  <2>6. /\ Queued(s.queue) \subseteq Queued(r.queue)
        /\ \A p \in Queued(r.queue) \ Queued(s.queue) : p \in Elements(declared) \ visited'
        /\ Cardinality(visited' \cup Queued(r.queue)) <= limit.found
    BY <2>2, <2>4, ExtendsSeen
  <2>7. ~r.truncated => (none <= MaxDepth => Elements(declared) \subseteq visited' \cup Queued(r.queue))
    BY <2>2, <2>4, ExtendsSeen
  <2> QED BY <2>1, <2>3, <2>5, <2>6, <2>7
<1>7. /\ queue' \in Seq(Entry) /\ Distinct(queue') /\ truncated' \in BOOLEAN /\ n \in Nat
      /\ \A i \in 1..n : i \notin 1..1 => queue'[i].depth = 0
      /\ n >= 1 /\ queue'[1] = queue[1]
  BY <1>2, <1>3, <1>6
<1>8. /\ Queued(queue) \subseteq Queued(queue')
      /\ \A p \in Queued(queue') \ Queued(queue) : p \in Elements(declared) \ visited'
      /\ Cardinality(visited' \cup Queued(queue')) <= limit.found
  BY <1>2, <1>6
<1>9. ~truncated' => Elements(declared) \subseteq visited' \cup Queued(queue')
  BY <1>2, <1>6, FrontierAssumption DEF FrontierAssumption
<1>10. Seen' = Queued(queue') /\ Seen = Queued(queue) /\ Waiting' = 1..n /\ Waiting = 1..1
  BY <1>3 DEF Seen, Waiting
<1>11. CrawlTypes'
  <2>1. Home \in Seen'
    BY <1>8, <1>10 DEF CrawlTypes
  <2>2. Queued(queue') \cap visited' = {}
    BY <1>3
  <2>3. Cardinality(Seen') <= limit'.found
    BY <1>3, <1>8, <1>10
  <2>4. /\ limit' \in Limits /\ disallowed' \in SUBSET Page /\ visited' \in SUBSET Page
        /\ IsFiniteSet(visited') /\ observed' \in Seq(Page) /\ Len(observed') <= limit'.pages
        /\ Elements(observed') \subseteq visited' \ disallowed' /\ sitemap' \in SUBSET Page
        /\ links' \in [Page -> Fetched] /\ \A p \in Page \ visited' : links'[p].found = <<>>
    BY <1>2, <1>3, <1>4 DEF CrawlTypes
  <2> QED BY <1>7, <2>1, <2>2, <2>3, <2>4 DEF CrawlTypes
<1>12. \A p \in Seen : d[p] = 0 /\ p = Home
  BY <1>3 DEF Reached
<1>13. queue[1].depth = 0
  <2>1. 1 \in Waiting
    BY <1>10
  <2>2. queue[1].url \in Seen /\ queue[1].depth = d[queue[1].url]
    BY <2>1, QueuedApart DEF Reached, Seen
  <2> QED BY <1>12, <2>2
<1>14. \A i \in 1..n : queue'[i].depth = 0 /\ queue'[i].url \in Page
  <2>1. ASSUME NEW i \in 1..n PROVE queue'[i].depth = 0
    <3>1. CASE i = 1
      BY <1>7, <1>13, <3>1
    <3>2. CASE i # 1
      BY <1>7, <3>2
    <3> QED BY <3>1, <3>2
  <2>2. \A i \in 1..n : queue'[i] \in Entry
    BY <1>7
  <2> QED BY <2>1, <2>2 DEF Entry
<1> HIDE DEF n
<1>15. e \in [Page -> Nat] /\ \A p \in Page : e[p] = 0
  OBVIOUS
<1>16. Seen' \subseteq Page /\ Home \in Page
  BY <1>7, <1>10, QueuedFinite, FrontierAssumption DEF FrontierAssumption
<1>17. /\ \A i \in Waiting' : queue'[i].depth = e[queue'[i].url]
       /\ \A i, j \in Waiting' :
             /\ i <= j => queue'[i].depth <= queue'[j].depth
             /\ queue'[j].depth <= queue'[i].depth + 1
  BY <1>10, <1>14, <1>15
<1>18. \A p \in Seen' : e[p] = 0 /\ p \in {Home} \cup sitemap'
  BY <1>2, <1>8, <1>10, <1>12, <1>15, <1>16
<1>19. ~truncated' => \A p \in sitemap' : p \in Seen' /\ e[p] = 0
  BY <1>2, <1>3, <1>4, <1>9, <1>10, <1>15
<1> QED BY <1>3, <1>11, <1>15, <1>16, <1>17, <1>18, <1>19 DEF Reached

\* The origin waits, at no hops.
LEMMA CrawlInitOK == ASSUME FrontierInit PROVE CrawlInv
<1> DEFINE e == [url |-> Home, depth |-> 0]
           d == [p \in Page |-> 0]
<1>1. e \in Entry /\ Home \in Page /\ MaxDepth \in Nat
  BY FrontierAssumption DEF FrontierAssumption, Entry
<1>2. /\ queue = <<e>> /\ visited = {} /\ observed = <<>> /\ truncated = FALSE /\ sitemap = {}
      /\ links = [p \in Page |-> Unfetched] /\ limit \in Limits /\ disallowed \in SUBSET Page
  BY DEF FrontierInit
<1>3. queue \in Seq(Entry) /\ Len(queue) = 1 /\ queue[1] = e /\ DOMAIN queue = {1}
  BY <1>1, <1>2
<1>4. e.url = Home /\ e.depth = 0
  OBVIOUS
<1>5. d \in [Page -> Nat] /\ \A p \in Page : d[p] = 0
  OBVIOUS
<1> HIDE DEF e, d
<1>6. Queued(queue) = {Home} /\ Distinct(queue) /\ Seen = {Home}
  BY <1>2, <1>3, <1>4 DEF Queued, Distinct, Seen
<1>7. Cardinality(Seen) <= limit.found /\ limit.pages \in Nat
  <2>1. limit.found \in Nat /\ limit.found >= 1 /\ limit.pages \in Nat
    BY <1>2, FrontierAssumption DEF FrontierAssumption
  <2> QED BY <1>6, <2>1, FS_Singleton
<1>8. links \in [Page -> Fetched] /\ \A p \in Page : links[p].found = <<>>
  BY <1>2 DEF Unfetched, Fetched
<1>9. observed \in Seq(Page) /\ Len(observed) <= limit.pages /\ Elements(observed) = {}
  BY <1>2, <1>7 DEF Elements
<1>10. CrawlTypes
  BY <1>2, <1>3, <1>6, <1>7, <1>8, <1>9, FS_EmptySet DEF CrawlTypes
<1>11. Waiting = {1}
  BY <1>3 DEF Waiting
<1>12. Reached(d)
  BY <1>1, <1>2, <1>3, <1>4, <1>5, <1>6, <1>11 DEF Reached
<1> QED BY <1>10, <1>12 DEF CrawlInv

\* The invariant is inductive.
LEMMA CrawlStep == ASSUME CrawlInv, [FrontierNext]_frontierVars PROVE CrawlInv'
<1>0. CrawlTypes
  BY DEF CrawlInv
<1>1. PICK d : Reached(d)
  BY DEF CrawlInv
<1>2. CASE ReadSitemaps
  <2>1. PICK e : e = [p \in Page |-> 0]
    OBVIOUS
  <2>2. CrawlTypes' /\ Reached(e)'
    BY <1>0, <1>1, <1>2, <2>1, ReadSitemapsKeeps
  <2> QED BY <2>2 DEF CrawlInv
<1>3. CASE Visit
  <2>1. PICK found : VisitOf(Head(queue), found)
    BY <1>0, <1>3, VisitIsVisitOf
  <2>2. found \in Seq(Page)
    <3>1. Head(queue) \in Entry
      BY <2>1, QueuedTail, <1>0 DEF VisitOf, CrawlTypes
    <3> QED BY <2>1, <3>1 DEF VisitOf, Fetched, Entry
  <2>3. CrawlTypes'
    BY <1>0, <1>3, <2>1, <2>2, VisitIsVisitOf, VisitTypes
  <2>4. PICK e : e = [p \in Page |-> IF p \in Seen THEN d[p] ELSE Head(queue).depth + 1]
    OBVIOUS
  <2>5. Reached(e)'
    BY <1>0, <1>1, <2>1, <2>2, <2>3, <2>4, VisitReached
  <2> QED BY <2>3, <2>5 DEF CrawlInv
<1>4. CASE UNCHANGED frontierVars
  <2>1. CrawlTypes'
    BY <1>0, <1>4 DEF frontierVars, CrawlTypes, Seen, Queued, Distinct, Elements
  <2>2. Reached(d)'
    BY <1>1, <1>4 DEF frontierVars, Reached, Seen, Queued, Waiting, Elements
  <2> QED BY <2>1, <2>2 DEF CrawlInv
<1> QED BY <1>2, <1>3, <1>4 DEF FrontierNext

\* FrontierSpec implies the invariant: crawlSite keeps its queue in the order of the hops.
THEOREM CrawlInvariance == FrontierSpec => []CrawlInv
BY CrawlInitOK, CrawlStep, PTL DEF FrontierSpec

\* A crawl that is over has asked for what its invariant says.
LEMMA CrawlEnds ==
    ASSUME CrawlInv, queue = <<>>, ~truncated PROVE visited = Within
<1>1. PICK d : Reached(d)
  BY DEF CrawlInv
<1>2. Seen = visited /\ visited \subseteq Page /\ Home \in visited /\ MaxDepth \in Nat
  <2>1. Queued(queue) = {}
    BY DEF Queued
  <2> QED BY <2>1, FrontierAssumption DEF CrawlInv, CrawlTypes, Seen, FrontierAssumption
<1>3. /\ Hops[0] = {Home} \cup sitemap
      /\ \A n \in 1..MaxDepth :
            Hops[n] = Hops[n - 1] \cup UNION {Elements(links[p].found) : p \in Hops[n - 1]}
  BY <1>2, HopsDefined
<1>4. /\ d \in [Page -> Nat] /\ d[Home] = 0 /\ \A p \in visited : d[p] <= MaxDepth
      /\ \A p \in sitemap : p \in visited /\ d[p] = 0
      /\ \A p \in visited : d[p] < MaxDepth =>
            \A q \in Elements(links[p].found) : q \in visited /\ d[q] <= d[p] + 1
      /\ \A p \in visited : \/ d[p] = 0 /\ p \in {Home} \cup sitemap
                            \/ \E q \in visited : d[p] = d[q] + 1 /\ p \in Elements(links[q].found)
  BY <1>1, <1>2 DEF Reached
\* Whatever is within n hops was visited, and from no further away.
<1> DEFINE T == {n \in 0..MaxDepth : \A p \in Hops[n] : p \in visited /\ d[p] <= n}
<1>5. 0 \in T
  BY <1>2, <1>3, <1>4
<1>6. ASSUME NEW n \in 0..MaxDepth, n # 0, n - 1 \in T PROVE n \in T
  <2>1. n \in 1..MaxDepth /\ n - 1 \in Nat /\ n - 1 < MaxDepth
    BY <1>2, <1>6
  <2>2. ASSUME NEW p \in Hops[n] PROVE p \in visited /\ d[p] <= n
    <3>1. CASE p \in Hops[n - 1]
      <4>1. p \in visited /\ d[p] <= n - 1 /\ d[p] \in Nat
        BY <1>2, <1>4, <1>6, <3>1
      <4> QED BY <2>1, <4>1
    <3>2. ASSUME NEW q \in Hops[n - 1], p \in Elements(links[q].found)
          PROVE  p \in visited /\ d[p] <= n
      <4>1. q \in visited /\ d[q] <= n - 1 /\ d[q] \in Nat
        BY <1>2, <1>4, <1>6
      <4>2. d[q] < MaxDepth
        BY <1>2, <2>1, <4>1
      <4>3. p \in visited /\ d[p] <= d[q] + 1 /\ d[p] \in Nat
        BY <1>2, <1>4, <3>2, <4>1, <4>2
      <4> QED BY <2>1, <4>1, <4>3
    <3> QED BY <1>3, <2>1, <3>1, <3>2
  <2> QED BY <2>2
<1>7. MaxDepth \in T
  <2> HIDE DEF T
  <2> QED BY <1>2, <1>5, <1>6, UpTo
<1>8. Within \subseteq visited
  BY <1>7 DEF Within
\* Whatever was visited, from n hops away, is within n hops.
<1> DEFINE S == {n \in 0..MaxDepth : \A p \in visited : d[p] <= n => p \in Hops[n]}
<1>9. 0 \in S
  <2>1. ASSUME NEW p \in visited, d[p] <= 0 PROVE p \in Hops[0]
    <3>1. d[p] = 0
      BY <1>2, <1>4, <2>1
    <3>2. \A q \in visited : d[p] # d[q] + 1
      BY <1>2, <1>4, <3>1
    <3> QED BY <1>3, <1>4, <3>2
  <2> QED BY <1>2, <2>1
<1>10. ASSUME NEW n \in 0..MaxDepth, n # 0, n - 1 \in S PROVE n \in S
  <2>1. n \in 1..MaxDepth /\ n - 1 \in Nat /\ n \in Nat
    BY <1>2, <1>10
  <2>2. ASSUME NEW p \in visited, d[p] <= n PROVE p \in Hops[n]
    <3>1. CASE d[p] <= n - 1
      BY <1>3, <1>10, <2>1, <3>1
    <3>2. CASE ~(d[p] <= n - 1)
      <4>1. d[p] \in Nat /\ d[p] = n /\ d[p] # 0
        BY <1>2, <1>4, <2>1, <2>2, <3>2
      <4>2. PICK q \in visited : d[p] = d[q] + 1 /\ p \in Elements(links[q].found)
        BY <1>4, <4>1
      <4>3. d[q] \in Nat /\ d[q] <= n - 1
        BY <1>2, <1>4, <2>1, <4>1, <4>2
      <4>4. q \in Hops[n - 1]
        BY <1>10, <4>3
      <4> QED BY <1>3, <2>1, <4>2, <4>4
    <3> QED BY <3>1, <3>2
  <2> QED BY <2>2
<1>11. MaxDepth \in S
  <2> HIDE DEF S
  <2> QED BY <1>2, <1>9, <1>10, UpTo
<1>12. visited \subseteq Within
  BY <1>4, <1>11 DEF Within
<1> QED BY <1>8, <1>12

\* crawlSite: a crawl that ends without having cut anything has asked for the pages within
\* MaxDepth hops of the origin and the sitemaps, and for no other.
THEOREM CompleteTheorem == FrontierSpec => []CrawlIsComplete
<1>1. CrawlInv => CrawlIsComplete
  BY CrawlEnds DEF CrawlIsComplete
<1> QED BY <1>1, CrawlInvariance, PTL

\* crawlSite: what waits is near enough, what is known fits the discovery budget, and what
\* is observed fits maxPages and is open to the crawler.
THEOREM FrontierTypeTheorem == FrontierSpec => []FrontierTypeOK
<1>1. ASSUME CrawlInv PROVE FrontierTypeOK
  <2>1. CrawlTypes
    BY <1>1 DEF CrawlInv
  <2>2. \A i \in DOMAIN queue : queue[i].url \in Page /\ queue[i].depth \in 0..MaxDepth
    <3>1. \A i \in DOMAIN queue : queue[i] \in Entry
      BY <2>1 DEF CrawlTypes
    <3> QED BY <3>1 DEF Entry
  <2>3. Queued(queue) \cup visited = Seen
    BY DEF Seen
  <2> QED BY <2>1, <2>2, <2>3 DEF CrawlTypes, FrontierTypeOK
<1> QED BY <1>1, CrawlInvariance, PTL
-----------------------------------------------------------------------------
(* Topics.                                                                 *)

\* A forest of searches: no parent is a later search.
Forest(p) == p \in [Search -> Search] /\ \A i \in Search : p[i] <= i

\* The root of each of the first n searches.
AreRoots(f, p, n) == f = [j \in 1..n |-> IF p[j] = j THEN j ELSE f[p[j]]]

RootIn(p, i) == (CHOOSE f : AreRoots(f, p, Searches))[i]

\* Find is the root in the forest as it is.
LEMMA FindIsRoot == \A i : Find(i) = RootIn(parent, i)
BY DEF Find, RootIn, AreRoots, Search

\* Up a forest there is a root.
LEMMA RootDefined ==
    ASSUME NEW p, Forest(p), NEW i \in Search
    PROVE  RootIn(p, i) = IF p[i] = i THEN i ELSE RootIn(p, p[i])
<1> DEFINE T == {n \in 0..Searches : \E f : AreRoots(f, p, n)}
<1>1. Searches \in Nat
  BY ClusteringAssumption DEF ClusteringAssumption
<1>2. 0 \in T
  <2>1. \E f : AreRoots(f, p, 0)
    <3> DEFINE f == [j \in 1..0 |-> j]
    <3>1. AreRoots(f, p, 0)
      BY DEF AreRoots
    <3> HIDE DEF f
    <3> QED BY <3>1
  <2> QED BY <1>1, <2>1
<1>3. ASSUME NEW n \in 0..Searches, n # 0, n - 1 \in T PROVE n \in T
  <2>1. PICK f : AreRoots(f, p, n - 1)
    BY <1>3
  <2>2. n \in Search /\ n \in Nat
    BY <1>1, <1>3 DEF Search
  <2> DEFINE g == [j \in 1..n |-> IF j = n THEN IF p[n] = n THEN n ELSE f[p[n]] ELSE f[j]]
  <2>3. \A j \in 1..n : g[j] = IF p[j] = j THEN j ELSE g[p[j]]
    <3> SUFFICES ASSUME NEW j \in 1..n PROVE g[j] = IF p[j] = j THEN j ELSE g[p[j]]
      OBVIOUS
    <3>1. j \in Search /\ p[j] \in 1..Searches /\ p[j] <= j
      BY <1>1, <1>3 DEF Forest, Search
    <3>2. p[j] # j => p[j] \in 1..n /\ p[j] # n
      BY <1>1, <1>3, <3>1
    <3>3. CASE j = n
      BY <3>2, <3>3
    <3>4. CASE j # n
      <4>1. j \in 1..(n - 1)
        BY <1>3, <3>4
      <4>2. f[j] = IF p[j] = j THEN j ELSE f[p[j]]
        BY <2>1, <4>1 DEF AreRoots
      <4> QED BY <3>2, <3>4, <4>2
    <3> QED BY <3>3, <3>4
  <2>4. AreRoots(g, p, n)
    BY <2>3 DEF AreRoots
  <2> HIDE DEF g
  <2> QED BY <1>3, <2>4
<1>4. Searches \in T
  <2> HIDE DEF T
  <2>1. \A k \in 0..Searches : k \in T
    BY <1>1, <1>2, <1>3, UpTo
  <2> QED BY <1>1, <2>1
<1>5. \E f : AreRoots(f, p, Searches)
  BY <1>4
<1> DEFINE root == CHOOSE f : AreRoots(f, p, Searches)
<1>6. AreRoots(root, p, Searches)
  BY <1>5
<1>7. RootIn(p, i) = root[i] /\ RootIn(p, p[i]) = root[p[i]]
  BY DEF RootIn
<1> HIDE DEF root
<1> QED BY <1>6, <1>7 DEF AreRoots, Search

\* It is an earlier search, or the search itself, and its own parent.
LEMMA RootIsRoot ==
    ASSUME NEW p, Forest(p), NEW i \in Search
    PROVE  RootIn(p, i) \in Search /\ RootIn(p, i) <= i /\ p[RootIn(p, i)] = RootIn(p, i)
<1> DEFINE Good(j) == RootIn(p, j) \in Search /\ RootIn(p, j) <= j /\ p[RootIn(p, j)] = RootIn(p, j)
           Bad == {j \in Search : ~Good(j)}
<1>1. Search \subseteq Nat /\ \A j \in Search : p[j] \in Search /\ p[j] <= j
  BY ClusteringAssumption DEF ClusteringAssumption, Search, Forest
<1> SUFFICES ASSUME Bad # {} PROVE FALSE
  OBVIOUS
<1>2. PICK m \in Bad : \A k \in Bad : m <= k
  BY <1>1, Smallest
<1>3. m \in Search /\ p[m] \in Search /\ p[m] <= m /\ m \in Nat /\ p[m] \in Nat
  BY <1>1, <1>2
<1>4. RootIn(p, m) = IF p[m] = m THEN m ELSE RootIn(p, p[m])
  BY <1>3, RootDefined
<1>5. CASE p[m] = m
  BY <1>2, <1>3, <1>4, <1>5
<1>6. CASE p[m] # m
  <2>1. ~(m <= p[m])
    BY <1>3, <1>6
  <2>2. Good(p[m])
    BY <1>2, <1>3, <2>1
  <2>3. RootIn(p, m) <= m
    <3>1. RootIn(p, p[m]) \in Nat /\ RootIn(p, p[m]) <= p[m] /\ RootIn(p, m) = RootIn(p, p[m])
      BY <1>1, <1>4, <1>6, <2>2
    <3> QED BY <1>3, <3>1
  <2> QED BY <1>2, <1>4, <1>6, <2>2, <2>3
<1> QED BY <1>5, <1>6

\* A root g that gets a parent.
Joined(p, g, l) == [p EXCEPT ![g] = l]

\* Two groups are joined under the lesser of their roots.
LEMMA RootJoined ==
    ASSUME NEW p, Forest(p), NEW g \in Search, NEW l \in Search, l < g, p[l] = l, p[g] = g,
           NEW i \in Search
    PROVE  /\ Forest(Joined(p, g, l))
           /\ RootIn(Joined(p, g, l), i) = IF RootIn(p, i) = g THEN l ELSE RootIn(p, i)
<1> DEFINE q == Joined(p, g, l)
           Good(j) == RootIn(q, j) = IF RootIn(p, j) = g THEN l ELSE RootIn(p, j)
           Bad == {j \in Search : ~Good(j)}
<1>1. Search \subseteq Nat /\ \A j \in Search : p[j] \in Search /\ p[j] <= j
  BY ClusteringAssumption DEF ClusteringAssumption, Search, Forest
<1>2. /\ q \in [Search -> Search] /\ q[g] = l /\ \A j \in Search : j # g => q[j] = p[j]
      /\ l # g
  BY <1>1 DEF Forest, Joined
<1> HIDE DEF q
<1>3. Forest(q)
  <2>1. l <= g
    BY <1>1
  <2> QED BY <1>1, <1>2, <2>1 DEF Forest
<1>4. Bad = {}
  <2> SUFFICES ASSUME Bad # {} PROVE FALSE
    OBVIOUS
  <2>1. PICK m \in Bad : \A k \in Bad : m <= k
    BY <1>1, Smallest
  <2>2. m \in Search /\ p[m] \in Search /\ p[m] <= m /\ m \in Nat /\ p[m] \in Nat /\ ~Good(m)
    BY <1>1, <2>1
  <2>3. /\ RootIn(p, m) = IF p[m] = m THEN m ELSE RootIn(p, p[m])
        /\ RootIn(q, m) = IF q[m] = m THEN m ELSE RootIn(q, q[m])
    BY <1>3, <2>2, RootDefined
  <2>4. CASE m = g
    <3>1. RootIn(q, l) = l
      BY <1>2, <1>3, RootDefined
    <3> QED BY <1>2, <2>2, <2>3, <2>4, <3>1
  <2>5. CASE m # g /\ p[m] = m
    BY <1>2, <2>2, <2>3, <2>5
  <2>6. CASE m # g /\ p[m] # m
    <3>1. ~(m <= p[m])
      BY <2>2, <2>6
    <3>2. Good(p[m])
      BY <2>1, <2>2, <3>1
    <3> QED BY <1>2, <2>2, <2>3, <2>6, <3>2
  <2> QED BY <2>4, <2>5, <2>6
<1> QED BY <1>3, <1>4 DEF q

\* Being alike goes both ways.
LEMMA SimilarBothWays ==
    ASSUME NEW i \in Search, NEW j \in Search, Similar(i, j) PROVE Similar(j, i)
<1>1. Stems(i) \cap Stems(j) = Stems(j) \cap Stems(i) /\ Stems(i) \cup Stems(j) = Stems(j) \cup Stems(i)
  OBVIOUS
<1> QED BY <1>1 DEF Similar

\* Searches that are alike share a stem, by which one is found from the other.
LEMMA SimilarShare ==
    ASSUME words \in [Search -> Searchable], NEW i \in Search, NEW j \in Search, Similar(i, j)
    PROVE  Stems(i) \cap Stems(j) # {}
<1>1. ASSUME NEW k \in Search PROVE IsFiniteSet(Stems(k))
  <2> DEFINE f == [w \in words[k] |-> StemOf[w]]
  <2>1. IsFiniteSet(words[k])
    BY ClusteringAssumption DEF ClusteringAssumption
  <2>2. f \in Surjection(words[k], Stems(k))
    BY DEF Surjection, Stems
  <2> QED BY <2>1, <2>2, FS_Surjection
<1>2. CASE Stems(i) \subseteq Stems(j) \/ Stems(j) \subseteq Stems(i)
  BY <1>2 DEF Similar
<1>3. CASE 100 * Cardinality(Stems(i) \cap Stems(j)) >= 34 * Cardinality(Stems(i) \cup Stems(j))
  <2> DEFINE both == Stems(i) \cap Stems(j)
             all == Stems(i) \cup Stems(j)
  <2>1. IsFiniteSet(both) /\ IsFiniteSet(all)
    BY <1>1, FS_Intersection, FS_Union
  <2>2. all # {} /\ 100 * Cardinality(both) >= 34 * Cardinality(all)
    BY <1>3 DEF Similar
  <2> HIDE DEF both, all
  <2>3. Cardinality(all) \in Nat /\ Cardinality(all) # 0 /\ Cardinality(both) \in Nat
    BY <2>1, <2>2, FS_CardinalityType, FS_EmptySet
  <2>4. Cardinality(both) # 0
    BY <2>2, <2>3
  <2>5. both # {}
    BY <2>4, FS_EmptySet
  <2> QED BY <2>5 DEF both
<1> QED BY <1>2, <1>3 DEF Similar

\* Searches that are alike belong together.
LEMMA TogetherSimilar ==
    ASSUME NEW i \in Search, NEW j \in Search, Similar(i, j) PROVE Together(i, j)
<1>1. Similar(j, i)
  BY SimilarBothWays
<1> QED BY <1>1 DEF Together

\* Belonging together is an equivalence.
LEMMA TogetherIsEquivalence ==
    ASSUME NEW i, NEW j, NEW k
    PROVE  /\ Together(i, i)
           /\ Together(i, j) => Together(j, i)
           /\ Together(i, j) /\ Together(j, k) => Together(i, k)
BY DEF Together

\* Whether searches are alike is a matter of their words.
LEMMA WordsTell ==
    ASSUME words' = words
    PROVE  /\ \A i, j : Similar(i, j)' <=> Similar(i, j)
           /\ \A i, j : Together(i, j)' <=> Together(i, j)
           /\ \A i : Candidates(i)' = Candidates(i)
<1>1. \A i : Stems(i)' = Stems(i)
  BY DEF Stems
<1>2. \A i, j : Similar(i, j)' <=> Similar(i, j)
  BY <1>1 DEF Similar
<1>3. Search' = Search
  BY DEF Search
<1>4. \A i, j : Together(i, j)' <=> Together(i, j)
  BY <1>2, <1>3 DEF Together
<1>5. \A i : Candidates(i)' = Candidates(i)
  BY <1>1, <1>3 DEF Candidates
<1> QED BY <1>2, <1>4, <1>5

\* The label of a group is a matter of its words and its members.
LEMMA LabelTold ==
    ASSUME words' = words, parent' = parent
    PROVE  /\ \A r : Label(r)' = Label(r)
           /\ \A i : Find(i)' = Find(i)
           /\ Roots' = Roots
<1>1. \A i : Find(i)' = Find(i)
  BY DEF Find, Search
<1>2. \A r : Group(r)' = Group(r)
  BY <1>1 DEF Group, Search
<1>3. ASSUME NEW r PROVE Label(r)' = Label(r)
  <2>1. Group(r)' = Group(r)
    BY <1>2
  <2> QED BY <2>1 DEF Label
<1>4. Roots' = Roots
  BY <1>1 DEF Roots, Search
<1> QED BY <1>1, <1>3, <1>4

\* The searches compared so far.
Compared(i, j) == i < j /\ (i < at \/ (i = at /\ j \notin todo))

\* The names given so far: the number in one counts those of its label.
NamesOK ==
    /\ DOMAIN name \subseteq Roots
    /\ DOMAIN name # {} => at = Searches /\ todo = {}
    /\ \A r \in DOMAIN name :
          /\ name[r] = <<Label(r), name[r][2]>> /\ name[r][2] \in Nat
          /\ name[r][2] <= Cardinality({q \in DOMAIN name : Label(q) = Label(r)})
    /\ \A r, q \in DOMAIN name : name[r] = name[q] => r = q

\* Searches compared that are alike are in one group, and a group belongs together.
ClusterInv ==
    /\ words \in [Search -> Searchable] /\ Forest(parent)
    /\ at \in 0..Searches /\ todo \subseteq Search /\ (at = 0 => todo = {})
    /\ \A j \in todo : at < j
    /\ \A i, j \in Search : Compared(i, j) /\ Similar(i, j) => Find(i) = Find(j)
    /\ \A i \in Search : Together(i, Find(i))
    /\ NamesOK

\* Every search is its own group, and none was compared.
LEMMA ClusterInitOK == ASSUME ClusterInit PROVE ClusterInv
<1>1. /\ words \in [Search -> Searchable] /\ parent = [i \in Search |-> i]
      /\ at = 0 /\ todo = {} /\ name = <<>>
  BY DEF ClusterInit
<1>2. Search \subseteq Nat /\ Searches \in Nat
  BY ClusteringAssumption DEF ClusteringAssumption, Search
<1>3. Forest(parent)
  BY <1>1, <1>2 DEF Forest
<1>4. \A i \in Search : Find(i) = i
  BY <1>1, <1>3, FindIsRoot, RootDefined
<1>5. \A i \in Search : Together(i, Find(i))
  BY <1>4, TogetherIsEquivalence
<1>6. \A i, j \in Search : ~Compared(i, j)
  BY <1>1, <1>2 DEF Compared, Search
<1>7. DOMAIN name = {}
  BY <1>1
<1>8. NamesOK
  BY <1>7 DEF NamesOK
<1>9. at \in 0..Searches /\ todo \subseteq Search /\ (at = 0 => todo = {}) /\ \A j \in todo : at < j
  BY <1>1, <1>2
<1> HIDE DEF Find
<1> QED BY <1>1, <1>3, <1>5, <1>6, <1>8, <1>9 DEF ClusterInv

\* Whatever is not a candidate of the next search is not like it.
LEMMA NextSearchKeeps == ASSUME ClusterInv, NextSearch PROVE ClusterInv'
<1>1. /\ words' = words /\ parent' = parent /\ name' = name /\ todo = {} /\ at < Searches
      /\ at' = at + 1 /\ todo' = Candidates(at')
  BY DEF NextSearch
<1>2. at \in Nat /\ Searches \in Nat /\ at' \in Search /\ Search = 1..Searches /\ Search' = Search
  BY <1>1, ClusteringAssumption DEF ClusteringAssumption, ClusterInv, Search
<1>3. todo' = {j \in Search : j > at' /\ Stems(at') \cap Stems(j) # {}}
  BY <1>1 DEF Candidates
<1>4. DOMAIN name = {}
  BY <1>1, <1>2 DEF ClusterInv, NamesOK
<1>5. NamesOK'
  BY <1>1, <1>4 DEF NamesOK
<1>6. ASSUME NEW i \in Search, NEW j \in Search, Compared(i, j)', Similar(i, j) PROVE Find(i) = Find(j)
  <2>1. i < j /\ (i < at' \/ (i = at' /\ j \notin todo'))
    BY <1>6 DEF Compared
  <2>2. CASE i < at'
    <3>1. i < at \/ i = at
      BY <1>1, <1>2, <2>2
    <3>2. Compared(i, j)
      BY <1>1, <2>1, <3>1 DEF Compared
    <3> QED BY <1>6, <3>2 DEF ClusterInv
  <2>3. CASE i = at' /\ j \notin todo'
    <3>1. Stems(i) \cap Stems(j) # {}
      BY <1>6, SimilarShare DEF ClusterInv
    <3>2. j > i
      BY <1>2, <2>1
    <3> QED BY <1>3, <2>3, <3>1, <3>2
  <2> QED BY <2>1, <2>2, <2>3
<1>7. (\A i : Find(i)' = Find(i)) /\ (\A i, j : Similar(i, j)' <=> Similar(i, j))
      /\ (\A i, j : Together(i, j)' <=> Together(i, j))
  BY <1>1, LabelTold, WordsTell
<1>8. \A i, j \in Search' : Compared(i, j)' /\ Similar(i, j)' => Find(i)' = Find(j)'
  BY <1>2, <1>6, <1>7
<1>9. \A i \in Search' : Together(i, Find(i))'
  BY <1>1, <1>2, <1>7 DEF ClusterInv, Together, Similar, Stems, Find, Search
<1>10. words' \in [Search -> Searchable] /\ Forest(parent)'
  BY <1>1 DEF ClusterInv, Forest, Search
<1>11. at' \in 0..Searches /\ todo' \subseteq Search /\ (at' = 0 => todo' = {}) /\ \A j \in todo' : at' < j
  BY <1>1, <1>2, <1>3
<1> QED BY <1>2, <1>5, <1>8, <1>9, <1>10, <1>11 DEF ClusterInv

\* A search is compared with one it shares a stem with, and they may become one group.
LEMMA CompareKeeps ==
    ASSUME ClusterInv, NEW j \in Search, Compare(j) PROVE ClusterInv'
<1> DEFINE a == Find(at)
           b == Find(j)
           g == Greater(a, b)
           l == Lesser(a, b)
<1>1. /\ words' = words /\ at' = at /\ name' = name /\ j \in todo /\ todo' = todo \ {j}
      /\ parent' = IF Similar(at, j) THEN Union(at, j) ELSE parent
  BY DEF Compare
<1>2. /\ at \in Search /\ at < j /\ todo \subseteq Search /\ Search' = Search /\ Search \subseteq Nat
      /\ Forest(parent) /\ at \in 0..Searches
  BY <1>1, ClusteringAssumption DEF ClusterInv, Search, ClusteringAssumption
<1>3. /\ a \in Search /\ parent[a] = a /\ b \in Search /\ parent[b] = b
      /\ \A i \in Search : Find(i) \in Search
  BY <1>2, FindIsRoot, RootIsRoot
<1>4. DOMAIN name = {}
  BY <1>1 DEF ClusterInv, NamesOK
<1>5. NamesOK'
  BY <1>1, <1>4 DEF NamesOK
<1>6. /\ at' \in 0..Searches /\ todo' \subseteq Search /\ (at' = 0 => todo' = {})
      /\ (\A k \in todo' : at' < k) /\ words' \in [Search -> Searchable]
  BY <1>1 DEF ClusterInv
<1>7. /\ \A i, k : Similar(i, k)' <=> Similar(i, k)
      /\ \A i, k : Together(i, k)' <=> Together(i, k)
  BY <1>1, WordsTell
\* Whatever was in one group stays in one group, and the two searches are in one if alike.
<1>8. /\ Forest(parent')
      /\ \A i, k \in Search : Find(i) = Find(k) => Find(i)' = Find(k)'
      /\ \A i \in Search : i = at /\ Similar(at, j) => Find(i)' = Find(j)'
      /\ \A i \in Search : Find(i)' = Find(i) \/ (Similar(at, j) /\ Find(i) \in {a, b} /\ Find(i)' \in {a, b})
  <2>1. CASE ~Similar(at, j) \/ a = b
    <3>1. parent' = parent
      <4>1. CASE ~Similar(at, j)
        BY <1>1, <4>1
      <4>2. CASE Similar(at, j) /\ a = b
        <5>1. parent' = [parent EXCEPT ![g] = l] /\ g = a /\ l = a
          BY <1>1, <4>2 DEF Union, Greater, Lesser
        <5> HIDE DEF a, b, g, l
        <5>2. parent' = [parent EXCEPT ![a] = parent[a]]
          BY <1>3, <5>1
        <5> QED BY <1>2, <1>3, <5>2 DEF Forest
      <4> QED BY <2>1, <4>1, <4>2
    <3>2. \A i : Find(i)' = Find(i)
      BY <1>1, <3>1, LabelTold
    <3>3. \A i \in Search : i = at /\ Similar(at, j) => Find(i) = Find(j)
      BY <2>1
    <3> QED BY <1>2, <3>1, <3>2, <3>3
  <2>2. CASE Similar(at, j) /\ a # b
    <3>1. parent' = Joined(parent, g, l)
      BY <1>1, <2>2 DEF Union, Joined
    <3> HIDE DEF a, b
    <3>2. g \in {a, b} /\ l \in {a, b} /\ g # l /\ {a, b} = {g, l}
      BY <2>2 DEF Greater, Lesser
    <3>3. l < g
      BY <1>2, <1>3, <2>2 DEF Greater, Lesser
    <3> HIDE DEF g, l
    <3>4. g \in Search /\ l \in Search /\ parent[g] = g /\ parent[l] = l
      BY <1>3, <3>2
    <3>5. \A i \in Search : RootIn(parent', i) = IF RootIn(parent, i) = g THEN l ELSE RootIn(parent, i)
      BY <1>2, <3>1, <3>3, <3>4, RootJoined
    <3>6. Forest(parent')
      BY <1>2, <3>1, <3>3, <3>4, RootJoined
    <3>7. (\A i : Find(i)' = RootIn(parent', i)) /\ \A i : Find(i) = RootIn(parent, i)
      <4>1. \A i : Find(i)' = RootIn(parent', i)
        BY <1>2 DEF Find, RootIn, AreRoots, Search
      <4> QED BY <4>1, FindIsRoot
    <3>8. \A i \in Search : Find(i)' = IF Find(i) = g THEN l ELSE Find(i)
      BY <3>5, <3>7
    <3>9. Find(at) = a /\ Find(j) = b
      BY DEF a, b
    <3>10. \A i \in Search : i = at => Find(i)' = l
      BY <3>2, <3>8, <3>9
    <3>11. Find(j)' = l
      BY <3>2, <3>8, <3>9
    <3>12. \A i, k \in Search : Find(i) = Find(k) => Find(i)' = Find(k)'
      BY <3>8
    <3>13. \A i \in Search : Find(i)' = Find(i) \/ (Find(i) \in {a, b} /\ Find(i)' \in {a, b})
      BY <3>2, <3>8
    <3> QED BY <2>2, <3>6, <3>10, <3>11, <3>12, <3>13
  <2> QED BY <2>1, <2>2
<1>9. ASSUME NEW i \in Search, NEW k \in Search, Compared(i, k)', Similar(i, k) PROVE Find(i)' = Find(k)'
  <2>1. CASE Compared(i, k)
    BY <1>8, <1>9, <2>1 DEF ClusterInv
  <2>2. CASE ~Compared(i, k)
    <3>1. i = at /\ k = j
      BY <1>1, <1>9, <2>2 DEF Compared
    <3> QED BY <1>8, <1>9, <3>1
  <2> QED BY <2>1, <2>2
<1>10. ASSUME NEW i \in Search PROVE Together(i, Find(i)')
  <2>1. Together(i, Find(i))
    BY DEF ClusterInv
  <2>2. CASE Find(i)' = Find(i)
    BY <2>1, <2>2
  <2>3. CASE Similar(at, j) /\ Find(i) \in {a, b} /\ Find(i)' \in {a, b}
    <3>1. Together(at, a) /\ Together(j, b) /\ Together(at, j)
      BY <1>2, <2>3, TogetherSimilar DEF ClusterInv
    <3> HIDE DEF a, b
    <3>2. Together(a, b) /\ Together(b, a) /\ Together(a, a) /\ Together(b, b)
      BY <3>1, TogetherIsEquivalence
    <3>3. Together(Find(i), Find(i)')
      BY <2>3, <3>2
    <3> QED BY <2>1, <3>3, TogetherIsEquivalence
  <2> QED BY <1>8, <2>2, <2>3
<1>11. \A i, k \in Search' : Compared(i, k)' /\ Similar(i, k)' => Find(i)' = Find(k)'
  BY <1>2, <1>7, <1>9
<1>12. \A i \in Search' : Together(i, Find(i))'
  BY <1>1, <1>2, <1>10 DEF Together, Similar, Stems, Search
<1>13. Forest(parent)'
  BY <1>2, <1>8 DEF Forest
<1> QED BY <1>2, <1>5, <1>6, <1>11, <1>12, <1>13 DEF ClusterInv

\* The numbers of one label count up, so no key is given twice.
LEMMA NameGroupKeeps == ASSUME ClusterInv, NameGroup PROVE ClusterInv'
<1> DEFINE root == Min(Roots \ DOMAIN name)
           D == DOMAIN name
           Like(r) == {q \in D : Label(q) = Label(r)}
           Then(r) == {q \in D \cup {root} : Label(q) = Label(r)}
           key == Key(root)
<1>1. /\ words' = words /\ parent' = parent /\ at' = at /\ todo' = todo
      /\ at = Searches /\ todo = {} /\ D # Roots
      /\ name' = [r \in D \cup {root} |-> IF r = root THEN key ELSE name[r]]
  BY DEF NameGroup
<1>2. /\ Search \subseteq Nat /\ Search' = Search /\ IsFiniteSet(Search)
      /\ Roots \subseteq Search /\ D \subseteq Roots
  <2>1. Roots \subseteq Search
    BY FindIsRoot, RootIsRoot DEF Roots, ClusterInv
  <2> QED BY <2>1, FS_Interval, ClusteringAssumption DEF ClusteringAssumption, Search, ClusterInv, NamesOK
<1>3. root \in Roots /\ root \notin D
  <2> DEFINE left == Roots \ D
  <2>1. left \in SUBSET Nat /\ left # {}
    BY <1>1, <1>2
  <2>2. Min(left) \in left
    <3> HIDE DEF left
    <3>1. \E m \in left : \A k \in left : m <= k
      BY <2>1, Smallest
    <3> QED BY <3>1 DEF Min
  <2> QED BY <2>2
<1>4. key = <<Label(root), key[2]>> /\ key[2] = 1 + Cardinality(Like(root))
  BY DEF Key
<1> HIDE DEF root, key
<1>5. IsFiniteSet(D) /\ IsFiniteSet(D \cup {root})
  BY <1>2, FS_Subset, FS_AddElement
<1>6. ASSUME NEW r
      PROVE  /\ IsFiniteSet(Like(r)) /\ IsFiniteSet(Then(r)) /\ Like(r) \subseteq Then(r)
             /\ Cardinality(Like(r)) \in Nat /\ Cardinality(Then(r)) \in Nat
             /\ Cardinality(Like(r)) <= Cardinality(Then(r))
  <2>1. IsFiniteSet(Like(r)) /\ IsFiniteSet(Then(r)) /\ Like(r) \subseteq Then(r)
    BY <1>5, FS_Subset
  <2> HIDE DEF Like, Then
  <2> QED BY <2>1, FS_Subset, FS_CardinalityType
<1>7. Cardinality(Then(root)) = Cardinality(Like(root)) + 1
  <2>1. Then(root) = Like(root) \cup {root} /\ root \notin Like(root)
    BY <1>3
  <2>2. IsFiniteSet(Like(root))
    BY <1>6
  <2> HIDE DEF Like, Then
  <2> QED BY <2>1, <2>2, FS_AddElement
<1>8. \A r \in D : /\ name[r] = <<Label(r), name[r][2]>> /\ name[r][2] \in Nat
                   /\ name[r][2] <= Cardinality(Like(r))
  BY DEF ClusterInv, NamesOK
<1>9. \A r \in D : name[r] # key
  <2> SUFFICES ASSUME NEW r \in D, name[r] = key PROVE FALSE
    OBVIOUS
  <2>0. name[r] = key
    OBVIOUS
  <2>1. Label(r) = Label(root) /\ name[r][2] = key[2]
    <3>1. name[r] = <<Label(r), name[r][2]>>
      BY <1>8
    <3>2. <<Label(r), name[r][2]>> = <<Label(root), key[2]>>
      BY <1>4, <2>0, <3>1
    <3> QED BY <3>2
  <2>2. Like(r) = Like(root)
    BY <2>1
  <2> HIDE DEF Like
  <2>3. Cardinality(Like(root)) \in Nat
    BY <1>6
  <2>4. name[r][2] = 1 + Cardinality(Like(root)) /\ name[r][2] <= Cardinality(Like(root))
    BY <1>4, <1>8, <2>1, <2>2
  <2> QED BY <2>3, <2>4
<1>10. /\ DOMAIN name' = D \cup {root} /\ name'[root] = key
       /\ \A r \in D : name'[r] = name[r]
  BY <1>1, <1>3
<1>11. ASSUME NEW r \in D \cup {root}
       PROVE  /\ name'[r] = <<Label(r), name'[r][2]>> /\ name'[r][2] \in Nat
              /\ name'[r][2] <= Cardinality(Then(r))
  <2> HIDE DEF Like, Then, D
  <2>1. CASE r = root
    BY <1>4, <1>6, <1>7, <1>10, <2>1
  <2>2. CASE r \in D
    BY <1>6, <1>8, <1>10, <2>2
  <2> QED BY <2>1, <2>2
<1>12. ASSUME NEW r \in D \cup {root}, NEW q \in D \cup {root}, name'[r] = name'[q] PROVE r = q
  BY <1>9, <1>10, <1>12 DEF ClusterInv, NamesOK
<1>13. (\A r : Label(r)' = Label(r)) /\ (\A i : Find(i)' = Find(i)) /\ Roots' = Roots
  BY <1>1, LabelTold
<1>14. NamesOK'
  <2>1. DOMAIN name' \subseteq Roots' /\ at' = Searches /\ todo' = {}
    BY <1>1, <1>2, <1>3, <1>10, <1>13
  <2>2. \A r : {q \in DOMAIN name' : Label(q)' = Label(r)'} = Then(r)
    BY <1>10, <1>13
  <2> HIDE DEF Then, D
  <2>3. \A r \in DOMAIN name' :
           /\ name'[r] = <<Label(r)', name'[r][2]>> /\ name'[r][2] \in Nat
           /\ name'[r][2] <= Cardinality({q \in DOMAIN name' : Label(q)' = Label(r)'})
    BY <1>10, <1>11, <1>13, <2>2
  <2>4. \A r, q \in DOMAIN name' : name'[r] = name'[q] => r = q
    BY <1>10, <1>12
  <2> QED BY <2>1, <2>3, <2>4 DEF NamesOK
<1>15. (\A i, k : Compared(i, k)' <=> Compared(i, k)) /\ (\A i, k : Similar(i, k)' <=> Similar(i, k))
  BY <1>1, WordsTell DEF Compared
<1>16. \A i, k \in Search' : Compared(i, k)' /\ Similar(i, k)' => Find(i)' = Find(k)'
  BY <1>2, <1>13, <1>15 DEF ClusterInv
<1>17. \A i \in Search' : Together(i, Find(i))'
  BY <1>1, <1>2, <1>13 DEF ClusterInv, Together, Similar, Stems, Find, Search
<1>18. /\ words' \in [Search -> Searchable] /\ Forest(parent)'
       /\ at' \in 0..Searches /\ todo' \subseteq Search /\ (at' = 0 => todo' = {}) /\ \A k \in todo' : at' < k
  BY <1>1 DEF ClusterInv, Forest, Search
<1> QED BY <1>2, <1>14, <1>16, <1>17, <1>18 DEF ClusterInv

\* The invariant is inductive.
LEMMA ClusterStep == ASSUME ClusterInv, [ClusterNext]_clusterVars PROVE ClusterInv'
<1>1. CASE ClusterNext
  BY <1>1, NextSearchKeeps, CompareKeeps, NameGroupKeeps DEF ClusterNext
<1>2. CASE UNCHANGED clusterVars
  <2>1. words' = words /\ parent' = parent /\ at' = at /\ todo' = todo /\ name' = name
    BY <1>2 DEF clusterVars
  <2>2. (\A r : Label(r)' = Label(r)) /\ (\A i : Find(i)' = Find(i)) /\ Roots' = Roots
    BY <2>1, LabelTold
  <2>3. NamesOK'
    BY <2>1, <2>2 DEF NamesOK, ClusterInv
  <2>4. (\A i, k : Compared(i, k)' <=> Compared(i, k)) /\ (\A i, k : Similar(i, k)' <=> Similar(i, k))
    BY <2>1, WordsTell DEF Compared
  <2>5. \A i \in Search' : Together(i, Find(i))'
    BY <2>1, <2>2 DEF ClusterInv, Together, Similar, Stems, Find, Search
  <2>6. \A i, k \in Search' : Compared(i, k)' /\ Similar(i, k)' => Find(i)' = Find(k)'
    BY <2>2, <2>4 DEF ClusterInv, Search
  <2> QED BY <2>1, <2>3, <2>5, <2>6 DEF ClusterInv, Forest, Search
<1> QED BY <1>1, <1>2

\* ClusterSpec implies the invariant: what build_clusters has compared is grouped.
THEOREM ClusterInvariance == ClusterSpec => []ClusterInv
BY ClusterInitOK, ClusterStep, PTL DEF ClusterSpec

\* build_clusters: the clusters are the connected components of the searches, in whatever
\* order they are compared, and no two of them have one key.
THEOREM TopicsTheorem == ClusterSpec => []ClustersAreTopics
<1>1. ASSUME ClusterInv, Named, NEW i \in Search, NEW j \in Search
      PROVE  Together(i, j) <=> name[Find(i)] = name[Find(j)]
  <2>1. /\ at = Searches /\ todo = {} /\ DOMAIN name = Roots /\ Search \subseteq Nat
        /\ \A k \in Search : k <= Searches
    BY <1>1, ClusteringAssumption DEF Named, ClusteringAssumption, Search
  <2>2. ASSUME name[Find(i)] = name[Find(j)] PROVE Together(i, j)
    <3>1. Find(i) = Find(j)
      BY <1>1, <2>1, <2>2 DEF ClusterInv, NamesOK, Roots
    <3>2. Together(i, Find(i)) /\ Together(j, Find(j))
      BY <1>1 DEF ClusterInv
    <3> QED BY <3>1, <3>2, TogetherIsEquivalence
  <2>3. ASSUME Together(i, j) PROVE Find(i) = Find(j)
    <3> DEFINE S == Group(Find(i))
    <3>1. S \in SUBSET Search /\ i \in S
      BY DEF Group
    <3>2. ASSUME NEW a \in S, NEW b \in Search, Similar(a, b) PROVE b \in S
      <4>1. a \in Search /\ Find(a) = Find(i)
        BY DEF Group
      <4>2. Find(a) = Find(b)
        <5>1. CASE a < b
          <6>1. a < at
            BY <2>1, <4>1, <5>1, ClusteringAssumption DEF ClusteringAssumption
          <6> QED BY <1>1, <3>2, <4>1, <5>1, <6>1 DEF ClusterInv, Compared
        <5>2. CASE b < a
          <6>1. b < at
            BY <2>1, <4>1, <5>2, ClusteringAssumption DEF ClusteringAssumption
          <6>2. Similar(b, a)
            BY <3>2, <4>1, SimilarBothWays
          <6> QED BY <1>1, <4>1, <5>2, <6>1, <6>2 DEF ClusterInv, Compared
        <5>3. a < b \/ b < a \/ a = b
          BY <2>1, <4>1
        <5> QED BY <5>1, <5>2, <5>3
      <4> QED BY <4>1, <4>2 DEF Group
    <3>3. j \in S
      <4> HIDE DEF S
      <4> QED BY <2>3, <3>1, <3>2 DEF Together
    <3> QED BY <3>3 DEF Group
  <2> QED BY <2>2, <2>3
<1>2. ClusterInv => ClustersAreTopics
  BY <1>1 DEF ClustersAreTopics
<1> QED BY <1>2, ClusterInvariance, PTL

\* _UnionFind: no parent is a later search, and names are of roots.
THEOREM ClusteringTypeTheorem == ClusterSpec => []ClusteringTypeOK
<1>1. ASSUME ClusterInv PROVE ClusteringTypeOK
  <2>1. \A i \in Search : parent[i] \in 1..i
    BY <1>1, ClusteringAssumption DEF ClusteringAssumption, ClusterInv, Forest, Search
  <2>2. Roots \subseteq Search
    BY <1>1, FindIsRoot, RootIsRoot DEF Roots, ClusterInv
  <2> QED BY <1>1, <2>1, <2>2 DEF ClusteringTypeOK, ClusterInv, NamesOK
<1> QED BY <1>1, ClusterInvariance, PTL
-----------------------------------------------------------------------------
(* The parts together.                                                     *)

\* What ResearchInv says of types is more than ResearchTypeOK.
LEMMA ResearchTypeFollows == ResearchInv => ResearchTypeOK
<1> SUFFICES ASSUME ResearchInv PROVE ResearchTypeOK
  OBVIOUS
<1>1. ResearchTyped /\ ResearchOK
  BY DEF ResearchInv
<1>2. ASSUME NEW b \in BriefId, brief[b] # NoBrief
      PROVE  brief[b].status \in BriefStatus /\ brief[b].kind \in Kind
  BY <1>1, <1>2 DEF ResearchTyped, BriefRow
<1> QED BY <1>1, <1>2 DEF ResearchTyped, ResearchOK, ResearchTypeOK

\* Whatever part of MCFindings moves, each of them moves as it does alone.
LEMMA PartsAlone == Spec => FindSpec /\ FrontierSpec /\ ResearchSpec /\ ClusterSpec
<1>1. Init => FindInit /\ FrontierInit /\ ResearchInit /\ ClusterInit
  BY DEF Init
<1>2. ASSUME [Next]_<<part, findVars, frontierVars, researchVars, clusterVars>>
      PROVE  /\ [FindNext]_findVars /\ [FrontierNext]_frontierVars
             /\ [ResearchNext]_researchVars /\ [ClusterNext]_clusterVars
  <2>1. CASE Next
    <3>1. [FindNext]_findVars
      BY <2>1 DEF Next, Analyses, OneCrawl, Drafting, Returns
    <3>2. [FrontierNext]_frontierVars
      BY <2>1 DEF Next, Walk
    <3>3. [ResearchNext]_researchVars
      BY <2>1 DEF Next, Reruns, People
    <3>4. [ClusterNext]_clusterVars
      BY <2>1 DEF Next
    <3> QED BY <3>1, <3>2, <3>3, <3>4
  <2>2. CASE UNCHANGED <<part, findVars, frontierVars, researchVars, clusterVars>>
    BY <2>2
  <2> QED BY <1>2, <2>1, <2>2
<1> QED BY <1>1, <1>2, PTL DEF Spec, FindSpec, FrontierSpec, ResearchSpec, ClusterSpec

\* The rows, crawls, briefs and groups of MCFindings keep their types, whichever moves.
THEOREM PartsTypeCorrect == Spec => []TypeOK
<1>1. FindTypeOK /\ FrontierTypeOK /\ ResearchInv /\ ClusteringTypeOK => TypeOK
  BY ResearchTypeFollows DEF TypeOK
<1> QED BY <1>1, PartsAlone, FindTypeCorrect, FrontierTypeTheorem, ResearchInvariance,
           ClusteringTypeTheorem, PTL
=============================================================================
