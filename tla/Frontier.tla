------------------------------- MODULE Frontier -------------------------------
(***************************************************************************)
(* How one crawl finds the pages of a site: breadth first from the origin  *)
(* and the sitemaps, within three limits.                                  *)
(*                                                                         *)
(* Source: crawler/src/crawl-engine.ts (crawlSite), http-fetcher.ts,       *)
(* adaptive-fetcher.ts.                                                    *)
(*                                                                         *)
(* The site is found out as it is fetched: what a page links to, in order, *)
(* is settled when the crawl asks for it and kept in links.  Pages are the *)
(* normalized URLs of the host; robots.txt is a set of them.               *)
(***************************************************************************)
EXTENDS Integers, FiniteSets, Sequences

CONSTANTS
    Page,        \* URLs of the site
    Home,        \* the origin
    MaxDepth,    \* bound on hops, 10 unless the crawl says otherwise
    MaxLinks,    \* MAX_LINKS_PER_PAGE, 5000 in the code
    MaxDeclared, \* bound: pages the sitemaps declare
    Limits       \* [pages, found]: maxPages and discoveryBudget of the crawls checked

ASSUME FrontierAssumption ==
    /\ Home \in Page /\ MaxDepth \in Nat \ {0} /\ MaxLinks \in Nat \ {0} /\ MaxDeclared \in Nat
    /\ \A l \in Limits : l.pages \in Nat \ {0} /\ l.found \in Nat /\ l.found >= l.pages

VARIABLES
    limit,       \* the limits of this crawl
    disallowed,  \* the pages robots.txt closes to the crawler
    queue,       \* sequence of [url, depth]
    visited,     \* the set seen of the code
    observed,    \* sequence of observations, by the page asked for
    truncated,   \* discoveryTruncated
    sitemap,     \* the pages the sitemaps declare, once they are read
    links        \* [Page -> what its HTML links to; [found, cut], cut when there were more]

frontierVars == <<limit, disallowed, queue, visited, observed, truncated, sitemap, links>>

\* Sequences of at most n pages, none of them twice.
Paths(n) == UNION {{s \in [1..m -> Page] : \A i, j \in 1..m : s[i] = s[j] => i = j} : m \in 0..n}
Elements(s) == {s[i] : i \in DOMAIN s}

\* createHttpFetcher: the egress guard refuses a hop, a redirect leads nowhere or once
\* too often, the answer is late or too large; or it is not HTML.
Unfetched == [html |-> FALSE, found |-> <<>>, cut |-> FALSE]

\* createAdaptiveFetcher: the HTML the server sent, or what a browser made of it, with
\* its first MaxLinks links; whichever page of the host a redirect ended at.
Answer == {a \in [html : {TRUE}, found : Paths(MaxLinks), cut : BOOLEAN] :
              a.cut => Len(a.found) = MaxLinks}

Queued(q) == {q[i].url : i \in DOMAIN q}

\* queued.size + seen.size >= discoveryBudget.
Full(state) == Cardinality(Queued(state.queue)) + Cardinality(visited') >= limit.found

\* Mutant of Enqueue: a page there is no room for is dropped without a word.
EnqueueSilently(state, url, depth) ==
    IF depth > MaxDepth \/ url \in visited' \cup Queued(state.queue) \/ Full(state) THEN state
    ELSE [state EXCEPT !.queue = Append(@, [url |-> url, depth |-> depth])]

\* enqueue: too deep or known is passed over, no room is remembered.
Enqueue(state, url, depth) ==
    IF depth > MaxDepth \/ url \in visited' \cup Queued(state.queue) THEN state
    ELSE IF Full(state) THEN [state EXCEPT !.truncated = TRUE]
    ELSE [state EXCEPT !.queue = Append(@, [url |-> url, depth |-> depth])]

\* Every page of a sequence, in its order.
EnqueueAll(state, urls, depth) ==
    LET after[n \in 0..Len(urls)] ==
            IF n = 0 THEN state ELSE Enqueue(after[n - 1], urls[n], depth)
    IN  after[Len(urls)]

FrontierInit ==
    /\ limit \in Limits
    /\ disallowed \in SUBSET Page
    /\ queue = <<[url |-> Home, depth |-> 0]>>
    /\ visited = {} /\ observed = <<>>
    /\ truncated = FALSE
    /\ sitemap = {}
    /\ links = [p \in Page |-> Unfetched]

\* The sitemaps, at the well-known place and those robots.txt names: the pages of
\* the host they declare, as if the origin linked to them.  One that is missing,
\* malformed or of another host declares none, one too long is cut, and those after
\* the twentieth are not looked at, of which the crawl says nothing: "the sitemaps"
\* are the twenty.
ReadSitemaps ==
    /\ sitemap = {} /\ visited = {} /\ Len(queue) = 1
    /\ visited' = visited
    /\ \E declared \in Paths(MaxDeclared), long \in BOOLEAN :
          LET state == EnqueueAll([queue |-> queue, truncated |-> long], declared, 0) IN
          /\ declared # <<>>
          /\ sitemap' = Elements(declared)
          /\ queue' = state.queue
          /\ truncated' = state.truncated
    /\ UNCHANGED <<limit, disallowed, observed, links>>

\* Mutant: the limit on pages is looked at one page late.
GoingOneMore == queue # <<>> /\ Len(observed) <= limit.pages

Going == queue # <<>> /\ Len(observed) < limit.pages

\* The head of the queue is skipped for robots.txt, is not fetched or no HTML, or is
\* observed and its links are enqueued.
Visit ==
    LET entry == Head(queue)
        rest == [queue |-> Tail(queue), truncated |-> truncated]
    IN
    /\ Going
    /\ visited' = visited \cup {entry.url}
    /\ \/ queue' = rest.queue /\ UNCHANGED <<observed, truncated, links>>
       \/ /\ entry.url \notin disallowed
          /\ \E answer \in Answer :
                LET state == EnqueueAll(rest, answer.found, entry.depth + 1) IN
                /\ links' = [links EXCEPT ![entry.url] = answer]
                /\ queue' = state.queue /\ truncated' = state.truncated
                /\ observed' = Append(observed, entry.url)
    /\ UNCHANGED <<limit, disallowed, sitemap>>

FrontierNext == ReadSitemaps \/ Visit

FrontierSpec == FrontierInit /\ [][FrontierNext]_frontierVars
-----------------------------------------------------------------------------
\* The pages at most n hops from the origin and the sitemaps.
Hops[n \in 0..MaxDepth] ==
    IF n = 0 THEN {Home} \cup sitemap
    ELSE Hops[n - 1] \cup UNION {Elements(links[p].found) : p \in Hops[n - 1]}

Within == Hops[MaxDepth]

FrontierTypeOK ==
    /\ \A i \in DOMAIN queue : queue[i].url \in Page /\ queue[i].depth \in 0..MaxDepth
    /\ Cardinality(Queued(queue) \cup visited) <= limit.found
    /\ Len(observed) <= limit.pages /\ Elements(observed) \subseteq visited \ disallowed
    /\ truncated \in BOOLEAN /\ sitemap \subseteq Page

\* A crawl that runs out of pages, and does not say that it cut anything, has asked
\* for exactly the pages within MaxDepth hops of the origin and the sitemaps, whatever
\* order links come in and whatever fails on the way.
CrawlIsComplete ==
    queue = <<>> /\ ~truncated /\ (\A p \in Page : ~links[p].cut)
        => visited = Within
=============================================================================
