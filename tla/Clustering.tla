------------------------------ MODULE Clustering ------------------------------
(***************************************************************************)
(* How the searches of a window are grouped into topics: linked pairwise   *)
(* when they share enough words, grown together by union-find, and named   *)
(* by the words most of a group share.                                     *)
(*                                                                         *)
(* Source: worker/app/keywords/cluster.py.                                 *)
(*                                                                         *)
(* Searches are numbered in the order of their hashes, by which they are   *)
(* sorted; words are numbers in alphabetical order, without the stopwords; *)
(* a search is the set of its words, compared by their stems.  Scores,     *)
(* intents and pages of a cluster are sums over its members and left out.  *)
(***************************************************************************)
EXTENDS Integers, FiniteSets, FiniteSetsExt

CONSTANTS
    Searches,      \* how many there are
    Word, StemOf,
    Searchable,    \* sets of words people search for
    LabelSize      \* LABEL_MAX_TOKENS, 3 in the code

ASSUME ClusteringAssumption ==
    /\ Searches \in Nat /\ Word \subseteq Nat /\ LabelSize \in Nat \ {0}
    /\ Searchable \subseteq SUBSET Word /\ \A ws \in Searchable : IsFiniteSet(ws)

VARIABLES
    words,     \* [search -> its words]
    parent,    \* the forest of _UnionFind
    at,        \* the search whose links are drawn
    todo,      \* its candidates still to be compared
    name       \* [roots named so far -> cluster_key]

clusterVars == <<words, parent, at, todo, name>>

Search == 1..Searches
Stems(i) == {StemOf[w] : w \in words[i]}

\* similar: one contains the other, of two words at least, or a third of them is shared
\* (SIMILARITY_THRESHOLD, 0.34).
Similar(i, j) ==
    /\ Stems(i) # {} /\ Stems(j) # {}
    /\ \/ Cardinality(Stems(i)) >= 2 /\ Stems(i) \subseteq Stems(j)
       \/ Cardinality(Stems(j)) >= 2 /\ Stems(j) \subseteq Stems(i)
       \/ 100 * Cardinality(Stems(i) \cap Stems(j)) >= 34 * Cardinality(Stems(i) \cup Stems(j))

\* The postings of its stems, later searches only.
Candidates(i) == {j \in Search : j > i /\ Stems(i) \cap Stems(j) # {}}

\* find, whose path halving changes no root: a parent is never a later search.
Find(i) == LET root[j \in Search] == IF parent[j] = j THEN j ELSE root[parent[j]] IN root[i]

ClusterInit ==
    /\ words \in [Search -> Searchable]
    /\ parent = [i \in Search |-> i]
    /\ at = 0 /\ todo = {}
    /\ name = <<>>

NextSearch ==
    /\ todo = {} /\ at < Searches
    /\ at' = at + 1
    /\ todo' = Candidates(at + 1)
    /\ UNCHANGED <<words, parent, name>>

Lesser(i, j) == IF i < j THEN i ELSE j
Greater(i, j) == IF i < j THEN j ELSE i

\* Mutant of Union: the searches are joined, not the groups they are in.
UnionOfSearches(i, j) == [parent EXCEPT ![Greater(i, j)] = Lesser(i, j)]

Union(i, j) == [parent EXCEPT ![Greater(Find(i), Find(j))] = Lesser(Find(i), Find(j))]

\* Candidates are a set, compared in no order.
Compare(j) ==
    /\ j \in todo
    /\ todo' = todo \ {j}
    /\ parent' = IF Similar(at, j) THEN Union(at, j) ELSE parent
    /\ UNCHANGED <<words, at, name>>

-----------------------------------------------------------------------------
(* Names.                                                                  *)

Group(root) == {i \in Search : Find(i) = root}
Roots == {Find(i) : i \in Search}

\* cluster_label: the words at least half of the members that have words share, or all
\* when none is; the most frequent first, then the alphabet.
Label(root) ==
    LET members == {i \in Group(root) : words[i] # {}}
        frequency(w) == Cardinality({i \in members : w \in words[i]})
        used == UNION {words[i] : i \in members}
        often == {w \in used : 2 * frequency(w) >= Cardinality(members)}
        shared == IF often = {} THEN used ELSE often
        before(v, w) == frequency(v) > frequency(w) \/ (frequency(v) = frequency(w) /\ v < w)
    IN  {w \in shared : Cardinality({v \in shared : before(v, w)}) < LabelSize}

\* The label, and its number among those of its kind.  A row keeps the first 200
\* characters of it, which a label of LabelSize words of ordinary length does not reach.
Key(root) ==
    <<Label(root), 1 + Cardinality({r \in DOMAIN name : Label(r) = Label(root)})>>

\* Groups are named in the order of their roots.
NameGroup ==
    /\ at = Searches /\ todo = {} /\ DOMAIN name # Roots
    /\ LET root == Min(Roots \ DOMAIN name) IN
       name' = [r \in DOMAIN name \cup {root} |-> IF r = root THEN Key(root) ELSE name[r]]
    /\ UNCHANGED <<words, parent, at, todo>>

ClusterNext == NextSearch \/ (\E j \in Search : Compare(j)) \/ NameGroup

ClusterSpec == ClusterInit /\ [][ClusterNext]_clusterVars
-----------------------------------------------------------------------------
Named == at = Searches /\ todo = {} /\ DOMAIN name = Roots

\* A reference: two searches belong together when no set of searches that is closed
\* under similarity has one of them and not the other.
Together(i, j) ==
    \A S \in SUBSET Search :
       (\A a \in S, b \in Search : Similar(a, b) => b \in S) => (i \in S <=> j \in S)

\* "the clusters are the connected components of that graph, so a topic stays whole even
\* when no single phrasing is shared by all of its members" (build_clusters), in
\* whatever order the searches are compared; and no two of them have one key, by which
\* the rows of a window are kept.
ClustersAreTopics ==
    Named => \A i, j \in Search : Together(i, j) <=> name[Find(i)] = name[Find(j)]

ClusteringTypeOK ==
    /\ \A i \in Search : parent[i] \in 1..i
    /\ at \in 0..Searches /\ todo \subseteq Search /\ DOMAIN name \subseteq Search
=============================================================================
