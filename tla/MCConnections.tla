--------------------------- MODULE MCConnections ---------------------------
(* Small instances of Connections.                                         *)
EXTENDS Connections, TLC
CONSTANTS g1, g2, n1, h1, p1, p2, s1, s2, s3, a1, a2, r1, r2

TwoGoogle == {g1, g2}
OneRepo == {h1}
Nothing == {}
TwoProperties == {p1, p2}
TwoConsents == {s1, s2}
OneAdmin == {a1}
OneRenewer == {r1}
TwoRenewers == {r1, r2}

\* No definition chooses among these.
Alike == Permutations(TwoProperties) \cup Permutations(TwoConsents)
         \cup Permutations(TwoRenewers)
=============================================================================
