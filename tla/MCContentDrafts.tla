--------------------------- MODULE MCContentDrafts ---------------------------
(* Small instances of ContentDrafts.                                       *)
EXTENDS ContentDrafts
CONSTANTS d1, brief, p1, p2, w1, w2, k1

OneDraft == {d1}
Nobody == {}
OneBrief == {brief}
SameBrief == [d \in Draft |-> brief]
TwoPeople == {p1, p2}
TwoWriters == {w1, w2}
OneChatter == {k1}
=============================================================================
