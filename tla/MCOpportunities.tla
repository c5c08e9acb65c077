--------------------------- MODULE MCOpportunities ---------------------------
(* One opportunity, two crawls of its page, one consumer and one drafter.  *)
EXTENDS Opportunities
CONSTANTS a, c1, c2, w1, d1

OneRule == {a}
OnePage == [o \in OneRule |-> "page"]
TwoCrawls == {c1, c2}
OneAnalyst == {w1}
OneDrafter == {d1}
=============================================================================
