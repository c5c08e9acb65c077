----------------------------- MODULE MCWorkspace -----------------------------
(* What people do in a workspace at the same moment: change its members,   *)
(* spend the month's budget, talk with the agent, track questions and have *)
(* them asked, calibrate.  The parts share no state, so one of them moves  *)
(* from the start of a behaviour and the others rest.                      *)
EXTENDS Membership, Conversation, Citations, Calibration, TLC
CONSTANTS r1, r2, s1, s2, p1, p2, p3, p4, mgr, viewer

TwoWorkers == {r1, r2}
TwoSlots == {s1, s2}

\* A conversation: who may post, what the skills do, what a text is worth for each.
Posters == {mgr, viewer}
Skills == {"look", "routine", "fixes"}
Effects == [s \in Skills |->
               CASE s = "look" -> "read" [] s = "routine" -> "schedule" [] OTHER -> "propose"]
Roles == [p \in Posters |-> IF p = mgr THEN Skills ELSE {"look"}]
Worth(score, acts) == [score |-> score, action |-> acts, strong |-> score > 1]
Words(asks, look, routine, fixes) ==
    [asks |-> asks, cadence |-> FALSE,
     hit |-> [s \in Skills |-> CASE s = "look" -> Worth(look, FALSE)
                                 [] s = "routine" -> Worth(routine, routine > 0)
                                 [] OTHER -> Worth(fixes, fixes > 0)]]
Plain == Words(FALSE, 2, 0, 0)
Once == Words(FALSE, 0, 3, 3)
Texts == {Plain, Words(FALSE, 0, 0, 0), [Words(FALSE, 3, 3, 0) EXCEPT !.cadence = TRUE], Once,
          Words(TRUE, 2, 0, 3), Words(FALSE, 2, 0, 4)}

Questions == <<p1, p2, p3, p4>>
QuestionSet == {p1, p2, p3, p4}

VARIABLES draft, proposal, sitemap, reviewNote, session, writer, chat, chatSpend, charged, faults

\* Three drafts and a chat, with a budget of one call and nobody who reviews.
Drafts == {p1, p2, p3}
Money == INSTANCE ContentDrafts
             WITH Draft <- Drafts, Target <- Drafts, TargetOf <- [d \in Drafts |-> d],
                  Person <- {}, Writer <- TwoWorkers, Chatter <- {p4}, MaxAttempts <- 1,
                  Budget <- 1, MaxChats <- 2, MaxFaults <- 0,
                  message <- reviewNote, billed <- charged

moneyVars == <<draft, proposal, sitemap, reviewNote, session, writer, chat, chatSpend, charged, faults>>

\* Three calls, two keys, two things to ask for.
ThreeCalls == 1..3
TwoKeys == {p1, p2}
TwoWishes == {p3, p4}

VARIABLE part

Init ==
    /\ part \in {"members", "money", "talk", "questions", "calibration"}
    /\ MemberInit /\ Money!Init /\ TalkInit /\ CitationInit /\ CalibrationInit
    /\ part # "calibration" =>
          \A c \in ThreeCalls : call[c].kind = "run" /\ call[c].key = p1 /\ call[c].asked = p3

\* Bound: after the first question, only a plain text or one that asks for a run, and
\* from the viewer only the plain one.
Talk ==
    /\ TalkNext
    /\ \A p \in Posters : post'[p] # NotPosting /\ (p = viewer \/ message # {})
          => /\ post'[p].text = Plain \/ (post'[p].text = Once /\ p = mgr)
             /\ post'[p].forced = Unrouted

\* Questions nobody has asked for are interchangeable: they are taken in order.
Known(q) == RowsOf(q) # {} \/ \E t \in Tracker : tracker[t] = q
TrackInOrder == CitationNext /\ \A i \in 2..4 : Known(Questions[i])' => Known(Questions[i - 1])'

Next ==
    /\ UNCHANGED part
    /\ \/ part = "members" /\ MemberNext
       \/ part = "money" /\ Money!Next
       \/ part = "talk" /\ Talk
       \/ part = "questions" /\ TrackInOrder
       \/ part = "calibration" /\ CalibrationNext
    /\ part # "members" => UNCHANGED memberVars
    /\ part # "money" => UNCHANGED moneyVars
    /\ part # "talk" => UNCHANGED talkVars
    /\ part # "questions" => UNCHANGED citationVars
    /\ part # "calibration" => UNCHANGED calibrationVars

Spec == Init /\ [][Next]_<<part, memberVars, moneyVars, talkVars, citationVars, calibrationVars>>
-----------------------------------------------------------------------------
\* The type invariants of the parts.
TypeOK ==
    /\ MemberTypeOK /\ Money!TypeOK /\ TalkTypeOK /\ CitationTypeOK
    /\ CalibrationTypeOK

\* A limit that is read and then acted on, and that nothing locks, gives way to what
\* overlaps: the month's recorded spend by the calls at work when the budget was reached
\* (ContentDrafts), the scans' bill by one budget for each scan at work beside, but for
\* what no estimate covers and no row records (Citations), the questions of a site by
\* the requests that counted together (Citations).
LimitsYieldToOverlap == Money!OverspendIsBounded /\ SpendIsBounded /\ OnlyOverlapExceedsLimit

\* Workers are interchangeable, and so are slots.
Alike == Permutations(TwoWorkers) \cup Permutations(TwoSlots)
=============================================================================
