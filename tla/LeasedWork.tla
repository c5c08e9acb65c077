------------------------------ MODULE LeasedWork ------------------------------
(***************************************************************************)
(* What the worker promises about a piece of work it takes from a stream   *)
(* under a lease, whatever table it is a row of: the life the reaper's     *)
(* list of leased work assumes for connector_sync (worker/app/reaper.py).  *)
(*                                                                         *)
(* The parts of the work that are done stay done, whoever did them and     *)
(* however often; the work ends once, and is called completed only when    *)
(* nothing of it is missing.                                               *)
(***************************************************************************)
CONSTANTS
    Work,  \* pieces of work
    Part   \* what each consists of

VARIABLES
    life,  \* [Work -> where it stands]
    done   \* [Work -> its parts that are done]

Ended == {"completed", "failed"}

Init ==
    /\ life = [w \in Work |-> "none"]
    /\ done = [w \in Work |-> {}]

Moves(w, from, to) ==
    /\ life[w] \in from
    /\ life' = [life EXCEPT ![w] = to]
    /\ UNCHANGED done

Ask(w) == Moves(w, {"none"}, "queued")

\* By one worker after another: a lease may lapse under its holder.
Take(w) == Moves(w, {"queued", "running"}, "running")

Complete(w) == done[w] = Part /\ Moves(w, {"running"}, "completed")

Fail(w) == Moves(w, {"running"}, "failed")

\* One part may belong to several pieces of work, and a worker that was overtaken
\* may still add one.
Progress ==
    /\ done' \in [Work -> SUBSET Part]
    /\ \A w \in Work : done[w] \subseteq done'[w]
    /\ UNCHANGED life

Next == Progress \/ \E w \in Work : Ask(w) \/ Take(w) \/ Complete(w) \/ Fail(w)

Spec == Init /\ [][Next]_<<life, done>>
=============================================================================
