----------------------------- MODULE CrawlFaults -----------------------------
(***************************************************************************)
(* What CrawlQueue promises for as long as heartbeats and acks work: slots *)
(* and the relay may die at any moment, events and entries may be written  *)
(* twice, but no slot goes on with a lease it could not keep.  working     *)
(* remembers whether that was so until now.                                *)
(***************************************************************************)
EXTENDS CrawlQueue

\* Heartbeats and acks have worked so far.
VARIABLE working

\* A heartbeat failed before the crawl had its result, or an ack failed.  Once
\* completed, a row is not running and its last heartbeat fails for nothing.
Fault(w) == \/ slot'[w].hb /\ ~slot[w].hb /\ slot[w].pc # "ack"
            \/ slot[w].pc = "ack" /\ slot'[w].pc = "release"

QueueInit == Init /\ working = TRUE

QueueNext ==
    /\ Next
    /\ working' = (working /\ \A w \in Slot : ~Fault(w))

QueueFairness == SlotFairness /\ RelayFairness /\ SweepFairness

QueueSpec == QueueInit /\ [][QueueNext]_<<vars, working>> /\ QueueFairness

-----------------------------------------------------------------------------
\* "A row can never be queued without the event that would pick it up" (reaper.py):
\* while heartbeats and acks work, whatever dies, no queued row is without its delivery.
QueueIsDelivered == working => QueuedHasDelivery

\* While heartbeats and acks work a crawl that ended stays as it ended, and is
\* announced once, whatever dies and is published or delivered twice.
FinishedStaysFinished == [][working' => \A c \in Crawl : StaysFinished(c)]_<<vars, working>>

\* If heartbeats and acks work, every requested crawl comes to an end.
CrawlsSettle == []working => EveryCrawlSettles
=============================================================================
