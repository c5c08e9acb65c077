---------------------------- MODULE MCCrawlQueue ----------------------------
(* Two crawls of one site.  Either slots and the relay die, twice, or one  *)
(* heartbeat or ack fails; what is promised only while those work is said  *)
(* of the former.                                                          *)
EXTENDS CrawlFaults
CONSTANTS c1, c2, w1, w2, m1, m2

TwoCrawls == {c1, c2}
OneSite == [c \in Crawl |-> "home"]
TwoSlots == {w1, w2}
TwoMsgs == {m1, m2}

\* Bound: nothing else fails once a heartbeat or an ack has.
BoundedNext == QueueNext /\ (~working' => faults' = 1)

BoundedSpec == QueueInit /\ [][BoundedNext]_<<vars, working>> /\ QueueFairness
=============================================================================
