-------------------------- MODULE MCSyncScheduler --------------------------
(* Instances of SyncScheduler for TLC, in units of five seconds. *)
EXTENDS SyncScheduler

\* "* * * * *" and "*/2 * * * *"
MCCrons  == {"every minute", "every other minute"}
MCPeriod == [c \in MCCrons |-> IF c = "every minute" THEN 12 ELSE 24]

\* At a slot, and where a pass comes just after the next one.
MCStartTimes == {0, 6}
=============================================================================
