----------------------------- MODULE MCJobRuns -----------------------------
(* Instances of JobRuns for TLC: one plugin, with a first-success hook. *)
EXTENDS JobRuns, TLC

CONSTANTS sync1, hook1

MCSyncJobs == {sync1}
MCHookJobs == {hook1}
MCFirstRunHook == [j \in MCSyncJobs |-> hook1]
SkipPolicy   == [j \in MCSyncJobs |-> "skip_if_running"]
CancelPolicy == [j \in MCSyncJobs |-> "cancel_active"]
QueuePolicy  == [j \in MCSyncJobs |-> "queue_after"]

ProcSymmetry == Permutations(Procs)
ProcWorkerSymmetry == Permutations(Procs) \cup Permutations(Workers)
=============================================================================
