---------------------------- MODULE RunLifecycle ----------------------------
(***************************************************************************)
(* What the job queue promises about one run, whoever writes its row: a    *)
(* run is accepted once, may be parked and taken up again, and closes for  *)
(* good.  A run that is being cancelled has only one way to go.            *)
(***************************************************************************)
CONSTANT Runs

VARIABLE phase

Phase == {"new", "waiting", "active", "held", "closing", "closed"}

Init == phase = [r \in Runs |-> "new"]

Move(r, from, to) == /\ phase[r] \in from
                     /\ phase' = [phase EXCEPT ![r] = to]

\* Accepted into the queue, started by hand, or turned down.
Submit(r) == \E to \in {"waiting", "active", "closed"} : Move(r, {"new"}, to)

Begin(r)   == Move(r, {"waiting"}, "active")
Hold(r)    == Move(r, {"waiting", "active"}, "held")
Release(r) == Move(r, {"held"}, "waiting")
Stop(r)    == Move(r, {"waiting", "active"}, "closing")

\* Several runs may close at once: the runs of a worker that died.
Close ==
  /\ phase' \in [Runs -> Phase]
  /\ \A r \in Runs : phase'[r] # phase[r] =>
       phase[r] \in {"waiting", "active", "held", "closing"} /\ phase'[r] = "closed"

Next ==
  \/ Close
  \/ \E r \in Runs : Submit(r) \/ Begin(r) \/ Hold(r) \/ Release(r) \/ Stop(r)

Spec == Init /\ [][Next]_phase
=============================================================================
