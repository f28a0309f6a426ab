------------------------------ MODULE MCAlerts ------------------------------
(* Instances of DiagnosticAlerts and AlertRules for TLC.  The two share no  *)
(* state, so that a behaviour of either says all there is to say of it: one *)
(* is chosen at the start and the other never moves.                        *)
EXTENDS DiagnosticAlerts, Integers

CONSTANTS Runners, MaxRules, Cooldown, MaxStall, Closed,
          Senders     \* which of the two are checked

ASSUME TimesAssumption == /\ {Cooldown, MaxStall, MaxFaults, MaxRules} \subseteq Nat
                          /\ Closed \notin Nat

VARIABLES side, created, deleted, enabled, invalid, broken, met, last, runner, outcome,
          told, failures

R == INSTANCE AlertRules WITH row <- outcome, faults <- failures

rules == <<created, deleted, enabled, invalid, broken, met, last, runner, outcome, told, failures>>

MCInit ==
  /\ side \in Senders
  /\ Init /\ R!Init
  /\ side # "bridge" => critical = {} /\ subscribed = {}

MCNext ==
  \/ side = "rules" /\ R!Next /\ UNCHANGED <<side, vars>>
  \/ side = "bridge" /\ Next /\ UNCHANGED <<side, rules>>

MCSpec == MCInit /\ [][MCNext]_<<side, vars, rules>>
               /\ WF_vars(side = "bridge" /\ PassNext)

BothTypeOK == TypeOK /\ R!TypeOK
SilencedOnlyBehindAFailure == R!SilencedOnlyBehindAFailure
SpacedByCooldown == R!SpacedByCooldown
SuccessMeansDecided == R!SuccessMeansDecided
=============================================================================
