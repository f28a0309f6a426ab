----------------------------- MODULE MCServices -----------------------------
(* Instances of CredentialBroker and of MCAlerts for TLC.  The worker's      *)
(* broker shares no state with the two senders of alerts, so that it is one  *)
(* more side of which a behaviour may be.                                    *)
EXTENDS MCAlerts, BrokerProcesses, TLC

CONSTANTS r1, c1, c2

RunOfDef == (c1 :> r1) @@ (c2 :> r1)
MainDef == r1 :> c1

VARIABLES perKey, misnamed, up, run, pending, pipe, stored, client, thread, used, dialled,
          mishaps

B == INSTANCE CredentialBroker WITH faults <- mishaps

broker == <<perKey, misnamed, up, run, pending, pipe, stored, client, thread, used, dialled,
            mishaps>>
services == <<side, vars, rules, broker>>

ServicesInit ==
  /\ MCInit /\ B!Init
  /\ side # "broker" => perKey = {} /\ misnamed = {} /\ stored = {}

ServicesNext ==
  \/ MCNext /\ UNCHANGED broker
  \/ side = "broker" /\ B!Next /\ UNCHANGED <<side, vars, rules>>

\* The fairness of DiagnosticAlerts and of CredentialBroker, each on its side.
ServicesSpec ==
  /\ ServicesInit /\ [][ServicesNext]_services
  /\ WF_vars(side = "bridge" /\ PassNext)
  /\ WF_broker(side = "broker" /\ B!Restart)
  /\ WF_broker(side = "broker" /\ B!SweepTokens)
  /\ \A r \in Runs : WF_broker(side = "broker" /\ B!Expire(r))
  /\ \A c \in Clients : WF_broker(side = "broker" /\ B!Broker(c))

BrokerTypeOK == B!TypeOK
SingleUseAcceptedOnce == B!SingleUseAcceptedOnce
NoTokenOfFinishedRun == B!NoTokenOfFinishedRun
TokensLeave == B!TokensLeave
=============================================================================
