--------------------------- MODULE BrokerProcesses ---------------------------
(* The runs that get a token from the broker, and the processes that share   *)
(* it: what CredentialBroker is about.                                       *)

CONSTANTS Runs,       \* runs that get a token
          Clients,    \* processes of plugins
          RunOf,      \* the run each belongs to
          Main,       \* the subprocess the worker starts for each run
          Keys        \* credentials of the plugin

ASSUME RunsAssumption == /\ RunOf \in [Clients -> Runs]
                         /\ Main \in [Runs -> Clients]
                         /\ \A r \in Runs : RunOf[Main[r]] = r
=============================================================================
