--------------------------- MODULE PluginPresence ---------------------------
(***************************************************************************)
(* What installing, updating and uninstalling promise about one plugin,    *)
(* whichever directories and renames they take: it is absent or present in *)
(* one version; an update puts a version in its place and remembers the    *)
(* one it replaced until it commits; the only version a plugin ever goes   *)
(* back to is the one remembered.                                          *)
(***************************************************************************)
EXTENDS Integers

CONSTANTS Versions,  \* the versions of the plugin
          None       \* no version

VARIABLES version,   \* the version present, or None
          previous   \* the version an unfinished update replaced, or None

vars == <<version, previous>>

TypeOK == /\ version \in Versions \cup {None}
          /\ previous \in Versions \cup {None}

Init == version = None /\ previous = None

Install == /\ version = None
           /\ previous = None
           /\ version' \in Versions
           /\ UNCHANGED previous

Replace == /\ version # None
           /\ previous = None
           /\ previous' = version
           /\ version' \in Versions

Commit == /\ previous # None
          /\ previous' = None
          /\ UNCHANGED version

Revert == /\ previous # None
          /\ version' = previous
          /\ previous' = None

(* Uninstalled, or lost: the code promises nothing after a crash between    *)
(* two renames.                                                             *)
Vanish == /\ version' = None
          /\ previous' = None

Next == Install \/ Replace \/ Commit \/ Revert \/ Vanish

Spec == Init /\ [][Next]_vars
=============================================================================
