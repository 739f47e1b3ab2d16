------------------------------ MODULE MCDaemon -------------------------------
(* Instances of Daemon for TLC. *)
EXTENDS Daemon

CONSTANTS run, other

\* An edit switches the frame limit and moves the socket, which a reload defers.
MCConfigs == {[bounded |-> FALSE, path |-> run], [bounded |-> TRUE, path |-> other]}
=============================================================================
