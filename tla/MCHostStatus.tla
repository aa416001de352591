---------------------------- MODULE MCHostStatus ----------------------------
(* A small instance of HostStatus for TLC. *)
EXTENDS HostStatus

\* A machine on which all is well, and one that is overloaded without Sunshine.
MCSamples == {[sunshine |-> TRUE, busy |-> FALSE], [sunshine |-> FALSE, busy |-> TRUE]}
=============================================================================
