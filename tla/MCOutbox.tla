------------------------------- MODULE MCOutbox -------------------------------
(* OutboxRelay for TLC.                                                        *)
EXTENDS OutboxRelay, TLC

Symmetric == Permutations(Job) \cup Permutations(Writer) \cup Permutations(Relay)
===============================================================================
