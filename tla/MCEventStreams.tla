----------------------------- MODULE MCEventStreams -----------------------------
(* EventStreams on small instances.  Requests and command ids are          *)
(* interchangeable.                                                        *)
EXTENDS EventStreams, TLC

Symmetry == Permutations(Requests) \cup Permutations(CommandIds)
===============================================================================
