-------------------------------- MODULE MCBoot --------------------------------
(***************************************************************************)
(* Boot for TLC: the seed of the code, and clients that take what the      *)
(* seed leaves of ask 104 and cancel what it leaves of bid 99.             *)
(***************************************************************************)
EXTENDS Boot

CONSTANTS s1, s2, s3, s4, s5, s6, s7

MCSeedIds == <<s1, s2, s3, s4, s5, s6, s7>>

MCCommandIds == Range(MCSeedIds) \cup ClientIds

MCClientCommands == {SeedOrder(7, "Bid", 104, 10), CancelOrder(3)}

MCCommands == Range(SeedCommands) \cup MCClientCommands
===============================================================================
