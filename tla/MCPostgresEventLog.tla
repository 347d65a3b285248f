-------------------------- MODULE MCPostgresEventLog --------------------------
(* PostgresEventLog on small instances.  Clients, keys and events are      *)
(* interchangeable; Symmetry is used where no liveness is checked.         *)
EXTENDS PostgresEventLog, TLC

Symmetry == Permutations(Clients) \cup Permutations(CommandIds) \cup Permutations(Events)
===============================================================================
