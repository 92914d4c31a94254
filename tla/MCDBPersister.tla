--------------------------- MODULE MCDBPersister ---------------------------
(* DBPersister with two persisters that TLC may exchange.                  *)
EXTENDS DBPersister, TLC

Symmetry == Permutations(Persisters)
=============================================================================
