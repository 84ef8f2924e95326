----------------------- MODULE MCDatabaseRefreshStore -----------------------
(* TLC instance of DatabaseRefreshStore: two callers, so that every pair of  *)
(* calls overlaps, and three opaques over two instants, so that two Issues   *)
(* of one instant clash and a third can still be linked to the survivor.     *)
EXTENDS DatabaseRefreshStore, TLC

\* Callers and opaques are interchangeable: no definition tells one apart.
Symmetry == Permutations(Callers) \cup Permutations(Opaques)
=============================================================================
