--------------------------- MODULE MCCavalryPool ---------------------------
(* An instance of CavalryPool: a pool with a limit, one without, one whose *)
(* minimum exceeds the default limit, and the corrected limits 0 and 1.    *)
EXTENDS CavalryPool, TLC

MCConfigs == {<<0, 1>>, <<1, 3>>, <<3, 0>>}
MemSymmetry == Permutations(Mems)
============================================================================
