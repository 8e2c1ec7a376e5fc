------------------------- MODULE MCRebalanceRounds -------------------------
(* Constants of the runs of RebalanceRounds. *)
EXTENDS RebalanceRounds

OrderedVersions  == {<<0, 9>>, <<1, 9>>}
CrossingVersions == {<<2, 0>>, <<1, 5>>}
OneVersion       == {<<1, 0, 0>>}
============================================================================
