--------------------------------- MODULE MCDag ---------------------------------
(* Instances of Dag for TLC: graphs over three nodes. *)
EXTENDS Dag

MCNode == {1, 2, 3}
Chain == {<<1, 2>>, <<2, 3>>}
Fan == {<<1, 2>>, <<1, 3>>}
Join == {<<1, 3>>, <<2, 3>>}
Flat == {}
MCGraphs == {Chain, Fan, Join}
MCIsolated == {1}
================================================================================
