---------------------------- MODULE MCUpdateFlow ----------------------------
(* UpdateFlow with screens of two sizes, which are alike: that the screen  *)
(* has one of them to begin with is no restriction.                        *)
EXTENDS UpdateFlow

CONSTANTS small, large
MCSizes == {small, large}

MCInit == Init /\ server.screen.size = small
MCSpec == MCInit /\ [][Next]_vars /\ Fairness
=============================================================================
