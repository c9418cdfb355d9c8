------------------------------ MODULE MCScenarios ------------------------------
(* Scenarios on a small instance.                                            *)
EXTENDS Scenarios, TLC

CONSTANTS s1, s2, n1, n2, a, b, k1, k2, t1, t2, l1, l2

InstanceSymmetry ==
    Permutations(Tabs) \cup Permutations(Names) \cup Permutations(Terms)
        \cup Permutations(Limits)
=============================================================================
