---------------------------- MODULE MCPublication ----------------------------
(* Publication on a small instance: proposals a and b share revision 1, c is *)
(* the only one of revision 2; the one enrollment is on revision 0.          *)
EXTENDS Publication, TLC

CONSTANTS a, b, c, ana, t1, t2

ThreeProposals == [p \in Proposals |-> IF p = c THEN 2 ELSE 1]
OnFirst == [n \in Enrollments |-> 0]
InstanceSymmetry == Permutations(Txns) \cup Permutations({a, b})
=============================================================================
