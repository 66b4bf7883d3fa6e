--------------------------- MODULE MCMemberAccess ---------------------------
EXTENDS MemberAccess, TLC

CONSTANTS u1, u2, u3, e1, e2, i1, i2, s1, s2, q1, q2

AccessSymmetry == Permutations({u1, u2, u3}) \cup Permutations({i1, i2})
                    \cup Permutations({s1, s2}) \cup Permutations({q1, q2})
=============================================================================
