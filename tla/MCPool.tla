-------------------------------- MODULE MCPool --------------------------------
(* Pool on small instances *)
EXTENDS Pool, TLC

CONSTANTS k1, k2, k3, w1, w2, a1, a2, c1, c2, c3

Clients2 == {k1, k2}
Clients3 == {k1, k2, k3}
Workers1 == {w1}
Workers2 == {w1, w2}
Callers1 == {a1}
Callers2 == {a1, a2}
Conns1 == {c1}
Conns2 == {c1, c2}
Conns3 == {c1, c2, c3}

NoSizes == {}
LargerSizes == {<<1, 2>>}

Symmetry == Permutations(Clients) \cup Permutations(Conns)
                \cup Permutations(Workers) \cup Permutations(Callers)
=============================================================================
