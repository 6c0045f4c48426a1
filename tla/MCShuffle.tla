----------------------------- MODULE MCShuffle -----------------------------
(* Four rows: three layers of pairs and a permutation between them, and one *)
(* call of mShuffle over the whole vector.                                  *)
EXTENDS Shuffle

MCShapes == {[height |-> 2, nums |-> 4, layers |-> 3, direct |-> FALSE],
             [height |-> 3, nums |-> 4, layers |-> 1, direct |-> TRUE]}

Vector(a0, a1, a2, a3) == (0 :> a0) @@ (1 :> a1) @@ (2 :> a2) @@ (3 :> a3)

MCSwaps == {(0 :> 0) @@ (1 :> 1), (0 :> 1) @@ (1 :> 0),
            Vector(1, 2, 3, 0), Vector(2, 0, 1, 3), Vector(3, 2, 1, 0)}
MCBoxes == {Vector(0, 1, 2, 3), Vector(2, 0, 3, 1)}
=============================================================================
