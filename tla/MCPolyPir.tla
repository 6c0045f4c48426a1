------------------------------ MODULE MCPolyPir ------------------------------
(***************************************************************************)
(* An instance of PolyPir over the field of 97 elements: tables of 32 rows *)
(* and 8 or 32 columns, plaintexts of 32 used positions.                   *)
(***************************************************************************)
EXTENDS PolyPir

Rising == [i \in Below(Points) |-> i + 1]
Falling == [i \in Below(Points) |-> Prime - 1 - i]
MCTables == {[c \in 1 .. w |-> IF c % 2 = 0 THEN Rising ELSE [Falling EXCEPT ![c] = c]] :
                w \in {8, 32}}

\* For each batch size rows that are neighbours, evenly spread, out of order
\* or scattered; the scattered ones repeat a row from eight rows on.
Neighbours(b) == [i \in 1 .. b |-> (i + 2) % Points]
Spread(b) == [i \in 1 .. b |-> (i - 1) * (Points \div b)]
Strided(b) == [i \in 1 .. b |-> (13 * i + 1) % Points]
Scattered(b) == [i \in 1 .. b |-> (3 * i * i + 5 * i) % Points]
MCIdLists == UNION {{Neighbours(b), Spread(b), Strided(b), Scattered(b)} : b \in Batches}

MCMasks == {[j \in Below(Half) |-> (5 * j + 3) % Prime]}
MCShares == {[j \in Below(Half) |-> [i \in Below(Half) |-> (7 * j + 4 * i + 2) % Prime]]}
=============================================================================
