------------------------------ MODULE MCPirana ------------------------------
(* Ciphertexts of eight slots; databases below, at and above that size with *)
(* payloads of one to twenty slots; tables with one and two slots to a      *)
(* place and with two bundles.                                              *)
EXTENDS Pirana

MCSingles == [payloads : {1, 2, 3, 4, 5, 8, 11, 16, 24}, bytes : {3, 7, 15, 26, 30, 45, 70}]

MCBatched ==
    {[payloads |-> n, bytes |-> b, queries |-> k, compress |-> c] :
        n \in {6}, b \in {2, 6}, k \in {2, 5, 6}, c \in BOOLEAN}

MCHashes == {[i \in 0 .. 5 |-> {i, 3 * i, (5 * i) + 2}],
             [i \in 0 .. 5 |-> {i \div 2, i + 9, 7 - i}]}

MCBatches == {<<0, 1>>, <<1, 2>>, <<3, 4>>, <<5, 2>>, <<4, 4>>, <<5, 0>>,
              <<0, 1, 2, 3, 4>>, <<5, 3, 1, 1, 0>>,
              <<0, 1, 2, 3, 4, 5>>, <<5, 4, 5, 3, 2, 1>>}
=============================================================================
