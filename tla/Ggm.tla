-------------------------------- MODULE Ggm --------------------------------
(***************************************************************************)
(* The trees of the shuffle (iPrivJoin, ggm.cpp): a key at the root, two   *)
(* pseudorandom blocks from every node for its children, nodes numbered    *)
(* from 0 in layers.  A receiver that learns, for every layer, the sum of  *)
(* one side rebuilds the tree but for one path.                            *)
(*                                                                         *)
(* A block is a set of atoms: sums (xor) are symmetric differences, zero   *)
(* is the empty set, and a child of block v is an atom of its own.         *)
(***************************************************************************)
EXTENDS Integers, Sequences, SequencesExt

LOCAL Below(n) == 0 .. n - 1

Zero == {}
Xor(v, w) == (v \ w) \cup (w \ v)
Total(s) == FoldLeft(Xor, Zero, s)

Key(k) == {<<Zero, k>>}               \* k >= 2
Prg(v, side) == {<<v, side>>}         \* side 0 or 1

Nodes(high) == Below(2^high - 1)

\* Whether i is index or below it.
Under(index, i) == \E d \in 0 .. 30 : (i + 1) \div 2^d = index + 1

\* GGMTree::set: the key at index and what follows from it below.
Set(node, index, key) ==
    LET value[i \in DOMAIN node] ==
            IF i = index THEN key
            ELSE IF Under(index, i) THEN Prg(value[(i - 1) \div 2], (i - 1) % 2)
            ELSE node[i]
    IN  value

GGMTree(high, key) == Set([i \in Nodes(high) |-> Zero], 0, key)

\* xorLeft for side 0 and xorRight for side 1.
XorSide(node, layer, side) ==
    Total([k \in 1 .. 2^(layer - 1) |-> node[(2^layer - 1) + side + (2 * (k - 1))]])

XorLayer(node, layer) == Total([k \in 1 .. 2^layer |-> node[(2^layer - 2) + k]])

\* leaf(), by its position.
Leaf(high, node) == [j \in Below(2^(high - 1)) |-> node[(2^(high - 1) - 1) + j]]

-----------------------------------------------------------------------------
\* The messages of ggm_send: for every layer the sums of both sides.
Eval(high, node) ==
    [i \in 1 .. high - 1 |-> [side \in {0, 1} |-> XorSide(node, i, side)]]

\* convertChosenbits of ~path_num.
ChosenBitsKept(path, l) == [i \in 1 .. l |-> (path \div 2^(l - i)) % 2]  \* mutant
ChosenBits(path, l) == [i \in 1 .. l |-> 1 - ((path \div 2^(l - i)) % 2)]

\* All steps but the last follow the path, the last one leaves it.
CalculateIndex(bits) ==
    LET Step(index, side) == (2 * index) + 1 + side
    IN  Step(FoldLeft(LAMBDA index, c : Step(index, 1 - c), 0, Front(bits)), Last(bits))

\* The tree the receiver makes of the messages it chose.
Rebuilt(high, received, bits) ==
    FoldLeft(LAMBDA node, i :
                 Set(node, CalculateIndex(SubSeq(bits, 1, i)),
                     Xor(received[i], XorSide(node, i, bits[i]))),
             [i \in Nodes(high) |-> Zero],
             [i \in 1 .. high - 1 |-> i])

\* ggm_recv: the oblivious transfer hands out the chosen side of each layer.
GgmRecv(high, path, messages) ==
    LET bits == ChosenBits(path, high - 1)
    IN  Rebuilt(high, [i \in 1 .. high - 1 |-> messages[i][bits[i]]], bits)
=============================================================================
