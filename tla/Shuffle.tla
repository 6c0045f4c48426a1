------------------------------ MODULE Shuffle ------------------------------
(***************************************************************************)
(* The oblivious shuffle of the iPrivJoin baseline (shuffle.cpp), both     *)
(* processes: oShuffleSender and oShuffleReceiver with the mShuffle calls  *)
(* they make, or one direct call of mShuffleSender and mShuffleReceiver    *)
(* with a larger tree.                                                     *)
(*                                                                         *)
(* A call of mShuffle makes one GGM tree per row: each process gives one   *)
(* task per tree to its own thread pool (TaskPool), the tasks of the two   *)
(* processes meet on the port of their number, and when all results are in *)
(* the two processes meet once more, on the port of the first task.        *)
(***************************************************************************)
EXTENDS Ggm

CONSTANTS
    Shapes,     \* [height, nums, layers, direct]: the calls to model
    PoolSizes,  \* hardware_concurrency() / 2 of either machine
    Swaps,      \* sbox: the permutation of every mShuffle call
    Boxes       \* pbox: the permutation of every odd layer

ASSUME ShuffleAssumption ==
    /\ PoolSizes \subseteq Nat \ {0}
    /\ \A s \in Shapes : /\ s.height \in Nat \ {0} /\ s.nums \in Nat \ {0} /\ s.layers \in Nat
                         /\ s.nums % 2^(s.height - 1) = 0
                         /\ s.direct => s.layers = 1 /\ s.nums = 2^(s.height - 1)
    /\ \A s \in Swaps \cup Boxes : \A x, y \in DOMAIN s :
          s[x] \in DOMAIN s /\ (s[x] = s[y] => x = y)

VARIABLES
    shape, sbox, pbox,                  \* arguments and random choices
    sSize, sTaken, sStarted, sEnded, sPhase,  \* the sender's pool
    rSize, rTaken, rStarted, rEnded, rPhase,  \* the receiver's pool
    sPc, sLayer, sPair,    \* the sender's next step, and i and j of its loops
    inputs,                \* its vector
    sMet,                  \* its tasks whose connection was accepted
    b, a,                  \* b, and a as it is sent
    rPc, rLayer, rPair,
    temp,                  \* the receiver's vector
    trees,                 \* its tasks' trees
    apb,                   \* a_pi xor b
    chl,                   \* pbox messages in flight
    wire                   \* the message of the current call

arguments == <<shape, sbox, pbox>>
sPool == <<sSize, sTaken, sStarted, sEnded, sPhase>>
rPool == <<rSize, rTaken, rStarted, rEnded, rPhase>>
sender == <<sPc, sLayer, sPair, inputs, sMet, b, a>>
receiver == <<rPc, rLayer, rPair, temp, trees, apb>>
vars == <<arguments, sPool, rPool, sender, receiver, chl, wire>>

SPool == INSTANCE TaskPool WITH size <- sSize, taken <- sTaken, started <- sStarted,
                                ended <- sEnded, phase <- sPhase
RPool == INSTANCE TaskPool WITH size <- rSize, taken <- rTaken, started <- rStarted,
                                ended <- rEnded, phase <- rPhase

h == shape.height
t == 2^(h - 1)
Rows == 0 .. shape.nums - 1
Pairs == shape.nums \div t

\* The number of the mShuffle call of a pair in a layer.
CallOf(layer, pair) == ((layer \div 2) * Pairs) + pair + 1
sCall == CallOf(sLayer, sPair)
rCall == CallOf(rLayer, rPair)

Input(r) == {<<Zero, - (r + 1)>>}
XorVectors(v, w) == [r \in DOMAIN v |-> Xor(v[r], w[r])]

\* The trees of a call, one in the first loop and one of the i-th task.  The
\* generator of mShuffleSender has the same seed in every call.
LocalTree(i) == GGMTree(h, Key(2 * i))
TaskTree(i) == GGMTree(h, Key((2 * i) + 1))

\* sboxPermutation and permuteVector.
Swapped(v, layer) ==
    [r \in Rows |-> v[(t * (r \div t)) + sbox[CallOf(layer, r \div t)][r % t]]]
Permuted(v, layer) == [r \in Rows |-> v[pbox[layer \div 2][r]]]

\* OShullfe::permutation.
Permutation ==
    LET after[i \in 0 .. shape.layers] ==
            IF i = 0 THEN [r \in Rows |-> r]
            ELSE IF (i - 1) % 2 = 0 THEN Swapped(after[i - 1], i - 1)
            ELSE Permuted(after[i - 1], i - 1)
    IN  after[shape.layers]

\* incrementPort from the port of mShuffle; chl is on the one before it.
PortOfCall(i) == 1  \* mutant
Port(i) == 1 + ((i - 1) % 256)

-----------------------------------------------------------------------------
Init ==
    /\ shape \in Shapes
    /\ sbox \in [1 .. ((shape.layers + 1) \div 2) * Pairs -> {s \in Swaps : DOMAIN s = 0 .. t - 1}]
    /\ pbox \in [0 .. (shape.layers \div 2) - 1 -> {s \in Boxes : DOMAIN s = Rows}]
    /\ sSize \in PoolSizes /\ SPool!PoolInit
    /\ rSize \in PoolSizes /\ RPool!PoolInit
    /\ sPc = IF shape.direct THEN "layer" ELSE "connect"
    /\ rPc = IF shape.direct THEN "layer" ELSE "connect"
    /\ sLayer = 0 /\ sPair = 0 /\ rLayer = 0 /\ rPair = 0
    /\ inputs = [r \in Rows |-> Input(r)]
    /\ temp = [r \in Rows |-> Zero]
    /\ sMet = {} /\ trees = << >>
    /\ b = << >> /\ a = << >> /\ apb = << >>
    /\ chl = << >> /\ wire = << >>

\* asioConnect on context.address.
Connect ==
    /\ sPc = "connect" /\ rPc = "connect"
    /\ sPc' = "layer" /\ rPc' = "layer"
    /\ UNCHANGED <<arguments, sPool, rPool, sLayer, sPair, inputs, sMet, b, a,
                   rLayer, rPair, temp, trees, apb, chl, wire>>

SwapLayer(layer) == layer < shape.layers /\ layer % 2 = 0
BoxLayer(layer) == layer < shape.layers /\ layer % 2 = 1
NextPairOneMore(pair) == IF pair = Pairs THEN 0 ELSE pair + 1  \* mutant
NextPair(pair) == IF pair + 1 = Pairs THEN 0 ELSE pair + 1
NextLayer(layer, pair) == IF NextPair(pair) = 0 THEN layer + 1 ELSE layer

-----------------------------------------------------------------------------
(* The sender.                                                             *)
SBegin ==
    /\ sPc = "layer"
    /\ SwapLayer(sLayer)
    /\ sPc' = "enqueue"
    /\ sTaken' = 0 /\ sStarted' = 0 /\ sEnded' = {} /\ sPhase' = "open"
    /\ UNCHANGED <<arguments, sSize, rPool, sLayer, sPair, inputs, sMet, b, a, receiver, chl, wire>>

SEnqueue ==
    /\ sPc = "enqueue"
    /\ SPool!Take
    /\ sPc' = IF sTaken' = t THEN "collect" ELSE "enqueue"
    /\ UNCHANGED <<arguments, rPool, sLayer, sPair, inputs, sMet, b, a, receiver, chl, wire>>

SStart == SPool!Start /\ UNCHANGED <<arguments, rPool, sender, receiver, chl, wire>>

\* mShuffleSend has sent its sums.
SEnd(i) ==
    /\ i \in sMet
    /\ SPool!End(i)
    /\ UNCHANGED <<arguments, rPool, sender, receiver, chl, wire>>

\* Both loops add leaves to a; the second one sets b.
Leaves ==
    [j \in 0 .. t - 1 |->
        Total([i \in 1 .. t |-> Xor(Leaf(h, LocalTree(i))[j], Leaf(h, TaskTree(i))[j])])]
LayersLocal ==  \* mutant
    [i \in 0 .. t - 1 |-> XorLayer(LocalTree(i + 1), h - 1)]
Layers == [i \in 0 .. t - 1 |-> XorLayer(TaskTree(i + 1), h - 1)]

SCollect ==
    /\ sPc = "collect"
    /\ sEnded = 1 .. t
    /\ b' = Layers
    /\ a' = XorVectors(Leaves, [j \in 0 .. t - 1 |-> inputs[(t * sPair) + j]])
    /\ sPc' = "main"
    /\ UNCHANGED <<arguments, sPool, rPool, sLayer, sPair, inputs, sMet, receiver, chl, wire>>

\* The message is sent, the pool ends with mShuffleSender.
SReturn ==
    /\ sPc = "send"
    /\ wire' = Append(wire, a)
    /\ SPool!Close
    /\ inputs' = [r \in Rows |-> IF r \div t = sPair THEN b[r % t] ELSE inputs[r]]
    /\ sPair' = NextPair(sPair) /\ sLayer' = NextLayer(sLayer, sPair)
    /\ sPc' = "layer"
    /\ sMet' = {} /\ b' = << >> /\ a' = << >>
    /\ UNCHANGED <<arguments, rPool, receiver, chl>>

SRecvBox ==
    /\ sPc = "layer"
    /\ BoxLayer(sLayer)
    /\ chl # << >>
    /\ inputs' = [r \in Rows |-> inputs[Head(chl)[r]]]
    /\ chl' = Tail(chl)
    /\ sLayer' = sLayer + 1
    /\ UNCHANGED <<arguments, sPool, rPool, sPc, sPair, sMet, b, a, receiver, wire>>

SDone ==
    /\ sPc = "layer"
    /\ sLayer = shape.layers
    /\ sPc' = "done"
    /\ UNCHANGED <<arguments, sPool, rPool, sLayer, sPair, inputs, sMet, b, a, receiver, chl, wire>>

-----------------------------------------------------------------------------
(* The receiver.                                                           *)
RBegin ==
    /\ rPc = "layer"
    /\ SwapLayer(rLayer)
    /\ rPc' = "enqueue"
    /\ rTaken' = 0 /\ rStarted' = 0 /\ rEnded' = {} /\ rPhase' = "open"
    /\ temp' = IF rPair = 0 THEN Swapped(temp, rLayer) ELSE temp
    /\ UNCHANGED <<arguments, sPool, rSize, sender, rLayer, rPair, trees, apb, chl, wire>>

REnqueue ==
    /\ rPc = "enqueue"
    /\ RPool!Take
    /\ rPc' = IF rTaken' = t THEN "collect" ELSE "enqueue"
    /\ UNCHANGED <<arguments, sPool, sender, rLayer, rPair, temp, trees, apb, chl, wire>>

RStart == RPool!Start /\ UNCHANGED <<arguments, sPool, sender, receiver, chl, wire>>

REnd(i) ==
    /\ i \in DOMAIN trees
    /\ RPool!End(i)
    /\ UNCHANGED <<arguments, sPool, sender, receiver, chl, wire>>

pi == sbox[rCall]
LeavesWithPi(tr) ==
    [k \in 0 .. t - 1 |-> Total([i \in 1 .. t |-> Leaf(h, tr[i])[pi[k]]])]

RCollect ==
    /\ rPc = "collect"
    /\ rEnded = 1 .. t
    /\ apb' = XorVectors(LeavesWithPi(trees), [i \in 0 .. t - 1 |-> XorLayer(trees[i + 1], h - 1)])
    /\ rPc' = "main"
    /\ UNCHANGED <<arguments, sPool, rPool, sender, rLayer, rPair, temp, trees, chl, wire>>

RReturn ==
    /\ rPc = "recv"
    /\ wire # << >>
    /\ wire' = Tail(wire)
    /\ RPool!Close
    /\ LET tempT == XorVectors(apb, [k \in 0 .. t - 1 |-> Head(wire)[pi[k]]])
       IN  temp' = [r \in Rows |-> IF r \div t = rPair THEN Xor(temp[r], tempT[r % t]) ELSE temp[r]]
    /\ rPair' = NextPair(rPair) /\ rLayer' = NextLayer(rLayer, rPair)
    /\ rPc' = "layer"
    /\ trees' = << >> /\ apb' = << >>
    /\ UNCHANGED <<arguments, sPool, sender, chl>>

WithBoxChanged ==  \* mutant
    IF Permuted(temp, rLayer) = temp THEN chl ELSE Append(chl, pbox[rLayer \div 2])
WithBox == Append(chl, pbox[rLayer \div 2])

RSendBox ==
    /\ rPc = "layer"
    /\ BoxLayer(rLayer)
    /\ chl' = WithBox
    /\ temp' = Permuted(temp, rLayer)
    /\ rLayer' = rLayer + 1
    /\ UNCHANGED <<arguments, sPool, rPool, sender, rPc, rPair, trees, apb, wire>>

RDone ==
    /\ rPc = "layer"
    /\ rLayer = shape.layers
    /\ rPc' = "done"
    /\ UNCHANGED <<arguments, sPool, rPool, sender, rLayer, rPair, temp, trees, apb, chl, wire>>

-----------------------------------------------------------------------------
(* Connections.  An acceptor takes one connection; who connects waits for  *)
(* an acceptor on the port.  What 0 is the connection of mShuffle itself.  *)
Listening ==
    {[port |-> Port(i), call |-> sCall, what |-> i] : i \in SPool!Running \ sMet}
    \cup (IF sPc = "main" THEN {[port |-> 1, call |-> sCall, what |-> 0]} ELSE {})
Connecting ==
    {[port |-> Port(i), call |-> rCall, what |-> i] : i \in RPool!Running \ DOMAIN trees}
    \cup (IF rPc = "main" THEN {[port |-> 1, call |-> rCall, what |-> 0]} ELSE {})

\* Tasks i and k meet: asioConnect in ggm_send and ggm_recv and the transfer.
MeetTasks(i, k) ==
    /\ i \in SPool!Running \ sMet /\ k \in RPool!Running \ DOMAIN trees
    /\ Port(i) = Port(k)
    /\ sMet' = sMet \cup {i}
    /\ trees' = [l \in DOMAIN trees \cup {k} |->
                   IF l = k THEN GgmRecv(h, pi[k - 1], Eval(h, TaskTree(i))) ELSE trees[l]]
    /\ UNCHANGED <<arguments, sPool, rPool, sPc, sLayer, sPair, inputs, b, a,
                   rPc, rLayer, rPair, temp, apb, chl, wire>>

MeetMain ==
    /\ sPc = "main" /\ rPc = "main"
    /\ sPc' = "send" /\ rPc' = "recv"
    /\ UNCHANGED <<arguments, sPool, rPool, sLayer, sPair, inputs, sMet, b, a,
                   rLayer, rPair, temp, trees, apb, chl, wire>>

Next ==
    \/ Connect
    \/ SBegin \/ SEnqueue \/ SStart \/ SCollect \/ SReturn \/ SRecvBox \/ SDone
    \/ \E i \in SPool!Running : SEnd(i)
    \/ RBegin \/ REnqueue \/ RStart \/ RCollect \/ RReturn \/ RSendBox \/ RDone
    \/ \E i \in RPool!Running : REnd(i)
    \/ \E i \in SPool!Running, k \in RPool!Running : MeetTasks(i, k)
    \/ MeetMain

\* As long as some thread of the two processes can take a step one of them does.
Spec == Init /\ [][Next]_vars /\ WF_vars(Next)

-----------------------------------------------------------------------------
(* Properties.                                                             *)
Block(v) == v # Zero /\ \A x \in v : x[2] \in Int

\* The steps of both processes, the pairs their loops are at and the vectors
\* (oShuffleSender, oShuffleReceiver, mShuffleSender, mShuffleReceiver).
TypeOK ==
    /\ sPc \in {"connect", "layer", "enqueue", "collect", "main", "send", "done"}
    /\ rPc \in {"connect", "layer", "enqueue", "collect", "main", "recv", "done"}
    /\ sLayer \in 0 .. shape.layers /\ sPair \in 0 .. Pairs - 1
    /\ rLayer \in 0 .. shape.layers /\ rPair \in 0 .. Pairs - 1
    /\ DOMAIN inputs = Rows /\ \A r \in Rows : Block(inputs[r])
    /\ DOMAIN temp = Rows
    /\ sMet \subseteq 1 .. t /\ DOMAIN trees \subseteq 1 .. t
    /\ Len(chl) <= (shape.layers + 1) \div 2 /\ Len(wire) <= 1
    /\ sPhase \in {"open", "closed"} /\ rPhase \in {"open", "closed"}

\* mShuffle and its tasks share ports (incrementPort starts at the port of
\* mShuffle, and every call uses them again): two acceptors never share a port,
\* and who connects meets the same task of the same call.
MeetRight ==
    /\ \A e, f \in Listening : e.port = f.port => e = f
    /\ \A e \in Listening, f \in Connecting : e.port = f.port => e = f

OnPath(i, leaf) == Under(i, (t - 1) + leaf)

\* A tree that a task of mShuffleReceiver rebuilds from the chosen messages is
\* the sender's but for the path to the leaf of its row, which stays zero.
Punctured ==
    \A l \in DOMAIN trees :
        trees[l] = [i \in Nodes(h) |-> IF OnPath(i, pi[l - 1]) THEN Zero ELSE TaskTree(l)[i]]

LocalLeaves == UNION {Range(Leaf(h, LocalTree(i))) : i \in 1 .. t}

\* Both vectors together are the permuted input, but for leaves of the trees
\* mShuffleSender makes in its first loop: it adds them to a and the receiver
\* has nothing to take them off.
SharesUpToLocal ==
    (sPc = "done" /\ rPc = "done") =>
        \A r \in Rows :
            Xor(Xor(temp[r], inputs[r]), Input(Permutation[r])) \subseteq UNION LocalLeaves

\* Neither process waits for ever, however many threads either pool has.
BothReturn == <>(sPc = "done" /\ rPc = "done")
=============================================================================
