-------------------------- MODULE PaillierPsiProofs --------------------------
(***************************************************************************)
(* The words of the Paillier intersection are additive shares, for every   *)
(* word size, Paillier modulus, host table and query.                      *)
(***************************************************************************)
EXTENDS PaillierPsi, EcPlayersProofs

(* A mask and the low word of the label plus the negated mask add up to    *)
(* the label, as the big number below PaillierN has room for the sum of    *)
(* two words.                                                              *)
LEMMA WordsAdd ==
    ASSUME NEW l \in Int, NEW r \in Random
    PROVE  LET w == DecWord(SplitWord(EncWord(l), r, "client"))
           IN  w \in Word /\ (r + w) % Modulus = l % Modulus
<1> DEFINE a == l % Modulus
           b == (-r) % Modulus
           s == a + b
           w == s % Modulus
           q1 == s \div Modulus
           q2 == (-r) \div Modulus
<1>1. /\ Modulus \in Nat \ {0} /\ PaillierN \in Nat \ {0} /\ PaillierN >= 2 * Modulus
      /\ r \in Int /\ -r \in Int
    BY PaillierAssumption DEF Random
<1>2. a \in 0 .. Modulus - 1
    BY <1>1, DivMod
<1>3. /\ -r = Modulus * q2 + b
      /\ b \in 0 .. Modulus - 1
      /\ q2 \in Int
    BY <1>1, DivMod
<1>4. /\ s = Modulus * q1 + w
      /\ w \in 0 .. Modulus - 1
      /\ q1 \in Int
    <2>1. s \in Int
        BY <1>1, <1>2, <1>3
    <2> HIDE DEF s
    <2> QED BY <1>1, <2>1, DivMod
<1>5. s % PaillierN = s
    <2>1. s \in 0 .. PaillierN - 1
        BY <1>1, <1>2, <1>3
    <2> HIDE DEF s
    <2>2. s = PaillierN * 0 + s
        BY <1>1, <2>1
    <2> QED BY <1>1, <2>1, <2>2, ModUnique
<1>6. DecWord(SplitWord(EncWord(l), r, "client")) = w
    BY <1>5 DEF DecWord, SplitWord, EncWord
<1>7. (r + w) % Modulus = a
    <2>1. r + w = Modulus * (-(q1 + q2)) + a
        <3> HIDE DEF a, b, w, q1, q2
        <3> QED BY <1>1, <1>2, <1>3, <1>4 DEF s
    <2> HIDE DEF a, b, w, q1, q2, s
    <2>2. r + w \in Int /\ -(q1 + q2) \in Int
        BY <1>1, <1>3, <1>4
    <2> QED BY <1>1, <1>2, <2>1, <2>2, ModUnique
<1> QED BY <1>4, <1>6, <1>7 DEF Word

Pair == [a : HostRows, b : Word]

\* The k-th entries of two lists belong to one row, and their words are
\* shares of its label.
PairOf(lids, ans, k) ==
    /\ lids[k] \in Rows(n)
    /\ (b0s[lids[k]] + ans[k].b) % Modulus = labels[index[lids[k]]] % Modulus
    /\ ShortOf[ids[index[lids[k]]]] = ShortOf[HostIds[ans[k].a]]

Paired(lids, ans) ==
    /\ lids \in Seq(Nat)
    /\ ans \in Seq(Pair)
    /\ Len(ans) = Len(lids)
    /\ \A k \in 1 .. Len(lids) : PairOf(lids, ans, k)

(* The inductive invariant.  The query and the response are those of the   *)
(* client's columns and of the host's shuffle and masks, and the lists are *)
(* paired throughout the matching loop.                                    *)
PInv ==
    /\ n \in Nat
    /\ ids \in [Rows(n) -> Ids]
    /\ labels \in [Rows(n) -> Int]
    /\ cpc \in {"query", "response", "match", "answer", "done"}
    /\ hpc \in {"keys", "query", "lastids", "done"}
    /\ matchRow \in Nat
    /\ query = IF cpc = "query" THEN << >> ELSE Query(ids, labels, n)
    /\ hpc # "keys" => zeros = "client"
    /\ hpc \in {"keys", "query"} => response = << >>
    /\ hpc \in {"lastids", "done"} =>
          /\ index \in Shuffles(n)
          /\ b0s \in [Rows(n) -> Random]
          /\ query = Query(ids, labels, n)
          /\ response = HostResponse(query, index, b0s)
    /\ cpc \in {"query", "response"} => newIdAndB1s = << >>
    /\ cpc \in {"match", "answer", "done"} =>
          hpc \in {"lastids", "done"} /\ Paired(lastids, newIdAndB1s)

(* Appending a pair to paired lists keeps them paired.                     *)
LEMMA PairedAppend ==
    ASSUME NEW lids, NEW ans, Paired(lids, ans), NEW r \in Rows(n), NEW e \in Pair,
           n \in Nat,
           (b0s[r] + e.b) % Modulus = labels[index[r]] % Modulus,
           ShortOf[ids[index[r]]] = ShortOf[HostIds[e.a]]
    PROVE  Paired(Append(lids, r), Append(ans, e))
<1> DEFINE L == Len(lids)
           lids2 == Append(lids, r)
           ans2 == Append(ans, e)
<1>1. /\ lids \in Seq(Nat) /\ ans \in Seq(Pair) /\ L \in Nat /\ Len(ans) = L
      /\ r \in Nat
    BY DEF Paired, Rows
<1>2. /\ lids2 \in Seq(Nat) /\ ans2 \in Seq(Pair)
      /\ Len(lids2) = L + 1 /\ Len(ans2) = L + 1
      /\ lids2[L + 1] = r /\ ans2[L + 1] = e
      /\ \A k \in 1 .. L : lids2[k] = lids[k] /\ ans2[k] = ans[k]
    BY <1>1
<1> HIDE DEF lids2, ans2
<1>3. ASSUME NEW k \in 1 .. L + 1
      PROVE  PairOf(lids2, ans2, k)
    <2>1. CASE k = L + 1
        BY <1>2, <2>1 DEF PairOf
    <2>2. CASE k \in 1 .. L
        BY <1>2, <2>2 DEF PairOf, Paired
    <2> QED BY <1>1, <2>1, <2>2
<1>4. Paired(lids2, ans2)
    BY <1>1, <1>2, <1>3 DEF Paired
<1> QED BY <1>4 DEF lids2, ans2

(* The columns and the host's answer are the same in two states that agree *)
(* on the variables they are built from.                                   *)
LEMMA SameMessages ==
    ASSUME UNCHANGED settled
    PROVE  /\ Query(ids, labels, n)' = Query(ids, labels, n)
           /\ UNCHANGED <<zeros, query, index, b0s>> =>
                 HostResponse(query, index, b0s)' = HostResponse(query, index, b0s)
           /\ Rows(n)' = Rows(n)
           /\ Shuffles(n)' = Shuffles(n)
<1>1. ids' = ids /\ labels' = labels /\ n' = n
    BY DEF settled
<1>2. Query(ids, labels, n)' = Query(ids, labels, n)
    BY <1>1 DEF Query
<1>3. Rows(n)' = Rows(n) /\ Shuffles(n)' = Shuffles(n)
    BY <1>1 DEF Rows, Shuffles
<1>4. ASSUME UNCHANGED <<zeros, query, index, b0s>>
      PROVE  HostResponse(query, index, b0s)' = HostResponse(query, index, b0s)
    BY <1>4 DEF HostResponse
<1> QED BY <1>2, <1>3, <1>4

(* So is the pairing of the two lists.                                     *)
LEMMA SamePairs ==
    ASSUME UNCHANGED <<settled, b0s, index, lastids, newIdAndB1s>>
    PROVE  Paired(lastids, newIdAndB1s)' = Paired(lastids, newIdAndB1s)
BY DEF settled, Paired, PairOf, Rows

(* Every action keeps the invariant.                                       *)
LEMMA PInvStep == PInv /\ [Next]_vars => PInv'
<1> SUFFICES ASSUME PInv, [Next]_vars PROVE PInv'
    OBVIOUS
<1>1. CASE HostLoadKeys
    <2>1. /\ UNCHANGED <<settled, cpc, query, matchRow, response, b0s, index, lastids, newIdAndB1s>>
          /\ hpc = "keys" /\ hpc' = "query" /\ zeros' = "client"
        BY <1>1 DEF HostLoadKeys, SetPublicKey
    <2> QED BY <2>1, SameMessages, SamePairs DEF PInv, settled
<1>2. CASE ClientSendQuery
    <2>1. /\ UNCHANGED <<settled, hpc, zeros, matchRow, response, b0s, index, lastids, newIdAndB1s>>
          /\ cpc = "query" /\ cpc' = "response" /\ query' = Query(ids, labels, n)
        BY <1>2 DEF ClientSendQuery, ecVars
    <2>2. hpc \in {"lastids", "done"} => query' = query
        BY <2>1 DEF PInv
    <2> QED BY <2>1, <2>2, SameMessages DEF PInv, settled
<1>3. ASSUME NEW ix \in Shuffles(n), NEW masks \in [Rows(n) -> Random], HostRespond(ix, masks)
      PROVE  PInv'
    <2>1. /\ UNCHANGED <<settled, cpc, query, zeros, matchRow, lastids, newIdAndB1s>>
          /\ hpc = "query" /\ hpc' = "lastids" /\ query # << >>
          /\ index' = ix /\ b0s' = masks /\ response' = HostResponse(query, ix, masks)
        BY <1>3 DEF HostRespond, GenerateResponse0
    <2>2. cpc \in {"response"} /\ query = Query(ids, labels, n)
        BY <2>1 DEF PInv
    <2>3. response' = HostResponse(query, index, b0s)'
        BY <2>1 DEF HostResponse
    <2> QED BY <2>1, <2>2, <2>3, SameMessages DEF PInv, settled
<1>4. CASE ClientBegin
    <2>1. /\ UNCHANGED <<settled, hpc, query, zeros, response, b0s, index, newIdAndB1s>>
          /\ cpc = "response" /\ cpc' = "match" /\ response # << >>
          /\ matchRow' = 0 /\ lastids' = << >>
        BY <1>4 DEF ClientBegin, BeginMatch
    <2>2. hpc \in {"lastids", "done"} /\ newIdAndB1s' = << >>
        BY <2>1 DEF PInv
    <2>3. Paired(lastids, newIdAndB1s)'
        BY <2>1, <2>2 DEF Paired
    <2> QED BY <2>1, <2>2, <2>3, SameMessages DEF PInv, settled
<1>5. CASE ClientMatch
    <2> DEFINE c == index[matchRow]
               found == {h \in HostRows : ShortOf[ids[c]] = ShortOf[HostIds[h]]}
               e == [a |-> LastRow(found), b |-> DecWord(response.Elabels[matchRow])]
    <2>1. /\ hpc \in {"lastids", "done"}
          /\ zeros = "client"
          /\ index \in Shuffles(n) /\ b0s \in [Rows(n) -> Random]
          /\ response = HostResponse(Query(ids, labels, n), index, b0s)
          /\ Paired(lastids, newIdAndB1s)
          /\ n \in Nat /\ matchRow \in Nat
        BY <1>5 DEF ClientMatch, PInv
    <2>2. matchRow \in Rows(n)
        BY <1>5, <2>1 DEF ClientMatch, HostResponse, Query, Rows
    <2>3. c \in Rows(n) /\ ids[c] \in Ids /\ labels[c] \in Int /\ b0s[matchRow] \in Random
        BY <2>1, <2>2 DEF Shuffles, PInv
    <2>4. /\ response.EEIDs[matchRow] = Encrypt("s0", Encrypt("s1", HashToPoint(ids[c])))
          /\ response.Elabels[matchRow] = SplitWord(EncWord(labels[c]), b0s[matchRow], "client")
        BY <2>1, <2>2, <2>3 DEF HostResponse, Query
    <2>5. MatchingRows(Decrypt("s1", response.EEIDs[matchRow])) = found
        BY <2>3, <2>4, BlindingCancels
    <2>6. /\ lastids' = IF found = {} THEN lastids ELSE Append(lastids, matchRow)
          /\ newIdAndB1s' = IF found = {} THEN newIdAndB1s ELSE Append(newIdAndB1s, e)
        BY <1>5, <2>5 DEF ClientMatch
    <2>7. Paired(lastids', newIdAndB1s')
        <3>1. CASE found = {}
            BY <2>1, <2>6, <3>1
        <3>2. CASE found # {}
            <4>1. LastRow(found) \in found
                BY <3>2, LastRowMatches
            <4>2. e.b \in Word /\ (b0s[matchRow] + e.b) % Modulus = labels[c] % Modulus
                BY <2>3, <2>4, WordsAdd
            <4>3. e \in Pair /\ ShortOf[ids[c]] = ShortOf[HostIds[e.a]]
                BY <4>1, <4>2 DEF Pair
            <4> HIDE DEF found, e
            <4> QED BY <2>1, <2>2, <2>6, <3>2, <4>2, <4>3, PairedAppend
        <3> QED BY <3>1, <3>2
    <2>8. /\ UNCHANGED <<settled, cpc, hpc, query, zeros, response, b0s, index>>
          /\ cpc = "match" /\ matchRow' \in Nat
        BY <1>5, <2>1 DEF ClientMatch
    <2>9. Paired(lastids, newIdAndB1s)'
        <3> HIDE DEF found, e
        <3> QED BY <2>7, <2>8 DEF settled, Paired, PairOf, Rows
    <2> HIDE DEF found, e
    <2> QED BY <2>1, <2>8, <2>9, SameMessages DEF PInv, settled
<1>6. CASE ClientSendLastids
    <2>1. /\ UNCHANGED <<settled, hpc, query, zeros, matchRow, response, b0s, index, lastids, newIdAndB1s>>
          /\ cpc = "match" /\ cpc' = "answer"
        BY <1>6 DEF ClientSendLastids, ecVars
    <2> QED BY <2>1, SameMessages, SamePairs DEF PInv, settled
<1>7. CASE HostAnswer
    <2>1. /\ UNCHANGED <<settled, cpc, query, zeros, matchRow, response, b0s, index, lastids, newIdAndB1s>>
          /\ hpc = "lastids" /\ hpc' = "done"
        BY <1>7 DEF HostAnswer, ecVars
    <2> QED BY <2>1, SameMessages, SamePairs DEF PInv, settled
<1>8. CASE ClientAnswer
    <2>1. /\ UNCHANGED <<settled, hpc, query, zeros, matchRow, response, b0s, index, lastids, newIdAndB1s>>
          /\ cpc = "answer" /\ cpc' = "done"
        BY <1>8 DEF ClientAnswer, ecVars
    <2> QED BY <2>1, SameMessages, SamePairs DEF PInv, settled
<1>9. CASE UNCHANGED vars
    <2>1. UNCHANGED <<settled, cpc, hpc, query, zeros, matchRow, response, b0s, index, lastids, newIdAndB1s>>
        BY <1>9 DEF vars, ecVars
    <2> QED BY <2>1, SameMessages, SamePairs DEF PInv, settled
<1> QED BY <1>1, <1>2, <1>3, <1>4, <1>5, <1>6, <1>7, <1>8, <1>9 DEF Next, Finished

(* Every reachable state satisfies the invariant.                          *)
LEMMA PInvariance == Spec => []PInv
<1>1. Init => PInv
    <2> SUFFICES ASSUME Init PROVE PInv
        OBVIOUS
    <2>1. /\ n \in Nat
          /\ ids \in [Rows(n) -> Ids]
          /\ labels \in [Rows(n) -> Labels]
        BY PaillierAssumption DEF Init
    <2>2. Labels \subseteq Int
        BY PaillierAssumption
    <2>3. labels \in [Rows(n) -> Int]
        BY <2>1, <2>2
    <2> QED BY <2>1, <2>3 DEF Init, EcInit, PInv
<1> QED BY <1>1, PInvStep, PTL DEF Spec

(* When the client has matched, its words and the host's are additive      *)
(* shares of the matched rows' labels, row by row.                         *)
THEOREM WordsAreShares == Spec => []WordsAlign
<1>1. PInv => WordsAlign
    <2> SUFFICES ASSUME PInv, cpc \in {"answer", "done"} PROVE
            /\ Len(newIdAndB1s) = Len(lastids)
            /\ \A k \in DOMAIN lastids :
                 /\ (b0s[lastids[k]] + newIdAndB1s[k].b) % Modulus = labels[ClientRow(k)] % Modulus
                 /\ ShortOf[ids[ClientRow(k)]] = ShortOf[HostIds[newIdAndB1s[k].a]]
        BY DEF WordsAlign
    <2>1. Paired(lastids, newIdAndB1s)
        BY DEF PInv
    <2>2. DOMAIN lastids = 1 .. Len(lastids)
        BY <2>1 DEF Paired
    <2> QED BY <2>1, <2>2 DEF Paired, PairOf, ClientRow
<1> QED BY <1>1, PInvariance, PTL
(* Shares of a label that is a multiple of the word size are zero together. *)
LEMMA ZeroTogether ==
    ASSUME NEW r \in Random, NEW w \in Word, (r + w) % Modulus = 0
    PROVE  r = 0 <=> w = 0
<1>1. /\ Modulus \in Nat \ {0}
      /\ r \in 0 .. Modulus - 1 /\ w \in 0 .. Modulus - 1
    <2>1. Modulus \in Nat \ {0}
        BY PaillierAssumption
    <2>2. Modulus \div 2 <= Modulus
        BY <2>1
    <2> QED BY <2>1, <2>2 DEF Random, Word
<1>2. r % Modulus = r /\ w % Modulus = w
    BY <1>1, ModOfSmall
<1>3. CASE r = 0
    BY <1>1, <1>2, <1>3
<1>4. CASE w = 0
    BY <1>1, <1>2, <1>4
<1> QED BY <1>3, <1>4

(* What the vectors of bits are built from: the host's from the masks of   *)
(* the rows the client asked for, the client's from its list of pairs.     *)
BitsOf0 == [k \in DOMAIN lastids |-> ToBool(b0s[lastids[k]])]
BitsOf1 == [k \in DOMAIN newIdAndB1s |-> ToBool(newIdAndB1s[k].b)]
BitsInv ==
    /\ hpc = "done" =>
          /\ cpc \in {"answer", "done"}
          /\ labelShares0 = BitsOf0
    /\ cpc = "done" =>
          /\ newIds = [k \in DOMAIN newIdAndB1s |-> newIdAndB1s[k].a]
          /\ labelShares1 = BitsOf1

(* Once a list of bits is made, the lists it was made from do not change.  *)
LEMMA BitsInvStep == BitsInv /\ PInv /\ [Next]_vars => BitsInv'
<1> SUFFICES ASSUME BitsInv, PInv, [Next]_vars PROVE BitsInv'
    OBVIOUS
<1>1. ASSUME UNCHANGED <<cpc, hpc, b0s, lastids, newIdAndB1s, newIds, labelShares0, labelShares1>>
      PROVE  BitsInv'
    BY <1>1 DEF BitsInv, BitsOf0, BitsOf1
<1>2. CASE HostLoadKeys
    <2>1. hpc' # "done" /\ cpc' = cpc /\ cpc # "done"
        BY <1>2 DEF HostLoadKeys, PInv
    <2> QED BY <2>1 DEF BitsInv
<1>3. CASE ClientSendQuery
    <2>1. /\ cpc = "query" /\ cpc' = "response" /\ hpc' = hpc
        BY <1>3 DEF ClientSendQuery
    <2> QED BY <2>1 DEF BitsInv
<1>4. CASE \E ix \in Shuffles(n), masks \in [Rows(n) -> Random] : HostRespond(ix, masks)
    <2>1. hpc = "query" /\ hpc' = "lastids" /\ cpc' = cpc
        BY <1>4 DEF HostRespond
    <2>2. cpc # "done"
        BY <2>1 DEF PInv
    <2> QED BY <2>1, <2>2 DEF BitsInv
<1>5. CASE ClientBegin
    <2>1. cpc = "response" /\ cpc' = "match" /\ hpc' = hpc
        BY <1>5 DEF ClientBegin
    <2> QED BY <2>1 DEF BitsInv
<1>6. CASE ClientMatch
    <2>1. cpc = "match" /\ cpc' = "match" /\ hpc' = hpc
        BY <1>6 DEF ClientMatch
    <2> QED BY <2>1 DEF BitsInv
<1>7. CASE ClientSendLastids
    <2>1. cpc = "match" /\ cpc' = "answer" /\ hpc' = hpc
        BY <1>7 DEF ClientSendLastids
    <2> QED BY <2>1 DEF BitsInv
<1>8. CASE HostAnswer
    <2>1. /\ UNCHANGED <<cpc, b0s, lastids, newIdAndB1s, newIds, labelShares1>>
          /\ cpc \in {"answer", "done"}
          /\ labelShares0' = BitsOf0
        BY <1>8 DEF HostAnswer, ecVars, ReturnAnswer0, BitsOf0
    <2> QED BY <2>1 DEF BitsInv, BitsOf0, BitsOf1
<1>9. CASE ClientAnswer
    <2>1. /\ UNCHANGED <<hpc, b0s, lastids, newIdAndB1s, labelShares0>>
          /\ cpc' = "done"
          /\ newIds' = [k \in DOMAIN newIdAndB1s |-> newIdAndB1s[k].a]
          /\ labelShares1' = BitsOf1
        BY <1>9 DEF ClientAnswer, ecVars, BitsOf1
    <2> QED BY <2>1 DEF BitsInv, BitsOf0, BitsOf1
<1>10. CASE UNCHANGED vars
    <2>1. UNCHANGED <<cpc, hpc, b0s, lastids, newIdAndB1s, newIds, labelShares0, labelShares1>>
        BY <1>10 DEF vars, ecVars
    <2> QED BY <1>1, <2>1
<1> QED BY <1>2, <1>3, <1>4, <1>5, <1>6, <1>7, <1>8, <1>9, <1>10 DEF Next, Finished

(* When both players end, their bit vectors are as long as the list of     *)
(* rows, and bits that differ mean a label that is not zero.               *)
THEOREM BitsTell == Spec => []DifferingBitsTell
<1>1. Init => BitsInv
    BY DEF Init, BitsInv
<1>2. PInv /\ BitsInv => DifferingBitsTell
    <2> SUFFICES ASSUME PInv, BitsInv, Ended PROVE DifferingBitsTell
        BY DEF DifferingBitsTell
    <2> DEFINE L == Len(lastids)
    <2>1. /\ Paired(lastids, newIdAndB1s)
          /\ b0s \in [Rows(n) -> Random]
          /\ labelShares0 = BitsOf0 /\ labelShares1 = BitsOf1
          /\ newIds = [k \in DOMAIN newIdAndB1s |-> newIdAndB1s[k].a]
        BY DEF PInv, BitsInv, Ended
    <2>2. L \in Nat /\ DOMAIN lastids = 1 .. L /\ DOMAIN newIdAndB1s = 1 .. L
        BY <2>1 DEF Paired
    <2> HIDE DEF L
    <2>3. /\ labelShares0 = [k \in 1 .. L |-> ToBool(b0s[lastids[k]])]
          /\ labelShares1 = [k \in 1 .. L |-> ToBool(newIdAndB1s[k].b)]
          /\ newIds = [k \in 1 .. L |-> newIdAndB1s[k].a]
        BY <2>1, <2>2 DEF BitsOf0, BitsOf1
    <2>4. Len(labelShares0) = L /\ Len(labelShares1) = L /\ Len(newIds) = L
        BY <2>2, <2>3
    <2>5. ASSUME NEW k \in DOMAIN newIds, labelShares0[k] # labelShares1[k]
          PROVE  labels[ClientRow(k)] % Modulus # 0
        <3> DEFINE r == b0s[lastids[k]]
                   w == newIdAndB1s[k].b
        <3>1. k \in 1 .. L
            BY <2>3, <2>5
        <3>2. PairOf(lastids, newIdAndB1s, k) /\ newIdAndB1s[k] \in Pair
            BY <2>1, <2>2, <3>1 DEF Paired, L
        <3>3. r \in Random /\ w \in Word /\ (r + w) % Modulus = labels[ClientRow(k)] % Modulus
            BY <2>1, <3>2 DEF PairOf, Pair, ClientRow
        <3>4. ~ (r = 0 <=> w = 0)
            BY <2>3, <2>5, <3>1 DEF ToBool
        <3> HIDE DEF r, w
        <3> QED BY <3>3, <3>4, ZeroTogether
    <2> QED BY <2>4, <2>5 DEF DifferingBitsTell
<1> QED BY <1>1, <1>2, BitsInvStep, PInvariance, PTL DEF Spec
=============================================================================
