--------------------------- MODULE EcPlayersProofs ---------------------------
(***************************************************************************)
(* Facts about the operations of the two PSI players, for every host       *)
(* table, every prefix function and every shuffle.                         *)
(***************************************************************************)
EXTENDS EcPlayers, SumsAndRemainders, SequenceTheorems

(* The two encryptions commute with the client's decryption: after the     *)
(* exchange a client row matches exactly the host rows whose identifiers   *)
(* have the prefix of its own.                                             *)
LEMMA BlindingCancels ==
    ASSUME NEW id \in Ids
    PROVE  MatchingRows(Decrypt("s1", Encrypt("s0", Encrypt("s1", HashToPoint(id)))))
             = {h \in HostRows : ShortOf[id] = ShortOf[HostIds[h]]}
<1> DEFINE p == Decrypt("s1", Encrypt("s0", Encrypt("s1", HashToPoint(id))))
<1>1. p = [id |-> id, under |-> {"s0"}]
    <2>1. (({} \cup {"s1"}) \cup {"s0"}) \ {"s1"} = {"s0"}
        OBVIOUS
    <2> QED BY <2>1 DEF Decrypt, Encrypt, HashToPoint
<1>2. Cut(p) = <<ShortOf[id], {"s0"}>>
    BY <1>1 DEF Cut
<1>3. ASSUME NEW h \in HostRows
      PROVE  ShortEIDs[h] = <<ShortOf[HostIds[h]], {"s0"}>>
    BY DEF ShortEIDs, Cut, Encrypt, HashToPoint
<1>4. \A h \in HostRows : (ShortEIDs[h] = Cut(p)) <=> (ShortOf[id] = ShortOf[HostIds[h]])
    BY <1>2, <1>3
<1> QED BY <1>4 DEF MatchingRows

(* The row the map keeps is one of the matching rows.                      *)
LEMMA LastRowMatches ==
    ASSUME NEW S \in SUBSET HostRows, S # {}
    PROVE  LastRow(S) \in S /\ \A g \in S : g <= LastRow(S)
<1>1. S \in SUBSET Nat /\ IsFiniteSet(S)
    BY EcAssumption, FS_Subset
<1> QED BY <1>1, LargestElement DEF LastRow

(* Splitting a label and decrypting the client's part gives two bits that  *)
(* xor to the label, when the host holds this client's key.                *)
LEMMA SplitShareXor ==
    ASSUME NEW label \in Bit, NEW b0 \in Bit, NEW z
    PROVE  LET b1 == DecryptLabel(SplitShare(EncryptLabel(label), b0, z))
           IN  b1 \in Bit /\ (z = "client" => Xor(b0, b1) = label)
BY DEF Bit, DecryptLabel, SplitShare, EncryptLabel, Xor

Answer == [a : HostRows, b : Bit]

(* One iteration of the matching loop keeps the two lists aligned.         *)
LEMMA MatchRowAligned ==
    ASSUME NEW m \in Nat, NEW ii \in [Rows(m) -> Ids], NEW ll \in [Rows(m) -> Bit],
           NEW ix \in Shuffles(m), NEW bs \in [Rows(m) -> Bit],
           newIdAndB1s \in Seq(Answer), lastids \in Seq(Nat),
           Aligned(ii, ll, m, ix, bs, matchRow, lastids, newIdAndB1s),
           MatchRow(Response(GenerateQuery(ii, ll, m), ix, bs))
    PROVE  /\ Aligned(ii, ll, m, ix, bs, matchRow', lastids', newIdAndB1s')
           /\ newIdAndB1s' \in Seq(Answer)
           /\ lastids' \in Seq(Nat)
           /\ matchRow' = matchRow + 1
<1> DEFINE q == GenerateQuery(ii, ll, m)
           resp == Response(q, ix, bs)
           c == ix[matchRow]
           found == {h \in HostRows : ShortOf[ii[c]] = ShortOf[HostIds[h]]}
           b1 == DecryptLabel(SplitShare(EncryptLabel(ll[c]), bs[matchRow], zeros))
<1>1. /\ resp.n = m
      /\ matchRow \in Rows(m)
      /\ matchRow' = matchRow + 1
    BY DEF MatchRow, Response, GenerateQuery, Aligned, Rows
<1>2. c \in Rows(m) /\ ii[c] \in Ids /\ ll[c] \in Bit /\ bs[matchRow] \in Bit
    BY <1>1 DEF Shuffles
<1>3. /\ resp.EEIDs[matchRow] = Encrypt("s0", Encrypt("s1", HashToPoint(ii[c])))
      /\ resp.R1Q1s[matchRow] = SplitShare(EncryptLabel(ll[c]), bs[matchRow], zeros)
    BY <1>1, <1>2 DEF Response, GenerateQuery
<1>4. MatchingRows(Decrypt("s1", resp.EEIDs[matchRow])) = found
    BY <1>2, <1>3, BlindingCancels
<1>5. b1 \in Bit /\ (zeros = "client" => Xor(bs[matchRow], b1) = ll[c])
    BY <1>2, SplitShareXor
<1>6. /\ Rows(matchRow) \subseteq Rows(matchRow')
      /\ \A r \in Rows(matchRow') : r \in Rows(matchRow) \/ r = matchRow
      /\ matchRow \in Rows(matchRow')
      /\ \A r \in Rows(matchRow) : r < matchRow
      /\ matchRow' \in 0 .. m
    BY <1>1 DEF Rows
<1>7. CASE found = {}
    <2>1. lastids' = lastids /\ newIdAndB1s' = newIdAndB1s
        BY <1>4, <1>7 DEF MatchRow
    <2>2. ~ \E h \in HostRows : ShortOf[ii[c]] = ShortOf[HostIds[h]]
        BY <1>7
    <2> HIDE DEF found, c, b1
    <2>3. Aligned(ii, ll, m, ix, bs, matchRow', lastids, newIdAndB1s)
        <3> DEFINE N == Len(lastids)
                   B == Len(newIdAndB1s) - N
        <3>1. Len(lastids) <= Len(newIdAndB1s)
            BY DEF Aligned
        <3>2. ASSUME NEW k \in 1 .. N
              PROVE  /\ lastids[k] \in Rows(matchRow')
                     /\ ShortOf[ii[ix[lastids[k]]]] = ShortOf[HostIds[newIdAndB1s[B + k].a]]
                     /\ zeros = "client" =>
                          Xor(bs[lastids[k]], newIdAndB1s[B + k].b) = ll[ix[lastids[k]]]
            BY <1>6 DEF Aligned
        <3>3. \A j, k \in 1 .. N : j < k => lastids[j] < lastids[k]
            BY DEF Aligned
        <3>4. ASSUME NEW r \in Rows(matchRow'),
                     \E h \in HostRows : ShortOf[ii[ix[r]]] = ShortOf[HostIds[h]]
              PROVE  \E k \in 1 .. N : lastids[k] = r
            <4>1. r \in Rows(matchRow)
                BY <1>6, <2>2, <3>4 DEF c
            <4> QED BY <4>1, <3>4 DEF Aligned
        <3> QED BY <1>6, <3>1, <3>2, <3>3, <3>4 DEF Aligned
    <2> QED BY <1>1, <2>1, <2>3
<1>8. CASE found # {}
    <2> DEFINE e == [a |-> LastRow(found), b |-> b1]
    <2>1. lastids' = Append(lastids, matchRow) /\ newIdAndB1s' = Append(newIdAndB1s, e)
        BY <1>3, <1>4, <1>8 DEF MatchRow
    <2>2. LastRow(found) \in found
        BY <1>8, LastRowMatches
    <2>3. /\ e.a \in HostRows
          /\ ShortOf[ii[c]] = ShortOf[HostIds[e.a]]
          /\ e \in Answer
          /\ zeros = "client" => Xor(bs[matchRow], e.b) = ll[c]
        BY EcAssumption, <1>5, <2>2 DEF Answer
    <2> HIDE DEF e, b1, found, c
    <2> DEFINE N == Len(lastids)
               M == Len(newIdAndB1s)
    <2>4. /\ N \in Nat /\ M \in Nat
          /\ Len(lastids') = N + 1
          /\ Len(newIdAndB1s') = M + 1
          /\ newIdAndB1s' \in Seq(Answer)
          /\ lastids' \in Seq(Nat)
        BY <1>1, <2>1, <2>3 DEF Rows
    <2>5. /\ \A k \in 1 .. N : lastids'[k] = lastids[k]
          /\ lastids'[N + 1] = matchRow
          /\ \A k \in 1 .. M : newIdAndB1s'[k] = newIdAndB1s[k]
          /\ newIdAndB1s'[M + 1] = e
        BY <1>1, <2>1, <2>3 DEF Rows
    <2>6. N <= M
        BY DEF Aligned
    <2>7. ASSUME NEW k \in 1 .. N + 1
          PROVE  LET f == newIdAndB1s'[(M + 1) - (N + 1) + k]
                 IN  /\ lastids'[k] \in Rows(matchRow')
                     /\ ShortOf[ii[ix[lastids'[k]]]] = ShortOf[HostIds[f.a]]
                     /\ zeros = "client" => Xor(bs[lastids'[k]], f.b) = ll[ix[lastids'[k]]]
        <3>1. CASE k = N + 1
            <4>1. newIdAndB1s'[(M + 1) - (N + 1) + k] = e
                BY <2>4, <2>5, <3>1
            <4> QED BY <1>6, <2>3, <2>5, <3>1, <4>1 DEF c
        <3>2. CASE k \in 1 .. N
            <4>1. /\ newIdAndB1s'[(M + 1) - (N + 1) + k] = newIdAndB1s[M - N + k]
                  /\ lastids'[k] = lastids[k]
                <5>1. M - N + k \in 1 .. M /\ (M + 1) - (N + 1) + k = M - N + k
                    BY <2>4, <2>6, <3>2
                <5> QED BY <2>5, <3>2, <5>1
            <4> QED BY <1>6, <3>2, <4>1 DEF Aligned
        <3> QED BY <2>4, <3>1, <3>2
    <2>8. ASSUME NEW j \in 1 .. N + 1, NEW k \in 1 .. N + 1, j < k
          PROVE  lastids'[j] < lastids'[k]
        <3>1. j \in 1 .. N
            BY <2>4, <2>8
        <3>2. lastids[j] \in Rows(matchRow)
            BY <3>1 DEF Aligned
        <3>3. CASE k = N + 1
            BY <1>6, <2>5, <3>1, <3>2, <3>3
        <3>4. CASE k \in 1 .. N
            BY <2>5, <2>8, <3>1, <3>4 DEF Aligned
        <3> QED BY <2>4, <3>3, <3>4
    <2>9. ASSUME NEW r \in Rows(matchRow'),
                 \E h \in HostRows : ShortOf[ii[ix[r]]] = ShortOf[HostIds[h]]
          PROVE  \E k \in 1 .. N + 1 : lastids'[k] = r
        <3>1. CASE r = matchRow
            <4>1. N + 1 \in 1 .. N + 1
                BY <2>4
            <4> QED BY <2>5, <3>1, <4>1
        <3>2. CASE r \in Rows(matchRow)
            <4>1. PICK k \in 1 .. N : lastids[k] = r
                BY <2>9, <3>2 DEF Aligned
            <4>2. k \in 1 .. N + 1
                BY <2>4, <4>1
            <4>3. lastids'[k] = r
                BY <2>5, <4>1
            <4> QED BY <4>2, <4>3
        <3> QED BY <1>6, <2>9, <3>1, <3>2
    <2>10. Aligned(ii, ll, m, ix, bs, matchRow', lastids', newIdAndB1s')
        <3> HIDE DEF N, M
        <3> QED BY <1>6, <2>4, <2>6, <2>7, <2>8, <2>9 DEF Aligned
    <2> QED BY <1>1, <2>4, <2>10
<1> QED BY <1>7, <1>8
=============================================================================
