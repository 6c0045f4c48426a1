------------------------------ MODULE EcPlayers ------------------------------
(***************************************************************************)
(* The two objects of the elliptic-curve PSI (ec_psi.h): ECPlayer1, which  *)
(* holds the client's identifiers and labels, and ECPlayer0, which holds   *)
(* the host's identifiers.  This module keeps the state of both objects    *)
(* and the operations that read or change it; EcPsi calls them from one    *)
(* process, PsiToShare from two processes that exchange messages.          *)
(*                                                                         *)
(* Vectors are functions on 0 .. n-1, as in the code; vectors the code     *)
(* grows with push_back are sequences.  A curve point is the identifier it *)
(* hashes from and the set of secret scalars it is multiplied by; a label  *)
(* ciphertext is its key and its sign bit.                                 *)
(***************************************************************************)
EXTENDS Integers, Sequences, FiniteSets

CONSTANTS
    Ids,         \* identifiers
    Tags,        \* 12-byte prefixes of encrypted points
    ShortOf,     \* the prefix an identifier's encrypted point is cut to
    HostIds,     \* the host's identifier column: row number |-> identifier
    HostRows     \* the host's row numbers, 0 .. host_n_data-1

ASSUME EcAssumption ==
    /\ HostRows \subseteq Nat
    /\ IsFiniteSet(HostRows)
    /\ HostIds \in [HostRows -> Ids]
    /\ ShortOf \in [Ids -> Tags]

VARIABLES
    zeros,        \* ECPlayer0: the key its encryption of zero belongs to; the
                  \* client's also if it leaves the client's ciphertexts alone
    b0s,          \* ECPlayer0: its label shares, one per shuffled row
    newIdAndB1s,  \* ECPlayer1: new_id_and_b1s, never cleared
    matchRow,     \* ECPlayer1.generate_response: the loop counter
    lastids,      \* ECPlayer1.generate_response: intersection_lastids
    index         \* ECPlayer0.generate_response: its local shuffle, kept
                  \* after the call so that properties can name client rows

ecVars == <<zeros, b0s, newIdAndB1s, matchRow, lastids, index>>

-----------------------------------------------------------------------------
Bit == {0, 1}
Xor(a, b) == IF a = b THEN 0 ELSE 1
Rows(n) == 0 .. n - 1

\* Bijections on the rows: what std::shuffle of the identity can return.
Shuffles(n) == {f \in [Rows(n) -> Rows(n)] :
                   /\ \A r, s \in Rows(n) : f[r] = f[s] => r = s
                   /\ \A r \in Rows(n) : \E s \in Rows(n) : f[s] = r}

-----------------------------------------------------------------------------
(* Points.                                                                 *)
Scalar == {"s0", "s1"}
Point == [id : Ids, under : SUBSET Scalar]

HashToPoint(id) == [id |-> id, under |-> {}]
Encrypt(s, p) == [id |-> p.id, under |-> p.under \cup {s}]
Decrypt(s, p) == [id |-> p.id, under |-> p.under \ {s}]

\* cut_off_ec_point: two points collide when their identifiers' prefixes do.
Cut(p) == <<ShortOf[p.id], p.under>>

(* Label ciphertexts.  Adding an encryption of zero under another key      *)
(* garbles the plaintext, and ec_decrypt1bit reads everything that is not  *)
(* the point P as 1.                                                       *)
Key == {"unset", "client"}
Cipher == [key : Key \cup {"garbled"}, bit : Bit]

EncryptLabel(b) == [key |-> "client", bit |-> b]
SplitShare(c, b0, z) == [key |-> IF z = c.key THEN c.key ELSE "garbled",
                         bit |-> Xor(c.bit, b0)]
DecryptLabel(c) == IF c.key = "client" THEN c.bit ELSE 1

-----------------------------------------------------------------------------
(* What the operations return.                                             *)

\* ECPlayer1::generate_query
GenerateQuery(ids, labels, n) ==
    [n |-> n,
     EIDs |-> [c \in Rows(n) |-> Encrypt("s1", HashToPoint(ids[c]))],
     Elabels |-> [c \in Rows(n) |-> EncryptLabel(labels[c])]]

\* ECPlayer0::init
ShortEIDs == [h \in HostRows |-> Cut(Encrypt("s0", HashToPoint(HostIds[h])))]

\* Mutant: the labels are split in the query's order.
ResponseUnshuffledLabels(q, ix, bits) ==
    [n |-> q.n,
     EEIDs |-> [r \in Rows(q.n) |-> Encrypt("s0", q.EIDs[ix[r]])],
     R1Q1s |-> [r \in Rows(q.n) |-> SplitShare(q.Elabels[r], bits[r], zeros)]]

\* ECPlayer0::generate_response, for the shuffle ix and the share bits.
Response(q, ix, bits) ==
    [n |-> q.n,
     EEIDs |-> [r \in Rows(q.n) |-> Encrypt("s0", q.EIDs[ix[r]])],
     R1Q1s |-> [r \in Rows(q.n) |-> SplitShare(q.Elabels[ix[r]], bits[r], zeros)]]

\* The rows of ShortEIDs a point matches; the hash map keeps the last one.
MatchingRows(p) == {h \in HostRows : ShortEIDs[h] = Cut(p)}
LastRowPrevious(S) == CHOOSE h \in HostRows : \E g \in S : h + 1 = g  \* mutant
LastRowNext(S) == 1 + CHOOSE h \in S : \A g \in S : g <= h  \* mutant
LastRow(S) == CHOOSE h \in S : \A g \in S : g <= h

\* Mutant: the host takes the client's rows for rows before the shuffle.
ReturnAnswer0Unshuffled(l) == [k \in DOMAIN l |-> b0s[index[l[k]]]]

\* ECPlayer0::return_answer
ReturnAnswer0(l) == [k \in DOMAIN l |-> b0s[l[k]]]

-----------------------------------------------------------------------------
(* The operations that change an object.                                   *)

EcInit ==
    /\ zeros = "unset"
    /\ b0s = << >>
    /\ newIdAndB1s = << >>
    /\ matchRow = 0
    /\ lastids = << >>
    /\ index = << >>

\* ECPlayer0::set_public_key
SetPublicKey(k) ==
    /\ zeros' = k
    /\ UNCHANGED <<b0s, newIdAndB1s, matchRow, lastids, index>>

\* Mutant: b0s is only set by the first query.
GenerateResponse0Once(q, ix, bits) ==
    /\ index' = ix
    /\ b0s' = IF b0s = << >> THEN bits ELSE b0s
    /\ UNCHANGED <<zeros, newIdAndB1s, matchRow, lastids>>

\* ECPlayer0::generate_response: b0s is overwritten, zeros stays a
\* re-randomised encryption of zero under the same key.
GenerateResponse0(q, ix, bits) ==
    /\ index' = ix
    /\ b0s' = bits
    /\ UNCHANGED <<zeros, newIdAndB1s, matchRow, lastids>>

\* Mutant: lastids is kept like newIdAndB1s.
BeginMatchKeepsLastids ==
    /\ matchRow' = 0
    /\ UNCHANGED <<zeros, b0s, newIdAndB1s, lastids, index>>

\* ECPlayer1::generate_response: the locals before its loop.
BeginMatch ==
    /\ matchRow' = 0
    /\ lastids' = << >>
    /\ UNCHANGED <<zeros, b0s, newIdAndB1s, index>>

\* ECPlayer1::generate_response: one iteration of its loop over the rows.
MatchRow(resp) ==
    LET p == Decrypt("s1", resp.EEIDs[matchRow])
        found == MatchingRows(p)
    IN  /\ matchRow < resp.n
        /\ matchRow' = matchRow + 1
        /\ IF found = {}
             THEN UNCHANGED <<newIdAndB1s, lastids>>
             ELSE /\ newIdAndB1s' =
                       Append(newIdAndB1s, [a |-> LastRow(found),
                                            b |-> DecryptLabel(resp.R1Q1s[matchRow])])
                  /\ lastids' = Append(lastids, matchRow)
        /\ UNCHANGED <<zeros, b0s, index>>

-----------------------------------------------------------------------------
(* What the loop of ECPlayer1::generate_response maintains while it reads  *)
(* the shuffled rows below `row' of a query (ii, ll, m) that was shuffled  *)
(* by ix and split with the bits bs: lids and the end of ans list, in      *)
(* order and without omission, the rows with a match, and entry by entry   *)
(* the host row and, if the host has the client's key, the share that      *)
(* complements the host's bit.                                             *)
Aligned(ii, ll, m, ix, bs, row, lids, ans) ==
    /\ row \in 0 .. m
    /\ Len(lids) <= Len(ans)
    /\ \A k \in 1 .. Len(lids) :
         /\ lids[k] \in Rows(row)
         /\ ShortOf[ii[ix[lids[k]]]] =
               ShortOf[HostIds[ans[Len(ans) - Len(lids) + k].a]]
         /\ zeros = "client" =>
              Xor(bs[lids[k]], ans[Len(ans) - Len(lids) + k].b) = ll[ix[lids[k]]]
    /\ \A j, k \in 1 .. Len(lids) : j < k => lids[j] < lids[k]
    /\ \A r \in Rows(row) :
         (\E h \in HostRows : ShortOf[ii[ix[r]]] = ShortOf[HostIds[h]])
            => \E k \in 1 .. Len(lids) : lids[k] = r
=============================================================================
