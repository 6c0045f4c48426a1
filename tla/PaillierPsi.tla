----------------------------- MODULE PaillierPsi -----------------------------
(***************************************************************************)
(* The intersection whose labels are encrypted with Paillier               *)
(* (ECPaillierPlayer0 and 1, ec_psi.h) as the two processes of             *)
(* psi_to_share_paillier.h run it.  Points, hash map, shuffle and answers  *)
(* are those of EcPlayers, whose state is also these players'; a label is  *)
(* an int32_t that is shared by addition, and its shares change type on    *)
(* their way: uint32_t, a big number, the low word of one, bool.           *)
(*                                                                         *)
(* Signed and unsigned words that share their bits are one number in       *)
(* 0 .. Modulus - 1.  The messages are those of Wire.                      *)
(***************************************************************************)
EXTENDS EcPlayers

CONSTANTS
    Modulus,    \* 2^32, the number of values of uint32_t
    PaillierN,  \* the Paillier modulus (1024 bits)
    Labels,     \* the labels a client may have
    MaxBatch    \* bound: the largest query

Word == 0 .. Modulus - 1
Random == 0 .. (Modulus \div 2) - 1   \* random() leaves the top bit clear

ASSUME PaillierAssumption ==
    /\ Modulus \in Nat \ {0}
    /\ PaillierN \in Nat /\ PaillierN >= 2 * Modulus
    /\ Labels \subseteq Int
    /\ MaxBatch \in Nat

VARIABLES
    n, ids, labels,                               \* the client's columns; constant
    cpc, query, newIds, labelShares1,             \* client
    hpc, response, labelShares0                   \* host

settled == <<n, ids, labels>>
vars == <<ecVars, settled, cpc, query, newIds, labelShares1, hpc, response, labelShares0>>

-----------------------------------------------------------------------------
(* Label ciphertexts: a number below PaillierN under a key.                *)
EncWord(x) == [key |-> "client", plain |-> x % Modulus]

\* -r of an unsigned word is Modulus - r, and the sum of the two big numbers
\* is not reduced to a word.
SplitWord(c, r, z) ==
    [key |-> IF z = c.key THEN c.key ELSE "garbled",
     plain |-> (c.plain + ((-r) % Modulus)) % PaillierN]

\* Mutant: the plaintext is saturated to a word instead of cut.
DecWordSaturated(c) == IF c.plain < Modulus THEN c.plain ELSE Modulus - 1

\* The lowest word of the plaintext; another key's ciphertext is noise.
DecWord(c) == IF c.key = "client" THEN c.plain % Modulus ELSE 0

\* A word stored in a vector<bool>.
ToBool(w) == IF w = 0 THEN 0 ELSE 1

Query(ii, ll, m) ==
    [n |-> m,
     EIDs |-> [c \in Rows(m) |-> Encrypt("s1", HashToPoint(ii[c]))],
     Elabels |-> [c \in Rows(m) |-> EncWord(ll[c])]]

HostResponse(q, ix, masks) ==
    [n |-> q.n,
     EEIDs |-> [r \in Rows(q.n) |-> Encrypt("s0", q.EIDs[ix[r]])],
     Elabels |-> [r \in Rows(q.n) |-> SplitWord(q.Elabels[ix[r]], masks[r], zeros)]]

-----------------------------------------------------------------------------
Init ==
    /\ EcInit
    /\ n \in 1 .. MaxBatch
    /\ ids \in [Rows(n) -> Ids]
    /\ labels \in [Rows(n) -> Labels]
    /\ cpc = "query"
    /\ query = << >>
    /\ newIds = << >>
    /\ labelShares1 = << >>
    /\ hpc = "keys"
    /\ response = << >>
    /\ labelShares0 = << >>

\* The client sent its key when it was made.
HostLoadKeys ==
    /\ hpc = "keys"
    /\ hpc' = "query"
    /\ SetPublicKey("client")
    /\ UNCHANGED <<settled, cpc, query, newIds, labelShares1, response, labelShares0>>

ClientSendQuery ==
    /\ cpc = "query"
    /\ cpc' = "response"
    /\ query' = Query(ids, labels, n)
    /\ UNCHANGED <<ecVars, settled, newIds, labelShares1, hpc, response, labelShares0>>

HostRespond(ix, masks) ==
    /\ hpc = "query"
    /\ query # << >>
    /\ hpc' = "lastids"
    /\ GenerateResponse0(query, ix, masks)
    /\ response' = HostResponse(query, ix, masks)
    /\ UNCHANGED <<settled, cpc, query, newIds, labelShares1, labelShares0>>

ClientBegin ==
    /\ cpc = "response"
    /\ response # << >>
    /\ cpc' = "match"
    /\ BeginMatch
    /\ UNCHANGED <<settled, query, newIds, labelShares1, hpc, response, labelShares0>>

\* An iteration of the loop of ECPaillierPlayer1::generate_response.
ClientMatch ==
    /\ cpc = "match"
    /\ matchRow < response.n
    /\ matchRow' = matchRow + 1
    /\ LET found == MatchingRows(Decrypt("s1", response.EEIDs[matchRow]))
       IN  IF found = {}
             THEN UNCHANGED <<newIdAndB1s, lastids>>
             ELSE /\ newIdAndB1s' =
                       Append(newIdAndB1s, [a |-> LastRow(found),
                                            b |-> DecWord(response.Elabels[matchRow])])
                  /\ lastids' = Append(lastids, matchRow)
    /\ UNCHANGED <<zeros, b0s, index, settled, cpc, query, newIds, labelShares1,
                   hpc, response, labelShares0>>

ClientSendLastids ==
    /\ cpc = "match"
    /\ matchRow = response.n
    /\ cpc' = "answer"
    /\ UNCHANGED <<ecVars, settled, query, newIds, labelShares1, hpc, response, labelShares0>>

\* return_answer fills a vector<bool>.
HostAnswer ==
    /\ hpc = "lastids"
    /\ cpc \in {"answer", "done"}
    /\ hpc' = "done"
    /\ labelShares0' = [k \in DOMAIN lastids |-> ToBool(ReturnAnswer0(lastids)[k])]
    /\ UNCHANGED <<ecVars, settled, cpc, query, newIds, labelShares1, response>>

\* The driver splits the pairs into new_ids and a vector<bool>.
ClientAnswer ==
    /\ cpc = "answer"
    /\ cpc' = "done"
    /\ newIds' = [k \in DOMAIN newIdAndB1s |-> newIdAndB1s[k].a]
    /\ labelShares1' = [k \in DOMAIN newIdAndB1s |-> ToBool(newIdAndB1s[k].b)]
    /\ UNCHANGED <<ecVars, settled, query, hpc, response, labelShares0>>

Ended == cpc = "done" /\ hpc = "done"
Finished == Ended /\ UNCHANGED vars

Next ==
    \/ HostLoadKeys
    \/ ClientSendQuery
    \/ \E ix \in Shuffles(n), masks \in [Rows(n) -> Random] : HostRespond(ix, masks)
    \/ ClientBegin
    \/ ClientMatch
    \/ ClientSendLastids
    \/ HostAnswer
    \/ ClientAnswer
    \/ Finished

Spec == Init /\ [][Next]_vars

-----------------------------------------------------------------------------
\* The client row behind the k-th matched row.
ClientRow(k) == index[lastids[k]]

(* The words the two players hold are additive shares of each matched      *)
(* row's label, although the sum under encryption is not reduced to a      *)
(* word, and the client has a host row of the same client row.             *)
WordsAlign ==
    cpc \in {"answer", "done"} =>
        /\ Len(newIdAndB1s) = Len(lastids)
        /\ \A k \in DOMAIN lastids :
             /\ (b0s[lastids[k]] + newIdAndB1s[k].b) % Modulus = labels[ClientRow(k)] % Modulus
             /\ ShortOf[ids[ClientRow(k)]] = ShortOf[HostIds[newIdAndB1s[k].a]]

(* The vectors the driver is left with hold one bit of each share: whether *)
(* it is zero.  They keep the order of new_ids, and what they still tell   *)
(* of a label is one-sided: shares that differ mean a label that is not 0, *)
(* but shares that are equal mean nothing.                                 *)
DifferingBitsTell ==
    Ended =>
        /\ Len(labelShares0) = Len(newIds)
        /\ Len(labelShares1) = Len(newIds)
        /\ \A k \in DOMAIN newIds :
             labelShares0[k] # labelShares1[k] => labels[ClientRow(k)] % Modulus # 0
=============================================================================
