------------------------------ MODULE PsiToShare ------------------------------
(***************************************************************************)
(* The two-party alignment protocol (psi_to_share.h): a host process with  *)
(* an identifier column and feature columns, a client process with         *)
(* identifiers and labels, and one byte stream in each direction.          *)
(*                                                                         *)
(*   stage 1  PSI: the client learns the host row (new_id) of each of its  *)
(*            identifiers the host holds; both get shares of its label;    *)
(*   stage 2  the client pads new_ids to the batch size and retrieves      *)
(*            shares of the host's features at those rows.                 *)
(*                                                                         *)
(* The variable driver is the function both processes run: "count" is      *)
(* psi_to_share_2party_socketopt without a ratio, which pads with          *)
(* host_n_data - i; "ratio" is its overload with inter_ratio, which        *)
(* creates the stage-2 objects once the intersection is known; "file" is   *)
(* psi_to_share_2party_socketopt_fromfile.                                 *)
(***************************************************************************)
EXTENDS EcPlayers, Setup

CONSTANTS
    ClientInputs,  \* driver |-> the identifier columns a client may bring
    FeatureNum,    \* feature_num
    HostLog,       \* host_log_n_data
    Data,          \* the columns the host's tables hold (see FeatureLayout)
    P              \* the plaintext modulus

HostN == 2 ^ HostLog
Features == 0 .. FeatureNum - 1
Value == 0 .. P - 1

ASSUME DriverAssumption ==
    /\ Drivers \subseteq {"count", "ratio", "file"}
    /\ P \in Nat \ {0}
    /\ HostLog \in Nat
    /\ FeatureNum \in Nat
    /\ HostRows = 0 .. HostN - 1
    /\ Data \in [Features -> [HostRows -> Value]]
    /\ \A d \in Drivers : \A ii \in ClientInputs[d] :
         IsFiniteSet(DOMAIN ii) /\ ii \in [Rows(Cardinality(DOMAIN ii)) -> Ids]

VARIABLES
    toHost, toClient,              \* the two streams
    n, clientIds, clientLabels,    \* the client's file; constant
    features, rows,                \* feature_num and host_n_data at the client
    cpc, psiResponse, newIds, labelShares1, batchC, result1, saved1,
    hpc, labelShares0, bpsKey, batchH, result0, saved0

clientVars == <<cpc, psiResponse, newIds, labelShares1, batchC, result1, saved1>>
hostVars == <<hpc, labelShares0, bpsKey, batchH, result0, saved0>>
settled == <<n, clientIds, clientLabels, features, rows, setupVars>>
vars == <<ecVars, toHost, toClient, settled, clientVars, hostVars>>

-----------------------------------------------------------------------------
(* A message is what one send_..._socket call writes; the receiver reads   *)
(* the layout its own call expects.                                        *)
Message(t, b) == [type |-> t, body |-> b]
SendToHost(t, b) == toHost' = Append(toHost, Message(t, b))
SendToClient(t, b) == toClient' = Append(toClient, Message(t, b))
ReceiveAtHost(t) == toHost # << >> /\ Head(toHost).type = t /\ toHost' = Tail(toHost)
ReceiveAtClient(t) == toClient # << >> /\ Head(toClient).type = t /\ toClient' = Tail(toClient)

\* The stage of the first public key message, and what it carries.
FirstKeys == IF driver = "ratio" THEN "pk psi" ELSE "pk all"

\* 1 << ceil(log2(k)); for k = 0 the shift count is what INT_MIN leaves.
PowerOfTwoAbove(k) ==
    CHOOSE p \in {2 ^ e : e \in 0 .. k} :
        p >= k /\ \A q \in {2 ^ e : e \in 0 .. k} : q >= k => p <= q

-----------------------------------------------------------------------------
Init ==
    /\ EcInit
    /\ SetupInit
    /\ toHost = << >>
    /\ toClient = << >>
    /\ clientIds \in ClientInputs[driver]
    /\ n = Cardinality(DOMAIN clientIds)
    /\ clientLabels \in [Rows(n) -> Bit]
    /\ features = IF driver = "file" THEN 0 ELSE FeatureNum
    /\ rows = IF driver = "file" THEN 0 ELSE HostN
    /\ cpc = "keys"
    /\ psiResponse = << >>
    /\ newIds = << >>
    /\ labelShares1 = << >>
    /\ batchC = n
    /\ result1 = << >>
    /\ saved1 = << >>
    /\ hpc = "keys"
    /\ labelShares0 = << >>
    /\ bpsKey = "unset"
    /\ batchH = IF driver = "file" THEN 0 ELSE n
    /\ result0 = << >>
    /\ saved0 = << >>

(* Setting up, before either process does anything else.                   *)

HostNumber == [feature_num |-> FeatureNum, host_log_n_data |-> HostLog, socket |-> 0]

HostSetUp ==
    /\ \/ DoConnect(hostCalls, HostNumber[Head(hostCalls).topic]) /\ batchH' = batchH
       \/ DoListen(hostCalls) /\ batchH' = batchH
       \/ DoAccept(hostCalls) /\ batchH' = Taken(hostCalls, "batch_size", batchH)
    /\ hostCalls' = Tail(hostCalls)
    /\ UNCHANGED <<ecVars, driver, toHost, toClient, n, clientIds, clientLabels, features, rows,
                   clientCalls, clientVars, hpc, labelShares0, bpsKey, result0, saved0>>

ClientSetUp ==
    /\ \/ DoConnect(clientCalls, batchC) /\ UNCHANGED <<features, rows>>
       \/ DoListen(clientCalls) /\ UNCHANGED <<features, rows>>
       \/ /\ DoAccept(clientCalls)
          /\ features' = Taken(clientCalls, "feature_num", features)
          /\ rows' = IF Head(clientCalls).topic = "host_log_n_data"
                       THEN 2 ^ Taken(clientCalls, "host_log_n_data", 0) ELSE rows
    /\ clientCalls' = Tail(clientCalls)
    /\ UNCHANGED <<ecVars, driver, toHost, toClient, n, clientIds, clientLabels,
                   hostCalls, clientVars, hostVars>>

(* The client.                                                             *)

ClientSendKeys ==
    /\ clientCalls = << >>
    /\ cpc = "keys"
    /\ cpc' = "query"
    /\ SendToHost(FirstKeys, "client")
    /\ UNCHANGED <<ecVars, toClient, settled, hostVars,
                   psiResponse, newIds, labelShares1, batchC, result1, saved1>>

ClientSendPsiQuery ==
    /\ cpc = "query"
    /\ cpc' = "response"
    /\ SendToHost("psi query", GenerateQuery(clientIds, clientLabels, n))
    /\ UNCHANGED <<ecVars, toClient, settled, hostVars,
                   psiResponse, newIds, labelShares1, batchC, result1, saved1>>

ClientReceivePsiResponse ==
    /\ cpc = "response"
    /\ cpc' = "match"
    /\ ReceiveAtClient("psi response")
    /\ psiResponse' = Head(toClient).body
    /\ BeginMatch
    /\ UNCHANGED <<toHost, settled, hostVars, newIds, labelShares1, batchC, result1, saved1>>

ClientMatchRow ==
    /\ cpc = "match"
    /\ MatchRow(psiResponse)
    /\ UNCHANGED <<toHost, toClient, settled, hostVars, clientVars>>

ClientSendLastids ==
    /\ cpc = "match"
    /\ matchRow = psiResponse.n
    /\ cpc' = "answer"
    /\ SendToHost("lastids", lastids)
    /\ UNCHANGED <<ecVars, toClient, settled, hostVars,
                   psiResponse, newIds, labelShares1, batchC, result1, saved1>>

\* Mutant: the keys of stage 2 are not sent.
AfterAnswerSkipsKeys == "pad"

\* Stage 2 has keys of its own where its objects are made late.
AfterAnswer == IF driver = "ratio" THEN "bps keys" ELSE "pad"

\* ECPlayer1::return_answer and the split of its pairs.
ClientTakeAnswer ==
    /\ cpc = "answer"
    /\ cpc' = AfterAnswer
    /\ newIds' = [k \in DOMAIN newIdAndB1s |-> newIdAndB1s[k].a]
    /\ labelShares1' = [k \in DOMAIN newIdAndB1s |-> newIdAndB1s[k].b]
    /\ UNCHANGED <<ecVars, toHost, toClient, settled, hostVars,
                   psiResponse, batchC, result1, saved1>>

JoinBatchC == PowerOfTwoAbove(Len(labelShares1))

ClientSendBpsKeys ==
    /\ cpc = "bps keys"
    /\ cpc' = "pad"
    /\ batchC' = JoinBatchC
    /\ SendToHost("pk bps", "client")
    /\ UNCHANGED <<ecVars, toClient, settled, hostVars,
                   psiResponse, newIds, labelShares1, result1, saved1>>

\* Mutant: padding rows are drawn without looking at the list.
PadRowsUnchecked == Rows(rows)

\* One iteration of the padding loop: "count" takes row host_n_data - i;
\* the other drivers draw rows until one is not in the list yet.
PadRows ==
    IF driver = "count"
      THEN {rows - Len(newIds)}
      ELSE {r \in Rows(rows) : \A k \in DOMAIN newIds : newIds[k] # r}

ClientPad(r) ==
    /\ cpc = "pad"
    /\ Len(newIds) < batchC
    /\ newIds' = Append(newIds, r)
    /\ UNCHANGED <<ecVars, toHost, toClient, settled, hostVars,
                   cpc, psiResponse, labelShares1, batchC, result1, saved1>>

\* gen_query_stream throws unless the list has the batch's length.
ClientSendBpsQuery ==
    /\ cpc = "pad"
    /\ Len(newIds) = batchC
    /\ cpc' = "shares"
    /\ SendToHost("bps query", [batch |-> batchC, rows |-> newIds])
    /\ UNCHANGED <<ecVars, toClient, settled, hostVars,
                   psiResponse, newIds, labelShares1, batchC, result1, saved1>>

\* Mutant: the host's shares are taken for the signed ones.
KeptUnsigned(share) == share

\* "file": the client's shares are below zero, the host's are not.
Kept(share) == [k \in DOMAIN share |-> IF driver = "file" THEN share[k] - P ELSE share[k]]

\* save_csv_transpose: a line of out_file for each row of the intersection.
Saved(values, labels) ==
    IF driver # "file" THEN << >>
    ELSE [k \in DOMAIN labels |->
            [features |-> [f \in DOMAIN values |-> values[f][k]], label |-> labels[k]]]

ClientReceiveShares ==
    /\ cpc = "shares"
    /\ cpc' = "done"
    /\ ReceiveAtClient("bps response")
    /\ result1' = [f \in 0 .. features - 1 |-> Kept(Head(toClient).body[f])]
    /\ saved1' = Saved(result1', labelShares1)
    /\ UNCHANGED <<ecVars, toHost, settled, hostVars,
                   psiResponse, newIds, labelShares1, batchC>>

(* The host.                                                               *)

HostReceiveKeys ==
    /\ hostCalls = << >>
    /\ hpc = "keys"
    /\ hpc' = "query"
    /\ ReceiveAtHost(FirstKeys)
    /\ SetPublicKey(Head(toHost).body)
    /\ bpsKey' = IF driver = "ratio" THEN bpsKey ELSE Head(toHost).body
    /\ UNCHANGED <<toClient, settled, clientVars, labelShares0, batchH, result0, saved0>>

HostAnswerPsiQuery(ix, bits) ==
    /\ hpc = "query"
    /\ hpc' = "lastids"
    /\ ReceiveAtHost("psi query")
    /\ GenerateResponse0(Head(toHost).body, ix, bits)
    /\ SendToClient("psi response", Response(Head(toHost).body, ix, bits))
    /\ UNCHANGED <<settled, clientVars, labelShares0, bpsKey, batchH, result0, saved0>>

JoinBatchH(l) == IF driver = "ratio" THEN PowerOfTwoAbove(Len(l)) ELSE batchH

HostReceiveLastids ==
    /\ hpc = "lastids"
    /\ hpc' = IF driver = "ratio" THEN "bps keys" ELSE "bps query"
    /\ ReceiveAtHost("lastids")
    /\ labelShares0' = ReturnAnswer0(Head(toHost).body)
    /\ batchH' = JoinBatchH(Head(toHost).body)
    /\ UNCHANGED <<ecVars, toClient, settled, clientVars, bpsKey, result0, saved0>>

HostReceiveBpsKeys ==
    /\ hpc = "bps keys"
    /\ hpc' = "bps query"
    /\ ReceiveAtHost("pk bps")
    /\ bpsKey' = Head(toHost).body
    /\ UNCHANGED <<ecVars, toClient, settled, clientVars, labelShares0, batchH, result0, saved0>>

\* Mutant: share 0 is added to the column instead of subtracted.
Share1Added(q, r0) ==
    [f \in Features |-> [k \in 1 .. q.batch |->
        IF bpsKey = "client" THEN (Data[f][q.rows[k]] + r0[f][k]) % P ELSE r0[f][k]]]

\* The shares that complement r0: decrypting under another key gives noise,
\* here the value of share 0 itself.
Share1(q, r0) ==
    [f \in Features |-> [k \in 1 .. q.batch |->
        IF bpsKey = "client" THEN (Data[f][q.rows[k]] - r0[f][k]) % P ELSE r0[f][k]]]

HostAnswerBpsQuery(r0) ==
    /\ hpc = "bps query"
    /\ hpc' = "done"
    /\ ReceiveAtHost("bps query")
    /\ Head(toHost).body.batch = batchH
    /\ SendToClient("bps response", Share1(Head(toHost).body, r0))
    /\ result0' = r0
    /\ saved0' = Saved(r0, labelShares0)
    /\ UNCHANGED <<ecVars, settled, clientVars, labelShares0, bpsKey, batchH>>

\* Both processes have returned from the driver.
Finished == cpc = "done" /\ hpc = "done" /\ UNCHANGED vars

ClientNext ==
    \/ ClientSetUp
    \/ ClientSendKeys
    \/ ClientSendPsiQuery
    \/ ClientReceivePsiResponse
    \/ ClientMatchRow
    \/ ClientSendLastids
    \/ ClientTakeAnswer
    \/ ClientSendBpsKeys
    \/ \E r \in PadRows : ClientPad(r)
    \/ ClientSendBpsQuery
    \/ ClientReceiveShares

HostNext ==
    \/ HostSetUp
    \/ HostReceiveKeys
    \/ \E ix \in Shuffles(n), bits \in [Rows(n) -> Bit] : HostAnswerPsiQuery(ix, bits)
    \/ HostReceiveLastids
    \/ HostReceiveBpsKeys
    \/ \E r0 \in [Features -> [1 .. batchH -> Value]] : HostAnswerBpsQuery(r0)

Next == ClientNext \/ HostNext \/ Finished

(* Each process runs its driver to the end; a receive waits for the peer.  *)
Spec == Init /\ [][Next]_vars /\ WF_vars(ClientNext) /\ WF_vars(HostNext)

-----------------------------------------------------------------------------
MessageType == {"pk all", "pk psi", "pk bps", "psi query", "lastids", "bps query"}

(* Type invariant: the program points, the share vectors and the streams.  *)
TypeOK ==
    /\ cpc \in {"keys", "query", "response", "match", "answer", "bps keys",
                "pad", "shares", "done"}
    /\ hpc \in {"keys", "query", "lastids", "bps keys", "bps query", "done"}
    /\ n \in Nat
    /\ clientIds \in [Rows(n) -> Ids]
    /\ clientLabels \in [Rows(n) -> Bit]
    /\ zeros \in Key
    /\ bpsKey \in Key
    /\ matchRow \in Nat
    /\ lastids \in Seq(Nat)
    /\ newIdAndB1s \in Seq([a : HostRows, b : Bit])
    /\ \A k \in DOMAIN toHost : toHost[k].type \in MessageType
    /\ \A k \in DOMAIN toClient : toClient[k].type \in {"psi response", "bps response"}

(* The streams carry no message boundaries a receiver could check: every   *)
(* receive call takes the layout it expects.  So the next message in a     *)
(* stream has to be the one the receiver's next call reads, although the   *)
(* client sends up to three messages ahead (lastids, keys, query).         *)
HostExpects == CASE hpc = "keys" -> FirstKeys
                 [] hpc = "query" -> "psi query"
                 [] hpc = "lastids" -> "lastids"
                 [] hpc = "bps keys" -> "pk bps"
                 [] hpc = "bps query" -> "bps query"
                 [] hpc = "done" -> "nothing"

InOrder ==
    /\ toHost # << >> => Head(toHost).type = HostExpects
    /\ toClient # << >> =>
         \/ cpc = "response" /\ Head(toClient).type = "psi response"
         \/ cpc = "shares" /\ Head(toClient).type = "bps response"

(* The two processes size the tables of stage 2 apart: the client knows    *)
(* the host's row and feature numbers from its arguments or from the       *)
(* set-up, the host the batch from its arguments, from the set-up or from  *)
(* what it has of stage 1.  When the query is on its way they agree.       *)
SizesAgree ==
    /\ cpc # "keys" => features = FeatureNum /\ rows = HostN
    /\ \A k \in DOMAIN toHost :
         toHost[k].type = "bps query" /\ hpc \in {"bps keys", "bps query"} =>
             toHost[k].body.batch = batchH

(* Stage 2 interpolates over the queried rows, so they must be distinct    *)
(* rows of the host's table: for a client without repeated identifiers     *)
(* they are, padding included.                                             *)
RowsDistinct ==
    (cpc = "shares" /\ \A c, d \in Rows(n) : c # d => ShortOf[clientIds[c]] # ShortOf[clientIds[d]]) =>
        /\ \A k \in DOMAIN newIds : newIds[k] \in HostRows
        /\ \A k, l \in DOMAIN newIds : newIds[k] = newIds[l] => k = l

(* The outputs of both parties have one row order: position k of the label *)
(* shares, of the feature shares and of new_ids belongs to one client row  *)
(* and its host row.                                                       *)
OutputsAlign ==
    (cpc = "done" /\ hpc = "done") =>
        /\ Len(labelShares0) = Len(labelShares1)
        /\ \A k \in 1 .. Len(labelShares0) :
             LET c == index[lastids[k]]
             IN  /\ ShortOf[clientIds[c]] = ShortOf[HostIds[newIds[k]]]
                 /\ Xor(labelShares0[k], labelShares1[k]) = clientLabels[c]
                 /\ \A f \in Features :
                      (result0[f][k] + result1[f][k]) % P = Data[f][newIds[k]]

(* The two files that psi_to_share_2party_socketopt_fromfile leaves have a *)
(* line for every row of the intersection and none of the padding, in the  *)
(* order of new_ids.  The shares in them are integers, added without the   *)
(* modulus: their sum is the value where the host's share exceeds it, and  *)
(* the value less P elsewhere.                                             *)
FilesAlign ==
    (driver = "file" /\ cpc = "done" /\ hpc = "done") =>
        /\ Len(saved0) = Len(lastids) /\ Len(saved1) = Len(lastids)
        /\ \A k \in 1 .. Len(lastids) :
             LET line0 == saved0[k]
                 line1 == saved1[k]
             IN  /\ Xor(line0.label, line1.label) = clientLabels[index[lastids[k]]]
                 /\ \A f \in Features :
                      LET value == Data[f][newIds[k]]
                      IN  line0.features[f] + line1.features[f] =
                            IF line0.features[f] > value THEN value ELSE value - P

(* Every run of the two drivers ends, with no message left unread.         *)
BothReturn == <>[](cpc = "done" /\ hpc = "done" /\ toHost = << >> /\ toClient = << >>)

-----------------------------------------------------------------------------
(* The protocol implements data alignment: the join is fixed when the      *)
(* client has matched the host's answer, each output when its party has it *)
(* (for identifiers without common prefixes).                              *)
Matched == cpc \notin {"keys", "query", "response", "match"}
Output(labels, values) ==
    [labels |-> labels,
     features |-> [f \in Features |-> [k \in 1 .. Len(labels) |-> values[f][k] % P]]]

Abstract == INSTANCE Alignment WITH
    stage <- IF cpc = "done" THEN "both"
             ELSE IF hpc = "done" THEN "host"
             ELSE IF Matched THEN "joined" ELSE "start",
    joined <- IF Matched
                THEN [k \in DOMAIN lastids |->
                        [client |-> index[lastids[k]], host |-> newIdAndB1s[k].a]]
                ELSE << >>,
    hostOut <- IF hpc = "done" THEN Output(labelShares0, result0) ELSE << >>,
    clientOut <- IF cpc = "done" THEN Output(labelShares1, result1) ELSE << >>

ImplementsAlignment == Abstract!Spec
=============================================================================
