-------------------------------- MODULE EcPsi --------------------------------
(***************************************************************************)
(* The private set intersection run by one process that owns both objects, *)
(* the way ec_psi_test.cpp and psi_to_share_test.cpp call them: each       *)
(* result is the next call's argument.  The same pair of objects may serve *)
(* several queries; ECPlayer1 keeps its answers from one to the next.      *)
(* ec_psi_test.cpp never calls set_public_key: the host then blinds with   *)
(* whatever the memory of zeros_cipherR and zeros_cipherQ holds.           *)
(***************************************************************************)
EXTENDS EcPlayers

CONSTANTS
    MaxBatch,   \* bound: the largest query
    MaxRounds   \* bound: how many queries the pair of objects serves

ASSUME RoundsAssumption == MaxBatch \in Nat /\ MaxRounds \in Nat

VARIABLES
    pc,         \* the caller's next call
    round,      \* queries made so far
    nData,      \* size of the current query
    ids,        \* its identifiers
    labels,     \* its labels
    query,      \* ECPSIQuery, once generated
    response,   \* ECPSIResponce, once generated
    shares0     \* the host's answer

playerVars == <<ecVars, pc, round, nData, ids, labels, query, response, shares0>>
callerVars == <<round, nData, ids, labels, query, response, shares0>>

PlayersInit ==
    /\ EcInit
    /\ pc = "pk"
    /\ round = 0
    /\ nData = 0
    /\ ids = << >>
    /\ labels = << >>
    /\ query = << >>
    /\ response = << >>
    /\ shares0 = << >>

LoadKey ==
    /\ pc = "pk"
    /\ pc' = "query"
    /\ SetPublicKey("client")
    /\ UNCHANGED callerVars

\* Points that are not valid are not added, others garble the labels.
SkipKey ==
    /\ pc = "pk"
    /\ pc' = "query"
    /\ \E k \in Key : SetPublicKey(k)
    /\ UNCHANGED callerVars

ClientQuery(m, ii, ll) ==
    /\ pc = "query"
    /\ round < MaxRounds
    /\ pc' = "respond"
    /\ round' = round + 1
    /\ nData' = m
    /\ ids' = ii
    /\ labels' = ll
    /\ query' = GenerateQuery(ii, ll, m)
    /\ UNCHANGED <<ecVars, response, shares0>>

HostRespond(ix, bits) ==
    /\ pc = "respond"
    /\ pc' = "begin"
    /\ GenerateResponse0(query, ix, bits)
    /\ response' = Response(query, ix, bits)
    /\ UNCHANGED <<round, nData, ids, labels, query, shares0>>

ClientBegin ==
    /\ pc = "begin"
    /\ pc' = "match"
    /\ BeginMatch
    /\ UNCHANGED callerVars

ClientMatch ==
    /\ pc = "match"
    /\ MatchRow(response)
    /\ UNCHANGED <<callerVars, pc>>

HostAnswer ==
    /\ pc = "match"
    /\ matchRow = response.n
    /\ pc' = "done"
    /\ shares0' = ReturnAnswer0(lastids)
    /\ UNCHANGED <<ecVars, round, nData, ids, labels, query, response>>

NextRound ==
    /\ pc = "done"
    /\ round < MaxRounds
    /\ pc' = "query"
    /\ UNCHANGED <<ecVars, callerVars>>

\* The caller stops after its last query.
PlayersFinished ==
    /\ pc = "done"
    /\ round = MaxRounds
    /\ UNCHANGED playerVars

PlayersNext ==
    \/ LoadKey
    \/ SkipKey
    \/ \E m \in 1 .. MaxBatch :
         \E ii \in [Rows(m) -> Ids], ll \in [Rows(m) -> Bit] : ClientQuery(m, ii, ll)
    \/ \E ix \in Shuffles(nData), bits \in [Rows(nData) -> Bit] : HostRespond(ix, bits)
    \/ ClientBegin
    \/ ClientMatch
    \/ HostAnswer
    \/ NextRound
    \/ PlayersFinished

PlayersSpec == PlayersInit /\ [][PlayersNext]_playerVars

-----------------------------------------------------------------------------
(* Type invariant: every vector has the type and the length its calls give *)
(* it.                                                                     *)
PlayersTypeOK ==
    /\ zeros \in Key
    /\ pc \in {"pk", "query", "respond", "begin", "match", "done"}
    /\ round \in Nat
    /\ nData \in Nat
    /\ pc \in {"respond", "begin", "match", "done"} =>
          /\ ids \in [Rows(nData) -> Ids]
          /\ labels \in [Rows(nData) -> Bit]
          /\ query = GenerateQuery(ids, labels, nData)
    /\ pc \in {"begin", "match", "done"} =>
          /\ index \in Shuffles(nData)
          /\ b0s \in [Rows(nData) -> Bit]
    /\ matchRow \in Nat
    /\ lastids \in Seq(Nat)
    /\ newIdAndB1s \in Seq([a : HostRows, b : Bit])

\* The entries ECPlayer1 held before the current query's loop.
Base == Len(newIdAndB1s) - Len(lastids)

\* The client row behind the k-th matched row of the current query.
ClientRow(k) == index[lastids[k]]

\* A client row and a host row whose encrypted identifiers have one prefix.
SameTag(c, h) == ShortOf[ids[c]] = ShortOf[HostIds[h]]

(* The two bit vectors the parties keep are shares of the matched rows'    *)
(* labels: the host's k-th bit and the client's k-th answer of this query  *)
(* xor to the label of one client row, and the client's new_id is a host   *)
(* row of that same client row (ec_psi.h, both generate_response and       *)
(* return_answer), whatever the shuffle and the random bits were.  Without *)
(* the client's key the bits may be noise, but of the same rows.           *)
SharesAlign ==
    pc = "done" =>
        /\ Len(shares0) = Len(lastids)
        /\ Len(newIdAndB1s) >= Len(lastids)
        /\ \A k \in 1 .. Len(lastids) :
             /\ zeros = "client" =>
                  Xor(shares0[k], newIdAndB1s[Base + k].b) = labels[ClientRow(k)]
             /\ SameTag(ClientRow(k), newIdAndB1s[Base + k].a)

(* The loop over the shuffled rows reports each client row that has a      *)
(* match once, and no other.                                               *)
EveryMatchOnce ==
    pc = "done" =>
        \A c \in Rows(nData) :
            LET reported == {k \in 1 .. Len(lastids) : ClientRow(k) = c}
            IN  IF \E h \in HostRows : SameTag(c, h)
                  THEN \E k \in reported : reported = {k}
                  ELSE reported = {}

(* A reported row whose prefix no other identifier of the host has is a    *)
(* true match, whatever the other rows collide with.                       *)
TrueMatches ==
    pc = "done" =>
        \A k \in 1 .. Len(lastids) :
            (\A h \in HostRows : SameTag(ClientRow(k), h) => HostIds[h] = ids[ClientRow(k)]) =>
                HostIds[newIdAndB1s[Base + k].a] = ids[ClientRow(k)]
=============================================================================
