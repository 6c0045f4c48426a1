--------------------------------- MODULE Wire ---------------------------------
(***************************************************************************)
(* The messages of the alignment drivers, frame by frame (netio.h).  Every *)
(* socket.send writes one frame, and what a receiver reads next is decided *)
(* by its program alone: recv(x) takes a frame of exactly x's size,        *)
(* recvResize a frame of any size, and neither can see what the frame      *)
(* holds.  A vector's size travels ahead of it in a frame of its own.      *)
(*                                                                         *)
(* A process is the list of the send and receive calls of its driver; a    *)
(* frame is the field it carries and the number of its items.              *)
(***************************************************************************)
EXTENDS Integers, Sequences

CONSTANTS
    MaxIds,    \* bound: the client's and the host's largest identifier columns
    Capacities \* frames in flight in one direction before a send blocks

ASSUME WireAssumption == MaxIds \in Nat /\ Capacities \subseteq Nat \ {0}

Process == {"client", "host"}
Peer(p) == IF p = "client" THEN "host" ELSE "client"

\* "all": one key message; "staged": the keys of stage 2 are sent after
\* stage 1 (inter_ratio); "paillier": psi_to_share_paillier.h.
Schemes == {"all", "staged", "paillier"}

VARIABLES
    scheme, clientIds, hostIds,  \* the driver and the two columns' sizes
    capacity,  \* what the streams hold
    calls,     \* process |-> the calls it has left
    out,       \* process |-> the frames its current send has left
    want,      \* process |-> the frames its current receive has left
    inbox,     \* process |-> the stream it reads
    querySize  \* the host's size of the query it received

arguments == <<scheme, clientIds, hostIds, capacity>>
vars == <<arguments, calls, out, want, inbox, querySize>>

-----------------------------------------------------------------------------
(* The drivers.                                                            *)
Send(kind) == [op |-> "send", kind |-> kind]
Recv(kind) == [op |-> "recv", kind |-> kind]

ClientCalls(s) ==
    CASE s = "all" ->
           <<Send("pk"), Send("query"), Recv("response"), Send("lastids"),
             Send("bps_query"), Recv("bps_response")>>
      [] s = "staged" ->
           <<Send("pk_psi"), Send("query"), Recv("response"), Send("lastids"),
             Send("pk_bps"), Send("bps_query"), Recv("bps_response")>>
      [] s = "paillier" ->
           <<Send("paillier_pk"), Send("paillier_query"), Recv("paillier_response"),
             Send("lastids"), Send("bps_query"), Recv("bps_response")>>

\* Mutant: the host answers the first query after it has read the matches.
HostCallsAnswersLate(s) ==
    CASE s = "all" ->
           <<Recv("pk"), Recv("query"), Recv("lastids"), Send("response"),
             Recv("bps_query"), Send("bps_response")>>
      [] s = "staged" ->
           <<Recv("pk_psi"), Recv("query"), Recv("lastids"), Send("response"),
             Recv("pk_bps"), Recv("bps_query"), Send("bps_response")>>
      [] s = "paillier" ->
           <<Recv("paillier_pk"), Recv("paillier_query"), Recv("lastids"),
             Send("paillier_response"), Recv("bps_query"), Send("bps_response")>>

HostCalls(s) ==
    CASE s = "all" ->
           <<Recv("pk"), Recv("query"), Send("response"), Recv("lastids"),
             Recv("bps_query"), Send("bps_response")>>
      [] s = "staged" ->
           <<Recv("pk_psi"), Recv("query"), Send("response"), Recv("lastids"),
             Recv("pk_bps"), Recv("bps_query"), Send("bps_response")>>
      [] s = "paillier" ->
           <<Recv("paillier_pk"), Recv("paillier_query"), Send("paillier_response"),
             Recv("lastids"), Recv("bps_query"), Send("bps_response")>>

-----------------------------------------------------------------------------
(* What the send functions write.  The sizes frame carries its numbers.    *)
Frame(field, items) == [field |-> field, items |-> items, sizes |-> << >>]
SizesFrame(sizes) == [field |-> "sizes", items |-> Len(sizes), sizes |-> sizes]
Repeat(frame, k) == [i \in 1 .. k |-> frame]

\* The length of a serialised object; any number a vector does not have.
Text == -1

\* PK: a point pair and a string; the functions test for each part's stage.
KeyFrames(kind) ==
    CASE kind = "pk" -> <<Frame("psi_pk", 1), Frame("bps_pk", Text)>>
      [] kind = "pk_psi" -> <<Frame("psi_pk", 1)>>
      [] kind = "pk_bps" -> <<Frame("bps_pk", Text)>>
      [] kind = "paillier_pk" -> <<Frame("psi_pk", Text), Frame("bps_pk", Text)>>

BpsQueryFrames ==
    <<Frame("cipher_x_powers", Text), Frame("row_keepers", Text), Frame("col_keepers", Text)>>

Written(kind, n, h, m) ==
    CASE kind = "query" ->
           <<SizesFrame(<<n>>), Frame("EIDs", n), Frame("Elabels", n)>>
      [] kind = "paillier_query" ->
           <<SizesFrame(<<n>>), Frame("EIDs", n)>> \o Repeat(Frame("Elabel", Text), n)
      [] kind = "response" ->
           <<SizesFrame(<<h, n, n>>), Frame("ShortEIDs", h), Frame("EEIDs", n),
             Frame("R1Q1s", n)>>
      [] kind = "paillier_response" ->
           <<SizesFrame(<<h, n, n>>), Frame("ShortEIDs", h), Frame("EEIDs", n)>>
           \o Repeat(Frame("Elabel", Text), n)
      [] kind = "lastids" -> <<SizesFrame(<<m>>), Frame("lastids", m)>>
      [] kind = "bps_query" -> BpsQueryFrames
      [] kind = "bps_response" -> <<Frame("shares", Text)>>
      [] OTHER -> KeyFrames(kind)

\* What the receive functions ask for: up to the sizes, and after them.
SizesWanted(k, kind) == [field |-> "sizes", items |-> k, kind |-> kind]
Wanted(field, items) == [field |-> field, items |-> items, kind |-> ""]

KeysWanted(kind) ==
    CASE kind = "pk" -> <<Wanted("psi_pk", 1), Wanted("bps_pk", Text)>>
      [] kind = "pk_psi" -> <<Wanted("psi_pk", 1)>>
      [] kind = "pk_bps" -> <<Wanted("bps_pk", Text)>>
      [] kind = "paillier_pk" -> <<Wanted("psi_pk", Text), Wanted("bps_pk", Text)>>

FirstWanted(kind) ==
    CASE kind \in {"query", "paillier_query", "lastids"} -> <<SizesWanted(1, kind)>>
      [] kind \in {"response", "paillier_response"} -> <<SizesWanted(3, kind)>>
      [] kind = "bps_query" ->
           <<Wanted("cipher_x_powers", Text), Wanted("row_keepers", Text),
             Wanted("col_keepers", Text)>>
      [] kind = "bps_response" -> <<Wanted("shares", Text)>>
      [] OTHER -> KeysWanted(kind)

\* Mutant: the points are read before the short ones.
WantedAfterSwapped(kind, s) ==
    CASE kind = "query" -> <<Wanted("EIDs", s[1]), Wanted("Elabels", s[1])>>
      [] kind = "paillier_query" ->
           <<Wanted("EIDs", s[1])>> \o Repeat(Wanted("Elabel", Text), s[1])
      [] kind = "response" ->
           <<Wanted("EEIDs", s[2]), Wanted("ShortEIDs", s[1]), Wanted("R1Q1s", s[3])>>
      [] kind = "paillier_response" ->
           <<Wanted("ShortEIDs", s[1]), Wanted("EEIDs", s[2])>>
           \o Repeat(Wanted("Elabel", Text), s[3])
      [] kind = "lastids" -> <<Wanted("lastids", s[1])>>

WantedAfter(kind, s) ==
    CASE kind = "query" -> <<Wanted("EIDs", s[1]), Wanted("Elabels", s[1])>>
      [] kind = "paillier_query" ->
           <<Wanted("EIDs", s[1])>> \o Repeat(Wanted("Elabel", Text), s[1])
      [] kind = "response" ->
           <<Wanted("ShortEIDs", s[1]), Wanted("EEIDs", s[2]), Wanted("R1Q1s", s[3])>>
      [] kind = "paillier_response" ->
           <<Wanted("ShortEIDs", s[1]), Wanted("EEIDs", s[2])>>
           \o Repeat(Wanted("Elabel", Text), s[3])
      [] kind = "lastids" -> <<Wanted("lastids", s[1])>>

-----------------------------------------------------------------------------
Init ==
    /\ scheme \in Schemes
    /\ clientIds \in 1 .. MaxIds
    /\ hostIds \in 1 .. MaxIds
    /\ capacity \in Capacities
    /\ calls = [p \in Process |-> IF p = "client" THEN ClientCalls(scheme) ELSE HostCalls(scheme)]
    /\ out = [p \in Process |-> << >>]
    /\ want = [p \in Process |-> << >>]
    /\ inbox = [p \in Process |-> << >>]
    /\ querySize = 0

\* Mutant: a send is not waited for.
CallingUnawaited(p, op) ==
    /\ want[p] = << >>
    /\ calls[p] # << >>
    /\ Head(calls[p]).op = op

\* The next call of a process that has finished the one before.
Calling(p, op) ==
    /\ out[p] = << >>
    /\ want[p] = << >>
    /\ calls[p] # << >>
    /\ Head(calls[p]).op = op

\* A send call starts; the client has matched m of its identifiers.
BeginSend(p, m) ==
    /\ Calling(p, "send")
    /\ LET n == IF p = "client" THEN clientIds ELSE querySize
       IN  out' = [out EXCEPT ![p] = Written(Head(calls[p]).kind, n, hostIds, m)]
    /\ calls' = [calls EXCEPT ![p] = Tail(@)]
    /\ UNCHANGED <<arguments, want, inbox, querySize>>

WriteFrame(p) ==
    /\ out[p] # << >>
    /\ Len(inbox[Peer(p)]) < capacity
    /\ inbox' = [inbox EXCEPT ![Peer(p)] = Append(@, Head(out[p]))]
    /\ out' = [out EXCEPT ![p] = Tail(@)]
    /\ UNCHANGED <<arguments, calls, want, querySize>>

BeginRecv(p) ==
    /\ Calling(p, "recv")
    /\ want' = [want EXCEPT ![p] = FirstWanted(Head(calls[p]).kind)]
    /\ calls' = [calls EXCEPT ![p] = Tail(@)]
    /\ UNCHANGED <<arguments, out, inbox, querySize>>

\* Only the size of a frame can stop a recv that is not a recvResize.
Fits(frame, wanted) == wanted.items \in {Text, frame.items}

ReadFrame(p) ==
    /\ want[p] # << >>
    /\ inbox[p] # << >>
    /\ Fits(Head(inbox[p]), Head(want[p]))
    /\ inbox' = [inbox EXCEPT ![p] = Tail(@)]
    /\ LET w == Head(want[p])
           s == Head(inbox[p]).sizes
       IN  /\ want' = [want EXCEPT ![p] = IF w.field = "sizes" THEN WantedAfter(w.kind, s)
                                                               ELSE Tail(@)]
           /\ querySize' = IF w.kind \in {"query", "paillier_query"} THEN s[1] ELSE querySize
    /\ UNCHANGED <<arguments, calls, out>>

Ended == \A p \in Process : calls[p] = << >> /\ out[p] = << >> /\ want[p] = << >>
Finished == Ended /\ UNCHANGED vars

ProcessNext(p) ==
    \/ \E m \in 0 .. clientIds : BeginSend(p, m)
    \/ WriteFrame(p)
    \/ BeginRecv(p)
    \/ ReadFrame(p)

Next == (\E p \in Process : ProcessNext(p)) \/ Finished

(* Each process runs its driver; a blocked send or receive waits.          *)
Spec == Init /\ [][Next]_vars /\ \A p \in Process : WF_vars(ProcessNext(p))

-----------------------------------------------------------------------------
(* Type invariant: streams within the capacity, one call at a time.        *)
TypeOK ==
    /\ scheme \in Schemes
    /\ querySize \in 0 .. MaxIds
    /\ \A p \in Process :
         /\ Len(inbox[p]) <= capacity
         /\ out[p] = << >> \/ want[p] = << >>
         /\ Len(calls[p]) <= 7

(* Whatever is in flight, the frame a receiver takes next is the field it  *)
(* stores it in, with the size the sender's vector has: neither stage's    *)
(* keys, nor a label string, nor a vector is taken for another, although   *)
(* the receiver could not tell.                                            *)
FieldsAgree ==
    \A p \in Process :
        (want[p] # << >> /\ inbox[p] # << >>) =>
            LET got == Head(inbox[p]) asked == Head(want[p])
            IN  got.field = asked.field /\ got.items = asked.items

(* Both programs end, with every frame read, even when a send blocks until *)
(* the frame before it is taken.                                           *)
AllDelivered == <>(Ended /\ \A p \in Process : inbox[p] = << >>)
=============================================================================
