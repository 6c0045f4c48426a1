------------------------------ MODULE Alignment ------------------------------
(***************************************************************************)
(* What secure data alignment promises its two users: the host's and the   *)
(* client's tables are joined on the identifier, and every column of the   *)
(* join comes out as two shares, one per party, row by row in one order.   *)
(* A label bit is the xor of its shares, a feature value their sum mod P.  *)
(***************************************************************************)
EXTENDS Integers, Sequences

CONSTANTS HostRows, HostIds, Features, Data, P

VARIABLES
    clientIds, clientLabels,  \* the client's table; constant
    stage,                    \* "start", "joined", "host" or "both"
    joined,                   \* the join: pairs of a client and a host row
    hostOut, clientOut        \* the two outputs

vars == <<clientIds, clientLabels, stage, joined, hostOut, clientOut>>

Bit == {0, 1}
Value == 0 .. P - 1
Shares(len) == [labels : [1 .. len -> Bit], features : [Features -> [1 .. len -> Value]]]

\* j joins the tables: true pairs, each client row with a match once.
IsJoin(j) ==
    /\ \A k \in DOMAIN j : HostIds[j[k].host] = clientIds[j[k].client]
    /\ \A k, l \in DOMAIN j : j[k].client = j[l].client => k = l
    /\ \A c \in DOMAIN clientIds, h \in HostRows :
         clientIds[c] = HostIds[h] => \E k \in DOMAIN j : j[k].client = c

Reconstructs(a, b) ==
    \A k \in DOMAIN joined :
        /\ (a.labels[k] + b.labels[k]) % 2 = clientLabels[joined[k].client]
        /\ \A f \in Features :
             (a.features[f][k] + b.features[f][k]) % P = Data[f][joined[k].host]

Init ==
    /\ stage = "start"
    /\ joined = << >>
    /\ hostOut = << >>
    /\ clientOut = << >>

Join ==
    /\ stage = "start"
    /\ stage' = "joined"
    /\ IsJoin(joined')
    /\ UNCHANGED <<clientIds, clientLabels, hostOut, clientOut>>

HostOutput ==
    /\ stage = "joined"
    /\ stage' = "host"
    /\ hostOut' \in Shares(Len(joined))
    /\ UNCHANGED <<clientIds, clientLabels, joined, clientOut>>

ClientOutput ==
    /\ stage = "host"
    /\ stage' = "both"
    /\ clientOut' \in Shares(Len(joined))
    /\ Reconstructs(hostOut, clientOut')
    /\ UNCHANGED <<clientIds, clientLabels, joined, hostOut>>

Next == Join \/ HostOutput \/ ClientOutput

Spec == Init /\ [][Next]_vars
=============================================================================
