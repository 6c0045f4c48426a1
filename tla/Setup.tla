-------------------------------- MODULE Setup --------------------------------
(***************************************************************************)
(* How the two processes of a driver get connected.  The constructors of   *)
(* PSItoShareServer and PSItoShareClient each make two blocking calls of   *)
(* coproto::asioConnect; psi_to_share_2party_socketopt_fromfile first      *)
(* passes three numbers over short-lived connections to the same two       *)
(* addresses.  A process is the list of the calls it has left.             *)
(*                                                                         *)
(* asioConnect(a, true) opens an acceptor and waits for one connection,    *)
(* asioConnect(a, false) tries until an acceptor takes it: the scripts     *)
(* start the two processes without waiting for either.                     *)
(***************************************************************************)
EXTENDS Integers, Sequences

CONSTANT Drivers  \* among "count", "ratio" and "file"

VARIABLES
    driver,                  \* the driver function both processes run
    hostCalls, clientCalls,  \* the connection calls each process has left
    listening,               \* addresses with an open acceptor
    mail                     \* address |-> the connection not yet taken, if any

setupVars == <<driver, hostCalls, clientCalls, listening, mail>>

Addresses == {"client_address", "server_address"}
Topics == {"feature_num", "host_log_n_data", "batch_size", "socket"}

Connect(a, topic) == <<[op |-> "connect", at |-> a, topic |-> topic]>>
Serve(a, topic) == <<[op |-> "listen", at |-> a, topic |-> topic],
                     [op |-> "accept", at |-> a, topic |-> topic]>>

\* Mutant: the host passes its two numbers in the other order.
HostSetupSwapped ==
    (IF driver = "file"
       THEN Connect("client_address", "host_log_n_data")
            \o Connect("client_address", "feature_num")
            \o Serve("server_address", "batch_size")
       ELSE << >>)
    \o Connect("client_address", "socket")
    \o Serve("server_address", "socket")

HostSetup ==
    (IF driver = "file"
       THEN Connect("client_address", "feature_num")
            \o Connect("client_address", "host_log_n_data")
            \o Serve("server_address", "batch_size")
       ELSE << >>)
    \o Connect("client_address", "socket")
    \o Serve("server_address", "socket")

\* Mutant: the client connects before it listens, as the host does.
ClientSetupConnectsFirst ==
    (IF driver = "file"
       THEN Serve("client_address", "feature_num")
            \o Serve("client_address", "host_log_n_data")
            \o Connect("server_address", "batch_size")
       ELSE << >>)
    \o Connect("server_address", "socket")
    \o Serve("client_address", "socket")

ClientSetup ==
    (IF driver = "file"
       THEN Serve("client_address", "feature_num")
            \o Serve("client_address", "host_log_n_data")
            \o Connect("server_address", "batch_size")
       ELSE << >>)
    \o Serve("client_address", "socket")
    \o Connect("server_address", "socket")

SetupInit ==
    /\ driver \in Drivers
    /\ hostCalls = HostSetup
    /\ clientCalls = ClientSetup
    /\ listening = {}
    /\ mail = [a \in Addresses |-> << >>]

-----------------------------------------------------------------------------
(* The head of a process' calls.                                           *)
Calls(calls, op) == calls # << >> /\ Head(calls).op = op

\* A connection carries at most one number before it is closed.
DoConnect(calls, value) ==
    /\ Calls(calls, "connect")
    /\ Head(calls).at \in listening
    /\ listening' = listening \ {Head(calls).at}
    /\ mail' = [mail EXCEPT ![Head(calls).at] = <<value>>]

DoListen(calls) ==
    /\ Calls(calls, "listen")
    /\ Head(calls).at \notin listening
    /\ mail[Head(calls).at] = << >>
    /\ listening' = listening \cup {Head(calls).at}
    /\ mail' = mail

DoAccept(calls) ==
    /\ Calls(calls, "accept")
    /\ mail[Head(calls).at] # << >>
    /\ mail' = [mail EXCEPT ![Head(calls).at] = << >>]
    /\ listening' = listening

\* The number a DoAccept step takes, when its call is for this topic.
Taken(calls, topic, old) ==
    IF Head(calls).topic = topic THEN Head(mail[Head(calls).at]) ELSE old
=============================================================================
