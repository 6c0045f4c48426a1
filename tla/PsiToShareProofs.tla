-------------------------- MODULE PsiToShareProofs --------------------------
(***************************************************************************)
(* PsiToShare for every host table, client table, modulus and driver: the  *)
(* order of the messages, the sizes of stage 2, the outputs of both        *)
(* parties, the files, and that the protocol implements Alignment.         *)
(*                                                                         *)
(* The inductive invariant PairInv has its layers in the order in which    *)
(* they are proved, each kept by every step from the ones before it: the   *)
(* connection calls (SetupInv), what is in the streams (FlowInv), the      *)
(* intersection (JoinInv), the rows of stage 2 (RowsInv), and what the     *)
(* host and the client hold (HostSharesInv, ClientSharesInv).              *)
(*                                                                         *)
(* At the end EcPsi, the players under the environment of the tests, for   *)
(* every host table, prefix function, query and number of rounds. Its      *)
(* invariant PlayersInv rests on the same lemma about the matching loop    *)
(* (MatchRowAligned).                                                      *)
(***************************************************************************)
EXTENDS PsiToShare, EcPsi, EcPlayersProofs

-----------------------------------------------------------------------------
(* Setting up.                                                             *)

\* A process has done the first i calls of its plan.
Does(calls, plan, i) ==
    /\ DOMAIN calls = 1 .. Len(plan) - i
    /\ Len(calls) = Len(plan) - i
    /\ \A k \in 1 .. Len(plan) - i : calls[k] = plan[i + k]

Call == [op : {"connect", "listen", "accept"}, at : Addresses, topic : Topics]

(* The head and the rest of the calls a process has left.                  *)
LEMMA NextCall ==
    ASSUME NEW calls \in Seq(Call), NEW plan \in Seq(Call), NEW i \in 0 .. Len(plan),
           Does(calls, plan, i)
    PROVE  /\ calls # << >> <=> i < Len(plan)
           /\ calls # << >> => /\ Head(calls) = plan[i + 1]
                               /\ Tail(calls) \in Seq(Call)
                               /\ Does(Tail(calls), plan, i + 1)
<1>1. calls # << >> <=> Len(calls) > 0
    BY EmptySeq, LenProperties
<1>2. Len(plan) \in Nat /\ Len(calls) = Len(plan) - i
    BY DEF Does
<1>3. calls # << >> <=> i < Len(plan)
    BY <1>1, <1>2
<1>4. CASE calls # << >>
    <2>1. /\ Tail(calls) \in Seq(Call)
          /\ Len(Tail(calls)) = Len(calls) - 1
          /\ \A k \in 1 .. Len(Tail(calls)) : Tail(calls)[k] = calls[k + 1]
          /\ Head(calls) = calls[1]
        BY <1>4, HeadTailProperties
    <2>2. Head(calls) = plan[i + 1]
        BY <1>2, <1>3, <1>4, <2>1 DEF Does
    <2>3. Does(Tail(calls), plan, i + 1)
        <3>1. Len(Tail(calls)) = Len(plan) - (i + 1)
            BY <1>2, <2>1
        <3>2. DOMAIN Tail(calls) = 1 .. Len(plan) - (i + 1)
            BY <2>1, <3>1
        <3>3. ASSUME NEW k \in 1 .. Len(plan) - (i + 1)
              PROVE  Tail(calls)[k] = plan[(i + 1) + k]
            <4>1. k + 1 \in 1 .. Len(plan) - i /\ i + (k + 1) = (i + 1) + k
                BY <1>2
            <4> QED BY <2>1, <3>1, <4>1 DEF Does
        <3> QED BY <3>1, <3>2, <3>3 DEF Does
    <2> QED BY <1>3, <1>4, <2>1, <2>2, <2>3
<1> QED BY <1>3, <1>4

(* The plans of both processes of the "file" driver.                       *)
LEMMA FilePlans ==
    ASSUME driver = "file"
    PROVE  /\ HostSetup \in Seq(Call) /\ Len(HostSetup) = 7
           /\ HostSetup[1] = [op |-> "connect", at |-> "client_address", topic |-> "feature_num"]
           /\ HostSetup[2] = [op |-> "connect", at |-> "client_address", topic |-> "host_log_n_data"]
           /\ HostSetup[3] = [op |-> "listen", at |-> "server_address", topic |-> "batch_size"]
           /\ HostSetup[4] = [op |-> "accept", at |-> "server_address", topic |-> "batch_size"]
           /\ HostSetup[5] = [op |-> "connect", at |-> "client_address", topic |-> "socket"]
           /\ HostSetup[6] = [op |-> "listen", at |-> "server_address", topic |-> "socket"]
           /\ HostSetup[7] = [op |-> "accept", at |-> "server_address", topic |-> "socket"]
           /\ ClientSetup \in Seq(Call) /\ Len(ClientSetup) = 8
           /\ ClientSetup[1] = [op |-> "listen", at |-> "client_address", topic |-> "feature_num"]
           /\ ClientSetup[2] = [op |-> "accept", at |-> "client_address", topic |-> "feature_num"]
           /\ ClientSetup[3] = [op |-> "listen", at |-> "client_address", topic |-> "host_log_n_data"]
           /\ ClientSetup[4] = [op |-> "accept", at |-> "client_address", topic |-> "host_log_n_data"]
           /\ ClientSetup[5] = [op |-> "connect", at |-> "server_address", topic |-> "batch_size"]
           /\ ClientSetup[6] = [op |-> "listen", at |-> "client_address", topic |-> "socket"]
           /\ ClientSetup[7] = [op |-> "accept", at |-> "client_address", topic |-> "socket"]
           /\ ClientSetup[8] = [op |-> "connect", at |-> "server_address", topic |-> "socket"]
<1> DEFINE C(a, t) == [op |-> "connect", at |-> a, topic |-> t]
           L(a, t) == [op |-> "listen", at |-> a, topic |-> t]
           A(a, t) == [op |-> "accept", at |-> a, topic |-> t]
<1>1. ASSUME NEW a \in Addresses, NEW t \in Topics
      PROVE  C(a, t) \in Call /\ L(a, t) \in Call /\ A(a, t) \in Call
    BY DEF Call
<1>2. "client_address" \in Addresses /\ "server_address" \in Addresses
    BY DEF Addresses
<1>3. "feature_num" \in Topics /\ "host_log_n_data" \in Topics /\ "batch_size" \in Topics /\ "socket" \in Topics
    BY DEF Topics
<1>4. HostSetup =
        (<<C("client_address", "feature_num")>> \o <<C("client_address", "host_log_n_data")>>
         \o <<L("server_address", "batch_size"), A("server_address", "batch_size")>>)
        \o <<C("client_address", "socket")>>
        \o <<L("server_address", "socket"), A("server_address", "socket")>>
    BY DEF HostSetup, Connect, Serve
<1>5. ClientSetup =
        (<<L("client_address", "feature_num"), A("client_address", "feature_num")>>
         \o <<L("client_address", "host_log_n_data"), A("client_address", "host_log_n_data")>>
         \o <<C("server_address", "batch_size")>>)
        \o <<L("client_address", "socket"), A("client_address", "socket")>>
        \o <<C("server_address", "socket")>>
    BY DEF ClientSetup, Connect, Serve
<1> HIDE DEF C, L, A
<1>6. ASSUME NEW h1 \in Call, NEW h2 \in Call, NEW h3 \in Call, NEW h4 \in Call,
             NEW h5 \in Call, NEW h6 \in Call, NEW h7 \in Call, NEW h8 \in Call
      PROVE  LET s == (<<h1>> \o <<h2>> \o <<h3, h4>>) \o <<h5>> \o <<h6, h7>>
                 t == (<<h1, h2>> \o <<h3, h4>> \o <<h5>>) \o <<h6, h7>> \o <<h8>>
             IN  /\ s \in Seq(Call) /\ Len(s) = 7
                 /\ s[1] = h1 /\ s[2] = h2 /\ s[3] = h3 /\ s[4] = h4 /\ s[5] = h5 /\ s[6] = h6 /\ s[7] = h7
                 /\ t \in Seq(Call) /\ Len(t) = 8
                 /\ t[1] = h1 /\ t[2] = h2 /\ t[3] = h3 /\ t[4] = h4 /\ t[5] = h5 /\ t[6] = h6 /\ t[7] = h7
                 /\ t[8] = h8
    OBVIOUS
<1>7. /\ HostSetup \in Seq(Call) /\ Len(HostSetup) = 7
      /\ HostSetup[1] = C("client_address", "feature_num")
      /\ HostSetup[2] = C("client_address", "host_log_n_data")
      /\ HostSetup[3] = L("server_address", "batch_size")
      /\ HostSetup[4] = A("server_address", "batch_size")
      /\ HostSetup[5] = C("client_address", "socket")
      /\ HostSetup[6] = L("server_address", "socket")
      /\ HostSetup[7] = A("server_address", "socket")
    BY <1>1, <1>2, <1>3, <1>4, <1>6
<1>8. /\ ClientSetup \in Seq(Call) /\ Len(ClientSetup) = 8
      /\ ClientSetup[1] = L("client_address", "feature_num")
      /\ ClientSetup[2] = A("client_address", "feature_num")
      /\ ClientSetup[3] = L("client_address", "host_log_n_data")
      /\ ClientSetup[4] = A("client_address", "host_log_n_data")
      /\ ClientSetup[5] = C("server_address", "batch_size")
      /\ ClientSetup[6] = L("client_address", "socket")
      /\ ClientSetup[7] = A("client_address", "socket")
      /\ ClientSetup[8] = C("server_address", "socket")
    BY <1>1, <1>2, <1>3, <1>5, <1>6
<1> QED BY <1>7, <1>8 DEF C, L, A

\* Connections each process has made at the other's address, and has taken
\* at its own, after so many calls of the "file" driver.
HostConnects(i) == IF i < 1 THEN 0 ELSE IF i < 2 THEN 1 ELSE IF i < 5 THEN 2 ELSE 3
HostAccepts(i) == IF i < 4 THEN 0 ELSE IF i < 7 THEN 1 ELSE 2
ClientAccepts(j) == IF j < 2 THEN 0 ELSE IF j < 4 THEN 1 ELSE IF j < 7 THEN 2 ELSE 3
ClientConnects(j) == IF j < 5 THEN 0 ELSE IF j < 8 THEN 1 ELSE 2
HostValue(k) == IF k = 1 THEN FeatureNum ELSE IF k = 2 THEN HostLog ELSE 0

\* A connection made and not yet taken carries the value its maker passed.
Carries(a, made, taken, value) ==
    \/ made = taken /\ mail[a] = << >>
    \/ made = taken + 1 /\ mail[a] = <<value>>

(* The processes have made i and j calls; what each has taken is what the  *)
(* other passed for the same number.                                       *)
Met(i, j) ==
    /\ Does(hostCalls, HostSetup, i)
    /\ Does(clientCalls, ClientSetup, j)
    /\ Carries("client_address", HostConnects(i), ClientAccepts(j), HostValue(HostConnects(i)))
    /\ Carries("server_address", ClientConnects(j), HostAccepts(i), n)
    /\ j >= 2 => features = FeatureNum
    /\ j >= 4 => rows = HostN
    /\ i >= 4 => batchH = n

SetupInv ==
    /\ driver \in {"count", "ratio", "file"}
    /\ hostCalls \in Seq(Call)
    /\ clientCalls \in Seq(Call)
    /\ DOMAIN mail = Addresses
    /\ \A a \in Addresses : a \in listening => mail[a] = << >>
    /\ driver # "file" =>
          /\ features = FeatureNum
          /\ rows = HostN
          /\ \A k \in 1 .. Len(hostCalls) : hostCalls[k].topic = "socket"
          /\ \A k \in 1 .. Len(clientCalls) : clientCalls[k].topic = "socket"
    /\ driver = "file" => \E i \in 0 .. 7, j \in 0 .. 8 : Met(i, j)
    /\ driver = "count" => batchH = n
    /\ driver # "ratio" => cpc # "bps keys" /\ hpc # "bps keys" /\ batchC = n
    /\ cpc # "keys" => clientCalls = << >>
    /\ hpc # "keys" => hostCalls = << >>

(* The calls of the other drivers are for the sockets.                     *)
LEMMA SocketPlans ==
    ASSUME driver # "file"
    PROVE  /\ HostSetup \in Seq(Call) /\ ClientSetup \in Seq(Call)
           /\ \A k \in 1 .. Len(HostSetup) : HostSetup[k].topic = "socket"
           /\ \A k \in 1 .. Len(ClientSetup) : ClientSetup[k].topic = "socket"
<1> DEFINE C(a) == [op |-> "connect", at |-> a, topic |-> "socket"]
           L(a) == [op |-> "listen", at |-> a, topic |-> "socket"]
           A(a) == [op |-> "accept", at |-> a, topic |-> "socket"]
<1>1. ASSUME NEW a \in Addresses
      PROVE  /\ C(a) \in Call /\ L(a) \in Call /\ A(a) \in Call
             /\ C(a).topic = "socket" /\ L(a).topic = "socket" /\ A(a).topic = "socket"
    BY DEF Call, Topics
<1>2. "client_address" \in Addresses /\ "server_address" \in Addresses
    BY DEF Addresses
<1>3. /\ HostSetup = << >> \o <<C("client_address")>> \o <<L("server_address"), A("server_address")>>
      /\ ClientSetup = << >> \o <<L("client_address"), A("client_address")>> \o <<C("server_address")>>
    BY DEF HostSetup, ClientSetup, Connect, Serve
<1> HIDE DEF C, L, A
<1>4. ASSUME NEW c \in Call, NEW d \in Call, NEW e \in Call
      PROVE  /\ << >> \o <<c>> \o <<d, e>> \in Seq(Call)
             /\ << >> \o <<d, e>> \o <<c>> \in Seq(Call)
             /\ Len(<< >> \o <<c>> \o <<d, e>>) = 3
             /\ Len(<< >> \o <<d, e>> \o <<c>>) = 3
             /\ \A k \in 1 .. 3 : (<< >> \o <<c>> \o <<d, e>>)[k] \in {c, d, e}
             /\ \A k \in 1 .. 3 : (<< >> \o <<d, e>> \o <<c>>)[k] \in {c, d, e}
    OBVIOUS
<1> QED BY <1>1, <1>2, <1>3, <1>4

(* Before any call both processes have their whole plan ahead.             *)
LEMMA SetupInitially == Init => SetupInv
<1> SUFFICES ASSUME Init PROVE SetupInv
    OBVIOUS
<1>1. driver \in {"count", "ratio", "file"}
    BY DriverAssumption DEF Init, SetupInit
<1>2. hostCalls \in Seq(Call) /\ clientCalls \in Seq(Call)
    BY FilePlans, SocketPlans DEF Init, SetupInit
<1>3. DOMAIN mail = Addresses /\ \A a \in Addresses : a \in listening => mail[a] = << >>
    BY DEF Init, SetupInit
<1>4. driver # "file" =>
          /\ \A k \in 1 .. Len(hostCalls) : hostCalls[k].topic = "socket"
          /\ \A k \in 1 .. Len(clientCalls) : clientCalls[k].topic = "socket"
    BY SocketPlans DEF Init, SetupInit
<1>5. ASSUME driver = "file" PROVE Met(0, 0)
    <2>1. /\ HostSetup \in Seq(Call) /\ Len(HostSetup) = 7
          /\ ClientSetup \in Seq(Call) /\ Len(ClientSetup) = 8
          /\ hostCalls = HostSetup /\ clientCalls = ClientSetup
        BY <1>5, FilePlans DEF Init, SetupInit
    <2>2. Does(hostCalls, HostSetup, 0) /\ Does(clientCalls, ClientSetup, 0)
        BY <2>1, LenProperties DEF Does
    <2>3. mail["client_address"] = << >> /\ mail["server_address"] = << >>
        BY DEF Init, SetupInit, Addresses
    <2> QED BY <2>2, <2>3 DEF Met, Carries, HostConnects, HostAccepts, ClientAccepts, ClientConnects
<1>6. driver # "file" => features = FeatureNum /\ rows = HostN /\ batchH = n
    BY DEF Init
<1>7. cpc = "keys" /\ hpc = "keys" /\ batchC = n
    BY DEF Init
<1> QED BY <1>1, <1>2, <1>3, <1>4, <1>5, <1>6, <1>7 DEF SetupInv

(* A connection call of the host keeps the invariant.                      *)
LEMMA HostSetUpKeeps == SetupInv /\ HostSetUp => SetupInv'
<1> SUFFICES ASSUME SetupInv, HostSetUp PROVE SetupInv'
    OBVIOUS
<1>1. /\ UNCHANGED <<driver, n, features, rows, clientCalls, cpc, hpc, batchC>>
      /\ hostCalls' = Tail(hostCalls)
    BY DEF HostSetUp, clientVars
<1>2. hostCalls # << >>
    BY DEF HostSetUp, DoConnect, DoListen, DoAccept, Calls
<1>3. HostSetup' = HostSetup /\ ClientSetup' = ClientSetup
    BY <1>1 DEF HostSetup, ClientSetup
<1>4. /\ hostCalls' \in Seq(Call)
      /\ Len(hostCalls') = Len(hostCalls) - 1
      /\ \A k \in 1 .. Len(hostCalls') : hostCalls'[k] = hostCalls[k + 1]
      /\ Head(hostCalls) = hostCalls[1]
      /\ Len(hostCalls) \in Nat /\ Len(hostCalls) >= 1
    <2>1. hostCalls \in Seq(Call)
        BY DEF SetupInv
    <2>2. Len(hostCalls) \in Nat /\ Len(hostCalls) >= 1
        BY <1>2, <2>1, LenProperties, EmptySeq
    <2> QED BY <1>1, <1>2, <2>1, <2>2, HeadTailProperties
<1>5. /\ DOMAIN mail' = Addresses
      /\ \A a \in Addresses : a \in listening' => mail'[a] = << >>
    <2>1. Head(hostCalls).at \in Addresses
        <3>1. hostCalls \in Seq(Call)
            BY DEF SetupInv
        <3>2. Head(hostCalls) \in Call
            BY <1>4, <3>1, ElementOfSeq
        <3> QED BY <3>2 DEF Call
    <2>2. CASE DoConnect(hostCalls, HostNumber[Head(hostCalls).topic])
        BY <2>1, <2>2 DEF DoConnect, SetupInv
    <2>3. CASE DoListen(hostCalls)
        BY <2>1, <2>3 DEF DoListen, SetupInv
    <2>4. CASE DoAccept(hostCalls)
        BY <2>1, <2>4 DEF DoAccept, SetupInv
    <2> QED BY <2>2, <2>3, <2>4 DEF HostSetUp
<1>6. driver # "file" =>
          /\ \A k \in 1 .. Len(hostCalls') : hostCalls'[k].topic = "socket"
          /\ batchH' = batchH
    <2> SUFFICES ASSUME driver # "file"
                 PROVE  /\ \A k \in 1 .. Len(hostCalls') : hostCalls'[k].topic = "socket"
                        /\ batchH' = batchH
        OBVIOUS
    <2>1. \A k \in 1 .. Len(hostCalls) : hostCalls[k].topic = "socket"
        BY DEF SetupInv
    <2>2. Head(hostCalls).topic = "socket"
        BY <1>4, <2>1
    <2> QED BY <1>4, <2>1, <2>2 DEF HostSetUp, Taken
<1>7. driver = "file" => \E i \in 0 .. 7, j \in 0 .. 8 : Met(i, j)'
    <2> SUFFICES ASSUME driver = "file" PROVE \E i \in 0 .. 7, j \in 0 .. 8 : Met(i, j)'
        OBVIOUS
    <2>1. PICK i \in 0 .. 7, j \in 0 .. 8 : Met(i, j)
        BY DEF SetupInv
    <2>2. HostSetup \in Seq(Call) /\ Len(HostSetup) = 7
        BY FilePlans
    <2>3. /\ i < 7
          /\ Head(hostCalls) = HostSetup[i + 1]
          /\ Does(Tail(hostCalls), HostSetup, i + 1)
        <3>1. hostCalls \in Seq(Call) /\ Does(hostCalls, HostSetup, i)
            BY <2>1 DEF Met, SetupInv
        <3>2. i \in 0 .. Len(HostSetup)
            BY <2>2
        <3>3. /\ hostCalls # << >> <=> i < Len(HostSetup)
              /\ hostCalls # << >> => /\ Head(hostCalls) = HostSetup[i + 1]
                                     /\ Does(Tail(hostCalls), HostSetup, i + 1)
            BY <2>2, <3>1, <3>2, NextCall
        <3> QED BY <1>2, <2>2, <3>3
    <2>4. Does(hostCalls, HostSetup, i + 1)' /\ Does(clientCalls, ClientSetup, j)'
        BY <1>1, <1>3, <2>1, <2>3 DEF Met, Does
    <2>5. /\ Carries("client_address", HostConnects(i + 1), ClientAccepts(j), HostValue(HostConnects(i + 1)))'
          /\ Carries("server_address", ClientConnects(j), HostAccepts(i + 1), n)'
          /\ i + 1 >= 4 => batchH' = n
        <3>0. /\ "client_address" \in Addresses /\ "server_address" \in Addresses
              /\ DOMAIN mail = Addresses
            BY DEF Addresses, SetupInv
        <3>1. CASE i \in {0, 1, 4}
            <4>1. /\ Head(hostCalls).op = "connect" /\ Head(hostCalls).at = "client_address"
                  /\ HostNumber[Head(hostCalls).topic] = HostValue(HostConnects(i + 1))
                BY <2>3, <3>1, FilePlans DEF HostNumber, HostValue, HostConnects
            <4>2. /\ "client_address" \in listening
                  /\ mail' = [mail EXCEPT !["client_address"] = <<HostValue(HostConnects(i + 1))>>]
                  /\ batchH' = batchH
                BY <4>1 DEF HostSetUp, DoConnect, DoListen, DoAccept, Calls
            <4>3. mail["client_address"] = << >>
                BY <3>0, <4>2 DEF SetupInv
            <4>4. mail'["server_address"] = mail["server_address"]
                BY <3>0, <4>2
            <4>5. mail'["client_address"] = <<HostValue(HostConnects(i + 1))>>
                BY <3>0, <4>2
            <4>6. /\ HostConnects(i) = ClientAccepts(j)
                  /\ HostConnects(i + 1) = HostConnects(i) + 1
                  /\ HostAccepts(i + 1) = HostAccepts(i)
                  /\ i + 1 >= 4 => i >= 4
                BY <2>1, <3>1, <4>3 DEF Met, Carries, HostConnects, HostAccepts
            <4> QED BY <1>1, <2>1, <4>2, <4>4, <4>5, <4>6 DEF Met, Carries
        <3>2. CASE i \in {2, 5}
            <4>1. Head(hostCalls).op = "listen"
                BY <2>3, <3>2, FilePlans
            <4>2. mail' = mail /\ batchH' = batchH
                BY <4>1 DEF HostSetUp, DoConnect, DoListen, DoAccept, Calls
            <4>3. /\ HostConnects(i + 1) = HostConnects(i)
                  /\ HostAccepts(i + 1) = HostAccepts(i)
                  /\ i + 1 >= 4 => i >= 4
                BY <3>2 DEF HostConnects, HostAccepts
            <4> QED BY <1>1, <2>1, <4>2, <4>3 DEF Met, Carries
        <3>3. CASE i \in {3, 6}
            <4>1. /\ Head(hostCalls).op = "accept" /\ Head(hostCalls).at = "server_address"
                  /\ Head(hostCalls).topic = IF i = 3 THEN "batch_size" ELSE "socket"
                BY <2>3, <3>3, FilePlans
            <4>2. /\ mail["server_address"] # << >>
                  /\ mail' = [mail EXCEPT !["server_address"] = << >>]
                  /\ batchH' = IF i = 3 THEN Head(mail["server_address"]) ELSE batchH
                BY <4>1 DEF HostSetUp, DoConnect, DoListen, DoAccept, Calls, Taken
            <4>3. /\ mail["server_address"] = <<n>>
                  /\ ClientConnects(j) = HostAccepts(i) + 1
                BY <2>1, <4>2 DEF Met, Carries
            <4>4. Head(mail["server_address"]) = n
                BY <4>3
            <4>5. mail'["server_address"] = << >> /\ mail'["client_address"] = mail["client_address"]
                BY <3>0, <4>2
            <4>6. /\ HostConnects(i + 1) = HostConnects(i)
                  /\ HostAccepts(i + 1) = HostAccepts(i) + 1
                  /\ i # 3 => i >= 4
                BY <3>3 DEF HostConnects, HostAccepts
            <4> QED BY <1>1, <2>1, <4>2, <4>3, <4>4, <4>5, <4>6 DEF Met, Carries
        <3> QED BY <2>3, <3>1, <3>2, <3>3
    <2>6. i + 1 \in 0 .. 7
        BY <2>3
    <2>7. Met(i + 1, j)'
        BY <1>1, <2>1, <2>4, <2>5 DEF Met
    <2> QED BY <2>6, <2>7
<1>8. hpc = "keys"
    BY <1>2 DEF SetupInv
<1> QED BY <1>1, <1>4, <1>5, <1>6, <1>7, <1>8 DEF SetupInv

(* And so does one of the client.                                          *)
LEMMA ClientSetUpKeeps == SetupInv /\ ClientSetUp => SetupInv'
<1> SUFFICES ASSUME SetupInv, ClientSetUp PROVE SetupInv'
    OBVIOUS
<1>1. /\ UNCHANGED <<driver, n, hostCalls, cpc, hpc, batchC, batchH>>
      /\ clientCalls' = Tail(clientCalls)
    BY DEF ClientSetUp, clientVars, hostVars
<1>2. clientCalls # << >>
    BY DEF ClientSetUp, DoConnect, DoListen, DoAccept, Calls
<1>3. HostSetup' = HostSetup /\ ClientSetup' = ClientSetup
    BY <1>1 DEF HostSetup, ClientSetup
<1>4. /\ clientCalls' \in Seq(Call)
      /\ Len(clientCalls') = Len(clientCalls) - 1
      /\ \A k \in 1 .. Len(clientCalls') : clientCalls'[k] = clientCalls[k + 1]
      /\ Head(clientCalls) = clientCalls[1]
      /\ Len(clientCalls) \in Nat /\ Len(clientCalls) >= 1
    <2>1. clientCalls \in Seq(Call)
        BY DEF SetupInv
    <2>2. Len(clientCalls) \in Nat /\ Len(clientCalls) >= 1
        BY <1>2, <2>1, LenProperties, EmptySeq
    <2> QED BY <1>1, <1>2, <2>1, <2>2, HeadTailProperties
<1>5. /\ DOMAIN mail' = Addresses
      /\ \A a \in Addresses : a \in listening' => mail'[a] = << >>
    <2>1. Head(clientCalls).at \in Addresses
        <3>1. clientCalls \in Seq(Call)
            BY DEF SetupInv
        <3>2. Head(clientCalls) \in Call
            BY <1>4, <3>1, ElementOfSeq
        <3> QED BY <3>2 DEF Call
    <2>2. CASE DoConnect(clientCalls, batchC)
        BY <2>1, <2>2 DEF DoConnect, SetupInv
    <2>3. CASE DoListen(clientCalls)
        BY <2>1, <2>3 DEF DoListen, SetupInv
    <2>4. CASE DoAccept(clientCalls)
        BY <2>1, <2>4 DEF DoAccept, SetupInv
    <2> QED BY <2>2, <2>3, <2>4 DEF ClientSetUp
<1>6. driver # "file" =>
          /\ \A k \in 1 .. Len(clientCalls') : clientCalls'[k].topic = "socket"
          /\ features' = features /\ rows' = rows
    <2> SUFFICES ASSUME driver # "file"
                 PROVE  /\ \A k \in 1 .. Len(clientCalls') : clientCalls'[k].topic = "socket"
                        /\ features' = features /\ rows' = rows
        OBVIOUS
    <2>1. \A k \in 1 .. Len(clientCalls) : clientCalls[k].topic = "socket"
        BY DEF SetupInv
    <2>2. Head(clientCalls).topic = "socket"
        BY <1>4, <2>1
    <2> QED BY <1>4, <2>1, <2>2 DEF ClientSetUp, Taken
<1>7. driver = "file" => \E i \in 0 .. 7, j \in 0 .. 8 : Met(i, j)'
    <2> SUFFICES ASSUME driver = "file" PROVE \E i \in 0 .. 7, j \in 0 .. 8 : Met(i, j)'
        OBVIOUS
    <2>1. PICK i \in 0 .. 7, j \in 0 .. 8 : Met(i, j)
        BY DEF SetupInv
    <2>2. ClientSetup \in Seq(Call) /\ Len(ClientSetup) = 8 /\ batchC = n
        BY FilePlans DEF SetupInv
    <2>3. /\ j < 8
          /\ Head(clientCalls) = ClientSetup[j + 1]
          /\ Does(Tail(clientCalls), ClientSetup, j + 1)
        <3>1. clientCalls \in Seq(Call) /\ Does(clientCalls, ClientSetup, j)
            BY <2>1 DEF Met, SetupInv
        <3>2. j \in 0 .. Len(ClientSetup)
            BY <2>2
        <3>3. /\ clientCalls # << >> <=> j < Len(ClientSetup)
              /\ clientCalls # << >> => /\ Head(clientCalls) = ClientSetup[j + 1]
                                       /\ Does(Tail(clientCalls), ClientSetup, j + 1)
            BY <2>2, <3>1, <3>2, NextCall
        <3> QED BY <1>2, <2>2, <3>3
    <2>4. Does(hostCalls, HostSetup, i)' /\ Does(clientCalls, ClientSetup, j + 1)'
        BY <1>1, <1>3, <2>1, <2>3 DEF Met, Does
    <2>5. /\ Carries("client_address", HostConnects(i), ClientAccepts(j + 1), HostValue(HostConnects(i)))'
          /\ Carries("server_address", ClientConnects(j + 1), HostAccepts(i), n)'
          /\ j + 1 >= 2 => features' = FeatureNum
          /\ j + 1 >= 4 => rows' = HostN
        <3>0. /\ "client_address" \in Addresses /\ "server_address" \in Addresses
              /\ DOMAIN mail = Addresses
            BY DEF Addresses, SetupInv
        <3>1. CASE j \in {0, 2, 5}
            <4>1. Head(clientCalls).op = "listen"
                BY <2>3, <3>1, FilePlans
            <4>2. mail' = mail /\ features' = features /\ rows' = rows
                BY <4>1 DEF ClientSetUp, DoConnect, DoListen, DoAccept, Calls
            <4>3. /\ ClientConnects(j + 1) = ClientConnects(j)
                  /\ ClientAccepts(j + 1) = ClientAccepts(j)
                  /\ j + 1 >= 4 => j >= 4
                  /\ j + 1 >= 2 => j >= 2
                BY <3>1 DEF ClientConnects, ClientAccepts
            <4> QED BY <1>1, <2>1, <4>2, <4>3 DEF Met, Carries
        <3>2. CASE j \in {4, 7}
            <4>1. Head(clientCalls).op = "connect" /\ Head(clientCalls).at = "server_address"
                BY <2>3, <3>2, FilePlans
            <4>2. /\ "server_address" \in listening
                  /\ mail' = [mail EXCEPT !["server_address"] = <<n>>]
                  /\ features' = features /\ rows' = rows
                BY <2>2, <4>1 DEF ClientSetUp, DoConnect, DoListen, DoAccept, Calls
            <4>3. mail["server_address"] = << >>
                BY <3>0, <4>2 DEF SetupInv
            <4>4. mail'["server_address"] = <<n>> /\ mail'["client_address"] = mail["client_address"]
                BY <3>0, <4>2
            <4>5. /\ ClientConnects(j) = HostAccepts(i)
                  /\ ClientConnects(j + 1) = ClientConnects(j) + 1
                  /\ ClientAccepts(j + 1) = ClientAccepts(j)
                  /\ j >= 4
                BY <2>1, <3>2, <4>3 DEF Met, Carries, ClientConnects, ClientAccepts
            <4> QED BY <1>1, <2>1, <4>2, <4>4, <4>5 DEF Met, Carries
        <3>3. CASE j \in {1, 3, 6}
            <4>1. /\ Head(clientCalls).op = "accept" /\ Head(clientCalls).at = "client_address"
                  /\ Head(clientCalls).topic = IF j = 1 THEN "feature_num"
                                               ELSE IF j = 3 THEN "host_log_n_data" ELSE "socket"
                BY <2>3, <3>3, FilePlans
            <4>2. /\ mail["client_address"] # << >>
                  /\ mail' = [mail EXCEPT !["client_address"] = << >>]
                  /\ features' = IF j = 1 THEN Head(mail["client_address"]) ELSE features
                  /\ rows' = IF j = 3 THEN 2 ^ Head(mail["client_address"]) ELSE rows
                BY <3>3, <4>1 DEF ClientSetUp, DoConnect, DoListen, DoAccept, Calls, Taken
            <4>3. /\ mail["client_address"] = <<HostValue(HostConnects(i))>>
                  /\ HostConnects(i) = ClientAccepts(j) + 1
                BY <2>1, <4>2 DEF Met, Carries
            <4>4. Head(mail["client_address"]) = HostValue(HostConnects(i))
                BY <4>3
            <4>5. mail'["client_address"] = << >> /\ mail'["server_address"] = mail["server_address"]
                BY <3>0, <4>2
            <4>6. /\ ClientConnects(j + 1) = ClientConnects(j)
                  /\ ClientAccepts(j + 1) = ClientAccepts(j) + 1
                  /\ j = 1 => HostConnects(i) = 1
                  /\ j = 3 => HostConnects(i) = 2
                  /\ j # 1 => j >= 2
                  /\ j \notin {1, 3} => j >= 4
                BY <3>3, <4>3 DEF ClientConnects, ClientAccepts
            <4>7. /\ j = 1 => features' = FeatureNum
                  /\ j = 3 => rows' = HostN
                BY <4>2, <4>4, <4>6 DEF HostValue, HostN
            <4>8. /\ j + 1 >= 2 => features' = FeatureNum
                  /\ j + 1 >= 4 => rows' = HostN
                BY <2>1, <3>3, <4>2, <4>6, <4>7 DEF Met
            <4> QED BY <1>1, <4>3, <4>5, <4>6, <4>8, <2>1 DEF Met, Carries
        <3> QED BY <2>3, <3>1, <3>2, <3>3
    <2>6. j + 1 \in 0 .. 8
        BY <2>3
    <2>7. Met(i, j + 1)'
        BY <1>1, <2>1, <2>4, <2>5 DEF Met
    <2> QED BY <2>6, <2>7
<1>8. cpc = "keys"
    BY <1>2 DEF SetupInv
<1> QED BY <1>1, <1>4, <1>5, <1>6, <1>7, <1>8 DEF SetupInv

\* What the actions after the set-up leave alone.
AfterSetUp ==
    /\ UNCHANGED settled
    /\ driver # "ratio" => UNCHANGED <<batchC, batchH>>
    /\ driver # "ratio" => cpc' # "bps keys" /\ hpc' # "bps keys"
    /\ cpc' # "keys" => clientCalls = << >>
    /\ hpc' # "keys" => hostCalls = << >>

(* A step that is no connection call leaves the set-up alone, and a        *)
(* process that does anything else has no call left.                       *)
LEMMA StepAfterSetUp ==
    ASSUME SetupInv, [Next]_vars
    PROVE  HostSetUp \/ ClientSetUp \/ AfterSetUp
<1>1. CASE ClientSendKeys \/ ClientSendPsiQuery \/ ClientReceivePsiResponse \/ ClientMatchRow
    BY <1>1 DEF ClientSendKeys, ClientSendPsiQuery, ClientReceivePsiResponse, ClientMatchRow,
                clientVars, hostVars, SetupInv, AfterSetUp
<1>2. CASE ClientSendLastids \/ ClientTakeAnswer \/ ClientSendBpsKeys
    BY <1>2 DEF ClientSendLastids, ClientTakeAnswer, AfterAnswer, ClientSendBpsKeys,
                hostVars, SetupInv, AfterSetUp
<1>3. CASE (\E r \in PadRows : ClientPad(r)) \/ ClientSendBpsQuery \/ ClientReceiveShares
    BY <1>3 DEF ClientPad, ClientSendBpsQuery, ClientReceiveShares, hostVars, SetupInv, AfterSetUp
<1>4. CASE HostReceiveKeys \/ \E ix \in Shuffles(n), bits \in [Rows(n) -> Bit] : HostAnswerPsiQuery(ix, bits)
    BY <1>4 DEF HostReceiveKeys, HostAnswerPsiQuery, clientVars, SetupInv, AfterSetUp
<1>5. CASE HostReceiveLastids \/ HostReceiveBpsKeys
             \/ \E r0 \in [Features -> [1 .. batchH -> Value]] : HostAnswerBpsQuery(r0)
    BY <1>5 DEF HostReceiveLastids, JoinBatchH, HostReceiveBpsKeys, HostAnswerBpsQuery,
                clientVars, SetupInv, AfterSetUp
<1>6. CASE UNCHANGED vars
    BY <1>6 DEF vars, settled, clientVars, hostVars, SetupInv, AfterSetUp
<1> QED BY <1>1, <1>2, <1>3, <1>4, <1>5, <1>6 DEF Next, ClientNext, HostNext, Finished

(* Every step keeps the invariant of the set-up.                           *)
LEMMA SetupStep == SetupInv /\ [Next]_vars => SetupInv'
<1> SUFFICES ASSUME SetupInv, [Next]_vars PROVE SetupInv'
    OBVIOUS
<1>1. CASE AfterSetUp
    <2>1. /\ UNCHANGED <<driver, hostCalls, clientCalls, listening, mail, n, features, rows>>
          /\ driver # "ratio" => UNCHANGED <<batchC, batchH>>
        BY <1>1 DEF AfterSetUp, settled, setupVars
    <2>2. HostSetup' = HostSetup /\ ClientSetup' = ClientSetup
        BY <2>1 DEF HostSetup, ClientSetup
    <2>3. driver = "file" => \E i \in 0 .. 7, j \in 0 .. 8 : Met(i, j)'
        <3>1. ASSUME driver = "file", NEW i \in 0 .. 7, NEW j \in 0 .. 8, Met(i, j)
              PROVE  Met(i, j)'
            <4>1. /\ Does(hostCalls, HostSetup, i)'
                  /\ Does(clientCalls, ClientSetup, j)'
                BY <2>1, <2>2, <3>1 DEF Met, Does
            <4>2. /\ Carries("client_address", HostConnects(i), ClientAccepts(j), HostValue(HostConnects(i)))'
                  /\ Carries("server_address", ClientConnects(j), HostAccepts(i), n)'
                BY <2>1, <3>1 DEF Met, Carries
            <4>3. /\ (j >= 2 => features = FeatureNum)'
                  /\ (j >= 4 => rows = HostN)'
                  /\ (i >= 4 => batchH = n)'
                BY <2>1, <3>1 DEF Met
            <4> QED BY <4>1, <4>2, <4>3, Zenon DEF Met
        <3> QED BY <3>1 DEF SetupInv
    <2> QED BY <1>1, <2>1, <2>3 DEF SetupInv, AfterSetUp
<1> QED BY <1>1, StepAfterSetUp, HostSetUpKeeps, ClientSetUpKeeps

(* When a process leaves the set-up it knows the numbers of the other.     *)
LEMMA SetupAgrees ==
    ASSUME SetupInv
    PROVE  /\ clientCalls = << >> => features = FeatureNum /\ rows = HostN
           /\ hostCalls = << >> /\ driver # "ratio" => batchH = n
<1>1. CASE driver = "file"
    <2>1. PICK i \in 0 .. 7, j \in 0 .. 8 : Met(i, j)
        BY <1>1 DEF SetupInv
    <2>2. Len(HostSetup) = 7 /\ Len(ClientSetup) = 8
        BY <1>1, FilePlans
    <2>3. Len(hostCalls) = 7 - i /\ Len(clientCalls) = 8 - j
        BY <2>1, <2>2 DEF Met, Does
    <2>4. (hostCalls = << >> => i = 7) /\ (clientCalls = << >> => j = 8)
        BY <2>3
    <2> QED BY <2>1, <2>4 DEF Met
<1> QED BY <1>1 DEF SetupInv

-----------------------------------------------------------------------------
(* The streams.                                                            *)

\* How many messages each process has written and read; "ratio" has one
\* more than the others, the keys of stage 2.
ClientSent == IF cpc = "keys" THEN 0
              ELSE IF cpc = "query" THEN 1
              ELSE IF cpc \in {"response", "match"} THEN 2
              ELSE IF cpc \in {"answer", "bps keys"} THEN 3
              ELSE IF driver = "ratio"
                     THEN IF cpc = "pad" THEN 4 ELSE 5
                     ELSE IF cpc = "pad" THEN 3 ELSE 4
HostTook == IF hpc = "keys" THEN 0
            ELSE IF hpc = "query" THEN 1
            ELSE IF hpc = "lastids" THEN 2
            ELSE IF hpc = "bps keys" THEN 3
            ELSE IF driver = "ratio"
                   THEN IF hpc = "bps query" THEN 4 ELSE 5
                   ELSE IF hpc = "bps query" THEN 3 ELSE 4
HostSent == IF hpc \in {"keys", "query"} THEN 0 ELSE IF hpc = "done" THEN 2 ELSE 1
ClientTook == IF cpc \in {"keys", "query", "response"} THEN 0 ELSE IF cpc = "done" THEN 2 ELSE 1

PsiQuery == GenerateQuery(clientIds, clientLabels, n)
BpsQuery == [batch |-> batchC, rows |-> newIds]

ToHostMessages ==
    [k \in 1 .. 5 |-> IF k = 1 THEN Message(FirstKeys, "client")
                      ELSE IF k = 2 THEN Message("psi query", PsiQuery)
                      ELSE IF k = 3 THEN Message("lastids", lastids)
                      ELSE IF k = 4 /\ driver = "ratio" THEN Message("pk bps", "client")
                      ELSE Message("bps query", BpsQuery)]
ToClientMessages ==
    [k \in 1 .. 2 |-> IF k = 1 THEN Message("psi response", Response(PsiQuery, index, b0s))
                      ELSE Message("bps response", Share1(BpsQuery, result0))]

\* A stream holds the messages written and not yet read.
Holds(stream, messages, took, sent) ==
    /\ took <= sent
    /\ stream = [k \in 1 .. sent - took |-> messages[took + k]]

FlowInv ==
    /\ cpc \in {"keys", "query", "response", "match", "answer", "bps keys", "pad", "shares", "done"}
    /\ hpc \in {"keys", "query", "lastids", "bps keys", "bps query", "done"}
    /\ Holds(toHost, ToHostMessages, HostTook, ClientSent)
    /\ Holds(toClient, ToClientMessages, ClientTook, HostSent)

(* A function on an initial range of the naturals is a sequence.           *)
LEMMA RangeFunctionIsSeq ==
    ASSUME NEW S, NEW d \in Nat, NEW f \in [1 .. d -> S]
    PROVE  f \in Seq(S) /\ Len(f) = d
OBVIOUS

(* Writing a message.                                                      *)
LEMMA Sends ==
    ASSUME NEW q, NEW M, NEW M2, NEW g \in Nat, NEW s \in Nat, Holds(q, M, g, s),
           \A k \in g + 1 .. s : M2[k] = M[k]
    PROVE  Holds(Append(q, M2[s + 1]), M2, g, s + 1)
<1> DEFINE S == {M2[k] : k \in Nat}
           d == s - g
<1>1. d \in Nat
    BY DEF Holds
<1>2. q = [k \in 1 .. d |-> M2[g + k]]
    BY <1>1 DEF Holds
<1>3. \A k \in 1 .. d : M2[g + k] \in S
    BY <1>1
<1>4. M2[s + 1] \in S
    OBVIOUS
<1> HIDE DEF S
<1>5. q \in Seq(S) /\ Len(q) = d
    <2>1. q \in [1 .. d -> S]
        BY <1>1, <1>2, <1>3
    <2> QED BY <1>1, <2>1, RangeFunctionIsSeq
<1>6. Append(q, M2[s + 1]) = [k \in 1 .. d + 1 |-> M2[g + k]]
    <2>1. /\ Append(q, M2[s + 1]) \in Seq(S)
          /\ Len(Append(q, M2[s + 1])) = d + 1
          /\ \A k \in 1 .. d : Append(q, M2[s + 1])[k] = q[k]
          /\ Append(q, M2[s + 1])[d + 1] = M2[s + 1]
        BY <1>4, <1>5, AppendProperties
    <2>2. /\ DOMAIN Append(q, M2[s + 1]) = 1 .. d + 1
          /\ Append(q, M2[s + 1]) = [k \in DOMAIN Append(q, M2[s + 1]) |-> Append(q, M2[s + 1])[k]]
        BY <2>1, LenProperties
    <2>3. \A k \in 1 .. d + 1 : Append(q, M2[s + 1])[k] = M2[g + k]
        BY <1>1, <1>2, <2>1
    <2> QED BY <2>2, <2>3
<1> QED BY <1>1, <1>6 DEF Holds

(* Reading a message.                                                      *)
LEMMA Receives ==
    ASSUME NEW q, NEW M, NEW M2, NEW g \in Nat, NEW s \in Nat, NEW next, next = g + 1,
           Holds(q, M, g, s), q # << >>, \A k \in g + 1 .. s : M2[k] = M[k]
    PROVE  Head(q) = M[next] /\ Holds(Tail(q), M2, next, s)
<1> DEFINE S == {M[k] : k \in Nat}
           d == s - g
<1>1. d \in Nat /\ q = [k \in 1 .. d |-> M[g + k]]
    BY DEF Holds
<1>2. \A k \in 1 .. d : M[g + k] \in S
    BY <1>1
<1> HIDE DEF S
<1>3. q \in Seq(S) /\ Len(q) = d
    <2>1. q \in [1 .. d -> S]
        BY <1>1, <1>2
    <2> QED BY <1>1, <2>1, RangeFunctionIsSeq
<1>4. d > 0
    BY <1>1, <1>3, EmptySeq
<1>5. /\ Head(q) = q[1] /\ Tail(q) \in Seq(S) /\ Len(Tail(q)) = d - 1
      /\ \A k \in 1 .. d - 1 : Tail(q)[k] = q[k + 1]
    BY <1>3, <1>4, HeadTailProperties
<1>6. /\ DOMAIN Tail(q) = 1 .. d - 1
      /\ Tail(q) = [k \in DOMAIN Tail(q) |-> Tail(q)[k]]
    BY <1>4, <1>5, LenProperties
<1>7. \A k \in 1 .. d - 1 : Tail(q)[k] = M2[(g + 1) + k]
    <2> SUFFICES ASSUME NEW k \in 1 .. d - 1 PROVE Tail(q)[k] = M2[(g + 1) + k]
        OBVIOUS
    <2>1. k + 1 \in 1 .. d /\ g + (k + 1) = (g + 1) + k /\ (g + 1) + k \in g + 1 .. s
        BY <1>1
    <2> QED BY <1>1, <1>5, <2>1
<1>8. s - (g + 1) = d - 1 /\ g < s /\ g + 1 <= s
    BY <1>1, <1>4
<1>9. Tail(q) = [k \in 1 .. s - (g + 1) |-> M2[(g + 1) + k]]
    BY <1>6, <1>7, <1>8
<1>10. Head(q) = M[g + 1]
    BY <1>1, <1>4, <1>5
<1> QED BY <1>8, <1>9, <1>10 DEF Holds

(* The head of a stream is the message due next.                           *)
LEMMA FirstMessage ==
    ASSUME NEW q, NEW M, NEW g \in Nat, NEW s \in Nat, NEW next, next = g + 1,
           Holds(q, M, g, s), q # << >>
    PROVE  Head(q) = M[next]
BY Receives

(* Doing neither.                                                          *)
LEMMA Stays ==
    ASSUME NEW q, NEW M, NEW M2, NEW g \in Nat, NEW s \in Nat, Holds(q, M, g, s),
           \A k \in g + 1 .. s : M2[k] = M[k]
    PROVE  Holds(q, M2, g, s)
<1>1. \A k \in 1 .. s - g : g + k \in g + 1 .. s
    OBVIOUS
<1> QED BY <1>1 DEF Holds

(* A stream nobody has written to.                                         *)
LEMMA NoneYet ==
    ASSUME NEW M
    PROVE  Holds(<< >>, M, 0, 0)
BY DEF Holds

(* Neither process is where the other has not let it.                      *)
LEMMA Counts ==
    ASSUME FlowInv
    PROVE  /\ ClientSent \in Nat /\ HostTook \in Nat /\ HostSent \in Nat /\ ClientTook \in Nat
           /\ HostTook <= ClientSent /\ ClientTook <= HostSent
           /\ ClientSent <= 5 /\ HostSent <= 2
           /\ cpc \notin {"keys", "query", "response"} => hpc \notin {"keys", "query"}
           /\ hpc \in {"bps keys", "bps query", "done"} =>
                 cpc \notin {"keys", "query", "response", "match"}
           /\ hpc \in {"bps query", "done"} => driver # "ratio" \/ cpc \in {"pad", "shares", "done"}
           /\ hpc = "done" => cpc \in {"shares", "done"}
           /\ cpc = "done" => hpc = "done"
           /\ hpc \notin {"keys", "query"} => cpc \notin {"keys", "query"}
           /\ hpc # "keys" => cpc # "keys"
<1>1. /\ cpc \in {"keys", "query", "response", "match", "answer", "bps keys", "pad", "shares", "done"}
      /\ hpc \in {"keys", "query", "lastids", "bps keys", "bps query", "done"}
    BY DEF FlowInv
<1>2. HostTook <= ClientSent
    BY DEF FlowInv, Holds
<1>3. ClientTook <= HostSent
    BY DEF FlowInv, Holds
<1>4. /\ ClientSent \in Nat /\ HostTook \in Nat /\ HostSent \in Nat /\ ClientTook \in Nat
      /\ ClientSent <= 5 /\ HostSent <= 2
    BY DEF ClientSent, HostTook, HostSent, ClientTook
<1>5. ASSUME cpc \notin {"keys", "query", "response"} PROVE hpc \notin {"keys", "query"}
    BY <1>3, <1>5 DEF HostSent, ClientTook
<1>6. ASSUME cpc = "done" PROVE hpc = "done"
    BY <1>3, <1>6 DEF HostSent, ClientTook
<1>7. ASSUME hpc # "keys" PROVE cpc # "keys"
    <2>1. HostTook \in {1, 2, 3, 4, 5}
        BY <1>1, <1>7 DEF HostTook
    <2>2. ASSUME cpc = "keys" PROVE ClientSent = 0
        BY <2>2 DEF ClientSent
    <2> QED BY <1>2, <1>4, <2>1, <2>2
<1>8. ASSUME hpc \notin {"keys", "query"} PROVE cpc \notin {"keys", "query"}
    <2>1. HostTook \in {2, 3, 4, 5}
        BY <1>1, <1>8 DEF HostTook
    <2>2. ASSUME cpc \in {"keys", "query"} PROVE ClientSent \in {0, 1}
        BY <2>2 DEF ClientSent
    <2> QED BY <1>2, <1>4, <2>1, <2>2
<1>9. ASSUME hpc \in {"bps keys", "bps query", "done"}
      PROVE  cpc \notin {"keys", "query", "response", "match"}
    <2>1. HostTook \in {3, 4, 5}
        BY <1>9 DEF HostTook
    <2>2. ASSUME cpc \in {"keys", "query", "response", "match"} PROVE ClientSent \in {0, 1, 2}
        BY <2>2 DEF ClientSent
    <2> QED BY <1>2, <1>4, <2>1, <2>2
<1>10. ASSUME hpc \in {"bps query", "done"}, driver = "ratio" PROVE cpc \in {"pad", "shares", "done"}
    <2>1. HostTook \in {4, 5}
        BY <1>10 DEF HostTook
    <2>2. ASSUME cpc \notin {"pad", "shares", "done"} PROVE ClientSent \in {0, 1, 2, 3}
        BY <1>1, <2>2 DEF ClientSent
    <2> QED BY <1>2, <1>4, <2>1, <2>2
<1>11. ASSUME hpc = "done" PROVE cpc \in {"shares", "done"}
    <2>1. CASE driver = "ratio"
        <3>1. HostTook = 5
            BY <1>11, <2>1 DEF HostTook
        <3>2. ASSUME cpc \notin {"shares", "done"} PROVE ClientSent \in {0, 1, 2, 3, 4}
            BY <1>1, <2>1, <3>2 DEF ClientSent
        <3> QED BY <1>2, <1>4, <3>1, <3>2
    <2>2. CASE driver # "ratio"
        <3>1. HostTook = 4
            BY <1>11, <2>2 DEF HostTook
        <3>2. ASSUME cpc \notin {"shares", "done"} PROVE ClientSent \in {0, 1, 2, 3}
            BY <1>1, <2>2, <3>2 DEF ClientSent
        <3> QED BY <1>2, <1>4, <3>1, <3>2
    <2> QED BY <2>1, <2>2
<1> QED BY <1>2, <1>3, <1>4, <1>5, <1>6, <1>7, <1>8, <1>9, <1>10, <1>11

\* What no step changes once it may be in a stream.
BodiesStay ==
    /\ UNCHANGED <<driver, clientIds, clientLabels, n>>
    /\ cpc \notin {"keys", "query", "response", "match"} => lastids' = lastids
    /\ cpc \in {"shares", "done"} => UNCHANGED <<batchC, newIds>>
    /\ hpc \notin {"keys", "query"} => UNCHANGED <<zeros, index, b0s>>
    /\ hpc = "done" => UNCHANGED <<bpsKey, result0>>

(* No step changes what a message in a stream was made from.               *)
LEMMA StepKeepsBodies ==
    ASSUME [Next]_vars
    PROVE  BodiesStay
<1>1. CASE HostSetUp \/ ClientSetUp
    BY <1>1 DEF HostSetUp, ClientSetUp, ecVars, clientVars, hostVars, BodiesStay
<1>2. CASE ClientSendKeys \/ ClientSendPsiQuery \/ ClientSendLastids
    BY <1>2 DEF ClientSendKeys, ClientSendPsiQuery, ClientSendLastids,
                ecVars, settled, setupVars, hostVars, BodiesStay
<1>3. CASE ClientReceivePsiResponse \/ ClientMatchRow
    BY <1>3 DEF ClientReceivePsiResponse, BeginMatch, ClientMatchRow, MatchRow,
                settled, setupVars, clientVars, hostVars, BodiesStay
<1>4. CASE ClientTakeAnswer \/ ClientSendBpsKeys \/ (\E r \in PadRows : ClientPad(r))
             \/ ClientSendBpsQuery \/ ClientReceiveShares
    BY <1>4 DEF ClientTakeAnswer, ClientSendBpsKeys, ClientPad, ClientSendBpsQuery, ClientReceiveShares,
                ecVars, settled, setupVars, hostVars, BodiesStay
<1>5. CASE HostReceiveKeys
    BY <1>5 DEF HostReceiveKeys, SetPublicKey, settled, setupVars, clientVars, BodiesStay
<1>6. CASE \E ix \in Shuffles(n), bits \in [Rows(n) -> Bit] : HostAnswerPsiQuery(ix, bits)
    BY <1>6 DEF HostAnswerPsiQuery, GenerateResponse0, settled, setupVars, clientVars, BodiesStay
<1>7. CASE HostReceiveLastids \/ HostReceiveBpsKeys
             \/ \E r0 \in [Features -> [1 .. batchH -> Value]] : HostAnswerBpsQuery(r0)
    BY <1>7 DEF HostReceiveLastids, HostReceiveBpsKeys, HostAnswerBpsQuery,
                ecVars, settled, setupVars, clientVars, BodiesStay
<1>8. CASE UNCHANGED vars
    BY <1>8 DEF vars, ecVars, settled, setupVars, clientVars, hostVars, BodiesStay
<1> QED BY <1>1, <1>2, <1>3, <1>4, <1>5, <1>6, <1>7, <1>8 DEF Next, ClientNext, HostNext, Finished

(* So the messages in the streams are still the ones that are due.         *)
LEMMA SameMessages ==
    ASSUME FlowInv, BodiesStay
    PROVE  /\ \A k \in HostTook + 1 .. ClientSent : ToHostMessages'[k] = ToHostMessages[k]
           /\ \A k \in ClientTook + 1 .. HostSent : ToClientMessages'[k] = ToClientMessages[k]
<1>1. /\ ClientSent \in Nat /\ HostTook \in Nat /\ HostSent \in Nat /\ ClientTook \in Nat
      /\ ClientSent <= 5 /\ HostSent <= 2
      /\ hpc = "done" => cpc \in {"shares", "done"}
    BY Counts
<1>2. /\ PsiQuery' = PsiQuery /\ FirstKeys' = FirstKeys
      /\ driver' = driver
    BY DEF BodiesStay, PsiQuery, GenerateQuery, FirstKeys
<1>3. /\ hpc \notin {"keys", "query"} => Response(PsiQuery, index, b0s)' = Response(PsiQuery, index, b0s)
      /\ cpc \in {"shares", "done"} => BpsQuery' = BpsQuery
    BY <1>2 DEF BodiesStay, Response, BpsQuery
<1>4. hpc = "done" => Share1(BpsQuery, result0)' = Share1(BpsQuery, result0)
    BY <1>1, <1>3 DEF BodiesStay, Share1
<1>5. ASSUME NEW k \in HostTook + 1 .. ClientSent
      PROVE  ToHostMessages'[k] = ToHostMessages[k]
    <2>1. k \in 1 .. 5
        BY <1>1
    <2>2. CASE k \in {1, 2}
        BY <1>2, <2>1, <2>2 DEF ToHostMessages
    <2>3. CASE k = 3
        <3>1. cpc \notin {"keys", "query", "response", "match"}
            <4>1. ASSUME cpc \in {"keys", "query", "response", "match"} PROVE ClientSent \in {0, 1, 2}
                BY <4>1 DEF ClientSent
            <4> QED BY <1>1, <2>3, <4>1
        <3> QED BY <2>3, <3>1 DEF ToHostMessages, BodiesStay
    <2>4. CASE k = 4 /\ driver = "ratio"
        BY <1>2, <2>4 DEF ToHostMessages
    <2>5. CASE k = 5 \/ (k = 4 /\ driver # "ratio")
        <3>1. cpc \in {"shares", "done"}
            <4>1. ASSUME cpc \notin {"shares", "done"}
                  PROVE  ClientSent \in {0, 1, 2, 3} \/ (driver = "ratio" /\ ClientSent = 4)
                BY <4>1 DEF ClientSent, FlowInv
            <4> QED BY <1>1, <2>5, <4>1
        <3>2. CASE k = 5
            <4>1. ToHostMessages[5] = Message("bps query", BpsQuery)
                BY DEF ToHostMessages
            <4>2. ToHostMessages'[5] = Message("bps query", BpsQuery')
                BY DEF ToHostMessages
            <4> QED BY <1>3, <3>1, <3>2, <4>1, <4>2
        <3>3. CASE k = 4 /\ driver # "ratio"
            <4>1. ToHostMessages[4] = Message("bps query", BpsQuery)
                BY <3>3 DEF ToHostMessages
            <4>2. ToHostMessages'[4] = Message("bps query", BpsQuery')
                BY <1>2, <3>3 DEF ToHostMessages
            <4> QED BY <1>3, <3>1, <3>3, <4>1, <4>2
        <3> QED BY <2>5, <3>2, <3>3
    <2> QED BY <2>1, <2>2, <2>3, <2>4, <2>5
<1>6. ASSUME NEW k \in ClientTook + 1 .. HostSent
      PROVE  ToClientMessages'[k] = ToClientMessages[k]
    <2>1. k \in {1, 2} /\ k <= HostSent
        BY <1>1
    <2>2. CASE k = 1
        <3>1. hpc \notin {"keys", "query"}
            BY <2>1, <2>2 DEF HostSent
        <3> QED BY <1>3, <2>2, <3>1 DEF ToClientMessages
    <2>3. CASE k = 2
        <3>1. hpc = "done"
            BY <2>1, <2>3 DEF HostSent
        <3> QED BY <1>4, <2>3, <3>1 DEF ToClientMessages
    <2> QED BY <2>1, <2>2, <2>3
<1> QED BY <1>5, <1>6

(* Both streams are empty at first.                                        *)
LEMMA FlowInitially == Init => FlowInv
<1> SUFFICES ASSUME Init PROVE FlowInv
    OBVIOUS
<1>1. ClientSent = 0 /\ HostTook = 0 /\ HostSent = 0 /\ ClientTook = 0
    BY DEF Init, ClientSent, HostTook, HostSent, ClientTook
<1>2. toHost = << >> /\ toClient = << >> /\ cpc = "keys" /\ hpc = "keys"
    BY DEF Init
<1> QED BY <1>1, <1>2, NoneYet DEF FlowInv

(* The client writes message after message, in the order of its stages.    *)
LEMMA ClientWrites ==
    ASSUME FlowInv, BodiesStay, UNCHANGED <<toClient, hpc>>,
           cpc' \in {"keys", "query", "response", "match", "answer", "bps keys", "pad", "shares", "done"},
           ClientTook' = ClientTook,
           \/ toHost' = toHost /\ ClientSent' = ClientSent
           \/ toHost' = Append(toHost, ToHostMessages'[ClientSent + 1]) /\ ClientSent' = ClientSent + 1
    PROVE  FlowInv'
<1>1. HostTook' = HostTook /\ HostSent' = HostSent
    BY DEF BodiesStay, HostTook, HostSent
<1>2. /\ ClientSent \in Nat /\ HostTook \in Nat /\ HostSent \in Nat /\ ClientTook \in Nat
      /\ Holds(toHost, ToHostMessages, HostTook, ClientSent)
      /\ Holds(toClient, ToClientMessages, ClientTook, HostSent)
    BY Counts DEF FlowInv
<1>3. Holds(toClient, ToClientMessages', ClientTook, HostSent)
    BY <1>2, SameMessages, Stays
<1>4. Holds(toHost', ToHostMessages', HostTook, ClientSent')
    <2>1. CASE toHost' = toHost /\ ClientSent' = ClientSent
        <3>1. Holds(toHost, ToHostMessages', HostTook, ClientSent)
            BY <1>2, SameMessages, Stays
        <3> QED BY <2>1, <3>1
    <2>2. CASE toHost' = Append(toHost, ToHostMessages'[ClientSent + 1]) /\ ClientSent' = ClientSent + 1
        <3>1. Holds(Append(toHost, ToHostMessages'[ClientSent + 1]), ToHostMessages', HostTook, ClientSent + 1)
            BY <1>2, SameMessages, Sends
        <3> QED BY <2>2, <3>1
    <2> QED BY <2>1, <2>2
<1>5. hpc' \in {"keys", "query", "lastids", "bps keys", "bps query", "done"}
    BY DEF FlowInv
<1>6. Holds(toHost, ToHostMessages, HostTook, ClientSent)'
    BY <1>1, <1>4 DEF Holds
<1>7. Holds(toClient, ToClientMessages, ClientTook, HostSent)'
    BY <1>1, <1>3 DEF Holds
<1> QED BY <1>5, <1>6, <1>7 DEF FlowInv

(* The same for the two streams.                                           *)
LEMMA ReceivesFromHost ==
    ASSUME ClientTook \in Nat, HostSent \in Nat, ClientTook' = ClientTook + 1, toClient # << >>,
           Holds(toClient, ToClientMessages, ClientTook, HostSent),
           \A k \in ClientTook + 1 .. HostSent : ToClientMessages'[k] = ToClientMessages[k]
    PROVE  /\ Holds(Tail(toClient), ToClientMessages', ClientTook', HostSent)
           /\ Head(toClient) = ToClientMessages[ClientTook']
BY Receives

(* The same for the client's stream to the host.                           *)
LEMMA ReceivesFromClient ==
    ASSUME HostTook \in Nat, ClientSent \in Nat, HostTook' = HostTook + 1, toHost # << >>,
           Holds(toHost, ToHostMessages, HostTook, ClientSent),
           \A k \in HostTook + 1 .. ClientSent : ToHostMessages'[k] = ToHostMessages[k]
    PROVE  /\ Holds(Tail(toHost), ToHostMessages', HostTook', ClientSent)
           /\ Head(toHost) = ToHostMessages[HostTook']
<1>1. Holds(Tail(toHost), ToHostMessages', HostTook', ClientSent)
    BY Receives
<1>2. Head(toHost) = ToHostMessages[HostTook']
    BY FirstMessage
<1> QED BY <1>1, <1>2

(* The client reads the message that is due.                               *)
LEMMA ClientReads ==
    ASSUME FlowInv, BodiesStay, UNCHANGED <<toHost, hpc>>,
           cpc' \in {"keys", "query", "response", "match", "answer", "bps keys", "pad", "shares", "done"},
           toClient # << >>, toClient' = Tail(toClient),
           ClientSent' = ClientSent, ClientTook' = ClientTook + 1
    PROVE  FlowInv' /\ Head(toClient) = ToClientMessages[ClientTook']
<1>1. HostTook' = HostTook /\ HostSent' = HostSent
    BY DEF BodiesStay, HostTook, HostSent
<1>2. /\ ClientSent \in Nat /\ HostTook \in Nat /\ HostSent \in Nat /\ ClientTook \in Nat
      /\ Holds(toHost, ToHostMessages, HostTook, ClientSent)
      /\ Holds(toClient, ToClientMessages, ClientTook, HostSent)
    BY Counts DEF FlowInv
<1>3. Holds(toHost, ToHostMessages', HostTook, ClientSent)
    BY <1>2, SameMessages, Stays
<1>4. /\ Holds(Tail(toClient), ToClientMessages', ClientTook', HostSent)
      /\ Head(toClient) = ToClientMessages[ClientTook']
    <2>1. \A k \in ClientTook + 1 .. HostSent : ToClientMessages'[k] = ToClientMessages[k]
        BY SameMessages
    <2>2. ClientTook \in Nat /\ HostSent \in Nat /\ Holds(toClient, ToClientMessages, ClientTook, HostSent)
        BY <1>2
    <2> QED BY <2>1, <2>2, ReceivesFromHost
<1>5. hpc' \in {"keys", "query", "lastids", "bps keys", "bps query", "done"}
    BY DEF FlowInv
<1>6. Holds(toHost, ToHostMessages, HostTook, ClientSent)'
    BY <1>1, <1>3 DEF Holds
<1>7. Holds(toClient, ToClientMessages, ClientTook, HostSent)'
    BY <1>1, <1>4 DEF Holds
<1> QED BY <1>4, <1>5, <1>6, <1>7 DEF FlowInv

(* The host reads the message that is due and may answer it.               *)
LEMMA HostReads ==
    ASSUME FlowInv, BodiesStay, cpc' = cpc,
           hpc' \in {"keys", "query", "lastids", "bps keys", "bps query", "done"},
           toHost # << >>, toHost' = Tail(toHost), HostTook' = HostTook + 1,
           \/ toClient' = toClient /\ HostSent' = HostSent
           \/ toClient' = Append(toClient, ToClientMessages'[HostSent + 1]) /\ HostSent' = HostSent + 1
    PROVE  FlowInv' /\ Head(toHost) = ToHostMessages[HostTook']
<1>1. ClientSent' = ClientSent /\ ClientTook' = ClientTook
    BY DEF BodiesStay, ClientSent, ClientTook
<1>2. /\ ClientSent \in Nat /\ HostTook \in Nat /\ HostSent \in Nat /\ ClientTook \in Nat
      /\ Holds(toHost, ToHostMessages, HostTook, ClientSent)
      /\ Holds(toClient, ToClientMessages, ClientTook, HostSent)
    BY Counts DEF FlowInv
<1>3. /\ Holds(Tail(toHost), ToHostMessages', HostTook', ClientSent)
      /\ Head(toHost) = ToHostMessages[HostTook']
    <2>1. \A k \in HostTook + 1 .. ClientSent : ToHostMessages'[k] = ToHostMessages[k]
        BY SameMessages
    <2>2. HostTook \in Nat /\ ClientSent \in Nat /\ Holds(toHost, ToHostMessages, HostTook, ClientSent)
        BY <1>2
    <2> QED BY <2>1, <2>2, ReceivesFromClient
<1>4. Holds(toClient', ToClientMessages', ClientTook, HostSent')
    <2>1. CASE toClient' = toClient /\ HostSent' = HostSent
        <3>1. Holds(toClient, ToClientMessages', ClientTook, HostSent)
            BY <1>2, SameMessages, Stays
        <3> QED BY <2>1, <3>1
    <2>2. CASE toClient' = Append(toClient, ToClientMessages'[HostSent + 1]) /\ HostSent' = HostSent + 1
        <3>1. Holds(Append(toClient, ToClientMessages'[HostSent + 1]), ToClientMessages', ClientTook, HostSent + 1)
            BY <1>2, SameMessages, Sends
        <3> QED BY <2>2, <3>1
    <2> QED BY <2>1, <2>2
<1>5. cpc' \in {"keys", "query", "response", "match", "answer", "bps keys", "pad", "shares", "done"}
    BY DEF FlowInv
<1>6. Holds(toHost, ToHostMessages, HostTook, ClientSent)'
    BY <1>1, <1>3 DEF Holds
<1>7. Holds(toClient, ToClientMessages, ClientTook, HostSent)'
    BY <1>1, <1>4 DEF Holds
<1> QED BY <1>3, <1>5, <1>6, <1>7 DEF FlowInv

(* The two fields of a message.                                            *)
LEMMA Fields ==
    ASSUME NEW t, NEW b
    PROVE  Message(t, b).type = t /\ Message(t, b).body = b
BY DEF Message

(* What the next message is, by the host's and the client's stage.         *)
LEMMA Due ==
    /\ hpc = "keys" => ToHostMessages[HostTook + 1] = Message(FirstKeys, "client")
    /\ hpc = "query" => ToHostMessages[HostTook + 1] = Message("psi query", PsiQuery)
    /\ hpc = "lastids" => ToHostMessages[HostTook + 1] = Message("lastids", lastids)
    /\ hpc = "bps keys" /\ driver = "ratio" =>
          ToHostMessages[HostTook + 1] = Message("pk bps", "client")
    /\ hpc = "bps query" => ToHostMessages[HostTook + 1] = Message("bps query", BpsQuery)
    /\ cpc = "response" => ToClientMessages[ClientTook + 1] = Message("psi response", Response(PsiQuery, index, b0s))
    /\ cpc = "shares" => ToClientMessages[ClientTook + 1] = Message("bps response", Share1(BpsQuery, result0))
<1>1. ASSUME hpc = "keys" PROVE ToHostMessages[HostTook + 1] = Message(FirstKeys, "client")
    BY <1>1 DEF HostTook, ToHostMessages
<1>2. ASSUME hpc = "query" PROVE ToHostMessages[HostTook + 1] = Message("psi query", PsiQuery)
    BY <1>2 DEF HostTook, ToHostMessages
<1>3. ASSUME hpc = "lastids" PROVE ToHostMessages[HostTook + 1] = Message("lastids", lastids)
    BY <1>3 DEF HostTook, ToHostMessages
<1>4. ASSUME hpc = "bps keys", driver = "ratio"
      PROVE  ToHostMessages[HostTook + 1] = Message("pk bps", "client")
    <2>1. HostTook = 3
        BY <1>4 DEF HostTook
    <2>2. ToHostMessages[4] = IF driver = "ratio" THEN Message("pk bps", "client")
                               ELSE Message("bps query", BpsQuery)
        BY DEF ToHostMessages
    <2>3. HostTook + 1 = 4
        BY <2>1
    <2> QED BY <1>4, <2>2, <2>3
<1>5. ASSUME hpc = "bps query"
      PROVE  ToHostMessages[HostTook + 1] = Message("bps query", BpsQuery)
    <2>1. CASE driver = "ratio"
        <3>1. HostTook = 4
            BY <1>5, <2>1 DEF HostTook
        <3>2. ToHostMessages[5] = Message("bps query", BpsQuery)
            BY DEF ToHostMessages
        <3>3. HostTook + 1 = 5
            BY <3>1
        <3> QED BY <3>2, <3>3
    <2>2. CASE driver # "ratio"
        <3>1. HostTook = 3
            BY <1>5, <2>2 DEF HostTook
        <3>2. ToHostMessages[4] = Message("bps query", BpsQuery)
            BY <2>2 DEF ToHostMessages
        <3>3. HostTook + 1 = 4
            BY <3>1
        <3> QED BY <3>2, <3>3
    <2> QED BY <2>1, <2>2
<1>6. ASSUME cpc = "response"
      PROVE  ToClientMessages[ClientTook + 1] = Message("psi response", Response(PsiQuery, index, b0s))
    BY <1>6 DEF ClientTook, ToClientMessages
<1>7. ASSUME cpc = "shares"
      PROVE  ToClientMessages[ClientTook + 1] = Message("bps response", Share1(BpsQuery, result0))
    BY <1>7 DEF ClientTook, ToClientMessages
<1> QED BY <1>1, <1>2, <1>3, <1>4, <1>5, <1>6, <1>7

(* Steps that touch no stream and stay at their stage.                     *)
LEMMA FlowStays ==
    ASSUME FlowInv, BodiesStay, UNCHANGED <<toHost, toClient, cpc, hpc>>
    PROVE  FlowInv'
<1>1. ClientSent' = ClientSent /\ ClientTook' = ClientTook
    BY DEF BodiesStay, ClientSent, ClientTook
<1>2. cpc' \in {"keys", "query", "response", "match", "answer", "bps keys", "pad", "shares", "done"}
    BY DEF FlowInv
<1> QED BY <1>1, <1>2, ClientWrites

(* What the client does to the streams.                                    *)
LEMMA ClientFlow ==
    ASSUME FlowInv, SetupInv, BodiesStay,
           \/ ClientSendKeys \/ ClientSendPsiQuery \/ ClientReceivePsiResponse
           \/ ClientSendLastids \/ ClientTakeAnswer \/ ClientSendBpsKeys
           \/ ClientSendBpsQuery \/ ClientReceiveShares
    PROVE  FlowInv'
<1>0. driver' = driver
    BY DEF BodiesStay
<1>1. CASE ClientSendKeys
    <2>1. /\ cpc = "keys" /\ cpc' = "query" /\ UNCHANGED <<toClient, hpc>>
          /\ toHost' = Append(toHost, Message(FirstKeys, "client"))
        BY <1>1 DEF ClientSendKeys, SendToHost, hostVars
    <2>2. ClientSent = 0 /\ ClientSent' = 1 /\ ClientTook' = ClientTook
        BY <2>1 DEF ClientSent, ClientTook
    <2>3. ToHostMessages'[1] = Message(FirstKeys, "client")
        BY <1>0 DEF ToHostMessages, FirstKeys
    <2>4. ClientSent' = ClientSent + 1 /\ ToHostMessages'[ClientSent + 1] = Message(FirstKeys, "client")
        <3>1. ClientSent + 1 = 1
            BY <2>2
        <3> QED BY <2>2, <2>3, <3>1
    <2> QED BY <2>1, <2>2, <2>4, ClientWrites
<1>2. CASE ClientSendPsiQuery
    <2>1. /\ cpc = "query" /\ cpc' = "response" /\ UNCHANGED <<toClient, hpc>>
          /\ toHost' = Append(toHost, Message("psi query", PsiQuery))
        BY <1>2 DEF ClientSendPsiQuery, SendToHost, hostVars, PsiQuery
    <2>2. ClientSent = 1 /\ ClientSent' = 2 /\ ClientTook' = ClientTook
        BY <2>1 DEF ClientSent, ClientTook
    <2>3. ToHostMessages'[2] = Message("psi query", PsiQuery)
        BY DEF ToHostMessages, BodiesStay, PsiQuery, GenerateQuery
    <2>4. ClientSent' = ClientSent + 1 /\ ToHostMessages'[ClientSent + 1] = Message("psi query", PsiQuery)
        <3>1. ClientSent + 1 = 2
            BY <2>2
        <3> QED BY <2>2, <2>3, <3>1
    <2> QED BY <2>1, <2>2, <2>4, ClientWrites
<1>3. CASE ClientReceivePsiResponse
    <2>1. /\ cpc = "response" /\ cpc' = "match" /\ UNCHANGED <<toHost, hpc>>
          /\ toClient # << >> /\ toClient' = Tail(toClient)
        BY <1>3 DEF ClientReceivePsiResponse, ReceiveAtClient, hostVars
    <2>2. ClientTook = 0 /\ ClientTook' = 1 /\ ClientSent' = ClientSent
        BY <2>1 DEF ClientSent, ClientTook
    <2>3. ClientTook' = ClientTook + 1
        BY <2>2
    <2> QED BY <2>1, <2>2, <2>3, ClientReads
<1>4. CASE ClientSendLastids
    <2>1. /\ cpc = "match" /\ cpc' = "answer" /\ UNCHANGED <<toClient, hpc>>
          /\ toHost' = Append(toHost, Message("lastids", lastids)) /\ lastids' = lastids
        BY <1>4 DEF ClientSendLastids, SendToHost, hostVars, ecVars
    <2>2. ClientSent = 2 /\ ClientSent' = 3 /\ ClientTook' = ClientTook
        BY <2>1 DEF ClientSent, ClientTook
    <2>3. ToHostMessages'[3] = Message("lastids", lastids)
        BY <2>1 DEF ToHostMessages
    <2>4. ClientSent' = ClientSent + 1 /\ ToHostMessages'[ClientSent + 1] = Message("lastids", lastids)
        <3>1. ClientSent + 1 = 3
            BY <2>2
        <3> QED BY <2>2, <2>3, <3>1
    <2> QED BY <2>1, <2>2, <2>4, ClientWrites
<1>5. CASE ClientTakeAnswer
    <2>1. /\ cpc = "answer" /\ cpc' = AfterAnswer /\ UNCHANGED <<toHost, toClient, hpc>>
        BY <1>5 DEF ClientTakeAnswer, hostVars
    <2>2. /\ ClientSent = 3 /\ ClientSent' = 3 /\ ClientTook' = ClientTook
          /\ cpc' \in {"bps keys", "pad"}
        BY <1>0, <2>1 DEF ClientSent, ClientTook, AfterAnswer
    <2> QED BY <2>1, <2>2, ClientWrites
<1>6. CASE ClientSendBpsKeys
    <2>1. /\ cpc = "bps keys" /\ cpc' = "pad" /\ UNCHANGED <<toClient, hpc>>
          /\ toHost' = Append(toHost, Message("pk bps", "client"))
          /\ driver = "ratio"
        BY <1>6 DEF ClientSendBpsKeys, SendToHost, hostVars, SetupInv
    <2>2. ClientSent = 3 /\ ClientSent' = 4 /\ ClientTook' = ClientTook
        BY <1>0, <2>1 DEF ClientSent, ClientTook
    <2>3. ToHostMessages'[4] = Message("pk bps", "client")
        <3>1. ToHostMessages'[4] = IF driver' = "ratio" THEN Message("pk bps", "client")
                                   ELSE Message("bps query", BpsQuery')
            BY DEF ToHostMessages
        <3> QED BY <1>0, <2>1, <3>1
    <2>4. ClientSent' = ClientSent + 1 /\ ToHostMessages'[ClientSent + 1] = Message("pk bps", "client")
        <3>1. ClientSent + 1 = 4
            BY <2>2
        <3> QED BY <2>2, <2>3, <3>1
    <2> QED BY <2>1, <2>2, <2>4, ClientWrites
<1>7. CASE ClientSendBpsQuery
    <2>1. /\ cpc = "pad" /\ cpc' = "shares" /\ UNCHANGED <<toClient, hpc>>
          /\ toHost' = Append(toHost, Message("bps query", BpsQuery))
          /\ BpsQuery' = BpsQuery
        BY <1>7 DEF ClientSendBpsQuery, SendToHost, hostVars, BpsQuery
    <2>2. /\ ClientTook' = ClientTook
          /\ ClientSent' = ClientSent + 1
          /\ ToHostMessages'[ClientSent + 1] = Message("bps query", BpsQuery)
        <3>1. CASE driver = "ratio"
            <4>1. ClientSent = 4 /\ ClientSent' = 5 /\ ClientTook' = ClientTook
                BY <1>0, <2>1, <3>1 DEF ClientSent, ClientTook
            <4>2. ToHostMessages'[5] = Message("bps query", BpsQuery')
                BY DEF ToHostMessages
            <4>3. ClientSent + 1 = 5
                BY <4>1
            <4> QED BY <2>1, <4>1, <4>2, <4>3
        <3>2. CASE driver # "ratio"
            <4>1. ClientSent = 3 /\ ClientSent' = 4 /\ ClientTook' = ClientTook
                BY <1>0, <2>1, <3>2 DEF ClientSent, ClientTook
            <4>2. ToHostMessages'[4] = Message("bps query", BpsQuery')
                BY <1>0, <3>2 DEF ToHostMessages
            <4>3. ClientSent + 1 = 4
                BY <4>1
            <4> QED BY <2>1, <4>1, <4>2, <4>3
        <3> QED BY <3>1, <3>2
    <2> QED BY <2>1, <2>2, ClientWrites
<1>8. CASE ClientReceiveShares
    <2>1. /\ cpc = "shares" /\ cpc' = "done" /\ UNCHANGED <<toHost, hpc>>
          /\ toClient # << >> /\ toClient' = Tail(toClient)
        BY <1>8 DEF ClientReceiveShares, ReceiveAtClient, hostVars
    <2>2. ClientTook = 1 /\ ClientTook' = 2 /\ ClientSent' = ClientSent
        BY <1>0, <2>1 DEF ClientSent, ClientTook
    <2>3. ClientTook' = ClientTook + 1
        BY <2>2
    <2> QED BY <2>1, <2>2, <2>3, ClientReads
<1> QED BY <1>1, <1>2, <1>3, <1>4, <1>5, <1>6, <1>7, <1>8

(* What the host does to the streams.                                      *)
LEMMA HostFlow ==
    ASSUME FlowInv, SetupInv, BodiesStay,
           \/ HostReceiveKeys
           \/ \E ix \in Shuffles(n), bits \in [Rows(n) -> Bit] : HostAnswerPsiQuery(ix, bits)
           \/ HostReceiveLastids \/ HostReceiveBpsKeys
           \/ \E r0 \in [Features -> [1 .. batchH -> Value]] : HostAnswerBpsQuery(r0)
    PROVE  FlowInv'
<1>0. driver' = driver
    BY DEF BodiesStay
<1>1. CASE HostReceiveKeys
    <2>1. /\ hpc = "keys" /\ hpc' = "query" /\ UNCHANGED <<toClient, cpc>>
          /\ toHost # << >> /\ toHost' = Tail(toHost)
        BY <1>1 DEF HostReceiveKeys, ReceiveAtHost, clientVars
    <2>2. HostTook = 0 /\ HostTook' = 1 /\ HostSent' = HostSent
        BY <2>1 DEF HostTook, HostSent
    <2>3. HostTook' = HostTook + 1
        BY <2>2
    <2> QED BY <2>1, <2>2, <2>3, HostReads
<1>2. ASSUME NEW ix \in Shuffles(n), NEW bits \in [Rows(n) -> Bit], HostAnswerPsiQuery(ix, bits)
      PROVE  FlowInv'
    <2>1. /\ hpc = "query" /\ hpc' = "lastids" /\ cpc' = cpc
          /\ toHost # << >> /\ toHost' = Tail(toHost)
          /\ toClient' = Append(toClient, Message("psi response", Response(Head(toHost).body, ix, bits)))
          /\ index' = ix /\ b0s' = bits /\ zeros' = zeros
        BY <1>2 DEF HostAnswerPsiQuery, ReceiveAtHost, SendToClient, GenerateResponse0, clientVars
    <2>2. HostTook = 1 /\ HostTook' = 2 /\ HostSent = 0 /\ HostSent' = 1
        BY <2>1 DEF HostTook, HostSent
    <2>3. HostTook' = HostTook + 1 /\ HostSent' = HostSent + 1
        BY <2>2
    <2>4. Head(toHost) = Message("psi query", PsiQuery)
        <3>1. HostTook \in Nat /\ ClientSent \in Nat /\ Holds(toHost, ToHostMessages, HostTook, ClientSent)
            BY Counts DEF FlowInv
        <3>2. Head(toHost) = ToHostMessages[HostTook']
            BY <2>1, <2>3, <3>1, FirstMessage
        <3> QED BY <2>1, <2>3, <3>2, Due
    <2>5. Head(toHost).body = PsiQuery
        BY <2>4, Fields
    <2>6. ToClientMessages'[HostSent + 1] = Message("psi response", Response(PsiQuery, index, b0s)')
        <3>1. HostSent + 1 = 1
            BY <2>2
        <3>2. ToClientMessages'[1] = Message("psi response", Response(PsiQuery, index, b0s)')
            BY DEF ToClientMessages
        <3> QED BY <3>1, <3>2
    <2>7. Response(PsiQuery, index, b0s)' = Response(PsiQuery, ix, bits)
        <3>1. PsiQuery' = PsiQuery
            BY DEF PsiQuery, GenerateQuery, BodiesStay
        <3> QED BY <2>1, <3>1 DEF Response
    <2> QED BY <2>1, <2>3, <2>5, <2>6, <2>7, HostReads
<1>3. CASE HostReceiveLastids
    <2>1. /\ hpc = "lastids" /\ hpc' = (IF driver = "ratio" THEN "bps keys" ELSE "bps query")
          /\ UNCHANGED <<toClient, cpc>>
          /\ toHost # << >> /\ toHost' = Tail(toHost)
        BY <1>3 DEF HostReceiveLastids, ReceiveAtHost, clientVars
    <2>2. HostTook = 2 /\ HostTook' = 3 /\ HostSent' = HostSent
        BY <1>0, <2>1 DEF HostTook, HostSent
    <2>3. HostTook' = HostTook + 1
        BY <2>2
    <2> QED BY <2>1, <2>2, <2>3, HostReads
<1>4. CASE HostReceiveBpsKeys
    <2>1. /\ hpc = "bps keys" /\ hpc' = "bps query" /\ driver = "ratio"
          /\ UNCHANGED <<toClient, cpc>>
          /\ toHost # << >> /\ toHost' = Tail(toHost)
        BY <1>4 DEF HostReceiveBpsKeys, ReceiveAtHost, clientVars, SetupInv
    <2>2. HostTook = 3 /\ HostTook' = 4 /\ HostSent' = HostSent
        BY <1>0, <2>1 DEF HostTook, HostSent
    <2>3. HostTook' = HostTook + 1
        BY <2>2
    <2> QED BY <2>1, <2>2, <2>3, HostReads
<1>5. ASSUME NEW r0 \in [Features -> [1 .. batchH -> Value]], HostAnswerBpsQuery(r0)
      PROVE  FlowInv'
    <2>1. /\ hpc = "bps query" /\ hpc' = "done" /\ cpc' = cpc
          /\ toHost # << >> /\ toHost' = Tail(toHost)
          /\ toClient' = Append(toClient, Message("bps response", Share1(Head(toHost).body, r0)))
          /\ result0' = r0 /\ bpsKey' = bpsKey
          /\ BpsQuery' = BpsQuery
        BY <1>5 DEF HostAnswerBpsQuery, ReceiveAtHost, SendToClient, clientVars, BpsQuery
    <2>2. HostSent = 1 /\ HostSent' = 2
        BY <2>1 DEF HostSent
    <2>3. HostTook' = HostTook + 1
        <3>1. CASE driver = "ratio"
            <4>1. HostTook = 4 /\ HostTook' = 5
                BY <1>0, <2>1, <3>1 DEF HostTook
            <4> QED BY <4>1
        <3>2. CASE driver # "ratio"
            <4>1. HostTook = 3 /\ HostTook' = 4
                BY <1>0, <2>1, <3>2 DEF HostTook
            <4> QED BY <4>1
        <3> QED BY <3>1, <3>2
    <2>4. Head(toHost) = Message("bps query", BpsQuery)
        <3>1. HostTook \in Nat /\ ClientSent \in Nat /\ Holds(toHost, ToHostMessages, HostTook, ClientSent)
            BY Counts DEF FlowInv
        <3>2. Head(toHost) = ToHostMessages[HostTook']
            BY <2>1, <2>3, <3>1, FirstMessage
        <3> QED BY <2>1, <2>3, <3>2, Due
    <2>5. Head(toHost).body = BpsQuery
        BY <2>4, Fields
    <2>6. HostSent' = HostSent + 1 /\ HostSent + 1 = 2
        BY <2>2
    <2>7. ToClientMessages'[2] = Message("bps response", Share1(BpsQuery, result0)')
        BY DEF ToClientMessages
    <2>8. Share1(BpsQuery, result0)' = Share1(BpsQuery, r0)
        BY <2>1 DEF Share1
    <2> QED BY <2>1, <2>3, <2>5, <2>6, <2>7, <2>8, HostReads
<1> QED BY <1>1, <1>2, <1>3, <1>4, <1>5

(* Every step keeps the streams as the program points say.                 *)
LEMMA FlowStep == SetupInv /\ FlowInv /\ [Next]_vars => FlowInv'
<1> SUFFICES ASSUME SetupInv, FlowInv, [Next]_vars PROVE FlowInv'
    OBVIOUS
<1>1. BodiesStay
    BY StepKeepsBodies
<1>2. CASE UNCHANGED <<toHost, toClient, cpc, hpc>>
    BY <1>1, <1>2, FlowStays
<1>3. ASSUME HostSetUp \/ ClientSetUp \/ ClientMatchRow \/ (\E r \in PadRows : ClientPad(r)) \/ UNCHANGED vars
      PROVE  UNCHANGED <<toHost, toClient, cpc, hpc>>
    BY <1>3 DEF HostSetUp, ClientSetUp, ClientMatchRow, ClientPad, clientVars, hostVars, vars
<1> QED BY <1>1, <1>2, <1>3, ClientFlow, HostFlow DEF Next, ClientNext, HostNext, Finished

-----------------------------------------------------------------------------
(* The intersection.                                                       *)

Early == {"keys", "query", "response"}  \* the client has no response yet

(* Once the client has the response, it is the one that the host's index   *)
(* and b0s belong to, and the two lists grow together and stay Aligned.    *)
JoinInv ==
    /\ n \in Nat
    /\ clientIds \in [Rows(n) -> Ids]
    /\ clientLabels \in [Rows(n) -> Bit]
    /\ zeros \in Key
    /\ matchRow \in Nat
    /\ lastids \in Seq(Nat)
    /\ newIdAndB1s \in Seq(Answer)
    /\ hpc # "keys" => zeros = "client"
    /\ hpc \notin {"keys", "query"} => index \in Shuffles(n) /\ b0s \in [Rows(n) -> Bit]
    /\ cpc \in Early => newIdAndB1s = << >>
    /\ cpc \notin Early =>
          /\ psiResponse = Response(PsiQuery, index, b0s)
          /\ Len(newIdAndB1s) = Len(lastids)
          /\ Aligned(clientIds, clientLabels, n, index, b0s, matchRow, lastids, newIdAndB1s)
    /\ cpc \notin Early \cup {"match"} => matchRow = n

(* At first nothing of the intersection is known.                          *)
LEMMA JoinInitially == Init => JoinInv
<1> SUFFICES ASSUME Init PROVE JoinInv
    OBVIOUS
<1>1. driver \in Drivers
    BY DEF Init, SetupInit
<1>2. IsFiniteSet(DOMAIN clientIds) /\ clientIds \in [Rows(Cardinality(DOMAIN clientIds)) -> Ids]
    BY <1>1, DriverAssumption DEF Init
<1>3. n \in Nat /\ clientIds \in [Rows(n) -> Ids]
    BY <1>2, FS_CardinalityType DEF Init
<1> QED BY <1>3 DEF Init, EcInit, JoinInv, Key, Early

(* What most steps do to the intersection: nothing.                        *)
LEMMA JoinStays ==
    ASSUME JoinInv, UNCHANGED <<ecVars, n, clientIds, clientLabels, psiResponse>>,
           hpc = "keys" => hpc' = "keys",
           hpc \in {"keys", "query"} => hpc' \in {"keys", "query"},
           cpc' \in Early <=> cpc \in Early,
           cpc' \notin Early \cup {"match"} => cpc \notin Early \cup {"match"} \/ matchRow = n
    PROVE  JoinInv'
<1>1. UNCHANGED <<zeros, b0s, newIdAndB1s, matchRow, lastids, index>>
    BY DEF ecVars
<1>2. Response(PsiQuery, index, b0s)' = Response(PsiQuery, index, b0s)
    BY <1>1 DEF Response, PsiQuery, GenerateQuery
<1>3. Aligned(clientIds, clientLabels, n, index, b0s, matchRow, lastids, newIdAndB1s)' =
      Aligned(clientIds, clientLabels, n, index, b0s, matchRow, lastids, newIdAndB1s)
    BY <1>1 DEF Aligned
<1>4. Rows(n)' = Rows(n) /\ Shuffles(n)' = Shuffles(n) /\ Early' = Early
    BY DEF Rows, Shuffles, Early
<1> QED BY <1>1, <1>2, <1>3, <1>4 DEF JoinInv

(* The key, the shuffle and the response are set before the client reads.  *)
LEMMA HostReceiveKeysJoins ==
    ASSUME JoinInv, FlowInv, BodiesStay, HostReceiveKeys
    PROVE  JoinInv'
<1>1. /\ hpc = "keys" /\ hpc' = "query" /\ toHost # << >> /\ cpc' = cpc
      /\ zeros' = Head(toHost).body
      /\ UNCHANGED <<b0s, newIdAndB1s, matchRow, lastids, index>>
    BY DEF HostReceiveKeys, ReceiveAtHost, SetPublicKey, clientVars
<1>2. Head(toHost) = Message(FirstKeys, "client")
    <2>1. HostTook \in Nat /\ ClientSent \in Nat /\ Holds(toHost, ToHostMessages, HostTook, ClientSent)
        BY Counts DEF FlowInv
    <2>2. HostTook = 0
        BY <1>1 DEF HostTook
    <2>3. \A next : next = HostTook + 1 => Head(toHost) = ToHostMessages[next]
        BY <1>1, <2>1, FirstMessage
    <2> QED BY <1>1, <2>3, Due
<1>3. zeros' = "client"
    BY <1>1, <1>2, Fields
<1>4. cpc \in Early
    BY <1>1, Counts DEF Early
<1>5. n' = n /\ clientIds' = clientIds /\ clientLabels' = clientLabels /\ Rows(n)' = Rows(n)
    BY DEF BodiesStay, Rows
<1> QED BY <1>1, <1>3, <1>4, <1>5 DEF JoinInv, Key, Early

(* The host answers while the client waits for it.                         *)
LEMMA HostAnswerPsiQueryJoins ==
    ASSUME JoinInv, FlowInv, BodiesStay,
           NEW ix \in Shuffles(n), NEW bits \in [Rows(n) -> Bit], HostAnswerPsiQuery(ix, bits)
    PROVE  JoinInv'
<1>1. /\ hpc = "query" /\ hpc' = "lastids" /\ cpc' = cpc
      /\ index' = ix /\ b0s' = bits
      /\ UNCHANGED <<zeros, newIdAndB1s, matchRow, lastids>>
    BY DEF HostAnswerPsiQuery, GenerateResponse0, clientVars
<1>2. cpc \in Early
    BY <1>1, Counts DEF Early
<1>3. /\ n' = n /\ clientIds' = clientIds /\ clientLabels' = clientLabels
      /\ Rows(n)' = Rows(n) /\ Shuffles(n)' = Shuffles(n)
    BY DEF BodiesStay, Rows, Shuffles
<1> QED BY <1>1, <1>2, <1>3 DEF JoinInv, Early

(* The response the client reads is the one of the host's index and b0s.   *)
LEMMA ClientReceivePsiResponseJoins ==
    ASSUME JoinInv, FlowInv, BodiesStay, ClientReceivePsiResponse
    PROVE  JoinInv'
<1>1. /\ cpc = "response" /\ cpc' = "match" /\ toClient # << >> /\ hpc' = hpc
      /\ psiResponse' = Head(toClient).body
      /\ matchRow' = 0 /\ lastids' = << >>
      /\ UNCHANGED <<zeros, b0s, newIdAndB1s, index>>
    BY DEF ClientReceivePsiResponse, ReceiveAtClient, BeginMatch, hostVars
<1>2. Head(toClient) = Message("psi response", Response(PsiQuery, index, b0s))
    <2>1. ClientTook \in Nat /\ HostSent \in Nat /\ Holds(toClient, ToClientMessages, ClientTook, HostSent)
        BY Counts DEF FlowInv
    <2>2. \A next : next = ClientTook + 1 => Head(toClient) = ToClientMessages[next]
        BY <1>1, <2>1, FirstMessage
    <2> QED BY <1>1, <2>2, Due
<1>3. psiResponse' = Response(PsiQuery, index, b0s)
    BY <1>1, <1>2, Fields
<1>4. /\ n' = n /\ clientIds' = clientIds /\ clientLabels' = clientLabels
      /\ Rows(n)' = Rows(n) /\ Shuffles(n)' = Shuffles(n) /\ PsiQuery' = PsiQuery
    BY DEF BodiesStay, Rows, Shuffles, PsiQuery, GenerateQuery
<1>5. Response(PsiQuery, index, b0s)' = Response(PsiQuery, index, b0s)
    BY <1>1, <1>4 DEF Response
<1>6. newIdAndB1s = << >> /\ n \in Nat
    BY <1>1 DEF JoinInv, Early
<1>7. Aligned(clientIds, clientLabels, n, index, b0s, 0, << >>, << >>)
    BY <1>6 DEF Aligned, Rows
<1>8. Aligned(clientIds, clientLabels, n, index, b0s, matchRow, lastids, newIdAndB1s)'
    BY <1>1, <1>4, <1>6, <1>7 DEF Aligned
<1>9. << >> \in Seq(Nat)
    OBVIOUS
<1> QED BY <1>1, <1>3, <1>4, <1>5, <1>6, <1>8, <1>9 DEF JoinInv, Early

(* One iteration of the matching loop keeps the lists aligned.             *)
LEMMA ClientMatchRowJoins ==
    ASSUME JoinInv, FlowInv, BodiesStay, ClientMatchRow
    PROVE  JoinInv'
<1>1. cpc = "match" /\ cpc' = "match" /\ hpc' = hpc /\ psiResponse' = psiResponse
    BY DEF ClientMatchRow, clientVars, hostVars
<1>2. /\ n \in Nat /\ clientIds \in [Rows(n) -> Ids] /\ clientLabels \in [Rows(n) -> Bit]
      /\ index \in Shuffles(n) /\ b0s \in [Rows(n) -> Bit]
      /\ newIdAndB1s \in Seq(Answer) /\ lastids \in Seq(Nat)
      /\ Aligned(clientIds, clientLabels, n, index, b0s, matchRow, lastids, newIdAndB1s)
      /\ psiResponse = Response(PsiQuery, index, b0s)
      /\ Len(newIdAndB1s) = Len(lastids)
      /\ matchRow \in Nat
    BY <1>1, Counts DEF JoinInv, Early
<1>3. MatchRow(Response(GenerateQuery(clientIds, clientLabels, n), index, b0s))
    BY <1>2 DEF ClientMatchRow, PsiQuery
<1>4. /\ Aligned(clientIds, clientLabels, n, index, b0s, matchRow', lastids', newIdAndB1s')
      /\ newIdAndB1s' \in Seq(Answer)
      /\ lastids' \in Seq(Nat)
      /\ matchRow' = matchRow + 1
    BY <1>2, <1>3, MatchRowAligned
<1>5. UNCHANGED <<zeros, b0s, index>>
    BY <1>3 DEF MatchRow
<1>6. Len(newIdAndB1s') = Len(lastids')
    <2>1. \/ newIdAndB1s' = newIdAndB1s /\ lastids' = lastids
          \/ \E e, r : newIdAndB1s' = Append(newIdAndB1s, e) /\ lastids' = Append(lastids, r)
        BY <1>3 DEF MatchRow
    <2>2. \A e, r : Len(Append(newIdAndB1s, e)) = Len(newIdAndB1s) + 1 /\ Len(Append(lastids, r)) = Len(lastids) + 1
        BY <1>2
    <2> QED BY <1>2, <2>1, <2>2
<1>7. /\ n' = n /\ clientIds' = clientIds /\ clientLabels' = clientLabels
      /\ Rows(n)' = Rows(n) /\ Shuffles(n)' = Shuffles(n) /\ PsiQuery' = PsiQuery
    BY DEF BodiesStay, Rows, Shuffles, PsiQuery, GenerateQuery
<1>8. Response(PsiQuery, index, b0s)' = Response(PsiQuery, index, b0s)
    BY <1>5, <1>7 DEF Response
<1>9. Aligned(clientIds, clientLabels, n, index, b0s, matchRow, lastids, newIdAndB1s)'
    BY <1>4, <1>5, <1>7 DEF Aligned
<1> QED BY <1>1, <1>2, <1>4, <1>5, <1>6, <1>7, <1>8, <1>9 DEF JoinInv, Early

(* Every step keeps the invariant of the intersection.                     *)
LEMMA JoinStep == SetupInv /\ FlowInv /\ JoinInv /\ [Next]_vars => JoinInv'
<1> SUFFICES ASSUME SetupInv, FlowInv, JoinInv, [Next]_vars PROVE JoinInv'
    OBVIOUS
<1>1. BodiesStay
    BY StepKeepsBodies
<1>2. ASSUME HostSetUp \/ ClientSetUp \/ UNCHANGED vars
      PROVE  JoinInv'
    BY <1>2, JoinStays DEF HostSetUp, ClientSetUp, vars, clientVars, hostVars, settled
<1>3. CASE ClientSendKeys \/ ClientSendPsiQuery
    BY <1>3, JoinStays DEF ClientSendKeys, ClientSendPsiQuery, settled, hostVars, Early
<1>4. CASE ClientSendLastids
    <2>1. cpc = "match" /\ psiResponse.n = n
        BY <1>4 DEF ClientSendLastids, JoinInv, Early, Response, PsiQuery, GenerateQuery
    <2> QED BY <1>4, <2>1, JoinStays DEF ClientSendLastids, settled, hostVars, Early
<1>5. CASE ClientTakeAnswer \/ ClientSendBpsKeys
    BY <1>5, JoinStays DEF ClientTakeAnswer, AfterAnswer, ClientSendBpsKeys, settled, hostVars, Early
<1>6. CASE (\E r \in PadRows : ClientPad(r)) \/ ClientSendBpsQuery \/ ClientReceiveShares
    BY <1>6, JoinStays DEF ClientPad, ClientSendBpsQuery, ClientReceiveShares, settled, hostVars, Early
<1>7. CASE HostReceiveLastids \/ HostReceiveBpsKeys
             \/ \E r0 \in [Features -> [1 .. batchH -> Value]] : HostAnswerBpsQuery(r0)
    BY <1>7, JoinStays DEF HostReceiveLastids, HostReceiveBpsKeys, HostAnswerBpsQuery,
                           settled, clientVars, Early
<1> QED BY <1>1, <1>2, <1>3, <1>4, <1>5, <1>6, <1>7, HostReceiveKeysJoins, HostAnswerPsiQueryJoins,
           ClientReceivePsiResponseJoins, ClientMatchRowJoins DEF Next, ClientNext, HostNext, Finished

-----------------------------------------------------------------------------
(* Stage 2.                                                                *)

Answered == {"bps keys", "pad", "shares", "done"}

\* The host's rows, and what host_n_data - i may give where it is not one.
RowNumber == HostRows \cup {HostN - l : l \in Nat}

\* No two of the client's identifiers are cut to the same prefix.
NoSharedPrefix ==
    \A c, d \in Rows(n) : c # d => ShortOf[clientIds[c]] # ShortOf[clientIds[d]]
Distinct(rs) == \A k, l \in DOMAIN rs : rs[k] = rs[l] => k = l

(* The client's list of rows: the answer first, then the padding.          *)
RowsInv ==
    /\ newIds \in Seq(RowNumber)
    /\ cpc \in Answered =>
          /\ labelShares1 = [k \in DOMAIN newIdAndB1s |-> newIdAndB1s[k].b]
          /\ Len(lastids) <= Len(newIds)
          /\ \A k \in 1 .. Len(lastids) : newIds[k] = newIdAndB1s[k].a
          /\ driver # "count" => newIds \in Seq(HostRows)
          /\ driver # "count" /\ NoSharedPrefix => Distinct(newIds)
    /\ cpc \in {"shares", "done"} => Len(newIds) = batchC
    /\ driver = "ratio" /\ cpc \in {"pad", "shares", "done"} =>
          batchC = PowerOfTwoAbove(Len(lastids))

(* The client has no rows at first.                                        *)
LEMMA RowsInitially == Init => RowsInv
<1>1. << >> \in Seq(RowNumber)
    OBVIOUS
<1> QED BY <1>1 DEF Init, RowsInv, Answered

(* An entry of the answer: its host row is the match of the client row it  *)
(* stands for, and its share complements the host's bit.                   *)
LEMMA AnswerEntry ==
    ASSUME JoinInv, FlowInv, cpc \notin Early, NEW k \in 1 .. Len(lastids)
    PROVE  /\ lastids[k] \in Rows(n)
           /\ index[lastids[k]] \in Rows(n)
           /\ newIdAndB1s[k].a \in HostRows
           /\ newIdAndB1s[k].b \in Bit
           /\ b0s[lastids[k]] \in Bit
           /\ ShortOf[clientIds[index[lastids[k]]]] = ShortOf[HostIds[newIdAndB1s[k].a]]
           /\ Xor(b0s[lastids[k]], newIdAndB1s[k].b) = clientLabels[index[lastids[k]]]
<1>1. /\ n \in Nat /\ index \in Shuffles(n) /\ b0s \in [Rows(n) -> Bit]
      /\ Len(newIdAndB1s) = Len(lastids)
      /\ lastids \in Seq(Nat) /\ newIdAndB1s \in Seq(Answer)
      /\ zeros = "client"
      /\ Aligned(clientIds, clientLabels, n, index, b0s, matchRow, lastids, newIdAndB1s)
    BY Counts DEF JoinInv, Early
<1>2. Len(lastids) \in Nat
    BY <1>1, LenProperties
<1>3. Len(newIdAndB1s) - Len(lastids) + k = k
    BY <1>1, <1>2
<1>4. lastids[k] \in Rows(n)
    <2>1. lastids[k] \in Rows(matchRow) /\ matchRow \in 0 .. n
        BY <1>1 DEF Aligned
    <2> QED BY <1>1, <2>1 DEF Rows
<1>5. index[lastids[k]] \in Rows(n) /\ b0s[lastids[k]] \in Bit
    BY <1>1, <1>4 DEF Shuffles
<1>6. newIdAndB1s[k] \in Answer
    BY <1>1, ElementOfSeq
<1>7. LET e == newIdAndB1s[Len(newIdAndB1s) - Len(lastids) + k]
      IN  /\ ShortOf[clientIds[index[lastids[k]]]] = ShortOf[HostIds[e.a]]
          /\ Xor(b0s[lastids[k]], e.b) = clientLabels[index[lastids[k]]]
    BY <1>1 DEF Aligned
<1> QED BY <1>3, <1>4, <1>5, <1>6, <1>7 DEF Answer

(* Entries that stand for one client row are one entry.                    *)
LEMMA AnswerOnce ==
    ASSUME JoinInv, FlowInv, cpc \notin Early,
           NEW k \in 1 .. Len(lastids), NEW l \in 1 .. Len(lastids),
           index[lastids[k]] = index[lastids[l]]
    PROVE  k = l
<1>1. /\ index \in Shuffles(n) /\ lastids \in Seq(Nat)
      /\ Aligned(clientIds, clientLabels, n, index, b0s, matchRow, lastids, newIdAndB1s)
    BY Counts DEF JoinInv, Early
<1>2. Len(lastids) \in Nat
    BY <1>1, LenProperties
<1>3. lastids[k] \in Rows(n) /\ lastids[l] \in Rows(n)
    BY AnswerEntry
<1>4. lastids[k] = lastids[l]
    BY <1>1, <1>3 DEF Shuffles
<1>5. \A i, j \in 1 .. Len(lastids) : i < j => lastids[i] < lastids[j]
    BY <1>1 DEF Aligned
<1>6. lastids[k] \in Nat /\ lastids[l] \in Nat
    BY <1>1, <1>2
<1>7. ~ (k < l) /\ ~ (l < k)
    BY <1>4, <1>5, <1>6
<1> QED BY <1>2, <1>7

(* Where no prefix is shared, the host rows of the answer are distinct.    *)
LEMMA AnswerDistinct ==
    ASSUME JoinInv, FlowInv, cpc \notin Early, NoSharedPrefix,
           NEW k \in 1 .. Len(lastids), NEW l \in 1 .. Len(lastids),
           newIdAndB1s[k].a = newIdAndB1s[l].a
    PROVE  k = l
<1>1. index[lastids[k]] = index[lastids[l]]
    BY AnswerEntry DEF NoSharedPrefix
<1> QED BY <1>1, AnswerOnce

(* Steps that leave the list and the answer alone.                         *)
LEMMA RowsStay ==
    ASSUME RowsInv, UNCHANGED <<newIds, labelShares1, driver, n, clientIds>>,
           cpc' \in Answered => cpc \in Answered /\ UNCHANGED <<newIdAndB1s, lastids>>,
           cpc' \in {"shares", "done"} => Len(newIds) = batchC /\ batchC' = batchC,
           driver = "ratio" /\ cpc' \in {"pad", "shares", "done"} =>
               batchC' = PowerOfTwoAbove(Len(lastids)) /\ lastids' = lastids
    PROVE  RowsInv'
<1>1. Answered' = Answered /\ NoSharedPrefix' = NoSharedPrefix /\ Distinct(newIds)' = Distinct(newIds)
    BY DEF Answered, NoSharedPrefix, Rows, Distinct
<1>2. RowNumber' = RowNumber
    BY DEF RowNumber
<1> QED BY <1>1, <1>2 DEF RowsInv

(* The split answer is the start of the list of rows.                      *)
LEMMA ClientTakeAnswerRows ==
    ASSUME SetupInv, FlowInv, JoinInv, RowsInv, BodiesStay, ClientTakeAnswer
    PROVE  RowsInv'
<1>1. /\ cpc = "answer" /\ cpc' \in {"bps keys", "pad"} /\ (driver = "ratio" => cpc' = "bps keys")
      /\ newIds' = [k \in DOMAIN newIdAndB1s |-> newIdAndB1s[k].a]
      /\ labelShares1' = [k \in DOMAIN newIdAndB1s |-> newIdAndB1s[k].b]
      /\ UNCHANGED <<driver, n, clientIds, newIdAndB1s, lastids>>
    BY DEF ClientTakeAnswer, AfterAnswer, ecVars, settled, setupVars
<1>2. cpc \notin Early
    BY <1>1 DEF Early
<1>3. newIdAndB1s \in Seq(Answer) /\ Len(newIdAndB1s) = Len(lastids) /\ lastids \in Seq(Nat)
    BY <1>2 DEF JoinInv
<1>4. DOMAIN newIdAndB1s = 1 .. Len(lastids) /\ Len(lastids) \in Nat
    BY <1>3, LenProperties
<1>5. \A k \in 1 .. Len(lastids) : newIdAndB1s[k].a \in HostRows
    <2>1. \A k \in 1 .. Len(newIdAndB1s) : newIdAndB1s[k] \in Answer
        BY <1>3, ElementOfSeq
    <2> QED BY <1>3, <2>1 DEF Answer
<1>6. newIds' \in Seq(HostRows) /\ Len(newIds') = Len(lastids) /\ DOMAIN newIds' = 1 .. Len(lastids)
    <2>1. newIds' = [k \in 1 .. Len(lastids) |-> newIdAndB1s[k].a]
        BY <1>1, <1>4
    <2>2. newIds' \in [1 .. Len(lastids) -> HostRows]
        BY <1>5, <2>1
    <2>3. newIds' \in Seq(HostRows)
        BY <1>4, <2>2, SeqDef
    <2>4. DOMAIN newIds' = 1 .. Len(lastids)
        BY <2>2
    <2> QED BY <1>4, <2>3, <2>4, LenProperties
<1>7. newIds' \in Seq(RowNumber)
    <2>1. HostRows \subseteq RowNumber
        BY DEF RowNumber
    <2>2. newIds' \in [1 .. Len(lastids) -> RowNumber]
        BY <1>6, <2>1, ElementOfSeq
    <2> QED BY <1>4, <2>2, SeqDef
<1>8. ASSUME NoSharedPrefix PROVE Distinct(newIds')
    BY <1>1, <1>2, <1>4, <1>6, <1>8, AnswerDistinct DEF Distinct
<1>9. NoSharedPrefix' = NoSharedPrefix
    BY <1>1 DEF NoSharedPrefix, Rows
<1>10. \A k \in 1 .. Len(lastids) : newIds'[k] = newIdAndB1s[k].a
    BY <1>1, <1>4
<1>11. Len(lastids') <= Len(newIds')
    <2>1. Len(lastids') = Len(lastids)
        BY <1>1
    <2> QED BY <1>4, <1>6, <2>1
<1> QED BY <1>1, <1>6, <1>7, <1>8, <1>9, <1>10, <1>11 DEF RowsInv, Answered

(* A padding row goes to the end of the list and, but in the "count"       *)
(* driver, is a row of the host that is not in it.                         *)
LEMMA ClientPadRows ==
    ASSUME SetupInv, JoinInv, RowsInv, NEW r \in PadRows, ClientPad(r)
    PROVE  RowsInv'
<1>1. /\ cpc = "pad" /\ cpc' = "pad" /\ newIds' = Append(newIds, r)
      /\ UNCHANGED <<driver, n, clientIds, newIdAndB1s, lastids, labelShares1, batchC>>
    BY DEF ClientPad, ecVars, settled, setupVars
<1>2. clientCalls = << >>
    BY <1>1 DEF SetupInv
<1>3. rows = HostN
    BY <1>2, SetupAgrees
<1>4. newIds \in Seq(RowNumber) /\ Len(newIds) \in Nat /\ DOMAIN newIds = 1 .. Len(newIds)
    BY LenProperties DEF RowsInv
<1>5. driver # "count" => r \in HostRows /\ \A k \in DOMAIN newIds : newIds[k] # r
    BY <1>3, DriverAssumption DEF PadRows, Rows
<1>6. r \in RowNumber
    <2>1. CASE driver = "count"
        <3>1. r = HostN - Len(newIds)
            BY <1>3, <2>1 DEF PadRows
        <3> QED BY <1>4, <3>1 DEF RowNumber
    <2>2. CASE driver # "count"
        BY <1>5, <2>2 DEF RowNumber
    <2> QED BY <2>1, <2>2
<1>7. /\ newIds' \in Seq(RowNumber)
      /\ Len(newIds') = Len(newIds) + 1
      /\ \A k \in 1 .. Len(newIds) : newIds'[k] = newIds[k]
      /\ newIds'[Len(newIds) + 1] = r
    BY <1>1, <1>4, <1>6, AppendProperties
<1>8. /\ Len(lastids) \in Nat /\ Len(lastids) <= Len(newIds)
      /\ \A k \in 1 .. Len(lastids) : newIds[k] = newIdAndB1s[k].a
      /\ labelShares1 = [k \in DOMAIN newIdAndB1s |-> newIdAndB1s[k].b]
    BY <1>1, LenProperties DEF RowsInv, JoinInv, Answered
<1>9. Len(lastids) <= Len(newIds') /\ \A k \in 1 .. Len(lastids) : newIds'[k] = newIdAndB1s[k].a
    BY <1>4, <1>7, <1>8
<1>10. driver # "count" => newIds' \in Seq(HostRows)
    BY <1>1, <1>5, AppendProperties DEF RowsInv, Answered
<1>11. ASSUME driver # "count", NoSharedPrefix
       PROVE  Distinct(newIds')
    <2>1. Distinct(newIds)
        BY <1>1, <1>11 DEF RowsInv, Answered
    <2>2. DOMAIN newIds' = 1 .. Len(newIds) + 1
        BY <1>7, LenProperties
    <2>3. \A k \in 1 .. Len(newIds) + 1 : k \in 1 .. Len(newIds) \/ k = Len(newIds) + 1
        BY <1>4
    <2> QED BY <1>4, <1>5, <1>7, <1>11, <2>1, <2>2, <2>3 DEF Distinct
<1>12. NoSharedPrefix' = NoSharedPrefix
    BY <1>1 DEF NoSharedPrefix, Rows
<1>13. RowNumber' = RowNumber /\ Answered' = Answered
    BY DEF RowNumber, Answered
<1>14. driver = "ratio" => batchC = PowerOfTwoAbove(Len(lastids))
    BY <1>1 DEF RowsInv
<1>15. newIds' \in Seq(RowNumber) /\ cpc' \notin {"shares", "done"}
    BY <1>1, <1>7
<1>16. Len(lastids') <= Len(newIds') /\ \A k \in 1 .. Len(lastids') : newIds'[k] = newIdAndB1s'[k].a
    BY <1>1, <1>9
<1>17. labelShares1' = [k \in DOMAIN newIdAndB1s' |-> newIdAndB1s'[k].b]
    BY <1>1, <1>8
<1>18. driver' # "count" => newIds' \in Seq(HostRows)
    BY <1>1, <1>10
<1>19. driver' # "count" /\ NoSharedPrefix' => Distinct(newIds')
    BY <1>1, <1>11, <1>12
<1>20. driver' = "ratio" => batchC' = PowerOfTwoAbove(Len(lastids'))
    BY <1>1, <1>14
<1> QED BY <1>13, <1>15, <1>16, <1>17, <1>18, <1>19, <1>20 DEF RowsInv, Distinct

(* Every step keeps the invariant of the client's rows.                    *)
LEMMA RowsStep == SetupInv /\ FlowInv /\ JoinInv /\ RowsInv /\ [Next]_vars => RowsInv'
<1> SUFFICES ASSUME SetupInv, FlowInv, JoinInv, RowsInv, [Next]_vars PROVE RowsInv'
    OBVIOUS
<1>1. BodiesStay
    BY StepKeepsBodies
<1>2. CASE ClientSetUp \/ ClientSendKeys \/ ClientSendPsiQuery \/ ClientReceivePsiResponse
             \/ ClientMatchRow \/ ClientSendLastids
    <2>1. /\ UNCHANGED <<newIds, labelShares1, driver, n, clientIds>>
          /\ cpc' \notin Answered
        <3>1. CASE ClientSetUp
            <4>1. clientCalls # << >>
                BY <3>1 DEF ClientSetUp, DoConnect, DoListen, DoAccept, Calls
            <4>2. cpc = "keys"
                BY <4>1 DEF SetupInv
            <4> QED BY <3>1, <4>2 DEF ClientSetUp, clientVars, Answered
        <3> QED BY <1>2, <3>1 DEF ClientSendKeys, ClientSendPsiQuery, ClientReceivePsiResponse,
                  ClientMatchRow, ClientSendLastids, settled, setupVars, clientVars, Answered
    <2> QED BY <2>1, RowsStay DEF Answered
<1>3. CASE ClientSendBpsKeys
    <2>1. /\ UNCHANGED <<newIds, labelShares1, driver, n, clientIds, newIdAndB1s, lastids>>
          /\ cpc = "bps keys" /\ cpc' = "pad" /\ batchC' = PowerOfTwoAbove(Len(labelShares1))
        BY <1>3 DEF ClientSendBpsKeys, JoinBatchC, ecVars, settled, setupVars
    <2>2. Len(labelShares1) = Len(lastids)
        <3>1. labelShares1 = [k \in DOMAIN newIdAndB1s |-> newIdAndB1s[k].b]
            BY <2>1 DEF RowsInv, Answered
        <3>2. newIdAndB1s \in Seq(Answer) /\ Len(newIdAndB1s) = Len(lastids)
            BY <2>1 DEF JoinInv, Early
        <3> QED BY <3>1, <3>2
    <2> QED BY <2>1, <2>2, RowsStay DEF Answered
<1>4. CASE ClientSendBpsQuery
    BY <1>4, RowsStay DEF ClientSendBpsQuery, ecVars, settled, setupVars, Answered, RowsInv
<1>5. CASE ClientReceiveShares
    BY <1>5, RowsStay DEF ClientReceiveShares, ecVars, settled, setupVars, Answered, RowsInv
<1>6. CASE HostNext \/ UNCHANGED vars
    <2>1. UNCHANGED <<newIds, labelShares1, batchC, cpc, n, clientIds, driver, newIdAndB1s, lastids>>
        BY <1>6 DEF HostNext, HostSetUp, HostReceiveKeys, SetPublicKey, HostAnswerPsiQuery, GenerateResponse0,
                    HostReceiveLastids, HostReceiveBpsKeys, HostAnswerBpsQuery,
                    clientVars, ecVars, settled, setupVars, vars
    <2> QED BY <2>1, RowsStay DEF RowsInv
<1> QED BY <1>1, <1>2, <1>3, <1>4, <1>5, <1>6, ClientTakeAnswerRows, ClientPadRows
       DEF Next, ClientNext, Finished

\* The host has the intersection.
HostJoined == {"bps keys", "bps query", "done"}

(* What the host holds: the client's key, its label shares, the batch the  *)
(* client will send where it is not given, and its feature shares.         *)
HostSharesInv ==
    /\ bpsKey \in Key
    /\ hpc # "keys" /\ driver # "ratio" => bpsKey = "client"
    /\ hpc \in {"bps query", "done"} => bpsKey = "client"
    /\ hpc \in HostJoined => labelShares0 = ReturnAnswer0(lastids)
    /\ hpc \in HostJoined /\ driver = "ratio" => batchH = PowerOfTwoAbove(Len(lastids))
    /\ hpc = "done" => /\ result0 \in [Features -> [1 .. batchC -> Value]]
                       /\ saved0 = Saved(result0, labelShares0)

\* What the client holds in the end.
ClientSharesInv ==
    cpc = "done" => /\ result1 = [f \in Features |-> Kept(Share1(BpsQuery, result0)[f])]
                    /\ saved1 = Saved(result1, labelShares1)

(* No shares at first.                                                     *)
LEMMA SharesInitially == Init => HostSharesInv /\ ClientSharesInv
BY DEF Init, HostSharesInv, ClientSharesInv, HostJoined, Key

(* Steps that leave what the host holds alone.                             *)
LEMMA HostSharesStay ==
    ASSUME HostSharesInv, FlowInv, BodiesStay,
           UNCHANGED <<hpc, bpsKey, labelShares0, result0, saved0>>,
           hpc # "keys" => batchH' = batchH
    PROVE  HostSharesInv'
<1>1. driver' = driver
    BY DEF BodiesStay
<1>2. hpc \in HostJoined => lastids' = lastids /\ b0s' = b0s
    BY Counts DEF HostJoined, BodiesStay
<1>3. hpc \in HostJoined => ReturnAnswer0(lastids)' = ReturnAnswer0(lastids)
    BY <1>2 DEF ReturnAnswer0
<1>4. hpc = "done" => batchC' = batchC
    BY Counts DEF BodiesStay
<1>5. Saved(result0, labelShares0)' = Saved(result0, labelShares0)
    BY <1>1 DEF Saved
<1>6. HostJoined' = HostJoined /\ (hpc \in HostJoined => hpc # "keys")
    BY DEF HostJoined
<1> QED BY <1>1, <1>2, <1>3, <1>4, <1>5, <1>6 DEF HostSharesInv

(* The next message for the host.                                          *)
LEMMA HeadToHost ==
    ASSUME FlowInv, toHost # << >>
    PROVE  /\ hpc = "keys" => Head(toHost) = Message(FirstKeys, "client")
           /\ hpc = "query" => Head(toHost) = Message("psi query", PsiQuery)
           /\ hpc = "lastids" => Head(toHost) = Message("lastids", lastids)
           /\ hpc = "bps keys" /\ driver = "ratio" => Head(toHost) = Message("pk bps", "client")
           /\ hpc = "bps query" => Head(toHost) = Message("bps query", BpsQuery)
<1>1. HostTook \in Nat /\ ClientSent \in Nat /\ Holds(toHost, ToHostMessages, HostTook, ClientSent)
    BY Counts DEF FlowInv
<1>2. \A next : next = HostTook + 1 => Head(toHost) = ToHostMessages[next]
    BY <1>1, FirstMessage
<1> QED BY <1>2, Due

(* The next message for the client.                                        *)
LEMMA HeadToClient ==
    ASSUME FlowInv, toClient # << >>
    PROVE  /\ cpc = "response" => Head(toClient) = Message("psi response", Response(PsiQuery, index, b0s))
           /\ cpc = "shares" => Head(toClient) = Message("bps response", Share1(BpsQuery, result0))
<1>1. ClientTook \in Nat /\ HostSent \in Nat /\ Holds(toClient, ToClientMessages, ClientTook, HostSent)
    BY Counts DEF FlowInv
<1>2. \A next : next = ClientTook + 1 => Head(toClient) = ToClientMessages[next]
    BY <1>1, FirstMessage
<1> QED BY <1>2, Due

(* Nobody has a message before it is sent.                                 *)
LEMMA NothingSent ==
    ASSUME NEW q, NEW M, NEW g \in Nat, Holds(q, M, g, g)
    PROVE  q = << >>
<1>1. 1 .. g - g = {}
    OBVIOUS
<1> QED BY <1>1 DEF Holds

(* Every step keeps what the host holds.                                   *)
LEMMA HostSharesStep ==
    ASSUME SetupInv, FlowInv, HostSharesInv, BodiesStay, [Next]_vars
    PROVE  HostSharesInv'
<1>0. driver' = driver
    BY DEF BodiesStay
<1>1. CASE HostReceiveKeys
    <2>1. /\ hpc = "keys" /\ hpc' = "query" /\ toHost # << >>
          /\ bpsKey' = IF driver = "ratio" THEN bpsKey ELSE Head(toHost).body
        BY <1>1 DEF HostReceiveKeys, ReceiveAtHost
    <2>2. Head(toHost).body = "client"
        BY <2>1, HeadToHost, Fields
    <2> QED BY <1>0, <2>1, <2>2 DEF HostSharesInv, HostJoined, Key
<1>2. ASSUME NEW ix \in Shuffles(n), NEW bits \in [Rows(n) -> Bit], HostAnswerPsiQuery(ix, bits)
      PROVE  HostSharesInv'
    <2>1. hpc = "query" /\ hpc' = "lastids" /\ bpsKey' = bpsKey
        BY <1>2 DEF HostAnswerPsiQuery
    <2> QED BY <1>0, <2>1 DEF HostSharesInv, HostJoined
<1>3. CASE HostReceiveLastids
    <2>1. /\ hpc = "lastids" /\ hpc' \in HostJoined /\ hpc' # "done" /\ toHost # << >>
          /\ hpc' = "bps query" => driver # "ratio"
          /\ labelShares0' = ReturnAnswer0(Head(toHost).body)
          /\ batchH' = IF driver = "ratio" THEN PowerOfTwoAbove(Len(Head(toHost).body)) ELSE batchH
          /\ bpsKey' = bpsKey
          /\ lastids' = lastids /\ b0s' = b0s
        BY <1>3 DEF HostReceiveLastids, ReceiveAtHost, JoinBatchH, HostJoined, ecVars
    <2>2. Head(toHost).body = lastids
        BY <2>1, HeadToHost, Fields
    <2>3. ReturnAnswer0(lastids)' = ReturnAnswer0(lastids)
        BY <2>1 DEF ReturnAnswer0
    <2>4. labelShares0' = ReturnAnswer0(lastids)'
        BY <2>1, <2>2, <2>3
    <2>5. driver' = "ratio" => batchH' = PowerOfTwoAbove(Len(lastids'))
        BY <1>0, <2>1, <2>2
    <2>6. bpsKey' \in Key /\ (driver' # "ratio" => bpsKey' = "client")
        BY <1>0, <2>1 DEF HostSharesInv
    <2> QED BY <1>0, <2>1, <2>4, <2>5, <2>6 DEF HostSharesInv
<1>4. CASE HostReceiveBpsKeys
    <2>1. /\ hpc = "bps keys" /\ hpc' = "bps query" /\ toHost # << >>
          /\ bpsKey' = Head(toHost).body
          /\ UNCHANGED <<labelShares0, batchH, lastids, b0s>>
        BY <1>4 DEF HostReceiveBpsKeys, ReceiveAtHost, ecVars
    <2>2. driver = "ratio"
        BY <2>1 DEF SetupInv
    <2>3. Head(toHost).body = "client"
        BY <2>1, <2>2, HeadToHost, Fields
    <2>4. ReturnAnswer0(lastids)' = ReturnAnswer0(lastids)
        BY <2>1 DEF ReturnAnswer0
    <2> QED BY <1>0, <2>1, <2>3, <2>4 DEF HostSharesInv, HostJoined, Key
<1>5. ASSUME NEW r0 \in [Features -> [1 .. batchH -> Value]], HostAnswerBpsQuery(r0)
      PROVE  HostSharesInv'
    <2>1. /\ hpc = "bps query" /\ hpc' = "done" /\ toHost # << >>
          /\ Head(toHost).body.batch = batchH
          /\ result0' = r0 /\ saved0' = Saved(r0, labelShares0)
          /\ UNCHANGED <<labelShares0, batchH, lastids, b0s, bpsKey, batchC>>
        BY <1>5 DEF HostAnswerBpsQuery, ReceiveAtHost, ecVars, clientVars
    <2>2. Head(toHost).body = BpsQuery
        BY <2>1, HeadToHost, Fields
    <2>3. batchH = batchC
        <3>1. BpsQuery.batch = batchC
            BY DEF BpsQuery
        <3>2. BpsQuery.batch = batchH
            BY <2>1, <2>2
        <3> QED BY <3>1, <3>2
    <2>4. ReturnAnswer0(lastids)' = ReturnAnswer0(lastids)
        BY <2>1 DEF ReturnAnswer0
    <2>5. saved0' = Saved(result0, labelShares0)'
        BY <1>0, <2>1 DEF Saved
    <2>6. result0' \in [Features -> [1 .. batchC' -> Value]]
        BY <2>1, <2>3
    <2> QED BY <1>0, <2>1, <2>4, <2>5, <2>6 DEF HostSharesInv, HostJoined
<1>6. CASE ClientNext \/ UNCHANGED vars
    <2>1. UNCHANGED <<hpc, bpsKey, labelShares0, result0, saved0, batchH>>
        BY <1>6 DEF ClientNext, ClientSetUp, ClientSendKeys, ClientSendPsiQuery, ClientReceivePsiResponse,
                    ClientMatchRow, ClientSendLastids, ClientTakeAnswer, ClientSendBpsKeys, ClientPad,
                    ClientSendBpsQuery, ClientReceiveShares, hostVars, vars
    <2> QED BY <2>1, HostSharesStay
<1>7. CASE HostSetUp
    <2>1. hostCalls # << >>
        BY <1>7 DEF HostSetUp, DoConnect, DoListen, DoAccept, Calls
    <2>2. hpc = "keys"
        BY <2>1 DEF SetupInv
    <2> QED BY <1>7, <2>2, HostSharesStay DEF HostSetUp
<1> QED BY <1>1, <1>2, <1>3, <1>4, <1>5, <1>6, <1>7 DEF Next, HostNext, Finished

(* Every step keeps what the client holds in the end.                      *)
LEMMA ClientSharesStep ==
    ASSUME SetupInv, FlowInv, ClientSharesInv, BodiesStay, [Next]_vars
    PROVE  ClientSharesInv'
<1>0. driver' = driver
    BY DEF BodiesStay
<1>1. CASE ClientReceiveShares
    <2>1. /\ cpc = "shares" /\ cpc' = "done" /\ toClient # << >>
          /\ result1' = [f \in 0 .. features - 1 |-> Kept(Head(toClient).body[f])]
          /\ saved1' = Saved(result1', labelShares1)
          /\ labelShares1' = labelShares1
          /\ UNCHANGED <<newIds, batchC, bpsKey, result0>>
        BY <1>1 DEF ClientReceiveShares, ReceiveAtClient, hostVars
    <2>2. Head(toClient) = Message("bps response", Share1(BpsQuery, result0))
        BY <2>1, HeadToClient
    <2>3. 0 .. features - 1 = Features
        <3>1. clientCalls = << >>
            BY <2>1 DEF SetupInv
        <3>2. features = FeatureNum
            BY <3>1, SetupAgrees
        <3> QED BY <3>2 DEF Features
    <2>4. Share1(BpsQuery, result0)' = Share1(BpsQuery, result0)
        BY <2>1 DEF Share1, BpsQuery
    <2>5. result1' = [f \in Features |-> Kept(Share1(BpsQuery, result0)[f])]
        <3>1. Head(toClient).body = Share1(BpsQuery, result0)
            BY <2>2, Fields
        <3>2. result1' = [f \in 0 .. features - 1 |-> Kept(Share1(BpsQuery, result0)[f])]
            BY <2>1, <3>1
        <3> QED BY <2>3, <3>2
    <2>6. [f \in Features |-> Kept(Share1(BpsQuery, result0)[f])]'
            = [f \in Features |-> Kept(Share1(BpsQuery, result0)[f])]
        BY <1>0, <2>4 DEF Kept
    <2>7. saved1' = Saved(result1, labelShares1)'
        BY <1>0, <2>1 DEF Saved
    <2> QED BY <2>5, <2>6, <2>7 DEF ClientSharesInv
<1>2. ASSUME cpc' = "done", ~ ClientReceiveShares
      PROVE  cpc = "done" /\ UNCHANGED <<result1, saved1, labelShares1>>
    <2>1. CASE ClientNext
        <3>1. cpc' # "done"
            <4>1. CASE ClientSetUp
                <5>1. clientCalls # << >>
                    BY <4>1 DEF ClientSetUp, DoConnect, DoListen, DoAccept, Calls
                <5>2. cpc = "keys"
                    BY <5>1 DEF SetupInv
                <5> QED BY <4>1, <5>2 DEF ClientSetUp, clientVars
            <4> QED BY <1>2, <2>1, <4>1 DEF ClientNext, ClientSendKeys, ClientSendPsiQuery,
                    ClientReceivePsiResponse, ClientMatchRow, ClientSendLastids, ClientTakeAnswer,
                    AfterAnswer, ClientSendBpsKeys, ClientPad, ClientSendBpsQuery, clientVars
        <3> QED BY <1>2, <3>1
    <2>2. CASE HostNext \/ UNCHANGED vars
        BY <1>2, <2>2 DEF HostNext, HostSetUp, HostReceiveKeys, HostAnswerPsiQuery,
                HostReceiveLastids, HostReceiveBpsKeys, HostAnswerBpsQuery, clientVars, vars
    <2> QED BY <2>1, <2>2 DEF Next, Finished
<1>3. ASSUME cpc = "done", UNCHANGED <<result1, saved1, labelShares1>>
      PROVE  ClientSharesInv'
    <2>1. hpc = "done"
        BY <1>3, Counts
    <2>2. UNCHANGED <<batchC, newIds, bpsKey, result0>>
        BY <1>3, <2>1 DEF BodiesStay
    <2>3. Share1(BpsQuery, result0)' = Share1(BpsQuery, result0)
        BY <2>2 DEF Share1, BpsQuery
    <2>4. [f \in Features |-> Kept(Share1(BpsQuery, result0)[f])]'
            = [f \in Features |-> Kept(Share1(BpsQuery, result0)[f])]
        BY <1>0, <2>3 DEF Kept
    <2>5. Saved(result1, labelShares1)' = Saved(result1, labelShares1)
        BY <1>0, <1>3 DEF Saved
    <2> QED BY <1>3, <2>4, <2>5 DEF ClientSharesInv
<1> QED BY <1>1, <1>2, <1>3 DEF ClientSharesInv

-----------------------------------------------------------------------------
(* What holds in every state.                                              *)

PairInv ==
    /\ SetupInv
    /\ FlowInv
    /\ JoinInv
    /\ RowsInv
    /\ HostSharesInv
    /\ ClientSharesInv

(* Every step keeps the whole invariant.                                   *)
LEMMA PairStep == PairInv /\ [Next]_vars => PairInv'
BY StepKeepsBodies, SetupStep, FlowStep, JoinStep, RowsStep, HostSharesStep, ClientSharesStep DEF PairInv

(* The two processes keep the invariant, whatever their inputs and in      *)
(* every order of their steps.                                             *)
THEOREM Invariance == Spec => []PairInv
<1>1. Init => PairInv
    BY SetupInitially, FlowInitially, JoinInitially, RowsInitially, SharesInitially DEF PairInv
<1> QED BY <1>1, PairStep, PTL DEF Spec

(* A message in a stream is one of those its writer writes.                *)
LEMMA Written ==
    ASSUME NEW q, NEW M, NEW g \in Nat, NEW s \in Nat, Holds(q, M, g, s)
    PROVE  \A k \in DOMAIN q : k \in 1 .. s - g /\ q[k] = M[g + k]
<1>1. q = [i \in 1 .. s - g |-> M[g + i]]
    BY DEF Holds
<1>2. DOMAIN q = 1 .. s - g
    BY <1>1
<1> QED BY <1>1, <1>2

(* The variables of both processes and the messages in the streams have    *)
(* their types.                                                            *)
THEOREM Typed == Spec => []TypeOK
<1>1. PairInv => TypeOK
    <2> SUFFICES ASSUME PairInv PROVE TypeOK
        OBVIOUS
    <2>1. /\ n \in Nat /\ clientIds \in [Rows(n) -> Ids] /\ clientLabels \in [Rows(n) -> Bit]
          /\ zeros \in Key /\ matchRow \in Nat /\ lastids \in Seq(Nat)
          /\ newIdAndB1s \in Seq([a : HostRows, b : Bit])
        BY DEF PairInv, JoinInv, Answer
    <2>2. bpsKey \in Key
        BY DEF PairInv, HostSharesInv
    <2>3. /\ cpc \in {"keys", "query", "response", "match", "answer", "bps keys", "pad", "shares", "done"}
          /\ hpc \in {"keys", "query", "lastids", "bps keys", "bps query", "done"}
          /\ Holds(toHost, ToHostMessages, HostTook, ClientSent)
          /\ Holds(toClient, ToClientMessages, ClientTook, HostSent)
        BY DEF PairInv, FlowInv
    <2>4. /\ ClientSent \in Nat /\ HostTook \in Nat /\ HostSent \in Nat /\ ClientTook \in Nat
          /\ ClientSent <= 5 /\ HostSent <= 2
        BY Counts DEF PairInv
    <2>5. ASSUME NEW k \in DOMAIN toHost PROVE toHost[k].type \in MessageType
        <3>1. k \in 1 .. ClientSent - HostTook /\ toHost[k] = ToHostMessages[HostTook + k]
            <4>1. HostTook \in Nat /\ ClientSent \in Nat /\ Holds(toHost, ToHostMessages, HostTook, ClientSent)
                BY <2>3, <2>4
            <4>2. \A i \in DOMAIN toHost : i \in 1 .. ClientSent - HostTook /\ toHost[i] = ToHostMessages[HostTook + i]
                BY <4>1, Written
            <4> QED BY <4>2
        <3>0. HostTook + k \in 1 .. 5
            BY <2>4, <3>1
        <3>2. \A i \in 1 .. 5 : ToHostMessages[i].type \in MessageType
            BY DEF ToHostMessages, Message, FirstKeys, MessageType
        <3> QED BY <3>0, <3>1, <3>2
    <2>6. ASSUME NEW k \in DOMAIN toClient PROVE toClient[k].type \in {"psi response", "bps response"}
        <3>1. k \in 1 .. HostSent - ClientTook /\ toClient[k] = ToClientMessages[ClientTook + k]
            <4>1. ClientTook \in Nat /\ HostSent \in Nat /\ Holds(toClient, ToClientMessages, ClientTook, HostSent)
                BY <2>3, <2>4
            <4>2. \A i \in DOMAIN toClient : i \in 1 .. HostSent - ClientTook /\ toClient[i] = ToClientMessages[ClientTook + i]
                BY <4>1, Written
            <4> QED BY <4>2
        <3>0. ClientTook + k \in 1 .. 2
            BY <2>4, <3>1
        <3>2. \A i \in 1 .. 2 : ToClientMessages[i].type \in {"psi response", "bps response"}
            BY DEF ToClientMessages, Message
        <3> QED BY <3>0, <3>1, <3>2
    <2> QED BY <2>1, <2>2, <2>3, <2>5, <2>6 DEF TypeOK
<1> QED BY <1>1, Invariance, PTL

(* The next message of a stream is the one the next receive reads: the     *)
(* streams never get out of step, however far the client is ahead.         *)
THEOREM ReadInOrder == Spec => []InOrder
<1>1. PairInv => InOrder
    <2> SUFFICES ASSUME PairInv PROVE InOrder
        OBVIOUS
    <2>1. FlowInv /\ SetupInv
        BY DEF PairInv
    <2>2. /\ HostTook \in Nat /\ HostSent \in Nat
          /\ Holds(toHost, ToHostMessages, HostTook, ClientSent)
          /\ Holds(toClient, ToClientMessages, ClientTook, HostSent)
          /\ cpc \in {"keys", "query", "response", "match", "answer", "bps keys", "pad", "shares", "done"}
          /\ hpc \in {"keys", "query", "lastids", "bps keys", "bps query", "done"}
        BY <2>1, Counts DEF FlowInv
    <2>3. ASSUME toHost # << >> PROVE Head(toHost).type = HostExpects
        <3>1. ASSUME hpc = "done" PROVE HostTook = ClientSent
            <4>1. cpc \in {"shares", "done"}
                BY <2>1, <3>1, Counts
            <4> QED BY <3>1, <4>1 DEF HostTook, ClientSent
        <3>2. hpc # "done"
            BY <2>2, <2>3, <3>1, NothingSent
        <3>3. hpc = "bps keys" => driver = "ratio"
            BY <2>1 DEF SetupInv
        <3>4. CASE hpc = "keys"
            <4>1. Head(toHost).type = FirstKeys
                BY <2>1, <2>3, <3>4, HeadToHost, Fields
            <4> QED BY <3>4, <4>1 DEF HostExpects
        <3>5. CASE hpc = "query"
            <4>1. Head(toHost) = Message("psi query", PsiQuery)
                BY <2>1, <2>3, <3>5, HeadToHost
            <4>2. Message("psi query", PsiQuery).type = "psi query"
                BY Fields
            <4>3. Head(toHost).type = "psi query"
                BY <4>1, <4>2, Zenon
            <4> QED BY <3>5, <4>3 DEF HostExpects
        <3>6. CASE hpc = "lastids"
            <4>1. Head(toHost) = Message("lastids", lastids)
                BY <2>1, <2>3, <3>6, HeadToHost
            <4>2. Message("lastids", lastids).type = "lastids"
                BY Fields
            <4>3. Head(toHost).type = "lastids"
                BY <4>1, <4>2, Zenon
            <4> QED BY <3>6, <4>3 DEF HostExpects
        <3>7. CASE hpc = "bps keys"
            <4>1. Head(toHost) = Message("pk bps", "client")
                BY <2>1, <2>3, <3>3, <3>7, HeadToHost
            <4>2. Message("pk bps", "client").type = "pk bps"
                BY Fields
            <4>3. Head(toHost).type = "pk bps"
                BY <4>1, <4>2, Zenon
            <4> QED BY <3>7, <4>3 DEF HostExpects
        <3>8. CASE hpc = "bps query"
            <4>1. Head(toHost) = Message("bps query", BpsQuery)
                BY <2>1, <2>3, <3>8, HeadToHost
            <4>2. Message("bps query", BpsQuery).type = "bps query"
                BY Fields
            <4>3. Head(toHost).type = "bps query"
                BY <4>1, <4>2, Zenon
            <4> QED BY <3>8, <4>3 DEF HostExpects
        <3> QED BY <2>2, <3>2, <3>4, <3>5, <3>6, <3>7, <3>8
    <2>4. ASSUME toClient # << >>
          PROVE  \/ cpc = "response" /\ Head(toClient).type = "psi response"
                 \/ cpc = "shares" /\ Head(toClient).type = "bps response"
        <3>1. ASSUME cpc \notin {"response", "shares"} PROVE ClientTook = HostSent
            <4>1. CASE cpc \in {"keys", "query"}
                BY <2>1, <4>1, Counts DEF ClientTook, HostSent
            <4>2. CASE cpc \in {"match", "answer", "bps keys", "pad"}
                BY <2>1, <4>2, Counts DEF ClientTook, HostSent
            <4>3. CASE cpc = "done"
                BY <2>1, <4>3, Counts DEF ClientTook, HostSent
            <4> QED BY <2>2, <3>1, <4>1, <4>2, <4>3
        <3>2. cpc \in {"response", "shares"}
            BY <2>2, <2>4, <3>1, NothingSent
        <3>3. CASE cpc = "response"
            <4>1. Head(toClient) = Message("psi response", Response(PsiQuery, index, b0s))
                BY <2>1, <2>4, <3>3, HeadToClient
            <4>2. Message("psi response", Response(PsiQuery, index, b0s)).type = "psi response"
                BY Fields
            <4>3. Head(toClient).type = "psi response"
                BY <4>1, <4>2, Zenon
            <4> QED BY <3>3, <4>3
        <3>4. CASE cpc = "shares"
            <4>1. Head(toClient) = Message("bps response", Share1(BpsQuery, result0))
                BY <2>1, <2>4, <3>4, HeadToClient
            <4>2. Message("bps response", Share1(BpsQuery, result0)).type = "bps response"
                BY Fields
            <4>3. Head(toClient).type = "bps response"
                BY <4>1, <4>2, Zenon
            <4> QED BY <3>4, <4>3
        <3> QED BY <3>2, <3>3, <3>4
    <2> QED BY <2>3, <2>4 DEF InOrder
<1> QED BY <1>1, Invariance, PTL

(* Both processes have one size for every table of stage 2 when they use   *)
(* it: the rows and features at the client, the batch at the host.         *)
THEOREM SizesMeet == Spec => []SizesAgree
<1>1. PairInv => SizesAgree
    <2> SUFFICES ASSUME PairInv PROVE SizesAgree
        OBVIOUS
    <2>1. SetupInv /\ FlowInv /\ RowsInv /\ HostSharesInv
        BY DEF PairInv
    <2>2. cpc # "keys" => features = FeatureNum /\ rows = HostN
        <3>1. cpc # "keys" => clientCalls = << >>
            BY <2>1 DEF SetupInv
        <3> QED BY <2>1, <3>1, SetupAgrees
    <2>3. ASSUME NEW k \in DOMAIN toHost, toHost[k].type = "bps query", hpc \in {"bps keys", "bps query"}
          PROVE  toHost[k].body.batch = batchH
        <3>1. /\ HostTook \in Nat /\ ClientSent \in Nat /\ ClientSent <= 5
              /\ Holds(toHost, ToHostMessages, HostTook, ClientSent)
            BY <2>1, Counts DEF FlowInv
        <3>0. k \in 1 .. ClientSent - HostTook /\ toHost[k] = ToHostMessages[HostTook + k]
            BY <3>1, Written
        <3>2. HostTook + k \in 1 .. 5 /\ HostTook + k <= ClientSent
            BY <3>0, <3>1
        <3>3. ASSUME NEW i \in 1 .. 5, ToHostMessages[i].type = "bps query"
              PROVE  /\ ToHostMessages[i] = Message("bps query", BpsQuery)
                     /\ i = 5 \/ (i = 4 /\ driver # "ratio")
            <4>1. CASE i \in {1, 2, 3} \/ (i = 4 /\ driver = "ratio")
                <5>1. ToHostMessages[i].type \in {"pk all", "pk psi", "psi query", "lastids", "pk bps"}
                    BY <4>1 DEF ToHostMessages, Message, FirstKeys
                <5> QED BY <3>3, <5>1
            <4>2. CASE i = 5
                BY <4>2 DEF ToHostMessages
            <4>3. CASE i = 4 /\ driver # "ratio"
                BY <4>3 DEF ToHostMessages
            <4>4. i \in {1, 2, 3} \/ i = 4 \/ i = 5
                OBVIOUS
            <4> QED BY <4>1, <4>2, <4>3, <4>4
        <3>4. toHost[k].body = BpsQuery
            <4>1. toHost[k] = Message("bps query", BpsQuery)
                BY <2>3, <3>0, <3>2, <3>3
            <4>2. Message("bps query", BpsQuery).body = BpsQuery
                BY Fields
            <4> QED BY <4>1, <4>2, Zenon
        <3>5. cpc \in {"shares", "done"}
            <4>1. ASSUME cpc \notin {"shares", "done"}
                  PROVE  ClientSent \in {0, 1, 2, 3} \/ (driver = "ratio" /\ ClientSent = 4)
                BY <2>1, <4>1 DEF ClientSent, FlowInv
            <4>2. HostTook + k = 5 \/ (HostTook + k = 4 /\ driver # "ratio")
                BY <2>3, <3>0, <3>2, <3>3
            <4>3. HostTook + k <= ClientSent
                BY <3>2
            <4> QED BY <3>1, <4>1, <4>2, <4>3
        <3>6. batchC = batchH
            <4>1. CASE driver = "ratio"
                BY <2>1, <2>3, <3>5, <4>1 DEF RowsInv, HostSharesInv, HostJoined
            <4>2. CASE driver # "ratio"
                <5>1. hostCalls = << >> /\ batchC = n
                    BY <2>1, <2>3, <4>2 DEF SetupInv
                <5> QED BY <2>1, <4>2, <5>1, SetupAgrees
            <4> QED BY <4>1, <4>2
        <3> QED BY <3>4, <3>6 DEF BpsQuery
    <2> QED BY <2>2, <2>3 DEF SizesAgree
<1> QED BY <1>1, Invariance, PTL

(* Every row the client asks for in stage 2 is a row of the host's table,  *)
(* and none is asked for twice, where the padding looks at the list.       *)
THEOREM RowsAreDistinct == Spec => [](driver # "count" => RowsDistinct)
<1>1. PairInv => (driver # "count" => RowsDistinct)
    <2> SUFFICES ASSUME PairInv, driver # "count", cpc = "shares", NoSharedPrefix
                 PROVE  /\ \A k \in DOMAIN newIds : newIds[k] \in HostRows
                        /\ \A k, l \in DOMAIN newIds : newIds[k] = newIds[l] => k = l
        BY DEF RowsDistinct, NoSharedPrefix
    <2>1. newIds \in Seq(HostRows) /\ Distinct(newIds)
        BY DEF PairInv, RowsInv, Answered
    <2> QED BY <2>1, ElementOfSeq, LenProperties DEF Distinct
<1> QED BY <1>1, Invariance, PTL

(* What a party has at one row of the intersection.                        *)
LEMMA HostEntry ==
    ASSUME PairInv, hpc \in HostJoined, NEW k \in 1 .. Len(lastids)
    PROVE  labelShares0[k] = b0s[lastids[k]]
<1>1. lastids \in Seq(Nat) /\ labelShares0 = ReturnAnswer0(lastids)
    BY DEF PairInv, JoinInv, HostSharesInv
<1>2. DOMAIN lastids = 1 .. Len(lastids)
    BY <1>1, LenProperties
<1> QED BY <1>1, <1>2 DEF ReturnAnswer0

(* What the client has at one row of the intersection.                     *)
LEMMA ClientEntry ==
    ASSUME PairInv, cpc \in Answered, NEW k \in 1 .. Len(lastids)
    PROVE  /\ labelShares1[k] = newIdAndB1s[k].b
           /\ newIds[k] = newIdAndB1s[k].a
           /\ newIds[k] \in HostRows
           /\ cpc \in {"shares", "done"} => k \in 1 .. batchC
<1>1. /\ labelShares1 = [i \in DOMAIN newIdAndB1s |-> newIdAndB1s[i].b]
      /\ \A i \in 1 .. Len(lastids) : newIds[i] = newIdAndB1s[i].a
      /\ Len(lastids) <= Len(newIds)
      /\ newIds \in Seq(RowNumber)
      /\ cpc \in {"shares", "done"} => Len(newIds) = batchC
    BY DEF PairInv, RowsInv
<1>2. newIdAndB1s \in Seq(Answer) /\ Len(newIdAndB1s) = Len(lastids) /\ lastids \in Seq(Nat)
    BY DEF PairInv, JoinInv, Answered, Early
<1>3. DOMAIN newIdAndB1s = 1 .. Len(lastids) /\ Len(lastids) \in Nat /\ Len(newIds) \in Nat
    BY <1>1, <1>2, LenProperties
<1>4. newIdAndB1s[k].a \in HostRows
    BY AnswerEntry DEF PairInv, Answered, Early
<1> QED BY <1>1, <1>3, <1>4

(* The client's share of a value complements the host's.                   *)
LEMMA FeatureEntry ==
    ASSUME PairInv, cpc = "done", NEW k \in 1 .. Len(lastids), NEW f \in Features
    PROVE  /\ result0[f][k] \in Value
           /\ Data[f][newIds[k]] \in Value
           /\ result1[f][k] = IF driver = "file"
                                THEN ((Data[f][newIds[k]] - result0[f][k]) % P) - P
                                ELSE (Data[f][newIds[k]] - result0[f][k]) % P
<1>1. hpc = "done" /\ k \in 1 .. batchC /\ newIds[k] \in HostRows
    <2>1. cpc \in Answered
        BY DEF Answered
    <2> QED BY <2>1, Counts, ClientEntry DEF PairInv
<1>2. /\ result0 \in [Features -> [1 .. batchC -> Value]]
      /\ bpsKey = "client"
      /\ result1 = [g \in Features |-> Kept(Share1(BpsQuery, result0)[g])]
    BY <1>1 DEF PairInv, HostSharesInv, ClientSharesInv
<1>3. Data[f][newIds[k]] \in Value
    BY <1>1, DriverAssumption
<1>4. Share1(BpsQuery, result0)[f] =
        [i \in 1 .. batchC |-> (Data[f][newIds[i]] - result0[f][i]) % P]
    BY <1>2 DEF Share1, BpsQuery
<1>5. result1[f] = Kept([i \in 1 .. batchC |-> (Data[f][newIds[i]] - result0[f][i]) % P])
    BY <1>2, <1>4
<1>6. result1[f][k] = IF driver = "file"
                        THEN ((Data[f][newIds[k]] - result0[f][k]) % P) - P
                        ELSE (Data[f][newIds[k]] - result0[f][k]) % P
    BY <1>1, <1>5 DEF Kept
<1> QED BY <1>1, <1>2, <1>3, <1>6

(* In the end both parties have as many label shares as the intersection   *)
(* has rows, and entry by entry they stand for the same client row.        *)
LEMMA SameLength ==
    ASSUME PairInv, cpc = "done"
    PROVE  /\ DOMAIN labelShares0 = 1 .. Len(lastids) /\ Len(labelShares0) = Len(lastids)
           /\ DOMAIN labelShares1 = 1 .. Len(lastids) /\ Len(labelShares1) = Len(lastids)
<1>1. hpc = "done"
    BY Counts DEF PairInv
<1>2. /\ lastids \in Seq(Nat) /\ newIdAndB1s \in Seq(Answer) /\ Len(newIdAndB1s) = Len(lastids)
      /\ labelShares0 = ReturnAnswer0(lastids)
      /\ labelShares1 = [k \in DOMAIN newIdAndB1s |-> newIdAndB1s[k].b]
    BY <1>1 DEF PairInv, JoinInv, HostSharesInv, RowsInv, HostJoined, Answered, Early
<1>3. /\ DOMAIN lastids = 1 .. Len(lastids) /\ DOMAIN newIdAndB1s = 1 .. Len(lastids)
      /\ Len(lastids) \in Nat
    BY <1>2, LenProperties
<1>4. /\ labelShares0 = [k \in 1 .. Len(lastids) |-> b0s[lastids[k]]]
      /\ labelShares1 = [k \in 1 .. Len(lastids) |-> newIdAndB1s[k].b]
    BY <1>2, <1>3 DEF ReturnAnswer0
<1> QED BY <1>3, <1>4

(* When both processes have returned, position k of every output belongs   *)
(* to one client row and its host row: the label shares give its label,    *)
(* the feature shares the host's values.                                   *)
THEOREM OutputsAreAligned == Spec => []OutputsAlign
<1>1. PairInv => OutputsAlign
    <2> SUFFICES ASSUME PairInv, cpc = "done", hpc = "done"
                 PROVE  /\ Len(labelShares0) = Len(labelShares1)
                        /\ \A k \in 1 .. Len(labelShares0) :
                             LET c == index[lastids[k]]
                             IN  /\ ShortOf[clientIds[c]] = ShortOf[HostIds[newIds[k]]]
                                 /\ Xor(labelShares0[k], labelShares1[k]) = clientLabels[c]
                                 /\ \A f \in Features :
                                      (result0[f][k] + result1[f][k]) % P = Data[f][newIds[k]]
        BY DEF OutputsAlign
    <2>1. Len(labelShares0) = Len(lastids) /\ Len(labelShares1) = Len(lastids)
        BY SameLength
    <2>2. cpc \in Answered /\ hpc \in HostJoined /\ cpc \notin Early
        BY DEF Answered, HostJoined, Early
    <2>3. ASSUME NEW k \in 1 .. Len(lastids)
          PROVE  /\ ShortOf[clientIds[index[lastids[k]]]] = ShortOf[HostIds[newIds[k]]]
                 /\ Xor(labelShares0[k], labelShares1[k]) = clientLabels[index[lastids[k]]]
        <3>1. JoinInv /\ FlowInv
            BY DEF PairInv
        <3> QED BY <2>2, <3>1, AnswerEntry, ClientEntry, HostEntry
    <2>4. ASSUME NEW k \in 1 .. Len(lastids), NEW f \in Features
          PROVE  (result0[f][k] + result1[f][k]) % P = Data[f][newIds[k]]
        <3> DEFINE r == result0[f][k]
                   d == Data[f][newIds[k]]
        <3>1. r \in 0 .. P - 1 /\ d \in 0 .. P - 1 /\ P \in Nat \ {0}
            BY FeatureEntry, DriverAssumption DEF Value
        <3>2. result1[f][k] = IF driver = "file" THEN ((d - r) % P) - P ELSE (d - r) % P
            BY FeatureEntry
        <3> HIDE DEF r, d
        <3>3. (r + ((d - r) % P)) % P = d /\ (r + (((d - r) % P) - P)) % P = d
            BY <3>1, ComplementAdds
        <3>4. (r + result1[f][k]) % P = d
            BY <3>2, <3>3
        <3> QED BY <3>4 DEF r, d
    <2> QED BY <2>1, <2>3, <2>4
<1> QED BY <1>1, Invariance, PTL

(* The two files hold the intersection, a line for each of its rows in the *)
(* order of new_ids, and their integers add up to the value or, where the  *)
(* host's share is not above it, to the value less P.                      *)
THEOREM FilesAreAligned == Spec => []FilesAlign
<1>1. PairInv => FilesAlign
    <2> SUFFICES ASSUME PairInv, driver = "file", cpc = "done", hpc = "done"
                 PROVE  /\ Len(saved0) = Len(lastids) /\ Len(saved1) = Len(lastids)
                        /\ \A k \in 1 .. Len(lastids) :
                             /\ Xor(saved0[k].label, saved1[k].label) = clientLabels[index[lastids[k]]]
                             /\ \A f \in Features :
                                  saved0[k].features[f] + saved1[k].features[f] =
                                    IF saved0[k].features[f] > Data[f][newIds[k]]
                                      THEN Data[f][newIds[k]] ELSE Data[f][newIds[k]] - P
        BY DEF FilesAlign
    <2>1. /\ DOMAIN labelShares0 = 1 .. Len(lastids)
          /\ DOMAIN labelShares1 = 1 .. Len(lastids)
          /\ Len(lastids) \in Nat
        BY SameLength, LenProperties DEF PairInv, JoinInv
    <2>2. /\ saved0 = Saved(result0, labelShares0)
          /\ saved1 = Saved(result1, labelShares1)
          /\ result0 \in [Features -> [1 .. batchC -> Value]]
          /\ result1 = [g \in Features |-> Kept(Share1(BpsQuery, result0)[g])]
        BY DEF PairInv, HostSharesInv, ClientSharesInv
    <2>3. DOMAIN result0 = Features /\ DOMAIN result1 = Features
        BY <2>2
    <2>4. /\ saved0 = [k \in 1 .. Len(lastids) |->
                         [features |-> [f \in Features |-> result0[f][k]], label |-> labelShares0[k]]]
          /\ saved1 = [k \in 1 .. Len(lastids) |->
                         [features |-> [f \in Features |-> result1[f][k]], label |-> labelShares1[k]]]
        BY <2>1, <2>2, <2>3 DEF Saved
    <2>5. Len(saved0) = Len(lastids) /\ Len(saved1) = Len(lastids)
        BY <2>1, <2>4
    <2>6. cpc \in Answered /\ hpc \in HostJoined /\ cpc \notin Early /\ JoinInv /\ FlowInv
        BY DEF Answered, HostJoined, Early, PairInv
    <2>7. ASSUME NEW k \in 1 .. Len(lastids)
          PROVE  Xor(saved0[k].label, saved1[k].label) = clientLabels[index[lastids[k]]]
        <3>1. saved0[k].label = labelShares0[k] /\ saved1[k].label = labelShares1[k]
            BY <2>4
        <3>2. Xor(labelShares0[k], labelShares1[k]) = clientLabels[index[lastids[k]]]
            BY <2>6, AnswerEntry, ClientEntry, HostEntry
        <3> QED BY <3>1, <3>2
    <2>8. ASSUME NEW k \in 1 .. Len(lastids), NEW f \in Features
          PROVE  saved0[k].features[f] + saved1[k].features[f] =
                    IF saved0[k].features[f] > Data[f][newIds[k]]
                      THEN Data[f][newIds[k]] ELSE Data[f][newIds[k]] - P
        <3> DEFINE r == result0[f][k]
                   d == Data[f][newIds[k]]
        <3>1. r \in 0 .. P - 1 /\ d \in 0 .. P - 1 /\ P \in Nat \ {0}
            BY FeatureEntry, DriverAssumption DEF Value
        <3>2. result1[f][k] = ((d - r) % P) - P
            BY FeatureEntry
        <3>3. saved0[k].features[f] = r /\ saved1[k].features[f] = ((d - r) % P) - P
            BY <2>4, <3>2
        <3> HIDE DEF r, d
        <3>4. (d - r) % P = IF r > d THEN d - r + P ELSE d - r
            BY <3>1, ModOfDifference
        <3>5. r + (((d - r) % P) - P) = IF r > d THEN d ELSE d - P
            BY <3>1, <3>4
        <3>6. saved0[k].features[f] + saved1[k].features[f] = IF saved0[k].features[f] > d THEN d ELSE d - P
            BY <3>3, <3>5
        <3> QED BY <3>6 DEF d
    <2> QED BY <2>5, <2>7, <2>8
<1> QED BY <1>1, Invariance, PTL

-----------------------------------------------------------------------------
(* The protocol implements Alignment.                                      *)

\* Identifiers are cut to prefixes of their own.
UniquePrefixes == \A a, b \in Ids : ShortOf[a] = ShortOf[b] => a = b

\* What Alignment's variables are here.
Stage == IF cpc = "done" THEN "both"
         ELSE IF hpc = "done" THEN "host"
         ELSE IF Matched THEN "joined" ELSE "start"
Joined == IF Matched
            THEN [k \in DOMAIN lastids |-> [client |-> index[lastids[k]], host |-> newIdAndB1s[k].a]]
            ELSE << >>
HostOut == IF hpc = "done" THEN Output(labelShares0, result0) ELSE << >>
ClientOut == IF cpc = "done" THEN Output(labelShares1, result1) ELSE << >>

\* The two outputs add up to the columns of the join.
Restores(j, a, b) ==
    \A k \in DOMAIN j :
        /\ (a.labels[k] + b.labels[k]) % 2 = clientLabels[j[k].client]
        /\ \A f \in Features :
             (a.features[f][k] + b.features[f][k]) % P = Data[f][j[k].host]

\* The three values an action of Alignment may choose.
JoinHolds == Matched => Abstract!IsJoin(Joined)
HostHolds == hpc = "done" => HostOut \in Abstract!Shares(Len(Joined))
ClientHolds == cpc = "done" => /\ ClientOut \in Abstract!Shares(Len(Joined))
                               /\ Restores(Joined, HostOut, ClientOut)

(* The actions of Alignment in terms of what its variables are here.       *)
LEMMA AbstractActions ==
    /\ UNCHANGED <<clientIds, clientLabels, Stage, Joined, HostOut, ClientOut>>
       => UNCHANGED Abstract!vars
    /\ Abstract!Init <=> Stage = "start" /\ Joined = << >> /\ HostOut = << >> /\ ClientOut = << >>
    /\ /\ Stage = "start" /\ Stage' = "joined" /\ Abstract!IsJoin(Joined')
       /\ UNCHANGED <<clientIds, clientLabels, HostOut, ClientOut>>
       => Abstract!Join
    /\ /\ Stage = "joined" /\ Stage' = "host" /\ HostOut' \in Abstract!Shares(Len(Joined))
       /\ UNCHANGED <<clientIds, clientLabels, Joined, ClientOut>>
       => Abstract!HostOutput
    /\ /\ Stage = "host" /\ Stage' = "both" /\ ClientOut' \in Abstract!Shares(Len(Joined))
       /\ Restores(Joined, HostOut, ClientOut')
       /\ UNCHANGED <<clientIds, clientLabels, Joined, HostOut>>
       => Abstract!ClientOutput
<1>1. UNCHANGED <<clientIds, clientLabels, Stage, Joined, HostOut, ClientOut>>
      => UNCHANGED Abstract!vars
    BY DEF Abstract!vars, Stage, Joined, HostOut, ClientOut
<1>2. Abstract!Init <=> Stage = "start" /\ Joined = << >> /\ HostOut = << >> /\ ClientOut = << >>
    BY DEF Abstract!Init, Stage, Joined, HostOut, ClientOut
<1>3. /\ Stage = "start" /\ Stage' = "joined" /\ Abstract!IsJoin(Joined')
      /\ UNCHANGED <<clientIds, clientLabels, HostOut, ClientOut>>
      => Abstract!Join
    BY DEF Abstract!Join, Stage, Joined, HostOut, ClientOut
<1>4. /\ Stage = "joined" /\ Stage' = "host" /\ HostOut' \in Abstract!Shares(Len(Joined))
      /\ UNCHANGED <<clientIds, clientLabels, Joined, ClientOut>>
      => Abstract!HostOutput
    BY DEF Abstract!HostOutput, Stage, Joined, HostOut, ClientOut
<1>5. /\ Stage = "host" /\ Stage' = "both" /\ ClientOut' \in Abstract!Shares(Len(Joined))
      /\ Restores(Joined, HostOut, ClientOut')
      /\ UNCHANGED <<clientIds, clientLabels, Joined, HostOut>>
      => Abstract!ClientOutput
    BY DEF Abstract!ClientOutput, Abstract!Reconstructs, Restores, Stage, Joined, HostOut, ClientOut
<1> QED BY <1>1, <1>2, <1>3, <1>4, <1>5

(* The intersection joins the tables.                                      *)
LEMMA TheJoin == UniquePrefixes /\ PairInv => JoinHolds
<1> SUFFICES ASSUME UniquePrefixes, PairInv, Matched PROVE Abstract!IsJoin(Joined)
    BY DEF JoinHolds
<1>1. /\ cpc \notin Early /\ cpc # "match" /\ JoinInv /\ FlowInv
      /\ hpc \notin {"keys", "query"}
    BY Counts DEF Matched, Early, PairInv
<1>2. /\ lastids \in Seq(Nat) /\ index \in Shuffles(n) /\ clientIds \in [Rows(n) -> Ids]
      /\ matchRow = n
      /\ Aligned(clientIds, clientLabels, n, index, b0s, matchRow, lastids, newIdAndB1s)
    BY <1>1 DEF JoinInv
<1>3. Joined = [k \in 1 .. Len(lastids) |-> [client |-> index[lastids[k]], host |-> newIdAndB1s[k].a]]
    BY <1>2, LenProperties DEF Joined
<1>4. ASSUME NEW k \in 1 .. Len(lastids)
      PROVE  HostIds[newIdAndB1s[k].a] = clientIds[index[lastids[k]]]
    <2>1. /\ index[lastids[k]] \in Rows(n) /\ newIdAndB1s[k].a \in HostRows
          /\ ShortOf[clientIds[index[lastids[k]]]] = ShortOf[HostIds[newIdAndB1s[k].a]]
        BY <1>1, AnswerEntry
    <2>2. clientIds[index[lastids[k]]] \in Ids /\ HostIds[newIdAndB1s[k].a] \in Ids
        BY <1>2, <2>1, EcAssumption
    <2> QED BY <2>1, <2>2 DEF UniquePrefixes
<1>5. ASSUME NEW k \in 1 .. Len(lastids), NEW l \in 1 .. Len(lastids),
             index[lastids[k]] = index[lastids[l]]
      PROVE  k = l
    BY <1>1, <1>5, AnswerOnce
<1>6. ASSUME NEW c \in Rows(n), NEW h \in HostRows, clientIds[c] = HostIds[h]
      PROVE  \E k \in 1 .. Len(lastids) : index[lastids[k]] = c
    <2>1. PICK r \in Rows(n) : index[r] = c
        BY <1>2 DEF Shuffles
    <2>2. \E k \in 1 .. Len(lastids) : lastids[k] = r
        BY <1>2, <1>6, <2>1 DEF Aligned
    <2> QED BY <2>1, <2>2
<1>7. DOMAIN clientIds = Rows(n)
    BY <1>2
<1>8. DOMAIN Joined = 1 .. Len(lastids)
    BY <1>3
<1>9. \A k \in 1 .. Len(lastids) : Joined[k].client = index[lastids[k]] /\ Joined[k].host = newIdAndB1s[k].a
    BY <1>3
<1> QED BY <1>4, <1>5, <1>6, <1>7, <1>8, <1>9 DEF Abstract!IsJoin

(* The host's output has a share for every row of the join.                *)
LEMMA TheHostOutput == PairInv => HostHolds
<1> SUFFICES ASSUME PairInv, hpc = "done" PROVE HostOut \in Abstract!Shares(Len(Joined))
    BY DEF HostHolds
<1>1. /\ cpc \in {"shares", "done"} /\ JoinInv /\ FlowInv
      /\ labelShares0 = ReturnAnswer0(lastids)
      /\ result0 \in [Features -> [1 .. batchC -> Value]]
    BY Counts DEF PairInv, HostSharesInv, HostJoined
<1>2. cpc \in Answered /\ cpc \notin Early /\ Matched /\ hpc \in HostJoined
    BY <1>1 DEF Answered, Early, Matched, HostJoined
<1>3. lastids \in Seq(Nat) /\ DOMAIN lastids = 1 .. Len(lastids) /\ Len(lastids) \in Nat
    BY <1>1, LenProperties DEF JoinInv
<1>4. Len(Joined) = Len(lastids)
    BY <1>2, <1>3 DEF Joined
<1>5. labelShares0 \in [1 .. Len(lastids) -> Bit]
    <2>1. labelShares0 = [k \in 1 .. Len(lastids) |-> b0s[lastids[k]]]
        BY <1>1, <1>3 DEF ReturnAnswer0
    <2>2. \A k \in 1 .. Len(lastids) : b0s[lastids[k]] \in Bit
        BY <1>1, <1>2, AnswerEntry
    <2> QED BY <2>1, <2>2
<1>6. Len(labelShares0) = Len(lastids)
    BY <1>3, <1>5
<1>7. ASSUME NEW f \in Features, NEW k \in 1 .. Len(lastids)
      PROVE  result0[f][k] % P \in Value
    <2>1. k \in 1 .. batchC
        BY <1>1, <1>2, ClientEntry
    <2>2. result0[f][k] \in 0 .. P - 1 /\ P \in Nat \ {0}
        BY <1>1, <2>1, DriverAssumption DEF Value
    <2>3. result0[f][k] \in Int
        BY <2>2
    <2> HIDE DEF Features
    <2> QED BY <2>2, <2>3, DivMod DEF Value
<1>8. HostOut = [labels |-> labelShares0,
                 features |-> [f \in Features |-> [k \in 1 .. Len(lastids) |-> result0[f][k] % P]]]
    BY <1>6 DEF HostOut, Output
<1>9. [f \in Features |-> [k \in 1 .. Len(lastids) |-> result0[f][k] % P]]
        \in [Features -> [1 .. Len(lastids) -> Value]]
    BY <1>7
<1> QED BY <1>4, <1>5, <1>8, <1>9 DEF Abstract!Shares, Abstract!Bit, Bit, Abstract!Value, Value

(* The client's output complements it.                                     *)
LEMMA TheClientOutput == PairInv => ClientHolds
<1> SUFFICES ASSUME PairInv, cpc = "done"
             PROVE  /\ ClientOut \in Abstract!Shares(Len(Joined))
                    /\ Restores(Joined, HostOut, ClientOut)
    BY DEF ClientHolds
<1>1. /\ hpc = "done" /\ JoinInv /\ FlowInv
      /\ labelShares1 = [k \in DOMAIN newIdAndB1s |-> newIdAndB1s[k].b]
    BY Counts DEF PairInv, RowsInv, Answered
<1>2. cpc \in Answered /\ cpc \notin Early /\ Matched /\ hpc \in HostJoined
    BY <1>1 DEF Answered, Early, Matched, HostJoined
<1>3. /\ lastids \in Seq(Nat) /\ DOMAIN lastids = 1 .. Len(lastids) /\ Len(lastids) \in Nat
      /\ Len(labelShares0) = Len(lastids) /\ Len(labelShares1) = Len(lastids)
      /\ DOMAIN labelShares1 = 1 .. Len(lastids)
    BY <1>1, LenProperties, SameLength DEF JoinInv
<1>4. Joined = [k \in 1 .. Len(lastids) |-> [client |-> index[lastids[k]], host |-> newIdAndB1s[k].a]]
    BY <1>2, <1>3 DEF Joined
<1>5. Len(Joined) = Len(lastids) /\ DOMAIN Joined = 1 .. Len(lastids)
    BY <1>3, <1>4
<1>6. ASSUME NEW k \in 1 .. Len(lastids)
      PROVE  /\ Joined[k].client = index[lastids[k]] /\ Joined[k].host = newIds[k]
             /\ labelShares1[k] \in Bit
             /\ (labelShares0[k] + labelShares1[k]) % 2 = clientLabels[index[lastids[k]]]
    <2>1. /\ labelShares0[k] \in Bit /\ labelShares1[k] \in Bit
          /\ Xor(labelShares0[k], labelShares1[k]) = clientLabels[index[lastids[k]]]
          /\ newIds[k] = newIdAndB1s[k].a
        BY <1>1, <1>2, AnswerEntry, HostEntry, ClientEntry
    <2>2. \A a, b \in Bit : (a + b) % 2 = Xor(a, b)
        BY DEF Bit, Xor
    <2> QED BY <1>4, <2>1, <2>2
<1>7. ASSUME NEW f \in Features, NEW k \in 1 .. Len(lastids)
      PROVE  /\ result1[f][k] % P \in Value
             /\ ((result0[f][k] % P) + (result1[f][k] % P)) % P = Data[f][newIds[k]]
    <2> DEFINE r == result0[f][k]
               d == Data[f][newIds[k]]
    <2>1. r \in 0 .. P - 1 /\ d \in 0 .. P - 1 /\ P \in Nat \ {0}
        BY FeatureEntry, DriverAssumption DEF Value
    <2>2. result1[f][k] = IF driver = "file" THEN ((d - r) % P) - P ELSE (d - r) % P
        BY FeatureEntry
    <2> HIDE DEF r, d
    <2>3. /\ (d - r) % P \in 0 .. P - 1
          /\ (r + ((d - r) % P)) % P = d
          /\ (((d - r) % P) - P) % P = (d - r) % P
        BY <2>1, ComplementAdds
    <2>4. ((d - r) % P) % P = (d - r) % P /\ r % P = r
        BY <2>1, <2>3, ModOfSmall
    <2>5. result1[f][k] % P = (d - r) % P
        BY <2>2, <2>3, <2>4
    <2>6. result1[f][k] % P \in Value
        BY <2>3, <2>5 DEF Value
    <2>7. ((r % P) + (result1[f][k] % P)) % P = d
        BY <2>3, <2>4, <2>5
    <2> QED BY <2>6, <2>7 DEF r, d
<1>8. /\ HostOut = [labels |-> labelShares0,
                    features |-> [f \in Features |-> [k \in 1 .. Len(lastids) |-> result0[f][k] % P]]]
      /\ ClientOut = [labels |-> labelShares1,
                      features |-> [f \in Features |-> [k \in 1 .. Len(lastids) |-> result1[f][k] % P]]]
    BY <1>1, <1>3 DEF HostOut, ClientOut, Output
<1>9. ClientOut \in Abstract!Shares(Len(Joined))
    <2>1. labelShares1 \in [1 .. Len(lastids) -> Bit]
        BY <1>1, <1>3, <1>6
    <2>2. [f \in Features |-> [k \in 1 .. Len(lastids) |-> result1[f][k] % P]]
            \in [Features -> [1 .. Len(lastids) -> Value]]
        BY <1>7
    <2> QED BY <1>5, <1>8, <2>1, <2>2 DEF Abstract!Shares, Abstract!Bit, Bit, Abstract!Value, Value
<1>10. ASSUME NEW k \in DOMAIN Joined
       PROVE  /\ (HostOut.labels[k] + ClientOut.labels[k]) % 2 = clientLabels[Joined[k].client]
              /\ \A f \in Features :
                   (HostOut.features[f][k] + ClientOut.features[f][k]) % P = Data[f][Joined[k].host]
    <2>1. k \in 1 .. Len(lastids)
        BY <1>5
    <2>2. HostOut.labels[k] = labelShares0[k] /\ ClientOut.labels[k] = labelShares1[k]
        BY <1>8
    <2>3. ASSUME NEW f \in Features
          PROVE  HostOut.features[f][k] = result0[f][k] % P /\ ClientOut.features[f][k] = result1[f][k] % P
        BY <1>8, <2>1
    <2>4. Joined[k].client = index[lastids[k]] /\ Joined[k].host = newIds[k]
        BY <1>6, <2>1
    <2>5. (labelShares0[k] + labelShares1[k]) % 2 = clientLabels[index[lastids[k]]]
        BY <1>6, <2>1
    <2>6. ASSUME NEW f \in Features
          PROVE  (HostOut.features[f][k] + ClientOut.features[f][k]) % P = Data[f][Joined[k].host]
        <3>1. ((result0[f][k] % P) + (result1[f][k] % P)) % P = Data[f][newIds[k]]
            BY <1>7, <2>1
        <3> QED BY <2>3, <2>4, <3>1
    <2> QED BY <2>2, <2>4, <2>5, <2>6
<1> QED BY <1>9, <1>10 DEF Restores

\* What most steps do to Alignment's variables: nothing.
Silent ==
    /\ Matched' = Matched
    /\ cpc' = "done" <=> cpc = "done"
    /\ hpc' = "done" <=> hpc = "done"
    /\ UNCHANGED <<clientIds, clientLabels>>
    /\ Matched => UNCHANGED <<lastids, index, newIdAndB1s>>
    /\ hpc = "done" => UNCHANGED <<labelShares0, result0>>
    /\ cpc = "done" => UNCHANGED <<labelShares1, result1>>

(* Such a step is a stutter of Alignment.                                  *)
LEMMA SilentStutters ==
    ASSUME Silent
    PROVE  UNCHANGED <<clientIds, clientLabels, Stage, Joined, HostOut, ClientOut>>
BY DEF Silent, Stage, Joined, HostOut, ClientOut, Output

(* All steps but three are such steps.                                     *)
LEMMA SilentSteps ==
    ASSUME PairInv, [Next]_vars,
           ~ ClientSendLastids, ~ ClientReceiveShares,
           ~ \E r0 \in [Features -> [1 .. batchH -> Value]] : HostAnswerBpsQuery(r0)
    PROVE  Silent
<1>1. SetupInv /\ FlowInv
    BY DEF PairInv
<1>2. CASE HostSetUp \/ ClientSetUp
    BY <1>2 DEF HostSetUp, ClientSetUp, ecVars, clientVars, hostVars, Silent, Matched
<1>3. CASE ClientSendKeys \/ ClientSendPsiQuery
    BY <1>3 DEF ClientSendKeys, ClientSendPsiQuery, ecVars, settled, hostVars, Silent, Matched
<1>4. CASE ClientReceivePsiResponse \/ ClientMatchRow
    BY <1>4 DEF ClientReceivePsiResponse, ClientMatchRow, settled, clientVars, hostVars, Silent, Matched
<1>5. CASE ClientTakeAnswer \/ ClientSendBpsKeys
    BY <1>5 DEF ClientTakeAnswer, AfterAnswer, ClientSendBpsKeys, ecVars, settled, hostVars, Silent, Matched
<1>6. CASE (\E r \in PadRows : ClientPad(r)) \/ ClientSendBpsQuery
    BY <1>6 DEF ClientPad, ClientSendBpsQuery, ecVars, settled, hostVars, Silent, Matched
<1>7. CASE HostReceiveKeys
    BY <1>7 DEF HostReceiveKeys, SetPublicKey, settled, clientVars, Silent, Matched
<1>8. ASSUME NEW ix \in Shuffles(n), NEW bits \in [Rows(n) -> Bit], HostAnswerPsiQuery(ix, bits)
      PROVE  Silent
    <2>1. hpc = "query"
        BY <1>8 DEF HostAnswerPsiQuery
    <2>2. ~ Matched
        BY <1>1, <2>1, Counts DEF Matched, FlowInv
    <2> QED BY <1>8, <2>2 DEF HostAnswerPsiQuery, GenerateResponse0, settled, clientVars, Silent, Matched
<1>9. CASE HostReceiveLastids \/ HostReceiveBpsKeys
    BY <1>9 DEF HostReceiveLastids, HostReceiveBpsKeys, ecVars, settled, clientVars, Silent, Matched
<1>10. CASE UNCHANGED vars
    BY <1>10 DEF vars, ecVars, settled, clientVars, hostVars, Silent, Matched
<1> QED BY <1>2, <1>3, <1>4, <1>5, <1>6, <1>7, <1>8, <1>9, <1>10 DEF Next, ClientNext, HostNext, Finished

(* Sending lastids is Alignment's join; the host's and the client's        *)
(* answers in stage 2 are the outputs of their parties.                    *)
LEMMA AbstractStep ==
    PairInv /\ JoinHolds' /\ HostHolds' /\ ClientHolds' /\ [Next]_vars => [Abstract!Next]_(Abstract!vars)
<1> SUFFICES ASSUME PairInv, JoinHolds', HostHolds', ClientHolds', [Next]_vars
             PROVE  Abstract!Next \/ UNCHANGED Abstract!vars
    OBVIOUS
<1>1. FlowInv
    BY DEF PairInv
<1>2. CASE ClientSendLastids
    <2>1. /\ cpc = "match" /\ cpc' = "answer" /\ hpc' = hpc
          /\ UNCHANGED <<clientIds, clientLabels>>
        BY <1>2 DEF ClientSendLastids, settled, hostVars
    <2>2. hpc # "done"
        BY <1>1, <2>1, Counts
    <2>3. Stage = "start" /\ Stage' = "joined" /\ UNCHANGED <<HostOut, ClientOut>>
        BY <2>1, <2>2 DEF Stage, HostOut, ClientOut, Matched
    <2>4. Abstract!IsJoin(Joined')
        BY <2>1 DEF JoinHolds, Matched, Abstract!IsJoin
    <2> QED BY <2>1, <2>3, <2>4, AbstractActions DEF Abstract!Next
<1>3. CASE \E r0 \in [Features -> [1 .. batchH -> Value]] : HostAnswerBpsQuery(r0)
    <2>1. /\ hpc = "bps query" /\ hpc' = "done" /\ cpc' = cpc
          /\ UNCHANGED <<clientIds, clientLabels, lastids, index, newIdAndB1s>>
        BY <1>3 DEF HostAnswerBpsQuery, ecVars, settled, clientVars
    <2>2. cpc # "done" /\ Matched
        BY <1>1, <2>1, Counts DEF Matched
    <2>3. Joined' = Joined
        BY <2>1 DEF Joined, Matched
    <2>4. Stage = "joined" /\ Stage' = "host" /\ ClientOut' = ClientOut
        BY <2>1, <2>2 DEF Stage, ClientOut
    <2>5. HostOut' \in Abstract!Shares(Len(Joined))
        BY <2>1, <2>3 DEF HostHolds, Abstract!Shares
    <2> QED BY <2>1, <2>3, <2>4, <2>5, AbstractActions DEF Abstract!Next
<1>4. CASE ClientReceiveShares
    <2>1. /\ cpc = "shares" /\ cpc' = "done" /\ hpc' = hpc
          /\ UNCHANGED <<clientIds, clientLabels, lastids, index, newIdAndB1s, labelShares0, result0>>
          /\ toClient # << >>
        BY <1>4 DEF ClientReceiveShares, ReceiveAtClient, ecVars, settled, hostVars
    <2>2. hpc = "done"
        <3>1. /\ ClientTook \in Nat /\ HostSent \in Nat
              /\ Holds(toClient, ToClientMessages, ClientTook, HostSent)
            BY <1>1, Counts DEF FlowInv
        <3>2. ClientTook # HostSent
            BY <2>1, <3>1, NothingSent
        <3>3. ClientTook = 1 /\ ClientTook <= HostSent
            BY <2>1, <3>1 DEF ClientTook, Holds
        <3> QED BY <3>2, <3>3 DEF HostSent
    <2>3. Joined' = Joined /\ HostOut' = HostOut
        BY <2>1 DEF Joined, HostOut, Matched, Output
    <2>4. Stage = "host" /\ Stage' = "both"
        BY <2>1, <2>2 DEF Stage
    <2>5. ClientOut' \in Abstract!Shares(Len(Joined))
        BY <2>1, <2>3 DEF ClientHolds, Abstract!Shares
    <2>6. Restores(Joined, HostOut, ClientOut')
        BY <2>1, <2>3 DEF ClientHolds, Restores
    <2> QED BY <2>1, <2>3, <2>4, <2>5, <2>6, AbstractActions DEF Abstract!Next
<1>5. ASSUME Silent PROVE UNCHANGED Abstract!vars
    BY <1>5, SilentStutters, AbstractActions
<1> QED BY <1>2, <1>3, <1>4, <1>5, SilentSteps

(* Where identifiers are cut to prefixes of their own, the two processes   *)
(* implement the alignment of their tables: the join is right and settled  *)
(* once the client has sent lastids, and each output complements the       *)
(* other's, whatever the drivers, batch sizes and padding are.             *)
THEOREM AlignmentImplemented == UniquePrefixes => (Spec => ImplementsAlignment)
<1> SUFFICES ASSUME UniquePrefixes PROVE Spec => ImplementsAlignment
    OBVIOUS
<1>1. Init => Abstract!Init
    BY AbstractActions DEF Init, Stage, Joined, HostOut, ClientOut, Matched
<1>2. PairInv => JoinHolds
    BY TheJoin
<1>3. PairInv /\ JoinHolds' /\ HostHolds' /\ ClientHolds' /\ [Next]_vars => [Abstract!Next]_(Abstract!vars)
    BY AbstractStep
<1> QED BY <1>1, <1>2, <1>3, TheHostOutput, TheClientOutput, Invariance, PTL
       DEF Spec, ImplementsAlignment, Abstract!Spec

-----------------------------------------------------------------------------
(* EcPsi.                                                                  *)

(* The inductive invariant.  The response the client reads is the one the  *)
(* host's current index and b0s belong to, and the loop has kept its lists *)
(* aligned so far.                                                         *)
PlayersInv ==
    /\ PlayersTypeOK
    /\ pc \in {"begin", "match", "done"} => response = Response(query, index, b0s)
    /\ pc \in {"match", "done"} =>
          Aligned(ids, labels, nData, index, b0s, matchRow, lastids, newIdAndB1s)
    /\ pc = "done" => matchRow = nData /\ shares0 = ReturnAnswer0(lastids)

(* Every action of EcPsi keeps the invariant.                              *)
LEMMA PlayersInvStep == PlayersInv /\ [PlayersNext]_playerVars => PlayersInv'
<1> SUFFICES ASSUME PlayersInv, [PlayersNext]_playerVars PROVE PlayersInv'
    OBVIOUS
<1>1. CASE LoadKey
    BY <1>1 DEF LoadKey, SetPublicKey, callerVars, PlayersInv, PlayersTypeOK, Key
<1>2. ASSUME NEW m \in 1 .. MaxBatch, NEW ii \in [Rows(m) -> Ids],
             NEW ll \in [Rows(m) -> Bit], ClientQuery(m, ii, ll)
      PROVE  PlayersInv'
    BY <1>2, RoundsAssumption DEF ClientQuery, ecVars, PlayersInv, PlayersTypeOK
<1>3. ASSUME NEW ix \in Shuffles(nData), NEW bits \in [Rows(nData) -> Bit],
             HostRespond(ix, bits)
      PROVE  PlayersInv'
    <2>1. Response(query, ix, bits)' = Response(query, ix, bits)
        BY <1>3 DEF HostRespond, GenerateResponse0, Response
    <2> QED BY <1>3, <2>1 DEF HostRespond, GenerateResponse0, PlayersInv, PlayersTypeOK
<1>4. CASE ClientBegin
    <2>1. Aligned(ids, labels, nData, index, b0s, 0, << >>, newIdAndB1s)
        BY <1>4 DEF Aligned, Rows, PlayersInv, PlayersTypeOK, ClientBegin
    <2>2. Aligned(ids, labels, nData, index, b0s, matchRow, lastids, newIdAndB1s)'
        BY <1>4, <2>1 DEF ClientBegin, BeginMatch, callerVars, Aligned
    <2> QED BY <1>4, <2>2 DEF ClientBegin, BeginMatch, callerVars, PlayersInv, PlayersTypeOK, Response
<1>5. CASE ClientMatch
    <2>1. /\ Aligned(ids, labels, nData, index, b0s, matchRow', lastids', newIdAndB1s')
          /\ newIdAndB1s' \in Seq(Answer)
          /\ lastids' \in Seq(Nat)
          /\ matchRow' = matchRow + 1
        <3>1. /\ nData \in Nat /\ ids \in [Rows(nData) -> Ids] /\ labels \in [Rows(nData) -> Bit]
              /\ index \in Shuffles(nData) /\ b0s \in [Rows(nData) -> Bit]
              /\ newIdAndB1s \in Seq(Answer) /\ lastids \in Seq(Nat)
              /\ Aligned(ids, labels, nData, index, b0s, matchRow, lastids, newIdAndB1s)
              /\ response = Response(GenerateQuery(ids, labels, nData), index, b0s)
            BY <1>5 DEF ClientMatch, PlayersInv, PlayersTypeOK, Answer
        <3>2. MatchRow(Response(GenerateQuery(ids, labels, nData), index, b0s))
            BY <1>5, <3>1 DEF ClientMatch
        <3> QED BY <3>1, <3>2, MatchRowAligned
    <2>2. Aligned(ids, labels, nData, index, b0s, matchRow, lastids, newIdAndB1s)'
        BY <1>5, <2>1 DEF ClientMatch, MatchRow, callerVars, Aligned
    <2> QED BY <1>5, <2>1, <2>2 DEF ClientMatch, MatchRow, callerVars, PlayersInv, PlayersTypeOK, Response, Answer
<1>6. CASE HostAnswer
    <2>1. Aligned(ids, labels, nData, index, b0s, matchRow, lastids, newIdAndB1s)'
        BY <1>6 DEF HostAnswer, ecVars, PlayersInv, Aligned
    <2> QED BY <1>6, <2>1 DEF HostAnswer, ecVars, PlayersInv, PlayersTypeOK, Response, ReturnAnswer0, GenerateQuery
<1>7. CASE NextRound
    BY <1>7 DEF NextRound, ecVars, callerVars, PlayersInv, PlayersTypeOK
<1>8. CASE UNCHANGED playerVars
    <2>1. pc \in {"match", "done"} =>
             Aligned(ids, labels, nData, index, b0s, matchRow, lastids, newIdAndB1s)'
        BY <1>8 DEF playerVars, ecVars, PlayersInv, Aligned
    <2> QED BY <1>8, <2>1 DEF playerVars, ecVars, PlayersInv, PlayersTypeOK, Response, ReturnAnswer0
<1>9. CASE SkipKey
    BY <1>9 DEF SkipKey, SetPublicKey, callerVars, PlayersInv, PlayersTypeOK
<1> QED BY <1>1, <1>2, <1>3, <1>4, <1>5, <1>6, <1>7, <1>8, <1>9 DEF PlayersNext, PlayersFinished

(* The invariant holds in every reachable state.                           *)
LEMMA PlayersInvariance == PlayersSpec => []PlayersInv
<1>1. PlayersInit => PlayersInv
    BY DEF PlayersInit, EcInit, PlayersInv, PlayersTypeOK, Key
<1> QED BY <1>1, PlayersInvStep, PTL DEF PlayersSpec

(* Every vector keeps the length and type its calls give it.               *)
THEOREM TypeCorrect == PlayersSpec => []PlayersTypeOK
<1>1. PlayersInv => PlayersTypeOK
    BY DEF PlayersInv
<1> QED BY <1>1, PlayersInvariance, PTL

(* At the end of every query the two parties hold shares of the labels of  *)
(* the matched rows, and the client a host row of each.                    *)
THEOREM SharesAreAligned == PlayersSpec => []SharesAlign
<1>1. PlayersInv => SharesAlign
    <2> SUFFICES ASSUME PlayersInv, pc = "done"
                 PROVE  /\ Len(shares0) = Len(lastids)
                        /\ Len(newIdAndB1s) >= Len(lastids)
                        /\ \A k \in 1 .. Len(lastids) :
                             /\ zeros = "client" =>
                                  Xor(shares0[k], newIdAndB1s[Base + k].b) = labels[ClientRow(k)]
                             /\ SameTag(ClientRow(k), newIdAndB1s[Base + k].a)
        BY DEF SharesAlign
    <2>1. DOMAIN lastids = 1 .. Len(lastids) /\ Len(lastids) \in Nat /\ Len(newIdAndB1s) \in Nat
        BY DEF PlayersInv, PlayersTypeOK
    <2>2. shares0 = [k \in 1 .. Len(lastids) |-> b0s[lastids[k]]]
        BY <2>1 DEF PlayersInv, ReturnAnswer0
    <2>3. Len(shares0) = Len(lastids)
        BY <2>1, <2>2
    <2> QED BY <2>1, <2>2, <2>3 DEF PlayersInv, Aligned, SameTag, ClientRow, Base
<1> QED BY <1>1, PlayersInvariance, PTL

(* At the end of every query each client row with a match is listed once,  *)
(* and no other row is.                                                    *)
THEOREM MatchesAreComplete == PlayersSpec => []EveryMatchOnce
<1>1. PlayersInv => EveryMatchOnce
    <2> SUFFICES ASSUME PlayersInv, pc = "done", NEW c \in Rows(nData)
                 PROVE  LET reported == {k \in 1 .. Len(lastids) : ClientRow(k) = c}
                        IN  IF \E h \in HostRows : SameTag(c, h)
                              THEN \E k \in reported : reported = {k}
                              ELSE reported = {}
        BY DEF EveryMatchOnce
    <2> DEFINE reported == {k \in 1 .. Len(lastids) : ClientRow(k) = c}
    <2>1. /\ \A k \in 1 .. Len(lastids) : lastids[k] \in Rows(nData)
          /\ \A j, k \in 1 .. Len(lastids) : j < k => lastids[j] < lastids[k]
          /\ Len(lastids) \in Nat
          /\ lastids \in Seq(Nat)
        BY DEF PlayersInv, Aligned, PlayersTypeOK
    <2>2. \A j, k \in 1 .. Len(lastids) : lastids[j] = lastids[k] => j = k
        BY <2>1
    <2>3. /\ \A r, s \in Rows(nData) : index[r] = index[s] => r = s
          /\ \E s \in Rows(nData) : index[s] = c
        BY DEF PlayersInv, PlayersTypeOK, Shuffles
    <2>4. \A j, k \in reported : j = k
        BY <2>1, <2>2, <2>3 DEF ClientRow
    <2>5. CASE \E h \in HostRows : SameTag(c, h)
        <3>1. PICK r \in Rows(nData) : index[r] = c
            BY <2>3
        <3>2. PICK k \in 1 .. Len(lastids) : lastids[k] = r
            BY <2>5, <3>1 DEF PlayersInv, Aligned, SameTag
        <3>3. k \in reported
            BY <3>1, <3>2 DEF ClientRow
        <3>4. reported = {k}
            BY <2>4, <3>3
        <3> QED BY <2>5, <3>3, <3>4
    <2>6. CASE ~ \E h \in HostRows : SameTag(c, h)
        <3>1. ASSUME NEW k \in reported PROVE FALSE
            <4>1. /\ k \in 1 .. Len(lastids) /\ index[lastids[k]] = c
                  /\ Len(newIdAndB1s) - Len(lastids) + k \in 1 .. Len(newIdAndB1s)
                  /\ newIdAndB1s \in Seq([a : HostRows, b : Bit])
                BY <2>1 DEF ClientRow, PlayersInv, Aligned, PlayersTypeOK
            <4>2. newIdAndB1s[Len(newIdAndB1s) - Len(lastids) + k] \in [a : HostRows, b : Bit]
                BY <4>1, ElementOfSeq
            <4>3. newIdAndB1s[Len(newIdAndB1s) - Len(lastids) + k].a \in HostRows
                BY <4>2
            <4> QED BY <2>6, <4>1, <4>3 DEF PlayersInv, Aligned, SameTag
        <3>2. reported = {}
            BY <3>1
        <3> QED BY <2>6, <3>2
    <2> QED BY <2>5, <2>6
<1> QED BY <1>1, PlayersInvariance, PTL

(* Every listed pair of a client and a host row holds one identifier,      *)
(* unless another identifier of the host has the row's prefix.             *)
THEOREM MatchesAreTrue == PlayersSpec => []TrueMatches
<1>1. PlayersInv => TrueMatches
    <2> SUFFICES ASSUME PlayersInv, pc = "done",
                        NEW k \in 1 .. Len(lastids),
                        \A h \in HostRows :
                            SameTag(ClientRow(k), h) => HostIds[h] = ids[ClientRow(k)]
                 PROVE  HostIds[newIdAndB1s[Base + k].a] = ids[ClientRow(k)]
        BY DEF TrueMatches
    <2> DEFINE h == newIdAndB1s[Base + k].a
    <2>1. SameTag(ClientRow(k), h)
        BY DEF PlayersInv, Aligned, SameTag, ClientRow, Base
    <2>2. h \in HostRows
        <3>1. /\ Base + k \in 1 .. Len(newIdAndB1s)
              /\ newIdAndB1s \in Seq([a : HostRows, b : Bit])
            BY DEF PlayersInv, Aligned, PlayersTypeOK, Base
        <3>2. newIdAndB1s[Base + k] \in [a : HostRows, b : Bit]
            BY <3>1, ElementOfSeq
        <3> QED BY <3>2
    <2> QED BY <2>1, <2>2
<1> QED BY <1>1, PlayersInvariance, PTL
=============================================================================
