-------------------------- MODULE BridgeTcpProofs --------------------------
(***************************************************************************)
(* Proofs about BridgeTcp: what the two programs agree on once both are    *)
(* ready, whatever their versions, whoever loses the race for aux and however *)
(* often the simulator is killed and started again; that a read is answered *)
(* by its own completion; that a DMA call reports only what was done for it; *)
(* and that, with three connections, no receive finds what it did not expect. *)
(* The arguments are about the streams as sequences: who appends what to   *)
(* which (Sends), who takes how much off the front (Takes), and what a step *)
(* that does one of the two keeps.                                         *)
(***************************************************************************)
EXTENDS BridgeTcp, TLAPS, SequenceTheorems, FiniteSetTheorems, FunctionTheorems

StartTypes ==
  /\ version \in [Sides -> {1, 2}] /\ client \in Nat \ {0}
  /\ sock \in [Channels -> Nat] /\ backlog \in [Channels -> Seq(Nat)]
  /\ cliAux \in BOOLEAN /\ offer \in {0, 2, 3} /\ reply \in {0, 2, 3}

(* The connection QEMU takes for ctrl is the first process's, whose other  *)
(* connections are the only ones while it lives; a process started later   *)
(* is never answered.                                                      *)
FirstCtrl ==
  \/ sock["ctrl"] = 1
  \/ sock["ctrl"] = 0 /\ backlog["ctrl"] # <<>> /\ Head(backlog["ctrl"]) = 1
FirstOnly ==
  /\ srv = "ctrl" => sock["ctrl"] = 0
  /\ client # 1 \/ cli \notin {"ctrl", "failed"} => FirstCtrl
  /\ client = 1 =>
       \A ch \in Channels :
         sock[ch] \in {0, 1} /\ \A i \in 1 .. Len(backlog[ch]) : backlog[ch][i] = 1
  /\ reply # 0 => client = 1

(* How far the handshake has come, and what it says of aux. *)
Handshake ==
  /\ reply # 0 <=> cli = "up"
  /\ offer # 0 => srv \in {"ack", "up", "failed"}
  /\ offer = 3 /\ srv = "ack" => SrvAux
  /\ reply # 0 => (reply = 3 <=> cliAux)
  /\ reply = 3 => offer = 3 /\ version["sim"] = 2
  /\ srv = "up" => reply # 0 /\ SrvAux = cliAux /\ version["qemu"] = version["sim"]

StartInv == StartTypes /\ FirstOnly /\ Handshake
-----------------------------------------------------------------------------
LEMMA ConnectKeeps ==
  ASSUME StartInv, NEW ch \in Channels, NEW next \in {"data", "aux", "hello"}, Connect(ch, next),
         cliAux' \in BOOLEAN
  PROVE  StartInv'
<1>1. /\ UNCHANGED <<version, srv, client, sock, offer, reply>> /\ cli' = next /\ cli = ch
      /\ backlog' = [backlog EXCEPT ![ch] = Append(@, client)]
  BY DEF Connect
<1>2. StartTypes /\ FirstOnly /\ Handshake /\ client \in Nat BY DEF StartInv, StartTypes
<1>3. reply = 0 /\ cli # "up" /\ cli' # "up" BY <1>1, <1>2 DEF Handshake, Channels
<1>4. /\ \A c \in Channels : c # ch => backlog'[c] = backlog[c]
      /\ backlog'[ch] = Append(backlog[ch], client) /\ backlog[ch] \in Seq(Nat)
      /\ DOMAIN backlog' = Channels
  BY <1>1, <1>2 DEF StartTypes
<1>5. /\ Append(backlog[ch], client) \in Seq(Nat)
      /\ Len(Append(backlog[ch], client)) = Len(backlog[ch]) + 1
      /\ Append(backlog[ch], client)[Len(backlog[ch]) + 1] = client
      /\ \A i \in 1 .. Len(backlog[ch]) : Append(backlog[ch], client)[i] = backlog[ch][i]
      /\ Len(backlog[ch]) \in Nat
  BY <1>2, <1>4, AppendProperties, LenProperties
<1>6. StartTypes'
  <2>1. backlog' \in [Channels -> Seq(Nat)] BY <1>1, <1>2, <1>5 DEF StartTypes
  <2> QED BY <1>1, <1>2, <2>1 DEF StartTypes
<1>7. FirstOnly'
  <2>1. FirstCtrl'
    <3>1. "ctrl" \in Channels BY DEF Channels
    <3>2. CASE ch # "ctrl"
      <4>1. backlog'["ctrl"] = backlog["ctrl"] BY <1>4, <3>1, <3>2
      <4>2. FirstCtrl BY <1>1, <1>2, <3>2 DEF FirstOnly, Channels
      <4> QED BY <1>1, <4>1, <4>2 DEF FirstCtrl
    <3>3. CASE ch = "ctrl" /\ FirstCtrl
      <4>1. CASE backlog["ctrl"] # <<>>
        <5>1. backlog'["ctrl"] # <<>> /\ Head(backlog'["ctrl"]) = Head(backlog["ctrl"])
          BY <1>4, <3>3, <4>1, AppendProperties, HeadTailProperties, EmptySeq, <1>5
        <5> QED BY <1>1, <3>3, <5>1 DEF FirstCtrl
      <4>2. CASE backlog["ctrl"] = <<>>
        BY <1>1, <3>3, <4>2 DEF FirstCtrl
      <4> QED BY <4>1, <4>2
    <3>4. CASE ch = "ctrl" /\ ~FirstCtrl
      <4>1. client = 1 /\ sock["ctrl"] \in {0, 1} BY <1>2, <3>1, <3>4 DEF FirstOnly
      <4>2. sock["ctrl"] = 0 BY <3>4, <4>1 DEF FirstCtrl
      <4>3. backlog["ctrl"] # <<>> => backlog["ctrl"][1] = 1
        <5>1. backlog["ctrl"] # <<>> => 1 \in 1 .. Len(backlog["ctrl"])
          BY <1>4, <1>5, <3>4, EmptySeq
        <5> QED BY <1>2, <3>1, <4>1, <5>1 DEF FirstOnly
      <4>4. backlog'["ctrl"] # <<>> /\ Head(backlog'["ctrl"]) = 1
        <5>1. backlog'["ctrl"][1] = 1
          <6>1. CASE backlog["ctrl"] = <<>>
            <7>1. Len(backlog["ctrl"]) = 0 BY <6>1
            <7> QED BY <1>4, <1>5, <3>4, <4>1, <7>1
          <6>2. CASE backlog["ctrl"] # <<>>
            <7>1. 1 \in 1 .. Len(backlog["ctrl"]) BY <1>4, <1>5, <3>4, <6>2, EmptySeq
            <7> QED BY <1>4, <1>5, <3>4, <4>3, <6>2, <7>1
          <6> QED BY <6>1, <6>2
        <5>2. backlog'["ctrl"] # <<>> BY <1>4, <1>5, <3>4, EmptySeq
        <5>3. backlog'["ctrl"] \in Seq(Nat) BY <1>4, <1>5, <3>4
        <5> QED BY <5>1, <5>2, <5>3, HeadTailProperties
      <4> QED BY <1>1, <4>2, <4>4 DEF FirstCtrl
    <3> QED BY <3>2, <3>3, <3>4
  <2>2. client = 1 =>
          \A c \in Channels : \A i \in 1 .. Len(backlog'[c]) : backlog'[c][i] = 1
    <3> SUFFICES ASSUME client = 1, NEW c \in Channels, NEW i \in 1 .. Len(backlog'[c])
                 PROVE  backlog'[c][i] = 1
      OBVIOUS
    <3>1. \A k \in 1 .. Len(backlog[c]) : backlog[c][k] = 1 BY <1>2 DEF FirstOnly
    <3>2. CASE c # ch BY <1>4, <3>1, <3>2
    <3>3. CASE c = ch
      <4>1. i \in 1 .. Len(backlog[ch]) \/ i = Len(backlog[ch]) + 1
        BY <1>4, <1>5, <3>3
      <4> QED BY <1>4, <1>5, <3>1, <3>3, <4>1
    <3> QED BY <3>2, <3>3
  <2> QED BY <1>1, <1>2, <1>3, <2>1, <2>2 DEF FirstOnly
<1>8. Handshake' BY <1>1, <1>2, <1>3 DEF Handshake, SrvAux
<1> QED BY <1>6, <1>7, <1>8 DEF StartInv

LEMMA AcceptKeeps ==
  ASSUME StartInv, NEW ch \in Channels, NEW next \in {"data", "aux", "hello"}, Accept(ch, next)
  PROVE  StartInv'
<1>1. /\ UNCHANGED <<version, cli, client, cliAux, offer, reply>> /\ srv' = next /\ srv = ch
      /\ sock' = [sock EXCEPT ![ch] = Head(backlog[ch])]
      /\ backlog' = [backlog EXCEPT ![ch] = Tail(@)] /\ backlog[ch] # <<>>
  BY DEF Accept
<1>2. StartTypes /\ FirstOnly /\ Handshake BY DEF StartInv
<1>3. /\ backlog[ch] \in Seq(Nat) /\ Head(backlog[ch]) = backlog[ch][1]
      /\ Head(backlog[ch]) \in Nat /\ Tail(backlog[ch]) \in Seq(Nat)
      /\ Len(Tail(backlog[ch])) = Len(backlog[ch]) - 1 /\ Len(backlog[ch]) \in Nat \ {0}
      /\ \A i \in 1 .. Len(Tail(backlog[ch])) : Tail(backlog[ch])[i] = backlog[ch][i + 1]
  <2>1. backlog[ch] \in Seq(Nat) BY <1>2 DEF StartTypes
  <2> QED BY <1>1, <2>1, HeadTailProperties, EmptySeq, LenProperties
<1>4. /\ sock'[ch] = Head(backlog[ch]) /\ backlog'[ch] = Tail(backlog[ch])
      /\ \A c \in Channels : c # ch => sock'[c] = sock[c] /\ backlog'[c] = backlog[c]
  BY <1>1, <1>2 DEF StartTypes
<1>5. StartTypes'
  <2>1. sock' \in [Channels -> Nat] /\ backlog' \in [Channels -> Seq(Nat)]
    BY <1>1, <1>2, <1>3 DEF StartTypes
  <2> QED BY <1>1, <1>2, <2>1 DEF StartTypes
<1>6. offer = 0 /\ srv' \notin {"ctrl", "up", "ack"}
  BY <1>1, <1>2 DEF Handshake, Channels
<1>7. FirstOnly'
  <2>1. FirstCtrl => FirstCtrl'
    <3>1. CASE ch = "ctrl"
      <4>1. sock["ctrl"] = 0 BY <1>1, <1>2, <3>1 DEF FirstOnly
      <4> QED BY <1>4, <3>1, <4>1 DEF FirstCtrl
    <3>2. CASE ch # "ctrl" BY <1>4, <3>2 DEF FirstCtrl, Channels
    <3> QED BY <3>1, <3>2
  <2>2. client = 1 =>
          \A c \in Channels :
            sock'[c] \in {0, 1} /\ \A i \in 1 .. Len(backlog'[c]) : backlog'[c][i] = 1
    <3> SUFFICES ASSUME client = 1, NEW c \in Channels
                 PROVE  sock'[c] \in {0, 1} /\ \A i \in 1 .. Len(backlog'[c]) : backlog'[c][i] = 1
      OBVIOUS
    <3>1. sock[c] \in {0, 1} /\ \A k \in 1 .. Len(backlog[c]) : backlog[c][k] = 1
      BY <1>2 DEF FirstOnly
    <3>2. CASE c # ch BY <1>4, <3>1, <3>2
    <3>3. CASE c = ch
      <4>1. 1 \in 1 .. Len(backlog[ch]) BY <1>3
      <4>2. sock'[c] = 1 BY <1>3, <1>4, <3>1, <3>3, <4>1
      <4>3. \A i \in 1 .. Len(Tail(backlog[ch])) : i + 1 \in 1 .. Len(backlog[ch]) BY <1>3
      <4> QED BY <1>3, <1>4, <3>1, <3>3, <4>2, <4>3
    <3> QED BY <3>2, <3>3
  <2> QED BY <1>1, <1>2, <1>6, <2>1, <2>2 DEF FirstOnly
<1>8. Handshake' BY <1>1, <1>2, <1>6 DEF Handshake
<1> QED BY <1>5, <1>7, <1>8 DEF StartInv

(* Steps that move no connection. *)
LEMMA SameConnections ==
  ASSUME FirstOnly, UNCHANGED <<client, sock, backlog>>, srv' # "ctrl" \/ srv = "ctrl",
         cli' \notin {"ctrl", "failed"} => cli \notin {"ctrl", "failed"},
         reply' # 0 => client = 1
  PROVE  FirstOnly'
BY DEF FirstOnly, FirstCtrl

LEMMA RunKeepsStart == ASSUME Qemu \/ Poller \/ Simulator PROVE UNCHANGED startVars
<1>1. ASSUME Qemu PROVE UNCHANGED startVars
  BY <1>1 DEF Qemu, Query, Topology, SendTlp, AnnounceTlp, SendVfEvent, Claim, Skip, reading, Answer,
       ClaimClosed, StopPoller, Destroy
<1>2. ASSUME Poller PROVE UNCHANGED startVars
  BY <1>2 DEF Poller, TakeRead, TakeWrite, TakeMsi, PostDma, AnnounceDma, CtrlTorn, PollerEnds
<1>3. ASSUME Simulator PROVE UNCHANGED startVars
  BY <1>3 DEF Simulator, PollCached, DrainTlp, DrainVf, DrainQuery, DrainOther, DrainReturn,
       PollEmpty, PollVf, Exit, Complete, Consume, SyncCpl, RaiseMsi, DmaStart, DmaTlp,
       DmaOther, DmaFails, DmaReply, DmaOthers
<1> QED BY <1>1, <1>2, <1>3

LEMMA NextStart == ASSUME StartInv, [Next]_vars PROVE StartInv'
<1>1. StartTypes /\ FirstOnly /\ Handshake BY DEF StartInv
<1>2. CASE ConnectCtrl \/ ConnectData \/ ConnectAux
  BY <1>1, <1>2, ConnectKeeps DEF ConnectCtrl, ConnectData, ConnectAux, Channels, StartTypes
<1>3. CASE AcceptCtrl \/ AcceptData \/ AcceptAux
  BY <1>3, AcceptKeeps DEF AcceptCtrl, AcceptData, AcceptAux, Channels
<1>4. CASE NoAux
  <2>1. /\ cli = "aux" /\ cli' = "hello"
        /\ UNCHANGED <<version, srv, client, backlog, sock, cliAux, offer, reply>>
    BY <1>4 DEF NoAux
  <2>2. FirstOnly' BY <1>1, <2>1, SameConnections DEF FirstOnly
  <2> QED BY <1>1, <2>1, <2>2 DEF StartInv, StartTypes, Handshake, SrvAux
<1>5. CASE AuxTimesOut
  <2>1. /\ srv = "aux" /\ srv' = "hello"
        /\ UNCHANGED <<version, cli, client, backlog, sock, cliAux, offer, reply>>
    BY <1>5 DEF AuxTimesOut
  <2>2. FirstOnly' BY <1>1, <2>1, SameConnections DEF FirstOnly
  <2> QED BY <1>1, <2>1, <2>2 DEF StartInv, StartTypes, Handshake, SrvAux
<1>6. CASE Hello
  <2>1. /\ srv = "hello" /\ srv' = "ack" /\ offer' = IF SrvAux THEN 3 ELSE 2
        /\ UNCHANGED <<version, cli, client, backlog, sock, cliAux, reply>>
    BY <1>6 DEF Hello
  <2>2. FirstOnly' BY <1>1, <2>1, SameConnections DEF FirstOnly
  <2>3. Handshake' BY <1>1, <2>1 DEF Handshake, SrvAux
  <2> QED BY <1>1, <2>1, <2>2, <2>3 DEF StartInv, StartTypes
<1>7. CASE Reply
  <2>1. /\ cli = "hello" /\ sock["ctrl"] = client /\ cli' = "up"
        /\ reply' = IF CliKeepsAux THEN 3 ELSE 2
        /\ cliAux' = CliKeepsAux
        /\ version' = [version EXCEPT !["sim"] = Agreed]
        /\ UNCHANGED <<srv, client, backlog, sock, offer>>
    BY <1>7 DEF Reply, Greeted
  <2>2. client = 1 BY <1>1, <2>1 DEF FirstOnly, FirstCtrl, StartTypes
  <2>3. Agreed \in {1, 2} BY <1>1 DEF Agreed, StartTypes, Sides
  <2>4. version' \in [Sides -> {1, 2}] /\ version'["sim"] = Agreed
    BY <1>1, <2>1, <2>3 DEF StartTypes, Sides
  <2>5. CliKeepsAux => offer = 3 /\ Agreed = 2 BY DEF CliKeepsAux
  <2>6. StartTypes'
    <3>1. cliAux' \in BOOLEAN BY <1>1, <2>1 DEF CliKeepsAux, StartTypes
    <3>2. reply' \in {0, 2, 3} BY <2>1
    <3> QED BY <1>1, <2>1, <2>4, <3>1, <3>2 DEF StartTypes
  <2>7. FirstOnly' BY <1>1, <2>1, <2>2, SameConnections
  <2>8. srv # "up" BY <1>1, <2>1 DEF Handshake
  <2>9. reply' # 0 /\ (reply' = 3 <=> cliAux') BY <2>1
  <2>10. reply' = 3 => offer' = 3 /\ version'["sim"] = 2 BY <2>1, <2>4, <2>5
  <2>11. Handshake' BY <1>1, <2>1, <2>8, <2>9, <2>10 DEF Handshake, SrvAux
  <2> QED BY <2>6, <2>7, <2>11 DEF StartInv
<1>8. CASE Settle
  <2>1. /\ srv = "ack" /\ srv' = "up" /\ reply # 0
        /\ version' = [version EXCEPT !["qemu"] = version["sim"]]
        /\ sock' = IF version["sim"] < 2 \/ reply < 3 THEN [sock EXCEPT !["aux"] = 0] ELSE sock
        /\ UNCHANGED <<cli, client, backlog, cliAux, offer, reply>>
    BY <1>8 DEF Settle
  <2>2. /\ version' \in [Sides -> {1, 2}] /\ version'["qemu"] = version["sim"]
        /\ version'["sim"] = version["sim"] /\ version["sim"] \in {1, 2}
    BY <1>1, <2>1 DEF StartTypes, Sides
  <2>3. /\ sock' \in [Channels -> Nat] /\ sock'["ctrl"] = sock["ctrl"]
        /\ \A ch \in Channels : sock'[ch] \in {0, sock[ch]}
    BY <1>1, <2>1 DEF StartTypes, Channels
  <2>4. SrvAux' = cliAux
    <3>1. CASE reply = 3
      <4>1. SrvAux /\ cliAux /\ version["sim"] = 2 BY <1>1, <2>1, <3>1 DEF Handshake
      <4>2. sock' = sock BY <2>1, <3>1, <4>1
      <4> QED BY <1>1, <4>1, <4>2 DEF SrvAux, StartTypes
    <3>2. CASE reply = 2
      <4>1. ~cliAux BY <1>1, <2>1, <3>2 DEF Handshake
      <4>2. sock'["aux"] = 0 BY <1>1, <2>1, <3>2 DEF StartTypes, Channels
      <4> QED BY <1>1, <4>1, <4>2 DEF SrvAux, StartTypes
    <3> QED BY <1>1, <2>1, <3>1, <3>2 DEF StartTypes
  <2>5. FirstOnly' BY <1>1, <2>1, <2>3 DEF FirstOnly, FirstCtrl
  <2>6. Handshake' BY <1>1, <2>1, <2>2, <2>4 DEF Handshake
  <2> QED BY <1>1, <2>1, <2>2, <2>3, <2>5, <2>6 DEF StartInv, StartTypes
<1>9. CASE SrvGivesUp
  <2>1. /\ srv = "ack" /\ srv' = "failed"
        /\ UNCHANGED <<version, cli, client, backlog, sock, cliAux, offer, reply>>
    BY <1>9 DEF SrvGivesUp
  <2>2. FirstOnly' BY <1>1, <2>1, SameConnections DEF FirstOnly
  <2> QED BY <1>1, <2>1, <2>2 DEF StartInv, StartTypes, Handshake, SrvAux
<1>10. CASE CliGivesUp
  <2>1. /\ cli # "up" /\ srv = "failed" /\ cli' = "failed"
        /\ UNCHANGED <<version, srv, client, backlog, sock, cliAux, offer, reply>>
    BY <1>10 DEF CliGivesUp
  <2>2. reply = 0 BY <1>1, <2>1 DEF Handshake
  <2>3. FirstOnly' BY <1>1, <2>1, <2>2, SameConnections
  <2> QED BY <1>1, <2>1, <2>2, <2>3 DEF StartInv, StartTypes, Handshake, SrvAux
<1>11. CASE Restart
  <2>1. /\ cli \in {"data", "aux", "hello"} /\ client' = client + 1 /\ cli' = "ctrl"
        /\ cliAux' = FALSE
        /\ UNCHANGED <<version, srv, backlog, sock, offer, reply>>
    BY <1>11 DEF Restart
  <2>2. reply = 0 /\ FirstCtrl BY <1>1, <2>1 DEF Handshake, FirstOnly
  <2>3. client' \in Nat \ {0, 1} BY <1>1, <2>1 DEF StartTypes
  <2>4. FirstOnly' BY <1>1, <2>1, <2>2, <2>3 DEF FirstOnly, FirstCtrl
  <2> QED BY <1>1, <2>1, <2>2, <2>3, <2>4 DEF StartInv, StartTypes, Handshake, SrvAux
<1>12. CASE Qemu \/ Poller \/ Simulator \/ UNCHANGED vars
  <2>4. UNCHANGED startVars BY <1>12, RunKeepsStart DEF vars
  <2>5. StartTypes' BY <1>1, <2>4 DEF startVars, StartTypes
  <2>6. FirstOnly' BY <1>1, <2>4 DEF startVars, FirstOnly, FirstCtrl
  <2>7. Handshake' BY <1>1, <2>4 DEF startVars, Handshake, SrvAux
  <2> QED BY <2>5, <2>6, <2>7 DEF StartInv
<1> QED BY <1>2, <1>3, <1>4, <1>5, <1>6, <1>7, <1>8, <1>9, <1>10, <1>11, <1>12
        DEF Next, Startup

LEMMA InitStart == Init => StartInv
<1> SUFFICES ASSUME Init PROVE StartInv
  OBVIOUS
<1>1. version \in [Sides -> {1, 2}] BY TcpAssumption DEF Init
<1>2. /\ backlog \in [Channels -> Seq(Nat)] /\ sock \in [Channels -> Nat]
      /\ \A ch \in Channels : backlog[ch] = <<>> /\ sock[ch] = 0
  BY DEF Init
<1>3. /\ client = 1 /\ cli = "ctrl" /\ srv = "ctrl" /\ cliAux = FALSE /\ offer = 0 /\ reply = 0
  BY DEF Init
<1>4. StartTypes
  <2>1. cliAux \in BOOLEAN BY <1>3
  <2>2. client \in Nat \ {0} /\ offer \in {0, 2, 3} /\ reply \in {0, 2, 3} BY <1>3
  <2> QED BY <1>1, <1>2, <2>1, <2>2 DEF StartTypes
<1>5. FirstOnly BY <1>2, <1>3 DEF FirstOnly, Channels
<1>6. Handshake BY <1>3 DEF Handshake
<1> QED BY <1>4, <1>5, <1>6 DEF StartInv

(* Both programs ready means one version, one view of aux and connections  *)
(* of one simulator process, for any versions and any number of restarts.  *)
THEOREM StartupAgrees == Spec => []ConnectionsAgreed
<1>1. StartInv /\ [Next]_vars => StartInv' BY NextStart
<1>2. StartInv => ConnectionsAgreed
  BY DEF StartInv, StartTypes, FirstOnly, Handshake, ConnectionsAgreed
<1> QED BY <1>1, <1>2, InitStart, PTL DEF Spec

-----------------------------------------------------------------------------
(* What moves on the streams *)

(* A message with a number its type allows. *)
Message ==
  [m : {"tlp", "cpl"}, id : 1 .. MaxTlps]
    \cup [m : {"dmareq_r", "dmareq_w", "dmadata", "dmacpl"}, id : 1 .. MaxDmas]
    \cup [m : {"vf"}, id : 1 .. MaxVfEvents] \cup [m : {"msi"}, id : 1 .. MaxMsis]
    \cup [m : {"cplready", "query", "topology", "shutdown"}, id : {0}]
Streams == [Sides -> [Channels -> Seq(Message)]]

(* z is q without its first n messages; z is q with w behind it. *)
Drops(q, z, n) ==
  n \in 1 .. Len(q) /\ Len(z) = Len(q) - n /\ \A i \in 1 .. Len(z) : z[i] = q[i + n]
Adds(q, z, w) ==
  /\ Len(z) = Len(q) + Len(w)
  /\ \A i \in 1 .. Len(q) : z[i] = q[i]
  /\ \A i \in 1 .. Len(w) : z[Len(q) + i] = w[i]

LEMMA AddsConcat ==
  ASSUME NEW q \in Seq(Message), NEW w \in Seq(Message)
  PROVE  q \o w \in Seq(Message) /\ Adds(q, q \o w, w)
<1>1. /\ q \o w \in Seq(Message) /\ Len(q \o w) = Len(q) + Len(w)
      /\ \A i \in 1 .. Len(q) + Len(w) :
           (q \o w)[i] = IF i <= Len(q) THEN q[i] ELSE w[i - Len(q)]
  BY ConcatProperties
<1>2. PICK a, b \in Nat : a = Len(q) /\ b = Len(w) BY LenProperties
<1>3. \A i \in 1 .. a : (q \o w)[i] = q[i] BY <1>1, <1>2
<1>4. ASSUME NEW i \in 1 .. b PROVE (q \o w)[a + i] = w[i]
  <2>1. a + i \in 1 .. a + b /\ ~(a + i <= a) /\ (a + i) - a = i BY <1>2
  <2> QED BY <1>1, <1>2, <2>1
<1> QED BY <1>1, <1>2, <1>3, <1>4 DEF Adds

LEMMA DropsSubSeq ==
  ASSUME NEW q \in Seq(Message), NEW n \in 1 .. Len(q)
  PROVE  SubSeq(q, n + 1, Len(q)) \in Seq(Message) /\ Drops(q, SubSeq(q, n + 1, Len(q)), n)
<1>1. PICK a \in Nat : a = Len(q) BY LenProperties
<1>2. PICK z : z = SubSeq(q, n + 1, Len(q)) OBVIOUS
<1>3. \A i \in n + 1 .. a : q[i] \in Message
  <2>1. \A i \in 1 .. a : q[i] \in Message BY <1>1, ElementOfSeq
  <2>2. \A i \in n + 1 .. a : i \in 1 .. a BY <1>1
  <2> QED BY <2>1, <2>2
<1>4. n + 1 \in Int /\ a \in Int /\ n \in Nat BY <1>1
<1>5. /\ z \in Seq(Message) /\ Len(z) = (IF n + 1 <= a THEN a - (n + 1) + 1 ELSE 0)
      /\ \A i \in 1 .. a - (n + 1) + 1 : z[i] = q[(n + 1) + i - 1]
  BY <1>1, <1>2, <1>3, <1>4, SubSeqProperties
<1>6. Len(z) = a - n BY <1>1, <1>4, <1>5
<1>7. ASSUME NEW i \in 1 .. a - n PROVE z[i] = q[i + n]
  <2>1. i \in 1 .. a - (n + 1) + 1 /\ (n + 1) + i - 1 = i + n BY <1>1, <1>4
  <2> QED BY <1>5, <2>1
<1> QED BY <1>1, <1>2, <1>5, <1>6, <1>7 DEF Drops

LEMMA DropsTail ==
  ASSUME NEW q \in Seq(Message), q # <<>>
  PROVE  Tail(q) \in Seq(Message) /\ Drops(q, Tail(q), 1)
<1>1. /\ Tail(q) \in Seq(Message) /\ Len(Tail(q)) = Len(q) - 1 /\ Len(q) \in Nat \ {0}
      /\ \A i \in 1 .. Len(Tail(q)) : Tail(q)[i] = q[i + 1]
  BY HeadTailProperties, EmptySeq
<1> QED BY <1>1 DEF Drops

LEMMA SendEffect ==
  ASSUME net \in Streams, NEW s \in Sides, NEW ch \in Channels, NEW w \in Seq(Message),
         net' = SendTo(s, ch, w)
  PROVE  /\ net' \in Streams /\ net'[s][ch] = net[s][ch] \o w
         /\ Adds(net[s][ch], net'[s][ch], w)
         /\ \A t \in Sides, c \in Channels : t # s \/ c # ch => net'[t][c] = net[t][c]
<1>1. net[s][ch] \in Seq(Message) BY DEF Streams
<1>2. net[s][ch] \o w \in Seq(Message) /\ Adds(net[s][ch], net[s][ch] \o w, w)
  BY <1>1, AddsConcat
<1>3. net' \in Streams /\ net'[s][ch] = net[s][ch] \o w BY <1>2 DEF SendTo, Streams
<1>4. \A t \in Sides, c \in Channels : t # s \/ c # ch => net'[t][c] = net[t][c]
  BY DEF SendTo, Streams
<1> QED BY <1>2, <1>3, <1>4

LEMMA TakeEffect ==
  ASSUME net \in Streams, NEW s \in Sides, NEW ch \in Channels, NEW n \in 1 .. Len(net[s][ch]),
         net' = Taken(s, ch, n)
  PROVE  /\ net' \in Streams /\ Drops(net[s][ch], net'[s][ch], n)
         /\ \A t \in Sides, c \in Channels : t # s \/ c # ch => net'[t][c] = net[t][c]
<1>1. net[s][ch] \in Seq(Message) BY DEF Streams
<1>2. PICK z : z = SubSeq(net[s][ch], n + 1, Len(net[s][ch])) OBVIOUS
<1>3. z \in Seq(Message) /\ Drops(net[s][ch], z, n) BY <1>1, <1>2, DropsSubSeq
<1>4. net' = [net EXCEPT ![s][ch] = z] BY <1>2 DEF Taken
<1>5. net' \in Streams /\ net'[s][ch] = z BY <1>3, <1>4 DEF Streams
<1>6. \A t \in Sides, c \in Channels : t # s \/ c # ch => net'[t][c] = net[t][c]
  BY <1>4 DEF Streams
<1> QED BY <1>3, <1>5, <1>6

(* A notification and what it announces are taken together. *)
TakenTwo(s, b, y) == [net EXCEPT ![s]["ctrl"] = Tail(@), ![s][b] = y]

(* What such a receive does to the streams (bridge_wait_completion, recv_tlp). *)
LEMMA TakeTwoEffect ==
  ASSUME net \in Streams, NEW s \in Sides, NEW b \in {"data", "aux"},
         NEW y \in Seq(Message), NEW n \in Nat, net[s]["ctrl"] # <<>>, Drops(net[s][b], y, n),
         net' = TakenTwo(s, b, y)
  PROVE  /\ net' \in Streams /\ Drops(net[s]["ctrl"], net'[s]["ctrl"], 1)
         /\ net'[s][b] = y
         /\ \A t \in Sides, c \in Channels :
              t # s \/ (c # "ctrl" /\ c # b) => net'[t][c] = net[t][c]
<1>0. "ctrl" \in Channels /\ b \in Channels /\ b # "ctrl" BY DEF Channels
<1>1. net[s]["ctrl"] \in Seq(Message) BY <1>0 DEF Streams
<1>2. PICK x : x = Tail(net[s]["ctrl"]) OBVIOUS
<1>3. x \in Seq(Message) /\ Drops(net[s]["ctrl"], x, 1) BY <1>1, <1>2, DropsTail
<1>4. net' = [net EXCEPT ![s]["ctrl"] = x, ![s][b] = y] BY <1>2 DEF TakenTwo
<1>5. net' \in Streams /\ net'[s]["ctrl"] = x /\ net'[s][b] = y
  <2>1. PICK g : g = [net[s] EXCEPT !["ctrl"] = x, ![b] = y] OBVIOUS
  <2>2. net[s] \in [Channels -> Seq(Message)] BY DEF Streams
  <2>3. g \in [Channels -> Seq(Message)] /\ g["ctrl"] = x /\ g[b] = y
    BY <1>0, <1>3, <2>1, <2>2
  <2>4. net' = [net EXCEPT ![s] = g] BY <1>4, <2>1 DEF Streams
  <2> QED BY <2>3, <2>4 DEF Streams
<1>6. \A t \in Sides, c \in Channels :
        t # s \/ (c # "ctrl" /\ c # b) => net'[t][c] = net[t][c]
  BY <1>0, <1>4 DEF Streams
<1> QED BY <1>3, <1>5, <1>6

(* The types of what runs once both programs are up, and what a state in   *)
(* the middle of a call has to do with.                                    *)
NetTypes == net \in Streams /\ garbled \subseteq Sides \X Channels
QemuTypes ==
  /\ cpu \in {"query", "topology", "idle", "announce", "wait", "joining", "down"}
  /\ tlps \in Seq({"read", "cfgwr"}) /\ Len(tlps) <= MaxTlps
  /\ drops \in 0 .. DrainGuard - 1 /\ ahead \in Nat
  /\ answer \in [for : 0 .. MaxTlps, got : 0 .. MaxTlps, behind : Nat]
  /\ vfSent \in 0 .. MaxVfEvents
  /\ cpu \in {"announce", "wait"} => Len(tlps) > 0
PollerTypes ==
  /\ poller \in {"look", "post", "announce", "gone"}
  /\ serving \in Dmas /\ served \subseteq 1 .. MaxDmas /\ msiSeen \in Nat
  /\ poller \in {"post", "announce"} => serving.id > 0
SimTypes ==
  /\ sim \in {"poll", "drain", "sync", "dma", "exited"}
  /\ cache \in Seq(1 .. MaxTlps) /\ Len(cache) <= CacheSlots /\ ep \subseteq 1 .. MaxTlps
  /\ vfPending \in 0 .. MaxVfEvents /\ vfSeen \in 0 .. MaxVfEvents
  /\ dma \in Dmas /\ tries \in 0 .. WaitLimit /\ msiSent \in 0 .. MaxMsis
  /\ dmaResult \in [id : 0 .. MaxDmas, got : 0 .. MaxDmas, ok : BOOLEAN]
  /\ sim = "dma" => tries < WaitLimit /\ dma.id > 0
TcpTypes == NetTypes /\ QemuTypes /\ PollerTypes /\ SimTypes

Notice(w) ==
  \/ Query /\ w = <<Msg("query", 0)>>
  \/ AnnounceTlp /\ w = <<Msg("tlp", Cur)>>
  \/ SendVfEvent /\ w = <<Msg("vf", vfSent + 1)>>
  \/ Destroy /\ w = <<Msg("shutdown", 0)>>
  \/ AnnounceDma /\ w = <<Msg("dmacpl", serving.id)>>
  \/ CtrlTorn /\ w = <<Msg("tlp", Cur), Msg("dmacpl", serving.id)>>

(* What a step puts on a stream, and which step does. *)
Sends(s, ch, w) ==
  \/ s = "sim" /\ ch = "ctrl" /\ Notice(w)
  \/ s = "sim" /\ ch = "data" /\ w = <<Msg("tlp", Cur + 1)>>
     /\ \E k \in {"read", "cfgwr"} : SendTlp(k)
  \/ s = "sim" /\ ch = QAux /\ PostDma /\ w = ReplyTo(serving)
  \/ s = "qemu" /\ ch = "data" /\ \E i \in ep : Complete(i) /\ w = <<Msg("cpl", i)>>
  \/ s = "qemu" /\ ch = "ctrl" /\ w \in {<<Msg("cplready", 0)>>, <<Msg("topology", 0)>>}
  \/ s = "qemu" /\ ch = SAux /\ RaiseMsi /\ w = <<Msg("msi", msiSent + 1)>>
  \/ s = "qemu" /\ ch = SAux /\ (\E dir \in {"r", "w"} : DmaStart(dir)) /\ w = Request(dma')

(* How many messages a step takes off a stream, and which step does. *)
Takes(s, ch, n) ==
  \/ s = "qemu" /\ ch \in {"ctrl", "data"} /\ n = 1
  \/ s = "qemu" /\ ch = QAux /\ ((n = 1 /\ (TakeRead \/ TakeMsi)) \/ (n = 2 /\ TakeWrite))
  \/ s = "sim" /\ ch = "data" /\ n = 1
  \/ s = "sim" /\ ch = "ctrl" /\ n = 1
     /\ (DrainOther \/ DmaReply \/ Broken \/ First("sim", "ctrl").m # "dmacpl")
  \/ s = "sim" /\ ch = SAux /\ DmaReply

(* A stream stays, loses messages at its head, or gets some at its end. *)
Moves(s, ch) ==
  \/ net'[s][ch] = net[s][ch]
  \/ \E n : Takes(s, ch, n) /\ Drops(net[s][ch], net'[s][ch], n)
  \/ \E w \in Seq(Message) : Sends(s, ch, w) /\ Adds(net[s][ch], net'[s][ch], w)
AllMove == net' \in Streams /\ \A s \in Sides, ch \in Channels : Moves(s, ch)

LEMMA TcpBounds ==
  /\ MaxClients \in Nat \ {0} /\ CacheSlots \in Nat \ {0} /\ WaitLimit \in Nat \ {0}
  /\ MaxTlps \in Nat /\ MaxDmas \in Nat /\ MaxMsis \in Nat /\ MaxVfEvents \in Nat
  /\ TagSpace \in Nat \ {0} /\ EndpointTags \in Nat \ {0} /\ DrainGuard \in Nat \ {0}
BY TcpAssumption

LEMMA Messages ==
  /\ \A i \in 1 .. MaxTlps : Msg("tlp", i) \in Message /\ Msg("cpl", i) \in Message
  /\ \A i \in 1 .. MaxDmas : /\ Msg("dmareq_r", i) \in Message /\ Msg("dmareq_w", i) \in Message
                             /\ Msg("dmadata", i) \in Message /\ Msg("dmacpl", i) \in Message
  /\ \A i \in 1 .. MaxVfEvents : Msg("vf", i) \in Message
  /\ \A i \in 1 .. MaxMsis : Msg("msi", i) \in Message
  /\ \A t \in {"cplready", "query", "topology", "shutdown"} : Msg(t, 0) \in Message
BY DEF Msg, Message

(* What a message says of itself. *)
LEMMA MessageIds ==
  ASSUME NEW e \in Message
  PROVE  /\ e.m \in Types
         /\ e.m \in {"tlp", "cpl"} => e.id \in 1 .. MaxTlps
         /\ e.m \in {"dmareq_r", "dmareq_w", "dmadata", "dmacpl"} => e.id \in 1 .. MaxDmas
         /\ e.m = "vf" => e.id \in 1 .. MaxVfEvents
         /\ e.m = "msi" => e.id \in 1 .. MaxMsis
BY DEF Message, Types

LEMMA SideNames ==
  /\ "qemu" \in Sides /\ "sim" \in Sides
  /\ "ctrl" \in Channels /\ "data" \in Channels /\ "aux" \in Channels
  /\ QAux \in {"data", "aux"} /\ SAux \in {"data", "aux"} /\ {"data", "aux"} \subseteq Channels
BY DEF Sides, Channels, QAux, SAux, AuxOrData

LEMMA HeadOf ==
  ASSUME net \in Streams, NEW s \in Sides, NEW ch \in Channels, Readable(s, ch)
  PROVE  /\ net[s][ch] \in Seq(Message) /\ 1 \in 1 .. Len(net[s][ch]) /\ Len(net[s][ch]) \in Nat
         /\ First(s, ch) = net[s][ch][1] /\ First(s, ch) \in Message
<1>1. net[s][ch] \in Seq(Message) BY DEF Streams
<1>2. net[s][ch] # <<>> BY DEF Readable
<1> QED BY <1>1, <1>2, HeadTailProperties, EmptySeq DEF First

LEMMA SendMoves ==
  ASSUME net \in Streams, NEW s \in Sides, NEW ch \in Channels, NEW w \in Seq(Message),
         net' = SendTo(s, ch, w), Sends(s, ch, w)
  PROVE  AllMove
<1>1. /\ net' \in Streams /\ Adds(net[s][ch], net'[s][ch], w)
      /\ \A t \in Sides, c \in Channels : t # s \/ c # ch => net'[t][c] = net[t][c]
  BY SendEffect
<1>2. ASSUME NEW t \in Sides, NEW c \in Channels PROVE Moves(t, c)
  <2>1. CASE t = s /\ c = ch BY <1>1, <2>1, Zenon DEF Moves
  <2>2. CASE t # s \/ c # ch BY <1>1, <2>2 DEF Moves
  <2> QED BY <2>1, <2>2
<1> QED BY <1>1, <1>2 DEF AllMove

LEMMA TakeMoves ==
  ASSUME net \in Streams, NEW s \in Sides, NEW ch \in Channels, NEW n \in 1 .. Len(net[s][ch]),
         net' = Taken(s, ch, n), Takes(s, ch, n)
  PROVE  AllMove
<1>1. /\ net' \in Streams /\ Drops(net[s][ch], net'[s][ch], n)
      /\ \A t \in Sides, c \in Channels : t # s \/ c # ch => net'[t][c] = net[t][c]
  BY TakeEffect
<1>2. ASSUME NEW t \in Sides, NEW c \in Channels PROVE Moves(t, c)
  <2>1. CASE t = s /\ c = ch BY <1>1, <2>1 DEF Moves
  <2>2. CASE t # s \/ c # ch BY <1>1, <2>2 DEF Moves
  <2> QED BY <2>1, <2>2
<1> QED BY <1>1, <1>2 DEF AllMove

LEMMA TakeTwoMoves ==
  ASSUME net \in Streams, NEW s \in Sides, NEW b \in {"data", "aux"},
         NEW y \in Seq(Message), NEW n \in Nat, net[s]["ctrl"] # <<>>, Drops(net[s][b], y, n),
         net' = TakenTwo(s, b, y), Takes(s, "ctrl", 1), Takes(s, b, n)
  PROVE  AllMove
<1>1. /\ net' \in Streams /\ Drops(net[s]["ctrl"], net'[s]["ctrl"], 1) /\ net'[s][b] = y
      /\ \A t \in Sides, c \in Channels :
           t # s \/ (c # "ctrl" /\ c # b) => net'[t][c] = net[t][c]
  BY TakeTwoEffect
<1>2. ASSUME NEW t \in Sides, NEW c \in Channels PROVE Moves(t, c)
  <2>1. CASE t = s /\ c = b BY <1>1, <2>1 DEF Moves
  <2>2. CASE t = s /\ c = "ctrl" BY <1>1, <2>2 DEF Moves
  <2>3. CASE t # s \/ (c # "ctrl" /\ c # b) BY <1>1, <2>3 DEF Moves
  <2> QED BY <2>1, <2>2, <2>3
<1> QED BY <1>1, <1>2 DEF AllMove

LEMMA NetStays == ASSUME net \in Streams, net' = net PROVE AllMove
BY DEF AllMove, Moves

LEMMA QemuMoves == ASSUME TcpTypes, Qemu PROVE AllMove
<1>0. /\ net \in Streams /\ Len(tlps) \in Nat /\ Len(tlps) <= MaxTlps
      /\ vfSent \in Nat
  BY LenProperties, TcpBounds DEF TcpTypes, NetTypes, QemuTypes, PollerTypes, SimTypes
<1> USE SideNames DEF Cur
<1>1. CASE Query
  <2>1. <<Msg("query", 0)>> \in Seq(Message) BY Messages
  <2> QED BY <1>0, <1>1, <2>1, SendMoves DEF Query, Sends, Notice
<1>2. CASE Topology
  <2>1. 1 \in 1 .. Len(net["qemu"]["ctrl"]) BY <1>0, <1>2, HeadOf DEF Topology
  <2>2. Takes("qemu", "ctrl", 1) BY DEF Takes
  <2> QED BY <1>0, <1>2, <2>1, <2>2, TakeMoves DEF Topology
<1>3. ASSUME NEW k \in {"read", "cfgwr"}, SendTlp(k) PROVE AllMove
  <2>1. Cur + 1 \in 1 .. MaxTlps BY <1>0, <1>3, TcpBounds DEF SendTlp
  <2>2. <<Msg("tlp", Cur + 1)>> \in Seq(Message) BY <2>1, Messages
  <2>3. Sends("sim", "data", <<Msg("tlp", Cur + 1)>>) BY <1>3 DEF Sends
  <2> QED BY <1>0, <1>3, <2>2, <2>3, SendMoves DEF SendTlp
<1>4. CASE AnnounceTlp
  <2>1. Cur \in 1 .. MaxTlps BY <1>0, <1>4, TcpBounds DEF AnnounceTlp, TcpTypes, QemuTypes, PollerTypes
  <2>2. <<Msg("tlp", Cur)>> \in Seq(Message) BY <2>1, Messages
  <2>3. Sends("sim", "ctrl", <<Msg("tlp", Cur)>>) BY <1>4 DEF Sends, Notice
  <2> QED BY <1>0, <1>4, <2>2, <2>3, SendMoves DEF AnnounceTlp
<1>5. CASE SendVfEvent
  <2>1. vfSent + 1 \in 1 .. MaxVfEvents BY <1>0, <1>5, TcpBounds DEF SendVfEvent
  <2>2. <<Msg("vf", vfSent + 1)>> \in Seq(Message) BY <2>1, Messages
  <2>3. Sends("sim", "ctrl", <<Msg("vf", vfSent + 1)>>) BY <1>5 DEF Sends, Notice
  <2> QED BY <1>0, <1>5, <2>2, <2>3, SendMoves DEF SendVfEvent
<1>6. CASE Claim
  <2>1. /\ net["qemu"]["ctrl"] # <<>> /\ net["qemu"]["data"] # <<>>
        /\ net' = [net EXCEPT !["qemu"]["ctrl"] = Tail(@), !["qemu"]["data"] = Tail(@)]
    BY <1>6 DEF Claim, Readable
  <2>2. net["qemu"]["data"] \in Seq(Message) BY <1>0 DEF Streams
  <2>3. PICK y : y = Tail(net["qemu"]["data"]) OBVIOUS
  <2>4. y \in Seq(Message) /\ Drops(net["qemu"]["data"], y, 1) BY <2>1, <2>2, <2>3, DropsTail
  <2>5. net' = TakenTwo("qemu", "data", y) BY <2>1, <2>3 DEF TakenTwo
  <2>6. Takes("qemu", "ctrl", 1) /\ Takes("qemu", "data", 1) BY DEF Takes
  <2> QED BY <1>0, <2>1, <2>4, <2>5, <2>6, TakeTwoMoves
<1>7. CASE ClaimClosed \/ StopPoller
  BY <1>0, <1>7, NetStays DEF ClaimClosed, StopPoller
<1>8. CASE Destroy
  <2>1. <<Msg("shutdown", 0)>> \in Seq(Message) BY Messages
  <2>2. Sends("sim", "ctrl", <<Msg("shutdown", 0)>>) BY <1>8 DEF Sends, Notice
  <2> QED BY <1>0, <1>8, <2>1, <2>2, SendMoves DEF Destroy
<1> QED BY <1>1, <1>2, <1>3, <1>4, <1>5, <1>6, <1>7, <1>8 DEF Qemu

LEMMA ReplyType ==
  ASSUME NEW d \in Dmas, d.id > 0
  PROVE  ReplyTo(d) \in Seq(Message) /\ Request(d) \in Seq(Message)
<1>1. d.id \in 1 .. MaxDmas BY TcpBounds DEF Dmas
<1>2. /\ Msg("dmareq_r", d.id) \in Message /\ Msg("dmareq_w", d.id) \in Message
      /\ Msg("dmadata", d.id) \in Message /\ Msg("dmacpl", d.id) \in Message
  BY <1>1, Messages
<1> QED BY <1>2 DEF ReplyTo, Request

LEMMA PollerMoves == ASSUME TcpTypes, Poller PROVE AllMove
<1>0. /\ net \in Streams /\ Len(tlps) \in Nat /\ Len(tlps) <= MaxTlps /\ serving \in Dmas
      /\ serving.id \in 0 .. MaxDmas
  BY LenProperties DEF TcpTypes, NetTypes, QemuTypes, PollerTypes, SimTypes, Dmas
<1> USE SideNames DEF Cur
<1>1. CASE TakeRead \/ TakeMsi
  <2>1. net' = Taken("qemu", QAux, 1) /\ Readable("qemu", QAux)
    BY <1>1 DEF TakeRead, TakeMsi, PollerLooks
  <2>2. 1 \in 1 .. Len(net["qemu"][QAux]) BY <1>0, <2>1, HeadOf
  <2>3. Takes("qemu", QAux, 1) BY <1>1 DEF Takes
  <2> QED BY <1>0, <2>1, <2>2, <2>3, TakeMoves
<1>2. CASE TakeWrite
  <2>1. net' = Taken("qemu", QAux, 2) /\ Len(net["qemu"][QAux]) > 1
    BY <1>2 DEF TakeWrite
  <2>2. Len(net["qemu"][QAux]) \in Nat BY <1>0, LenProperties DEF Streams
  <2>3. 2 \in 1 .. Len(net["qemu"][QAux]) BY <2>1, <2>2
  <2>4. Takes("qemu", QAux, 2) BY <1>2 DEF Takes
  <2> QED BY <1>0, <2>1, <2>3, <2>4, TakeMoves
<1>3. CASE PostDma
  <2>1. serving.id > 0 BY <1>3 DEF PostDma, TcpTypes, QemuTypes, PollerTypes
  <2>2. ReplyTo(serving) \in Seq(Message) BY <1>0, <2>1, ReplyType
  <2>3. Sends("sim", QAux, ReplyTo(serving)) BY <1>3 DEF Sends
  <2> QED BY <1>0, <1>3, <2>2, <2>3, SendMoves DEF PostDma
<1>4. CASE AnnounceDma
  <2>1. serving.id \in 1 .. MaxDmas BY <1>0, <1>4, TcpBounds DEF AnnounceDma, TcpTypes, QemuTypes, PollerTypes
  <2>2. <<Msg("dmacpl", serving.id)>> \in Seq(Message) BY <2>1, Messages
  <2>3. Sends("sim", "ctrl", <<Msg("dmacpl", serving.id)>>) BY <1>4 DEF Sends, Notice
  <2> QED BY <1>0, <1>4, <2>2, <2>3, SendMoves DEF AnnounceDma
<1>5. CASE CtrlTorn
  <2>1. serving.id \in 1 .. MaxDmas /\ Cur \in 1 .. MaxTlps
    BY <1>0, <1>5, TcpBounds DEF CtrlTorn, TcpTypes, QemuTypes, PollerTypes
  <2>2. Msg("tlp", Cur) \in Message /\ Msg("dmacpl", serving.id) \in Message BY <2>1, Messages
  <2>3. <<Msg("tlp", Cur), Msg("dmacpl", serving.id)>> \in Seq(Message) BY <2>2
  <2>4. Sends("sim", "ctrl", <<Msg("tlp", Cur), Msg("dmacpl", serving.id)>>)
    BY <1>5 DEF Sends, Notice
  <2> QED BY <1>0, <1>5, <2>3, <2>4, SendMoves DEF CtrlTorn
<1>6. CASE PollerEnds BY <1>0, <1>6, NetStays DEF PollerEnds
<1> QED BY <1>1, <1>2, <1>3, <1>4, <1>5, <1>6 DEF Poller

(* The simulator's reads of ctrl, alone and with the TLP behind a notice.  *)
LEMMA SimCtrlTaken ==
  ASSUME net \in Streams, Readable("sim", "ctrl"), net' = Taken("sim", "ctrl", 1),
         Takes("sim", "ctrl", 1)
  PROVE  AllMove
<1>1. 1 \in 1 .. Len(net["sim"]["ctrl"]) BY HeadOf, SideNames
<1> QED BY <1>1, TakeMoves, SideNames

LEMMA ReadTlpMoves ==
  ASSUME net \in Streams, Readable("sim", "ctrl"), Readable("sim", "data"), ReadTlp,
         Got("sim", "ctrl", "tlp")
  PROVE  AllMove
<1>1. /\ net["sim"]["ctrl"] # <<>> /\ net["sim"]["data"] # <<>>
      /\ net' = [net EXCEPT !["sim"]["ctrl"] = Tail(@), !["sim"]["data"] = Tail(@)]
  BY DEF Readable, ReadTlp
<1>2. net["sim"]["data"] \in Seq(Message) BY SideNames DEF Streams
<1>3. PICK y : y = Tail(net["sim"]["data"]) OBVIOUS
<1>4. y \in Seq(Message) /\ Drops(net["sim"]["data"], y, 1) BY <1>1, <1>2, <1>3, DropsTail
<1>5. net' = TakenTwo("sim", "data", y) BY <1>1, <1>3 DEF TakenTwo
<1>6. Takes("sim", "ctrl", 1) /\ Takes("sim", "data", 1) BY DEF Takes, Got
<1> QED BY <1>1, <1>4, <1>5, <1>6, TakeTwoMoves, SideNames

(* The two messages of a topology query, one taken and one sent. *)
LEMMA DrainQueryMoves == ASSUME net \in Streams, DrainQuery PROVE AllMove
<1>1. /\ Readable("sim", "ctrl")
      /\ net' = [Taken("sim", "ctrl", 1) EXCEPT !["qemu"]["ctrl"] = Append(@, Msg("topology", 0))]
      /\ Takes("sim", "ctrl", 1)
  BY DEF DrainQuery, Ctrl, Got, Takes
<1>2. net["sim"]["ctrl"] \in Seq(Message) /\ 1 \in 1 .. Len(net["sim"]["ctrl"])
  BY <1>1, HeadOf, SideNames
<1>3. PICK x : x = SubSeq(net["sim"]["ctrl"], 2, Len(net["sim"]["ctrl"])) OBVIOUS
<1>4. x \in Seq(Message) /\ Drops(net["sim"]["ctrl"], x, 1) BY <1>2, <1>3, DropsSubSeq
<1>5. net["qemu"]["ctrl"] \in Seq(Message) BY SideNames DEF Streams
<1>6. PICK w : w = <<Msg("topology", 0)>> OBVIOUS
<1>7. PICK y : y = Append(net["qemu"]["ctrl"], Msg("topology", 0)) OBVIOUS
<1>8. w \in Seq(Message) /\ y \in Seq(Message) /\ Adds(net["qemu"]["ctrl"], y, w)
  <2>1. Msg("topology", 0) \in Message BY Messages
  <2>2. w \in Seq(Message) /\ Len(w) = 1 /\ w[1] = Msg("topology", 0) BY <1>6, <2>1
  <2>3. y \in Seq(Message) BY <1>5, <1>7, <2>1, AppendProperties
  <2>4. /\ Len(y) = Len(net["qemu"]["ctrl"]) + 1 /\ Len(net["qemu"]["ctrl"]) \in Nat
        /\ y[Len(net["qemu"]["ctrl"]) + 1] = Msg("topology", 0)
        /\ \A i \in 1 .. Len(net["qemu"]["ctrl"]) : y[i] = net["qemu"]["ctrl"][i]
    BY <1>5, <1>7, <2>1, AppendProperties, LenProperties
  <2> QED BY <2>2, <2>3, <2>4 DEF Adds
<1>9. PICK g : g = [net EXCEPT !["sim"]["ctrl"] = x] OBVIOUS
<1>10. g \in Streams /\ g["sim"]["ctrl"] = x /\ g["qemu"] = net["qemu"]
       /\ \A c \in Channels : c # "ctrl" => g["sim"][c] = net["sim"][c]
  BY <1>4, <1>9, SideNames DEF Streams
<1>11. net' = [g EXCEPT !["qemu"]["ctrl"] = y]
  <2>1. Taken("sim", "ctrl", 1) = g BY <1>3, <1>9 DEF Taken
  <2> QED BY <1>1, <1>7, <1>10, <2>1
<1>12. /\ net' \in Streams /\ net'["qemu"]["ctrl"] = y /\ net'["sim"] = g["sim"]
       /\ \A c \in Channels : c # "ctrl" => net'["qemu"][c] = net["qemu"][c]
  BY <1>8, <1>10, <1>11, SideNames DEF Streams
<1>13. Sends("qemu", "ctrl", w) BY <1>6 DEF Sends
<1>14. ASSUME NEW t \in Sides, NEW c \in Channels PROVE Moves(t, c)
  <2>1. CASE t = "sim" /\ c = "ctrl" BY <1>1, <1>4, <1>10, <1>12, <2>1 DEF Moves
  <2>2. CASE t = "qemu" /\ c = "ctrl" BY <1>8, <1>12, <1>13, <2>2 DEF Moves
  <2>3. CASE c # "ctrl" BY <1>10, <1>12, <2>3 DEF Moves, Sides
  <2> QED BY <2>1, <2>2, <2>3 DEF Sides
<1> QED BY <1>12, <1>14 DEF AllMove

(* The reply a DMA wait takes, with its notice. *)
LEMMA DmaReplyMoves == ASSUME net \in Streams, DmaReply PROVE AllMove
<1>1. /\ Readable("sim", "ctrl") /\ Len(net["sim"][SAux]) >= Len(NeedsReply)
      /\ \/ net' = [net EXCEPT !["sim"]["ctrl"] = Tail(@),
                               !["sim"][SAux] = SubSeq(@, Len(NeedsReply) + 1, Len(@))]
         \/ net' = Taken("sim", "ctrl", 1)
      /\ Takes("sim", "ctrl", 1) /\ \A n : Takes("sim", SAux, n)
  BY DEF DmaReply, Ctrl, Takes
<1>2. CASE net' = Taken("sim", "ctrl", 1) BY <1>1, <1>2, SimCtrlTaken
<1>3. CASE net' = [net EXCEPT !["sim"]["ctrl"] = Tail(@),
                              !["sim"][SAux] = SubSeq(@, Len(NeedsReply) + 1, Len(@))]
  <2>1. net["sim"][SAux] \in Seq(Message) BY SideNames DEF Streams
  <2>2. PICK k : k = Len(NeedsReply) OBVIOUS
  <2>3. k \in {1, 2} BY <2>2 DEF NeedsReply
  <2>4. k \in 1 .. Len(net["sim"][SAux]) BY <1>1, <2>1, <2>2, <2>3, LenProperties
  <2>5. PICK y : y = SubSeq(net["sim"][SAux], k + 1, Len(net["sim"][SAux])) OBVIOUS
  <2>6. y \in Seq(Message) /\ Drops(net["sim"][SAux], y, k) BY <2>1, <2>4, <2>5, DropsSubSeq
  <2>7. net' = TakenTwo("sim", SAux, y) BY <1>3, <2>2, <2>5 DEF TakenTwo
  <2>8. net["sim"]["ctrl"] # <<>> /\ k \in Nat BY <1>1, <2>3 DEF Readable
  <2> QED BY <1>1, <2>6, <2>7, <2>8, TakeTwoMoves, SideNames
<1> QED BY <1>1, <1>2, <1>3

LEMMA SimMoves == ASSUME TcpTypes, Simulator PROVE AllMove
<1>0. net \in Streams /\ ep \subseteq 1 .. MaxTlps /\ msiSent \in Nat /\ dma \in Dmas
  BY TcpBounds DEF TcpTypes, NetTypes, QemuTypes, PollerTypes, SimTypes
<1> USE SideNames
<1>1. CASE PollCached \/ DrainReturn \/ PollEmpty \/ Exit
  BY <1>0, <1>1, NetStays DEF PollCached, DrainReturn, PollEmpty, Exit
<1>2. CASE DrainTlp \/ DmaTlp BY <1>0, <1>2, ReadTlpMoves DEF DrainTlp, DmaTlp, Ctrl
<1>3. CASE DrainVf \/ DrainOther \/ PollVf \/ DmaOther
  <2>1. Takes("sim", "ctrl", 1)
    BY <1>3 DEF DrainVf, PollVf, DmaOther, Ctrl, Got, Takes
  <2> QED BY <1>0, <1>3, <2>1, SimCtrlTaken DEF DrainVf, DrainOther, PollVf, DmaOther, Ctrl
<1>4. CASE DrainQuery BY <1>0, <1>4, DrainQueryMoves
<1>5. ASSUME NEW i \in ep, Complete(i) PROVE AllMove
  <2>1. <<Msg("cpl", i)>> \in Seq(Message) BY <1>0, Messages
  <2>2. Sends("qemu", "data", <<Msg("cpl", i)>>) BY <1>5 DEF Sends
  <2>3. net' = SendTo("qemu", "data", <<Msg("cpl", i)>>) BY <1>5 DEF Complete
  <2> QED BY <1>0, <2>1, <2>2, <2>3, SendMoves
<1>6. ASSUME NEW i \in ep, Consume(i) PROVE AllMove BY <1>0, <1>6, NetStays DEF Consume
<1>7. CASE SyncCpl
  <2>1. <<Msg("cplready", 0)>> \in Seq(Message) BY Messages
  <2>2. Sends("qemu", "ctrl", <<Msg("cplready", 0)>>) BY DEF Sends
  <2>3. net' = SendTo("qemu", "ctrl", <<Msg("cplready", 0)>>) BY <1>7 DEF SyncCpl
  <2> QED BY <1>0, <2>1, <2>2, <2>3, SendMoves
<1>8. CASE RaiseMsi
  <2>1. msiSent + 1 \in 1 .. MaxMsis BY <1>0, <1>8, TcpBounds DEF RaiseMsi
  <2>2. <<Msg("msi", msiSent + 1)>> \in Seq(Message) BY <2>1, Messages
  <2>3. Sends("qemu", SAux, <<Msg("msi", msiSent + 1)>>) BY <1>8 DEF Sends
  <2>4. net' = SendTo("qemu", SAux, <<Msg("msi", msiSent + 1)>>) BY <1>8 DEF RaiseMsi
  <2> QED BY <1>0, <2>2, <2>3, <2>4, SendMoves
<1>9. ASSUME NEW dir \in {"r", "w"}, DmaStart(dir) PROVE AllMove
  <2>1. dma' = [id |-> dma.id + 1, dir |-> dir] /\ dma.id < MaxDmas /\ dma.id \in Nat
    BY <1>0, <1>9, TcpBounds DEF DmaStart, Dmas
  <2>2. PICK d : d = dma' OBVIOUS
  <2>3. d \in Dmas /\ d.id > 0 BY <2>1, <2>2, TcpBounds DEF Dmas
  <2>4. Request(d) \in Seq(Message) BY <2>3, ReplyType
  <2>5. net' = SendTo("qemu", SAux, Request(d)) BY <1>9, <2>2 DEF DmaStart
  <2>6. Sends("qemu", SAux, Request(d)) BY <1>9, <2>2 DEF Sends
  <2> QED BY <1>0, <2>4, <2>5, <2>6, SendMoves
<1>10. CASE DmaFails
  <2>1. \/ Readable("sim", "ctrl") /\ net' = Taken("sim", "ctrl", 1)
        \/ net' = net
    BY <1>10 DEF DmaFails
  <2>2. Readable("sim", "ctrl") => Takes("sim", "ctrl", 1)
    BY <1>10 DEF DmaFails, Ctrl, Got, Takes
  <2> QED BY <1>0, <2>1, <2>2, SimCtrlTaken, NetStays
<1>11. CASE DmaReply BY <1>0, <1>11, DmaReplyMoves
<1> QED BY <1>1, <1>2, <1>3, <1>4, <1>5, <1>6, <1>7, <1>8, <1>9, <1>10, <1>11 DEF Simulator

LEMMA StartKeepsRun == ASSUME Startup PROVE UNCHANGED runVars
BY DEF Startup, Connect, Accept, ConnectCtrl, ConnectData, ConnectAux, NoAux, AcceptCtrl,
       AcceptData, AcceptAux, AuxTimesOut, Hello, Reply, Settle, SrvGivesUp, CliGivesUp, Restart

LEMMA NextMoves == ASSUME TcpTypes, [Next]_vars PROVE AllMove
<1>0. net \in Streams BY DEF TcpTypes, NetTypes, QemuTypes, PollerTypes, SimTypes
<1>1. CASE Startup \/ UNCHANGED vars
  <2>1. net' = net BY <1>1, StartKeepsRun DEF vars, runVars
  <2> QED BY <1>0, <2>1, NetStays
<1> QED BY <1>1, QemuMoves, PollerMoves, SimMoves DEF Next

-----------------------------------------------------------------------------
(* Types of the run *)

(* The completions still to come can be counted. *)
LEMMA OutstandingCounted == ASSUME net \in Streams, SimTypes PROVE Outstanding \in Nat
<1>1. ASSUME NEW s \in Sides, NEW m PROVE Cardinality(InData(s, m)) \in Nat
  <2>1. net[s]["data"] \in Seq(Message) BY SideNames DEF Streams
  <2>2. InData(s, m) \subseteq 1 .. Len(net[s]["data"]) BY <2>1, LenProperties DEF InData
  <2>3. IsFiniteSet(1 .. Len(net[s]["data"])) BY <2>1, LenProperties, FS_Interval
  <2> QED BY <2>2, <2>3, FS_Subset, FS_CardinalityType
<1>2. Cardinality(ep) \in Nat
  <2>1. IsFiniteSet(1 .. MaxTlps) BY TcpBounds, FS_Interval
  <2> QED BY <2>1, FS_Subset, FS_CardinalityType DEF SimTypes
<1>3. Len(cache) \in Nat BY LenProperties DEF SimTypes
<1> QED BY <1>1, <1>2, <1>3, SideNames DEF Outstanding

LEMMA QemuTypesHold == ASSUME TcpTypes, Qemu, net' \in Streams PROVE TcpTypes'
<1>0. /\ NetTypes /\ QemuTypes /\ Len(tlps) \in Nat /\ Cur \in 0 .. MaxTlps
  BY TcpBounds, LenProperties DEF TcpTypes, QemuTypes, Cur
<1>1. UNCHANGED <<pollerVars, simVars>>
  BY DEF Qemu, Query, Topology, SendTlp, AnnounceTlp, SendVfEvent, Claim, Skip, reading, ClaimClosed, Answer,
         StopPoller, Destroy
<1>2. PollerTypes' /\ SimTypes'
  <2>1. PollerTypes' BY <1>1 DEF TcpTypes, PollerTypes, pollerVars
  <2>2. SimTypes' BY <1>1 DEF TcpTypes, SimTypes, simVars, dmaVars
  <2> QED BY <2>1, <2>2
<1>3. garbled' \subseteq Sides \X Channels
  BY <1>0, SideNames DEF NetTypes, LoseStep, Qemu, Query, Topology, SendTlp, AnnounceTlp,
     SendVfEvent, Claim, Skip, reading, ClaimClosed, StopPoller, Destroy
<1>4. QemuTypes'
  <2>1. CASE Query \/ Topology \/ StopPoller \/ Destroy
    BY <1>0, <2>1 DEF Query, Topology, StopPoller, Destroy, QemuTypes, reading
  <2>2. ASSUME NEW k \in {"read", "cfgwr"}, SendTlp(k) PROVE QemuTypes'
    <3>1. tlps' = Append(tlps, k) /\ Cur < MaxTlps /\ cpu' = "announce"
          /\ ahead' \in Nat /\ UNCHANGED <<drops, answer, vfSent>>
      BY <1>0, <2>2, OutstandingCounted DEF SendTlp, TcpTypes, NetTypes
    <3>2. tlps' \in Seq({"read", "cfgwr"}) /\ Len(tlps') = Len(tlps) + 1
      BY <1>0, <3>1, AppendProperties DEF QemuTypes
    <3> QED BY <1>0, <3>1, <3>2, TcpBounds DEF QemuTypes, Cur
  <2>3. CASE AnnounceTlp BY <1>0, <2>3 DEF AnnounceTlp, Announced, QemuTypes, reading
  <2>4. CASE SendVfEvent BY <1>0, <2>4, TcpBounds DEF SendVfEvent, QemuTypes, reading
  <2>5. CASE Claim \/ ClaimClosed
    <3>1. ASSUME Claim, Got("qemu", "data", "cpl")
          PROVE  First("qemu", "data").id \in 0 .. MaxTlps
      <4>1. First("qemu", "data") \in Message BY <1>0, <3>1, HeadOf, SideNames DEF Claim, NetTypes
      <4> QED BY <3>1, <4>1, MessageIds DEF Got
    <3>2. \/ UNCHANGED <<cpu, tlps, drops, ahead, answer, vfSent>>
          \/ /\ cpu' = "idle" /\ drops' = 0 /\ UNCHANGED <<tlps, ahead, vfSent>>
             /\ \E g \in 0 .. MaxTlps : answer' = [for |-> Cur, got |-> g, behind |-> ahead]
          \/ drops' = drops + 1 /\ drops' # DrainGuard /\ UNCHANGED <<cpu, tlps, ahead, answer, vfSent>>
      <4>1. 0 \in 0 .. MaxTlps BY TcpBounds
      <4>2. CASE ClaimClosed BY <4>1, <4>2 DEF ClaimClosed, Answer
      <4>3. CASE Claim /\ ~Got("qemu", "data", "cpl") BY <4>1, <4>3 DEF Claim, Answer
      <4>4. CASE Claim /\ Got("qemu", "data", "cpl")
        <5>1. PICK i \in 0 .. MaxTlps : i = First("qemu", "data").id BY <3>1, <4>4
        <5>2. \/ Answer(i) \/ Answer(0) \/ (Skip /\ drops + 1 # DrainGuard)
          BY <4>4, <5>1 DEF Claim
        <5> QED BY <4>1, <5>2 DEF Answer, Skip
      <4> QED BY <2>5, <4>2, <4>3, <4>4
    <3>3. CASE UNCHANGED <<cpu, tlps, drops, ahead, answer, vfSent>>
      BY <1>0, <3>3 DEF QemuTypes
    <3>4. CASE /\ cpu' = "idle" /\ drops' = 0 /\ UNCHANGED <<tlps, ahead, vfSent>>
               /\ \E g \in 0 .. MaxTlps : answer' = [for |-> Cur, got |-> g, behind |-> ahead]
      BY <1>0, <3>4, TcpBounds DEF QemuTypes
    <3>5. CASE drops' = drops + 1 /\ drops' # DrainGuard /\ UNCHANGED <<cpu, tlps, ahead, answer, vfSent>>
      BY <1>0, <3>5, TcpBounds DEF QemuTypes
    <3> QED BY <3>2, <3>3, <3>4, <3>5
  <2> QED BY <2>1, <2>2, <2>3, <2>4, <2>5 DEF Qemu
<1> QED BY <1>2, <1>3, <1>4 DEF TcpTypes, NetTypes

LEMMA PollerTypesHold == ASSUME TcpTypes, Poller, net' \in Streams PROVE TcpTypes'
<1>0. NetTypes /\ QemuTypes /\ PollerTypes /\ net \in Streams BY DEF TcpTypes, NetTypes
<1>1. UNCHANGED simVars
  BY DEF Poller, TakeRead, TakeWrite, TakeMsi, PostDma, AnnounceDma, CtrlTorn, PollerEnds
<1>2. SimTypes' BY <1>1 DEF TcpTypes, SimTypes, simVars, dmaVars
<1>3. garbled' \subseteq Sides \X Channels
  BY <1>0, SideNames DEF NetTypes, LoseStep, Poller, TakeRead, TakeWrite, TakeMsi, PostDma,
     AnnounceDma, CtrlTorn, PollerEnds
<1>4. QemuTypes'
  <2>1. CASE CtrlTorn
    <3>1. cpu' \in {"wait", "idle"} /\ Len(tlps) > 0
          /\ UNCHANGED <<tlps, drops, ahead, answer, vfSent>>
      BY <1>0, <2>1 DEF CtrlTorn, Announced, QemuTypes, reading
    <3> QED BY <1>0, <3>1 DEF QemuTypes
  <2>2. CASE ~CtrlTorn
    <3>1. UNCHANGED qemuVars
      BY <2>2 DEF Poller, TakeRead, TakeWrite, TakeMsi, PostDma, AnnounceDma, PollerEnds
    <3> QED BY <1>0, <3>1 DEF QemuTypes, qemuVars, reading
  <2> QED BY <2>1, <2>2
<1>5. PollerTypes'
  <2>1. CASE TakeRead \/ TakeWrite
    <3>1. /\ Got("qemu", QAux, "dmareq_r") \/ Got("qemu", QAux, "dmareq_w")
          /\ Readable("qemu", QAux) /\ poller' = "post" /\ UNCHANGED msiSeen
          /\ \E dir \in {"r", "w"} : serving' = [id |-> First("qemu", QAux).id, dir |-> dir]
          /\ served' \subseteq served \cup {serving'.id}
      BY <2>1 DEF TakeRead, TakeWrite, PollerLooks
    <3>2. First("qemu", QAux) \in Message BY <1>0, <3>1, HeadOf, SideNames
    <3>3. First("qemu", QAux).id \in 1 .. MaxDmas BY <3>1, <3>2, MessageIds DEF Got
    <3>4. serving' \in Dmas /\ serving'.id \in 1 .. MaxDmas
      BY <3>1, <3>3, TcpBounds DEF Dmas
    <3> QED BY <1>0, <3>1, <3>4, TcpBounds DEF PollerTypes
  <2>2. CASE TakeMsi BY <1>0, <2>2 DEF TakeMsi, PollerTypes
  <2>3. CASE PostDma BY <1>0, <2>3 DEF PostDma, PollerTypes
  <2>4. CASE AnnounceDma BY <1>0, <2>4 DEF AnnounceDma, PollerTypes
  <2>5. CASE CtrlTorn BY <1>0, <2>5 DEF CtrlTorn, PollerTypes
  <2>6. CASE PollerEnds BY <1>0, <2>6 DEF PollerEnds, PollerTypes
  <2> QED BY <2>1, <2>2, <2>3, <2>4, <2>5, <2>6 DEF Poller
<1> QED BY <1>2, <1>3, <1>4, <1>5 DEF TcpTypes, NetTypes

(* How a step of a DMA wait ends (DmaGoesOn, DmaEnds). *)
LEMMA WaitTypes ==
  ASSUME SimTypes, sim = "dma", cache' \in Seq(1 .. MaxTlps), Len(cache') <= CacheSlots,
         UNCHANGED <<ep, vfPending, vfSeen, dma, msiSent>>,
         \/ DmaGoesOn
         \/ /\ UNCHANGED <<tries, gaveUp>>
            /\ \E ok \in BOOLEAN, got \in 0 .. MaxDmas : DmaEnds(ok, got)
  PROVE  SimTypes'
<1>1. dma.id \in 0 .. MaxDmas BY DEF SimTypes, Dmas
<1>2. CASE DmaGoesOn
  <2>1. tries' = tries + 1 /\ tries' \in 0 .. WaitLimit BY <1>2, TcpBounds DEF DmaGoesOn, SimTypes
  <2>2. CASE tries' = WaitLimit
    <3>1. sim' = "poll" /\ dmaResult' = [id |-> dma.id, got |-> 0, ok |-> FALSE]
      BY <1>2, <2>2 DEF DmaGoesOn, DmaEnds
    <3>2. dmaResult' \in [id : 0 .. MaxDmas, got : 0 .. MaxDmas, ok : BOOLEAN]
      BY <1>1, <3>1, TcpBounds
    <3> QED BY <2>1, <3>1, <3>2 DEF SimTypes
  <2>3. CASE tries' # WaitLimit
    <3>1. UNCHANGED <<sim, dmaResult>> BY <1>2, <2>3 DEF DmaGoesOn
    <3>2. tries' < WaitLimit BY <2>1, <2>3, TcpBounds
    <3> QED BY <2>1, <3>1, <3>2 DEF SimTypes
  <2> QED BY <2>2, <2>3
<1>3. ASSUME UNCHANGED <<tries, gaveUp>>, NEW ok \in BOOLEAN, NEW got \in 0 .. MaxDmas,
             DmaEnds(ok, got)
      PROVE  SimTypes'
  <2>1. sim' = "poll" /\ dmaResult' = [id |-> dma.id, got |-> got, ok |-> ok]
    BY <1>3 DEF DmaEnds
  <2>2. dmaResult' \in [id : 0 .. MaxDmas, got : 0 .. MaxDmas, ok : BOOLEAN] BY <1>1, <2>1
  <2> QED BY <1>3, <2>1, <2>2 DEF SimTypes
<1> QED BY <1>2, <1>3

LEMMA CachedTypes ==
  ASSUME SimTypes, NEW i \in 1 .. MaxTlps
  PROVE  Cached(i) \in Seq(1 .. MaxTlps) /\ Len(Cached(i)) <= CacheSlots
<1>1. cache \in Seq(1 .. MaxTlps) /\ Len(cache) <= CacheSlots /\ Len(cache) \in Nat
  BY LenProperties DEF SimTypes
<1>2. Append(cache, i) \in Seq(1 .. MaxTlps) /\ Len(Append(cache, i)) = Len(cache) + 1
  BY <1>1, AppendProperties
<1>3. CASE Len(cache) < CacheSlots BY <1>1, <1>2, <1>3, TcpBounds DEF Cached
<1>4. CASE ~(Len(cache) < CacheSlots) BY <1>1, <1>4 DEF Cached
<1> QED BY <1>3, <1>4

(* How DmaReply ends the wait or goes on with it. *)
LEMMA ReplyEnds ==
  ASSUME DmaReply
  PROVE  \/ DmaGoesOn
         \/ UNCHANGED <<tries, gaveUp>> /\ DmaEnds(FALSE, 0)
         \/ /\ UNCHANGED <<tries, gaveUp>> /\ DmaEnds(TRUE, net["sim"][SAux][1].id)
            /\ InStep(net["sim"][SAux]) /\ <<"sim", SAux>> \notin garbled
            /\ net["sim"][SAux][Len(NeedsReply)].id = dma.id
BY Zenon DEF DmaReply

(* Which streams a step of the simulator may lose. *)
LEMMA SimLoses ==
  ASSUME Simulator
  PROVE  garbled' \in {garbled, garbled \cup {<<"sim", "data">>}, garbled \cup {<<"sim", SAux>>}}
<1>1. CASE DrainTlp \/ DmaTlp BY <1>1 DEF DrainTlp, DmaTlp, LoseStep
<1>2. CASE DmaReply
  <2>1. garbled' = garbled \/ LoseStep("sim", SAux) BY <1>2 DEF DmaReply, DmaGoesOn, DmaEnds
  <2> QED BY <2>1 DEF LoseStep
<1>3. CASE ~(DrainTlp \/ DmaTlp \/ DmaReply)
  <2>1. garbled' = garbled
    BY <1>3 DEF Simulator, PollCached, DrainVf, DrainQuery, DrainOther, DrainReturn, PollEmpty,
       PollVf, Exit, Complete, Consume, SyncCpl, RaiseMsi, DmaStart, DmaOther, DmaFails
  <2> QED BY <2>1
<1> QED BY <1>1, <1>2, <1>3

LEMMA SimTypesHold == ASSUME TcpTypes, Simulator, net' \in Streams PROVE TcpTypes'
<1>0. NetTypes /\ QemuTypes /\ PollerTypes /\ SimTypes /\ net \in Streams
      /\ cache \in Seq(1 .. MaxTlps) /\ Len(cache) \in Nat /\ Len(cache) <= CacheSlots
  BY LenProperties DEF TcpTypes, NetTypes, SimTypes
<1>1. UNCHANGED <<cpu, tlps, drops, ahead, answer, stop, vfSent, pollerVars>>
  BY DEF Simulator, PollCached, DrainTlp, DrainVf, DrainQuery, DrainOther, DrainReturn,
         PollEmpty, PollVf, Exit, Complete, Consume, SyncCpl, RaiseMsi, DmaStart, DmaTlp,
         DmaOther, DmaFails, DmaReply, DmaOthers, qemuVars, reading
<1>2. QemuTypes' /\ PollerTypes'
  <2>1. QemuTypes' BY <1>0, <1>1 DEF QemuTypes
  <2>2. PollerTypes' BY <1>0, <1>1 DEF PollerTypes, pollerVars
  <2> QED BY <2>1, <2>2
<1>3. garbled' \subseteq Sides \X Channels
  BY <1>0, SimLoses, SideNames DEF NetTypes
<1>4. cache # <<>> => /\ Head(cache) \in 1 .. MaxTlps /\ Tail(cache) \in Seq(1 .. MaxTlps)
                      /\ Len(Tail(cache)) <= CacheSlots
  BY <1>0, HeadTailProperties, EmptySeq, TcpBounds
<1>5. ASSUME DrainTlp \/ DmaTlp
      PROVE  cache' \in Seq(1 .. MaxTlps) /\ Len(cache') <= CacheSlots
  <2>1. /\ Readable("sim", "data")
        /\ \/ Got("sim", "data", "tlp") /\ cache' = Cached(First("sim", "data").id)
           \/ UNCHANGED cache
    BY <1>5 DEF DrainTlp, DmaTlp
  <2>2. First("sim", "data") \in Message BY <1>0, <2>1, HeadOf, SideNames
  <2>3. Got("sim", "data", "tlp") => First("sim", "data").id \in 1 .. MaxTlps
    BY <2>2, MessageIds DEF Got
  <2> QED BY <1>0, <2>1, <2>3, CachedTypes
<1>6. ASSUME NEW m, Ctrl(m), m = "vf" PROVE First("sim", "ctrl").id \in 1 .. MaxVfEvents
  <2>1. First("sim", "ctrl") \in Message /\ First("sim", "ctrl").m = "vf"
    BY <1>0, <1>6, HeadOf, SideNames DEF Ctrl, Got
  <2> QED BY <2>1, MessageIds
<1>7. SimTypes'
  <2>1. CASE PollCached \/ DrainReturn
    <3>1. /\ cache # <<>> /\ cache' = Tail(cache) /\ ep' = ep \cup {Head(cache)}
          /\ sim' = "poll" /\ UNCHANGED <<vfPending, vfSeen, dma, tries, dmaResult, msiSent>>
      BY <2>1 DEF PollCached, DrainReturn, Deliver, dmaVars
    <3> QED BY <1>0, <1>4, <3>1 DEF SimTypes
  <2>2. CASE DrainTlp
    <3>1. sim' = "drain" /\ UNCHANGED <<ep, vfPending, vfSeen, dma, tries, dmaResult, msiSent>>
      BY <2>2 DEF DrainTlp, dmaVars
    <3> QED BY <1>0, <1>5, <2>2, <3>1 DEF SimTypes
  <2>3. CASE DrainVf
    <3>1. /\ sim' = "drain" /\ vfPending' = First("sim", "ctrl").id
          /\ UNCHANGED <<cache, ep, vfSeen, dma, tries, dmaResult, msiSent>>
      BY <2>3 DEF DrainVf, dmaVars
    <3>2. vfPending' \in 0 .. MaxVfEvents BY <1>6, <2>3, <3>1, TcpBounds DEF DrainVf
    <3> QED BY <1>0, <3>1, <3>2 DEF SimTypes
  <2>4. CASE DrainQuery \/ DrainOther \/ Exit
    <3>1. sim' \in {"drain", "exited"}
          /\ UNCHANGED <<cache, ep, vfPending, vfSeen, dma, tries, dmaResult, msiSent>>
      BY <2>4 DEF DrainQuery, DrainOther, Exit, dmaVars
    <3> QED BY <1>0, <3>1 DEF SimTypes
  <2>5. CASE PollEmpty
    <3>1. /\ sim' = "poll" /\ vfSeen' \in {vfSeen, vfPending} /\ vfPending' = 0
          /\ UNCHANGED <<cache, ep, dma, tries, dmaResult, msiSent>>
      BY <2>5 DEF PollEmpty, SeeVf, dmaVars
    <3> QED BY <1>0, <3>1, TcpBounds DEF SimTypes
  <2>6. CASE PollVf
    <3>1. /\ sim' = "poll" /\ vfSeen' = First("sim", "ctrl").id /\ vfPending' = 0
          /\ UNCHANGED <<cache, ep, dma, tries, dmaResult, msiSent>>
      BY <2>6 DEF PollVf, dmaVars
    <3>2. vfSeen' \in 0 .. MaxVfEvents BY <1>6, <2>6, <3>1, TcpBounds DEF PollVf
    <3> QED BY <1>0, <3>1, <3>2, TcpBounds DEF SimTypes
  <2>7. ASSUME NEW i \in ep, Complete(i) \/ Consume(i) PROVE SimTypes'
    <3>1. ep' = ep \ {i} /\ sim' \in {"sync", "poll"}
          /\ UNCHANGED <<cache, vfPending, vfSeen, dma, tries, dmaResult, msiSent>>
      BY <2>7 DEF Complete, Consume, dmaVars
    <3> QED BY <1>0, <3>1 DEF SimTypes
  <2>8. CASE SyncCpl BY <1>0, <2>8 DEF SyncCpl, SimTypes, dmaVars
  <2>9. CASE RaiseMsi
    <3>1. /\ sim = "poll" /\ msiSent' = msiSent + 1 /\ msiSent < MaxMsis
          /\ UNCHANGED <<sim, cache, ep, vfPending, vfSeen, dma, tries, dmaResult>>
      BY <2>9 DEF RaiseMsi, Active, dmaVars
    <3> QED BY <1>0, <3>1, TcpBounds DEF SimTypes
  <2>10. ASSUME NEW dir \in {"r", "w"}, DmaStart(dir) PROVE SimTypes'
    <3>1. /\ dma' = [id |-> dma.id + 1, dir |-> dir] /\ dma.id < MaxDmas
          /\ tries' = 0 /\ sim' = "dma"
          /\ UNCHANGED <<cache, ep, vfPending, vfSeen, dmaResult, msiSent>>
      BY <2>10 DEF DmaStart
    <3>2. dma.id \in Nat BY <1>0, TcpBounds DEF SimTypes, Dmas
    <3>3. dma' \in Dmas /\ dma'.id > 0 BY <3>1, <3>2, TcpBounds DEF Dmas
    <3> QED BY <1>0, <3>1, <3>3, TcpBounds DEF SimTypes
  <2>11. CASE DmaTlp
    <3>1. sim = "dma" /\ DmaGoesOn /\ UNCHANGED <<ep, vfPending, vfSeen, dma, msiSent>>
      BY <2>11 DEF DmaTlp, DmaWait, DmaOthers
    <3> QED BY <1>0, <1>5, <2>11, <3>1, WaitTypes
  <2>12. CASE DmaOther
    <3>1. sim = "dma" /\ DmaGoesOn /\ UNCHANGED <<cache, ep, vfPending, vfSeen, dma, msiSent>>
      BY <2>12 DEF DmaOther, DmaWait, DmaOthers
    <3> QED BY <1>0, <3>1, WaitTypes
  <2>13. CASE DmaFails
    <3>1. sim = "dma" /\ DmaEnds(FALSE, 0)
          /\ UNCHANGED <<tries, gaveUp, cache, ep, vfPending, vfSeen, dma, msiSent>>
      BY <2>13 DEF DmaFails, DmaWait, DmaOthers
    <3>2. FALSE \in BOOLEAN /\ 0 \in 0 .. MaxDmas BY TcpBounds
    <3> QED BY <1>0, <3>1, <3>2, WaitTypes
  <2>14. CASE DmaReply
    <3>1. sim = "dma" /\ UNCHANGED <<cache, ep, vfPending, vfSeen, dma, msiSent>>
          /\ Len(net["sim"][SAux]) >= Len(NeedsReply)
      BY <2>14 DEF DmaReply, DmaWait, DmaOthers
    <3>2. net["sim"][SAux] \in Seq(Message) /\ 1 \in 1 .. Len(net["sim"][SAux])
          /\ net["sim"][SAux][1] \in Message
      <4>1. net["sim"][SAux] \in Seq(Message) BY <1>0, SideNames DEF Streams
      <4>2. Len(NeedsReply) \in {1, 2} BY DEF NeedsReply
      <4>3. 1 \in 1 .. Len(net["sim"][SAux]) BY <3>1, <4>1, <4>2, LenProperties
      <4> QED BY <4>1, <4>3, ElementOfSeq
    <3>3. InStep(net["sim"][SAux]) => net["sim"][SAux][1].id \in 0 .. MaxDmas
      <4>1. InStep(net["sim"][SAux]) => net["sim"][SAux][1].m \in {"dmadata", "dmacpl"}
        BY DEF InStep, NeedsReply
      <4> QED BY <3>2, <4>1, MessageIds, TcpBounds
    <3>4. \/ DmaGoesOn
          \/ /\ UNCHANGED <<tries, gaveUp>>
             /\ \E ok \in BOOLEAN, got \in 0 .. MaxDmas : DmaEnds(ok, got)
      <4>1. TRUE \in BOOLEAN /\ FALSE \in BOOLEAN /\ 0 \in 0 .. MaxDmas BY TcpBounds
      <4> QED BY <2>14, <3>3, <4>1, ReplyEnds
    <3> QED BY <1>0, <3>1, <3>4, WaitTypes
  <2> QED BY <2>1, <2>2, <2>3, <2>4, <2>5, <2>6, <2>7, <2>8, <2>9, <2>10, <2>11, <2>12, <2>13,
             <2>14 DEF Simulator
<1> QED BY <1>2, <1>3, <1>7 DEF TcpTypes, NetTypes

LEMMA NextTcpTypes == ASSUME TcpTypes, [Next]_vars PROVE TcpTypes' /\ AllMove
<1>1. AllMove BY NextMoves
<1>2. net' \in Streams BY <1>1 DEF AllMove
<1>3. CASE Startup \/ UNCHANGED vars
  <2>1. UNCHANGED runVars BY <1>3, StartKeepsRun DEF vars
  <2>2. NetTypes' BY <1>2, <2>1 DEF TcpTypes, NetTypes, runVars
  <2>3. QemuTypes' BY <2>1 DEF TcpTypes, QemuTypes, runVars, qemuVars, reading
  <2>4. PollerTypes' BY <2>1 DEF TcpTypes, PollerTypes, runVars, pollerVars
  <2>5. SimTypes' BY <2>1 DEF TcpTypes, SimTypes, runVars, simVars, dmaVars
  <2> QED BY <1>1, <2>2, <2>3, <2>4, <2>5 DEF TcpTypes
<1> QED BY <1>1, <1>2, <1>3, QemuTypesHold, PollerTypesHold, SimTypesHold DEF Next

LEMMA InitTcpTypes == Init => TcpTypes
<1> SUFFICES ASSUME Init PROVE TcpTypes
  OBVIOUS
<1>1. NoDma \in Dmas BY TcpBounds DEF NoDma, Dmas
<1>2. NetTypes BY DEF Init, NetTypes, Streams
<1>3. QemuTypes
  <2>1. tlps = <<>> /\ Len(tlps) = 0 BY DEF Init
  <2>2. /\ answer \in [for : 0 .. MaxTlps, got : 0 .. MaxTlps, behind : Nat]
        /\ drops \in 0 .. DrainGuard - 1 /\ ahead \in Nat
    BY TcpBounds DEF Init
  <2>3. tlps \in Seq({"read", "cfgwr"}) BY <2>1
  <2> QED BY <2>1, <2>2, <2>3, TcpBounds DEF Init, QemuTypes
<1>4. PollerTypes BY <1>1 DEF Init, PollerTypes
<1>5. SimTypes
  <2>1. cache \in Seq(1 .. MaxTlps) /\ Len(cache) = 0 BY DEF Init
  <2>2. dmaResult \in [id : 0 .. MaxDmas, got : 0 .. MaxDmas, ok : BOOLEAN]
    BY TcpBounds DEF Init
  <2> QED BY <1>1, <2>1, <2>2, TcpBounds DEF Init, SimTypes
<1> QED BY <1>2, <1>3, <1>4, <1>5 DEF TcpTypes

-----------------------------------------------------------------------------
(* Reads are answered with their own completion *)

(* What is lost stays lost, and an answer is what Claim or ClaimClosed says. *)
LEMMA Losses ==
  ASSUME [Next]_vars
  PROVE  /\ garbled \subseteq garbled' /\ (sim = "exited" => sim' = "exited")
         /\ UNCHANGED answer \/ Claim \/ ClaimClosed
<1>1. CASE Startup \/ UNCHANGED vars
  <2>1. UNCHANGED runVars BY <1>1, StartKeepsRun DEF vars
  <2> QED BY <2>1 DEF runVars, qemuVars, reading, simVars
<1>2. CASE Qemu
  <2>1. garbled \subseteq garbled'
    BY <1>2 DEF Qemu, Query, Topology, SendTlp, AnnounceTlp, SendVfEvent, Claim, Skip, reading, ClaimClosed,
       StopPoller, Destroy, LoseStep
  <2>2. UNCHANGED simVars
    BY <1>2 DEF Qemu, Query, Topology, SendTlp, AnnounceTlp, SendVfEvent, Claim, Skip, reading, ClaimClosed,
       Answer, StopPoller, Destroy
  <2>3. UNCHANGED answer \/ Claim \/ ClaimClosed
    BY <1>2 DEF Qemu, Query, Topology, SendTlp, AnnounceTlp, SendVfEvent, StopPoller, Destroy,
       reading
  <2> QED BY <2>1, <2>2, <2>3 DEF simVars
<1>3. CASE Poller
  <2>1. garbled \subseteq garbled'
    BY <1>3 DEF Poller, TakeRead, TakeWrite, TakeMsi, PostDma, AnnounceDma, CtrlTorn, PollerEnds,
       LoseStep
  <2>2. UNCHANGED <<simVars, answer>>
    BY <1>3 DEF Poller, TakeRead, TakeWrite, TakeMsi, PostDma, AnnounceDma, CtrlTorn, PollerEnds,
       qemuVars, reading
  <2> QED BY <2>1, <2>2 DEF simVars
<1>4. CASE Simulator
  <2>1. garbled \subseteq garbled' BY <1>4, SimLoses
  <2>2. sim # "exited"
    BY <1>4 DEF Simulator, PollCached, DrainTlp, DrainVf, DrainQuery, DrainOther, DrainReturn,
       PollEmpty, PollVf, Exit, Complete, Consume, SyncCpl, RaiseMsi, DmaStart, DmaTlp, DmaOther,
       DmaFails, DmaReply, DmaWait, Draining, Active, SimUp
  <2>3. UNCHANGED answer
    BY <1>4 DEF Simulator, PollCached, DrainTlp, DrainVf, DrainQuery, DrainOther, DrainReturn,
       PollEmpty, PollVf, Exit, Complete, Consume, SyncCpl, RaiseMsi, DmaStart, DmaTlp, DmaOther,
       DmaFails, DmaReply, DmaOthers, qemuVars, reading
  <2> QED BY <2>1, <2>2, <2>3
<1> QED BY <1>1, <1>2, <1>3, <1>4 DEF Next

(* bridge_wait_completion drops completions of other TLPs.  How many it    *)
(* drops is bounded by how many were still to come when the TLP was sent,  *)
(* for each is at one place only: with the endpoint, in tlp_cache, or on   *)
(* data, before the simulator or after it.                                 *)
Others(q, c) == {i \in 1 .. Len(q) : q[i] # c}
Marked(q, m, c) == {i \in 1 .. Len(q) : q[i].m = m /\ q[i].id # c}
AtEndpoint(c) == Cardinality(ep \ {c})
InCache(c) == Cardinality(Others(cache, c))
OnTheWay(c) == Cardinality(Marked(net["sim"]["data"], "tlp", c))
Coming(c) == Cardinality(Marked(net["qemu"]["data"], "cpl", c))
Foreign(c) == AtEndpoint(c) + InCache(c) + OnTheWay(c) + Coming(c)

One(b) == IF b THEN 1 ELSE 0

LEMMA PlacesCounted ==
  ASSUME NEW S, NEW q \in Seq(S), NEW m, NEW c
  PROVE  /\ IsFiniteSet(Marked(q, m, c)) /\ Cardinality(Marked(q, m, c)) \in Nat
         /\ IsFiniteSet(Others(q, c)) /\ Cardinality(Others(q, c)) \in Nat
<1>1. IsFiniteSet(1 .. Len(q)) BY LenProperties, FS_Interval
<1>2. Marked(q, m, c) \subseteq 1 .. Len(q) /\ Others(q, c) \subseteq 1 .. Len(q)
  BY DEF Marked, Others
<1> QED BY <1>1, <1>2, FS_Subset, FS_CardinalityType

LEMMA AtMostOneMore ==
  ASSUME NEW S, IsFiniteSet(S), NEW x
  PROVE  IsFiniteSet(S \cup {x}) /\ Cardinality(S \cup {x}) <= Cardinality(S) + 1
<1>1. PICK k \in Nat : k = Cardinality(S) BY FS_CardinalityType
<1>2. IsFiniteSet(S \cup {x}) /\ Cardinality(S \cup {x}) = IF x \in S THEN k ELSE k + 1
  BY <1>1, FS_AddElement
<1> QED BY <1>1, <1>2

(* Positions that move down by n are no more than they were. *)
LEMMA Shifted ==
  ASSUME NEW n \in Nat, NEW M, IsFiniteSet(M), NEW N \in SUBSET Nat, \A i \in N : i + n \in M
  PROVE  IsFiniteSet(N) /\ Cardinality(N) <= Cardinality(M)
<1> DEFINE f == [i \in N |-> i + n]
<1>1. f \in [N -> M] OBVIOUS
<1>2. \A i, j \in N : f[i] = f[j] => i = j OBVIOUS
<1> HIDE DEF f
<1>3. f \in Injection(N, M) BY <1>1, <1>2 DEF Injection, IsInjective
<1> QED BY <1>3, FS_Injection

LEMMA MarkedDrops ==
  ASSUME NEW q \in Seq(Message), NEW z \in Seq(Message), NEW n, Drops(q, z, n), NEW m, NEW c
  PROVE  Cardinality(Marked(z, m, c)) + One(q[1].m = m /\ q[1].id # c)
           <= Cardinality(Marked(q, m, c))
<1>1. PICK a, b \in Nat : a = Len(q) /\ b = Len(z) BY LenProperties
<1>2. n \in 1 .. a /\ b = a - n /\ \A i \in 1 .. b : z[i] = q[i + n] BY <1>1 DEF Drops
<1>3. IsFiniteSet(Marked(q, m, c)) /\ Cardinality(Marked(q, m, c)) \in Nat
  BY PlacesCounted
<1>4. PICK M : M = Marked(q, m, c) \ {1} OBVIOUS
<1>5. /\ IsFiniteSet(M) /\ Cardinality(M) \in Nat
      /\ Cardinality(M) = IF 1 \in Marked(q, m, c) THEN Cardinality(Marked(q, m, c)) - 1
                          ELSE Cardinality(Marked(q, m, c))
  BY <1>3, <1>4, FS_RemoveElement, FS_CardinalityType
<1>6. \A i \in Marked(z, m, c) : i + n \in M
  <2> SUFFICES ASSUME NEW i \in 1 .. b, z[i].m = m, z[i].id # c PROVE i + n \in M
    BY <1>1 DEF Marked
  <2>1. i + n \in 1 .. a /\ i + n # 1 /\ z[i] = q[i + n] BY <1>2
  <2> QED BY <1>1, <1>4, <2>1 DEF Marked
<1>7. Marked(z, m, c) \subseteq Nat /\ n \in Nat BY <1>1, <1>2 DEF Marked
<1>8. Cardinality(Marked(z, m, c)) <= Cardinality(M) BY <1>5, <1>6, <1>7, Shifted
<1>9. q[1].m = m /\ q[1].id # c => 1 \in Marked(q, m, c) BY <1>1, <1>2 DEF Marked
<1>10. Cardinality(Marked(z, m, c)) \in Nat BY PlacesCounted
<1> QED BY <1>3, <1>5, <1>8, <1>9, <1>10 DEF One

LEMMA MarkedAdds ==
  ASSUME NEW q \in Seq(Message), NEW z \in Seq(Message), NEW w \in Seq(Message), Adds(q, z, w),
         NEW m, NEW c
  PROVE  /\ (\A i \in 1 .. Len(w) : w[i].m # m \/ w[i].id = c) =>
              Cardinality(Marked(z, m, c)) = Cardinality(Marked(q, m, c))
         /\ Len(w) = 1 => Cardinality(Marked(z, m, c)) <= Cardinality(Marked(q, m, c)) + 1
<1>1. PICK a, b \in Nat : a = Len(q) /\ b = Len(w) BY LenProperties
<1>2. /\ Len(z) = a + b /\ \A i \in 1 .. a : z[i] = q[i]
      /\ \A i \in 1 .. b : z[a + i] = w[i]
  BY <1>1 DEF Adds
<1>3. ASSUME NEW i \in 1 .. a + b PROVE i \in 1 .. a \/ \E j \in 1 .. b : i = a + j
  <2>1. i \notin 1 .. a => i - a \in 1 .. b /\ i = a + (i - a) BY <1>1
  <2> QED BY <2>1
<1>4. (\A i \in 1 .. b : w[i].m # m \/ w[i].id = c) => Marked(z, m, c) = Marked(q, m, c)
  BY <1>1, <1>2, <1>3 DEF Marked
<1>5. ASSUME b = 1 PROVE Cardinality(Marked(z, m, c)) <= Cardinality(Marked(q, m, c)) + 1
  <2>1. Marked(z, m, c) \subseteq Marked(q, m, c) \cup {a + 1}
    BY <1>1, <1>2, <1>3, <1>5 DEF Marked
  <2>2. IsFiniteSet(Marked(q, m, c)) /\ Cardinality(Marked(q, m, c)) \in Nat
    BY PlacesCounted
  <2>3. /\ IsFiniteSet(Marked(q, m, c) \cup {a + 1})
        /\ Cardinality(Marked(q, m, c) \cup {a + 1}) <= Cardinality(Marked(q, m, c)) + 1
    BY <2>2, AtMostOneMore
  <2>4. /\ Cardinality(Marked(z, m, c)) <= Cardinality(Marked(q, m, c) \cup {a + 1})
        /\ Cardinality(Marked(z, m, c)) \in Nat
        /\ Cardinality(Marked(q, m, c) \cup {a + 1}) \in Nat
    BY <2>1, <2>3, FS_Subset, FS_CardinalityType
  <2> QED BY <2>2, <2>3, <2>4
<1> QED BY <1>1, <1>4, <1>5

LEMMA CacheAppend ==
  ASSUME NEW S, NEW q \in Seq(S), NEW i \in S, NEW c
  PROVE  Cardinality(Others(Append(q, i), c)) <= Cardinality(Others(q, c)) + One(i # c)
<1>0. IsFiniteSet(Others(q, c)) /\ Cardinality(Others(q, c)) \in Nat BY PlacesCounted
<1>1. PICK a \in Nat : a = Len(q) BY LenProperties
<1>2. PICK z : z = Append(q, i) OBVIOUS
<1>3. Len(z) = a + 1 /\ z[a + 1] = i /\ \A k \in 1 .. a : z[k] = q[k]
  BY <1>1, <1>2, AppendProperties
<1>4. ASSUME NEW k \in 1 .. a + 1 PROVE k \in 1 .. a \/ k = a + 1 BY <1>1
<1>5. CASE i = c
  <2>1. Others(z, c) = Others(q, c) BY <1>1, <1>3, <1>4, <1>5 DEF Others
  <2> QED BY <1>0, <1>2, <1>5, <2>1 DEF One
<1>6. CASE i # c
  <2>1. Others(z, c) = Others(q, c) \cup {a + 1}
    BY <1>1, <1>3, <1>4, <1>6 DEF Others
  <2>2. Cardinality(Others(z, c)) <= Cardinality(Others(q, c)) + 1
    BY <1>0, <2>1, AtMostOneMore
  <2> QED BY <1>2, <1>6, <2>2 DEF One
<1> QED BY <1>5, <1>6

LEMMA CacheTail ==
  ASSUME NEW S, NEW q \in Seq(S), q # <<>>, NEW c
  PROVE  Cardinality(Others(Tail(q), c)) + One(Head(q) # c) <= Cardinality(Others(q, c))
<1>0. IsFiniteSet(Others(q, c)) /\ Cardinality(Others(q, c)) \in Nat BY PlacesCounted
<1>1. PICK a \in Nat : a = Len(q) BY LenProperties
<1>2. PICK z : z = Tail(q) OBVIOUS
<1>3. a # 0 /\ z \in Seq(S) /\ Len(z) = a - 1 /\ \A k \in 1 .. a - 1 : z[k] = q[k + 1]
  BY <1>1, <1>2, HeadTailProperties, EmptySeq
<1>4. PICK M : M = Others(q, c) \ {1} OBVIOUS
<1>5. /\ IsFiniteSet(M) /\ Cardinality(M) \in Nat
      /\ Cardinality(M) = IF 1 \in Others(q, c) THEN Cardinality(Others(q, c)) - 1
                          ELSE Cardinality(Others(q, c))
  BY <1>0, <1>4, FS_RemoveElement, FS_CardinalityType
<1>6. \A k \in Others(z, c) : k + 1 \in M
  <2> SUFFICES ASSUME NEW k \in 1 .. a - 1, z[k] # c PROVE k + 1 \in M
    BY <1>1, <1>3 DEF Others
  <2>1. k + 1 \in 1 .. a /\ k + 1 # 1 /\ z[k] = q[k + 1] BY <1>1, <1>3
  <2> QED BY <1>1, <1>4, <2>1 DEF Others
<1>7. Others(z, c) \subseteq Nat BY <1>1, <1>3 DEF Others
<1>8. Cardinality(Others(z, c)) <= Cardinality(M) BY <1>5, <1>6, <1>7, Shifted
<1>9. Head(q) # c => 1 \in Others(q, c)
  <2>1. Head(q) = q[1] BY HeadTailProperties
  <2> QED BY <1>1, <1>3, <2>1 DEF Others
<1>10. Cardinality(Others(z, c)) \in Nat BY <1>3, PlacesCounted
<1> QED BY <1>0, <1>2, <1>5, <1>8, <1>9, <1>10 DEF One

LEMMA ForeignCounted ==
  ASSUME TcpTypes, NEW c
  PROVE  /\ AtEndpoint(c) \in Nat /\ InCache(c) \in Nat /\ OnTheWay(c) \in Nat /\ Coming(c) \in Nat
         /\ IsFiniteSet(ep \ {c}) /\ cache \in Seq(1 .. MaxTlps)
<1>1. net["sim"]["data"] \in Seq(Message) /\ net["qemu"]["data"] \in Seq(Message)
  BY SideNames DEF TcpTypes, NetTypes, Streams
<1>2. cache \in Seq(1 .. MaxTlps) /\ ep \subseteq 1 .. MaxTlps BY DEF TcpTypes, SimTypes
<1>3. IsFiniteSet(ep) /\ IsFiniteSet(ep \ {c})
  <2>1. IsFiniteSet(1 .. MaxTlps) BY TcpBounds, FS_Interval
  <2> QED BY <1>2, <2>1, FS_Subset
<1> QED BY <1>1, <1>2, <1>3, PlacesCounted, FS_CardinalityType
        DEF AtEndpoint, InCache, OnTheWay, Coming

(* Only SendTlp puts a TLP on data and only Complete a completion.         *)
LEMMA DataThins ==
  ASSUME TcpTypes, [Next]_vars, ~\E k \in {"read", "cfgwr"} : SendTlp(k), NEW c
  PROVE  /\ OnTheWay(c)' <= OnTheWay(c)
         /\ (~\E i \in ep : Complete(i)) => Coming(c)' <= Coming(c)
<1>1. AllMove /\ TcpTypes' BY NextTcpTypes
<1>2. /\ net["sim"]["data"] \in Seq(Message) /\ net["qemu"]["data"] \in Seq(Message)
      /\ net'["sim"]["data"] \in Seq(Message) /\ net'["qemu"]["data"] \in Seq(Message)
  BY <1>1, SideNames DEF TcpTypes, NetTypes, Streams
<1>3. Moves("sim", "data") /\ Moves("qemu", "data") BY <1>1, SideNames DEF AllMove
<1>4. ASSUME NEW q \in Seq(Message), NEW z \in Seq(Message), NEW m,
             \/ z = q
             \/ \E n : Drops(q, z, n)
             \/ \E w \in Seq(Message) : Adds(q, z, w) /\ \A i \in 1 .. Len(w) : w[i].m # m
      PROVE  Cardinality(Marked(z, m, c)) <= Cardinality(Marked(q, m, c))
  <2>0. Cardinality(Marked(z, m, c)) \in Nat /\ Cardinality(Marked(q, m, c)) \in Nat
    BY PlacesCounted
  <2>1. ASSUME NEW n, Drops(q, z, n)
        PROVE  Cardinality(Marked(z, m, c)) <= Cardinality(Marked(q, m, c))
    BY <2>0, <2>1, MarkedDrops DEF One
  <2>2. ASSUME NEW w \in Seq(Message), Adds(q, z, w), \A i \in 1 .. Len(w) : w[i].m # m
        PROVE  Cardinality(Marked(z, m, c)) <= Cardinality(Marked(q, m, c))
    BY <2>0, <2>2, MarkedAdds
  <2> QED BY <1>4, <2>0, <2>1, <2>2
<1>5. ASSUME NEW w \in Seq(Message), Sends("sim", "data", w)
      PROVE  \A i \in 1 .. Len(w) : w[i].m # "tlp"
  <2>1. w = ReplyTo(serving) BY <1>5, SideNames DEF Sends
  <2> QED BY <2>1 DEF ReplyTo, Msg
<1>6. ASSUME ~\E i \in ep : Complete(i), NEW w \in Seq(Message), Sends("qemu", "data", w)
      PROVE  \A i \in 1 .. Len(w) : w[i].m # "cpl"
  <2>1. w = <<Msg("msi", msiSent + 1)>> \/ w = Request(dma') BY <1>6, SideNames DEF Sends
  <2> QED BY <2>1 DEF Request, Msg
<1>7. OnTheWay(c)' <= OnTheWay(c) BY <1>2, <1>3, <1>4, <1>5 DEF Moves, OnTheWay
<1>8. (~\E i \in ep : Complete(i)) => Coming(c)' <= Coming(c)
  BY <1>2, <1>3, <1>4, <1>6 DEF Moves, Coming
<1> QED BY <1>7, <1>8

(* A TLP that the simulator receives is cached or lost. *)
LEMMA TlpCached ==
  ASSUME TcpTypes, [Next]_vars, DrainTlp \/ DmaTlp, NEW c
  PROVE  Foreign(c)' <= Foreign(c)
<1>0. TcpTypes' /\ net["sim"]["data"] \in Seq(Message) /\ net \in Streams
  BY NextTcpTypes, SideNames DEF TcpTypes, NetTypes, Streams
<1>1. /\ Readable("sim", "data") /\ Readable("sim", "ctrl") /\ ReadTlp /\ UNCHANGED ep
      /\ \/ Got("sim", "data", "tlp") /\ cache' = Cached(First("sim", "data").id)
         \/ UNCHANGED cache
  BY DEF DrainTlp, DmaTlp, DmaOthers, Ctrl
<1>2. PICK y : y = Tail(net["sim"]["data"]) OBVIOUS
<1>3. net["sim"]["data"] # <<>> /\ net["sim"]["ctrl"] # <<>> BY <1>1 DEF Readable
<1>4. y \in Seq(Message) /\ Drops(net["sim"]["data"], y, 1) BY <1>0, <1>2, <1>3, DropsTail
<1>5. net' = TakenTwo("sim", "data", y) BY <1>1, <1>2 DEF TakenTwo, ReadTlp
<1>6. net'["sim"]["data"] = y /\ net'["qemu"]["data"] = net["qemu"]["data"]
  BY <1>0, <1>3, <1>4, <1>5, TakeTwoEffect, SideNames
<1>7. First("sim", "data") = net["sim"]["data"][1] /\ First("sim", "data") \in Message
  BY <1>0, <1>1, HeadOf, SideNames
<1>8. OnTheWay(c)' + One(First("sim", "data").m = "tlp" /\ First("sim", "data").id # c)
        <= OnTheWay(c)
  BY <1>0, <1>4, <1>6, <1>7, MarkedDrops DEF OnTheWay
<1>9. AtEndpoint(c)' = AtEndpoint(c) /\ Coming(c)' = Coming(c)
  BY <1>1, <1>6 DEF AtEndpoint, Coming
<1>10. InCache(c)' <= InCache(c) + One(First("sim", "data").m = "tlp" /\ First("sim", "data").id # c)
  <2>1. CASE UNCHANGED cache
    <3>1. InCache(c)' = InCache(c) BY <2>1 DEF InCache
    <3>2. InCache(c) \in Nat BY ForeignCounted
    <3> QED BY <3>1, <3>2 DEF One
  <2>2. CASE Got("sim", "data", "tlp") /\ cache' = Cached(First("sim", "data").id)
    <3>1. First("sim", "data").m = "tlp" /\ First("sim", "data").id \in 1 .. MaxTlps
      BY <1>7, <2>2, MessageIds DEF Got
    <3>2. PICK i \in 1 .. MaxTlps : i = First("sim", "data").id BY <3>1
    <3>3. cache' = Append(cache, i) \/ cache' = cache BY <2>2, <3>2 DEF Cached
    <3>4. CASE cache' = Append(cache, i)
      <4>1. cache \in Seq(1 .. MaxTlps) BY ForeignCounted
      <4>2. Cardinality(Others(Append(cache, i), c)) <= Cardinality(Others(cache, c)) + One(i # c)
        <5>1. PICK q \in Seq(1 .. MaxTlps) : q = cache BY <4>1
        <5> QED BY <5>1, CacheAppend
      <4>3. InCache(c)' <= InCache(c) + One(i # c) BY <3>4, <4>2 DEF InCache
      <4> QED BY <3>1, <3>2, <4>3
    <3> QED BY <2>1, <3>3, <3>4
  <2> QED BY <1>1, <2>1, <2>2
<1>11. /\ AtEndpoint(c) \in Nat /\ InCache(c) \in Nat /\ OnTheWay(c) \in Nat /\ Coming(c) \in Nat
  BY ForeignCounted
<1>12. InCache(c)' \in Nat /\ OnTheWay(c)' \in Nat
  <2>1. cache' \in Seq(1 .. MaxTlps) BY <1>0 DEF TcpTypes, SimTypes
  <2> QED BY <1>4, <1>6, <2>1, PlacesCounted DEF InCache, OnTheWay
<1> QED BY <1>8, <1>9, <1>10, <1>11, <1>12 DEF Foreign, One

(* What waits in tlp_cache goes to the endpoint, and is completed there.   *)
LEMMA TlpDelivered ==
  ASSUME TcpTypes, [Next]_vars, PollCached \/ DrainReturn, NEW c
  PROVE  Foreign(c)' <= Foreign(c)
<1>1. /\ cache # <<>> /\ cache' = Tail(cache) /\ ep' = ep \cup {Head(cache)} /\ net' = net
  BY DEF PollCached, DrainReturn, Deliver
<1>2. /\ AtEndpoint(c) \in Nat /\ InCache(c) \in Nat /\ OnTheWay(c) \in Nat /\ Coming(c) \in Nat
      /\ IsFiniteSet(ep \ {c}) /\ cache \in Seq(1 .. MaxTlps)
  BY ForeignCounted
<1>3. OnTheWay(c)' = OnTheWay(c) /\ Coming(c)' = Coming(c) BY <1>1 DEF OnTheWay, Coming
<1>4. InCache(c)' + One(Head(cache) # c) <= InCache(c) BY <1>1, <1>2, CacheTail DEF InCache
<1>5. AtEndpoint(c)' <= AtEndpoint(c) + One(Head(cache) # c) /\ AtEndpoint(c)' \in Nat
  <2>1. PICK h : h = Head(cache) OBVIOUS
  <2>2. CASE h = c
    <3>1. ep' \ {c} = ep \ {c} BY <1>1, <2>1, <2>2
    <3>2. AtEndpoint(c)' = AtEndpoint(c) BY <3>1 DEF AtEndpoint
    <3> QED BY <1>2, <2>1, <2>2, <3>2 DEF One
  <2>3. CASE h # c
    <3>1. ep' \ {c} = (ep \ {c}) \cup {h} BY <1>1, <2>1, <2>3
    <3>2. PICK k : k = ep \ {c} OBVIOUS
    <3>3. IsFiniteSet(k) /\ ep' \ {c} = k \cup {h} BY <1>2, <3>1, <3>2
    <3>4. IsFiniteSet(k \cup {h}) /\ Cardinality(k \cup {h}) <= Cardinality(k) + 1
      BY <3>3, AtMostOneMore
    <3>5. Cardinality(k \cup {h}) \in Nat BY <3>4, FS_CardinalityType
    <3> QED BY <2>1, <2>3, <3>2, <3>3, <3>4, <3>5 DEF AtEndpoint, One
  <2> QED BY <2>2, <2>3
<1>6. InCache(c)' \in Nat
  <2>1. cache' \in Seq(1 .. MaxTlps) BY <1>1, <1>2, HeadTailProperties
  <2> QED BY <2>1, PlacesCounted DEF InCache
<1> QED BY <1>2, <1>3, <1>4, <1>5, <1>6 DEF Foreign, One

LEMMA TlpCompleted ==
  ASSUME TcpTypes, [Next]_vars, NEW i \in ep, Complete(i), NEW c
  PROVE  Foreign(c)' <= Foreign(c)
<1>0. net \in Streams /\ i \in 1 .. MaxTlps BY DEF TcpTypes, NetTypes, SimTypes
<1>1. /\ ep' = ep \ {i} /\ UNCHANGED cache
      /\ net' = SendTo("qemu", "data", <<Msg("cpl", i)>>)
  BY DEF Complete
<1>2. PICK w : w = <<Msg("cpl", i)>> OBVIOUS
<1>3. w \in Seq(Message) /\ Len(w) = 1 /\ w[1] = Msg("cpl", i) BY <1>0, <1>2, Messages
<1>4. /\ Adds(net["qemu"]["data"], net'["qemu"]["data"], w) /\ net' \in Streams
      /\ net'["sim"]["data"] = net["sim"]["data"]
  <2>1. net' = SendTo("qemu", "data", w) BY <1>1, <1>2
  <2>2. net \in Streams /\ w \in Seq(Message) BY <1>0, <1>3
  <2>3. /\ net' \in Streams /\ Adds(net["qemu"]["data"], net'["qemu"]["data"], w)
        /\ \A t \in Sides, k \in Channels : t # "qemu" \/ k # "data" => net'[t][k] = net[t][k]
    BY <2>1, <2>2, SendEffect, SideNames
  <2> QED BY <2>3, SideNames
<1>5. net["qemu"]["data"] \in Seq(Message) /\ net'["qemu"]["data"] \in Seq(Message)
  BY <1>0, <1>4, SideNames DEF Streams
<1>6. /\ i = c => Coming(c)' = Coming(c)
      /\ Coming(c)' <= Coming(c) + 1 /\ Coming(c)' \in Nat
  <2>1. i = c => \A k \in 1 .. Len(w) : w[k].id = c BY <1>3 DEF Msg
  <2> QED BY <1>3, <1>4, <1>5, <2>1, MarkedAdds, PlacesCounted DEF Coming
<1>7. OnTheWay(c)' = OnTheWay(c) /\ InCache(c)' = InCache(c)
  BY <1>1, <1>4 DEF OnTheWay, InCache
<1>8. /\ AtEndpoint(c) \in Nat /\ InCache(c) \in Nat /\ OnTheWay(c) \in Nat /\ Coming(c) \in Nat
      /\ IsFiniteSet(ep \ {c})
  BY ForeignCounted
<1>9. /\ i = c => AtEndpoint(c)' = AtEndpoint(c)
      /\ i # c => AtEndpoint(c)' = AtEndpoint(c) - 1
  <2>1. i = c => ep' \ {c} = ep \ {c} BY <1>1
  <2>2. ASSUME i # c PROVE AtEndpoint(c)' = AtEndpoint(c) - 1
    <3>1. ep' \ {c} = (ep \ {c}) \ {i} /\ i \in ep \ {c} BY <1>1, <2>2
    <3>2. Cardinality((ep \ {c}) \ {i}) = Cardinality(ep \ {c}) - 1
      BY <1>8, <3>1, FS_RemoveElement
    <3> QED BY <3>1, <3>2 DEF AtEndpoint
  <2> QED BY <2>1, <2>2 DEF AtEndpoint
<1> QED BY <1>6, <1>7, <1>8, <1>9 DEF Foreign

LEMMA CompletionTaken ==
  ASSUME TcpTypes, [Next]_vars, Claim, NEW c
  PROVE  Foreign(c)' + One(/\ First("qemu", "data").m = "cpl" /\ First("qemu", "data").id # c)
           <= Foreign(c)
<1>0. net["qemu"]["data"] \in Seq(Message) /\ net \in Streams
  BY SideNames DEF TcpTypes, NetTypes, Streams
<1>1. /\ Readable("qemu", "ctrl") /\ Readable("qemu", "data")
      /\ net' = [net EXCEPT !["qemu"]["ctrl"] = Tail(@), !["qemu"]["data"] = Tail(@)]
  BY DEF Claim
<1>2. UNCHANGED <<ep, cache>> BY DEF Claim, Answer, Skip, simVars
<1>3. PICK y : y = Tail(net["qemu"]["data"]) OBVIOUS
<1>4. net["qemu"]["data"] # <<>> /\ net["qemu"]["ctrl"] # <<>> BY <1>1 DEF Readable
<1>5. y \in Seq(Message) /\ Drops(net["qemu"]["data"], y, 1) BY <1>0, <1>3, <1>4, DropsTail
<1>6. net' = TakenTwo("qemu", "data", y) BY <1>1, <1>3 DEF TakenTwo
<1>7. net'["qemu"]["data"] = y /\ net'["sim"]["data"] = net["sim"]["data"]
  <2>1. /\ net'["qemu"]["data"] = y
        /\ \A t \in Sides, d \in Channels :
             t # "qemu" \/ (d # "ctrl" /\ d # "data") => net'[t][d] = net[t][d]
    BY <1>0, <1>4, <1>5, <1>6, TakeTwoEffect, SideNames
  <2> QED BY <2>1, SideNames
<1>8. First("qemu", "data") = net["qemu"]["data"][1] BY <1>0, <1>1, HeadOf, SideNames
<1>9. Coming(c)' + One(First("qemu", "data").m = "cpl" /\ First("qemu", "data").id # c)
        <= Coming(c)
  BY <1>0, <1>5, <1>7, <1>8, MarkedDrops DEF Coming
<1>10. AtEndpoint(c)' = AtEndpoint(c) /\ InCache(c)' = InCache(c) /\ OnTheWay(c)' = OnTheWay(c)
  BY <1>2, <1>7 DEF AtEndpoint, InCache, OnTheWay
<1>11. AtEndpoint(c) \in Nat /\ InCache(c) \in Nat /\ OnTheWay(c) \in Nat /\ Coming(c) \in Nat
  BY ForeignCounted
<1>12. Coming(c)' \in Nat BY <1>5, <1>7, PlacesCounted DEF Coming
<1> QED BY <1>9, <1>10, <1>11, <1>12 DEF Foreign, One

(* Where the TLPs of which a completion may still come go in a step. *)
LEMMA TlpsMove ==
  ASSUME [Next]_vars
  PROVE  /\ \A u \in ep' : u \in ep \/ (cache # <<>> /\ u = Head(cache))
         /\ \/ UNCHANGED cache
            \/ cache # <<>> /\ cache' = Tail(cache)
            \/ /\ Readable("sim", "data") /\ Got("sim", "data", "tlp")
               /\ cache' = Cached(First("sim", "data").id)
         /\ \/ PollCached \/ DrainReturn \/ DrainTlp \/ DmaTlp
            \/ ep' \subseteq ep /\ UNCHANGED cache
<1>1. CASE Startup \/ UNCHANGED vars
  <2>1. UNCHANGED runVars BY <1>1, StartKeepsRun DEF vars
  <2> QED BY <2>1 DEF runVars, simVars
<1>2. CASE Qemu \/ Poller
  <2>1. UNCHANGED simVars
    BY <1>2 DEF Qemu, Query, Topology, SendTlp, AnnounceTlp, SendVfEvent, Claim, Skip, ClaimClosed,
       Answer, StopPoller, Destroy, Poller, TakeRead, TakeWrite, TakeMsi, PostDma, AnnounceDma,
       CtrlTorn, PollerEnds
  <2> QED BY <2>1 DEF simVars
<1>3. CASE Simulator
  <2>1. CASE PollCached \/ DrainReturn BY <2>1 DEF PollCached, DrainReturn, Deliver
  <2>2. CASE DrainTlp \/ DmaTlp BY <2>2 DEF DrainTlp, DmaTlp, DmaOthers
  <2>3. ASSUME NEW i \in ep, Complete(i) \/ Consume(i) PROVE UNCHANGED cache /\ ep' \subseteq ep
    BY <2>3 DEF Complete, Consume
  <2>4. CASE DrainVf \/ DrainQuery \/ DrainOther \/ PollEmpty \/ PollVf \/ Exit \/ SyncCpl
             \/ RaiseMsi \/ (\E dir \in {"r", "w"} : DmaStart(dir))
             \/ DmaOther \/ DmaFails \/ DmaReply
    BY <2>4 DEF DrainVf, DrainQuery, DrainOther, PollEmpty, PollVf, Exit, SyncCpl, RaiseMsi,
       DmaStart, DmaOther, DmaFails, DmaReply, DmaOthers
  <2> QED BY <1>3, <2>1, <2>2, <2>3, <2>4 DEF Simulator
<1> QED BY <1>1, <1>2, <1>3 DEF Next

LEMMA AddsAt ==
  ASSUME NEW q \in Seq(Message), NEW z, NEW w \in Seq(Message), Adds(q, z, w),
         NEW i \in 1 .. Len(z)
  PROVE  \/ i \in 1 .. Len(q) /\ z[i] = q[i]
         \/ \E j \in 1 .. Len(w) : z[i] = w[j]
<1>1. PICK a, b \in Nat : a = Len(q) /\ b = Len(w) BY LenProperties
<1>2. /\ Len(z) = a + b /\ \A k \in 1 .. a : z[k] = q[k]
      /\ \A k \in 1 .. b : z[a + k] = w[k]
  BY <1>1 DEF Adds
<1>3. PICK k : k = i - a OBVIOUS
<1>4. i = a + k /\ (i \in 1 .. a \/ k \in 1 .. b) BY <1>1, <1>2, <1>3
<1> QED BY <1>1, <1>2, <1>3, <1>4

(* Only SendTlp makes a completion due. *)
LEMMA UnclaimedThins ==
  ASSUME TcpTypes, [Next]_vars
  PROVE  \A u \in Unclaimed' :
           u \in Unclaimed \/ ((\E k \in {"read", "cfgwr"} : SendTlp(k)) /\ u = Cur + 1)
<1>0. AllMove /\ TcpTypes' /\ net \in Streams BY NextTcpTypes DEF TcpTypes, NetTypes
<1>1. /\ net["sim"]["data"] \in Seq(Message) /\ net["qemu"]["data"] \in Seq(Message)
      /\ net'["sim"]["data"] \in Seq(Message) /\ net'["qemu"]["data"] \in Seq(Message)
      /\ cache \in Seq(1 .. MaxTlps)
  BY <1>0, SideNames DEF TcpTypes, NetTypes, SimTypes, Streams
<1>2. Moves("sim", "data") /\ Moves("qemu", "data") BY <1>0, SideNames DEF AllMove
<1>3. /\ \A u \in ep : u \in Unclaimed
      /\ \A i \in 1 .. Len(cache) : cache[i] \in Unclaimed
      /\ \A i \in 1 .. Len(net["sim"]["data"]) :
           net["sim"]["data"][i].m = "tlp" => net["sim"]["data"][i].id \in Unclaimed
      /\ \A i \in 1 .. Len(net["qemu"]["data"]) :
           net["qemu"]["data"][i].m = "cpl" => net["qemu"]["data"][i].id \in Unclaimed
  BY <1>1, LenProperties DEF Unclaimed, InData
<1>4. ASSUME cache # <<>> PROVE Head(cache) \in Unclaimed
  <2>1. Head(cache) = cache[1] /\ 1 \in 1 .. Len(cache) BY <1>1, <1>4, HeadTailProperties, EmptySeq
  <2> QED BY <1>3, <2>1
<1>5. \A u \in ep' : u \in Unclaimed BY <1>3, <1>4, TlpsMove
<1>6. ASSUME NEW i \in 1 .. Len(cache') PROVE cache'[i] \in Unclaimed
  <2>1. CASE UNCHANGED cache BY <1>3, <1>6, <2>1
  <2>2. CASE cache # <<>> /\ cache' = Tail(cache)
    <3>1. i + 1 \in 1 .. Len(cache) /\ cache'[i] = cache[i + 1]
      BY <1>1, <1>6, <2>2, HeadTailProperties, EmptySeq
    <3> QED BY <1>3, <3>1
  <2>3. CASE /\ Readable("sim", "data") /\ Got("sim", "data", "tlp")
             /\ cache' = Cached(First("sim", "data").id)
    <3>1. /\ First("sim", "data") = net["sim"]["data"][1] /\ 1 \in 1 .. Len(net["sim"]["data"])
          /\ First("sim", "data") \in Message /\ First("sim", "data").m = "tlp"
      BY <1>0, <2>3, HeadOf, SideNames DEF Got
    <3>2. PICK d \in 1 .. MaxTlps : d = First("sim", "data").id BY <3>1, MessageIds
    <3>3. d \in Unclaimed BY <1>3, <3>1, <3>2
    <3>4. CASE cache' = Append(cache, d)
      <4>1. (i \in 1 .. Len(cache) /\ cache'[i] = cache[i]) \/ cache'[i] = d
        BY <1>1, <1>6, <3>4, AppendProperties, LenProperties
      <4> QED BY <1>3, <3>3, <4>1
    <3> QED BY <2>1, <2>3, <3>2, <3>4 DEF Cached
  <2> QED BY <2>1, <2>2, <2>3, TlpsMove
<1>7. ASSUME NEW i \in 1 .. Len(net'["sim"]["data"]), net'["sim"]["data"][i].m = "tlp"
      PROVE  \/ net'["sim"]["data"][i].id \in Unclaimed
             \/ (\E k \in {"read", "cfgwr"} : SendTlp(k)) /\ net'["sim"]["data"][i].id = Cur + 1
  <2>1. CASE net'["sim"]["data"] = net["sim"]["data"] BY <1>3, <1>7, <2>1
  <2>2. ASSUME NEW n, Drops(net["sim"]["data"], net'["sim"]["data"], n)
        PROVE  net'["sim"]["data"][i].id \in Unclaimed
    <3>1. /\ i + n \in 1 .. Len(net["sim"]["data"])
          /\ net'["sim"]["data"][i] = net["sim"]["data"][i + n]
      BY <1>1, <1>7, <2>2, LenProperties DEF Drops
    <3> QED BY <1>3, <1>7, <3>1
  <2>3. ASSUME NEW w \in Seq(Message), Sends("sim", "data", w),
               Adds(net["sim"]["data"], net'["sim"]["data"], w)
        PROVE  \/ net'["sim"]["data"][i].id \in Unclaimed
               \/ (\E k \in {"read", "cfgwr"} : SendTlp(k)) /\ net'["sim"]["data"][i].id = Cur + 1
    <3>1. \/ w = <<Msg("tlp", Cur + 1)>> /\ \E k \in {"read", "cfgwr"} : SendTlp(k)
          \/ w = ReplyTo(serving)
      BY <2>3, SideNames DEF Sends
    <3>2. \/ i \in 1 .. Len(net["sim"]["data"]) /\ net'["sim"]["data"][i] = net["sim"]["data"][i]
          \/ \E j \in 1 .. Len(w) : net'["sim"]["data"][i] = w[j]
      <4>1. PICK q \in Seq(Message), z \in Seq(Message) :
              q = net["sim"]["data"] /\ z = net'["sim"]["data"]
        BY <1>1
      <4>2. i \in 1 .. Len(z) /\ Adds(q, z, w) BY <1>7, <2>3, <4>1
      <4>3. \/ i \in 1 .. Len(q) /\ z[i] = q[i]
            \/ \E j \in 1 .. Len(w) : z[i] = w[j]
        BY <4>2, AddsAt
      <4> QED BY <4>1, <4>3
    <3>3. ASSUME NEW j \in 1 .. Len(w), w[j].m = "tlp"
          PROVE  (\E k \in {"read", "cfgwr"} : SendTlp(k)) /\ w[j].id = Cur + 1
      BY <3>1, <3>3 DEF ReplyTo, Msg
    <3> QED BY <1>3, <1>7, <3>2, <3>3
  <2> QED BY <1>2, <2>1, <2>2, <2>3 DEF Moves
<1>8. ASSUME NEW i \in 1 .. Len(net'["qemu"]["data"]), net'["qemu"]["data"][i].m = "cpl"
      PROVE  net'["qemu"]["data"][i].id \in Unclaimed
  <2>1. CASE net'["qemu"]["data"] = net["qemu"]["data"] BY <1>3, <1>8, <2>1
  <2>2. ASSUME NEW n, Drops(net["qemu"]["data"], net'["qemu"]["data"], n)
        PROVE  net'["qemu"]["data"][i].id \in Unclaimed
    <3>1. /\ i + n \in 1 .. Len(net["qemu"]["data"])
          /\ net'["qemu"]["data"][i] = net["qemu"]["data"][i + n]
      BY <1>1, <1>8, <2>2, LenProperties DEF Drops
    <3> QED BY <1>3, <1>8, <3>1
  <2>3. ASSUME NEW w \in Seq(Message), Sends("qemu", "data", w),
               Adds(net["qemu"]["data"], net'["qemu"]["data"], w)
        PROVE  net'["qemu"]["data"][i].id \in Unclaimed
    <3>1. \/ \E j \in ep : w = <<Msg("cpl", j)>>
          \/ w = <<Msg("msi", msiSent + 1)>> \/ w = Request(dma')
      BY <2>3, SideNames DEF Sends
    <3>2. \/ i \in 1 .. Len(net["qemu"]["data"]) /\ net'["qemu"]["data"][i] = net["qemu"]["data"][i]
          \/ \E j \in 1 .. Len(w) : net'["qemu"]["data"][i] = w[j]
      <4>1. PICK q \in Seq(Message), z \in Seq(Message) :
              q = net["qemu"]["data"] /\ z = net'["qemu"]["data"]
        BY <1>1
      <4>2. i \in 1 .. Len(z) /\ Adds(q, z, w) BY <1>8, <2>3, <4>1
      <4> QED BY <4>1, <4>2, AddsAt
    <3>3. ASSUME NEW j \in 1 .. Len(w), w[j].m = "cpl" PROVE w[j].id \in Unclaimed
      BY <1>3, <3>1, <3>3 DEF Request, Msg
    <3> QED BY <1>3, <1>8, <3>2, <3>3
  <2> QED BY <1>2, <2>1, <2>2, <2>3 DEF Moves
<1>9. /\ DOMAIN cache' = 1 .. Len(cache')
      /\ DOMAIN net'["sim"]["data"] = 1 .. Len(net'["sim"]["data"])
      /\ DOMAIN net'["qemu"]["data"] = 1 .. Len(net'["qemu"]["data"])
  <2>1. cache' \in Seq(1 .. MaxTlps) BY <1>0 DEF TcpTypes, SimTypes
  <2> QED BY <1>1, <2>1, LenProperties
<1> QED BY <1>5, <1>6, <1>7, <1>8, <1>9 DEF Unclaimed, InData

LEMMA ForeignNext ==
  ASSUME TcpTypes', NEW c
  PROVE  /\ AtEndpoint(c)' \in Nat /\ InCache(c)' \in Nat /\ OnTheWay(c)' \in Nat /\ Coming(c)' \in Nat
         /\ Foreign(c)' \in Nat
<1>1. net'["sim"]["data"] \in Seq(Message) /\ net'["qemu"]["data"] \in Seq(Message)
  BY SideNames DEF TcpTypes, NetTypes, Streams
<1>2. cache' \in Seq(1 .. MaxTlps) /\ ep' \subseteq 1 .. MaxTlps BY DEF TcpTypes, SimTypes
<1>3. AtEndpoint(c)' \in Nat
  <2>1. IsFiniteSet(1 .. MaxTlps) BY TcpBounds, FS_Interval
  <2>2. PICK after : after = ep' OBVIOUS
  <2>3. after \ {c} \subseteq 1 .. MaxTlps BY <1>2, <2>2
  <2>4. Cardinality(after \ {c}) \in Nat BY <2>1, <2>3, FS_Subset, FS_CardinalityType
  <2> QED BY <2>2, <2>4 DEF AtEndpoint
<1>4. InCache(c)' \in Nat BY <1>2, PlacesCounted DEF InCache
<1>5. OnTheWay(c)' \in Nat BY <1>1, PlacesCounted DEF OnTheWay
<1>6. Coming(c)' \in Nat BY <1>1, PlacesCounted DEF Coming
<1>7. Foreign(c)' = AtEndpoint(c)' + InCache(c)' + OnTheWay(c)' + Coming(c)' BY DEF Foreign
<1> QED BY <1>3, <1>4, <1>5, <1>6, <1>7

LEMMA ForeignThins ==
  ASSUME TcpTypes, [Next]_vars, ~\E k \in {"read", "cfgwr"} : SendTlp(k), NEW c
  PROVE  Foreign(c)' <= Foreign(c) /\ Foreign(c) \in Nat /\ Foreign(c)' \in Nat
<1>1. /\ AtEndpoint(c) \in Nat /\ InCache(c) \in Nat /\ OnTheWay(c) \in Nat /\ Coming(c) \in Nat
      /\ IsFiniteSet(ep \ {c})
  BY ForeignCounted
<1>2. TcpTypes' BY NextTcpTypes
<1>3. /\ AtEndpoint(c)' \in Nat /\ InCache(c)' \in Nat /\ OnTheWay(c)' \in Nat /\ Coming(c)' \in Nat
  BY <1>2, ForeignNext
<1>4. ASSUME PollCached \/ DrainReturn PROVE Foreign(c)' <= Foreign(c) BY <1>4, TlpDelivered
<1>5. ASSUME DrainTlp \/ DmaTlp PROVE Foreign(c)' <= Foreign(c) BY <1>5, TlpCached
<1>6. ASSUME NEW i \in ep, Complete(i) PROVE Foreign(c)' <= Foreign(c) BY <1>6, TlpCompleted
<1>7. ASSUME ~\E i \in ep : Complete(i), ep' \subseteq ep, UNCHANGED cache
      PROVE  Foreign(c)' <= Foreign(c)
  <2>1. OnTheWay(c)' <= OnTheWay(c) /\ Coming(c)' <= Coming(c) BY <1>7, DataThins
  <2>2. InCache(c)' = InCache(c) BY <1>7 DEF InCache
  <2>3. AtEndpoint(c)' <= AtEndpoint(c)
    <3>1. ep' \ {c} \subseteq ep \ {c} BY <1>7
    <3> QED BY <1>1, <3>1, FS_Subset DEF AtEndpoint
  <2> QED BY <1>1, <1>3, <2>1, <2>2, <2>3 DEF Foreign
<1>8. Foreign(c)' <= Foreign(c) BY <1>4, <1>5, <1>6, <1>7, TlpsMove
<1> QED BY <1>1, <1>3, <1>8 DEF Foreign

(* When a TLP is sent, what is still to come is all of others. *)
LEMMA SentBehind ==
  ASSUME TcpTypes, [Next]_vars, NEW k \in {"read", "cfgwr"}, SendTlp(k), NEW c, c = Cur + 1
  PROVE  Foreign(c)' <= ahead'
<1>0. /\ net \in Streams /\ net["sim"]["data"] \in Seq(Message) /\ net["qemu"]["data"] \in Seq(Message)
      /\ cache \in Seq(1 .. MaxTlps) /\ ep \subseteq 1 .. MaxTlps /\ c \in 1 .. MaxTlps
  <2>1. Len(tlps) \in Nat BY LenProperties DEF TcpTypes, QemuTypes
  <2>2. c \in 1 .. MaxTlps BY <2>1, TcpBounds DEF SendTlp, Cur
  <2>3. net \in Streams /\ cache \in Seq(1 .. MaxTlps) /\ ep \subseteq 1 .. MaxTlps
    BY DEF TcpTypes, NetTypes, SimTypes
  <2> QED BY <2>2, <2>3, SideNames DEF Streams
<1>1. /\ net' = SendTo("sim", "data", <<Msg("tlp", c)>>) /\ ahead' = Outstanding
      /\ UNCHANGED <<ep, cache>>
  BY DEF SendTlp, simVars
<1>2. PICK w : w = <<Msg("tlp", c)>> OBVIOUS
<1>3. w \in Seq(Message) /\ Len(w) = 1 /\ w[1].id = c
  <2>1. Msg("tlp", c) \in Message BY <1>0, Messages
  <2> QED BY <1>2, <2>1 DEF Msg
<1>4. /\ Adds(net["sim"]["data"], net'["sim"]["data"], w)
      /\ net'["qemu"]["data"] = net["qemu"]["data"] /\ net'["sim"]["data"] \in Seq(Message)
  <2>1. net' = SendTo("sim", "data", w) BY <1>1, <1>2
  <2>2. /\ net' \in Streams /\ Adds(net["sim"]["data"], net'["sim"]["data"], w)
        /\ \A t \in Sides, h \in Channels : t # "sim" \/ h # "data" => net'[t][h] = net[t][h]
    BY <1>0, <1>3, <2>1, SendEffect, SideNames
  <2>3. net'["qemu"]["data"] = net["qemu"]["data"] BY <2>2, SideNames
  <2>4. net'["sim"]["data"] \in Seq(Message) BY <2>2, SideNames DEF Streams
  <2> QED BY <2>2, <2>3, <2>4
<1>5. ASSUME NEW s \in Sides, NEW m
      PROVE  /\ Cardinality(Marked(net[s]["data"], m, c)) <= Cardinality(InData(s, m))
             /\ Cardinality(InData(s, m)) \in Nat
  <2>1. net[s]["data"] \in Seq(Message) BY <1>0, SideNames DEF Streams
  <2>2. /\ InData(s, m) \subseteq 1 .. Len(net[s]["data"])
        /\ Marked(net[s]["data"], m, c) \subseteq InData(s, m)
    BY <2>1, LenProperties DEF InData, Marked
  <2>3. IsFiniteSet(1 .. Len(net[s]["data"])) BY <2>1, LenProperties, FS_Interval
  <2>4. IsFiniteSet(InData(s, m)) BY <2>2, <2>3, FS_Subset
  <2> QED BY <2>2, <2>4, FS_Subset, FS_CardinalityType
<1>6. OnTheWay(c)' <= Cardinality(InData("sim", "tlp")) /\ Coming(c)' <= Cardinality(InData("qemu", "cpl"))
  <2>1. \A i \in 1 .. Len(w) : w[i].id = c BY <1>3
  <2>2. OnTheWay(c)' = Cardinality(Marked(net["sim"]["data"], "tlp", c))
    BY <1>0, <1>3, <1>4, <2>1, MarkedAdds DEF OnTheWay
  <2> QED BY <1>4, <1>5, <2>2, SideNames DEF Coming
<1>7. InCache(c)' <= Len(cache) /\ Len(cache) \in Nat
  <2>1. PICK a \in Nat : a = Len(cache) BY <1>0, LenProperties
  <2>2. IsFiniteSet(1 .. a) /\ Cardinality(1 .. a) = a
    <3>1. a \in Int /\ 1 \in Int /\ (1 > a => a = 0) /\ a - 1 + 1 = a BY <2>1
    <3> QED BY <3>1, FS_Interval
  <2>3. Others(cache, c) \subseteq 1 .. a BY <2>1 DEF Others
  <2>4. Cardinality(Others(cache, c)) <= a BY <2>2, <2>3, FS_Subset
  <2> QED BY <1>1, <2>1, <2>4 DEF InCache
<1>8. AtEndpoint(c)' <= Cardinality(ep) /\ Cardinality(ep) \in Nat
  <2>1. IsFiniteSet(1 .. MaxTlps) BY TcpBounds, FS_Interval
  <2>2. IsFiniteSet(ep) BY <1>0, <2>1, FS_Subset
  <2>3. ep \ {c} \subseteq ep OBVIOUS
  <2>4. Cardinality(ep \ {c}) <= Cardinality(ep) BY <2>2, <2>3, FS_Subset
  <2> QED BY <1>1, <2>2, <2>4, FS_CardinalityType DEF AtEndpoint
<1>9. TcpTypes' BY NextTcpTypes
<1>10. /\ AtEndpoint(c)' \in Nat /\ InCache(c)' \in Nat /\ OnTheWay(c)' \in Nat /\ Coming(c)' \in Nat
  <2>1. AtEndpoint(c)' = AtEndpoint(c) /\ InCache(c)' = InCache(c) /\ Coming(c)' = Coming(c)
    BY <1>1, <1>4 DEF AtEndpoint, InCache, Coming
  <2>2. OnTheWay(c)' \in Nat BY <1>4, PlacesCounted DEF OnTheWay
  <2> QED BY <2>1, <2>2, ForeignCounted
<1>11. Cardinality(InData("sim", "tlp")) \in Nat /\ Cardinality(InData("qemu", "cpl")) \in Nat
  BY <1>5, SideNames
<1> QED BY <1>1, <1>6, <1>7, <1>8, <1>10, <1>11 DEF Foreign, Outstanding

(* What the wait of a read relies on: the completions it has dropped and   *)
(* those of others still to come are no more than there were when the read *)
(* was sent, and none of them has its tag.                                 *)
Reading == cpu \in {"announce", "wait"}
Budget == Reading => drops + Foreign(Cur) <= ahead
TagsDiffer == Reading => \A u \in Unclaimed : u # Cur => Tag(u) # Tag(Cur)
NoneDropped == cpu # "wait" => drops = 0
ReadInv == TcpTypes /\ Budget /\ TagsDiffer /\ NoneDropped /\ ReadsMatch

LEMMA ReadingSteps ==
  ASSUME [Next]_vars, ~\E k \in {"read", "cfgwr"} : SendTlp(k), ~Claim
  PROVE  /\ UNCHANGED <<tlps, ahead>> /\ (Reading' => Reading /\ UNCHANGED drops)
         /\ (drops' = 0 \/ (drops' = drops /\ (cpu = "wait" => cpu' = "wait")))
<1>1. CASE Startup \/ UNCHANGED vars
  <2>1. UNCHANGED runVars BY <1>1, StartKeepsRun DEF vars
  <2> QED BY <2>1 DEF runVars, qemuVars, reading, Reading
<1>2. CASE Qemu
  BY <1>2 DEF Qemu, Query, Topology, AnnounceTlp, Announced, SendVfEvent, ClaimClosed, Answer,
     StopPoller, Destroy, reading, Reading
<1>3. CASE Poller
  BY <1>3 DEF Poller, TakeRead, TakeWrite, TakeMsi, PostDma, AnnounceDma, CtrlTorn, Announced,
     PollerEnds, qemuVars, reading, Reading
<1>4. CASE Simulator
  <2>1. UNCHANGED <<cpu, tlps, drops, ahead>>
    BY <1>4 DEF Simulator, PollCached, DrainTlp, DrainVf, DrainQuery, DrainOther, DrainReturn,
       PollEmpty, PollVf, Exit, Complete, Consume, SyncCpl, RaiseMsi, DmaStart, DmaTlp, DmaOther,
       DmaFails, DmaReply, DmaOthers, qemuVars, reading
  <2> QED BY <2>1 DEF Reading
<1> QED BY <1>1, <1>2, <1>3, <1>4 DEF Next

LEMMA WholeTags ==
  ASSUME EndpointTags >= TagSpace, NEW i \in Nat \ {0} PROVE EndpointTag(i) = Tag(i)
<1>1. TagSpace \in Nat \ {0} /\ EndpointTags \in Nat \ {0} BY TcpBounds
<1>2. PICK t : t = Tag(i) OBVIOUS
<1>3. t \in 0 .. TagSpace - 1 BY <1>1, <1>2 DEF Tag
<1>4. t % EndpointTags = t BY <1>1, <1>3
<1> QED BY <1>2, <1>4 DEF EndpointTag

LEMMA ClaimAnswers ==
  ASSUME FreshTags, EndpointTags >= TagSpace, ReadInv, [Next]_vars, Claim
  PROVE  Budget' /\ NoneDropped' /\ ReadsMatch'
<1>0. /\ TcpTypes /\ Budget /\ TagsDiffer /\ ReadsMatch /\ Reading /\ net \in Streams
      /\ drops \in Nat /\ ahead \in Nat /\ Cur \in 1 .. MaxTlps /\ DrainGuard \in Nat \ {0}
  <2>1. cpu = "wait" BY DEF Claim
  <2>2. Len(tlps) \in Nat /\ Len(tlps) > 0 BY <2>1, LenProperties DEF ReadInv, TcpTypes, QemuTypes
  <2> QED BY <2>1, <2>2, TcpBounds
          DEF ReadInv, Reading, TcpTypes, NetTypes, QemuTypes, Cur
<1>1. PICK c : c = Cur OBVIOUS
<1>2. PICK e : e = First("qemu", "data") OBVIOUS
<1>3. /\ e \in Message /\ e = net["qemu"]["data"][1] /\ 1 \in 1 .. Len(net["qemu"]["data"])
      /\ net["qemu"]["data"] \in Seq(Message)
  BY <1>0, <1>2, HeadOf, SideNames DEF Claim
<1>4. garbled \subseteq garbled' /\ (sim = "exited" => sim' = "exited") BY Losses
<1>5. ~\E k \in {"read", "cfgwr"} : SendTlp(k) BY DEF Claim, SendTlp
<1>6. /\ Foreign(c)' + One(e.m = "cpl" /\ e.id # c) <= Foreign(c)
      /\ Foreign(c) \in Nat /\ Foreign(c)' \in Nat
  BY <1>0, <1>2, <1>5, CompletionTaken, ForeignThins
<1>7. CASE ~Got("qemu", "data", "cpl")
  <2>1. Answer(0) /\ <<"qemu", "data">> \in garbled' BY <1>7 DEF Claim, LoseStep
  <2> QED BY <2>1 DEF Answer, Budget, Reading, NoneDropped, ReadsMatch
<1>8. CASE Got("qemu", "data", "cpl") /\ EndpointTag(e.id) = Tag(Cur)
  <2>1. Answer(e.id) BY <1>2, <1>8 DEF Claim
  <2>2. e.m = "cpl" /\ e.id \in Nat \ {0} BY <1>2, <1>3, <1>8, MessageIds, TcpBounds DEF Got
  <2>3. e.id \in Unclaimed
    <3>1. 1 \in InData("qemu", "cpl") BY <1>3, <2>2, LenProperties DEF InData
    <3> QED BY <1>3, <3>1 DEF Unclaimed
  <2>4. Tag(e.id) = Tag(Cur) BY <1>8, <2>2, WholeTags
  <2>5. e.id = Cur BY <1>0, <2>3, <2>4 DEF TagsDiffer
  <2> QED BY <2>1, <2>5 DEF Answer, Budget, Reading, NoneDropped, ReadsMatch
<1>9. CASE Got("qemu", "data", "cpl") /\ EndpointTag(e.id) # Tag(Cur)
  <2>1. (Answer(0) /\ drops + 1 = DrainGuard) \/ Skip BY <1>2, <1>9 DEF Claim
  <2>2. e.m = "cpl" BY <1>2, <1>9 DEF Got
  <2>3. e.id # c
    <3>1. Cur \in Nat \ {0} BY <1>0, TcpBounds
    <3> QED BY <1>1, <1>9, <3>1, WholeTags
  <2>4. drops + Foreign(c) <= ahead BY <1>0, <1>1 DEF Budget
  <2>5. drops + 1 + Foreign(c)' <= ahead BY <1>0, <1>6, <2>2, <2>3, <2>4 DEF One
  <2>6. CASE Answer(0) /\ drops + 1 = DrainGuard
    <3>1. ahead >= DrainGuard BY <1>0, <1>6, <2>5, <2>6
    <3> QED BY <2>6, <3>1 DEF Answer, Budget, Reading, NoneDropped, ReadsMatch
  <2>7. CASE Skip
    <3>1. drops' = drops + 1 /\ UNCHANGED <<cpu, tlps, ahead, answer>> BY <2>7 DEF Skip
    <3>2. Foreign(Cur)' = Foreign(c)' BY <1>1, <3>1 DEF Cur
    <3>3. Budget' BY <2>5, <3>1, <3>2 DEF Budget
    <3>4. cpu' = "wait" BY <3>1 DEF Claim
    <3> QED BY <1>0, <1>4, <3>1, <3>3, <3>4 DEF NoneDropped, ReadsMatch
  <2> QED BY <2>1, <2>6, <2>7
<1> QED BY <1>7, <1>8, <1>9

LEMMA NextReads ==
  ASSUME FreshTags, EndpointTags >= TagSpace, ReadInv, [Next]_vars PROVE ReadInv'
<1>0. /\ TcpTypes /\ Budget /\ TagsDiffer /\ NoneDropped /\ ReadsMatch /\ TcpTypes'
      /\ Len(tlps) \in Nat /\ drops \in Nat /\ ahead \in Nat
  BY NextTcpTypes, LenProperties DEF ReadInv, TcpTypes, QemuTypes
<1>1. /\ garbled \subseteq garbled' /\ (sim = "exited" => sim' = "exited")
      /\ UNCHANGED answer \/ Claim \/ ClaimClosed
  BY Losses
<1>2. ASSUME NEW k \in {"read", "cfgwr"}, SendTlp(k) PROVE ReadInv'
  <2>1. /\ cpu = "idle" /\ cpu' = "announce" /\ UNCHANGED <<drops, answer>>
        /\ \A u \in Unclaimed : Tag(u) # Tag(Cur + 1)
    BY <1>2 DEF SendTlp
  <2>2. Len(tlps') = Len(tlps) + 1
    <3>1. tlps' = Append(tlps, k) BY <1>2 DEF SendTlp
    <3> QED BY <1>0, <3>1, AppendProperties DEF TcpTypes, QemuTypes
  <2>3. PICK c : c = Cur + 1 OBVIOUS
  <2>4. Cur' = c BY <2>2, <2>3 DEF Cur
  <2>5. Foreign(c)' <= ahead' BY <1>0, <1>2, <2>3, SentBehind
  <2>6. Foreign(Cur)' = Foreign(c)'
    BY <2>4 DEF Foreign, AtEndpoint, InCache, OnTheWay, Coming
  <2>7. drops' = 0 BY <1>0, <2>1 DEF NoneDropped
  <2>8. Budget'
    <3>1. Foreign(c)' \in Nat /\ ahead' \in Nat
      BY <1>0, ForeignNext DEF TcpTypes, QemuTypes
    <3> QED BY <2>5, <2>6, <2>7, <3>1 DEF Budget
  <2>9. TagsDiffer'
    <3>1. \A u \in Unclaimed' : u \in Unclaimed \/ u = c BY <1>0, <2>3, UnclaimedThins
    <3>2. \A u : Tag(u)' = Tag(u) BY DEF Tag
    <3>3. Tag(Cur)' = Tag(c) BY <2>4 DEF Tag
    <3> QED BY <2>1, <2>3, <2>4, <3>1, <3>2, <3>3 DEF TagsDiffer
  <2>10. NoneDropped' BY <2>7 DEF NoneDropped
  <2>11. ReadsMatch' BY <1>0, <1>1, <2>1 DEF ReadsMatch
  <2> QED BY <1>0, <2>8, <2>9, <2>10, <2>11 DEF ReadInv
<1>3. ASSUME ~\E k \in {"read", "cfgwr"} : SendTlp(k), UNCHANGED tlps, Reading' => Reading
      PROVE  TagsDiffer'
  <2>1. \A u \in Unclaimed' : u \in Unclaimed BY <1>0, <1>3, UnclaimedThins
  <2>2. Cur' = Cur BY <1>3 DEF Cur
  <2>3. (\A u : Tag(u)' = Tag(u)) /\ Tag(Cur)' = Tag(Cur) BY <2>2 DEF Tag
  <2> QED BY <1>0, <1>3, <2>1, <2>2, <2>3 DEF TagsDiffer
<1>4. CASE Claim
  <2>1. ~\E k \in {"read", "cfgwr"} : SendTlp(k) BY <1>4 DEF Claim, SendTlp
  <2>2. UNCHANGED tlps BY <1>4 DEF Claim, Answer, Skip
  <2>3. Reading BY <1>4 DEF Claim, Reading
  <2> QED BY <1>0, <1>3, <1>4, <2>1, <2>2, <2>3, ClaimAnswers DEF ReadInv
<1>5. CASE ~Claim /\ ~\E k \in {"read", "cfgwr"} : SendTlp(k)
  <2>1. /\ UNCHANGED <<tlps, ahead>> /\ (Reading' => Reading /\ UNCHANGED drops)
        /\ (drops' = 0 \/ (drops' = drops /\ (cpu = "wait" => cpu' = "wait")))
    BY <1>5, ReadingSteps
  <2>2. TagsDiffer' BY <1>3, <1>5, <2>1
  <2>3. NoneDropped' BY <1>0, <2>1 DEF NoneDropped
  <2>4. Budget'
    <3>1. PICK c : c = Cur OBVIOUS
    <3>2. Cur' = c BY <2>1, <3>1 DEF Cur
    <3>3. Foreign(Cur)' = Foreign(c)'
      BY <3>2 DEF Foreign, AtEndpoint, InCache, OnTheWay, Coming
    <3>4. Foreign(Cur) = Foreign(c) BY <3>1
    <3>5. Foreign(c)' <= Foreign(c) /\ Foreign(c) \in Nat /\ Foreign(c)' \in Nat
      BY <1>0, <1>5, ForeignThins
    <3> QED BY <1>0, <2>1, <3>3, <3>4, <3>5 DEF Budget
  <2>5. ReadsMatch'
    <3>1. CASE UNCHANGED answer BY <1>0, <1>1, <3>1 DEF ReadsMatch
    <3>2. CASE ClaimClosed BY <1>1, <3>2 DEF ClaimClosed, Answer, ReadsMatch
    <3> QED BY <1>1, <1>5, <3>1, <3>2
  <2> QED BY <1>0, <2>2, <2>3, <2>4, <2>5 DEF ReadInv
<1> QED BY <1>2, <1>4, <1>5

(* bridge_wait_completion gives a read its own completion and no other, for *)
(* any number of reads, posted writes, DMA calls and interrupts in flight: *)
(* it gives up only when a stream is broken, when the simulator has closed *)
(* its side, or when as many completions as drain_guard allows were still  *)
(* to come when the read was sent.  Assumed: QEMU does not reuse the tag of *)
(* a TLP whose completion may still come, and the testbench's 8-bit field  *)
(* holds the tags QEMU uses; the code checks neither.                      *)
THEOREM ReadsAnswered ==
  ASSUME FreshTags, EndpointTags >= TagSpace PROVE Spec => []ReadsMatch
<1>1. Init => ReadInv
  <2> SUFFICES ASSUME Init PROVE ReadInv
    OBVIOUS
  <2> QED BY InitTcpTypes DEF Init, ReadInv, Budget, TagsDiffer, NoneDropped, Reading, ReadsMatch
<1>2. ReadInv /\ [Next]_vars => ReadInv' BY NextReads
<1>3. ReadInv => ReadsMatch BY DEF ReadInv
<1> QED BY <1>1, <1>2, <1>3, PTL DEF Spec
-----------------------------------------------------------------------------
(* DMA results *)

(* A write request is followed by its data, and the data of a reply by the *)
(* completion of the same call (bridge_dma_write_bytes,                    *)
(* bridge_complete_dma_with_data): on whatever stream they are.            *)
AsksIn(q) == \A i \in 1 .. Len(q) : q[i].m = "dmareq_w" => i < Len(q) /\ q[i + 1].m = "dmadata"
RepliesIn(q) ==
  \A i \in 1 .. Len(q) : q[i].m = "dmadata" => i < Len(q) /\ q[i + 1] = Msg("dmacpl", q[i].id)
(* Completions are of calls the poller has served. *)
ServedIn(q, done) == \A i \in 1 .. Len(q) : q[i].m = "dmacpl" => q[i].id \in done

LEMMA DropsWhole ==
  ASSUME NEW q \in Seq(Message), NEW z \in Seq(Message), NEW n, Drops(q, z, n), NEW done
  PROVE  /\ AsksIn(q) => AsksIn(z)
         /\ RepliesIn(q) => RepliesIn(z)
         /\ ServedIn(q, done) => ServedIn(z, done)
<1>1. PICK a, b \in Nat : a = Len(q) /\ b = Len(z) BY LenProperties
<1>2. n \in 1 .. a /\ b = a - n /\ \A i \in 1 .. b : z[i] = q[i + n] BY <1>1 DEF Drops
<1>3. ASSUME NEW i \in 1 .. b
      PROVE  /\ i + n \in 1 .. a /\ (i + n < a => i < b /\ i + 1 \in 1 .. b)
             /\ (i + 1) + n = (i + n) + 1
  BY <1>2
<1>4. ASSUME NEW i \in 1 .. b
      PROVE  z[i] = q[i + n] /\ (i + n < a => i < b /\ z[i + 1] = q[(i + n) + 1])
  BY <1>2, <1>3
<1>5. AsksIn(q) => AsksIn(z) BY <1>1, <1>3, <1>4 DEF AsksIn
<1>6. RepliesIn(q) => RepliesIn(z) BY <1>1, <1>3, <1>4 DEF RepliesIn
<1>7. ServedIn(q, done) => ServedIn(z, done) BY <1>1, <1>3, <1>4 DEF ServedIn
<1> QED BY <1>5, <1>6, <1>7

LEMMA AddsWhole ==
  ASSUME NEW q \in Seq(Message), NEW z \in Seq(Message), NEW w \in Seq(Message), Adds(q, z, w),
         NEW done
  PROVE  /\ AsksIn(q) /\ AsksIn(w) => AsksIn(z)
         /\ RepliesIn(q) /\ RepliesIn(w) => RepliesIn(z)
         /\ ServedIn(q, done) /\ ServedIn(w, done) => ServedIn(z, done)
<1>1. PICK a, b \in Nat : a = Len(q) /\ b = Len(w) BY LenProperties
<1>2. Len(z) = a + b BY <1>1 DEF Adds
<1>3. ASSUME NEW i \in 1 .. a
      PROVE  z[i] = q[i] /\ (i < a => i < a + b /\ z[i + 1] = q[i + 1])
  <2>1. z[i] = q[i] BY <1>1 DEF Adds
  <2>2. i < a => i + 1 \in 1 .. a /\ i < a + b BY <1>1
  <2> QED BY <1>1, <2>1, <2>2 DEF Adds
<1>4. ASSUME NEW k \in 1 .. b
      PROVE  z[a + k] = w[k] /\ (k < b => a + k < a + b /\ z[(a + k) + 1] = w[k + 1])
  <2>1. z[a + k] = w[k] BY <1>1 DEF Adds
  <2>2. k < b => k + 1 \in 1 .. b /\ a + k < a + b /\ (a + k) + 1 = a + (k + 1) BY <1>1
  <2> QED BY <1>1, <2>1, <2>2 DEF Adds
<1>5. ASSUME NEW i \in 1 .. a + b
      PROVE  i \in 1 .. a \/ \E k \in 1 .. b : i = a + k
  <2>1. CASE i <= a BY <2>1
  <2>2. CASE i > a
    <3>1. i - a \in 1 .. b /\ i = a + (i - a) BY <2>2
    <3> QED BY <3>1
  <2> QED BY <2>1, <2>2
<1>6. AsksIn(q) /\ AsksIn(w) => AsksIn(z)
  <2> SUFFICES ASSUME AsksIn(q), AsksIn(w), NEW i \in 1 .. a + b, z[i].m = "dmareq_w"
               PROVE  i < a + b /\ z[i + 1].m = "dmadata"
    BY <1>2 DEF AsksIn
  <2>1. CASE i \in 1 .. a BY <1>1, <1>3, <2>1 DEF AsksIn
  <2>2. ASSUME NEW k \in 1 .. b, i = a + k PROVE i < a + b /\ z[i + 1].m = "dmadata"
    BY <1>1, <1>4, <2>2 DEF AsksIn
  <2> QED BY <1>5, <2>1, <2>2
<1>7. RepliesIn(q) /\ RepliesIn(w) => RepliesIn(z)
  <2> SUFFICES ASSUME RepliesIn(q), RepliesIn(w), NEW i \in 1 .. a + b, z[i].m = "dmadata"
               PROVE  i < a + b /\ z[i + 1] = Msg("dmacpl", z[i].id)
    BY <1>2 DEF RepliesIn
  <2>1. CASE i \in 1 .. a BY <1>1, <1>3, <2>1 DEF RepliesIn
  <2>2. ASSUME NEW k \in 1 .. b, i = a + k
        PROVE  i < a + b /\ z[i + 1] = Msg("dmacpl", z[i].id)
    BY <1>1, <1>4, <2>2 DEF RepliesIn
  <2> QED BY <1>5, <2>1, <2>2
<1>8. ServedIn(q, done) /\ ServedIn(w, done) => ServedIn(z, done)
  <2> SUFFICES ASSUME ServedIn(q, done), ServedIn(w, done), NEW i \in 1 .. a + b, z[i].m = "dmacpl"
               PROVE  z[i].id \in done
    BY <1>2 DEF ServedIn
  <2>1. CASE i \in 1 .. a BY <1>1, <1>3, <2>1 DEF ServedIn
  <2>2. ASSUME NEW k \in 1 .. b, i = a + k PROVE z[i].id \in done
    BY <1>1, <1>4, <2>2 DEF ServedIn
  <2> QED BY <1>5, <2>1, <2>2
<1> QED BY <1>6, <1>7, <1>8

LEMMA SentAsks ==
  ASSUME NEW ch, NEW w, Sends("qemu", ch, w)
  PROVE  AsksIn(w)
<1>1. \/ \E e : w = <<e>> /\ e.m # "dmareq_w"
      \/ \E d : w = <<Msg("dmareq_w", d.id), Msg("dmadata", d.id)>>
  BY DEF Sends, Request, Msg
<1>2. ASSUME NEW e, w = <<e>>, e.m # "dmareq_w" PROVE AsksIn(w) BY <1>2 DEF AsksIn
<1>3. ASSUME NEW d, w = <<Msg("dmareq_w", d.id), Msg("dmadata", d.id)>> PROVE AsksIn(w)
  BY <1>3 DEF AsksIn, Msg
<1> QED BY <1>1, <1>2, <1>3

LEMMA SentReplies ==
  ASSUME NEW ch, NEW w, Sends("sim", ch, w),
         poller \in {"post", "announce"} => serving.id \in served
  PROVE  RepliesIn(w) /\ ServedIn(w, served)
<1>1. \/ \E e : w = <<e>> /\ e.m \notin {"dmacpl", "dmadata"}
      \/ w = <<Msg("dmacpl", serving.id)>> /\ serving.id \in served
      \/ w = <<Msg("tlp", Cur), Msg("dmacpl", serving.id)>> /\ serving.id \in served
      \/ w = <<Msg("dmadata", serving.id), Msg("dmacpl", serving.id)>> /\ serving.id \in served
  BY DEF Sends, Notice, ReplyTo, Msg, PostDma, AnnounceDma, CtrlTorn
<1>2. ASSUME NEW e, w = <<e>>, e.m \notin {"dmacpl", "dmadata"}
      PROVE  RepliesIn(w) /\ ServedIn(w, served)
  BY <1>2 DEF RepliesIn, ServedIn
<1>3. ASSUME w = <<Msg("dmacpl", serving.id)>>, serving.id \in served
      PROVE  RepliesIn(w) /\ ServedIn(w, served)
  BY <1>3 DEF RepliesIn, ServedIn, Msg
<1>4. ASSUME w = <<Msg("tlp", Cur), Msg("dmacpl", serving.id)>>, serving.id \in served
      PROVE  RepliesIn(w) /\ ServedIn(w, served)
  BY <1>4 DEF RepliesIn, ServedIn, Msg
<1>5. ASSUME w = <<Msg("dmadata", serving.id), Msg("dmacpl", serving.id)>>, serving.id \in served
      PROVE  RepliesIn(w) /\ ServedIn(w, served)
  BY <1>5 DEF RepliesIn, ServedIn, Msg
<1> QED BY <1>1, <1>2, <1>3, <1>4, <1>5

(* The inductive invariant: the streams hold whole requests and replies,   *)
(* and replies only to what was served.                                    *)
Asks == \A ch \in Channels : AsksIn(net["qemu"][ch])
Replies == \A ch \in Channels : RepliesIn(net["sim"][ch])
Served ==
  /\ \A ch \in Channels : ServedIn(net["sim"][ch], served)
  /\ poller \in {"post", "announce"} => serving.id \in served
DmaInv == TcpTypes /\ Asks /\ Replies /\ Served /\ DmaResultReal

LEMMA NextServes ==
  ASSUME DmaInv, [Next]_vars
  PROVE  served \subseteq served' /\ (poller' \in {"post", "announce"} => serving'.id \in served')
<1>0. Served /\ Asks /\ net \in Streams BY DEF DmaInv, TcpTypes, NetTypes
<1>1. CASE Poller
  <2>1. CASE TakeRead BY <2>1 DEF TakeRead
  <2>2. CASE TakeWrite
    <3>1. /\ Readable("qemu", QAux) /\ First("qemu", QAux).m = "dmareq_w"
          /\ IF net["qemu"][QAux][2].m = "dmadata"
             THEN served' = served \cup {serving'.id} ELSE UNCHANGED served
      BY <2>2 DEF TakeWrite, PollerLooks, Got
    <3>2. 1 \in 1 .. Len(net["qemu"][QAux]) /\ First("qemu", QAux) = net["qemu"][QAux][1]
      BY <1>0, <3>1, HeadOf, SideNames
    <3>3. net["qemu"][QAux][1 + 1].m = "dmadata"
      BY <1>0, <3>1, <3>2, SideNames DEF Asks, AsksIn
    <3> QED BY <3>1, <3>3
  <2>3. CASE ~(TakeRead \/ TakeWrite)
    <3>1. UNCHANGED <<served, serving>> /\ (poller' \in {"post", "announce"} => poller = "post")
      BY <1>1, <2>3 DEF Poller, TakeMsi, PostDma, AnnounceDma, CtrlTorn, PollerEnds, PollerLooks
    <3> QED BY <1>0, <3>1 DEF Served
  <2> QED BY <2>1, <2>2, <2>3
<1>2. CASE ~Poller
  <2>1. UNCHANGED pollerVars
    <3>1. CASE Startup \/ UNCHANGED vars BY <3>1, StartKeepsRun DEF vars, runVars
    <3>2. CASE Qemu
      BY <3>2 DEF Qemu, Query, Topology, SendTlp, AnnounceTlp, SendVfEvent, Claim, Skip, reading, ClaimClosed,
         Answer, StopPoller, Destroy
    <3>3. CASE Simulator
      BY <3>3 DEF Simulator, PollCached, DrainTlp, DrainVf, DrainQuery, DrainOther, DrainReturn,
         PollEmpty, PollVf, Exit, Complete, Consume, SyncCpl, RaiseMsi, DmaStart, DmaTlp, DmaOther,
         DmaFails, DmaReply, DmaOthers
    <3> QED BY <1>2, <3>1, <3>2, <3>3 DEF Next
  <2> QED BY <1>0, <2>1 DEF pollerVars, Served
<1> QED BY <1>1, <1>2

LEMMA NextWhole ==
  ASSUME DmaInv, [Next]_vars
  PROVE  Asks' /\ Replies' /\ Served'
<1>1. /\ TcpTypes /\ Asks /\ Replies /\ Served /\ AllMove
      /\ served \subseteq served' /\ (poller' \in {"post", "announce"} => serving'.id \in served')
  BY NextTcpTypes, NextServes DEF DmaInv
<1>2. PICK after : after = net' OBVIOUS
<1>3. after \in Streams /\ net \in Streams BY <1>1, <1>2 DEF AllMove, TcpTypes, NetTypes
<1>4. ASSUME NEW ch \in Channels
      PROVE  /\ AsksIn(after["qemu"][ch])
             /\ RepliesIn(after["sim"][ch]) /\ ServedIn(after["sim"][ch], served)
  <2>1. /\ \A s \in Sides : net[s][ch] \in Seq(Message) /\ after[s][ch] \in Seq(Message)
        /\ Moves("qemu", ch) /\ Moves("sim", ch)
    BY <1>1, <1>3, SideNames DEF AllMove, Streams
  <2>2. AsksIn(net["qemu"][ch]) /\ RepliesIn(net["sim"][ch]) /\ ServedIn(net["sim"][ch], served)
    BY <1>1 DEF Asks, Replies, Served
  <2>3. AsksIn(after["qemu"][ch])
    <3>1. CASE after["qemu"][ch] = net["qemu"][ch] BY <2>2, <3>1
    <3>2. ASSUME NEW n, Drops(net["qemu"][ch], after["qemu"][ch], n)
          PROVE  AsksIn(after["qemu"][ch])
      BY <2>1, <2>2, <3>2, SideNames, DropsWhole
    <3>3. ASSUME NEW w \in Seq(Message), Sends("qemu", ch, w),
                 Adds(net["qemu"][ch], after["qemu"][ch], w)
          PROVE  AsksIn(after["qemu"][ch])
      BY <2>1, <2>2, <3>3, SideNames, SentAsks, AddsWhole
    <3> QED BY <1>2, <2>1, <3>1, <3>2, <3>3 DEF Moves
  <2>4. RepliesIn(after["sim"][ch]) /\ ServedIn(after["sim"][ch], served)
    <3>1. CASE after["sim"][ch] = net["sim"][ch] BY <2>2, <3>1
    <3>2. ASSUME NEW n, Drops(net["sim"][ch], after["sim"][ch], n)
          PROVE  RepliesIn(after["sim"][ch]) /\ ServedIn(after["sim"][ch], served)
      BY <2>1, <2>2, <3>2, SideNames, DropsWhole
    <3>3. ASSUME NEW w \in Seq(Message), Sends("sim", ch, w),
                 Adds(net["sim"][ch], after["sim"][ch], w)
          PROVE  RepliesIn(after["sim"][ch]) /\ ServedIn(after["sim"][ch], served)
      <4>1. RepliesIn(w) /\ ServedIn(w, served) BY <1>1, <3>3, SentReplies DEF Served
      <4> QED BY <2>1, <2>2, <3>3, <4>1, SideNames, AddsWhole
    <3> QED BY <1>2, <2>1, <3>1, <3>2, <3>3 DEF Moves
  <2> QED BY <2>3, <2>4
<1>5. Asks' /\ Replies' BY <1>2, <1>4 DEF Asks, Replies
<1>6. ASSUME NEW ch \in Channels PROVE ServedIn(after["sim"][ch], served')
  BY <1>1, <1>4, <1>6 DEF ServedIn
<1>7. Served' BY <1>1, <1>2, <1>6 DEF Served
<1> QED BY <1>5, <1>7

LEMMA NextResult == ASSUME DmaInv, [Next]_vars PROVE DmaResultReal'
<1>1. served \subseteq served' /\ DmaResultReal BY NextServes DEF DmaInv
<1>2. CASE UNCHANGED dmaResult BY <1>1, <1>2 DEF DmaResultReal
<1>3. CASE ~UNCHANGED dmaResult
  <2>1. DmaTlp \/ DmaOther \/ DmaFails \/ DmaReply
    <3>1. CASE Startup \/ UNCHANGED vars
      BY <1>3, <3>1, StartKeepsRun DEF vars, runVars, simVars, dmaVars
    <3>2. CASE Qemu
      BY <1>3, <3>2 DEF Qemu, Query, Topology, SendTlp, AnnounceTlp, SendVfEvent, Claim, Skip, reading,
         ClaimClosed, Answer, StopPoller, Destroy, simVars, dmaVars
    <3>3. CASE Poller
      BY <1>3, <3>3 DEF Poller, TakeRead, TakeWrite, TakeMsi, PostDma, AnnounceDma, CtrlTorn,
         PollerEnds, simVars, dmaVars
    <3>4. CASE Simulator
      BY <1>3, <3>4 DEF Simulator, PollCached, DrainTlp, DrainVf, DrainQuery, DrainOther,
         DrainReturn, PollEmpty, PollVf, Exit, Complete, Consume, SyncCpl, RaiseMsi, DmaStart,
         dmaVars
    <3> QED BY <3>1, <3>2, <3>3, <3>4 DEF Next
  <2>2. \/ ~dmaResult'.ok
        \/ DmaReply /\ dmaResult' = [id |-> dma.id, got |-> net["sim"][SAux][1].id, ok |-> TRUE]
           /\ InStep(net["sim"][SAux]) /\ net["sim"][SAux][Len(NeedsReply)].id = dma.id
    <3>1. ASSUME DmaEnds(FALSE, 0) PROVE ~dmaResult'.ok BY <3>1 DEF DmaEnds
    <3>2. ASSUME DmaGoesOn PROVE ~dmaResult'.ok BY <1>3, <3>1, <3>2 DEF DmaGoesOn
    <3>3. CASE DmaTlp \/ DmaOther \/ DmaFails
      BY <3>1, <3>2, <3>3 DEF DmaTlp, DmaOther, DmaFails
    <3>4. CASE DmaReply BY <3>1, <3>2, <3>4, ReplyEnds DEF DmaEnds
    <3> QED BY <2>1, <3>3, <3>4
  <2>3. ASSUME DmaReply, InStep(net["sim"][SAux]), net["sim"][SAux][Len(NeedsReply)].id = dma.id
        PROVE  dma.id \in served /\ net["sim"][SAux][1].id = dma.id
    <3>1. PICK q : q = net["sim"][SAux] OBVIOUS
    <3>2. q \in Seq(Message) /\ RepliesIn(q) /\ ServedIn(q, served)
      BY <3>1, SideNames DEF DmaInv, TcpTypes, NetTypes, Streams, Replies, Served
    <3>3. PICK a \in Nat : a = Len(q) BY <3>2, LenProperties
    <3>4. a >= Len(NeedsReply) BY <2>3, <3>1, <3>3 DEF DmaReply
    <3>5. CASE dma.dir = "r"
      <4>1. NeedsReply = <<"dmadata", "dmacpl">> BY <3>5 DEF NeedsReply
      <4>2. q[1].m = "dmadata" /\ q[2].m = "dmacpl" /\ q[2].id = dma.id
        BY <2>3, <3>1, <4>1 DEF InStep
      <4>3. 1 \in 1 .. a /\ 2 \in 1 .. a BY <3>3, <3>4, <4>1
      <4>4. q[1 + 1] = Msg("dmacpl", q[1].id) BY <3>2, <3>3, <4>2, <4>3 DEF RepliesIn
      <4>5. q[1].id = dma.id BY <4>2, <4>4 DEF Msg
      <4>6. dma.id \in served BY <3>2, <3>3, <4>2, <4>3 DEF ServedIn
      <4> QED BY <3>1, <4>5, <4>6
    <3>6. CASE dma.dir # "r"
      <4>1. NeedsReply = <<"dmacpl">> BY <3>6 DEF NeedsReply
      <4>2. q[1].m = "dmacpl" /\ q[1].id = dma.id BY <2>3, <3>1, <4>1 DEF InStep
      <4>3. 1 \in 1 .. a BY <3>3, <3>4, <4>1
      <4>4. dma.id \in served BY <3>2, <3>3, <4>2, <4>3 DEF ServedIn
      <4> QED BY <3>1, <4>2, <4>4
    <3> QED BY <3>5, <3>6
  <2> QED BY <1>1, <2>2, <2>3 DEF DmaResultReal
<1> QED BY <1>2, <1>3

LEMMA InitDma == Init => DmaInv
<1> SUFFICES ASSUME Init PROVE DmaInv
  OBVIOUS
<1>1. /\ \A s \in Sides, ch \in Channels : net[s][ch] = <<>> /\ Len(net[s][ch]) = 0
      /\ poller = "look" /\ ~dmaResult.ok
  BY DEF Init
<1>2. Asks /\ Replies /\ Served
  BY <1>1, SideNames DEF Asks, AsksIn, Replies, RepliesIn, Served, ServedIn
<1> QED BY <1>1, <1>2, InitTcpTypes DEF DmaInv, DmaResultReal

(* A DMA call of the simulator reports success only with the completion of  *)
(* this very call, after QEMU's poller has done it, and a read only with the*)
(* data of this read: also after calls that were given up left their replies*)
(* on the way, with two connections or three.                               *)
THEOREM DmaResults == Spec => []DmaResultReal
<1>1. ASSUME DmaInv, [Next]_vars PROVE DmaInv'
  BY <1>1, NextTcpTypes, NextWhole, NextResult DEF DmaInv
<1>2. DmaInv => DmaResultReal BY DEF DmaInv
<1> QED BY <1>1, <1>2, InitDma, PTL DEF Spec

-----------------------------------------------------------------------------
(* Types of everything, and interrupts *)

(* Until the server has settled the handshake nothing else has happened. *)
Quiet ==
  srv # "up" =>
    /\ \A s \in Sides, ch \in Channels : net[s][ch] = <<>>
    /\ garbled = {} /\ cpu = "query" /\ poller = "look" /\ ~stop
    /\ sim = "poll" /\ cache = <<>> /\ ep = {}

LEMMA NextQuiet == ASSUME Quiet, [Next]_vars PROVE Quiet' /\ (srv = "up" => srv' = "up")
<1>1. CASE Startup \/ UNCHANGED vars
  <2>1. UNCHANGED runVars BY <1>1, StartKeepsRun DEF vars
  <2>2. srv = "up" => srv' = "up"
    BY <1>1 DEF Startup, Connect, Accept, ConnectCtrl, ConnectData, ConnectAux, NoAux, AcceptCtrl,
       AcceptData, AcceptAux, AuxTimesOut, Hello, Reply, Settle, SrvGivesUp, CliGivesUp, Restart,
       vars, startVars
  <2> QED BY <2>1, <2>2 DEF Quiet, runVars, qemuVars, reading, pollerVars, simVars
<1>2. CASE Qemu \/ Poller \/ Simulator
  <2>1. srv' = srv BY <1>2, RunKeepsStart DEF startVars
  <2>2. CASE srv = "up" BY <2>1, <2>2 DEF Quiet
  <2>3. CASE srv # "up"
    <3>1. /\ \A s \in Sides, ch \in Channels : ~Readable(s, ch)
          /\ garbled = {} /\ cpu = "query" /\ poller = "look" /\ ~stop
          /\ sim = "poll" /\ cache = <<>> /\ ep = {}
      BY <2>3 DEF Quiet, Readable
    <3>2. ~Qemu
      BY <2>3, <3>1 DEF Qemu, Query, Topology, SendTlp, AnnounceTlp, SendVfEvent, Claim, Skip, reading,
         ClaimClosed, StopPoller, Destroy
    <3>3. ~Poller
      BY <2>3, <3>1 DEF Poller, TakeRead, TakeWrite, TakeMsi, PostDma, AnnounceDma, CtrlTorn,
         PollerEnds, PollerLooks
    <3>4. Simulator => PollEmpty
      BY <3>1, SideNames DEF Simulator, PollCached, DrainTlp, DrainVf, DrainQuery, DrainOther,
         DrainReturn, PollVf, Exit, Complete, Consume, SyncCpl, RaiseMsi, DmaStart, DmaTlp,
         DmaOther, DmaFails, DmaReply, DmaWait, Active, Ctrl, Broken
    <3>5. sim' = "poll" /\ UNCHANGED <<net, garbled, cpu, poller, stop, cache, ep>>
      BY <1>2, <3>2, <3>3, <3>4 DEF PollEmpty, qemuVars, reading, pollerVars
    <3> QED BY <2>3, <3>5 DEF Quiet
  <2> QED BY <2>2, <2>3
<1> QED BY <1>1, <1>2 DEF Next

LEMMA InitQuiet == Init => Quiet
BY DEF Init, Quiet

(* The server's stream for the simulator's requests changes in the         *)
(* handshake only.                                                         *)
LEMMA SameQAux == ASSUME [Next]_vars PROVE QAux' = QAux \/ (srv # "up" /\ net' = net)
<1>1. CASE Qemu \/ Poller \/ Simulator \/ UNCHANGED vars
  <2>1. UNCHANGED startVars BY <1>1, RunKeepsStart DEF vars
  <2> QED BY <2>1 DEF startVars, QAux, AuxOrData, SrvAux
<1>2. CASE Startup
  <2>1. net' = net BY <1>2, StartKeepsRun DEF runVars
  <2>2. CASE srv # "up" BY <2>1, <2>2
  <2>3. CASE srv = "up"
    <3>1. sock' = sock
      BY <1>2, <2>3 DEF Startup, Connect, Accept, ConnectCtrl, ConnectData, ConnectAux, NoAux,
         AcceptCtrl, AcceptData, AcceptAux, AuxTimesOut, Hello, Reply, Settle, SrvGivesUp,
         CliGivesUp, Restart
    <3> QED BY <3>1 DEF QAux, AuxOrData, SrvAux
  <2> QED BY <2>2, <2>3
<1> QED BY <1>1, <1>2 DEF Next

(* The interrupts on the stream QEMU's poller reads, in the order of their  *)
(* numbers: they have been raised, and not yet seen.                        *)
MsiIn(q, lo, hi) ==
  /\ \A i \in 1 .. Len(q) : q[i].m = "msi" => lo < q[i].id /\ q[i].id <= hi
  /\ \A i, j \in 1 .. Len(q) : i < j /\ q[i].m = "msi" /\ q[j].m = "msi" => q[i].id < q[j].id
MsiOrder == msiSeen <= msiSent /\ MsiIn(net["qemu"][QAux], msiSeen, msiSent)

LEMMA DropsMsi ==
  ASSUME NEW q \in Seq(Message), NEW z \in Seq(Message), NEW n, Drops(q, z, n),
         NEW lo \in Nat, NEW hi \in Nat, MsiIn(q, lo, hi)
  PROVE  /\ MsiIn(z, lo, hi)
         /\ q[1].m = "msi" => lo + 1 <= hi /\ MsiIn(z, lo + 1, hi)
<1>1. PICK a, b \in Nat : a = Len(q) /\ b = Len(z) BY LenProperties
<1>2. n \in 1 .. a /\ b = a - n /\ \A i \in 1 .. b : z[i] = q[i + n] BY <1>1 DEF Drops
<1>3. \A i \in 1 .. b : i + n \in 1 .. a /\ 1 < i + n BY <1>2
<1>4. 1 \in 1 .. a BY <1>2
<1>5. \A i \in 1 .. a : q[i].m = "msi" => q[i].id \in Nat
  <2>1. \A i \in 1 .. a : q[i] \in Message BY <1>1, ElementOfSeq
  <2> QED BY <2>1, MessageIds, TcpBounds
<1>6. /\ \A i \in 1 .. a : q[i].m = "msi" => lo < q[i].id /\ q[i].id <= hi
      /\ \A i, j \in 1 .. a : i < j /\ q[i].m = "msi" /\ q[j].m = "msi" => q[i].id < q[j].id
  BY <1>1 DEF MsiIn
<1>7. ASSUME NEW i \in 1 .. b, NEW j \in 1 .. b, i < j, z[i].m = "msi", z[j].m = "msi"
      PROVE  z[i].id < z[j].id
  <2>1. i + n < j + n BY <1>2, <1>7
  <2> QED BY <1>2, <1>3, <1>6, <1>7, <2>1
<1>8. MsiIn(z, lo, hi)
  <2>1. \A i \in 1 .. b : z[i].m = "msi" => lo < z[i].id /\ z[i].id <= hi BY <1>2, <1>3, <1>6
  <2> QED BY <1>1, <1>7, <2>1 DEF MsiIn
<1>9. ASSUME q[1].m = "msi" PROVE lo + 1 <= hi /\ MsiIn(z, lo + 1, hi)
  <2>1. lo < q[1].id /\ q[1].id <= hi /\ q[1].id \in Nat BY <1>4, <1>5, <1>6, <1>9
  <2>2. ASSUME NEW i \in 1 .. b, z[i].m = "msi" PROVE lo + 1 < z[i].id /\ z[i].id <= hi
    <3>1. i + n \in 1 .. a /\ 1 < i + n /\ z[i] = q[i + n] BY <1>2, <1>3
    <3>2. q[1].id < z[i].id /\ z[i].id <= hi /\ z[i].id \in Nat
      BY <1>4, <1>5, <1>6, <1>9, <2>2, <3>1
    <3> QED BY <2>1, <3>2
  <2>3. lo + 1 <= hi BY <2>1
  <2> QED BY <1>1, <1>7, <2>2, <2>3 DEF MsiIn
<1> QED BY <1>8, <1>9

LEMMA AddsMsi ==
  ASSUME NEW q \in Seq(Message), NEW z \in Seq(Message), NEW w \in Seq(Message), Adds(q, z, w),
         NEW lo \in Nat, NEW hi \in Nat, lo <= hi, MsiIn(q, lo, hi)
  PROVE  /\ (\A k \in 1 .. Len(w) : w[k].m # "msi") => MsiIn(z, lo, hi)
         /\ w = <<Msg("msi", hi + 1)>> => MsiIn(z, lo, hi + 1)
<1>1. PICK a, b \in Nat : a = Len(q) /\ b = Len(w) BY LenProperties
<1>2. /\ Len(z) = a + b /\ \A i \in 1 .. a : z[i] = q[i]
      /\ \A k \in 1 .. b : z[a + k] = w[k]
  BY <1>1 DEF Adds
<1>3. /\ \A i \in 1 .. a : q[i].m = "msi" => lo < q[i].id /\ q[i].id <= hi
      /\ \A i, j \in 1 .. a : i < j /\ q[i].m = "msi" /\ q[j].m = "msi" => q[i].id < q[j].id
  BY <1>1 DEF MsiIn
<1>4. \A i \in 1 .. a : q[i].m = "msi" => q[i].id \in Nat
  <2>1. \A i \in 1 .. a : q[i] \in Message BY <1>1, ElementOfSeq
  <2> QED BY <2>1, MessageIds, TcpBounds
<1>5. ASSUME \A k \in 1 .. b : w[k].m # "msi" PROVE MsiIn(z, lo, hi)
  <2>1. ASSUME NEW i \in 1 .. a + b, z[i].m = "msi" PROVE i \in 1 .. a /\ z[i] = q[i]
    <3>1. CASE i <= a BY <1>2, <3>1
    <3>2. CASE i > a
      <4>1. i - a \in 1 .. b /\ i = a + (i - a) BY <3>2
      <4>2. z[i] = w[i - a] BY <1>2, <4>1
      <4> QED BY <1>5, <2>1, <4>1, <4>2
    <3> QED BY <3>1, <3>2
  <2> QED BY <1>2, <1>3, <2>1 DEF MsiIn
<1>6. ASSUME w = <<Msg("msi", hi + 1)>> PROVE MsiIn(z, lo, hi + 1)
  <2>1. b = 1 /\ z[a + 1] = Msg("msi", hi + 1) BY <1>1, <1>2, <1>6
  <2>2. z[a + 1].m = "msi" /\ z[a + 1].id = hi + 1 BY <2>1 DEF Msg
  <2>3. \A i \in 1 .. a + 1 : i \in 1 .. a \/ i = a + 1 OBVIOUS
  <2>4. ASSUME NEW i \in 1 .. a + 1, z[i].m = "msi" PROVE lo < z[i].id /\ z[i].id <= hi + 1
    BY <1>2, <1>3, <1>4, <2>2, <2>3, <2>4
  <2>5. ASSUME NEW i \in 1 .. a + 1, NEW j \in 1 .. a + 1, i < j, z[i].m = "msi", z[j].m = "msi"
        PROVE  z[i].id < z[j].id
    <3>1. i \in 1 .. a BY <2>5
    <3>2. CASE j \in 1 .. a BY <1>2, <1>3, <2>5, <3>1, <3>2
    <3>3. CASE j = a + 1
      <4>1. z[i] = q[i] /\ q[i].m = "msi" BY <1>2, <2>5, <3>1
      <4>2. q[i].id <= hi /\ q[i].id \in Nat BY <1>3, <1>4, <3>1, <4>1
      <4>3. z[j].id = hi + 1 BY <2>2, <3>3
      <4> QED BY <4>1, <4>2, <4>3
    <3> QED BY <2>3, <3>2, <3>3
  <2> QED BY <1>2, <2>1, <2>4, <2>5 DEF MsiIn
<1> QED BY <1>1, <1>5, <1>6

LEMMA NextMsi ==
  ASSUME TcpTypes, Quiet, MsiOrder, [Next]_vars
  PROVE  MsiOrder'
<1>0. /\ msiSeen \in Nat /\ msiSent \in Nat /\ msiSeen <= msiSent
      /\ MsiIn(net["qemu"][QAux], msiSeen, msiSent) /\ net \in Streams
      /\ net["qemu"][QAux] \in Seq(Message)
  BY SideNames, TcpBounds DEF TcpTypes, PollerTypes, SimTypes, NetTypes, MsiOrder, Streams
<1>1. CASE Startup \/ UNCHANGED vars
  <2>1. UNCHANGED <<net, msiSeen, msiSent>>
    BY <1>1, StartKeepsRun DEF vars, runVars, pollerVars, simVars
  <2>2. CASE QAux' = QAux BY <1>0, <2>1, <2>2 DEF MsiOrder
  <2>3. CASE QAux' # QAux
    <3>1. srv # "up" BY <2>3, SameQAux
    <3>2. PICK x \in {"data", "aux"} : x = QAux'
      <4>1. QAux' \in {"data", "aux"} BY DEF QAux, AuxOrData
      <4> QED BY <4>1
    <3>3. net["qemu"][x] = <<>> BY <3>1, <3>2, SideNames DEF Quiet
    <3>4. Len(net["qemu"][x]) = 0 BY <3>3
    <3>5. MsiIn(net["qemu"][x], msiSeen, msiSent) BY <3>4 DEF MsiIn
    <3> QED BY <1>0, <2>1, <3>2, <3>5 DEF MsiOrder
  <2> QED BY <2>2, <2>3
<1>2. CASE Qemu \/ Poller \/ Simulator
  <2>1. QAux' = QAux
    BY <1>2, RunKeepsStart DEF startVars, QAux, AuxOrData, SrvAux
  <2>2. PICK z : z = net'["qemu"][QAux] OBVIOUS
  <2>3. AllMove BY NextMoves
  <2>4. z \in Seq(Message) /\ Moves("qemu", QAux)
    BY <2>2, <2>3, SideNames DEF AllMove, Streams
  <2>5. CASE TakeMsi
    <3>1. /\ net' = Taken("qemu", QAux, 1) /\ Readable("qemu", QAux)
          /\ First("qemu", QAux).m = "msi" /\ msiSeen' = msiSeen + 1 /\ msiSent' = msiSent
      BY <2>5 DEF TakeMsi, PollerLooks, Got, simVars
    <3>2. 1 \in 1 .. Len(net["qemu"][QAux]) /\ First("qemu", QAux) = net["qemu"][QAux][1]
      BY <1>0, <3>1, HeadOf, SideNames
    <3>3. Drops(net["qemu"][QAux], z, 1) BY <1>0, <2>2, <3>1, <3>2, TakeEffect, SideNames
    <3>4. msiSeen + 1 <= msiSent /\ MsiIn(z, msiSeen + 1, msiSent)
      BY <1>0, <2>4, <3>1, <3>2, <3>3, DropsMsi
    <3> QED BY <2>1, <2>2, <3>1, <3>4 DEF MsiOrder
  <2>6. CASE RaiseMsi
    <3>1. msiSent' = msiSent + 1 /\ msiSeen' = msiSeen BY <2>6 DEF RaiseMsi, pollerVars
    <3>2. net' = SendTo("qemu", SAux, <<Msg("msi", msiSent + 1)>>) BY <2>6 DEF RaiseMsi
    <3>3. PICK w : w = <<Msg("msi", msiSent + 1)>> OBVIOUS
    <3>4. w \in Seq(Message)
      <4>1. msiSent + 1 \in 1 .. MaxMsis BY <1>0, <2>6, TcpBounds DEF RaiseMsi
      <4> QED BY <3>3, <4>1, Messages
    <3>5. \/ Adds(net["qemu"][QAux], z, w)
          \/ z = net["qemu"][QAux]
      <4>1. /\ Adds(net["qemu"][SAux], net'["qemu"][SAux], w)
            /\ \A c \in Channels : c # SAux => net'["qemu"][c] = net["qemu"][c]
        <5>1. net' = SendTo("qemu", SAux, w) BY <3>2, <3>3
        <5>2. SAux \in Channels /\ "qemu" \in Sides BY SideNames
        <5> QED BY <1>0, <3>4, <5>1, <5>2, SendEffect
      <4> QED BY <2>2, <4>1, SideNames
    <3>6. MsiIn(z, msiSeen, msiSent + 1)
      <4>1. CASE Adds(net["qemu"][QAux], z, w) BY <1>0, <2>4, <3>3, <3>4, <4>1, AddsMsi
      <4>2. CASE z = net["qemu"][QAux]
        <5>1. \A i \in 1 .. Len(z) : z[i].m = "msi" => z[i].id \in Nat
          <6>1. \A i \in 1 .. Len(z) : z[i] \in Message BY <2>4, ElementOfSeq
          <6> QED BY <6>1, MessageIds, TcpBounds
        <5>2. MsiIn(z, msiSeen, msiSent) BY <1>0, <4>2
        <5>3. \A i \in 1 .. Len(z) : z[i].m = "msi" =>
                msiSeen < z[i].id /\ z[i].id <= msiSent + 1
          BY <1>0, <5>1, <5>2 DEF MsiIn
        <5> QED BY <5>2, <5>3 DEF MsiIn
      <4> QED BY <3>5, <4>1, <4>2
    <3> QED BY <1>0, <2>1, <2>2, <3>1, <3>6 DEF MsiOrder
  <2>7. CASE ~TakeMsi /\ ~RaiseMsi
    <3>1. UNCHANGED <<msiSeen, msiSent>>
      <4>1. CASE Qemu
        BY <4>1 DEF Qemu, Query, Topology, SendTlp, AnnounceTlp, SendVfEvent, Claim, Skip, reading, ClaimClosed,
           Answer, StopPoller, Destroy, pollerVars, simVars
      <4>2. CASE Poller
        BY <2>7, <4>2 DEF Poller, TakeRead, TakeWrite, PostDma, AnnounceDma, CtrlTorn, PollerEnds,
           simVars
      <4>3. CASE Simulator
        BY <2>7, <4>3 DEF Simulator, PollCached, DrainTlp, DrainVf, DrainQuery, DrainOther,
           DrainReturn, PollEmpty, PollVf, Exit, Complete, Consume, SyncCpl, DmaStart, DmaTlp,
           DmaOther, DmaFails, DmaReply, DmaOthers, pollerVars
      <4> QED BY <1>2, <4>1, <4>2, <4>3
    <3>2. CASE z = net["qemu"][QAux] BY <1>0, <2>1, <2>2, <3>1, <3>2 DEF MsiOrder
    <3>3. ASSUME NEW n, Drops(net["qemu"][QAux], z, n) PROVE MsiOrder'
      <4>1. MsiIn(z, msiSeen, msiSent) BY <1>0, <2>4, <3>3, DropsMsi
      <4> QED BY <1>0, <2>1, <2>2, <3>1, <4>1 DEF MsiOrder
    <3>4. ASSUME NEW w \in Seq(Message), Sends("qemu", QAux, w), Adds(net["qemu"][QAux], z, w)
          PROVE  MsiOrder'
      <4>1. \/ \E e : w = <<e>> /\ e.m # "msi"
            \/ \E d : w = <<Msg("dmareq_w", d.id), Msg("dmadata", d.id)>>
        BY <2>7, <3>4 DEF Sends, Request, Msg
      <4>2. \A k \in 1 .. Len(w) : w[k].m # "msi" BY <4>1 DEF Msg
      <4>3. MsiIn(z, msiSeen, msiSent) BY <1>0, <2>4, <3>4, <4>2, AddsMsi
      <4> QED BY <1>0, <2>1, <2>2, <3>1, <4>3 DEF MsiOrder
    <3> QED BY <2>2, <2>4, <3>2, <3>3, <3>4 DEF Moves
  <2> QED BY <2>5, <2>6, <2>7
<1> QED BY <1>1, <1>2 DEF Next

(* The ranges of the start-up's variables, as far as they are of interest. *)
StartRanges ==
  /\ srv \in Channels \cup {"hello", "ack", "up", "failed"}
  /\ cli \in Channels \cup {"hello", "up", "failed"}
  /\ client \in 1 .. MaxClients /\ sock \in [Channels -> 0 .. MaxClients]
  /\ backlog \in [Channels -> Seq(1 .. MaxClients)]

LEMMA NextRanges == ASSUME StartRanges, [Next]_vars PROVE StartRanges'
<1>1. CASE Qemu \/ Poller \/ Simulator \/ UNCHANGED vars
  <2>1. UNCHANGED startVars BY <1>1, RunKeepsStart DEF vars
  <2> QED BY <2>1 DEF startVars, StartRanges
<1>2. ASSUME NEW ch \in Channels, NEW next \in {"data", "aux", "hello"}, Connect(ch, next)
      PROVE  StartRanges'
  <2>1. /\ backlog' = [backlog EXCEPT ![ch] = Append(@, client)] /\ cli' = next
        /\ UNCHANGED <<srv, client, sock>>
    BY <1>2 DEF Connect
  <2>2. Append(backlog[ch], client) \in Seq(1 .. MaxClients)
    BY AppendProperties DEF StartRanges
  <2>3. backlog' \in [Channels -> Seq(1 .. MaxClients)] BY <2>1, <2>2 DEF StartRanges
  <2> QED BY <2>1, <2>3 DEF StartRanges, Channels
<1>3. ASSUME NEW ch \in Channels, NEW next \in {"data", "aux", "hello"}, Accept(ch, next)
      PROVE  StartRanges'
  <2>1. /\ sock' = [sock EXCEPT ![ch] = Head(backlog[ch])] /\ srv' = next
        /\ backlog' = [backlog EXCEPT ![ch] = Tail(@)] /\ backlog[ch] # <<>>
        /\ UNCHANGED <<cli, client>>
    BY <1>3 DEF Accept
  <2>2. Head(backlog[ch]) \in 1 .. MaxClients /\ Tail(backlog[ch]) \in Seq(1 .. MaxClients)
    BY <2>1, HeadTailProperties DEF StartRanges
  <2>3. /\ backlog' \in [Channels -> Seq(1 .. MaxClients)] /\ sock' \in [Channels -> 0 .. MaxClients]
    BY <2>1, <2>2, TcpBounds DEF StartRanges
  <2> QED BY <2>1, <2>3 DEF StartRanges, Channels
<1>4. CASE ConnectCtrl \/ ConnectData \/ ConnectAux
  BY <1>2, <1>4 DEF ConnectCtrl, ConnectData, ConnectAux, Channels
<1>5. CASE AcceptCtrl \/ AcceptData \/ AcceptAux
  BY <1>3, <1>5 DEF AcceptCtrl, AcceptData, AcceptAux, Channels
<1>6. CASE NoAux \/ Reply \/ CliGivesUp
  BY <1>6 DEF NoAux, Reply, CliGivesUp, StartRanges
<1>7. CASE AuxTimesOut \/ Hello \/ SrvGivesUp
  BY <1>7 DEF AuxTimesOut, Hello, SrvGivesUp, StartRanges
<1>8. CASE Settle
  <2>1. /\ sock' = sock \/ sock' = [sock EXCEPT !["aux"] = 0]
        /\ srv' = "up" /\ UNCHANGED <<cli, client, backlog>>
    BY <1>8 DEF Settle
  <2>2. 0 \in 0 .. MaxClients BY TcpBounds
  <2>3. sock' \in [Channels -> 0 .. MaxClients] BY <2>1, <2>2 DEF StartRanges
  <2> QED BY <2>1, <2>3 DEF StartRanges
<1>9. CASE Restart
  <2>1. client' = client + 1 /\ client < MaxClients /\ cli' = "ctrl" /\ UNCHANGED <<srv, sock, backlog>>
    BY <1>9 DEF Restart
  <2>2. client' \in 1 .. MaxClients BY <2>1, TcpBounds DEF StartRanges
  <2> QED BY <2>1, <2>2 DEF StartRanges, Channels
<1> QED BY <1>1, <1>4, <1>5, <1>6, <1>7, <1>8, <1>9 DEF Next, Startup

(* Every variable keeps its range for every value of the bounds; with it,  *)
(* QEMU's poller never sees an interrupt more often than the device raised *)
(* one (recv_msi_nb takes what it reads off the stream).                   *)
THEOREM TcpTypeCorrect == Spec => []TypeOK
<1> DEFINE Inv == StartInv /\ StartRanges /\ TcpTypes /\ Quiet /\ MsiOrder
<1>1. Init => Inv
  <2> SUFFICES ASSUME Init PROVE Inv
    OBVIOUS
  <2>1. StartRanges
    <3>1. <<>> \in Seq(1 .. MaxClients) /\ 1 \in 1 .. MaxClients /\ 0 \in 0 .. MaxClients
      BY TcpBounds
    <3> QED BY <3>1 DEF Init, StartRanges, Channels
  <2>2. MsiOrder
    <3>1. net["qemu"][QAux] = <<>> /\ msiSeen = 0 /\ msiSent = 0 BY SideNames DEF Init
    <3>2. Len(net["qemu"][QAux]) = 0 BY <3>1
    <3> QED BY <3>1, <3>2 DEF MsiOrder, MsiIn
  <2> QED BY <2>1, <2>2, InitStart, InitTcpTypes, InitQuiet
<1>2. Inv /\ [Next]_vars => Inv'
  BY NextStart, NextRanges, NextTcpTypes, NextQuiet, NextMsi
<1>3. Inv => TypeOK
  <2> SUFFICES ASSUME Inv PROVE TypeOK
    OBVIOUS
  <2>1. \A ch \in Channels : Range(backlog[ch]) \subseteq 1 .. MaxClients
    <3> SUFFICES ASSUME NEW ch \in Channels PROVE Range(backlog[ch]) \subseteq 1 .. MaxClients
      OBVIOUS
    <3>1. backlog[ch] \in Seq(1 .. MaxClients) BY DEF StartRanges
    <3>2. \A i \in DOMAIN backlog[ch] : backlog[ch][i] \in 1 .. MaxClients
      BY <3>1, ElementOfSeq, LenProperties
    <3> QED BY <3>2 DEF Range
  <2>2. \A s \in Sides, ch \in Channels : \A i \in DOMAIN net[s][ch] : net[s][ch][i].m \in Types
    <3> SUFFICES ASSUME NEW s \in Sides, NEW ch \in Channels, NEW i \in DOMAIN net[s][ch]
                 PROVE  net[s][ch][i].m \in Types
      OBVIOUS
    <3>1. net[s][ch] \in Seq(Message) BY DEF TcpTypes, NetTypes, Streams
    <3>2. net[s][ch][i] \in Message BY <3>1, ElementOfSeq, LenProperties
    <3> QED BY <3>2, MessageIds
  <2>3. msiSeen <= msiSent /\ msiSent <= MaxMsis
    BY TcpBounds DEF MsiOrder, TcpTypes, SimTypes
  <2>4. /\ version \in [Sides -> {1, 2}] /\ cliAux \in BOOLEAN
        /\ offer \in {0, 2, 3} /\ reply \in {0, 2, 3}
    BY DEF StartInv, StartTypes
  <2> QED BY <2>1, <2>2, <2>3, <2>4
          DEF TypeOK, StartRanges, TcpTypes, NetTypes, QemuTypes, PollerTypes, SimTypes
<1> QED BY <1>1, <1>2, <1>3, PTL DEF Spec

-----------------------------------------------------------------------------
(* With three connections the streams stay in step *)

(* What each stream may hold when aux is in use. *)
Aux == srv = "up" /\ SrvAux
Carries(s, ch) ==
  IF s = "sim"
  THEN CASE ch = "data" -> {"tlp"}
         [] ch = "ctrl" -> {"tlp", "vf", "query", "dmacpl", "shutdown"}
         [] ch = "aux" -> {"dmadata", "dmacpl"}
  ELSE CASE ch = "data" -> {"cpl"}
         [] ch = "ctrl" -> {"cplready", "topology"}
         [] ch = "aux" -> {"msi", "dmareq_r", "dmareq_w", "dmadata"}
NoneOf(q, T) == \A i \in 1 .. Len(q) : q[i].m \notin T
OnlyOf(q, T) == \A i \in 1 .. Len(q) : q[i].m \in T
OneOf(q, T, e) ==
  \E i \in 1 .. Len(q) : q[i] = e /\ \A j \in 1 .. Len(q) : q[j].m \in T => j = i

Sorted == Aux => \A s \in Sides, ch \in Channels : OnlyOf(net[s][ch], Carries(s, ch))

(* SHUTDOWN is the last message on ctrl, and the poller has ended by then. *)
EndIn(q) == \A i \in 1 .. Len(q) : q[i].m = "shutdown" => i = Len(q)
EndLast ==
  /\ cpu = "down" => poller = "gone"
  /\ cpu # "down" => NoneOf(net["sim"]["ctrl"], {"shutdown"})
  /\ EndIn(net["sim"]["ctrl"])

(* Where the one DMA call is that the simulator may be waiting for, as long *)
(* as none was given up and ctrl is not torn: not served yet, or there is  *)
(* none; with the poller; answered, with its notice on ctrl.               *)
ReqTypes == {"dmareq_r", "dmareq_w"}
Req == Msg(IF dma.dir = "r" THEN "dmareq_r" ELSE "dmareq_w", dma.id)
Resting ==
  /\ poller \in {"look", "gone"} /\ net["sim"]["aux"] = <<>>
  /\ NoneOf(net["sim"]["ctrl"], {"dmacpl"})
  /\ \/ poller = "gone" \/ NoneOf(net["qemu"]["aux"], ReqTypes)
     \/ sim = "dma" /\ OneOf(net["qemu"]["aux"], ReqTypes, Req)
Serving ==
  /\ poller \in {"post", "announce"} /\ serving = dma /\ sim = "dma"
  /\ net["sim"]["aux"] = IF poller = "post" THEN <<>> ELSE ReplyTo(dma)
  /\ NoneOf(net["qemu"]["aux"], ReqTypes) /\ NoneOf(net["sim"]["ctrl"], {"dmacpl"})
Answered ==
  /\ poller \in {"look", "gone"} /\ sim = "dma" /\ net["sim"]["aux"] = ReplyTo(dma)
  /\ OneOf(net["sim"]["ctrl"], {"dmacpl"}, Msg("dmacpl", dma.id))
  /\ poller = "gone" \/ NoneOf(net["qemu"]["aux"], ReqTypes)
OneCall == Aux /\ ~gaveUp /\ ~Broken => Resting \/ Serving \/ Answered

StreamInv ==
  /\ StartInv /\ Quiet /\ DmaInv
  /\ Sorted /\ EndLast /\ OneCall /\ StreamsInStep

LEMMA DropsOf ==
  ASSUME NEW q \in Seq(Message), NEW z \in Seq(Message), NEW n, Drops(q, z, n), NEW T, NEW e
  PROVE  /\ NoneOf(q, T) => NoneOf(z, T)
         /\ OnlyOf(q, T) => OnlyOf(z, T)
         /\ EndIn(q) => EndIn(z)
         /\ OneOf(q, T, e) /\ q[1].m \in T => NoneOf(z, T) /\ q[1] = e
         /\ OneOf(q, T, e) /\ n = 1 /\ q[1].m \notin T => (e.m \in T => OneOf(z, T, e))
<1>1. PICK a, b \in Nat : a = Len(q) /\ b = Len(z) BY LenProperties
<1>2. n \in 1 .. a /\ b = a - n /\ \A i \in 1 .. b : z[i] = q[i + n] BY <1>1 DEF Drops
<1>3. \A i \in 1 .. b : i + n \in 1 .. a /\ 1 < i + n /\ (i + n = a => i = b) BY <1>2
<1>4. 1 \in 1 .. a BY <1>2
<1>5. NoneOf(q, T) => NoneOf(z, T) BY <1>1, <1>2, <1>3 DEF NoneOf
<1>6. OnlyOf(q, T) => OnlyOf(z, T) BY <1>1, <1>2, <1>3 DEF OnlyOf
<1>7. EndIn(q) => EndIn(z) BY <1>1, <1>2, <1>3 DEF EndIn
<1>8. ASSUME OneOf(q, T, e)
      PROVE  /\ q[1].m \in T => NoneOf(z, T) /\ q[1] = e
             /\ n = 1 /\ q[1].m \notin T /\ e.m \in T => OneOf(z, T, e)
  <2>1. PICK i \in 1 .. a : q[i] = e /\ \A j \in 1 .. a : q[j].m \in T => j = i
    BY <1>1, <1>8 DEF OneOf
  <2>2. ASSUME q[1].m \in T PROVE NoneOf(z, T) /\ q[1] = e
    <3>1. i = 1 BY <1>4, <2>1, <2>2
    <3>2. \A j \in 1 .. b : z[j].m \notin T BY <1>2, <1>3, <2>1, <3>1
    <3> QED BY <1>1, <2>1, <3>1, <3>2 DEF NoneOf
  <2>3. ASSUME n = 1, q[1].m \notin T, e.m \in T PROVE OneOf(z, T, e)
    <3>1. i # 1 BY <2>1, <2>3
    <3>2. i - 1 \in 1 .. b /\ (i - 1) + n = i BY <1>2, <2>3, <3>1
    <3>3. z[i - 1] = e BY <1>2, <2>1, <3>2
    <3>4. \A j \in 1 .. b : z[j].m \in T => j + n = i BY <1>2, <1>3, <2>1
    <3>5. \A j \in 1 .. b : z[j].m \in T => j = i - 1 BY <2>3, <3>2, <3>4
    <3> QED BY <1>1, <3>2, <3>3, <3>5 DEF OneOf
  <2> QED BY <2>2, <2>3
<1> QED BY <1>5, <1>6, <1>7, <1>8

LEMMA AddsOf ==
  ASSUME NEW q \in Seq(Message), NEW z \in Seq(Message), NEW w \in Seq(Message), Adds(q, z, w),
         NEW T, NEW e
  PROVE  /\ NoneOf(q, T) /\ NoneOf(w, T) => NoneOf(z, T)
         /\ OnlyOf(q, T) /\ OnlyOf(w, T) => OnlyOf(z, T)
         /\ OneOf(q, T, e) /\ NoneOf(w, T) => OneOf(z, T, e)
         /\ NoneOf(q, T) /\ OneOf(w, T, e) => OneOf(z, T, e)
         /\ NoneOf(q, {"shutdown"}) /\ EndIn(w) => EndIn(z)
<1>1. PICK a, b \in Nat : a = Len(q) /\ b = Len(w) BY LenProperties
<1>2. /\ Len(z) = a + b /\ \A i \in 1 .. a : z[i] = q[i]
      /\ \A k \in 1 .. b : z[a + k] = w[k]
  BY <1>1 DEF Adds
<1>3. ASSUME NEW i \in 1 .. a + b
      PROVE  (i \in 1 .. a /\ z[i] = q[i]) \/ \E k \in 1 .. b : i = a + k /\ z[i] = w[k]
  <2>1. CASE i <= a BY <1>2, <2>1
  <2>2. CASE i > a
    <3>1. i - a \in 1 .. b /\ i = a + (i - a) BY <2>2
    <3> QED BY <1>2, <3>1
  <2> QED BY <2>1, <2>2
<1>4. (\A i \in 1 .. a : i \in 1 .. a + b) /\ (\A k \in 1 .. b : a + k \in 1 .. a + b)
  BY <1>1
<1>5. NoneOf(q, T) /\ NoneOf(w, T) => NoneOf(z, T) BY <1>1, <1>2, <1>3 DEF NoneOf
<1>6. OnlyOf(q, T) /\ OnlyOf(w, T) => OnlyOf(z, T) BY <1>1, <1>2, <1>3 DEF OnlyOf
<1>7. ASSUME OneOf(q, T, e), NoneOf(w, T) PROVE OneOf(z, T, e)
  <2>1. PICK i \in 1 .. a : q[i] = e /\ \A j \in 1 .. a : q[j].m \in T => j = i
    BY <1>1, <1>7 DEF OneOf
  <2>2. ASSUME NEW j \in 1 .. a + b, z[j].m \in T PROVE j = i
    BY <1>1, <1>3, <1>7, <2>1, <2>2 DEF NoneOf
  <2> QED BY <1>2, <1>4, <2>1, <2>2 DEF OneOf
<1>8. ASSUME NoneOf(q, T), OneOf(w, T, e) PROVE OneOf(z, T, e)
  <2>1. PICK k \in 1 .. b : w[k] = e /\ \A j \in 1 .. b : w[j].m \in T => j = k
    BY <1>1, <1>8 DEF OneOf
  <2>2. ASSUME NEW j \in 1 .. a + b, z[j].m \in T PROVE j = a + k
    BY <1>1, <1>3, <1>8, <2>1, <2>2 DEF NoneOf
  <2> QED BY <1>2, <1>4, <2>1, <2>2 DEF OneOf
<1>9. ASSUME NoneOf(q, {"shutdown"}), EndIn(w) PROVE EndIn(z)
  <2>1. ASSUME NEW i \in 1 .. a + b, z[i].m = "shutdown" PROVE i = a + b
    <3>1. PICK k \in 1 .. b : i = a + k /\ z[i] = w[k]
      BY <1>1, <1>3, <1>9, <2>1 DEF NoneOf
    <3> QED BY <1>1, <1>9, <2>1, <3>1 DEF EndIn
  <2> QED BY <1>2, <2>1 DEF EndIn
<1> QED BY <1>5, <1>6, <1>7, <1>8, <1>9

(* In use of aux both sides mean aux. *)
LEMMA BothAux == ASSUME StartInv, Aux PROVE QAux = "aux" /\ SAux = "aux"
BY DEF StartInv, Handshake, Aux, QAux, SAux, AuxOrData

(* aux is in use from the end of the handshake, when all streams are empty. *)
LEMMA AuxBegins ==
  ASSUME Quiet, [Next]_vars, Aux'
  PROVE  \/ Aux
         \/ /\ net' = net /\ garbled' = {} /\ poller' = "look"
            /\ \A s \in Sides, ch \in Channels : net[s][ch] = <<>>
<1>1. CASE Qemu \/ Poller \/ Simulator \/ UNCHANGED vars
  <2>1. UNCHANGED startVars BY <1>1, RunKeepsStart DEF vars
  <2> QED BY <2>1 DEF startVars, Aux, SrvAux
<1>2. CASE Startup
  <2>1. UNCHANGED runVars BY <1>2, StartKeepsRun
  <2>2. CASE srv # "up" BY <2>1, <2>2 DEF Quiet, runVars, pollerVars
  <2>3. CASE srv = "up"
    <3>1. sock' = sock
      BY <1>2, <2>3 DEF Startup, Connect, Accept, ConnectCtrl, ConnectData, ConnectAux, NoAux,
         AcceptCtrl, AcceptData, AcceptAux, AuxTimesOut, Hello, Reply, Settle, SrvGivesUp,
         CliGivesUp, Restart
    <3> QED BY <2>3, <3>1 DEF Aux, SrvAux
  <2> QED BY <2>2, <2>3
<1> QED BY <1>1, <1>2 DEF Next

LEMMA SentSorted ==
  ASSUME StartInv, Aux, NEW s \in Sides, NEW ch \in Channels, NEW w, Sends(s, ch, w)
  PROVE  OnlyOf(w, Carries(s, ch))
<1>0. QAux = "aux" /\ SAux = "aux" BY BothAux
<1>1. CASE s = "sim" /\ ch = "ctrl"
  <2>1. Notice(w) BY <1>0, <1>1 DEF Sends
  <2>2. Carries(s, ch) = {"tlp", "vf", "query", "dmacpl", "shutdown"} BY <1>1 DEF Carries
  <2> QED BY <2>1, <2>2 DEF Notice, OnlyOf, Msg
<1>2. CASE s = "sim" /\ ch = "data"
  <2>1. w = <<Msg("tlp", Cur + 1)>> BY <1>0, <1>2 DEF Sends
  <2>2. Carries(s, ch) = {"tlp"} BY <1>2 DEF Carries
  <2> QED BY <2>1, <2>2 DEF OnlyOf, Msg
<1>3. CASE s = "sim" /\ ch = "aux"
  <2>1. w = ReplyTo(serving) BY <1>0, <1>3 DEF Sends
  <2>2. Carries(s, ch) = {"dmadata", "dmacpl"} BY <1>3 DEF Carries
  <2> QED BY <2>1, <2>2 DEF OnlyOf, Msg, ReplyTo
<1>4. CASE s = "qemu" /\ ch = "ctrl"
  <2>1. w \in {<<Msg("cplready", 0)>>, <<Msg("topology", 0)>>} BY <1>0, <1>4 DEF Sends
  <2>2. Carries(s, ch) = {"cplready", "topology"} BY <1>4 DEF Carries
  <2> QED BY <2>1, <2>2 DEF OnlyOf, Msg
<1>5. CASE s = "qemu" /\ ch = "data"
  <2>1. \E i : w = <<Msg("cpl", i)>> BY <1>0, <1>5 DEF Sends
  <2>2. Carries(s, ch) = {"cpl"} BY <1>5 DEF Carries
  <2> QED BY <2>1, <2>2 DEF OnlyOf, Msg
<1>6. CASE s = "qemu" /\ ch = "aux"
  <2>1. w = <<Msg("msi", msiSent + 1)>> \/ w = Request(dma') BY <1>0, <1>6 DEF Sends
  <2>2. Carries(s, ch) = {"msi", "dmareq_r", "dmareq_w", "dmadata"} BY <1>6 DEF Carries
  <2> QED BY <2>1, <2>2 DEF OnlyOf, Msg, Request
<1> QED BY <1>1, <1>2, <1>3, <1>4, <1>5, <1>6 DEF Sides, Channels

LEMMA NextSorted == ASSUME StreamInv, [Next]_vars PROVE Sorted'
<1> SUFFICES ASSUME Aux', NEW s \in Sides, NEW ch \in Channels
             PROVE  OnlyOf(net'[s][ch], Carries(s, ch))
  BY DEF Sorted
<1>0. StartInv /\ Quiet /\ TcpTypes /\ Sorted BY DEF StreamInv, DmaInv
<1>1. CASE ~Aux
  <2>1. net'[s][ch] = <<>> BY <1>0, <1>1, AuxBegins
  <2>2. Len(net'[s][ch]) = 0 BY <2>1
  <2> QED BY <2>2 DEF OnlyOf
<1>2. CASE Aux
  <2>1. AllMove /\ OnlyOf(net[s][ch], Carries(s, ch)) BY <1>0, <1>2, NextMoves DEF Sorted
  <2>2. PICK z : z = net'[s][ch] OBVIOUS
  <2>3. z \in Seq(Message) /\ net[s][ch] \in Seq(Message) /\ Moves(s, ch)
    BY <1>0, <2>1, <2>2 DEF AllMove, Streams, TcpTypes, NetTypes
  <2>4. ASSUME NEW n, Drops(net[s][ch], z, n) PROVE OnlyOf(z, Carries(s, ch))
    BY <2>1, <2>3, <2>4, DropsOf
  <2>5. ASSUME NEW w \in Seq(Message), Sends(s, ch, w), Adds(net[s][ch], z, w)
        PROVE  OnlyOf(z, Carries(s, ch))
    <3>1. OnlyOf(w, Carries(s, ch)) BY <1>0, <1>2, <2>5, SentSorted
    <3> QED BY <2>1, <2>3, <2>5, <3>1, AddsOf
  <2> QED BY <2>1, <2>2, <2>3, <2>4, <2>5 DEF Moves
<1> QED BY <1>1, <1>2

(* Which steps move the poller, the call or the caller. *)
LEMMA Frame ==
  ASSUME [Next]_vars
  PROVE  /\ \/ UNCHANGED <<poller, serving>> \/ TakeRead \/ TakeWrite \/ PostDma
            \/ AnnounceDma \/ CtrlTorn \/ PollerEnds
         /\ UNCHANGED dma \/ \E dir \in {"r", "w"} : DmaStart(dir)
         /\ UNCHANGED gaveUp \/ gaveUp'
         /\ sim = "dma" => sim' = "dma" \/ gaveUp' \/ DmaFails \/ DmaReply
         /\ cpu = "down" => cpu' = "down"
         /\ cpu' = "down" => cpu = "down" \/ Destroy
<1>1. CASE Startup \/ UNCHANGED vars
  <2>1. UNCHANGED runVars BY <1>1, StartKeepsRun DEF vars
  <2> QED BY <2>1 DEF runVars, qemuVars, reading, pollerVars, simVars, dmaVars
<1>2. CASE Qemu
  <2>1. UNCHANGED <<pollerVars, simVars>>
    BY <1>2 DEF Qemu, Query, Topology, SendTlp, AnnounceTlp, SendVfEvent, Claim, Skip, reading, ClaimClosed,
       Answer, StopPoller, Destroy
  <2>2. (cpu = "down" => cpu' = "down") /\ (cpu' = "down" => cpu = "down" \/ Destroy)
    BY <1>2 DEF Qemu, Query, Topology, SendTlp, AnnounceTlp, Announced, SendVfEvent, Claim, Skip, reading,
       ClaimClosed, Answer, StopPoller, Destroy, qemuVars
  <2> QED BY <2>1, <2>2 DEF pollerVars, simVars, dmaVars
<1>3. CASE Poller
  <2>1. UNCHANGED simVars
    BY <1>3 DEF Poller, TakeRead, TakeWrite, TakeMsi, PostDma, AnnounceDma, CtrlTorn, PollerEnds
  <2>2. (cpu = "down" => cpu' = "down") /\ (cpu' = "down" => cpu = "down")
    BY <1>3 DEF Poller, TakeRead, TakeWrite, TakeMsi, PostDma, AnnounceDma, CtrlTorn, Announced,
       PollerEnds, qemuVars, reading
  <2>3. \/ UNCHANGED <<poller, serving>> \/ TakeRead \/ TakeWrite \/ PostDma
        \/ AnnounceDma \/ CtrlTorn \/ PollerEnds
    BY <1>3 DEF Poller, TakeMsi
  <2> QED BY <2>1, <2>2, <2>3 DEF simVars, dmaVars
<1>4. CASE Simulator
  <2>1. UNCHANGED <<qemuVars, poller, serving>> \/ UNCHANGED <<cpu, poller, serving>>
    BY <1>4 DEF Simulator, PollCached, DrainTlp, DrainVf, DrainQuery, DrainOther, DrainReturn,
       PollEmpty, PollVf, Exit, Complete, Consume, SyncCpl, RaiseMsi, DmaStart, DmaTlp, DmaOther,
       DmaFails, DmaReply, DmaOthers, qemuVars, reading, pollerVars
  <2>2. UNCHANGED dma \/ \E dir \in {"r", "w"} : DmaStart(dir)
    BY <1>4 DEF Simulator, PollCached, DrainTlp, DrainVf, DrainQuery, DrainOther, DrainReturn,
       PollEmpty, PollVf, Exit, Complete, Consume, SyncCpl, RaiseMsi, DmaTlp, DmaOther,
       DmaFails, DmaReply, DmaOthers, dmaVars
  <2>3. UNCHANGED gaveUp \/ gaveUp'
    BY <1>4 DEF Simulator, PollCached, DrainTlp, DrainVf, DrainQuery, DrainOther, DrainReturn,
       PollEmpty, PollVf, Exit, Complete, Consume, SyncCpl, RaiseMsi, DmaStart, DmaTlp, DmaOther,
       DmaFails, DmaReply, DmaGoesOn, dmaVars
  <2>4. ASSUME sim = "dma" PROVE sim' = "dma" \/ gaveUp' \/ DmaFails \/ DmaReply
    <3>1. (DmaTlp \/ DmaOther) \/ DmaFails \/ DmaReply
      BY <1>4, <2>4 DEF Simulator, PollCached, DrainTlp, DrainVf, DrainQuery, DrainOther,
         DrainReturn, PollEmpty, PollVf, Exit, Complete, Consume, SyncCpl, RaiseMsi, DmaStart,
         Draining, Active
    <3>2. DmaTlp \/ DmaOther => DmaGoesOn BY DEF DmaTlp, DmaOther
    <3>3. DmaGoesOn => sim' = sim \/ gaveUp' BY DEF DmaGoesOn
    <3> QED BY <2>4, <3>1, <3>2, <3>3
  <2> QED BY <2>1, <2>2, <2>3, <2>4 DEF qemuVars, reading
<1> QED BY <1>1, <1>2, <1>3, <1>4 DEF Next

LEMMA NextEnd == ASSUME StreamInv, [Next]_vars PROVE EndLast'
<1>0. StartInv /\ TcpTypes /\ EndLast /\ AllMove /\ QAux # "ctrl"
  BY NextMoves, SideNames DEF StreamInv, DmaInv, QAux, AuxOrData
<1>1. PICK z : z = net'["sim"]["ctrl"] OBVIOUS
<1>2. z \in Seq(Message) /\ net["sim"]["ctrl"] \in Seq(Message) /\ Moves("sim", "ctrl")
  BY <1>0, <1>1, SideNames DEF AllMove, Streams, TcpTypes, NetTypes
<1>3. cpu' = "down" => poller' = "gone"
  <2>1. cpu' = "down" => poller = "gone" BY <1>0, Frame DEF EndLast, Destroy
  <2>2. poller = "gone" => poller' = "gone"
    BY Frame DEF TakeRead, TakeWrite, PollerLooks, PostDma, AnnounceDma, CtrlTorn, PollerEnds
  <2> QED BY <2>1, <2>2
<1>4. ASSUME NEW w, Sends("sim", "ctrl", w)
      PROVE  /\ cpu # "down" /\ EndIn(w)
             /\ Destroy \/ NoneOf(w, {"shutdown"})
  <2>1. Notice(w) BY <1>0, <1>4 DEF Sends
  <2>2. cpu # "down"
    BY <1>0, <2>1 DEF Notice, Query, AnnounceTlp, SendVfEvent, Destroy, AnnounceDma, CtrlTorn,
       EndLast
  <2>3. Destroy \/ NoneOf(w, {"shutdown"}) BY <2>1 DEF Notice, NoneOf, Msg
  <2>4. EndIn(w)
    <3>1. (\E e : w = <<e>>) \/ \E e, f : w = <<e, f>> /\ e.m # "shutdown"
      BY <2>1 DEF Notice, Msg
    <3>2. ASSUME NEW e, w = <<e>> PROVE EndIn(w) BY <3>2 DEF EndIn
    <3>3. ASSUME NEW e, NEW f, w = <<e, f>>, e.m # "shutdown" PROVE EndIn(w)
      BY <3>3 DEF EndIn
    <3> QED BY <3>1, <3>2, <3>3
  <2> QED BY <2>2, <2>3, <2>4
<1>5. ASSUME NEW n, Drops(net["sim"]["ctrl"], z, n)
      PROVE  EndIn(z) /\ (NoneOf(net["sim"]["ctrl"], {"shutdown"}) => NoneOf(z, {"shutdown"}))
  BY <1>0, <1>2, <1>5, DropsOf DEF EndLast
<1>6. ASSUME NEW w \in Seq(Message), Sends("sim", "ctrl", w), Adds(net["sim"]["ctrl"], z, w)
      PROVE  EndIn(z) /\ (Destroy \/ NoneOf(z, {"shutdown"}))
  <2>1. NoneOf(net["sim"]["ctrl"], {"shutdown"}) /\ EndIn(w) BY <1>0, <1>4, <1>6 DEF EndLast
  <2>2. Destroy \/ NoneOf(w, {"shutdown"}) BY <1>4, <1>6
  <2> QED BY <1>2, <1>6, <2>1, <2>2, AddsOf
<1>7. EndIn(z)
  <2>1. CASE z = net["sim"]["ctrl"] BY <1>0, <2>1 DEF EndLast
  <2> QED BY <1>1, <1>2, <1>5, <1>6, <2>1 DEF Moves
<1>8. ASSUME cpu' # "down" PROVE NoneOf(z, {"shutdown"})
  <2>1. cpu # "down" /\ ~Destroy BY <1>8, Frame DEF Destroy
  <2>2. NoneOf(net["sim"]["ctrl"], {"shutdown"}) BY <1>0, <2>1 DEF EndLast
  <2>3. CASE z = net["sim"]["ctrl"] BY <2>2, <2>3
  <2> QED BY <1>1, <1>2, <1>5, <1>6, <2>1, <2>2, <2>3 DEF Moves
<1> QED BY <1>1, <1>3, <1>7, <1>8 DEF EndLast

(* The reply to the call is what the simulator asks for. *)
LEMMA ReplyFits ==
  ASSUME dma \in Dmas, dma.id > 0, NEW q, q = ReplyTo(dma)
  PROVE  InStep(q) /\ Len(q) = Len(NeedsReply) /\ q \in Seq(Message) /\ q # <<>>
<1>1. dma.dir = "r" => q = <<Msg("dmadata", dma.id), Msg("dmacpl", dma.id)>> BY DEF ReplyTo
<1>2. dma.dir # "r" => q = <<Msg("dmacpl", dma.id)>> BY DEF ReplyTo
<1>3. InStep(q) /\ Len(q) = Len(NeedsReply) /\ q # <<>>
  BY <1>1, <1>2 DEF InStep, NeedsReply, Msg
<1> QED BY <1>3, ReplyType

(* What the steps that have nothing to do with the call leave of it. *)
LEMMA CallStreams ==
  ASSUME StartInv, TcpTypes, Aux, ~Broken, [Next]_vars, NEW e
  PROVE  /\ (\A dir \in {"r", "w"} : ~DmaStart(dir)) =>
              /\ NoneOf(net["qemu"]["aux"], ReqTypes) => NoneOf(net'["qemu"]["aux"], ReqTypes)
              /\ ~TakeRead /\ ~TakeWrite /\ e.m \in ReqTypes =>
                   (OneOf(net["qemu"]["aux"], ReqTypes, e) => OneOf(net'["qemu"]["aux"], ReqTypes, e))
         /\ ~AnnounceDma /\ ~CtrlTorn =>
              /\ NoneOf(net["sim"]["ctrl"], {"dmacpl"}) => NoneOf(net'["sim"]["ctrl"], {"dmacpl"})
              /\ ~DrainOther /\ ~DmaReply /\ e.m = "dmacpl" =>
                   (OneOf(net["sim"]["ctrl"], {"dmacpl"}, e) =>
                      OneOf(net'["sim"]["ctrl"], {"dmacpl"}, e))
         /\ ~PostDma /\ ~DmaReply => net'["sim"]["aux"] = net["sim"]["aux"]
<1>0. QAux = "aux" /\ SAux = "aux" /\ AllMove BY BothAux, NextMoves
<1>1. PICK q2, c2 : q2 = net'["qemu"]["aux"] /\ c2 = net'["sim"]["ctrl"] OBVIOUS
<1>2. PICK q, c : q = net["qemu"]["aux"] /\ c = net["sim"]["ctrl"] OBVIOUS
<1>3. /\ q \in Seq(Message) /\ c \in Seq(Message) /\ q2 \in Seq(Message) /\ c2 \in Seq(Message)
      /\ net \in Streams
  BY <1>0, <1>1, <1>2, SideNames DEF AllMove, Streams, TcpTypes, NetTypes
<1>4. Moves("qemu", "aux") /\ Moves("sim", "ctrl") /\ Moves("sim", "aux")
  BY <1>0, SideNames DEF AllMove
<1>5. ASSUME \A dir \in {"r", "w"} : ~DmaStart(dir)
      PROVE  /\ NoneOf(q, ReqTypes) => NoneOf(q2, ReqTypes)
             /\ ~TakeRead /\ ~TakeWrite /\ e.m \in ReqTypes =>
                  (OneOf(q, ReqTypes, e) => OneOf(q2, ReqTypes, e))
  <2>1. CASE q2 = q BY <2>1
  <2>2. ASSUME NEW n, Takes("qemu", "aux", n), Drops(q, q2, n)
        PROVE  /\ NoneOf(q, ReqTypes) => NoneOf(q2, ReqTypes)
               /\ ~TakeRead /\ ~TakeWrite /\ e.m \in ReqTypes =>
                    (OneOf(q, ReqTypes, e) => OneOf(q2, ReqTypes, e))
    <3>1. NoneOf(q, ReqTypes) => NoneOf(q2, ReqTypes) BY <1>3, <2>2, DropsOf
    <3>2. ASSUME ~TakeRead, ~TakeWrite, e.m \in ReqTypes, OneOf(q, ReqTypes, e)
          PROVE  OneOf(q2, ReqTypes, e)
      <4>1. n = 1 /\ TakeMsi BY <1>0, <2>2, <3>2 DEF Takes
      <4>2. Readable("qemu", "aux") /\ First("qemu", "aux").m = "msi"
        BY <1>0, <4>1 DEF TakeMsi, PollerLooks, Got
      <4>3. q[1].m = "msi" BY <1>2, <1>3, <4>2, HeadOf, SideNames
      <4>4. q[1].m \notin ReqTypes BY <4>3 DEF ReqTypes
      <4> QED BY <1>3, <2>2, <3>2, <4>1, <4>4, DropsOf
    <3> QED BY <3>1, <3>2
  <2>3. ASSUME NEW w \in Seq(Message), Sends("qemu", "aux", w), Adds(q, q2, w)
        PROVE  /\ NoneOf(q, ReqTypes) => NoneOf(q2, ReqTypes)
               /\ OneOf(q, ReqTypes, e) => OneOf(q2, ReqTypes, e)
    <3>1. w = <<Msg("msi", msiSent + 1)>> BY <1>0, <1>5, <2>3 DEF Sends
    <3>2. NoneOf(w, ReqTypes) BY <3>1 DEF NoneOf, Msg, ReqTypes
    <3> QED BY <1>3, <2>3, <3>2, AddsOf
  <2> QED BY <1>1, <1>2, <1>4, <2>1, <2>2, <2>3 DEF Moves
<1>6. ASSUME ~AnnounceDma, ~CtrlTorn
      PROVE  /\ NoneOf(c, {"dmacpl"}) => NoneOf(c2, {"dmacpl"})
             /\ ~DrainOther /\ ~DmaReply /\ e.m = "dmacpl" =>
                  (OneOf(c, {"dmacpl"}, e) => OneOf(c2, {"dmacpl"}, e))
  <2>1. CASE c2 = c BY <2>1
  <2>2. ASSUME NEW n, Takes("sim", "ctrl", n), Drops(c, c2, n)
        PROVE  /\ NoneOf(c, {"dmacpl"}) => NoneOf(c2, {"dmacpl"})
               /\ ~DrainOther /\ ~DmaReply /\ e.m = "dmacpl" =>
                    (OneOf(c, {"dmacpl"}, e) => OneOf(c2, {"dmacpl"}, e))
    <3>1. NoneOf(c, {"dmacpl"}) => NoneOf(c2, {"dmacpl"}) BY <1>3, <2>2, DropsOf
    <3>2. ASSUME ~DrainOther, ~DmaReply, e.m = "dmacpl", OneOf(c, {"dmacpl"}, e)
          PROVE  OneOf(c2, {"dmacpl"}, e)
      <4>1. n = 1 /\ First("sim", "ctrl").m # "dmacpl" BY <1>0, <2>2, <3>2 DEF Takes
      <4>2. 1 \in 1 .. Len(c) BY <2>2, <4>1 DEF Drops
      <4>3. c # <<>> /\ Head(c) = c[1] BY <1>3, <4>2, EmptySeq, HeadTailProperties
      <4>4. c[1].m \notin {"dmacpl"} BY <1>2, <4>1, <4>3 DEF First
      <4> QED BY <1>3, <2>2, <3>2, <4>1, <4>4, DropsOf
    <3> QED BY <3>1, <3>2
  <2>3. ASSUME NEW w \in Seq(Message), Sends("sim", "ctrl", w), Adds(c, c2, w)
        PROVE  /\ NoneOf(c, {"dmacpl"}) => NoneOf(c2, {"dmacpl"})
               /\ OneOf(c, {"dmacpl"}, e) => OneOf(c2, {"dmacpl"}, e)
    <3>1. Notice(w) BY <1>0, <2>3 DEF Sends
    <3>2. NoneOf(w, {"dmacpl"}) BY <1>6, <3>1 DEF Notice, NoneOf, Msg
    <3> QED BY <1>3, <2>3, <3>2, AddsOf
  <2> QED BY <1>1, <1>2, <1>4, <2>1, <2>2, <2>3 DEF Moves
<1>7. ASSUME ~PostDma, ~DmaReply PROVE net'["sim"]["aux"] = net["sim"]["aux"]
  BY <1>0, <1>4, <1>7 DEF Moves, Takes, Sends
<1> QED BY <1>1, <1>2, <1>5, <1>6, <1>7

(* A completion at the head of ctrl is that of the call, and its reply is  *)
(* all there is on aux.                                                    *)
LEMMA ReplyInStep ==
  ASSUME StreamInv, Aux, ~gaveUp, DmaReply
  PROVE  /\ Answered /\ UNCHANGED <<garbled, poller, dma>>
         /\ net'["sim"]["aux"] = <<>> /\ NoneOf(net'["sim"]["ctrl"], {"dmacpl"})
         /\ net'["qemu"]["aux"] = net["qemu"]["aux"]
<1>0. /\ QAux = "aux" /\ SAux = "aux" /\ net \in Streams /\ OneCall /\ StreamsInStep /\ SimTypes
      /\ dma \in Dmas
  BY BothAux DEF StreamInv, DmaInv, TcpTypes, NetTypes, SimTypes
<1>1. /\ sim = "dma" /\ Readable("sim", "ctrl") /\ ~Broken /\ First("sim", "ctrl").m = "dmacpl"
      /\ UNCHANGED <<poller, dma>>
  BY DEF DmaReply, DmaWait, Ctrl, Got, Broken, DmaOthers, pollerVars
<1>2. PICK c, a : c = net["sim"]["ctrl"] /\ a = net["sim"]["aux"] OBVIOUS
<1>3. c \in Seq(Message) /\ 1 \in 1 .. Len(c) /\ c[1].m = "dmacpl" /\ c # <<>>
  BY <1>0, <1>1, <1>2, HeadOf, SideNames DEF Readable
<1>4. Answered
  <2>1. ~NoneOf(c, {"dmacpl"}) BY <1>3 DEF NoneOf
  <2> QED BY <1>0, <1>1, <1>2, <2>1 DEF OneCall, Resting, Serving
<1>5. a = ReplyTo(dma) /\ OneOf(c, {"dmacpl"}, Msg("dmacpl", dma.id)) /\ dma.id > 0
  BY <1>0, <1>1, <1>2, <1>4 DEF Answered, SimTypes
<1>6. InStep(a) /\ Len(a) = Len(NeedsReply) /\ a \in Seq(Message) /\ a # <<>>
  BY <1>0, <1>5, ReplyFits
<1>7. <<"sim", "aux">> \notin garbled BY <1>0 DEF StreamsInStep, Aux
<1>8. PICK k, y : k = Len(NeedsReply) /\ y = SubSeq(a, k + 1, Len(a)) OBVIOUS
<1>9. k \in 1 .. Len(a) BY <1>6, <1>8, EmptySeq, LenProperties
<1>10. y \in Seq(Message) /\ Drops(a, y, k) BY <1>6, <1>8, <1>9, DropsSubSeq
<1>11. y = <<>>
  <2>1. Len(y) = Len(a) - k /\ Len(a) = k /\ k \in Nat
    BY <1>6, <1>8, <1>9, <1>10, LenProperties DEF Drops
  <2>2. Len(y) = 0 BY <2>1
  <2> QED BY <1>10, <2>2, EmptySeq
<1>12. /\ UNCHANGED garbled
       /\ net' = [net EXCEPT !["sim"]["ctrl"] = Tail(@), !["sim"]["aux"] = y]
  BY <1>0, <1>2, <1>6, <1>7, <1>8 DEF DmaReply
<1>13. net' = TakenTwo("sim", "aux", y) BY <1>12 DEF TakenTwo
<1>14. /\ net'["sim"]["aux"] = y /\ Drops(c, net'["sim"]["ctrl"], 1) /\ net' \in Streams
       /\ net'["qemu"]["aux"] = net["qemu"]["aux"]
  <2>1. k \in Nat BY <1>9
  <2> QED BY <1>0, <1>2, <1>3, <1>10, <1>13, <2>1, TakeTwoEffect, SideNames
<1>15. NoneOf(net'["sim"]["ctrl"], {"dmacpl"})
  <2>1. PICK c2 : c2 = net'["sim"]["ctrl"] OBVIOUS
  <2>2. c2 \in Seq(Message) /\ Drops(c, c2, 1) BY <1>14, <2>1, SideNames DEF Streams
  <2>3. NoneOf(c2, {"dmacpl"}) BY <1>3, <1>5, <2>2, DropsOf
  <2> QED BY <2>1, <2>3
<1> QED BY <1>1, <1>4, <1>11, <1>12, <1>14, <1>15

(* The poller takes the call's request (TakeRead, TakeWrite). *)
LEMMA RequestTaken ==
  ASSUME StreamInv, Aux, Resting \/ Serving \/ Answered, TakeRead \/ TakeWrite
  PROVE  Serving'
<1>0. /\ QAux = "aux" /\ net \in Streams /\ dma \in Dmas
  BY BothAux DEF StreamInv, DmaInv, TcpTypes, NetTypes, SimTypes
<1>1. PICK n \in {1, 2} : net' = Taken("qemu", "aux", n) /\ Len(net["qemu"]["aux"]) >= n
  <2>1. CASE TakeWrite
    <3>1. net' = Taken("qemu", "aux", 2) /\ Len(net["qemu"]["aux"]) > 1
      BY <1>0, <2>1 DEF TakeWrite
    <3>2. Len(net["qemu"]["aux"]) \in Nat BY <1>0, SideNames, LenProperties DEF Streams
    <3> QED BY <3>1, <3>2
  <2>2. CASE TakeRead
    <3>1. net' = Taken("qemu", "aux", 1) /\ Readable("qemu", "aux")
      BY <1>0, <2>2 DEF TakeRead, PollerLooks
    <3>2. 1 \in 1 .. Len(net["qemu"]["aux"]) /\ Len(net["qemu"]["aux"]) \in Nat
      BY <1>0, <3>1, SideNames, HeadOf
    <3> QED BY <3>1, <3>2
  <2> QED BY <2>1, <2>2
<1>2. /\ poller = "look" /\ poller' = "post" /\ Readable("qemu", "aux")
      /\ UNCHANGED <<sim, dma>>
      /\ \/ First("qemu", "aux").m = "dmareq_r"
            /\ serving' = [id |-> First("qemu", "aux").id, dir |-> "r"]
         \/ First("qemu", "aux").m = "dmareq_w"
            /\ serving' = [id |-> First("qemu", "aux").id, dir |-> "w"]
  BY <1>0 DEF TakeRead, TakeWrite, PollerLooks, Got, simVars, dmaVars
<1>3. PICK q, q2 : q = net["qemu"]["aux"] /\ q2 = net'["qemu"]["aux"] OBVIOUS
<1>4. q \in Seq(Message) /\ 1 \in 1 .. Len(q) /\ First("qemu", "aux") = q[1] /\ Len(q) \in Nat
  BY <1>0, <1>2, <1>3, HeadOf, SideNames
<1>5. q[1].m \in ReqTypes BY <1>2, <1>4 DEF ReqTypes
<1>6. ~NoneOf(q, ReqTypes) BY <1>4, <1>5 DEF NoneOf
<1>7. /\ net["sim"]["aux"] = <<>> /\ NoneOf(net["sim"]["ctrl"], {"dmacpl"})
      /\ sim = "dma" /\ OneOf(q, ReqTypes, Req)
  BY <1>2, <1>3, <1>6 DEF Resting, Serving, Answered
<1>8. /\ net' \in Streams /\ Drops(q, q2, n)
      /\ net'["sim"]["aux"] = net["sim"]["aux"] /\ net'["sim"]["ctrl"] = net["sim"]["ctrl"]
  <2>1. n \in 1 .. Len(net["qemu"]["aux"]) BY <1>1, <1>3, <1>4
  <2> QED BY <1>0, <1>1, <1>3, <2>1, TakeEffect, SideNames
<1>9. q2 \in Seq(Message) BY <1>3, <1>8, SideNames DEF Streams
<1>10. NoneOf(q2, ReqTypes) /\ q[1] = Req BY <1>4, <1>5, <1>7, <1>8, <1>9, DropsOf
<1>11. serving' = dma
  <2>1. dma \in [id : 0 .. MaxDmas, dir : {"r", "w"}] BY <1>0 DEF Dmas
  <2>2. q[1].id = dma.id /\ q[1].m = IF dma.dir = "r" THEN "dmareq_r" ELSE "dmareq_w"
    BY <1>10 DEF Req, Msg
  <2>3. serving' = [id |-> dma.id, dir |-> dma.dir] BY <1>2, <1>4, <2>1, <2>2
  <2> QED BY <2>1, <2>3
<1> QED BY <1>2, <1>3, <1>7, <1>8, <1>10, <1>11 DEF Serving

LEMMA ReplySent ==
  ASSUME StreamInv, Aux, Resting \/ Serving \/ Answered, PostDma
  PROVE  Serving'
<1>0. /\ QAux = "aux" /\ net \in Streams /\ dma \in Dmas /\ SimTypes
  BY BothAux DEF StreamInv, DmaInv, TcpTypes, NetTypes, SimTypes
<1>1. /\ poller = "post" /\ poller' = "announce" /\ UNCHANGED <<serving, sim, dma>>
      /\ net' = SendTo("sim", "aux", ReplyTo(serving))
  BY <1>0 DEF PostDma, simVars, dmaVars
<1>2. /\ serving = dma /\ sim = "dma" /\ net["sim"]["aux"] = <<>>
      /\ NoneOf(net["qemu"]["aux"], ReqTypes) /\ NoneOf(net["sim"]["ctrl"], {"dmacpl"})
  BY <1>1 DEF Resting, Serving, Answered
<1>3. PICK w : w = ReplyTo(dma) OBVIOUS
<1>4. w \in Seq(Message) BY <1>0, <1>2, <1>3, ReplyType DEF SimTypes
<1>5. /\ net'["sim"]["aux"] = <<>> \o w
      /\ net'["sim"]["ctrl"] = net["sim"]["ctrl"] /\ net'["qemu"]["aux"] = net["qemu"]["aux"]
  <2>1. net' = SendTo("sim", "aux", w) BY <1>1, <1>2, <1>3
  <2>2. /\ net'["sim"]["aux"] = net["sim"]["aux"] \o w
        /\ net'["sim"]["ctrl"] = net["sim"]["ctrl"] /\ net'["qemu"]["aux"] = net["qemu"]["aux"]
    <3>1. "sim" \in Sides /\ "qemu" \in Sides /\ "aux" \in Channels /\ "ctrl" \in Channels
      BY SideNames
    <3>2. net'["sim"]["aux"] = net["sim"]["aux"] \o w
      BY <1>0, <1>4, <2>1, <3>1, SendEffect, Zenon
    <3>3. \A t \in Sides, c \in Channels : t # "sim" \/ c # "aux" => net'[t][c] = net[t][c]
      BY <1>0, <1>4, <2>1, <3>1, SendEffect
    <3> QED BY <3>1, <3>2, <3>3
  <2> QED BY <1>2, <2>2, Zenon
<1>6. <<>> \o w = w BY <1>4, ConcatEmptySeq
<1> QED BY <1>1, <1>2, <1>3, <1>5, <1>6 DEF Serving

LEMMA ReplyAnnounced ==
  ASSUME StreamInv, Aux, Resting \/ Serving \/ Answered, AnnounceDma
  PROVE  Answered'
<1>0. /\ net \in Streams /\ dma \in Dmas /\ SimTypes
  BY DEF StreamInv, DmaInv, TcpTypes, NetTypes, SimTypes
<1>1. /\ poller = "announce" /\ poller' = "look" /\ UNCHANGED <<sim, dma>>
      /\ net' = SendTo("sim", "ctrl", <<Msg("dmacpl", serving.id)>>)
  BY <1>0 DEF AnnounceDma, simVars, dmaVars
<1>2. /\ serving = dma /\ sim = "dma" /\ net["sim"]["aux"] = ReplyTo(dma)
      /\ NoneOf(net["qemu"]["aux"], ReqTypes) /\ NoneOf(net["sim"]["ctrl"], {"dmacpl"})
  BY <1>1 DEF Resting, Serving, Answered
<1>3. PICK e, w : e = Msg("dmacpl", dma.id) /\ w = <<e>> OBVIOUS
<1>4. w \in Seq(Message) /\ OneOf(w, {"dmacpl"}, e)
  <2>1. dma.id \in 1 .. MaxDmas BY <1>0, <1>2, TcpBounds DEF SimTypes, Dmas
  <2>2. e \in Message BY <1>3, <2>1, Messages
  <2>3. Len(w) = 1 /\ w[1] = e BY <1>3
  <2> QED BY <1>3, <2>2, <2>3 DEF OneOf
<1>5. PICK c, c2 : c = net["sim"]["ctrl"] /\ c2 = net'["sim"]["ctrl"] OBVIOUS
<1>6. /\ net' \in Streams /\ Adds(c, c2, w)
      /\ net'["sim"]["aux"] = net["sim"]["aux"] /\ net'["qemu"]["aux"] = net["qemu"]["aux"]
  <2>1. net' = SendTo("sim", "ctrl", w) BY <1>1, <1>2, <1>3
  <2> QED BY <1>0, <1>4, <1>5, <2>1, SendEffect, SideNames
<1>7. c \in Seq(Message) /\ c2 \in Seq(Message) BY <1>0, <1>5, <1>6, SideNames DEF Streams
<1>8. OneOf(c2, {"dmacpl"}, e) BY <1>2, <1>4, <1>5, <1>6, <1>7, AddsOf
<1> QED BY <1>1, <1>2, <1>3, <1>5, <1>6, <1>8 DEF Answered

LEMMA CallStarted ==
  ASSUME StreamInv, Aux, Resting \/ Serving \/ Answered, NEW dir \in {"r", "w"}, DmaStart(dir)
  PROVE  Resting'
<1>0. /\ SAux = "aux" /\ net \in Streams /\ dma \in Dmas
  BY BothAux DEF StreamInv, DmaInv, TcpTypes, NetTypes, SimTypes
<1>1. /\ sim = "poll" /\ sim' = "dma" /\ poller' = poller
      /\ dma' = [id |-> dma.id + 1, dir |-> dir] /\ dma.id < MaxDmas
      /\ net' = SendTo("qemu", "aux", Request(dma'))
  BY <1>0 DEF DmaStart, Active, pollerVars
<1>2. /\ poller \in {"look", "gone"} /\ net["sim"]["aux"] = <<>>
      /\ NoneOf(net["sim"]["ctrl"], {"dmacpl"})
      /\ poller = "gone" \/ NoneOf(net["qemu"]["aux"], ReqTypes)
  BY <1>1 DEF Resting, Serving, Answered
<1>3. PICK d, w : d = dma' /\ w = Request(d) OBVIOUS
<1>4. PICK e : e = Msg(IF d.dir = "r" THEN "dmareq_r" ELSE "dmareq_w", d.id) OBVIOUS
<1>5. d \in Dmas /\ d.id > 0
  <2>1. dma.id \in 0 .. MaxDmas BY <1>0 DEF Dmas
  <2> QED BY <1>1, <1>3, <2>1, TcpBounds DEF Dmas
<1>6. w \in Seq(Message) BY <1>3, <1>5, ReplyType
<1>7. OneOf(w, ReqTypes, e)
  <2>1. CASE d.dir = "r"
    <3>1. w = <<e>> BY <1>3, <1>4, <2>1 DEF Request
    <3>2. Len(w) = 1 /\ w[1] = e BY <3>1
    <3> QED BY <3>2 DEF OneOf
  <2>2. CASE d.dir # "r"
    <3>1. w = <<e, Msg("dmadata", d.id)>> BY <1>3, <1>4, <2>2 DEF Request
    <3>2. Len(w) = 2 /\ w[1] = e /\ w[2].m \notin ReqTypes BY <3>1 DEF Msg, ReqTypes
    <3>3. \A j \in 1 .. 2 : w[j].m \in ReqTypes => j = 1 BY <3>2
    <3> QED BY <3>2, <3>3 DEF OneOf
  <2> QED BY <2>1, <2>2
<1>8. PICK q, q2 : q = net["qemu"]["aux"] /\ q2 = net'["qemu"]["aux"] OBVIOUS
<1>9. /\ net' \in Streams /\ Adds(q, q2, w)
      /\ net'["sim"]["aux"] = net["sim"]["aux"] /\ net'["sim"]["ctrl"] = net["sim"]["ctrl"]
  <2>1. net' = SendTo("qemu", "aux", w) BY <1>1, <1>3
  <2> QED BY <1>0, <1>6, <1>8, <2>1, SendEffect, SideNames
<1>10. q \in Seq(Message) /\ q2 \in Seq(Message) BY <1>0, <1>8, <1>9, SideNames DEF Streams
<1>11. NoneOf(q, ReqTypes) => OneOf(q2, ReqTypes, e) BY <1>6, <1>7, <1>9, <1>10, AddsOf
<1>12. e = Req' BY <1>3, <1>4 DEF Req
<1> QED BY <1>1, <1>2, <1>8, <1>9, <1>11, <1>12 DEF Resting

(* A wait ends without its reply only when QEMU has gone. *)
LEMMA CallFailed ==
  ASSUME StreamInv, Aux, ~Broken, Resting \/ Serving \/ Answered, DmaFails
  PROVE  Resting'
<1>0. /\ net \in Streams /\ EndLast
  BY DEF StreamInv, DmaInv, TcpTypes, NetTypes
<1>1. PICK c, c2 : c = net["sim"]["ctrl"] /\ c2 = net'["sim"]["ctrl"] OBVIOUS
<1>2. /\ UNCHANGED poller
      /\ \/ Readable("sim", "ctrl") /\ First("sim", "ctrl").m = "shutdown"
            /\ net' = Taken("sim", "ctrl", 1)
         \/ ~Readable("sim", "ctrl") /\ cpu = "down" /\ net' = net
  BY DEF DmaFails, DmaOthers, pollerVars, Ctrl, Got
<1>3. CASE Readable("sim", "ctrl") /\ First("sim", "ctrl").m = "shutdown"
           /\ net' = Taken("sim", "ctrl", 1)
  <2>1. /\ c \in Seq(Message) /\ 1 \in 1 .. Len(c) /\ c[1].m = "shutdown" /\ Len(c) \in Nat
        /\ Drops(c, c2, 1) /\ net' \in Streams
        /\ net'["sim"]["aux"] = net["sim"]["aux"] /\ net'["qemu"]["aux"] = net["qemu"]["aux"]
    <3>1. c \in Seq(Message) /\ 1 \in 1 .. Len(c) /\ c[1].m = "shutdown" /\ Len(c) \in Nat
      BY <1>0, <1>1, <1>3, HeadOf, SideNames
    <3> QED BY <1>0, <1>1, <1>3, <3>1, TakeEffect, SideNames
  <2>2. poller = "gone"
    <3>1. ~NoneOf(c, {"shutdown"}) BY <2>1 DEF NoneOf
    <3> QED BY <1>0, <1>1, <3>1 DEF EndLast
  <2>3. Len(c) = 1 BY <1>0, <1>1, <2>1 DEF EndLast, EndIn
  <2>4. NoneOf(c, {"dmacpl"}) BY <2>1, <2>3 DEF NoneOf
  <2>5. ~Answered BY <1>1, <2>4 DEF Answered, OneOf, NoneOf, Msg
  <2>6. net["sim"]["aux"] = <<>> BY <2>2, <2>5 DEF Resting, Serving
  <2>7. c2 \in Seq(Message) BY <1>1, <2>1, SideNames DEF Streams
  <2>8. NoneOf(c2, {"dmacpl"}) BY <2>1, <2>4, <2>7, DropsOf
  <2> QED BY <1>1, <1>2, <2>1, <2>2, <2>6, <2>8 DEF Resting
<1>4. CASE ~Readable("sim", "ctrl") /\ cpu = "down" /\ net' = net
  <2>1. poller = "gone" BY <1>0, <1>4 DEF EndLast
  <2>2. c = <<>> /\ Len(c) = 0 BY <1>1, <1>4 DEF Readable
  <2>3. NoneOf(c, {"dmacpl"}) BY <2>2 DEF NoneOf
  <2>4. ~Answered BY <1>1, <2>2 DEF Answered, OneOf
  <2>5. net["sim"]["aux"] = <<>> BY <2>1, <2>4 DEF Resting, Serving
  <2> QED BY <1>1, <1>2, <1>4, <2>1, <2>3, <2>5 DEF Resting
<1> QED BY <1>2, <1>3, <1>4

LEMMA NextOneCall == ASSUME StreamInv, [Next]_vars PROVE OneCall'
<1> SUFFICES ASSUME Aux', ~gaveUp', ~Broken' PROVE Resting' \/ Serving' \/ Answered'
  BY DEF OneCall
<1>0. /\ StartInv /\ Quiet /\ TcpTypes /\ OneCall /\ net \in Streams
  BY DEF StreamInv, DmaInv, TcpTypes, NetTypes
<1>1. CASE ~Aux
  <2>1. /\ poller' = "look" /\ \A s \in Sides, ch \in Channels : net'[s][ch] = <<>>
    BY <1>0, <1>1, AuxBegins
  <2>2. Len(net'["sim"]["ctrl"]) = 0 /\ Len(net'["qemu"]["aux"]) = 0 BY <2>1, SideNames
  <2>3. net'["sim"]["aux"] = <<>> BY <2>1, SideNames
  <2> QED BY <2>1, <2>2, <2>3 DEF Resting, NoneOf
<1>2. CASE Aux
  <2>0. ~gaveUp /\ ~Broken BY Frame, Losses DEF Broken
  <2>1. Resting \/ Serving \/ Answered BY <1>0, <1>2, <2>0 DEF OneCall
  <2>2. CASE TakeRead \/ TakeWrite BY <1>2, <2>1, <2>2, RequestTaken
  <2>3. CASE PostDma BY <1>2, <2>1, <2>3, ReplySent
  <2>4. CASE AnnounceDma BY <1>2, <2>1, <2>4, ReplyAnnounced
  <2>5. CASE CtrlTorn BY <2>5 DEF CtrlTorn, LoseStep, Broken
  <2>6. CASE \E dir \in {"r", "w"} : DmaStart(dir) BY <1>2, <2>1, <2>6, CallStarted
  <2>7. CASE DmaReply
    <3>1. /\ Answered /\ UNCHANGED poller
          /\ net'["sim"]["aux"] = <<>> /\ NoneOf(net'["sim"]["ctrl"], {"dmacpl"})
          /\ net'["qemu"]["aux"] = net["qemu"]["aux"]
      BY <1>2, <2>0, <2>7, ReplyInStep
    <3> QED BY <3>1 DEF Answered, Resting
  <2>8. CASE DmaFails BY <1>2, <2>0, <2>1, <2>8, CallFailed
  <2>9. CASE DrainOther
    <3>1. sim # "dma" /\ Readable("sim", "ctrl") /\ First("sim", "ctrl").m = "dmacpl"
      BY <2>9 DEF DrainOther, Draining, Ctrl, Got
    <3>2. 1 \in 1 .. Len(net["sim"]["ctrl"]) /\ net["sim"]["ctrl"][1].m = "dmacpl"
      BY <1>0, <3>1, HeadOf, SideNames
    <3>3. ~NoneOf(net["sim"]["ctrl"], {"dmacpl"}) BY <3>2 DEF NoneOf
    <3> QED BY <2>1, <3>1, <3>3 DEF Resting, Serving, Answered
  <2>10. CASE /\ ~TakeRead /\ ~TakeWrite /\ ~PostDma /\ ~AnnounceDma /\ ~CtrlTorn
              /\ (\A dir \in {"r", "w"} : ~DmaStart(dir)) /\ ~DmaReply /\ ~DmaFails /\ ~DrainOther
    <3>1. /\ UNCHANGED <<poller, serving>> \/ PollerEnds
          /\ UNCHANGED dma /\ (sim = "dma" => sim' = "dma")
      BY <2>10, Frame
    <3>2. Req.m \in ReqTypes /\ Req' = Req /\ Msg("dmacpl", dma.id).m = "dmacpl"
      BY <3>1 DEF Req, ReqTypes, Msg
    <3>3. /\ NoneOf(net["qemu"]["aux"], ReqTypes) => NoneOf(net'["qemu"]["aux"], ReqTypes)
          /\ OneOf(net["qemu"]["aux"], ReqTypes, Req) => OneOf(net'["qemu"]["aux"], ReqTypes, Req)
          /\ NoneOf(net["sim"]["ctrl"], {"dmacpl"}) => NoneOf(net'["sim"]["ctrl"], {"dmacpl"})
          /\ OneOf(net["sim"]["ctrl"], {"dmacpl"}, Msg("dmacpl", dma.id)) =>
               OneOf(net'["sim"]["ctrl"], {"dmacpl"}, Msg("dmacpl", dma.id))
          /\ net'["sim"]["aux"] = net["sim"]["aux"]
      BY <1>0, <1>2, <2>0, <2>10, <3>2, CallStreams
    <3>4. \/ UNCHANGED <<poller, serving>>
          \/ poller = "look" /\ poller' = "gone" /\ UNCHANGED serving
      BY <3>1 DEF PollerEnds
    <3>5. ReplyTo(dma)' = ReplyTo(dma) /\ Msg("dmacpl", dma.id)' = Msg("dmacpl", dma.id)
      BY <3>1 DEF ReplyTo, Msg
    <3>6. Resting => Resting' BY <3>1, <3>2, <3>3, <3>4 DEF Resting
    <3>7. Serving => Serving' BY <3>1, <3>3, <3>4, <3>5 DEF Serving
    <3>8. Answered => Answered' BY <3>1, <3>3, <3>4, <3>5 DEF Answered
    <3> QED BY <2>1, <3>6, <3>7, <3>8
  <2> QED BY <2>2, <2>3, <2>4, <2>5, <2>6, <2>7, <2>8, <2>9, <2>10
<1> QED BY <1>1, <1>2

LEMMA NextInStep == ASSUME StreamInv, [Next]_vars PROVE StreamsInStep'
<1> SUFFICES ASSUME Aux', ~gaveUp' PROVE garbled' \subseteq {<<"sim", "ctrl">>}
  BY DEF StreamsInStep, Aux
<1>0. /\ StartInv /\ Quiet /\ Sorted /\ StreamsInStep /\ Asks /\ net \in Streams
  BY DEF StreamInv, DmaInv, TcpTypes, NetTypes
<1>1. CASE ~Aux BY <1>0, <1>1, AuxBegins
<1>2. CASE Aux
  <2>0. /\ ~gaveUp /\ garbled \subseteq {<<"sim", "ctrl">>} /\ QAux = "aux" /\ SAux = "aux"
    <3>1. ~gaveUp BY Frame
    <3> QED BY <1>0, <1>2, <3>1, BothAux DEF StreamsInStep, Aux
  <2>1. ASSUME NEW s \in Sides, NEW ch \in Channels, Readable(s, ch)
        PROVE  First(s, ch).m \in Carries(s, ch)
    <3>1. 1 \in 1 .. Len(net[s][ch]) /\ First(s, ch) = net[s][ch][1] BY <1>0, <2>1, HeadOf
    <3> QED BY <1>0, <1>2, <3>1 DEF Sorted, OnlyOf
  <2>2. CASE Claim
    <3>1. Readable("qemu", "data") BY <2>2 DEF Claim
    <3>2. First("qemu", "data").m = "cpl" BY <2>1, <3>1, SideNames DEF Carries
    <3>3. Got("qemu", "data", "cpl") BY <2>0, <3>2 DEF Got
    <3> QED BY <2>0, <2>2, <3>3 DEF Claim
  <2>3. CASE DrainTlp \/ DmaTlp
    <3>1. Readable("sim", "data") BY <2>3 DEF DrainTlp, DmaTlp
    <3>2. First("sim", "data").m = "tlp" BY <2>1, <3>1, SideNames DEF Carries
    <3>3. Got("sim", "data", "tlp") BY <2>0, <3>2 DEF Got
    <3> QED BY <2>0, <2>3, <3>3 DEF DrainTlp, DmaTlp
  <2>4. CASE TakeWrite
    <3>1. Readable("qemu", "aux") /\ First("qemu", "aux").m = "dmareq_w"
      BY <2>0, <2>4 DEF TakeWrite, PollerLooks, Got
    <3>2. 1 \in 1 .. Len(net["qemu"]["aux"]) /\ First("qemu", "aux") = net["qemu"]["aux"][1]
      BY <1>0, <3>1, HeadOf, SideNames
    <3>3. net["qemu"]["aux"][1 + 1].m = "dmadata"
      BY <1>0, <3>1, <3>2, SideNames DEF Asks, AsksIn
    <3>4. net["qemu"]["aux"][2].m = "dmadata" BY <3>3
    <3> QED BY <2>0, <2>4, <3>4 DEF TakeWrite
  <2>5. CASE CtrlTorn BY <2>0, <2>5 DEF CtrlTorn, LoseStep
  <2>6. CASE DmaReply BY <1>2, <2>0, <2>6, ReplyInStep
  <2>7. CASE ~(Claim \/ DrainTlp \/ DmaTlp \/ TakeWrite \/ CtrlTorn \/ DmaReply)
    <3>1. CASE Startup \/ UNCHANGED vars
      BY <2>0, <3>1, StartKeepsRun DEF vars, runVars
    <3>2. CASE Qemu
      BY <2>0, <2>7, <3>2 DEF Qemu, Query, Topology, SendTlp, AnnounceTlp, SendVfEvent,
         ClaimClosed, StopPoller, Destroy
    <3>3. CASE Poller
      BY <2>0, <2>7, <3>3 DEF Poller, TakeRead, TakeMsi, PostDma, AnnounceDma, PollerEnds
    <3>4. CASE Simulator
      BY <2>0, <2>7, <3>4 DEF Simulator, PollCached, DrainVf, DrainQuery, DrainOther, DrainReturn,
         PollEmpty, PollVf, Exit, Complete, Consume, SyncCpl, RaiseMsi, DmaStart, DmaOther,
         DmaFails
    <3> QED BY <3>1, <3>2, <3>3, <3>4 DEF Next
  <2> QED BY <2>2, <2>3, <2>4, <2>5, <2>6, <2>7
<1> QED BY <1>1, <1>2

(* With three connections no receive of either side finds a message of     *)
(* another type, whatever the interleaving of the vCPU, the poller and the *)
(* simulator, for any number of calls: ctrl after two threads wrote it at  *)
(* once and what follows a DMA that was given up excepted.                 *)
THEOREM StreamsStayInStep == Spec => []StreamsInStep
<1>1. ASSUME StreamInv, [Next]_vars PROVE StreamInv'
  <2>1. StartInv' /\ Quiet' BY <1>1, NextStart, NextQuiet DEF StreamInv
  <2>2. DmaInv' BY <1>1, NextTcpTypes, NextWhole, NextResult DEF StreamInv, DmaInv
  <2>3. Sorted' /\ EndLast' BY <1>1, NextSorted, NextEnd
  <2>4. OneCall' /\ StreamsInStep' BY <1>1, NextOneCall, NextInStep
  <2> QED BY <2>1, <2>2, <2>3, <2>4 DEF StreamInv
<1>2. Init => StreamInv
  <2> SUFFICES ASSUME Init PROVE StreamInv
    OBVIOUS
  <2>1. srv # "up" /\ cpu = "query" /\ garbled = {} /\ net["sim"]["ctrl"] = <<>>
    BY SideNames DEF Init
  <2>2. Len(net["sim"]["ctrl"]) = 0 BY <2>1
  <2>3. EndLast BY <2>1, <2>2 DEF EndLast, NoneOf, EndIn
  <2>4. Sorted /\ OneCall /\ StreamsInStep BY <2>1 DEF Sorted, OneCall, Aux, StreamsInStep
  <2> QED BY <2>3, <2>4, InitStart, InitQuiet, InitDma DEF StreamInv
<1>3. StreamInv => StreamsInStep BY DEF StreamInv
<1> QED BY <1>1, <1>2, <1>3, PTL DEF Spec
=============================================================================
