------------------------------ MODULE BridgeTcp ------------------------------
(***************************************************************************)
(* The bridge over TCP (bridge/common/transport_tcp.c and the transport    *)
(* branches of bridge_qemu.c, bridge_vcs.c and irq_poller.c).              *)
(*                                                                         *)
(* Start-up: QEMU, the server, accepts ctrl and data and waits two seconds *)
(* for aux; the simulator, the client, connects them in that order; a      *)
(* handshake on ctrl settles the version and whether both keep aux.        *)
(*                                                                         *)
(* Operation: payloads travel on data and aux, typed notifications on      *)
(* ctrl, each a FIFO of its own, and receivers put them together again.    *)
(* Without aux everything but the notifications shares data.  On QEMU's    *)
(* side the vCPU reads ctrl and data, the poller thread aux, and both      *)
(* write ctrl with no lock in common.  The simulator is one thread.        *)
(***************************************************************************)
EXTENDS Naturals, Sequences, FiniteSets, SequencesExt

CONSTANTS
  Versions,    \* protocol versions the two programs may have: 1 is an old peer
  MaxClients,  \* simulator processes started one after the other
  CacheSlots,  \* usable slots of tlp_cache: TLP_CACHE_SIZE - 1
  WaitLimit,   \* messages a DMA wait looks at: 1000
  TagSpace,    \* tags QEMU uses: tag_mask + 1
  EndpointTags,\* tags that survive the testbench's 8-bit field: 256
  DrainGuard,  \* completions a wait takes off data at most: 256
  FreshTags,   \* QEMU never reuses the tag of a TLP whose completion may come
  DmaOpen,     \* g_initialized: only bridge_vcs_init sets it
  MaxTlps, MaxDmas, MaxMsis, MaxVfEvents, MaxOps \* bounds on what is issued

ASSUME TcpAssumption ==
  /\ Versions \subseteq {1, 2} /\ Versions # {}
  /\ {MaxClients, CacheSlots, WaitLimit} \subseteq Nat \ {0}
  /\ {TagSpace, EndpointTags, DrainGuard} \subseteq Nat \ {0} /\ FreshTags \in BOOLEAN
  /\ {MaxTlps, MaxDmas, MaxMsis, MaxVfEvents, MaxOps} \subseteq Nat
  /\ DmaOpen \in BOOLEAN

Channels == {"ctrl", "data", "aux"}
Sides == {"qemu", "sim"}

VARIABLES
  version,     \* version[side]: TCP_HANDSHAKE_VERSION, and what is agreed
  srv, cli,    \* where the server and the client are in transport_tcp_create
  client,      \* the number of the simulator process
  backlog,     \* connections that arrived on a listening socket
  sock,        \* p->ctrl_fd, data_fd, aux_fd: the client at the other end, or 0
  cliAux,      \* the client's aux_fd >= 0
  offer, reply,\* conn_count in the server's and the client's handshake, or 0
  net,         \* net[side][channel]: what is on its way to that side
  garbled,     \* streams whose reader has lost the message boundaries
  cpu,         \* QEMU's caller: query, topology, idle, announce, wait, joining, down
  tlps,        \* the kinds of the TLPs sent
  drops,       \* 256 - drain_guard: foreign completions this wait has dropped
  ahead,       \* history: completions still to come when the TLP was sent
  answer,      \* the last read that returned, whose completion it got (or 0),
               \* and what ahead was for it
  poller, serving, stop, served, \* the poller thread and the DMA it serves
  msiSeen,
  sim,         \* the simulator: poll, drain, timed, sync, dma, exited
  cache,       \* tlp_cache
  ep,          \* TLPs at the endpoint
  vfPending, vfSeen, vfSent,     \* VF events, by number
  dma, tries, dmaResult, gaveUp, \* the synchronous DMA call
  msiSent

startVars == <<version, srv, cli, client, backlog, sock, cliAux, offer, reply>>
pollerVars == <<poller, serving, served, msiSeen>>
reading == <<drops, ahead, answer>>
qemuVars == <<cpu, tlps, reading, stop, vfSent>>
dmaVars == <<dma, tries, dmaResult, gaveUp>>
simVars == <<sim, cache, ep, vfPending, vfSeen, dmaVars, msiSent>>
runVars == <<net, garbled, qemuVars, pollerVars, simVars>>
vars == <<startVars, runVars>>

Msg(m, i) == [m |-> m, id |-> i]
Types == {"tlp", "cpl", "cplready", "dmareq_r", "dmareq_w", "dmadata", "dmacpl",
          "msi", "vf", "query", "topology", "shutdown"}
Cur == Len(tlps)

(* The bound on what both sides issue together. *)
MayIssue == Cur + dma.id + msiSent + vfSent < MaxOps

NoDma == [id |-> 0, dir |-> "r"]
Dmas == [id : 0 .. MaxDmas, dir : {"r", "w"}]

Init ==
  /\ version \in [Sides -> Versions]
  /\ srv = "ctrl" /\ cli = "ctrl" /\ client = 1
  /\ backlog = [ch \in Channels |-> <<>>] /\ sock = [ch \in Channels |-> 0]
  /\ cliAux = FALSE /\ offer = 0 /\ reply = 0
  /\ net = [s \in Sides |-> [ch \in Channels |-> <<>>]] /\ garbled = {}
  /\ cpu = "query" /\ tlps = <<>> /\ drops = 0 /\ ahead = 0
  /\ answer = [for |-> 0, got |-> 0, behind |-> 0]
  /\ stop = FALSE /\ vfSent = 0
  /\ poller = "look" /\ serving = NoDma /\ served = {} /\ msiSeen = 0
  /\ sim = "poll" /\ cache = <<>> /\ ep = {} /\ vfPending = 0 /\ vfSeen = 0
  /\ dma = NoDma /\ tries = 0 /\ dmaResult = [id |-> 0, got |-> 0, ok |-> FALSE]
  /\ gaveUp = FALSE /\ msiSent = 0
-----------------------------------------------------------------------------
(* Start-up: transport_tcp_create *)

Listening == srv # "failed"

(* tcp_connect_host, tcp_connect_host_once: the kernel accepts on behalf   *)
(* of a listening server.  Only aux may be refused: an old server does not *)
(* listen on it, and an old client does not try.                           *)
Connect(ch, next) ==
  /\ cli = ch /\ Listening
  /\ backlog' = [backlog EXCEPT ![ch] = Append(@, client)]
  /\ cli' = next
  /\ UNCHANGED <<version, srv, client, sock, offer, reply, runVars>>

ConnectCtrl == Connect("ctrl", "data") /\ UNCHANGED cliAux
ConnectData == Connect("data", "aux") /\ UNCHANGED cliAux
ConnectAux ==
  /\ version = [s \in Sides |-> 2]
  /\ Connect("aux", "hello") /\ cliAux' = TRUE
NoAux ==
  /\ cli = "aux" /\ version # [s \in Sides |-> 2]
  /\ cli' = "hello"
  /\ UNCHANGED <<version, srv, client, backlog, sock, cliAux, offer, reply, runVars>>

(* tcp_accept_poll, and the accept of aux within two seconds. *)
Accept(ch, next) ==
  /\ srv = ch /\ backlog[ch] # <<>>
  /\ sock' = [sock EXCEPT ![ch] = Head(backlog[ch])]
  /\ backlog' = [backlog EXCEPT ![ch] = Tail(@)]
  /\ srv' = next
  /\ UNCHANGED <<version, cli, client, cliAux, offer, reply, runVars>>

AcceptCtrl == Accept("ctrl", "data")
AcceptData == Accept("data", "aux")
AcceptAux == Accept("aux", "hello")

(* The two seconds pass: aux may still be connected later. *)
AuxTimesOut ==
  /\ srv = "aux" /\ srv' = "hello"
  /\ UNCHANGED <<version, cli, client, backlog, sock, cliAux, offer, reply, runVars>>

SrvAux == sock["aux"] # 0

(* tcp_do_handshake_server, the offer. *)
Hello ==
  /\ srv = "hello" /\ srv' = "ack"
  /\ offer' = IF SrvAux THEN 3 ELSE 2
  /\ UNCHANGED <<version, cli, client, backlog, sock, cliAux, reply, runVars>>

(* The client reads the offer of the server that has accepted its ctrl. *)
Greeted == cli = "hello" /\ sock["ctrl"] = client /\ offer # 0

Agreed == IF version["qemu"] < version["sim"] THEN version["qemu"] ELSE version["sim"]

CliKeepsAux == cliAux /\ Agreed = 2 /\ offer = 3

(* tcp_do_handshake_client *)
Reply ==
  /\ Greeted
  /\ cli' = "up" /\ reply' = IF CliKeepsAux THEN 3 ELSE 2
  /\ cliAux' = CliKeepsAux
  /\ version' = [version EXCEPT !["sim"] = Agreed]
  /\ UNCHANGED <<srv, client, backlog, sock, offer, runVars>>

(* tcp_do_handshake_server, the answer: keep aux if both advertised it. *)
Settle ==
  /\ srv = "ack" /\ reply # 0
  /\ srv' = "up"
  /\ version' = [version EXCEPT !["qemu"] = version["sim"]]
  /\ sock' = IF version["sim"] < 2 \/ reply < 3 THEN [sock EXCEPT !["aux"] = 0] ELSE sock
  /\ UNCHANGED <<cli, client, backlog, cliAux, offer, reply, runVars>>

SrvGivesUpNot == \* mutant: a failed receive leaves the defaults of version 1
  /\ srv = "ack" /\ sock["ctrl"] # client
  /\ srv' = "up"
  /\ version' = [version EXCEPT !["qemu"] = 1]
  /\ UNCHANGED <<cli, client, backlog, sock, cliAux, offer, reply, runVars>>

(* The client behind ctrl is gone: tcp_recv_hdr fails, all sockets close. *)
SrvGivesUp ==
  /\ srv = "ack" /\ sock["ctrl"] # client
  /\ srv' = "failed"
  /\ UNCHANGED <<version, cli, client, backlog, sock, cliAux, offer, reply, runVars>>

(* A client whose server has closed: refused 30 times, or reset.           *)
CliGivesUp ==
  /\ cli \notin {"up", "failed"} /\ srv = "failed"
  /\ cli' = "failed"
  /\ UNCHANGED <<version, srv, client, backlog, sock, cliAux, offer, reply, runVars>>

(* The simulator is killed while it starts and started again.  Connections *)
(* the dead process made are still accepted.                               *)
Restart ==
  /\ cli \in {"data", "aux", "hello"} /\ client < MaxClients
  /\ client' = client + 1 /\ cli' = "ctrl" /\ cliAux' = FALSE
  /\ UNCHANGED <<version, srv, backlog, sock, offer, reply, runVars>>

Startup ==
  \/ ConnectCtrl \/ ConnectData \/ ConnectAux \/ NoAux
  \/ AcceptCtrl \/ AcceptData \/ AcceptAux \/ AuxTimesOut
  \/ Hello \/ Reply \/ Settle \/ SrvGivesUp \/ CliGivesUp \/ Restart
-----------------------------------------------------------------------------
(* The streams *)

(* aux_or_data_fd: the two sides decide each for itself. *)
AuxOrData(side) ==
  IF (IF side = "qemu" THEN SrvAux ELSE cliAux) THEN "aux" ELSE "data"

SendTo(side, ch, msgs) == [net EXCEPT ![side][ch] = @ \o msgs]

(* The head of the stream is there and has type m. *)
Readable(side, ch) == net[side][ch] # <<>>
First(side, ch) == Head(net[side][ch])
Got(side, ch, m) == <<side, ch>> \notin garbled /\ First(side, ch).m = m

(* A receive that finds another type has read a header already: the reader *)
(* has lost the boundaries and every later receive fails.                  *)
LoseStep(side, ch) == garbled' = garbled \cup {<<side, ch>>}

(* The stream without the first n messages. *)
Taken(side, ch, n) == [net EXCEPT ![side][ch] = SubSeq(@, n + 1, Len(@))]
-----------------------------------------------------------------------------
(* QEMU: bridge_query_topology, sending and waiting *)

Query ==
  /\ srv = "up" /\ cpu = "query"
  /\ net' = SendTo("sim", "ctrl", <<Msg("query", 0)>>)
  /\ cpu' = "topology"
  /\ UNCHANGED <<startVars, garbled, tlps, reading, stop, vfSent, pollerVars, simVars>>

(* The acknowledgement, and the topology that follows it on ctrl. *)
Topology ==
  /\ cpu = "topology" /\ Readable("qemu", "ctrl")
  /\ Got("qemu", "ctrl", "topology")
  /\ net' = Taken("qemu", "ctrl", 1)
  /\ cpu' = "idle"
  /\ UNCHANGED <<startVars, garbled, tlps, reading, stop, vfSent, pollerVars, simVars>>

(* Tags: bridge_send_tlp numbers the TLPs with tag_mask, and the testbench *)
(* brings a completion's tag through an 8-bit field.  A message carries the *)
(* number of its TLP, which stands for the tag.                            *)
Tag(i) == (i - 1) % TagSpace
EndpointTag(i) == Tag(i) % EndpointTags

(* The TLPs of which a completion may still come, and how many they are.   *)
InData(side, m) == {i \in DOMAIN net[side]["data"] : net[side]["data"][i].m = m}
Unclaimed ==
  ep \cup {cache[i] : i \in DOMAIN cache}
     \cup {net["sim"]["data"][i].id : i \in InData("sim", "tlp")}
     \cup {net["qemu"]["data"][i].id : i \in InData("qemu", "cpl")}
Outstanding ==
  Cardinality(ep) + Len(cache)
    + Cardinality(InData("sim", "tlp")) + Cardinality(InData("qemu", "cpl"))

(* bridge_send_tlp: the payload goes first.  FreshTags is an assumption on *)
(* how far QEMU runs ahead of the endpoint, nothing in the code keeps it.  *)
SendTlp(k) ==
  /\ cpu = "idle" /\ MayIssue /\ Cur < MaxTlps
  /\ FreshTags => \A u \in Unclaimed : Tag(u) # Tag(Cur + 1)
  /\ tlps' = Append(tlps, k)
  /\ net' = SendTo("sim", "data", <<Msg("tlp", Cur + 1)>>)
  /\ cpu' = "announce" /\ ahead' = Outstanding
  /\ UNCHANGED <<startVars, garbled, drops, answer, stop, vfSent, pollerVars, simVars>>

Announced == cpu' = IF tlps[Cur] = "read" THEN "wait" ELSE "idle"

AnnounceTlp ==
  /\ cpu = "announce" /\ Announced
  /\ net' = SendTo("sim", "ctrl", <<Msg("tlp", Cur)>>)
  /\ UNCHANGED <<startVars, garbled, tlps, reading, stop, vfSent, pollerVars, simVars>>

(* cosim_pf_config_write, before the configuration write itself is sent. *)
SendVfEvent ==
  /\ cpu = "idle" /\ MayIssue /\ vfSent < MaxVfEvents
  /\ vfSent' = vfSent + 1
  /\ net' = SendTo("sim", "ctrl", <<Msg("vf", vfSent + 1)>>)
  /\ UNCHANGED <<startVars, garbled, cpu, tlps, reading, stop, pollerVars, simVars>>

Answer(got) ==
  /\ cpu' = "idle" /\ drops' = 0
  /\ answer' = [for |-> Cur, got |-> got, behind |-> ahead]
  /\ UNCHANGED <<startVars, tlps, ahead, stop, vfSent, pollerVars, simVars>>

ClaimAny == \* mutant: the tag is not compared
  /\ cpu = "wait" /\ Readable("qemu", "ctrl") /\ Readable("qemu", "data")
  /\ net' = [net EXCEPT !["qemu"]["ctrl"] = Tail(@), !["qemu"]["data"] = Tail(@)]
  /\ IF Got("qemu", "data", "cpl")
     THEN Answer(First("qemu", "data").id) /\ UNCHANGED garbled
     ELSE Answer(0) /\ LoseStep("qemu", "data")

Skip ==
  /\ drops' = drops + 1
  /\ UNCHANGED <<startVars, cpu, tlps, ahead, answer, stop, vfSent, pollerVars, simVars>>

(* bridge_wait_completion: CPL_READY on ctrl, then the completion on data; *)
(* a foreign one is dropped and the wait goes on, until drain_guard is     *)
(* spent.                                                                  *)
Claim ==
  LET i == First("qemu", "data").id IN
  /\ cpu = "wait" /\ Readable("qemu", "ctrl") /\ Readable("qemu", "data")
  /\ net' = [net EXCEPT !["qemu"]["ctrl"] = Tail(@), !["qemu"]["data"] = Tail(@)]
  /\ IF Got("qemu", "data", "cpl")
     THEN /\ UNCHANGED garbled
          /\ IF EndpointTag(i) = Tag(Cur) THEN Answer(i)
             ELSE IF drops + 1 = DrainGuard THEN Answer(0) ELSE Skip
     ELSE Answer(0) /\ LoseStep("qemu", "data")

(* The simulator has closed ctrl. *)
ClaimClosed ==
  /\ cpu = "wait" /\ sim = "exited" /\ ~Readable("qemu", "ctrl")
  /\ Answer(0) /\ UNCHANGED <<net, garbled>>

(* The device is removed: irq_poller_stop, which joins, then               *)
(* bridge_destroy, which announces the end and closes.                     *)
StopPoller ==
  /\ cpu = "idle" /\ cpu' = "joining" /\ stop' = TRUE
  /\ UNCHANGED <<startVars, net, garbled, tlps, reading, vfSent, pollerVars, simVars>>

Destroy ==
  /\ cpu = "joining" /\ poller = "gone" /\ cpu' = "down"
  /\ net' = SendTo("sim", "ctrl", <<Msg("shutdown", 0)>>)
  /\ UNCHANGED <<startVars, garbled, tlps, reading, stop, vfSent, pollerVars, simVars>>

Qemu ==
  \/ Query \/ Topology
  \/ \E k \in {"read", "cfgwr"} : SendTlp(k)
  \/ AnnounceTlp \/ SendVfEvent \/ Claim \/ ClaimClosed \/ StopPoller \/ Destroy
-----------------------------------------------------------------------------
(* QEMU: the poller thread (irq_poller.c, cosim_dma_cb) *)

QAux == AuxOrData("qemu")
PollerLooks == srv = "up" /\ poller = "look" /\ ~stop /\ Readable("qemu", QAux)

(* recv_dma_req_nb, and memory is read. *)
TakeRead ==
  /\ PollerLooks /\ Got("qemu", QAux, "dmareq_r")
  /\ serving' = [id |-> First("qemu", QAux).id, dir |-> "r"]
  /\ served' = served \cup {serving'.id}
  /\ net' = Taken("qemu", QAux, 1) /\ poller' = "post"
  /\ UNCHANGED <<startVars, garbled, qemuVars, msiSeen, simVars>>

(* recv_dma_req_nb, then recv_dma_data for what the request writes. *)
TakeWrite ==
  /\ PollerLooks /\ Got("qemu", QAux, "dmareq_w") /\ Len(net["qemu"][QAux]) > 1
  /\ serving' = [id |-> First("qemu", QAux).id, dir |-> "w"]
  /\ net' = Taken("qemu", QAux, 2) /\ poller' = "post"
  /\ IF net["qemu"][QAux][2].m = "dmadata"
     THEN served' = served \cup {serving'.id} /\ UNCHANGED garbled
     ELSE LoseStep("qemu", QAux) /\ UNCHANGED served
  /\ UNCHANGED <<startVars, qemuVars, msiSeen, simVars>>

TakeMsiPeeked == \* mutant: the message is looked at and not consumed
  /\ PollerLooks /\ Got("qemu", QAux, "msi")
  /\ msiSeen' = msiSeen + 1
  /\ UNCHANGED <<startVars, net, garbled, qemuVars, poller, serving, served, simVars>>

(* recv_msi_nb.  Any other type at the head is left where it is. *)
TakeMsi ==
  /\ PollerLooks /\ Got("qemu", QAux, "msi")
  /\ msiSeen' = msiSeen + 1
  /\ net' = Taken("qemu", QAux, 1)
  /\ UNCHANGED <<startVars, garbled, qemuVars, poller, serving, served, simVars>>

ReplyDataLast(d) == \* mutant: the completion is sent before the data
  IF d.dir = "r" THEN <<Msg("dmacpl", d.id), Msg("dmadata", d.id)>>
  ELSE <<Msg("dmacpl", d.id)>>

ReplyTo(d) ==
  IF d.dir = "r" THEN <<Msg("dmadata", d.id), Msg("dmacpl", d.id)>>
  ELSE <<Msg("dmacpl", d.id)>>

(* bridge_complete_dma, bridge_complete_dma_with_data *)
PostDma ==
  /\ poller = "post" /\ poller' = "announce"
  /\ net' = SendTo("sim", QAux, ReplyTo(serving))
  /\ UNCHANGED <<startVars, garbled, qemuVars, serving, served, msiSeen, simVars>>

AnnounceDma ==
  /\ poller = "announce" /\ poller' = "look"
  /\ net' = SendTo("sim", "ctrl", <<Msg("dmacpl", serving.id)>>)
  /\ UNCHANGED <<startVars, garbled, qemuVars, serving, served, msiSeen, simVars>>

(* tcp_send_msg sends header and payload apart: when both threads are in   *)
(* send_sync, what the simulator reads on ctrl is not two messages.        *)
CtrlTorn ==
  /\ poller = "announce" /\ poller' = "look"
  /\ cpu = "announce" /\ Announced
  /\ LoseStep("sim", "ctrl")
  /\ net' = SendTo("sim", "ctrl", <<Msg("tlp", Cur), Msg("dmacpl", serving.id)>>)
  /\ UNCHANGED <<startVars, tlps, reading, stop, vfSent, serving, served, msiSeen, simVars>>

PollerEnds ==
  /\ poller = "look" /\ stop /\ poller' = "gone"
  /\ UNCHANGED <<startVars, net, garbled, qemuVars, serving, served, msiSeen, simVars>>

Poller ==
  \/ TakeRead \/ TakeWrite \/ TakeMsi \/ PostDma \/ AnnounceDma \/ CtrlTorn \/ PollerEnds
-----------------------------------------------------------------------------
(* The simulator: poll_tlp and the testbench around it *)

SAux == AuxOrData("sim")
SimUp == cli = "up" /\ sim # "exited"

(* tlp_cache_push_ctx: a full cache drops the TLP. *)
Cached(i) == IF Len(cache) < CacheSlots THEN Append(cache, i) ELSE cache

(* cosim_rc_driver hands a TLP to the endpoint; a write is not completed.  *)
Deliver(i) == ep' = ep \cup {i}

(* Phase 1: what a DMA wait or an earlier drain has cached. *)
PollCached ==
  /\ SimUp /\ sim = "poll" /\ cache # <<>>
  /\ Deliver(Head(cache)) /\ cache' = Tail(cache)
  /\ UNCHANGED <<startVars, net, garbled, qemuVars, pollerVars, sim,
                 vfPending, vfSeen, vfSent, dmaVars, msiSent>>

ReadTlp == \* recv_tlp, after TLP_READY: ctrl and data both move on
  net' = [net EXCEPT !["sim"]["ctrl"] = Tail(@), !["sim"]["data"] = Tail(@)]

Broken == <<"sim", "ctrl">> \in garbled
Draining == SimUp /\ (sim = "drain" \/ (sim = "poll" /\ cache = <<>>))
Ctrl(m) == Readable("sim", "ctrl") /\ Got("sim", "ctrl", m)

(* Phase 2: TLP_READY and its TLP. *)
DrainTlp ==
  /\ Draining /\ Ctrl("tlp") /\ Readable("sim", "data")
  /\ sim' = "drain" /\ ReadTlp
  /\ IF Got("sim", "data", "tlp")
     THEN cache' = Cached(First("sim", "data").id) /\ UNCHANGED garbled
     ELSE LoseStep("sim", "data") /\ UNCHANGED cache
  /\ UNCHANGED <<startVars, qemuVars, pollerVars, ep, vfPending, vfSeen, dmaVars, msiSent>>

(* A VF event takes the one slot, whatever is in it. *)
DrainVf ==
  /\ Draining /\ Ctrl("vf")
  /\ sim' = "drain" /\ vfPending' = First("sim", "ctrl").id
  /\ net' = Taken("sim", "ctrl", 1)
  /\ UNCHANGED <<startVars, garbled, qemuVars, pollerVars, cache, ep, vfSeen, dmaVars, msiSent>>

(* handle_topology_query_ctx: both messages on ctrl. *)
DrainQuery ==
  /\ Draining /\ Ctrl("query")
  /\ sim' = "drain"
  /\ net' = [Taken("sim", "ctrl", 1) EXCEPT !["qemu"]["ctrl"] = Append(@, Msg("topology", 0))]
  /\ UNCHANGED <<startVars, garbled, qemuVars, pollerVars, cache, ep, vfPending,
                 vfSeen, dmaVars, msiSent>>

(* Any other message in a poll is discarded: a late DMA_CPL, for one.      *)
DrainOther ==
  /\ Draining /\ Ctrl("dmacpl")
  /\ sim' = "drain" /\ net' = Taken("sim", "ctrl", 1)
  /\ UNCHANGED <<startVars, garbled, qemuVars, pollerVars, cache, ep, vfPending,
                 vfSeen, dmaVars, msiSent>>

(* Phase 3: ctrl is empty and something is cached. *)
DrainReturn ==
  /\ SimUp /\ sim = "drain" /\ ~Readable("sim", "ctrl") /\ cache # <<>>
  /\ sim' = "poll" /\ Deliver(Head(cache)) /\ cache' = Tail(cache)
  /\ UNCHANGED <<startVars, net, garbled, qemuVars, pollerVars, vfPending,
                 vfSeen, dmaVars, msiSent>>

(* Phase 4 ends without a TLP, by its time-out or with a message that is   *)
(* none: the driver asks for a VF event and polls again.                   *)
SeeVf == vfSeen' = (IF vfPending = 0 THEN vfSeen ELSE vfPending) /\ vfPending' = 0

PollEmpty ==
  /\ Draining /\ ~Readable("sim", "ctrl") /\ cache = <<>> /\ cpu # "down"
  /\ sim' = "poll" /\ SeeVf
  /\ UNCHANGED <<startVars, net, garbled, qemuVars, pollerVars, cache, ep, dmaVars, msiSent>>

(* Phase 4 gets a VF event while it waits. *)
PollVf ==
  /\ SimUp /\ sim = "poll" /\ cache = <<>> /\ Ctrl("vf")
  /\ vfSeen' = First("sim", "ctrl").id /\ vfPending' = 0
  /\ net' = Taken("sim", "ctrl", 1)
  /\ UNCHANGED <<startVars, garbled, qemuVars, pollerVars, sim, cache, ep, dmaVars, msiSent>>

(* SHUTDOWN, a closed socket or a broken stream: -1, the testbench ends.   *)
Exit ==
  /\ Draining
  /\ \/ Ctrl("shutdown")
     \/ ~Readable("sim", "ctrl") /\ cpu = "down"
     \/ Broken
  /\ sim' = "exited"
  /\ UNCHANGED <<startVars, net, garbled, qemuVars, pollerVars, cache, ep,
                 vfPending, vfSeen, dmaVars, msiSent>>

(* send_completion_ctx: the completion, then CPL_READY.  The bypass        *)
(* answers reads only, the endpoint stub configuration writes as well.     *)
Complete(i) ==
  /\ SimUp /\ sim = "poll" /\ i \in ep
  /\ ep' = ep \ {i} /\ sim' = "sync"
  /\ net' = SendTo("qemu", "data", <<Msg("cpl", i)>>)
  /\ UNCHANGED <<startVars, garbled, qemuVars, pollerVars, cache, vfPending,
                 vfSeen, dmaVars, msiSent>>

Consume(i) ==
  /\ SimUp /\ sim = "poll" /\ i \in ep /\ tlps[i] = "cfgwr"
  /\ ep' = ep \ {i}
  /\ UNCHANGED <<startVars, net, garbled, qemuVars, pollerVars, sim, cache,
                 vfPending, vfSeen, dmaVars, msiSent>>

SyncCpl ==
  /\ SimUp /\ sim = "sync" /\ sim' = "poll"
  /\ net' = SendTo("qemu", "ctrl", <<Msg("cplready", 0)>>)
  /\ UNCHANGED <<startVars, garbled, qemuVars, pollerVars, cache, ep, vfPending,
                 vfSeen, dmaVars, msiSent>>

(* The device is active once the guest has programmed it. *)
Active == SimUp /\ sim = "poll" /\ cpu \notin {"query", "topology"}

(* bridge_vcs_raise_msi *)
RaiseMsi ==
  /\ Active /\ MayIssue /\ msiSent < MaxMsis
  /\ msiSent' = msiSent + 1
  /\ net' = SendTo("qemu", SAux, <<Msg("msi", msiSent + 1)>>)
  /\ UNCHANGED <<startVars, garbled, qemuVars, pollerVars, sim, cache, ep,
                 vfPending, vfSeen, dmaVars>>
-----------------------------------------------------------------------------
(* The simulator: bridge_dma_read_bytes and bridge_dma_write_bytes *)

RequestDataFirst(d) == \* mutant: as bridge_vcs_dma_request does
  IF d.dir = "r" THEN <<Msg("dmareq_r", d.id)>>
  ELSE <<Msg("dmadata", d.id), Msg("dmareq_w", d.id)>>

Request(d) ==
  IF d.dir = "r" THEN <<Msg("dmareq_r", d.id)>>
  ELSE <<Msg("dmareq_w", d.id), Msg("dmadata", d.id)>>

DmaStart(dir) ==
  /\ Active /\ MayIssue /\ DmaOpen /\ dma.id < MaxDmas
  /\ dma' = [id |-> dma.id + 1, dir |-> dir]
  /\ tries' = 0 /\ sim' = "dma"
  /\ net' = SendTo("qemu", SAux, Request(dma'))
  /\ UNCHANGED <<startVars, garbled, qemuVars, pollerVars, cache, ep, vfPending,
                 vfSeen, dmaResult, gaveUp, msiSent>>

DmaEnds(ok, got) ==
  sim' = "poll" /\ dmaResult' = [id |-> dma.id, got |-> got, ok |-> ok]

(* One more message looked at; the last one ends the wait.                 *)
DmaGoesOn ==
  /\ tries' = tries + 1
  /\ IF tries' = WaitLimit THEN DmaEnds(FALSE, 0) /\ gaveUp' = TRUE
     ELSE UNCHANGED <<sim, dmaResult, gaveUp>>

DmaWait == SimUp /\ sim = "dma"
DmaOthers == <<startVars, qemuVars, pollerVars, ep, vfPending, vfSeen, dma, msiSent>>

DmaTlpLater == \* mutant: TLP_READY is taken and its TLP left on data
  /\ DmaWait /\ Ctrl("tlp")
  /\ net' = Taken("sim", "ctrl", 1) /\ DmaGoesOn
  /\ UNCHANGED <<DmaOthers, garbled, cache>>

(* TLP_READY: the TLP is received at once and cached. *)
DmaTlp ==
  /\ DmaWait /\ Ctrl("tlp") /\ Readable("sim", "data")
  /\ ReadTlp /\ DmaGoesOn
  /\ IF Got("sim", "data", "tlp")
     THEN cache' = Cached(First("sim", "data").id) /\ UNCHANGED garbled
     ELSE LoseStep("sim", "data") /\ UNCHANGED cache
  /\ UNCHANGED DmaOthers

(* A message the wait does not know: a VF event is dropped here too. *)
DmaOther ==
  /\ DmaWait /\ Ctrl("vf")
  /\ net' = Taken("sim", "ctrl", 1) /\ DmaGoesOn
  /\ UNCHANGED <<DmaOthers, garbled, cache>>

(* SHUTDOWN, a closed socket or a broken stream. *)
DmaFails ==
  /\ DmaWait
  /\ \/ Ctrl("shutdown")
     \/ ~Readable("sim", "ctrl") /\ cpu = "down"
     \/ Broken
  /\ DmaEnds(FALSE, 0)
  /\ net' = IF Readable("sim", "ctrl") THEN Taken("sim", "ctrl", 1) ELSE net
  /\ UNCHANGED <<DmaOthers, garbled, cache, tries, gaveUp>>

NeedsReply == \* what a reply consists of
  IF dma.dir = "r" THEN <<"dmadata", "dmacpl">> ELSE <<"dmacpl">>

InStep(q) == \A k \in 1 .. Len(NeedsReply) : q[k].m = NeedsReply[k]

DmaReplyUnchecked == \* mutant: the tag of the completion is not compared
  /\ DmaWait /\ Ctrl("dmacpl") /\ Len(net["sim"][SAux]) >= Len(NeedsReply)
  /\ net' = [net EXCEPT !["sim"]["ctrl"] = Tail(@),
                        !["sim"][SAux] = SubSeq(@, Len(NeedsReply) + 1, Len(@))]
  /\ DmaEnds(TRUE, First("sim", SAux).id)
  /\ UNCHANGED <<DmaOthers, garbled, cache, tries, gaveUp>>

(* DMA_CPL, with what belongs to it on aux.  The reply to a call that was  *)
(* given up is dropped by a read, and fails a write.                       *)
DmaReply ==
  LET q == net["sim"][SAux] IN
  /\ DmaWait /\ Ctrl("dmacpl") /\ Len(q) >= Len(NeedsReply)
  /\ IF <<"sim", SAux>> \notin garbled /\ InStep(q)
     THEN /\ net' = [net EXCEPT !["sim"]["ctrl"] = Tail(@),
                                !["sim"][SAux] = SubSeq(@, Len(NeedsReply) + 1, Len(@))]
          /\ UNCHANGED garbled
          /\ IF q[Len(NeedsReply)].id = dma.id
             THEN DmaEnds(TRUE, q[1].id) /\ UNCHANGED <<tries, gaveUp>>
             ELSE IF dma.dir = "r" THEN DmaGoesOn
             ELSE DmaEnds(FALSE, 0) /\ UNCHANGED <<tries, gaveUp>>
     ELSE /\ LoseStep("sim", SAux)
          /\ net' = Taken("sim", "ctrl", 1)
          /\ DmaEnds(FALSE, 0) /\ UNCHANGED <<tries, gaveUp>>
  /\ UNCHANGED <<DmaOthers, cache>>

Simulator ==
  \/ PollCached \/ DrainTlp \/ DrainVf \/ DrainQuery \/ DrainOther \/ DrainReturn
  \/ PollEmpty \/ PollVf \/ Exit
  \/ (\E i \in ep : Complete(i) \/ Consume(i))
  \/ SyncCpl \/ RaiseMsi
  \/ (\E dir \in {"r", "w"} : DmaStart(dir))
  \/ DmaTlp \/ DmaOther \/ DmaFails \/ DmaReply

Next == Startup \/ Qemu \/ Poller \/ Simulator

(* Both programs run their threads; the driver's poll loop and the         *)
(* endpoint take turns, so a TLP at the endpoint is completed.  Nothing    *)
(* obliges the guest to send or the device to start a DMA.                 *)
Polling ==
  PollCached \/ DrainTlp \/ DrainVf \/ DrainQuery \/ DrainOther \/ DrainReturn
  \/ PollEmpty \/ Exit
Fairness ==
  /\ WF_vars(AnnounceTlp \/ Claim \/ ClaimClosed)
  /\ WF_vars(Poller)
  /\ WF_vars(Polling) /\ WF_vars(SyncCpl)
  /\ SF_vars(\E i \in ep : Complete(i) \/ Consume(i))
  /\ WF_vars(DmaTlp \/ DmaOther \/ DmaFails \/ DmaReply)

Spec == Init /\ [][Next]_vars
FairSpec == Spec /\ Fairness
-----------------------------------------------------------------------------
TypeOK ==
  /\ version \in [Sides -> {1, 2}]
  /\ srv \in Channels \cup {"hello", "ack", "up", "failed"}
  /\ cli \in Channels \cup {"hello", "up", "failed"}
  /\ client \in 1 .. MaxClients /\ sock \in [Channels -> 0 .. MaxClients]
  /\ \A ch \in Channels : Range(backlog[ch]) \subseteq 1 .. MaxClients
  /\ cliAux \in BOOLEAN /\ offer \in {0, 2, 3} /\ reply \in {0, 2, 3}
  /\ \A s \in Sides, ch \in Channels : \A i \in DOMAIN net[s][ch] :
       net[s][ch][i].m \in Types
  /\ garbled \subseteq Sides \X Channels
  /\ cpu \in {"query", "topology", "idle", "announce", "wait", "joining", "down"}
  /\ Len(tlps) <= MaxTlps /\ drops \in 0 .. DrainGuard - 1 /\ ahead \in Nat
  /\ answer \in [for : 0 .. MaxTlps, got : 0 .. MaxTlps, behind : Nat]
  /\ poller \in {"look", "post", "announce", "gone"}
  /\ serving \in Dmas /\ dma \in Dmas /\ served \subseteq 1 .. MaxDmas
  /\ sim \in {"poll", "drain", "sync", "dma", "exited"}
  /\ Len(cache) <= CacheSlots /\ ep \subseteq 1 .. MaxTlps
  /\ {vfPending, vfSeen, vfSent} \subseteq 0 .. MaxVfEvents
  /\ tries \in 0 .. WaitLimit /\ msiSeen <= msiSent /\ msiSent <= MaxMsis
  /\ dmaResult \in [id : 0 .. MaxDmas, got : 0 .. MaxDmas, ok : BOOLEAN]

(* When both programs are ready they agree on the version and on whether   *)
(* aux is used, whichever of them is old and whoever lost the two-second   *)
(* race for aux: otherwise one would wait on a stream the other never uses.*)
(* And the server never pairs connections of two simulator processes: with *)
(* ctrl of one and data of another, notifications announce nothing.        *)
ConnectionsAgreed ==
  srv = "up" =>
    /\ cli = "up" => SrvAux = cliAux /\ version["qemu"] = version["sim"]
    /\ \A ch \in Channels : sock[ch] \in {0, client}

(* With three connections the receivers put the streams together right: no *)
(* receive ever finds a message of another type, the ctrl stream after two *)
(* threads wrote it at once and what follows a given-up DMA excepted.      *)
StreamsInStep ==
  srv = "up" /\ SrvAux /\ ~gaveUp => garbled \subseteq {<<"sim", "ctrl">>}

(* A DMA that reports success was served, its completion is its own and    *)
(* the data of a read is that of this read, also after others gave up.     *)
DmaResultReal ==
  dmaResult.ok => dmaResult.id \in served /\ dmaResult.got = dmaResult.id

(* A read that is answered gets its own completion.  It fails only when a  *)
(* stream is broken, the simulator has gone, or as many completions as a   *)
(* wait takes off data were still to come when it was sent: a guest that   *)
(* never waits for its posted configuration writes must not make the next  *)
(* read fail before.                                                       *)
ReadsMatch ==
  answer.for # 0 =>
    answer.got = answer.for
    \/ (answer.got = 0 /\ (garbled # {} \/ sim = "exited" \/ answer.behind >= DrainGuard))

(* A read returns, while the simulator may be waiting for its own DMA.     *)
(* After a DMA wait that gave up, the next DMA read may wait for ever; and *)
(* a read may when as many TLPs are before it as tlp_cache holds, for a    *)
(* full cache drops what arrives.                                          *)
ReadsReturn ==
  cpu = "wait" ~> cpu # "wait" \/ garbled # {} \/ gaveUp \/ ahead >= CacheSlots

(* Every interrupt the device raises reaches QEMU: nothing stays at the    *)
(* head of aux that the poller would not take.  Without aux the completion *)
(* of a write nobody waits for does stay there, in front of interrupts.    *)
InterruptsArrive ==
  SrvAux /\ msiSeen # msiSent ~> msiSeen = msiSent \/ stop \/ garbled # {}
=============================================================================
