------------------------------ MODULE BridgeShm ------------------------------
(***************************************************************************)
(* The bridge in shared-memory mode: QEMU's vCPU side (bridge_send_tlp,    *)
(* bridge_wait_completion), QEMU's irq poller thread that serves DMA, and  *)
(* the simulator, one thread that polls for TLPs, lets the endpoint answer *)
(* them and blocks inside synchronous DMA calls.                           *)
(*                                                                         *)
(* Payloads travel through rings (FIFOs: see RingBuffer and BoundedFifo);  *)
(* one socket carries the typed notifications, toVcs towards the simulator *)
(* and toQemu back.  Enqueue and notification are two steps, because the   *)
(* other side runs between them.  vCPU calls are serialised by QEMU's big  *)
(* lock and by tlp_mutex, so there is one caller at a time.                *)
(***************************************************************************)
EXTENDS Naturals, Sequences, FiniteSets, SequencesExt

CONSTANTS
  ReqSlots, CplSlots, DmaSlots, \* usable capacities of the rings
  TagSpace,      \* tag_mask + 1: 1024 in the code
  EndpointTags,  \* tags the endpoint distinguishes when it answers
  DrainGuard,    \* completions bridge_wait_completion looks at: 256
  WaitLimit,     \* iterations of a DMA wait: 1000
  DmaCalls,      \* the synchronous DMA calls: {2, 3, 5, 6} in the code, the
                 \* multiples of TagGap their tag counters start at
  TagGap,        \* 1000
  MaxTlps, MaxDmas, MaxVfEvents, \* bounds on what is issued of each sort
  MaxIssued,     \* and of all sorts together
  FreshTags,     \* TRUE: no tag is reused while its completion is pending
  SimMayDie      \* TRUE: the simulator process may be killed

ASSUME BridgeAssumption ==
  /\ {ReqSlots, CplSlots, DmaSlots, TagSpace, EndpointTags,
      DrainGuard, WaitLimit, TagGap} \subseteq Nat \ {0}
  /\ {MaxTlps, MaxDmas, MaxVfEvents, MaxIssued} \cup DmaCalls \subseteq Nat
  /\ {FreshTags, SimMayDie} \subseteq BOOLEAN

VARIABLES
  cpu,      \* the caller: idle, notify, wait, joining (exit), down
  cur,      \* its TLP
  drops,    \* completions this wait has discarded
  nextTlp,  \* number of the next TLP; its tag is that modulo TagSpace
  answer,   \* outcome of the last read: its number, whose completion it got
  ahead,    \* history: unclaimed completions there were when cur was sent
  reqRing, cplRing, dmaReqRing, dmaCplRing,
  toVcs, toQemu,
  poller,   \* the poller thread: check, drain, copy, post, notify, gone
  serving,  \* the DMA request it serves
  stop,     \* poller->stop
  copied,   \* DMA requests whose data has moved
  sim,      \* the simulator: poll, announce, dma, exited
  pendingReady, \* pending_tlp_ready
  ep,       \* TLPs the endpoint still has to complete
  nextDma,  \* number of the next DMA call
  nextTag,  \* the static tag counter of each kind of call
  dmaTags,  \* history: the tag of each call so far
  tries,    \* iterations of the DMA wait
  gaveUp,   \* some DMA wait ended without a reply
  dmaResult,\* outcome of the last DMA call: its number, what it returned
  vfSent, vfSeen \* VF events sent and handed to the testbench

qemuVars == <<cpu, cur, drops, nextTlp, answer, ahead>>
pollerVars == <<poller, serving, copied>>
dmaTagVars == <<nextDma, nextTag, dmaTags>>
dmaVars == <<dmaTagVars, tries, gaveUp, dmaResult>>
simVars == <<sim, pendingReady, ep, vfSeen, dmaVars>>
rings == <<reqRing, cplRing, dmaReqRing, dmaCplRing>>
vars == <<qemuVars, pollerVars, simVars, rings, toVcs, toQemu, stop, vfSent>>

Kinds == {"read", "cfgwr", "memwr"}
Tlps == [id : 0 .. MaxTlps, kind : Kinds]
Outcomes == {"answered", "full", "closed", "drained", "empty"}
Messages == {"tlp", "dmacpl", "vf", "shutdown"}

(* A configuration write is non-posted: the endpoint completes it although *)
(* its caller never waits.  A memory write is posted.                      *)
NonPosted(r) == r.kind \in {"read", "cfgwr"}

Tag(i) == i % TagSpace

EndpointTagNext(i) == Tag(i + 1) % EndpointTags \* mutant: read after the increment

(* vcs-tb carries tags as [7:0]: the endpoint answers with what is left.   *)
EndpointTag(i) == Tag(i) % EndpointTags

(* A DMA call takes its tag from the counter of its kind, which is never   *)
(* reset.  The rings carry the numbers of the calls; dmaTags has the tags. *)
FirstTag(k) == k * TagGap

(* Two counters have run into one another: a tag has been used twice. *)
RangesMet ==
  \E j, k \in DmaCalls : \E t \in FirstTag(j) .. nextTag[j] - 1 :
    j # k /\ t \in FirstTag(k) .. nextTag[k] - 1

(* TLPs, DMA calls and VF events issued so far. *)
Issued == nextTlp + (nextDma - 1) + vfSent

(* Completions that were or will be produced and that no one has claimed.  *)
Unclaimed ==
  ep \cup {r \in Range(reqRing) : NonPosted(r)}
     \cup {[id |-> c.of, kind |-> "cfgwr"] : c \in Range(cplRing)}

QemuUp == cpu # "down"
SimUp == sim # "exited"

(* A read that returns completion i, or -1 and why. *)
Answered(i) == [for |-> cur.id, how |-> "answered", got |-> i, behind |-> ahead]

Fails(i, why) == [for |-> i, how |-> why, got |-> i, behind |-> ahead]

(* A socket whose peer has closed refuses the message. *)
Notify(channel, msg, peerUp) == IF peerUp THEN Append(channel, msg) ELSE channel
-----------------------------------------------------------------------------
Init ==
  /\ cpu = "idle" /\ cur = [id |-> 0, kind |-> "memwr"] /\ drops = 0
  /\ nextTlp = 0 /\ ahead = 0
  /\ answer = Fails(0, "full")
  /\ reqRing = <<>> /\ cplRing = <<>> /\ dmaReqRing = <<>> /\ dmaCplRing = <<>>
  /\ toVcs = <<>> /\ toQemu = <<>>
  /\ poller = "check" /\ serving = 0 /\ stop = FALSE /\ copied = {}
  /\ sim = "poll" /\ pendingReady = 0 /\ ep = {}
  /\ nextDma = 1 /\ nextTag = [k \in DmaCalls |-> FirstTag(k)] /\ dmaTags = <<>>
  /\ tries = 0 /\ gaveUp = FALSE /\ dmaResult = [call |-> 0, ok |-> FALSE]
  /\ vfSent = 0 /\ vfSeen = 0
-----------------------------------------------------------------------------
(* QEMU: the caller *)

ReqRoomUnchecked == TRUE \* mutant: the result of the enqueue is ignored

(* ring_buf_enqueue finds a free slot in req_ring. *)
ReqRoom == Len(reqRing) < ReqSlots

(* bridge_send_tlp up to the enqueue.  The tag is consumed even when the   *)
(* ring is full and the call returns -1.                                   *)
SendTlp(k) ==
  LET r == [id |-> nextTlp, kind |-> k] IN
  /\ cpu = "idle" /\ nextTlp <= MaxTlps /\ Issued < MaxIssued
  /\ FreshTags => \A u \in Unclaimed : Tag(u.id) # Tag(nextTlp)
  /\ nextTlp' = nextTlp + 1
  /\ IF ReqRoom
     THEN /\ reqRing' = Append(reqRing, r)
          /\ cpu' = "notify" /\ cur' = r /\ ahead' = Cardinality(Unclaimed)
          /\ UNCHANGED answer
     ELSE /\ answer' = IF k = "read" THEN Fails(nextTlp, "full")
                       ELSE answer
          /\ UNCHANGED <<reqRing, cpu, cur, ahead>>
  /\ UNCHANGED <<drops, pollerVars, simVars, cplRing, dmaReqRing, dmaCplRing,
                 toVcs, toQemu, stop, vfSent>>

(* The TLP_READY notification; bridge_send_tlp_and_wait goes on to wait,   *)
(* bridge_send_tlp_fire returns.                                           *)
NotifyTlp ==
  /\ cpu = "notify"
  /\ toVcs' = Notify(toVcs, "tlp", SimUp)
  /\ IF cur.kind = "read" /\ SimUp
     THEN cpu' = "wait" /\ drops' = 0 /\ UNCHANGED answer
     ELSE /\ cpu' = "idle" /\ UNCHANGED drops
          /\ answer' = IF cur.kind = "read" THEN Fails(cur.id, "closed")
                       ELSE answer
  /\ UNCHANGED <<cur, ahead, nextTlp, pollerVars, simVars, rings, toQemu, stop,
                 vfSent>>

ClaimAny(t, i) == \* mutant: the first completion is taken, whatever its tag
  /\ answer' = Answered(i)
  /\ cpu' = "idle" /\ UNCHANGED drops

(* What bridge_wait_completion does with a completion of tag t of TLP i.   *)
Claim(t, i) ==
  /\ IF t = Tag(cur.id)
     THEN /\ answer' = Answered(i)
          /\ cpu' = "idle" /\ UNCHANGED drops
     ELSE /\ drops' = drops + 1
          /\ IF drops + 1 = DrainGuard
             THEN answer' = Fails(cur.id, "drained") /\ cpu' = "idle"
             ELSE UNCHANGED <<answer, cpu>>

(* One iteration of the drain loop: a CPL_READY, then one completion. *)
WaitCompletion ==
  /\ cpu = "wait" /\ toQemu # <<>>
  /\ toQemu' = Tail(toQemu)
  /\ IF cplRing = <<>>
     THEN /\ answer' = Fails(cur.id, "empty")
          /\ cpu' = "idle"
          /\ UNCHANGED <<drops, cplRing>>
     ELSE /\ Claim(Head(cplRing).tag, Head(cplRing).of)
          /\ cplRing' = Tail(cplRing)
  /\ UNCHANGED <<cur, ahead, nextTlp, pollerVars, simVars, reqRing, dmaReqRing,
                 dmaCplRing, toVcs, stop, vfSent>>

(* The simulator is gone: the blocking read of the socket fails. *)
WaitClosed ==
  /\ cpu = "wait" /\ toQemu = <<>> /\ ~SimUp
  /\ answer' = Fails(cur.id, "closed")
  /\ cpu' = "idle"
  /\ UNCHANGED <<cur, ahead, drops, nextTlp, pollerVars, simVars, rings, toVcs,
                 toQemu, stop, vfSent>>

(* bridge_send_vf_event: the socket only. *)
SendVfEvent ==
  /\ cpu = "idle" /\ vfSent < MaxVfEvents /\ Issued < MaxIssued
  /\ vfSent' = vfSent + 1
  /\ toVcs' = Notify(toVcs, "vf", SimUp)
  /\ UNCHANGED <<qemuVars, pollerVars, simVars, rings, toQemu, stop>>

(* cosim_pcie_rc_exit: stop the poller, join it, then bridge_destroy.      *)
StopPoller ==
  /\ cpu = "idle"
  /\ stop' = TRUE /\ cpu' = "joining"
  /\ UNCHANGED <<cur, ahead, drops, nextTlp, answer, pollerVars, simVars, rings,
                 toVcs, toQemu, vfSent>>

DestroyUnjoined == \* mutant: the poller is told to stop but not joined
  /\ cpu = "joining"
  /\ toVcs' = Notify(toVcs, "shutdown", SimUp)
  /\ cpu' = "down"
  /\ UNCHANGED <<cur, ahead, drops, nextTlp, answer, pollerVars, simVars, rings,
                 toQemu, stop, vfSent>>

Destroy ==
  /\ cpu = "joining" /\ poller = "gone"
  /\ toVcs' = Notify(toVcs, "shutdown", SimUp)
  /\ cpu' = "down"
  /\ UNCHANGED <<cur, ahead, drops, nextTlp, answer, pollerVars, simVars, rings,
                 toQemu, stop, vfSent>>
-----------------------------------------------------------------------------
(* QEMU: the irq poller thread *)

pollerIdles == <<qemuVars, simVars, reqRing, cplRing, toQemu, stop, vfSent>>

(* while (!stop): the flag is only read between two drains of the ring. *)
PollerCheck ==
  /\ poller = "check"
  /\ poller' = IF stop THEN "gone" ELSE "drain"
  /\ UNCHANGED <<pollerIdles, serving, copied, dmaReqRing, dmaCplRing, toVcs>>

PollerTake ==
  /\ poller = "drain"
  /\ IF dmaReqRing = <<>>
     THEN poller' = "check" /\ UNCHANGED <<serving, dmaReqRing>>
     ELSE /\ poller' = "copy" /\ serving' = Head(dmaReqRing)
          /\ dmaReqRing' = Tail(dmaReqRing)
  /\ UNCHANGED <<pollerIdles, copied, dmaCplRing, toVcs>>

(* cosim_dma_cb moves the data between guest memory and dma_buf. *)
PollerCopy ==
  /\ poller = "copy"
  /\ poller' = "post" /\ copied' = copied \cup {serving}
  /\ UNCHANGED <<pollerIdles, serving, dmaReqRing, dmaCplRing, toVcs>>

(* bridge_complete_dma up to the enqueue; a full ring loses the reply. *)
PollerPost ==
  /\ poller = "post"
  /\ IF Len(dmaCplRing) < DmaSlots
     THEN dmaCplRing' = Append(dmaCplRing, serving) /\ poller' = "notify"
     ELSE poller' = "drain" /\ UNCHANGED dmaCplRing
  /\ UNCHANGED <<pollerIdles, serving, copied, dmaReqRing, toVcs>>

PollerNotify ==
  /\ poller = "notify"
  /\ toVcs' = Notify(toVcs, "dmacpl", SimUp)
  /\ poller' = "drain"
  /\ UNCHANGED <<pollerIdles, serving, copied, dmaReqRing, dmaCplRing>>

Poller == PollerCheck \/ PollerTake \/ PollerCopy \/ PollerPost \/ PollerNotify
-----------------------------------------------------------------------------
(* The simulator *)

simIdles == <<qemuVars, pollerVars, stop, vfSent>>

(* The driver hands the TLP to the endpoint. *)
Accept(r) == ep' = IF NonPosted(r) THEN ep \cup {r} ELSE ep

PollDeferredKeepsCount == \* mutant: pending_tlp_ready is not decremented
  /\ sim = "poll" /\ pendingReady > 0 /\ reqRing # <<>>
  /\ Accept(Head(reqRing))
  /\ reqRing' = Tail(reqRing)
  /\ UNCHANGED <<simIdles, sim, pendingReady, vfSeen, dmaVars, cplRing,
                 dmaReqRing, dmaCplRing, toVcs, toQemu>>

(* bridge_vcs_poll_tlp, first part: a TLP whose TLP_READY a DMA wait has   *)
(* already consumed.                                                       *)
PollDeferred ==
  /\ sim = "poll" /\ pendingReady > 0 /\ reqRing # <<>>
  /\ Accept(Head(reqRing))
  /\ reqRing' = Tail(reqRing)
  /\ pendingReady' = pendingReady - 1
  /\ UNCHANGED <<simIdles, sim, vfSeen, dmaVars, cplRing, dmaReqRing,
                 dmaCplRing, toVcs, toQemu>>

(* bridge_vcs_poll_tlp, second part: one message from the socket; a stale  *)
(* DMA_CPL is read and ignored, its entry stays in dma_cpl_ring.           *)
PollSocket ==
  /\ sim = "poll" /\ ~(pendingReady > 0 /\ reqRing # <<>>)
  /\ toVcs # <<>>
  /\ toVcs' = Tail(toVcs)
  /\ pendingReady' = 0
  /\ LET msg == Head(toVcs) IN
     /\ IF msg = "tlp" /\ reqRing # <<>>
        THEN Accept(Head(reqRing)) /\ reqRing' = Tail(reqRing)
        ELSE UNCHANGED <<ep, reqRing>>
     /\ vfSeen' = IF msg = "vf" THEN vfSeen + 1 ELSE vfSeen
     /\ sim' = IF msg = "shutdown" THEN "exited" ELSE sim
  /\ UNCHANGED <<simIdles, dmaVars, cplRing, dmaReqRing, dmaCplRing, toQemu>>

PollClosedIgnored == \* mutant: a closed socket is taken for an empty one
  /\ sim = "poll" /\ toVcs = <<>> /\ ~QemuUp
  /\ UNCHANGED vars

(* The socket is closed and drained: poll returns -1 and the testbench     *)
(* leaves its loop.                                                        *)
PollClosed ==
  /\ sim = "poll" /\ toVcs = <<>> /\ ~QemuUp
  /\ ~(pendingReady > 0 /\ reqRing # <<>>)
  /\ sim' = "exited" /\ pendingReady' = 0
  /\ UNCHANGED <<simIdles, ep, vfSeen, dmaVars, rings, toVcs, toQemu>>

(* bridge_vcs_send_completion up to the enqueue; a full ring loses it. *)
Respond(r) ==
  /\ sim = "poll" /\ r \in ep
  /\ ep' = ep \ {r}
  /\ IF Len(cplRing) < CplSlots
     THEN /\ cplRing' = Append(cplRing, [tag |-> EndpointTag(r.id), of |-> r.id])
          /\ sim' = "announce"
     ELSE UNCHANGED <<cplRing, sim>>
  /\ UNCHANGED <<simIdles, pendingReady, vfSeen, dmaVars, reqRing, dmaReqRing,
                 dmaCplRing, toVcs, toQemu>>

AnnounceCompletion ==
  /\ sim = "announce"
  /\ toQemu' = Notify(toQemu, "cpl", QemuUp)
  /\ sim' = "poll"
  /\ UNCHANGED <<simIdles, pendingReady, ep, vfSeen, dmaVars, rings, toVcs>>

(* A synchronous DMA call of kind k up to the enqueue. *)
StartDma(k) ==
  /\ sim = "poll" /\ nextDma <= MaxDmas /\ Issued < MaxIssued
  /\ nextDma' = nextDma + 1
  /\ dmaTags' = Append(dmaTags, nextTag[k])
  /\ nextTag' = [nextTag EXCEPT ![k] = @ + 1]
  /\ IF Len(dmaReqRing) < DmaSlots
     THEN /\ dmaReqRing' = Append(dmaReqRing, nextDma)
          /\ sim' = "dma" /\ tries' = 0 /\ UNCHANGED dmaResult
     ELSE /\ dmaResult' = [call |-> nextDma, ok |-> FALSE]
          /\ UNCHANGED <<dmaReqRing, sim, tries>>
  /\ UNCHANGED <<simIdles, pendingReady, ep, vfSeen, gaveUp, reqRing, cplRing,
                 dmaCplRing, toVcs, toQemu>>

(* The DMA call in progress. *)
dmaCall == nextDma - 1

IsReplyAny(n) == TRUE \* mutant: the head of dma_cpl_ring is taken as the reply

IsReplyAfterIncrement(n) == dmaTags[n] = dmaTags[dmaCall] + 1 \* mutant: compared with the counter

(* cpl.tag == tag, for the reply to call n. *)
IsReply(n) == dmaTags[n] = dmaTags[dmaCall]

DmaReturns(ok) ==
  /\ sim' = "poll"
  /\ dmaResult' = [call |-> dmaCall, ok |-> ok]

(* The next iteration of the wait, or the -1 after the last one. *)
DmaContinues ==
  /\ tries' = tries + 1
  /\ IF tries + 1 = WaitLimit
     THEN DmaReturns(FALSE) /\ gaveUp' = TRUE
     ELSE UNCHANGED <<sim, dmaResult, gaveUp>>

DeferredLost(msg) == pendingReady \* mutant: TLP_READY is dropped like the rest

(* A TLP_READY taken off the socket by a DMA wait is remembered. *)
Deferred(msg) == IF msg = "tlp" THEN pendingReady + 1 ELSE pendingReady

(* One message of the DMA wait.  TLP_READY is counted for the poll to come *)
(* back to; a message of any other type is dropped.                        *)
DmaReceive ==
  /\ sim = "dma" /\ toVcs # <<>>
  /\ toVcs' = Tail(toVcs)
  /\ LET msg == Head(toVcs) IN
     /\ pendingReady' = Deferred(msg)
     /\ IF msg = "dmacpl" /\ dmaCplRing # <<>>
        THEN /\ DmaReturns(IsReply(Head(dmaCplRing)))
             /\ dmaCplRing' = Tail(dmaCplRing)
             /\ UNCHANGED <<tries, gaveUp>>
        ELSE /\ IF msg = "shutdown"
                THEN DmaReturns(FALSE) /\ gaveUp' = TRUE /\ UNCHANGED tries
                ELSE DmaContinues
             /\ UNCHANGED dmaCplRing
  /\ UNCHANGED <<simIdles, ep, vfSeen, dmaTagVars, reqRing, cplRing, dmaReqRing,
                 toQemu>>

(* Five seconds without a message, or the socket is closed. *)
DmaTimeout ==
  /\ sim = "dma" /\ toVcs = <<>>
  /\ IF QemuUp THEN DmaContinues
     ELSE DmaReturns(FALSE) /\ gaveUp' = TRUE /\ UNCHANGED tries
  /\ UNCHANGED <<simIdles, pendingReady, ep, vfSeen, dmaTagVars, rings, toVcs, toQemu>>

(* The simulator process is killed; its sockets close. *)
SimDies ==
  /\ SimMayDie /\ SimUp
  /\ sim' = "exited"
  /\ UNCHANGED <<simIdles, pendingReady, ep, vfSeen, dmaVars, rings, toVcs, toQemu>>

(* Both processes have gone: nothing is left to do. *)
Done == cpu = "down" /\ ~SimUp /\ UNCHANGED vars
-----------------------------------------------------------------------------
Caller ==
  \/ \E k \in Kinds : SendTlp(k)
  \/ NotifyTlp \/ WaitCompletion \/ WaitClosed
  \/ SendVfEvent \/ StopPoller \/ Destroy

Poll == PollDeferred \/ PollSocket \/ PollClosed
Simulator ==
  \/ Poll \/ (\E r \in ep : Respond(r)) \/ AnnounceCompletion
  \/ (\E k \in DmaCalls : StartDma(k)) \/ DmaReceive \/ DmaTimeout \/ SimDies

Next == Caller \/ Poller \/ Simulator \/ Done

(* A call in progress keeps running, the poller thread loops, the          *)
(* testbench loops over poll, and the endpoint completes what it accepted. *)
(* Nothing obliges the guest to issue TLPs or the device to start a DMA.   *)
Fairness ==
  /\ WF_vars(NotifyTlp) /\ WF_vars(WaitCompletion) /\ WF_vars(WaitClosed)
  /\ WF_vars(Destroy) /\ WF_vars(Poller)
  /\ WF_vars(Poll) /\ WF_vars(\E r \in ep : Respond(r))
  /\ WF_vars(AnnounceCompletion) /\ WF_vars(DmaReceive) /\ WF_vars(DmaTimeout)

Spec == Init /\ [][Next]_vars
FairSpec == Spec /\ Fairness
-----------------------------------------------------------------------------
TypeOK ==
  /\ cpu \in {"idle", "notify", "wait", "joining", "down"}
  /\ cur \in Tlps /\ drops \in 0 .. DrainGuard
  /\ nextTlp \in 0 .. MaxTlps + 1
  /\ answer \in [for : 0 .. MaxTlps, how : Outcomes, got : 0 .. MaxTlps,
                 behind : Nat]
  /\ ahead \in Nat
  /\ reqRing \in Seq(Tlps) /\ Len(reqRing) <= ReqSlots
  /\ cplRing \in Seq([tag : 0 .. TagSpace - 1, of : 0 .. MaxTlps])
  /\ Len(cplRing) <= CplSlots
  /\ dmaReqRing \in Seq(1 .. MaxDmas) /\ dmaCplRing \in Seq(1 .. MaxDmas)
  /\ Len(dmaReqRing) <= DmaSlots /\ Len(dmaCplRing) <= DmaSlots
  /\ toVcs \in Seq(Messages) /\ toQemu \in Seq({"cpl"})
  /\ poller \in {"check", "drain", "copy", "post", "notify", "gone"}
  /\ serving \in 0 .. MaxDmas /\ stop \in BOOLEAN /\ copied \subseteq 1 .. MaxDmas
  /\ sim \in {"poll", "announce", "dma", "exited"}
  /\ pendingReady \in 0 .. MaxTlps + 1 /\ ep \subseteq Tlps
  /\ nextDma \in 1 .. MaxDmas + 1 /\ nextTag \in [DmaCalls -> Nat]
  /\ dmaTags \in Seq(Nat) /\ Len(dmaTags) = nextDma - 1
  /\ tries \in 0 .. WaitLimit
  /\ gaveUp \in BOOLEAN
  /\ dmaResult \in [call : 0 .. MaxDmas, ok : BOOLEAN]
  /\ vfSent \in 0 .. MaxVfEvents /\ vfSeen \in 0 .. MaxVfEvents

Among(msg, channel) == Cardinality({i \in 1 .. Len(channel) : channel[i] = msg})

(* Every TLP in the request ring is announced exactly once, by the socket  *)
(* or by the count of notifications a DMA wait took off it: none is left   *)
(* behind in the ring with nothing to make the simulator look.  The same   *)
(* for completions: a CPL_READY always finds its entry.                    *)
EntriesAnnounced ==
  SimUp =>
    /\ Len(reqRing) = pendingReady + Among("tlp", toVcs)
                      + IF cpu = "notify" THEN 1 ELSE 0
    /\ QemuUp => Len(cplRing) = Len(toQemu) + IF sim = "announce" THEN 1 ELSE 0

(* A read that returns a completion returns its own, however many          *)
(* completions of configuration writes were queued before it.              *)
AnsweredByOwn == answer.how = "answered" => answer.got = answer.for

(* A wait gives up on the count of foreign completions only if that many   *)
(* were unclaimed when its TLP was sent, and a CPL_READY never finds the   *)
(* ring empty.  While a caller waits and the simulator is there, its TLP   *)
(* is in the ring or in the endpoint, or a completion with its tag is      *)
(* queued, or enough foreign ones are queued to end the wait: it is never  *)
(* left with nothing to come.                                              *)
StillAnswerable ==
  /\ answer.how # "empty"
  /\ answer.how = "drained" => answer.behind >= DrainGuard
  /\ cpu = "wait" /\ SimUp =>
       \/ cur \in Range(reqRing) \cup ep
       \/ \E c \in Range(cplRing) : c.of = cur.id /\ c.tag = Tag(cur.id)
       \/ drops + Len(cplRing) >= DrainGuard

(* A DMA call that reports success has had its own data moved, as long as  *)
(* no two tag counters have run into one another: a thousand calls of one  *)
(* kind bring them together, and the late reply of a call that was given   *)
(* up can then pass for the reply of a later one of another kind.          *)
DmaSuccessIsReal == dmaResult.ok => dmaResult.call \in copied \/ RangesMet

(* A DMA fails only because it, or one before it, was given up: no reply   *)
(* goes to another request while every wait has had its answer.            *)
DmaFailsOnlyAfterGivingUp ==
  dmaResult.call > 0 /\ ~dmaResult.ok => gaveUp

(* Once bridge_destroy has unmapped the shared memory the poller thread no *)
(* longer touches it.                                                      *)
PollerGoneBeforeUnmap == ~QemuUp => poller = "gone"

(* Every VF event is on its way or has reached the testbench. *)
VfEventsReachTestbench ==
  SimUp => vfSent = vfSeen + Among("vf", toVcs)

(* A read returns, whatever DMA the simulator does meanwhile and even if   *)
(* the simulator dies.                                                     *)
ReadsReturn == cpu = "wait" ~> cpu # "wait"

(* Removing the device ends the simulation, also when the SHUTDOWN message *)
(* is taken by a DMA wait.                                                 *)
ShutdownEndsSimulation == cpu = "joining" ~> ~SimUp
=============================================================================
