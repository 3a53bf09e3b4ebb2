------------------------ MODULE BridgeShmQueueProofs ------------------------
(***************************************************************************)
(* Proofs about what BridgeShm has in its rings and on its socket: every   *)
(* entry is announced exactly once, and a DMA fails for no other reason    *)
(* than that one was given up.                                             *)
(***************************************************************************)
EXTENDS BridgeShmProofs, FiniteSetTheorems, FunctionTheorems

(* The positions of a message on a channel; Among counts them. *)
Places(msg, s) == {i \in 1 .. Len(s) : s[i] = msg}

Sockets == toVcs \in Seq(Messages) /\ toQemu \in Seq({"cpl"}) /\ pendingReady \in Nat
           /\ sim \in {"poll", "announce", "dma", "exited"}

One(b) == IF b THEN 1 ELSE 0

(* While no DMA was given up there is one request about exactly when a     *)
(* call waits for it: in the request ring, with the poller thread or, with *)
(* its notification, in the completion ring; and it is the call's own.     *)
InHand == poller \in {"copy", "post"}
Ledger ==
  SimUp /\ ~gaveUp =>
    /\ Len(dmaReqRing) + One(InHand) + Len(dmaCplRing) = One(sim = "dma")
    /\ Len(dmaCplRing) = Among("dmacpl", toVcs) + One(poller = "notify")
    /\ \A i \in 1 .. Len(dmaReqRing) : dmaReqRing[i] = dmaCall
    /\ InHand => serving = dmaCall
    /\ \A i \in 1 .. Len(dmaCplRing) : dmaCplRing[i] = dmaCall
LedgerInv == Shape /\ Sockets /\ Ledger /\ DmaFailsOnlyAfterGivingUp

AnnounceInv == Shape /\ Sockets /\ EntriesAnnounced
-----------------------------------------------------------------------------
LEMMA AmongPlaces == \A msg, s : Among(msg, s) = Cardinality(Places(msg, s))
BY DEF Among, Places

LEMMA PlacesFinite ==
  ASSUME NEW S, NEW s \in Seq(S), NEW msg
  PROVE  IsFiniteSet(Places(msg, s)) /\ Among(msg, s) \in Nat
<1>1. IsFiniteSet(1 .. Len(s)) BY LenProperties, FS_Interval
<1>2. IsFiniteSet(Places(msg, s)) BY <1>1, FS_Subset DEF Places
<1> QED BY <1>2, FS_CardinalityType, AmongPlaces

LEMMA AmongEmpty == \A msg : Among(msg, <<>>) = 0
<1> SUFFICES ASSUME NEW msg PROVE Among(msg, <<>>) = 0
  OBVIOUS
<1>1. Places(msg, <<>>) = {} BY DEF Places
<1> QED BY <1>1, AmongPlaces, FS_EmptySet

LEMMA AmongAppend ==
  ASSUME NEW S, NEW s \in Seq(S), NEW e \in S, NEW msg
  PROVE  Among(msg, Append(s, e)) = Among(msg, s) + IF e = msg THEN 1 ELSE 0
<1> DEFINE z == Append(s, e)
<1>1. /\ Len(s) \in Nat /\ Len(z) = Len(s) + 1 /\ z[Len(s) + 1] = e
      /\ \A i \in 1 .. Len(s) : z[i] = s[i]
  BY AppendProperties, LenProperties
<1> HIDE DEF z
<1>2. IsFiniteSet(Places(msg, s)) /\ Cardinality(Places(msg, s)) \in Nat
  BY PlacesFinite, FS_CardinalityType
<1>3. CASE e = msg
  <2>1. Places(msg, z) = Places(msg, s) \cup {Len(s) + 1} BY <1>1, <1>3 DEF Places
  <2>2. Len(s) + 1 \notin Places(msg, s) BY <1>1 DEF Places
  <2>3. Cardinality(Places(msg, z)) = Cardinality(Places(msg, s)) + 1
    BY <1>2, <2>1, <2>2, FS_AddElement
  <2> QED BY <1>3, <2>3, AmongPlaces DEF z
<1>4. CASE e # msg
  <2>1. Places(msg, z) = Places(msg, s) BY <1>1, <1>4 DEF Places
  <2> QED BY <1>2, <1>4, <2>1, AmongPlaces DEF z
<1> QED BY <1>3, <1>4

(* The positions in the tail are those after the first, moved down by one. *)
LEMMA AmongTail ==
  ASSUME NEW S, NEW s \in Seq(S), s # <<>>, NEW msg
  PROVE  Among(msg, Tail(s)) = Among(msg, s) - IF Head(s) = msg THEN 1 ELSE 0
<1> DEFINE z == Tail(s)
           P == Places(msg, z)
           Q == Places(msg, s) \ {1}
           f == [i \in P |-> i + 1]
<1>1. /\ Len(s) \in Nat \ {0} /\ Len(z) = Len(s) - 1 /\ Head(s) = s[1]
      /\ \A i \in 1 .. Len(z) : z[i] = s[i + 1]
  BY HeadTailProperties, EmptySeq
<1> HIDE DEF z
<1>2. IsFiniteSet(Places(msg, s)) /\ Cardinality(Places(msg, s)) \in Nat
  BY PlacesFinite, FS_CardinalityType
<1>3. IsFiniteSet(P)
  <2>1. z \in Seq(S) BY HeadTailProperties DEF z
  <2> QED BY <2>1, PlacesFinite
<1>4. f \in Bijection(P, Q)
  <2>1. f \in [P -> Q] BY <1>1 DEF Places
  <2>2. \A i, j \in P : f[i] = f[j] => i = j BY <1>1 DEF Places
  <2>3. \A j \in Q : \E i \in P : f[i] = j
    <3> SUFFICES ASSUME NEW j \in Q PROVE \E i \in P : f[i] = j
      OBVIOUS
    <3>1. j - 1 \in P BY <1>1 DEF Places
    <3> QED BY <1>1, <3>1 DEF Places
  <2> HIDE DEF P, Q, f
  <2>4. DOMAIN f = P BY <2>1
  <2> QED BY <2>1, <2>2, <2>3, <2>4 DEF Bijection, Injection, Surjection, IsInjective
<1>5. Cardinality(Q) = Cardinality(P) BY <1>3, <1>4, FS_Bijection DEF ExistsBijection
<1>6. Cardinality(Q) = IF 1 \in Places(msg, s) THEN Cardinality(Places(msg, s)) - 1
                       ELSE Cardinality(Places(msg, s))
  BY <1>2, FS_RemoveElement
<1>7. 1 \in Places(msg, s) <=> Head(s) = msg BY <1>1 DEF Places
<1>8. Among(msg, Tail(s)) = Cardinality(P) BY AmongPlaces DEF z
<1>9. Among(msg, s) = Cardinality(Places(msg, s)) BY AmongPlaces
<1> QED BY <1>2, <1>5, <1>6, <1>7, <1>8, <1>9
-----------------------------------------------------------------------------
(* The socket *)

LEMMA ToVcsNotify ==
  ASSUME Sockets, NEW m \in Messages, NEW up, toVcs' = Notify(toVcs, m, up)
  PROVE  /\ toVcs' \in Seq(Messages)
         /\ \A x : x # m => Among(x, toVcs') = Among(x, toVcs)
         /\ up => Among(m, toVcs') = Among(m, toVcs) + 1
<1>1. toVcs \in Seq(Messages) BY DEF Sockets
<1>2. /\ Append(toVcs, m) \in Seq(Messages)
      /\ \A x : Among(x, Append(toVcs, m)) = Among(x, toVcs) + IF m = x THEN 1 ELSE 0
  BY <1>1, AppendProperties, AmongAppend
<1>3. \A x : Among(x, toVcs) \in Nat BY <1>1, PlacesFinite
<1>4. toVcs' = IF up THEN Append(toVcs, m) ELSE toVcs BY DEF Notify
<1> QED BY <1>1, <1>2, <1>3, <1>4

LEMMA ToVcsTail ==
  ASSUME Sockets, toVcs # <<>>, toVcs' = Tail(toVcs)
  PROVE  /\ toVcs' \in Seq(Messages) /\ Head(toVcs) \in Messages
         /\ \A x : x # Head(toVcs) => Among(x, toVcs') = Among(x, toVcs)
         /\ Among(Head(toVcs), toVcs') = Among(Head(toVcs), toVcs) - 1
<1>1. toVcs \in Seq(Messages) BY DEF Sockets
<1>2. \A x : Among(x, toVcs') = Among(x, toVcs) - IF Head(toVcs) = x THEN 1 ELSE 0
  BY <1>1, AmongTail
<1>3. \A x : Among(x, toVcs) \in Nat BY <1>1, PlacesFinite
<1>4. toVcs' \in Seq(Messages) /\ Head(toVcs) \in Messages BY <1>1, HeadTailProperties
<1> QED BY <1>2, <1>3, <1>4

LEMMA ToVcsCount == ASSUME Sockets PROVE \A x : Among(x, toVcs) \in Nat
BY PlacesFinite DEF Sockets

LEMMA NextSockets == ASSUME Sockets, [Next]_vars PROVE Sockets'
<1>0. {"tlp", "dmacpl", "vf", "shutdown"} \subseteq Messages BY DEF Messages
<1>1. toVcs' \in Seq(Messages)
  <2>1. \/ UNCHANGED toVcs
        \/ \E m \in Messages : \E up : toVcs' = Notify(toVcs, m, up)
        \/ toVcs # <<>> /\ toVcs' = Tail(toVcs)
    <3>1. CASE Caller
      BY <1>0, <3>1 DEF Caller, SendTlp, NotifyTlp, WaitCompletion, WaitClosed,
           SendVfEvent, StopPoller, Destroy
    <3>2. CASE Poller
      BY <1>0, <3>2 DEF Poller, PollerCheck, PollerTake, PollerCopy, PollerPost,
           PollerNotify
    <3>3. CASE Simulator
      BY <3>3 DEF Simulator, Poll, PollDeferred, PollSocket, PollClosed, Respond,
           AnnounceCompletion, StartDma, DmaReceive, DmaTimeout, SimDies
    <3>4. CASE UNCHANGED vars BY <3>4 DEF vars
    <3> QED BY <3>1, <3>2, <3>3, <3>4 DEF Next, Done
  <2> QED BY <2>1, ToVcsNotify, ToVcsTail DEF Sockets
<1>2. toQemu' \in Seq({"cpl"})
  <2>1. \/ UNCHANGED toQemu
        \/ \E up : toQemu' = Notify(toQemu, "cpl", up)
        \/ toQemu # <<>> /\ toQemu' = Tail(toQemu)
    <3>1. CASE Caller
      BY <3>1 DEF Caller, SendTlp, NotifyTlp, WaitCompletion, WaitClosed,
           SendVfEvent, StopPoller, Destroy
    <3>2. CASE Poller
      BY <3>2 DEF Poller, PollerCheck, PollerTake, PollerCopy, PollerPost,
           PollerNotify, pollerIdles
    <3>3. CASE Simulator
      BY <3>3 DEF Simulator, Poll, PollDeferred, PollSocket, PollClosed, Respond,
           AnnounceCompletion, StartDma, DmaReceive, DmaTimeout, SimDies
    <3>4. CASE UNCHANGED vars BY <3>4 DEF vars
    <3> QED BY <3>1, <3>2, <3>3, <3>4 DEF Next, Done
  <2>2. toQemu \in Seq({"cpl"}) /\ "cpl" \in {"cpl"} BY DEF Sockets
  <2>3. Append(toQemu, "cpl") \in Seq({"cpl"}) BY <2>2, AppendProperties
  <2> QED BY <2>1, <2>2, <2>3, HeadTailProperties DEF Notify
<1>3. pendingReady' \in Nat /\ sim' \in {"poll", "announce", "dma", "exited"}
  <2> USE DEF Sockets
  <2>1. CASE Caller \/ Poller
    BY <2>1 DEF Caller, SendTlp, NotifyTlp, WaitCompletion, WaitClosed,
         SendVfEvent, StopPoller, Destroy, Poller, PollerCheck, PollerTake,
         PollerCopy, PollerPost, PollerNotify, pollerIdles, simVars
  <2>2. CASE Simulator
    <3>1. sim' \in {"poll", "announce", "dma", "exited"}
      BY <2>2 DEF Simulator, Poll, PollDeferred, PollSocket, PollClosed, Respond,
           AnnounceCompletion, StartDma, DmaReceive, DmaReturns, DmaContinues,
           DmaTimeout, SimDies
    <3>2. pendingReady' \in Nat
      <4>1. \/ pendingReady' = 0 \/ UNCHANGED pendingReady
            \/ pendingReady' = pendingReady + 1
            \/ pendingReady > 0 /\ pendingReady' = pendingReady - 1
        <5>1. CASE Poll BY <5>1 DEF Poll, PollDeferred, PollSocket, PollClosed
        <5>2. CASE DmaReceive BY <5>2 DEF DmaReceive, Deferred
        <5>3. CASE \E r \in ep : Respond(r) BY <5>3 DEF Respond
        <5>4. CASE AnnounceCompletion \/ (\E k \in DmaCalls : StartDma(k)) \/ DmaTimeout \/ SimDies
          BY <5>4 DEF AnnounceCompletion, StartDma, DmaTimeout, SimDies
        <5> QED BY <2>2, <5>1, <5>2, <5>3, <5>4 DEF Simulator
      <4> QED BY <4>1
    <3> QED BY <3>1, <3>2
  <2>3. CASE UNCHANGED vars BY <2>3 DEF vars, simVars
  <2> QED BY <2>1, <2>2, <2>3 DEF Next, Done
<1> QED BY <1>1, <1>2, <1>3 DEF Sockets
-----------------------------------------------------------------------------
(* Entries and their announcements *)

(* Steps that add to neither ring and announce nothing. *)
LEMMA SameCounts ==
  ASSUME EntriesAnnounced, UNCHANGED <<reqRing, cplRing, toQemu, pendingReady>>,
         Among("tlp", toVcs') = Among("tlp", toVcs),
         SimUp' => SimUp /\ (sim' = "announce" <=> sim = "announce"),
         cpu' = "notify" <=> cpu = "notify", QemuUp' => QemuUp
  PROVE  EntriesAnnounced'
<1>1. ASSUME SimUp'
      PROVE  Len(reqRing') = pendingReady' + Among("tlp", toVcs')
                             + IF cpu' = "notify" THEN 1 ELSE 0
  BY <1>1 DEF EntriesAnnounced
<1>2. ASSUME SimUp', QemuUp'
      PROVE  Len(cplRing') = Len(toQemu') + IF sim' = "announce" THEN 1 ELSE 0
  BY <1>2 DEF EntriesAnnounced
<1> QED BY <1>1, <1>2 DEF EntriesAnnounced, Among

LEMMA CallerAnnounced == ASSUME AnnounceInv, Caller PROVE EntriesAnnounced'
<1>0. Shape /\ Sockets /\ EntriesAnnounced BY DEF AnnounceInv
<1>t. /\ reqRing \in Seq(Reads) /\ cplRing \in Seq(Completions)
      /\ Len(reqRing) \in Nat /\ Len(cplRing) \in Nat /\ Len(toQemu) \in Nat
      /\ pendingReady \in Nat /\ Among("tlp", toVcs) \in Nat
      /\ toQemu \in Seq({"cpl"}) /\ "tlp" \in Messages /\ "vf" \in Messages
      /\ "shutdown" \in Messages
  BY <1>0, LenProperties, ToVcsCount DEF Shape, Sockets, Messages
<1>1. ASSUME NEW k \in Kinds, SendTlp(k) PROVE EntriesAnnounced'
  <2> DEFINE r == [id |-> nextTlp, kind |-> k]
  <2>1. UNCHANGED <<sim, pendingReady, cplRing, toVcs, toQemu>> /\ cpu = "idle"
    BY <1>1 DEF SendTlp, simVars
  <2>2. CASE ReqRoom
    <3>1. reqRing' = Append(reqRing, r) /\ cpu' = "notify" BY <1>1, <2>2 DEF SendTlp
    <3>2. r \in Reads BY <1>0 DEF Shape, Reads
    <3>3. Len(reqRing') = Len(reqRing) + 1 BY <1>t, <3>1, <3>2, AppendProperties
    <3>4. Among("tlp", toVcs') = Among("tlp", toVcs) BY <2>1
    <3> QED BY <1>0, <1>t, <2>1, <3>1, <3>3, <3>4
            DEF EntriesAnnounced, SimUp, QemuUp, Among
  <2>3. CASE ~ReqRoom
    <3>1. UNCHANGED <<reqRing, cpu>> BY <1>1, <2>3 DEF SendTlp
    <3> QED BY <1>0, <2>1, <3>1, SameCounts DEF SimUp, QemuUp
  <2> QED BY <2>2, <2>3
<1>2. CASE NotifyTlp
  <2>1. /\ UNCHANGED <<sim, pendingReady, reqRing, cplRing, toQemu>>
        /\ cpu = "notify" /\ cpu' # "notify" /\ toVcs' = Notify(toVcs, "tlp", SimUp)
        /\ QemuUp
    BY <1>2 DEF NotifyTlp, simVars, rings, QemuUp
  <2>2. SimUp => Among("tlp", toVcs') = Among("tlp", toVcs) + 1
    BY <1>0, <1>t, <2>1, ToVcsNotify
  <2>3. ASSUME SimUp PROVE EntriesAnnounced'
    <3>1. Len(reqRing) = pendingReady + Among("tlp", toVcs) + 1
      BY <1>0, <2>1, <2>3 DEF EntriesAnnounced
    <3>2. Len(cplRing) = Len(toQemu) + IF sim = "announce" THEN 1 ELSE 0
      BY <1>0, <2>1, <2>3 DEF EntriesAnnounced
    <3>3. Len(reqRing') = pendingReady' + Among("tlp", toVcs') + 0
      <4>1. Among("tlp", toVcs') = Among("tlp", toVcs) + 1 BY <2>2, <2>3
      <4>2. Len(reqRing') = Len(reqRing) /\ pendingReady' = pendingReady BY <2>1
      <4> QED BY <1>t, <3>1, <4>1, <4>2
    <3> QED BY <2>1, <3>2, <3>3 DEF EntriesAnnounced, Among
  <2>4. CASE ~SimUp BY <2>1, <2>4 DEF EntriesAnnounced, SimUp
  <2> QED BY <2>3, <2>4
<1>3. CASE WaitCompletion
  <2>1. /\ UNCHANGED <<sim, pendingReady, reqRing, toVcs>>
        /\ cpu = "wait" /\ cpu' # "notify" /\ toQemu # <<>> /\ toQemu' = Tail(toQemu)
        /\ cplRing' = IF cplRing = <<>> THEN cplRing ELSE Tail(cplRing)
    BY <1>3 DEF WaitCompletion, Claim, simVars
  <2>2. Len(toQemu) > 0 /\ Len(toQemu') = Len(toQemu) - 1
    BY <1>t, <2>1, HeadTailProperties, EmptySeq
  <2>3. ASSUME SimUp PROVE EntriesAnnounced'
    <3>1. /\ Len(reqRing) = pendingReady + Among("tlp", toVcs) + 0
          /\ Len(cplRing) = Len(toQemu) + IF sim = "announce" THEN 1 ELSE 0
      BY <1>0, <2>1, <2>3 DEF EntriesAnnounced, QemuUp
    <3>2. cplRing # <<>> BY <1>t, <2>2, <3>1, EmptySeq
    <3>3. Len(cplRing') = Len(cplRing) - 1 BY <1>t, <2>1, <3>2, HeadTailProperties
    <3>4. Len(cplRing') = Len(toQemu') + IF sim' = "announce" THEN 1 ELSE 0
      BY <1>t, <2>1, <2>2, <3>1, <3>3
    <3>5. Among("tlp", toVcs') = Among("tlp", toVcs) BY <2>1
    <3>6. Len(reqRing') = pendingReady' + Among("tlp", toVcs') + 0 BY <2>1, <3>1, <3>5
    <3> QED BY <2>1, <3>4, <3>6 DEF EntriesAnnounced, Among
  <2>4. CASE ~SimUp BY <2>1, <2>4 DEF EntriesAnnounced, SimUp
  <2> QED BY <2>3, <2>4
<1>4. CASE WaitClosed
  BY <1>0, <1>4, SameCounts DEF WaitClosed, simVars, rings, SimUp, QemuUp
<1>5. CASE SendVfEvent
  <2>1. Among("tlp", toVcs') = Among("tlp", toVcs)
    BY <1>0, <1>t, <1>5, ToVcsNotify DEF SendVfEvent
  <2> QED BY <1>0, <1>5, <2>1, SameCounts
          DEF SendVfEvent, qemuVars, simVars, rings, SimUp, QemuUp
<1>6. CASE StopPoller
  BY <1>0, <1>6, SameCounts DEF StopPoller, simVars, rings, SimUp, QemuUp
<1>7. CASE Destroy
  <2>1. Among("tlp", toVcs') = Among("tlp", toVcs)
    BY <1>0, <1>t, <1>7, ToVcsNotify DEF Destroy
  <2> QED BY <1>0, <1>7, <2>1, SameCounts DEF Destroy, simVars, rings, SimUp, QemuUp
<1> QED BY <1>1, <1>2, <1>3, <1>4, <1>5, <1>6, <1>7 DEF Caller

LEMMA PollerAnnounced == ASSUME AnnounceInv, Poller PROVE EntriesAnnounced'
<1>0. Sockets /\ EntriesAnnounced BY DEF AnnounceInv
<1>1. UNCHANGED <<cpu, sim, pendingReady, reqRing, cplRing, toQemu>>
  BY DEF Poller, PollerCheck, PollerTake, PollerCopy, PollerPost, PollerNotify,
     pollerIdles, qemuVars, simVars
<1>2. Among("tlp", toVcs') = Among("tlp", toVcs)
  <2>1. CASE PollerNotify
    <3>1. "dmacpl" \in Messages BY DEF Messages
    <3> QED BY <1>0, <2>1, <3>1, ToVcsNotify DEF PollerNotify
  <2>2. CASE ~PollerNotify
    <3>1. UNCHANGED toVcs
      BY <2>2 DEF Poller, PollerCheck, PollerTake, PollerCopy, PollerPost
    <3> QED BY <3>1
  <2> QED BY <2>1, <2>2
<1> QED BY <1>0, <1>1, <1>2, SameCounts DEF SimUp, QemuUp

LEMMA SimulatorAnnounced == ASSUME AnnounceInv, Simulator PROVE EntriesAnnounced'
<1>0. Shape /\ Sockets /\ EntriesAnnounced BY DEF AnnounceInv
<1>t. /\ reqRing \in Seq(Reads) /\ cplRing \in Seq(Completions)
      /\ Len(reqRing) \in Nat /\ Len(cplRing) \in Nat /\ Len(toQemu) \in Nat
      /\ pendingReady \in Nat /\ Among("tlp", toVcs) \in Nat
      /\ toQemu \in Seq({"cpl"})
  BY <1>0, LenProperties, ToVcsCount DEF Shape, Sockets
<1>u. reqRing # <<>> <=> Len(reqRing) > 0 BY <1>t, EmptySeq
<1>v. reqRing # <<>> => Len(Tail(reqRing)) = Len(reqRing) - 1
  BY <1>t, HeadTailProperties
<1> DEFINE told == Len(reqRing) = pendingReady + Among("tlp", toVcs)
                                  + IF cpu = "notify" THEN 1 ELSE 0
           kept == QemuUp =>
                     Len(cplRing) = Len(toQemu) + IF sim = "announce" THEN 1 ELSE 0
<1>w. SimUp => told /\ kept BY <1>0 DEF EntriesAnnounced
<1>e. ASSUME sim' = "exited" PROVE EntriesAnnounced'
  BY <1>e DEF EntriesAnnounced, SimUp
<1>1. CASE PollDeferred
  <2>1. /\ UNCHANGED <<cpu, sim, cplRing, toVcs, toQemu>> /\ SimUp
        /\ pendingReady' = pendingReady - 1 /\ reqRing # <<>> /\ reqRing' = Tail(reqRing)
    BY <1>1 DEF PollDeferred, simIdles, qemuVars, SimUp
  <2>2. Len(reqRing') = Len(reqRing) - 1 BY <1>v, <2>1
  <2>3. Among("tlp", toVcs') = Among("tlp", toVcs) BY <2>1
  <2>4. told' BY <1>t, <1>w, <2>1, <2>2, <2>3 DEF Among
  <2> QED BY <1>w, <2>1, <2>4 DEF EntriesAnnounced, QemuUp
<1>2. CASE PollSocket
  <2>1. /\ UNCHANGED <<cpu, cplRing, toQemu>> /\ SimUp /\ sim = "poll"
        /\ sim' \in {"poll", "exited"}
        /\ toVcs # <<>> /\ toVcs' = Tail(toVcs) /\ pendingReady' = 0
        /\ ~(pendingReady > 0 /\ reqRing # <<>>)
        /\ reqRing' = IF Head(toVcs) = "tlp" /\ reqRing # <<>> THEN Tail(reqRing)
                      ELSE reqRing
    BY <1>2 DEF PollSocket, simIdles, qemuVars, rings, SimUp
  <2>2. pendingReady = 0 BY <1>t, <1>u, <1>w, <2>1
  <2>3. told' 
    <3>1. CASE Head(toVcs) = "tlp"
      <4>1. Among("tlp", toVcs') = Among("tlp", toVcs) - 1 /\ Among("tlp", toVcs') \in Nat
        BY <1>0, <2>1, <3>1, ToVcsTail, PlacesFinite
      <4>2. Len(reqRing) > 0 BY <1>t, <1>w, <2>1, <4>1
      <4>3. Len(reqRing') = Len(reqRing) - 1 BY <1>u, <1>v, <2>1, <3>1, <4>2
      <4>4. Len(reqRing) = Among("tlp", toVcs) + IF cpu = "notify" THEN 1 ELSE 0
        BY <1>t, <1>w, <2>1, <2>2
      <4>5. Len(reqRing') = 0 + Among("tlp", toVcs') + IF cpu = "notify" THEN 1 ELSE 0
        BY <1>t, <4>1, <4>3, <4>4
      <4> QED BY <2>1, <4>5 DEF Among
    <3>2. CASE Head(toVcs) # "tlp"
      <4>1. Among("tlp", toVcs') = Among("tlp", toVcs) BY <1>0, <2>1, <3>2, ToVcsTail
      <4>2. reqRing' = reqRing BY <2>1, <3>2
      <4>3. Len(reqRing) = 0 + Among("tlp", toVcs) + IF cpu = "notify" THEN 1 ELSE 0
        BY <1>w, <2>1, <2>2
      <4> QED BY <2>1, <4>1, <4>2, <4>3 DEF Among
    <3> QED BY <3>1, <3>2
  <2>4. SimUp' => kept' BY <1>w, <2>1 DEF QemuUp, SimUp
  <2> QED BY <2>3, <2>4 DEF EntriesAnnounced
<1>3. CASE PollClosed BY <1>3, <1>e DEF PollClosed
<1>4. ASSUME NEW r \in ep, Respond(r) PROVE EntriesAnnounced'
  <2> DEFINE c == [tag |-> EndpointTag(r.id), of |-> r.id]
  <2>1. /\ UNCHANGED <<cpu, reqRing, pendingReady, toVcs, toQemu>> /\ SimUp
        /\ sim = "poll"
        /\ \/ cplRing' = Append(cplRing, c) /\ sim' = "announce"
           \/ UNCHANGED <<cplRing, sim>>
    BY <1>4 DEF Respond, simIdles, qemuVars, SimUp
  <2>2. CASE cplRing' = Append(cplRing, c) /\ sim' = "announce"
    <3>1. r.id \in Nat BY <1>0 DEF Shape, Reads
    <3>2. c \in Completions BY <3>1, EndpointTagType DEF Completions
    <3>3. Len(cplRing') = Len(cplRing) + 1 BY <1>t, <2>2, <3>2, AppendProperties
    <3>4. kept' BY <1>t, <1>w, <2>1, <2>2, <3>3 DEF QemuUp
    <3>5. Among("tlp", toVcs') = Among("tlp", toVcs) BY <2>1
    <3>6. told' BY <1>w, <2>1, <3>5 DEF Among
    <3> QED BY <3>4, <3>6 DEF EntriesAnnounced
  <2>3. CASE UNCHANGED <<cplRing, sim>>
    BY <1>0, <2>1, <2>3, SameCounts DEF SimUp, QemuUp
  <2> QED BY <2>1, <2>2, <2>3
<1>5. CASE AnnounceCompletion
  <2>1. /\ UNCHANGED <<cpu, reqRing, cplRing, pendingReady, toVcs>> /\ SimUp
        /\ sim = "announce" /\ sim' = "poll" /\ toQemu' = Notify(toQemu, "cpl", QemuUp)
    BY <1>5 DEF AnnounceCompletion, simIdles, qemuVars, rings, SimUp
  <2>2. "cpl" \in {"cpl"} OBVIOUS
  <2>3. Len(Append(toQemu, "cpl")) = Len(toQemu) + 1 BY <1>t, <2>2, AppendProperties
  <2>4. QemuUp => Len(toQemu') = Len(toQemu) + 1 BY <2>1, <2>3 DEF Notify
  <2>5. kept' BY <1>t, <1>w, <2>1, <2>4 DEF QemuUp
  <2>6. Among("tlp", toVcs') = Among("tlp", toVcs) BY <2>1
  <2>7. told' BY <1>w, <2>1, <2>6 DEF Among
  <2> QED BY <2>5, <2>7 DEF EntriesAnnounced
<1>6. CASE \E k \in DmaCalls : StartDma(k)
  <2>1. /\ UNCHANGED <<cpu, reqRing, cplRing, pendingReady, toVcs, toQemu>>
        /\ sim = "poll" /\ sim' \in {"poll", "dma"}
    BY <1>6 DEF StartDma, simIdles, qemuVars
  <2> QED BY <1>0, <2>1, SameCounts DEF SimUp, QemuUp
<1>7. CASE DmaReceive
  <2>1. /\ UNCHANGED <<cpu, reqRing, cplRing, toQemu>> /\ SimUp /\ sim = "dma"
        /\ sim' \in {"dma", "poll"} /\ toVcs # <<>> /\ toVcs' = Tail(toVcs)
        /\ pendingReady' = IF Head(toVcs) = "tlp" THEN pendingReady + 1 ELSE pendingReady
    BY <1>7 DEF DmaReceive, DmaReturns, DmaContinues, Deferred, simIdles, qemuVars, SimUp
  <2>2. told'
    <3>1. CASE Head(toVcs) = "tlp"
      <4>1. Among("tlp", toVcs') = Among("tlp", toVcs) - 1
        BY <1>0, <2>1, <3>1, ToVcsTail
      <4>2. pendingReady' = pendingReady + 1 BY <2>1, <3>1
      <4>3. pendingReady' + Among("tlp", toVcs') = pendingReady + Among("tlp", toVcs)
        BY <1>t, <4>1, <4>2
      <4> QED BY <1>w, <2>1, <4>3 DEF Among
    <3>2. CASE Head(toVcs) # "tlp"
      <4>1. Among("tlp", toVcs') = Among("tlp", toVcs) BY <1>0, <2>1, <3>2, ToVcsTail
      <4>2. pendingReady' = pendingReady BY <2>1, <3>2
      <4> QED BY <1>w, <2>1, <4>1, <4>2 DEF Among
    <3> QED BY <3>1, <3>2
  <2>3. kept' BY <1>w, <2>1 DEF QemuUp
  <2> QED BY <2>2, <2>3 DEF EntriesAnnounced
<1>8. CASE DmaTimeout
  <2>1. /\ UNCHANGED <<cpu, reqRing, cplRing, pendingReady, toVcs, toQemu>>
        /\ sim = "dma" /\ sim' \in {"poll", "dma"}
    BY <1>8 DEF DmaTimeout, DmaReturns, DmaContinues, simIdles, qemuVars, rings
  <2> QED BY <1>0, <2>1, SameCounts DEF SimUp, QemuUp
<1>9. CASE SimDies BY <1>9, <1>e DEF SimDies
<1> QED BY <1>1, <1>2, <1>3, <1>4, <1>5, <1>6, <1>7, <1>8, <1>9 DEF Simulator, Poll

LEMMA NextAnnounced == ASSUME AnnounceInv, [Next]_vars PROVE AnnounceInv'
<1>1. Shape' /\ Sockets' BY NextShape, NextSockets DEF AnnounceInv
<1>2. CASE UNCHANGED vars
  <2>1. /\ UNCHANGED <<reqRing, cplRing, toQemu, pendingReady, toVcs, sim, cpu>>
        /\ EntriesAnnounced
    BY <1>2 DEF AnnounceInv, vars, qemuVars, simVars, rings
  <2>2. Among("tlp", toVcs') = Among("tlp", toVcs) BY <2>1
  <2>3. EntriesAnnounced' BY <2>1, <2>2, SameCounts DEF SimUp, QemuUp
  <2> QED BY <1>1, <2>3 DEF AnnounceInv
<1>3. EntriesAnnounced'
  BY <1>2, CallerAnnounced, PollerAnnounced, SimulatorAnnounced
     DEF Next, Done, AnnounceInv
<1> QED BY <1>1, <1>3 DEF AnnounceInv

LEMMA AnnounceInit == Init => AnnounceInv
<1> SUFFICES ASSUME Init PROVE AnnounceInv
  OBVIOUS
<1>1. Sockets BY DEF Init, Sockets
<1>2. /\ reqRing = <<>> /\ cplRing = <<>> /\ toVcs = <<>> /\ toQemu = <<>>
      /\ cpu = "idle" /\ sim = "poll" /\ pendingReady = 0
  BY DEF Init
<1>3. EntriesAnnounced
  <2>1. Len(reqRing) = 0 /\ Len(cplRing) = 0 /\ Len(toQemu) = 0 BY <1>2
  <2>2. Among("tlp", toVcs) = 0 BY <1>2, AmongEmpty
  <2> QED BY <1>2, <2>1, <2>2 DEF EntriesAnnounced
<1> QED BY <1>1, <1>3, InitShape DEF AnnounceInv

(* Every TLP in the request ring has its notification on the socket, in    *)
(* the count kept by the DMA waits, or about to be sent, and no            *)
(* notification is without its TLP; completions alike.  For every size of  *)
(* the rings, and whenever the simulator dies.                             *)
THEOREM AnnouncementsExact == Spec => []EntriesAnnounced
<1>1. AnnounceInv => EntriesAnnounced BY DEF AnnounceInv
<1> QED BY <1>1, AnnounceInit, NextAnnounced, PTL DEF Spec
-----------------------------------------------------------------------------
(* DMA that fails *)

LEMMA DmaLens ==
  ASSUME Shape, Sockets
  PROVE  /\ dmaReqRing \in Seq(Nat) /\ dmaCplRing \in Seq(Nat)
         /\ Len(dmaReqRing) \in Nat /\ Len(dmaCplRing) \in Nat
         /\ Len(dmaReqRing) > 0 <=> dmaReqRing # <<>>
         /\ Len(dmaCplRing) > 0 <=> dmaCplRing # <<>>
         /\ Among("dmacpl", toVcs) \in Nat /\ nextDma \in Nat /\ serving \in Nat
<1>1. dmaReqRing \in Seq(Nat) /\ dmaCplRing \in Seq(Nat) /\ nextDma \in Nat
      /\ serving \in Nat
  BY DEF Shape
<1>2. Len(dmaReqRing) \in Nat /\ Len(dmaCplRing) \in Nat BY <1>1, LenProperties
<1>3. Len(dmaReqRing) > 0 <=> dmaReqRing # <<>> BY <1>1, EmptySeq
<1>4. Len(dmaCplRing) > 0 <=> dmaCplRing # <<>> BY <1>1, EmptySeq
<1> QED BY <1>1, <1>2, <1>3, <1>4, ToVcsCount

(* Steps that leave the DMA and its notifications where they are. *)
LEMMA SameLedger ==
  ASSUME Ledger, DmaFailsOnlyAfterGivingUp,
         UNCHANGED <<poller, serving, dmaReqRing, dmaCplRing, nextDma, gaveUp, dmaResult>>,
         Among("dmacpl", toVcs') = Among("dmacpl", toVcs),
         SimUp' => SimUp /\ (sim' = "dma" <=> sim = "dma")
  PROVE  Ledger' /\ DmaFailsOnlyAfterGivingUp'
<1>1. DmaFailsOnlyAfterGivingUp' BY DEF DmaFailsOnlyAfterGivingUp
<1>2. ASSUME SimUp', ~gaveUp'
      PROVE  /\ Len(dmaReqRing') + One(InHand') + Len(dmaCplRing') = One(sim' = "dma")
             /\ Len(dmaCplRing') = Among("dmacpl", toVcs') + One(poller' = "notify")
             /\ \A i \in 1 .. Len(dmaReqRing') : dmaReqRing'[i] = dmaCall'
             /\ InHand' => serving' = dmaCall'
             /\ \A i \in 1 .. Len(dmaCplRing') : dmaCplRing'[i] = dmaCall'
  BY <1>2 DEF Ledger, One, InHand, dmaCall
<1> QED BY <1>1, <1>2 DEF Ledger, Among, One, InHand, dmaCall

LEMMA PollerLedger ==
  ASSUME LedgerInv, Poller PROVE Ledger' /\ DmaFailsOnlyAfterGivingUp'
<1>0. Shape /\ Sockets /\ Ledger /\ DmaFailsOnlyAfterGivingUp BY DEF LedgerInv
<1>1. UNCHANGED <<sim, nextDma, gaveUp, dmaResult>>
  BY DEF Poller, PollerCheck, PollerTake, PollerCopy, PollerPost, PollerNotify,
     pollerIdles, simVars, dmaVars, dmaTagVars
<1>2. DmaFailsOnlyAfterGivingUp' BY <1>0, <1>1 DEF DmaFailsOnlyAfterGivingUp
<1>3. dmaCall' = dmaCall /\ SimUp' = SimUp BY <1>1 DEF dmaCall, SimUp
<1> DEFINE n == Among("dmacpl", toVcs)
<1>4. /\ dmaReqRing \in Seq(Nat) /\ dmaCplRing \in Seq(Nat)
      /\ Len(dmaReqRing) \in Nat /\ Len(dmaCplRing) \in Nat
      /\ n \in Nat /\ serving \in Nat
  BY <1>0, DmaLens
<1> SUFFICES ASSUME SimUp, ~gaveUp
             PROVE  /\ Len(dmaReqRing') + One(InHand)' + Len(dmaCplRing') = One(sim = "dma")
                    /\ Len(dmaCplRing') = n' + One(poller = "notify")'
                    /\ \A i \in 1 .. Len(dmaReqRing') : dmaReqRing'[i] = dmaCall
                    /\ InHand' => serving' = dmaCall
                    /\ \A i \in 1 .. Len(dmaCplRing') : dmaCplRing'[i] = dmaCall
  BY <1>1, <1>2, <1>3 DEF Ledger, One
<1>5. /\ Len(dmaReqRing) + One(InHand) + Len(dmaCplRing) = One(sim = "dma")
      /\ Len(dmaCplRing) = n + One(poller = "notify")
      /\ \A i \in 1 .. Len(dmaReqRing) : dmaReqRing[i] = dmaCall
      /\ InHand => serving = dmaCall
      /\ \A i \in 1 .. Len(dmaCplRing) : dmaCplRing[i] = dmaCall
  BY <1>0 DEF Ledger
<1>6. CASE ~PollerNotify
  <2>0. UNCHANGED toVcs BY <1>6 DEF Poller, PollerCheck, PollerTake, PollerCopy, PollerPost
  <2>1. n' = n BY <2>0
  <2>2. CASE PollerCheck
    <3>1. /\ UNCHANGED <<serving, dmaReqRing, dmaCplRing>> /\ poller = "check"
          /\ poller' \in {"gone", "drain"}
      BY <2>2 DEF PollerCheck
    <3> HIDE DEF n
    <3> QED BY <1>5, <2>1, <3>1 DEF InHand, One
  <2>3. CASE PollerTake
    <3>1. CASE dmaReqRing = <<>>
      <4>1. /\ UNCHANGED <<serving, dmaReqRing, dmaCplRing>> /\ poller = "drain"
            /\ poller' = "check"
        BY <2>3, <3>1 DEF PollerTake
      <4> HIDE DEF n
      <4> QED BY <1>5, <2>1, <4>1 DEF InHand, One
    <3>2. CASE dmaReqRing # <<>>
      <4>1. /\ UNCHANGED dmaCplRing /\ poller = "drain" /\ poller' = "copy"
            /\ serving' = Head(dmaReqRing) /\ dmaReqRing' = Tail(dmaReqRing)
        BY <2>3, <3>2 DEF PollerTake
      <4>2. /\ Len(dmaReqRing') = Len(dmaReqRing) - 1 /\ serving' = dmaReqRing[1]
            /\ 1 \in 1 .. Len(dmaReqRing)
            /\ \A i \in 1 .. Len(dmaReqRing') :
                 i + 1 \in 1 .. Len(dmaReqRing) /\ dmaReqRing'[i] = dmaReqRing[i + 1]
        BY <1>4, <3>2, <4>1, TailElements, HeadTailProperties
      <4>3. serving' = dmaCall /\ \A i \in 1 .. Len(dmaReqRing') : dmaReqRing'[i] = dmaCall
        BY <1>5, <4>2
      <4>4. One(InHand) = 0 /\ One(InHand)' = 1 /\ One(poller = "notify") = 0
            /\ One(poller = "notify")' = 0
        BY <4>1 DEF InHand, One
      <4> HIDE DEF n
      <4>5. Len(dmaReqRing') + 1 + Len(dmaCplRing') = One(sim = "dma")
        <5>1. Len(dmaReqRing) + 0 + Len(dmaCplRing) = One(sim = "dma") BY <1>5, <4>4
        <5>2. Len(dmaCplRing') = Len(dmaCplRing) BY <4>1
        <5>3. Len(dmaReqRing') + 1 = Len(dmaReqRing) BY <1>4, <4>2
        <5> QED BY <1>4, <5>1, <5>2, <5>3
      <4>6. Len(dmaCplRing') = n' + 0 BY <1>4, <1>5, <2>1, <4>1, <4>4
      <4> QED BY <1>5, <4>1, <4>3, <4>4, <4>5, <4>6
    <3> QED BY <3>1, <3>2
  <2>4. CASE PollerCopy
    <3>1. /\ UNCHANGED <<serving, dmaReqRing, dmaCplRing>> /\ poller = "copy"
          /\ poller' = "post"
      BY <2>4 DEF PollerCopy
    <3> HIDE DEF n
    <3> QED BY <1>5, <2>1, <3>1 DEF InHand, One
  <2>5. CASE PollerPost
    <3>1. InHand /\ poller = "post" BY <2>5 DEF PollerPost, InHand
    <3>2. One(InHand) = 1 /\ One(poller = "notify") = 0 /\ One(sim = "dma") \in {0, 1}
      BY <3>1 DEF One, InHand
    <3> HIDE DEF n
    <3>3. Len(dmaReqRing) = 0 /\ Len(dmaCplRing) = 0 /\ n = 0 /\ One(sim = "dma") = 1
      BY <1>4, <1>5, <3>2
    <3>4. Len(dmaCplRing) < DmaSlots BY <3>3, BridgeAssumption
    <3>5. /\ UNCHANGED <<serving, dmaReqRing>> /\ dmaCplRing' = Append(dmaCplRing, serving)
          /\ poller' = "notify"
      BY <2>5, <3>4 DEF PollerPost
    <3>6. Len(dmaCplRing') = 1 /\ dmaCplRing'[1] = serving
      BY <1>4, <3>3, <3>5, AppendProperties
    <3>7. One(InHand)' = 0 /\ One(poller = "notify")' = 1 BY <3>5 DEF One, InHand
    <3>8. ~InHand' /\ serving = dmaCall BY <1>5, <3>1, <3>5 DEF InHand
    <3>9. \A i \in 1 .. Len(dmaCplRing') : dmaCplRing'[i] = dmaCall BY <3>6, <3>8
    <3> QED BY <1>5, <2>1, <3>3, <3>5, <3>6, <3>7, <3>8, <3>9
  <2> QED BY <1>6, <2>2, <2>3, <2>4, <2>5 DEF Poller
<1>7. CASE PollerNotify
  <2>1. /\ UNCHANGED <<serving, dmaReqRing, dmaCplRing>> /\ poller = "notify"
        /\ poller' = "drain" /\ toVcs' = Notify(toVcs, "dmacpl", SimUp)
    BY <1>7 DEF PollerNotify
  <2>2. "dmacpl" \in Messages BY DEF Messages
  <2>3. n' = n + 1 BY <1>0, <2>1, <2>2, ToVcsNotify
  <2>4. One(poller = "notify") = 1 /\ One(poller = "notify")' = 0 /\ ~InHand /\ ~InHand'
        /\ One(InHand) = 0 /\ One(InHand)' = 0
    BY <2>1 DEF One, InHand
  <2> HIDE DEF n
  <2>5. Len(dmaCplRing') = n' + 0 BY <1>4, <1>5, <2>1, <2>3, <2>4
  <2> QED BY <1>5, <2>1, <2>4, <2>5
<1> QED BY <1>6, <1>7

LEMMA CallerLedger ==
  ASSUME LedgerInv, Caller PROVE Ledger' /\ DmaFailsOnlyAfterGivingUp'
<1>0. Shape /\ Sockets /\ Ledger /\ DmaFailsOnlyAfterGivingUp BY DEF LedgerInv
<1>1. UNCHANGED <<poller, serving, dmaReqRing, dmaCplRing, nextDma, gaveUp, dmaResult, sim>>
  BY DEF Caller, SendTlp, NotifyTlp, WaitCompletion, WaitClosed, SendVfEvent,
     StopPoller, Destroy, pollerVars, simVars, dmaVars, dmaTagVars, rings
<1>2. \/ UNCHANGED toVcs
      \/ \E m \in {"tlp", "vf", "shutdown"} : toVcs' = Notify(toVcs, m, SimUp)
  BY DEF Caller, SendTlp, NotifyTlp, WaitCompletion, WaitClosed, SendVfEvent,
     StopPoller, Destroy
<1>3. {"tlp", "vf", "shutdown"} \subseteq Messages BY DEF Messages
<1>4. Among("dmacpl", toVcs') = Among("dmacpl", toVcs)
  <2>1. CASE UNCHANGED toVcs BY <2>1
  <2>2. ASSUME NEW m \in {"tlp", "vf", "shutdown"}, toVcs' = Notify(toVcs, m, SimUp)
        PROVE  Among("dmacpl", toVcs') = Among("dmacpl", toVcs)
    BY <1>0, <1>3, <2>2, ToVcsNotify
  <2> QED BY <1>2, <2>1, <2>2
<1> QED BY <1>0, <1>1, <1>4, SameLedger DEF SimUp

(* While the simulator polls and nothing was given up there is no DMA. *)
LEMMA NoDmaWhilePolling ==
  ASSUME LedgerInv, SimUp, sim # "dma", ~gaveUp
  PROVE  /\ Len(dmaReqRing) = 0 /\ Len(dmaCplRing) = 0 /\ One(InHand) = 0
         /\ Among("dmacpl", toVcs) = 0 /\ One(poller = "notify") = 0
<1>0. Shape /\ Sockets /\ Ledger BY DEF LedgerInv
<1>1. One(sim = "dma") = 0 /\ One(InHand) \in {0, 1} /\ One(poller = "notify") \in {0, 1}
  BY DEF One
<1>2. /\ Len(dmaReqRing) + One(InHand) + Len(dmaCplRing) = 0
      /\ Len(dmaCplRing) = Among("dmacpl", toVcs) + One(poller = "notify")
  BY <1>0, <1>1 DEF Ledger
<1>3. /\ Len(dmaReqRing) \in Nat /\ Len(dmaCplRing) \in Nat
      /\ Among("dmacpl", toVcs) \in Nat
  BY <1>0, DmaLens
<1> QED BY <1>1, <1>2, <1>3

(* A step after which a DMA has been given up, or the simulator is gone.   *)
LEMMA GivenUp ==
  ASSUME gaveUp' \/ (~SimUp' /\ UNCHANGED <<gaveUp, dmaResult>>), DmaFailsOnlyAfterGivingUp
  PROVE  Ledger' /\ DmaFailsOnlyAfterGivingUp'
BY DEF Ledger, DmaFailsOnlyAfterGivingUp

LEMMA PollLedger ==
  ASSUME LedgerInv, Poll PROVE Ledger' /\ DmaFailsOnlyAfterGivingUp'
<1>0. Shape /\ Sockets /\ Ledger /\ DmaFailsOnlyAfterGivingUp BY DEF LedgerInv
<1>1. /\ UNCHANGED <<poller, serving, dmaReqRing, dmaCplRing, nextDma, gaveUp, dmaResult>>
      /\ sim = "poll" /\ SimUp
  BY DEF Poll, PollDeferred, PollSocket, PollClosed, simIdles, pollerVars, dmaVars, dmaTagVars,
     rings, SimUp
<1>2. CASE gaveUp BY <1>0, <1>1, <1>2, GivenUp
<1>3. CASE ~gaveUp /\ PollDeferred
  <2>1. UNCHANGED <<toVcs, sim>> BY <1>3 DEF PollDeferred
  <2>2. Among("dmacpl", toVcs') = Among("dmacpl", toVcs) BY <2>1
  <2> QED BY <1>0, <1>1, <2>1, <2>2, SameLedger DEF SimUp
<1>4. CASE ~gaveUp /\ PollSocket
  <2>1. toVcs # <<>> /\ toVcs' = Tail(toVcs) /\ sim' \in {"poll", "exited"}
    BY <1>1, <1>4 DEF PollSocket
  <2>2. Among("dmacpl", toVcs) = 0 BY <1>1, <1>4, NoDmaWhilePolling
  <2>3. Head(toVcs) # "dmacpl"
    <3>1. Sockets' BY <1>0, NextSockets DEF Next, Simulator
    <3>2. toVcs' \in Seq(Messages) BY <1>0, <2>1, ToVcsTail
    <3>3. Among("dmacpl", toVcs') \in Nat BY <3>2, PlacesFinite
    <3>4. Head(toVcs) = "dmacpl" => Among("dmacpl", toVcs') = Among("dmacpl", toVcs) - 1
      BY <1>0, <2>1, ToVcsTail
    <3> QED BY <2>2, <3>3, <3>4
  <2>4. Among("dmacpl", toVcs') = Among("dmacpl", toVcs) BY <1>0, <2>1, <2>3, ToVcsTail
  <2> QED BY <1>0, <1>1, <2>1, <2>4, SameLedger DEF SimUp
<1>5. CASE PollClosed BY <1>0, <1>1, <1>5, GivenUp DEF PollClosed, SimUp
<1> QED BY <1>2, <1>3, <1>4, <1>5 DEF Poll

LEMMA StartLedger ==
  ASSUME LedgerInv, NEW k \in DmaCalls, StartDma(k) PROVE Ledger' /\ DmaFailsOnlyAfterGivingUp'
<1>0. Shape /\ Sockets /\ Ledger /\ DmaFailsOnlyAfterGivingUp BY DEF LedgerInv
<1>1. /\ UNCHANGED <<poller, serving, dmaCplRing, gaveUp, toVcs>>
      /\ sim = "poll" /\ SimUp
  BY DEF StartDma, simIdles, pollerVars, SimUp
<1>2. CASE gaveUp BY <1>0, <1>1, <1>2, GivenUp
<1>3. CASE ~gaveUp
  <2>1. /\ Len(dmaReqRing) = 0 /\ Len(dmaCplRing) = 0 /\ One(InHand) = 0
        /\ Among("dmacpl", toVcs) = 0 /\ One(poller = "notify") = 0
    BY <1>1, <1>3, NoDmaWhilePolling
  <2>2. Len(dmaReqRing) < DmaSlots BY <2>1, BridgeAssumption
  <2>3. /\ dmaReqRing' = Append(dmaReqRing, nextDma) /\ nextDma' = nextDma + 1
        /\ sim' = "dma" /\ UNCHANGED dmaResult
    BY <2>2 DEF StartDma
  <2>4. dmaReqRing \in Seq(Nat) /\ nextDma \in Nat BY <1>0, DmaLens
  <2>5. Len(dmaReqRing') = 1 /\ dmaReqRing'[1] = nextDma
    BY <2>1, <2>3, <2>4, AppendProperties
  <2>6. dmaCall' = nextDma BY <2>3, <2>4 DEF dmaCall
  <2>7. \A i \in 1 .. Len(dmaReqRing') : dmaReqRing'[i] = dmaCall' BY <2>5, <2>6
  <2>8. ~InHand /\ ~InHand' BY <1>1, <2>1 DEF InHand, One
  <2>9. Len(dmaCplRing') = 0 /\ Among("dmacpl", toVcs') = 0 BY <1>1, <2>1
  <2>10. One(InHand') = 0 /\ One(poller' = "notify") = 0 /\ One(sim' = "dma") = 1
    BY <1>1, <2>1, <2>3, <2>8 DEF One
  <2>11. \A i \in 1 .. Len(dmaCplRing') : dmaCplRing'[i] = dmaCall' BY <2>9
  <2>12. /\ Len(dmaReqRing') + One(InHand') + Len(dmaCplRing') = One(sim' = "dma")
         /\ Len(dmaCplRing') = Among("dmacpl", toVcs') + One(poller' = "notify")
    BY <2>5, <2>9, <2>10
  <2>13. Ledger' BY <2>7, <2>8, <2>11, <2>12 DEF Ledger, Among, One, InHand
  <2>14. DmaFailsOnlyAfterGivingUp' BY <1>0, <1>1, <2>3 DEF DmaFailsOnlyAfterGivingUp
  <2> QED BY <2>13, <2>14
<1> QED BY <1>2, <1>3

(* Another iteration of the wait changes nothing unless it is the last.    *)
LEMMA ContinuesLedger ==
  ASSUME LedgerInv, DmaContinues, sim = "dma",
         UNCHANGED <<poller, serving, dmaReqRing, dmaCplRing, nextDma>>,
         Among("dmacpl", toVcs') = Among("dmacpl", toVcs)
  PROVE  Ledger' /\ DmaFailsOnlyAfterGivingUp'
<1>0. Ledger /\ DmaFailsOnlyAfterGivingUp BY DEF LedgerInv
<1>1. CASE gaveUp' BY <1>0, <1>1, GivenUp
<1>2. CASE ~gaveUp'
  <2>1. UNCHANGED <<sim, dmaResult, gaveUp>> BY <1>2 DEF DmaContinues
  <2> QED BY <1>0, <2>1, SameLedger DEF SimUp
<1> QED BY <1>1, <1>2

LEMMA ReceiveLedger ==
  ASSUME LedgerInv, DmaReceive PROVE Ledger' /\ DmaFailsOnlyAfterGivingUp'
<1>0. Shape /\ Sockets /\ Ledger /\ DmaFailsOnlyAfterGivingUp BY DEF LedgerInv
<1>1. /\ UNCHANGED <<poller, serving, dmaReqRing, nextDma>> /\ sim = "dma" /\ SimUp
      /\ toVcs # <<>> /\ toVcs' = Tail(toVcs)
  BY DEF DmaReceive, simIdles, pollerVars, dmaTagVars, SimUp
<1>2. CASE gaveUp \/ gaveUp'
  <2>1. gaveUp' BY <1>2 DEF DmaReceive, DmaContinues
  <2> QED BY <1>0, <2>1, GivenUp
<1>3. CASE ~gaveUp /\ ~gaveUp' /\ Head(toVcs) # "dmacpl"
  <2>1. DmaContinues /\ UNCHANGED dmaCplRing BY <1>3 DEF DmaReceive
  <2>2. Among("dmacpl", toVcs') = Among("dmacpl", toVcs) BY <1>0, <1>1, <1>3, ToVcsTail
  <2> QED BY <1>1, <2>1, <2>2, ContinuesLedger
<1>4. CASE ~gaveUp /\ ~gaveUp' /\ Head(toVcs) = "dmacpl"
  <2> DEFINE n == Among("dmacpl", toVcs)
  <2>1. n' = n - 1 /\ n' \in Nat
    <3>1. n' = n - 1 BY <1>0, <1>1, <1>4, ToVcsTail
    <3>2. toVcs' \in Seq(Messages) BY <1>0, <1>1, ToVcsTail
    <3> QED BY <3>1, <3>2, PlacesFinite
  <2>2. /\ dmaReqRing \in Seq(Nat) /\ dmaCplRing \in Seq(Nat)
        /\ Len(dmaReqRing) \in Nat /\ Len(dmaCplRing) \in Nat /\ n \in Nat
        /\ Len(dmaCplRing) > 0 <=> dmaCplRing # <<>>
    BY <1>0, DmaLens
  <2>3. One(sim = "dma") = 1 /\ One(InHand) \in {0, 1} /\ One(poller = "notify") \in {0, 1}
    BY <1>1 DEF One
  <2>4. /\ Len(dmaReqRing) + One(InHand) + Len(dmaCplRing) = 1
        /\ Len(dmaCplRing) = n + One(poller = "notify")
        /\ \A i \in 1 .. Len(dmaCplRing) : dmaCplRing[i] = dmaCall
    BY <1>1, <1>4, <2>3 DEF Ledger, LedgerInv
  <2> HIDE DEF n
  <2>5. /\ Len(dmaReqRing) = 0 /\ Len(dmaCplRing) = 1 /\ One(InHand) = 0
        /\ n' = 0 /\ One(poller = "notify") = 0
    BY <2>1, <2>2, <2>3, <2>4
  <2>6. dmaCplRing # <<>> BY <2>2, <2>5
  <2>7. /\ DmaReturns(IsReply(Head(dmaCplRing))) /\ dmaCplRing' = Tail(dmaCplRing)
    BY <1>4, <2>6 DEF DmaReceive
  <2>8. /\ Len(dmaCplRing') = 0 /\ Head(dmaCplRing) = dmaCplRing[1]
    BY <2>2, <2>5, <2>6, <2>7, HeadTailProperties
  <2>9. Head(dmaCplRing) = dmaCall BY <2>4, <2>5, <2>8
  <2>10. sim' = "poll" /\ dmaResult'.ok BY <2>7, <2>9 DEF DmaReturns, IsReply
  <2>11. ~InHand' /\ One(InHand') = 0 /\ One(poller' = "notify") = 0 /\ One(sim' = "dma") = 0
    BY <1>1, <2>5, <2>10 DEF One, InHand
  <2>12. Len(dmaReqRing') = 0 BY <1>1, <2>5
  <2>13. /\ Len(dmaReqRing') + One(InHand') + Len(dmaCplRing') = One(sim' = "dma")
         /\ Len(dmaCplRing') = n' + One(poller' = "notify")
    BY <2>5, <2>8, <2>11, <2>12
  <2>14. /\ \A i \in 1 .. Len(dmaReqRing') : dmaReqRing'[i] = dmaCall'
         /\ \A i \in 1 .. Len(dmaCplRing') : dmaCplRing'[i] = dmaCall'
    BY <2>8, <2>12
  <2>15. Ledger' BY <2>11, <2>13, <2>14 DEF Ledger, Among, One, InHand, n
  <2>16. DmaFailsOnlyAfterGivingUp' BY <2>10 DEF DmaFailsOnlyAfterGivingUp
  <2> QED BY <2>15, <2>16
<1> QED BY <1>2, <1>3, <1>4

LEMMA SimulatorLedger ==
  ASSUME LedgerInv, Simulator PROVE Ledger' /\ DmaFailsOnlyAfterGivingUp'
<1>0. Shape /\ Sockets /\ Ledger /\ DmaFailsOnlyAfterGivingUp BY DEF LedgerInv
<1>1. CASE (\E r \in ep : Respond(r)) \/ AnnounceCompletion
  <2>1. /\ UNCHANGED <<poller, serving, dmaReqRing, dmaCplRing, nextDma, gaveUp, dmaResult>>
        /\ UNCHANGED toVcs /\ SimUp /\ sim # "dma" /\ sim' # "dma"
    BY <1>1 DEF Respond, AnnounceCompletion, simIdles, pollerVars, dmaVars, dmaTagVars, rings, SimUp
  <2>2. Among("dmacpl", toVcs') = Among("dmacpl", toVcs) BY <2>1
  <2> QED BY <1>0, <2>1, <2>2, SameLedger
<1>2. CASE DmaTimeout
  <2>1. /\ UNCHANGED <<poller, serving, dmaReqRing, dmaCplRing, nextDma, toVcs>>
        /\ sim = "dma"
    BY <1>2 DEF DmaTimeout, simIdles, pollerVars, dmaTagVars, rings
  <2>2. Among("dmacpl", toVcs') = Among("dmacpl", toVcs) BY <2>1
  <2>3. CASE QemuUp
    <3>1. DmaContinues BY <1>2, <2>3 DEF DmaTimeout
    <3> QED BY <2>1, <2>2, <3>1, ContinuesLedger
  <2>4. CASE ~QemuUp
    <3>1. gaveUp' BY <1>2, <2>4 DEF DmaTimeout
    <3> QED BY <1>0, <3>1, GivenUp
  <2> QED BY <2>3, <2>4
<1>3. CASE SimDies BY <1>0, <1>3, GivenUp DEF SimDies, dmaVars, dmaTagVars, SimUp
<1> QED BY <1>1, <1>2, <1>3, PollLedger, StartLedger, ReceiveLedger DEF Simulator

(* A DMA call fails only when it, or one before it, was given up: the      *)
(* reply in the ring is its own, is there when its notification is read,   *)
(* and the rings have room for it.                                         *)
THEOREM DmaFailureExplained == Spec => []DmaFailsOnlyAfterGivingUp
<1>1. LedgerInv /\ [Next]_vars => LedgerInv'
  <2> SUFFICES ASSUME LedgerInv, [Next]_vars PROVE LedgerInv'
    OBVIOUS
  <2>1. Shape' /\ Sockets' BY NextShape, NextSockets DEF LedgerInv
  <2>2. CASE UNCHANGED vars
    <3>1. /\ UNCHANGED <<poller, serving, dmaReqRing, dmaCplRing, nextDma, gaveUp, dmaResult>>
          /\ UNCHANGED <<toVcs, sim>> /\ Ledger /\ DmaFailsOnlyAfterGivingUp
      BY <2>2 DEF LedgerInv, vars, pollerVars, simVars, dmaVars, dmaTagVars, rings
    <3>2. Among("dmacpl", toVcs') = Among("dmacpl", toVcs) BY <3>1
    <3>3. Ledger' /\ DmaFailsOnlyAfterGivingUp' BY <3>1, <3>2, SameLedger DEF SimUp
    <3> QED BY <2>1, <3>3 DEF LedgerInv
  <2>3. Ledger' /\ DmaFailsOnlyAfterGivingUp'
    BY <2>2, CallerLedger, PollerLedger, SimulatorLedger DEF Next, Done, LedgerInv
  <2> QED BY <2>1, <2>3 DEF LedgerInv
<1>2. Init => LedgerInv
  <2> SUFFICES ASSUME Init PROVE LedgerInv
    OBVIOUS
  <2>1. Sockets BY DEF Init, Sockets
  <2>2. /\ dmaReqRing = <<>> /\ dmaCplRing = <<>> /\ toVcs = <<>> /\ sim = "poll"
        /\ poller = "check" /\ dmaResult.call = 0
    BY DEF Init
  <2>3. Len(dmaReqRing) = 0 /\ Len(dmaCplRing) = 0 BY <2>2
  <2>4. Among("dmacpl", toVcs) = 0 BY <2>2, AmongEmpty
  <2>5. ~InHand /\ One(InHand) = 0 /\ One(poller = "notify") = 0 /\ One(sim = "dma") = 0
    BY <2>2 DEF InHand, One
  <2>6. Ledger BY <2>3, <2>4, <2>5 DEF Ledger
  <2>7. DmaFailsOnlyAfterGivingUp BY <2>2 DEF DmaFailsOnlyAfterGivingUp
  <2> QED BY <2>1, <2>6, <2>7, InitShape DEF LedgerInv
<1>3. LedgerInv => DmaFailsOnlyAfterGivingUp BY DEF LedgerInv
<1> QED BY <1>1, <1>2, <1>3, PTL DEF Spec
-----------------------------------------------------------------------------
(* Types *)

(* What the bounds of the types rest on: a wait in progress has iterations *)
(* left, the poller thread serves a request that was made, the TLPs of the *)
(* ring have different numbers, and no VF event is seen that was not sent. *)
Running ==
  /\ cpu = "wait" => drops < DrainGuard
  /\ sim = "dma" => tries < WaitLimit /\ nextDma > 1
  /\ poller \in {"copy", "post", "notify"} => serving > 0
  /\ SimUp => vfSeen + Among("vf", toVcs) <= vfSent
Numbered ==
  /\ \A i \in 1 .. Len(reqRing) : reqRing[i].id < nextTlp
  /\ \A i, j \in 1 .. Len(reqRing) : i < j => reqRing[i].id < reqRing[j].id
TypeInv == AnnounceInv /\ TypeOK /\ Running /\ Numbered /\ TagsCounted

LEMMA ConstantBounds ==
  /\ ReqSlots \in Nat \ {0} /\ CplSlots \in Nat \ {0} /\ DmaSlots \in Nat \ {0}
  /\ TagSpace \in Nat \ {0} /\ EndpointTags \in Nat \ {0}
  /\ DrainGuard \in Nat \ {0} /\ WaitLimit \in Nat \ {0}
  /\ MaxTlps \in Nat /\ MaxDmas \in Nat /\ MaxVfEvents \in Nat
BY BridgeAssumption

LEMMA EndpointTagFits == \A i \in Nat : EndpointTag(i) \in 0 .. TagSpace - 1
<1> SUFFICES ASSUME NEW i \in Nat PROVE EndpointTag(i) \in 0 .. TagSpace - 1
  OBVIOUS
<1>1. PICK t \in 0 .. TagSpace - 1 : t = Tag(i) BY TagType
<1>2. TagSpace \in Nat \ {0} /\ EndpointTags \in Nat \ {0} /\ t \in Nat BY <1>1, ConstantBounds
<1>3. t < EndpointTags => t % EndpointTags = t BY <1>2
<1>4. t % EndpointTags \in 0 .. EndpointTags - 1 BY <1>2
<1>5. t % EndpointTags \in 0 .. TagSpace - 1 BY <1>1, <1>2, <1>3, <1>4
<1> QED BY <1>1, <1>5 DEF EndpointTag

(* A ring of TLPs with different numbers is no longer than there are       *)
(* numbers.                                                                *)
LEMMA IdsFit ==
  ASSUME NEW q \in Seq(Reads), NEW m \in Nat,
         \A i \in 1 .. Len(q) : q[i].id < m,
         \A i, j \in 1 .. Len(q) : i < j => q[i].id < q[j].id
  PROVE  Len(q) <= m
<1>1. PICK n \in Nat : n = Len(q) BY LenProperties
<1> DEFINE f == [i \in 1 .. n |-> q[i].id]
           T == 0 .. m - 1
<1>2. \A i \in 1 .. n : q[i].id \in Nat
  <2>1. \A i \in 1 .. n : q[i] \in Reads BY <1>1, ElementOfSeq
  <2> QED BY <2>1 DEF Reads
<1>3. \A i \in 1 .. n : q[i].id \in T BY <1>1, <1>2
<1>4. \A i, j \in 1 .. n : q[i].id = q[j].id => i = j
  <2> SUFFICES ASSUME NEW i \in 1 .. n, NEW j \in 1 .. n, q[i].id = q[j].id
               PROVE  i = j
    OBVIOUS
  <2>1. ~(i < j) BY <1>1, <1>2
  <2>2. ~(j < i) BY <1>1, <1>2
  <2> QED BY <2>1, <2>2
<1>5. f \in Injection(1 .. n, T)
  <2>1. f \in [1 .. n -> T] BY <1>3
  <2>2. \A i, j \in 1 .. n : f[i] = f[j] => i = j BY <1>4
  <2> HIDE DEF f, T
  <2>3. DOMAIN f = 1 .. n BY <2>1
  <2> QED BY <2>1, <2>2, <2>3 DEF Injection, IsInjective
<1>6. IsFiniteSet(T) /\ Cardinality(T) = m
  <2>1. 0 \in Int /\ m - 1 \in Int OBVIOUS
  <2>2. /\ IsFiniteSet(0 .. m - 1)
        /\ Cardinality(0 .. m - 1) = IF 0 > m - 1 THEN 0 ELSE (m - 1) - 0 + 1
    BY <2>1, FS_Interval
  <2>3. (IF 0 > m - 1 THEN 0 ELSE (m - 1) - 0 + 1) = m OBVIOUS
  <2> QED BY <2>2, <2>3
<1>7. Cardinality(1 .. n) = n BY FS_Interval
<1> HIDE DEF f, T
<1>8. Cardinality(1 .. n) <= Cardinality(T) BY <1>5, <1>6, FS_Injection
<1> QED BY <1>1, <1>6, <1>7, <1>8

(* The ring is sent into, taken from, or left alone.                       *)
LEMMA RingMoves ==
  ASSUME [Next]_vars
  PROVE  \/ UNCHANGED <<reqRing, ep>> /\ (nextTlp' = nextTlp \/ \E k \in Kinds : SendTlp(k))
         \/ /\ \E k \in Kinds : SendTlp(k) /\ ReqRoom
            /\ UNCHANGED <<ep, cplRing>>
         \/ /\ SimUp /\ reqRing # <<>> /\ reqRing' = Tail(reqRing) /\ Accept(Head(reqRing))
            /\ UNCHANGED <<qemuVars, cplRing>>
         \/ \E r \in ep : Respond(r)
<1>1. CASE Caller
  BY <1>1 DEF Caller, SendTlp, NotifyTlp, WaitCompletion, WaitClosed, SendVfEvent, StopPoller,
       Destroy, simVars, rings, qemuVars
<1>2. CASE Poller
  BY <1>2 DEF Poller, PollerCheck, PollerTake, PollerCopy, PollerPost, PollerNotify,
       pollerIdles, qemuVars, simVars
<1>3. CASE Simulator
  BY <1>3 DEF Simulator, Poll, PollDeferred, PollSocket, PollClosed, AnnounceCompletion,
       StartDma, DmaReceive, DmaTimeout, SimDies, simIdles, qemuVars, rings, SimUp
<1>4. CASE UNCHANGED vars BY <1>4 DEF vars, qemuVars, simVars, rings
<1> QED BY <1>1, <1>2, <1>3, <1>4 DEF Next, Done

LEMMA NextNumbered == ASSUME Shape, Numbered, [Next]_vars PROVE Numbered'
<1>0. /\ reqRing \in Seq(Reads) /\ nextTlp \in Nat
      /\ \A i \in 1 .. Len(reqRing) : reqRing[i].id \in Nat
  <2>1. reqRing \in Seq(Reads) /\ nextTlp \in Nat BY DEF Shape
  <2>2. \A i \in 1 .. Len(reqRing) : reqRing[i] \in Reads BY <2>1, ElementOfSeq
  <2> QED BY <2>1, <2>2 DEF Reads
<1>1. nextTlp' \in Nat /\ nextTlp' >= nextTlp
  <2>1. nextTlp' = nextTlp \/ nextTlp' = nextTlp + 1
    BY RingMoves DEF SendTlp, Respond, simIdles, qemuVars
  <2> QED BY <1>0, <2>1
<1>2. ASSUME reqRing' = reqRing PROVE Numbered' BY <1>0, <1>1, <1>2 DEF Numbered
<1>3. ASSUME NEW k \in Kinds, SendTlp(k), ReqRoom PROVE Numbered'
  <2>1. PICK r, z, n : r = [id |-> nextTlp, kind |-> k] /\ z = reqRing' /\ n = Len(reqRing)
    OBVIOUS
  <2>2. z = Append(reqRing, r) /\ nextTlp' = nextTlp + 1 BY <1>3, <2>1 DEF SendTlp
  <2>3. r \in Reads /\ r.id = nextTlp BY <1>0, <2>1 DEF Reads
  <2>4. /\ n \in Nat /\ Len(z) = n + 1 /\ z[n + 1] = r
        /\ \A i \in 1 .. n : z[i] = reqRing[i]
    BY <1>0, <2>1, <2>2, <2>3, AppendProperties, LenProperties
  <2>5. \A i \in 1 .. n + 1 : i = n + 1 \/ i \in 1 .. n BY <2>4
  <2>6. \A i \in 1 .. n + 1 : z[i].id < nextTlp'
    <3> SUFFICES ASSUME NEW i \in 1 .. n + 1 PROVE z[i].id < nextTlp + 1 BY <2>2
    <3>1. CASE i = n + 1 BY <1>0, <2>3, <2>4, <3>1
    <3>2. CASE i \in 1 .. n
      <4>1. z[i].id = reqRing[i].id /\ reqRing[i].id \in Nat /\ reqRing[i].id < nextTlp
        BY <1>0, <2>1, <2>4, <3>2 DEF Numbered
      <4> QED BY <1>0, <4>1
    <3> QED BY <2>5, <3>1, <3>2
  <2>7. ASSUME NEW i \in 1 .. n + 1, NEW j \in 1 .. n + 1, i < j PROVE z[i].id < z[j].id
    <3>1. i \in 1 .. n BY <2>4, <2>7
    <3>2. z[i].id = reqRing[i].id /\ reqRing[i].id < nextTlp BY <2>1, <2>4, <3>1 DEF Numbered
    <3>3. CASE j = n + 1 BY <2>3, <2>4, <3>2, <3>3
    <3>4. CASE j \in 1 .. n BY <2>1, <2>4, <2>7, <3>1, <3>4 DEF Numbered
    <3> QED BY <2>5, <3>3, <3>4
  <2> QED BY <2>1, <2>4, <2>6, <2>7 DEF Numbered
<1>4. ASSUME reqRing # <<>>, reqRing' = Tail(reqRing) PROVE Numbered'
  <2>1. PICK z, n : z = reqRing' /\ n = Len(reqRing) OBVIOUS
  <2>2. /\ n \in Nat /\ Len(z) = n - 1
        /\ \A i \in 1 .. n - 1 : z[i] = reqRing[i + 1] /\ i + 1 \in 1 .. n
    BY <1>0, <1>4, <2>1, HeadTailProperties, EmptySeq
  <2>3. \A i \in 1 .. n - 1 : z[i].id < nextTlp'
    <3> SUFFICES ASSUME NEW i \in 1 .. n - 1 PROVE z[i].id < nextTlp' OBVIOUS
    <3>1. z[i].id = reqRing[i + 1].id /\ reqRing[i + 1].id \in Nat /\ reqRing[i + 1].id < nextTlp
      BY <1>0, <2>1, <2>2 DEF Numbered
    <3> QED BY <1>0, <1>1, <3>1
  <2>4. ASSUME NEW i \in 1 .. n - 1, NEW j \in 1 .. n - 1, i < j PROVE z[i].id < z[j].id
    <3>1. i + 1 < j + 1 BY <2>2, <2>4
    <3> QED BY <2>1, <2>2, <3>1 DEF Numbered
  <2> QED BY <2>1, <2>2, <2>3, <2>4 DEF Numbered
<1>5. ASSUME NEW r \in ep, Respond(r) PROVE Numbered' BY <1>2, <1>5 DEF Respond
<1> QED BY <1>2, <1>3, <1>4, <1>5, RingMoves

LEMMA SeqFacts ==
  /\ \A S : \A s \in Seq(S), e \in S : Append(s, e) \in Seq(S) /\ Len(Append(s, e)) = Len(s) + 1
  /\ \A S : \A s \in Seq(S) : Len(s) \in Nat /\
       (s # <<>> => Head(s) \in S /\ Tail(s) \in Seq(S) /\ Len(Tail(s)) = Len(s) - 1 /\ Len(s) > 0)
<1>1. ASSUME NEW S, NEW s \in Seq(S), NEW e \in S
      PROVE  Append(s, e) \in Seq(S) /\ Len(Append(s, e)) = Len(s) + 1
  BY AppendProperties
<1>2. ASSUME NEW S, NEW s \in Seq(S)
      PROVE  Len(s) \in Nat /\
               (s # <<>> => Head(s) \in S /\ Tail(s) \in Seq(S) /\ Len(Tail(s)) = Len(s) - 1 /\ Len(s) > 0)
  BY HeadTailProperties, EmptySeq, LenProperties
<1> QED BY <1>1, <1>2

(* How many elements there are, when some are added or taken away. *)
LEMMA Counting ==
  ASSUME NEW a, IsFiniteSet(a)
  PROVE  /\ Cardinality(a) \in Nat
         /\ \A b : b \subseteq a => /\ IsFiniteSet(b) /\ Cardinality(b) \in Nat
                                    /\ Cardinality(b) <= Cardinality(a)
         /\ \A x : /\ IsFiniteSet(a \ {x}) /\ Cardinality(a \ {x}) \in Nat
                   /\ x \in a => Cardinality(a \ {x}) = Cardinality(a) - 1
                   /\ x \notin a => Cardinality(a \ {x}) = Cardinality(a)
                   /\ IsFiniteSet(a \cup {x}) /\ Cardinality(a \cup {x}) \in Nat
                   /\ Cardinality(a \cup {x}) <= Cardinality(a) + 1
<1>1. Cardinality(a) \in Nat BY FS_CardinalityType
<1>2. ASSUME NEW b, b \subseteq a
      PROVE  IsFiniteSet(b) /\ Cardinality(b) \in Nat /\ Cardinality(b) <= Cardinality(a)
  <2>1. b \in SUBSET a BY <1>2
  <2> QED BY <2>1, FS_Subset, FS_CardinalityType
<1>3. ASSUME NEW x
      PROVE  /\ IsFiniteSet(a \ {x}) /\ Cardinality(a \ {x}) \in Nat
             /\ x \in a => Cardinality(a \ {x}) = Cardinality(a) - 1
             /\ x \notin a => Cardinality(a \ {x}) = Cardinality(a)
  <2>1. /\ IsFiniteSet(a \ {x})
        /\ Cardinality(a \ {x}) = IF x \in a THEN Cardinality(a) - 1 ELSE Cardinality(a)
    BY FS_RemoveElement
  <2>2. Cardinality(a \ {x}) \in Nat BY <2>1, FS_CardinalityType
  <2> QED BY <2>1, <2>2
<1>4. ASSUME NEW x
      PROVE  /\ IsFiniteSet(a \cup {x}) /\ Cardinality(a \cup {x}) \in Nat
             /\ Cardinality(a \cup {x}) <= Cardinality(a) + 1
  <2>1. /\ IsFiniteSet(a \cup {x})
        /\ Cardinality(a \cup {x}) = IF x \in a THEN Cardinality(a) ELSE Cardinality(a) + 1
    BY FS_AddElement
  <2>2. Cardinality(a \cup {x}) \in Nat BY <2>1, FS_CardinalityType
  <2> QED BY <1>1, <2>1, <2>2
<1> QED BY <1>1, <1>2, <1>3, <1>4

(* No more TLPs are awaited than bridge_send_tlp's bound counts. *)
LEMMA AwaitedCounted ==
  ASSUME Shape, TypeOK
  PROVE  Cardinality(Unclaimed) \in Nat /\ Cardinality(Awaited) <= Cardinality(Unclaimed)
<1>1. PICK u, a : u = Unclaimed /\ a = Awaited OBVIOUS
<1>2. IsFiniteSet(Tlps)
  <2> DEFINE P == (0 .. MaxTlps) \X Kinds
             f == [p \in P |-> [id |-> p[1], kind |-> p[2]]]
  <2>1. IsFiniteSet(0 .. MaxTlps) BY ConstantBounds, FS_Interval
  <2>2. IsFiniteSet(Kinds)
    <3>1. IsFiniteSet({"read"} \cup {"cfgwr"}) BY FS_Singleton, FS_AddElement
    <3>2. IsFiniteSet(({"read"} \cup {"cfgwr"}) \cup {"memwr"}) BY <3>1, FS_AddElement
    <3>3. Kinds = ({"read"} \cup {"cfgwr"}) \cup {"memwr"} BY DEF Kinds
    <3> QED BY <3>2, <3>3
  <2>3. IsFiniteSet(P) BY <2>1, <2>2, FS_Product
  <2>4. f \in [P -> Tlps] BY DEF Tlps
  <2>5. \A t \in Tlps : \E p \in P : f[p] = t
    <3> SUFFICES ASSUME NEW t \in Tlps PROVE \E p \in P : f[p] = t
      OBVIOUS
    <3>1. <<t.id, t.kind>> \in P /\ t = [id |-> t.id, kind |-> t.kind] BY DEF Tlps
    <3> QED BY <3>1
  <2> HIDE DEF f, P
  <2>6. f \in Surjection(P, Tlps) BY <2>4, <2>5 DEF Surjection
  <2> QED BY <2>3, <2>6, FS_Surjection
<1>3. u \subseteq Tlps
  <2>1. reqRing \in Seq(Tlps) /\ ep \subseteq Tlps
        /\ cplRing \in Seq([tag : 0 .. TagSpace - 1, of : 0 .. MaxTlps])
    BY DEF TypeOK
  <2>2. Range(reqRing) \subseteq Tlps BY <2>1, RangeOfSeq
  <2>3. Range(cplRing) \subseteq [tag : 0 .. TagSpace - 1, of : 0 .. MaxTlps] BY <2>1, RangeOfSeq
  <2>4. {[id |-> c.of, kind |-> "cfgwr"] : c \in Range(cplRing)} \subseteq Tlps
    BY <2>3 DEF Tlps, Kinds
  <2> QED BY <1>1, <2>1, <2>2, <2>4 DEF Unclaimed
<1>4. IsFiniteSet(u) /\ Cardinality(u) \in Nat BY <1>2, <1>3, Counting
<1>5. \A i \in a : \E r \in u : r.id = i BY <1>1, AwaitedIsUnclaimed
<1> DEFINE w == {r \in u : r.id \in a}
           g == [r \in w |-> r.id]
<1>6. w \subseteq u OBVIOUS
<1>7. g \in [w -> a] /\ \A i \in a : \E r \in w : g[r] = i BY <1>5
<1> HIDE DEF w, g
<1>8. g \in Surjection(w, a) BY <1>7 DEF Surjection
<1>9. IsFiniteSet(w) /\ Cardinality(w) \in Nat /\ Cardinality(w) <= Cardinality(u) BY <1>4, <1>6, Counting
<1>10. IsFiniteSet(a) /\ Cardinality(a) <= Cardinality(w) BY <1>8, <1>9, FS_Surjection
<1>11. Cardinality(a) \in Nat BY <1>10, FS_CardinalityType
<1> QED BY <1>1, <1>4, <1>9, <1>10, <1>11

Answers == [for : 0 .. MaxTlps, how : Outcomes, got : 0 .. MaxTlps, behind : Nat]

LEMMA FailsType ==
  ASSUME ahead \in Nat
  PROVE  \A i \in 0 .. MaxTlps, why \in Outcomes : Fails(i, why) \in Answers
BY DEF Fails, Answers

LEMMA CallerTypes ==
  ASSUME TypeInv, Caller, Sockets'
  PROVE  TypeOK' /\ Running'
<1> USE ConstantBounds DEF Answers
<1>0. TypeOK /\ Running /\ Sockets /\ Shape /\ ahead \in Nat
  BY DEF TypeInv, AnnounceInv, TypeOK
<1>v. \A x : Among(x, toVcs) \in Nat BY <1>0, ToVcsCount
<1>m. "tlp" \in Messages /\ "vf" \in Messages /\ "shutdown" \in Messages BY DEF Messages
<1>c. toVcs' \in Seq(Messages) /\ toQemu' \in Seq({"cpl"}) BY DEF Sockets
<1>1. ASSUME UNCHANGED <<cur, nextTlp, pollerVars, simVars, rings>>, stop' \in BOOLEAN,
             cpu' \in {"idle", "notify", "wait", "joining", "down"},
             drops' \in 0 .. DrainGuard, cpu' = "wait" => drops' < DrainGuard,
             answer' \in Answers, ahead' \in Nat,
             vfSent' \in 0 .. MaxVfEvents,
             SimUp => vfSeen + Among("vf", toVcs') <= vfSent'
      PROVE  TypeOK' /\ Running'
  <2>1. TypeOK' BY <1>0, <1>1, <1>c DEF TypeOK, pollerVars, simVars, dmaVars, dmaTagVars, rings
  <2>2. Running' BY <1>0, <1>1 DEF Running, pollerVars, simVars, dmaVars, dmaTagVars, SimUp
  <2> QED BY <2>1, <2>2
<1>2. ASSUME NEW k \in Kinds, SendTlp(k) PROVE TypeOK' /\ Running'
  <2>1. PICK r : r = [id |-> nextTlp, kind |-> k] OBVIOUS
  <2>2. nextTlp \in 0 .. MaxTlps /\ nextTlp' \in 0 .. MaxTlps + 1
    BY <1>0, <1>2 DEF SendTlp, TypeOK
  <2>3. r \in Tlps BY <2>1, <2>2 DEF Tlps
  <2>4. UNCHANGED <<drops, pollerVars, simVars, cplRing, dmaReqRing, dmaCplRing, toVcs, toQemu,
                    stop, vfSent>>
    BY <1>2 DEF SendTlp
  <2>5. cpu' \in {"idle", "notify"} BY <1>2 DEF SendTlp
  <2>6. reqRing' \in Seq(Tlps) /\ Len(reqRing') <= ReqSlots /\ cur' \in Tlps
        /\ answer' \in Answers /\ ahead' \in Nat
    <3>1. reqRing \in Seq(Tlps) /\ Len(reqRing) <= ReqSlots BY <1>0 DEF TypeOK
    <3>2. CASE ReqRoom
      <4>1. /\ reqRing' = Append(reqRing, r) /\ cur' = r /\ answer' = answer
            /\ ahead' = Cardinality(Unclaimed)
        BY <1>2, <2>1, <3>2 DEF SendTlp
      <4>2. Len(reqRing) < ReqSlots /\ Len(reqRing) \in Nat BY <3>1, <3>2, SeqFacts DEF ReqRoom
      <4>3. Append(reqRing, r) \in Seq(Tlps) /\ Len(Append(reqRing, r)) = Len(reqRing) + 1
        BY <2>3, <3>1, AppendProperties
      <4>4. ahead' \in Nat BY <1>0, <4>1, AwaitedCounted
      <4> QED BY <1>0, <2>3, <4>1, <4>2, <4>3, <4>4 DEF TypeOK
    <3>3. CASE ~ReqRoom
      <4>1. UNCHANGED <<reqRing, cur, ahead>> /\ (answer' = answer \/ answer' = Fails(nextTlp, "full"))
        BY <1>2, <3>3 DEF SendTlp
      <4>2. "full" \in Outcomes BY DEF Outcomes
      <4>3. Fails(nextTlp, "full") \in Answers
        BY <1>0, <2>2, <4>2, FailsType
      <4> QED BY <1>0, <3>1, <4>1, <4>3 DEF TypeOK
    <3> QED BY <3>2, <3>3
  <2>7. TypeOK' BY <1>0, <2>2, <2>4, <2>5, <2>6 DEF TypeOK, pollerVars, simVars, dmaVars, dmaTagVars
  <2>8. Running' BY <1>0, <2>4, <2>5 DEF Running, pollerVars, simVars, dmaVars, dmaTagVars, SimUp
  <2> QED BY <2>7, <2>8
<1>3. CASE NotifyTlp
  <2>1. Among("vf", toVcs') = Among("vf", toVcs)
    BY <1>0, <1>3, <1>m, ToVcsNotify DEF NotifyTlp
  <2>2. cur.id \in 0 .. MaxTlps /\ "closed" \in Outcomes BY <1>0 DEF TypeOK, Tlps, Outcomes
  <2>3. answer' \in Answers
    <3>1. answer' = answer \/ answer' = Fails(cur.id, "closed") BY <1>3 DEF NotifyTlp
    <3> QED BY <1>0, <2>2, <3>1, FailsType DEF TypeOK
  <2>4. (cpu' = "wait" /\ drops' = 0) \/ (cpu' = "idle" /\ drops' = drops)
    BY <1>3 DEF NotifyTlp
  <2>5. UNCHANGED <<cur, ahead, nextTlp, pollerVars, simVars, rings, stop, vfSent>>
    BY <1>3 DEF NotifyTlp
  <2>6. stop' \in BOOLEAN /\ vfSent' \in 0 .. MaxVfEvents BY <1>0, <2>5 DEF TypeOK
  <2>7. drops' \in 0 .. DrainGuard /\ (cpu' = "wait" => drops' < DrainGuard)
    <3>1. drops \in 0 .. DrainGuard BY <1>0 DEF TypeOK
    <3> QED BY <2>4, <3>1
  <2>8. SimUp => vfSeen + Among("vf", toVcs') <= vfSent' BY <1>0, <2>1, <2>5 DEF Running
  <2>9. ahead' \in Nat BY <1>0, <2>5
  <2> QED BY <1>1, <2>3, <2>4, <2>5, <2>6, <2>7, <2>8, <2>9
<1>4. CASE WaitCompletion
  <2>1. UNCHANGED <<cur, ahead, nextTlp, pollerVars, simVars, reqRing, dmaReqRing, dmaCplRing, toVcs,
                    stop, vfSent>> /\ cpu = "wait"
    BY <1>4 DEF WaitCompletion
  <2>2. /\ cur.id \in 0 .. MaxTlps /\ "empty" \in Outcomes /\ "drained" \in Outcomes
        /\ "answered" \in Outcomes
    BY <1>0 DEF TypeOK, Tlps, Outcomes
  <2>t. /\ answer \in Answers
        /\ cplRing \in Seq([tag : 0 .. TagSpace - 1, of : 0 .. MaxTlps])
        /\ Len(cplRing) <= CplSlots
        /\ drops \in 0 .. DrainGuard /\ drops < DrainGuard
    BY <1>0, <2>1 DEF TypeOK, Running
  <2>3. /\ cplRing' \in Seq([tag : 0 .. TagSpace - 1, of : 0 .. MaxTlps])
        /\ Len(cplRing') <= CplSlots /\ cpu' \in {"idle", "wait"}
        /\ drops' \in 0 .. DrainGuard /\ (cpu' = "wait" => drops' < DrainGuard)
        /\ answer' \in Answers
    <3>1. CASE cplRing = <<>>
      <4>1. answer' = Fails(cur.id, "empty") /\ cpu' = "idle" /\ UNCHANGED <<drops, cplRing>>
        BY <1>4, <3>1 DEF WaitCompletion
      <4> QED BY <1>0, <2>2, <2>t, <4>1, FailsType
    <3>2. CASE cplRing # <<>>
      <4>1. PICK i : i = Head(cplRing).of OBVIOUS
      <4>2. /\ Head(cplRing) \in [tag : 0 .. TagSpace - 1, of : 0 .. MaxTlps]
            /\ Tail(cplRing) \in Seq([tag : 0 .. TagSpace - 1, of : 0 .. MaxTlps])
            /\ Len(Tail(cplRing)) = Len(cplRing) - 1 /\ Len(cplRing) \in Nat
        BY <2>t, <3>2, SeqFacts
      <4>3. i \in 0 .. MaxTlps BY <4>1, <4>2
      <4>4. cplRing' = Tail(cplRing) /\ Claim(Head(cplRing).tag, i)
        BY <1>4, <3>2, <4>1 DEF WaitCompletion
      <4>5. CASE Head(cplRing).tag = Tag(cur.id)
        <5>1. /\ answer' = Answered(i)
              /\ cpu' = "idle" /\ UNCHANGED drops
          BY <4>4, <4>5 DEF Claim
        <5>2. answer' \in Answers BY <1>0, <2>2, <4>3, <5>1 DEF Answered
        <5> QED BY <2>t, <4>2, <4>4, <5>1, <5>2
      <4>6. CASE Head(cplRing).tag # Tag(cur.id)
        <5>1. /\ drops' = drops + 1
              /\ IF drops + 1 = DrainGuard
                 THEN answer' = Fails(cur.id, "drained") /\ cpu' = "idle"
                 ELSE UNCHANGED <<answer, cpu>>
          BY <4>4, <4>6 DEF Claim
        <5>2. answer' \in Answers
          BY <1>0, <2>2, <2>t, <5>1, FailsType
        <5>3. drops' \in 0 .. DrainGuard /\ cpu' \in {"idle", "wait"}
              /\ (cpu' = "wait" => drops' < DrainGuard)
          BY <2>1, <2>t, <5>1
        <5> QED BY <2>t, <4>2, <4>4, <5>2, <5>3
      <4> QED BY <4>5, <4>6
    <3> QED BY <3>1, <3>2
  <2>4. TypeOK' BY <1>0, <1>c, <2>1, <2>3 DEF TypeOK, pollerVars, simVars, dmaVars, dmaTagVars
  <2>5. Running' BY <1>0, <2>1, <2>3 DEF Running, pollerVars, simVars, dmaVars, dmaTagVars, SimUp
  <2> QED BY <2>4, <2>5
<1>5. CASE WaitClosed
  <2>1. cur.id \in 0 .. MaxTlps /\ "closed" \in Outcomes BY <1>0 DEF TypeOK, Tlps, Outcomes
  <2>2. answer' \in Answers
    BY <1>0, <1>5, <2>1, FailsType DEF WaitClosed
  <2> QED BY <1>0, <1>1, <1>5, <2>2 DEF WaitClosed, TypeOK, Running
<1>6. CASE SendVfEvent
  <2>1. vfSent' = vfSent + 1 /\ vfSent < MaxVfEvents BY <1>6 DEF SendVfEvent
  <2>2. SimUp => Among("vf", toVcs') = Among("vf", toVcs) + 1
    BY <1>0, <1>6, <1>m, ToVcsNotify DEF SendVfEvent
  <2>3. vfSent \in 0 .. MaxVfEvents /\ vfSeen \in 0 .. MaxVfEvents BY <1>0 DEF TypeOK
  <2>4. SimUp => vfSeen + Among("vf", toVcs) <= vfSent BY <1>0 DEF Running
  <2>5. SimUp => vfSeen + Among("vf", toVcs') <= vfSent' BY <1>v, <2>1, <2>2, <2>3, <2>4
  <2>6. vfSent' \in 0 .. MaxVfEvents BY <2>1, <2>3
  <2>7. UNCHANGED <<qemuVars, pollerVars, simVars, rings, stop>> BY <1>6 DEF SendVfEvent
  <2> QED BY <1>0, <1>1, <2>5, <2>6, <2>7 DEF TypeOK, Running, qemuVars
<1>7. CASE StopPoller BY <1>0, <1>1, <1>7 DEF StopPoller, TypeOK, Running
<1>8. CASE Destroy
  <2>1. Among("vf", toVcs') = Among("vf", toVcs)
    BY <1>0, <1>8, <1>m, ToVcsNotify DEF Destroy
  <2> QED BY <1>0, <1>1, <1>8, <2>1 DEF Destroy, TypeOK, Running
<1> QED BY <1>2, <1>3, <1>4, <1>5, <1>6, <1>7, <1>8 DEF Caller

LEMMA PollerTypes ==
  ASSUME TypeInv, Poller, Sockets'
  PROVE  TypeOK' /\ Running'
<1> USE ConstantBounds
<1>0. TypeOK /\ Running /\ Sockets BY DEF TypeInv, AnnounceInv
<1>c. toVcs' \in Seq(Messages) /\ toQemu' \in Seq({"cpl"}) BY DEF Sockets
<1>1. Among("vf", toVcs') = Among("vf", toVcs) /\ UNCHANGED <<qemuVars, simVars, reqRing, cplRing, stop, vfSent>>
  <2>1. "dmacpl" \in Messages BY DEF Messages
  <2>2. CASE PollerNotify BY <1>0, <2>1, <2>2, ToVcsNotify DEF PollerNotify, pollerIdles
  <2>3. CASE ~PollerNotify
    BY <2>3 DEF Poller, PollerCheck, PollerTake, PollerCopy, PollerPost, pollerIdles
  <2> QED BY <2>2, <2>3
<1>2. /\ dmaReqRing \in Seq(1 .. MaxDmas) /\ dmaCplRing \in Seq(1 .. MaxDmas)
      /\ Len(dmaReqRing) <= DmaSlots /\ Len(dmaCplRing) <= DmaSlots
      /\ Len(dmaReqRing) \in Nat /\ Len(dmaCplRing) \in Nat
      /\ serving \in 0 .. MaxDmas /\ copied \subseteq 1 .. MaxDmas
      /\ poller \in {"copy", "post", "notify"} => serving \in 1 .. MaxDmas
  <2>1. /\ dmaReqRing \in Seq(1 .. MaxDmas) /\ dmaCplRing \in Seq(1 .. MaxDmas)
        /\ Len(dmaReqRing) <= DmaSlots /\ Len(dmaCplRing) <= DmaSlots
        /\ serving \in 0 .. MaxDmas /\ copied \subseteq 1 .. MaxDmas
    BY <1>0 DEF TypeOK
  <2>2. Len(dmaReqRing) \in Nat /\ Len(dmaCplRing) \in Nat BY <2>1, LenProperties
  <2>3. poller \in {"copy", "post", "notify"} => serving > 0 BY <1>0 DEF Running
  <2> QED BY <2>1, <2>2, <2>3
<1>3. /\ poller' \in {"check", "drain", "copy", "post", "notify", "gone"}
      /\ dmaReqRing' \in Seq(1 .. MaxDmas) /\ dmaCplRing' \in Seq(1 .. MaxDmas)
      /\ Len(dmaReqRing') <= DmaSlots /\ Len(dmaCplRing') <= DmaSlots
      /\ serving' \in 0 .. MaxDmas /\ copied' \subseteq 1 .. MaxDmas
      /\ poller' \in {"copy", "post", "notify"} => serving' > 0
  <2>1. CASE PollerCheck BY <1>2, <2>1 DEF PollerCheck
  <2>2. CASE PollerTake
    <3>1. CASE dmaReqRing = <<>> BY <1>2, <2>2, <3>1 DEF PollerTake
    <3>2. CASE dmaReqRing # <<>>
      <4>1. /\ Head(dmaReqRing) \in 1 .. MaxDmas /\ Tail(dmaReqRing) \in Seq(1 .. MaxDmas)
            /\ Len(Tail(dmaReqRing)) = Len(dmaReqRing) - 1
        BY <1>2, <3>2, SeqFacts
      <4>2. /\ poller' = "copy" /\ serving' = Head(dmaReqRing) /\ dmaReqRing' = Tail(dmaReqRing)
            /\ UNCHANGED <<copied, dmaCplRing>>
        BY <2>2, <3>2 DEF PollerTake
      <4>3. serving' \in 1 .. MaxDmas /\ dmaReqRing' \in Seq(1 .. MaxDmas) BY <4>1, <4>2
      <4>4. Len(dmaReqRing') <= DmaSlots BY <1>2, <4>1, <4>2
      <4> QED BY <1>2, <4>2, <4>3, <4>4
    <3> QED BY <3>1, <3>2
  <2>3. CASE PollerCopy BY <1>2, <2>3 DEF PollerCopy
  <2>4. CASE PollerPost
    <3>1. serving \in 1 .. MaxDmas BY <1>2, <2>4 DEF PollerPost
    <3>2. /\ Append(dmaCplRing, serving) \in Seq(1 .. MaxDmas)
          /\ Len(Append(dmaCplRing, serving)) = Len(dmaCplRing) + 1
      BY <1>2, <3>1, AppendProperties
    <3>3. CASE Len(dmaCplRing) < DmaSlots
      <4>1. /\ poller' = "notify" /\ dmaCplRing' = Append(dmaCplRing, serving)
            /\ UNCHANGED <<serving, copied, dmaReqRing>>
        BY <2>4, <3>3 DEF PollerPost
      <4>2. Len(dmaCplRing') <= DmaSlots BY <1>2, <3>2, <3>3, <4>1
      <4>3. dmaCplRing' \in Seq(1 .. MaxDmas) /\ serving' > 0 BY <3>1, <3>2, <4>1
      <4> QED BY <1>2, <4>1, <4>2, <4>3
    <3>4. CASE ~(Len(dmaCplRing) < DmaSlots) BY <1>2, <2>4, <3>4 DEF PollerPost
    <3> QED BY <3>3, <3>4
  <2>5. CASE PollerNotify BY <1>2, <2>5 DEF PollerNotify
  <2> QED BY <2>1, <2>2, <2>3, <2>4, <2>5 DEF Poller
<1>4. TypeOK' BY <1>0, <1>c, <1>1, <1>3 DEF TypeOK, qemuVars, simVars, dmaVars, dmaTagVars
<1>5. Running' BY <1>0, <1>1, <1>3 DEF Running, qemuVars, simVars, dmaVars, dmaTagVars, SimUp
<1> QED BY <1>4, <1>5

(* A count of deferred notifications never exceeds the TLPs of the ring.   *)
LEMMA PendingFits ==
  ASSUME TypeInv, Shape', Sockets', EntriesAnnounced', Numbered', nextTlp' = nextTlp,
         SimUp' \/ pendingReady' = pendingReady
  PROVE  pendingReady' \in 0 .. MaxTlps + 1
<1>1. pendingReady \in 0 .. MaxTlps + 1 /\ nextTlp \in 0 .. MaxTlps + 1
  BY DEF TypeInv, TypeOK
<1>2. CASE SimUp'
  <2>1. Len(reqRing') = pendingReady' + Among("tlp", toVcs') + IF cpu' = "notify" THEN 1 ELSE 0
    BY <1>2 DEF EntriesAnnounced, Among
  <2>2. PICK n, a : n = Len(reqRing') /\ a = Among("tlp", toVcs') OBVIOUS
  <2>3. n \in Nat /\ a \in Nat /\ pendingReady' \in Nat
    BY <2>2, LenProperties, PlacesFinite DEF Shape, Sockets
  <2>4. n <= nextTlp'
    <3>1. reqRing' \in Seq(Reads) /\ nextTlp' \in Nat BY DEF Shape, Reads
    <3>2. PICK m \in Nat : m = nextTlp' BY <3>1
    <3>3. PICK q \in Seq(Reads) : q = reqRing' BY <3>1
    <3>4. /\ \A i \in 1 .. Len(q) : q[i].id < m
          /\ \A i, j \in 1 .. Len(q) : i < j => q[i].id < q[j].id
      BY <3>2, <3>3 DEF Numbered
    <3> QED BY <2>2, <3>2, <3>3, <3>4, IdsFit
  <2>5. pendingReady' <= n BY <2>1, <2>2, <2>3
  <2> QED BY <1>1, <2>3, <2>4, <2>5, ConstantBounds
<1>3. CASE ~SimUp' BY <1>1, <1>3
<1> QED BY <1>2, <1>3

LEMMA SimulatorTypes ==
  ASSUME TypeInv, Simulator, Shape', Sockets', EntriesAnnounced', Numbered', TagsCounted'
  PROVE  TypeOK' /\ Running'
<1> USE ConstantBounds
<1>0. TypeOK /\ Running /\ Sockets BY DEF TypeInv, AnnounceInv
<1>v. \A x : Among(x, toVcs) \in Nat BY <1>0, ToVcsCount
<1>1. UNCHANGED <<qemuVars, pollerVars, stop, vfSent>> /\ SimUp
  BY DEF Simulator, Poll, PollDeferred, PollSocket, PollClosed, Respond, AnnounceCompletion,
         StartDma, DmaReceive, DmaTimeout, SimDies, simIdles, SimUp
<1>2. toVcs' \in Seq(Messages) /\ toQemu' \in Seq({"cpl"})
      /\ sim' \in {"poll", "announce", "dma", "exited"}
  BY DEF Sockets
<1>3. reqRing' \in Seq(Tlps) /\ Len(reqRing') <= ReqSlots /\ ep' \subseteq Tlps
  <2>1. reqRing \in Seq(Tlps) /\ Len(reqRing) <= ReqSlots /\ ep \subseteq Tlps BY <1>0 DEF TypeOK
  <2>2. \/ UNCHANGED <<reqRing, ep>>
        \/ reqRing # <<>> /\ reqRing' = Tail(reqRing) /\ Accept(Head(reqRing))
        \/ reqRing' = reqRing /\ ep' \subseteq ep
    BY DEF Simulator, Poll, PollDeferred, PollSocket, PollClosed, Respond, AnnounceCompletion,
           StartDma, DmaReceive, DmaTimeout, SimDies, rings
  <2>3. ASSUME reqRing # <<>>, reqRing' = Tail(reqRing), Accept(Head(reqRing))
        PROVE  reqRing' \in Seq(Tlps) /\ Len(reqRing') <= ReqSlots /\ ep' \subseteq Tlps
    <3>1. Head(reqRing) \in Tlps /\ Tail(reqRing) \in Seq(Tlps) /\ Len(reqRing) \in Nat
          /\ Len(Tail(reqRing)) = Len(reqRing) - 1
      BY <2>1, <2>3, SeqFacts
    <3>2. Len(reqRing') <= ReqSlots BY <2>1, <2>3, <3>1
    <3> QED BY <2>1, <2>3, <3>1, <3>2 DEF Accept
  <2> QED BY <2>1, <2>2, <2>3
<1>4. cplRing' \in Seq([tag : 0 .. TagSpace - 1, of : 0 .. MaxTlps]) /\ Len(cplRing') <= CplSlots
  <2>1. /\ cplRing \in Seq([tag : 0 .. TagSpace - 1, of : 0 .. MaxTlps])
        /\ Len(cplRing) <= CplSlots /\ ep \subseteq Tlps
    BY <1>0 DEF TypeOK
  <2>2. ASSUME NEW r \in ep, cplRing' = Append(cplRing, [tag |-> EndpointTag(r.id), of |-> r.id]),
               Len(cplRing) < CplSlots
        PROVE  cplRing' \in Seq([tag : 0 .. TagSpace - 1, of : 0 .. MaxTlps])
               /\ Len(cplRing') <= CplSlots
    <3>1. PICK c : c = [tag |-> EndpointTag(r.id), of |-> r.id] OBVIOUS
    <3>2. r.id \in 0 .. MaxTlps BY <2>1 DEF Tlps
    <3>3. EndpointTag(r.id) \in 0 .. TagSpace - 1 BY <3>2, EndpointTagFits
    <3>4. c \in [tag : 0 .. TagSpace - 1, of : 0 .. MaxTlps] BY <3>1, <3>2, <3>3
    <3>5. /\ Append(cplRing, c) \in Seq([tag : 0 .. TagSpace - 1, of : 0 .. MaxTlps])
          /\ Len(Append(cplRing, c)) = Len(cplRing) + 1 /\ Len(cplRing) \in Nat
      BY <2>1, <3>4, SeqFacts
    <3>6. cplRing' = Append(cplRing, c) BY <2>2, <3>1
    <3>7. Len(cplRing') <= CplSlots BY <2>2, <3>5, <3>6
    <3> QED BY <3>5, <3>6, <3>7
  <2>3. \/ UNCHANGED cplRing
        \/ \E r \in ep : /\ cplRing' = Append(cplRing, [tag |-> EndpointTag(r.id), of |-> r.id])
                         /\ Len(cplRing) < CplSlots
    BY DEF Simulator, Poll, PollDeferred, PollSocket, PollClosed, Respond, AnnounceCompletion,
           StartDma, DmaReceive, DmaTimeout, SimDies, rings
  <2> QED BY <2>1, <2>2, <2>3
<1>5. pendingReady' \in 0 .. MaxTlps + 1
  <2>1. nextTlp' = nextTlp BY <1>1 DEF qemuVars
  <2>2. SimUp' \/ pendingReady' = pendingReady \/ pendingReady' = 0
    BY DEF Simulator, Poll, PollDeferred, PollSocket, PollClosed, Respond, AnnounceCompletion,
           StartDma, DmaReceive, DmaReturns, DmaContinues, DmaTimeout, SimDies, SimUp
  <2> QED BY <2>1, <2>2, PendingFits
<1>6. vfSeen' \in 0 .. MaxVfEvents /\ (SimUp' => vfSeen' + Among("vf", toVcs') <= vfSent')
  <2>1. /\ vfSeen \in 0 .. MaxVfEvents /\ vfSent \in 0 .. MaxVfEvents /\ vfSent' = vfSent
        /\ vfSeen + Among("vf", toVcs) <= vfSent
    BY <1>0, <1>1 DEF TypeOK, Running
  <2>2. \/ UNCHANGED <<vfSeen, toVcs>>
        \/ /\ toVcs # <<>> /\ toVcs' = Tail(toVcs)
           /\ vfSeen' = vfSeen \/ (vfSeen' = vfSeen + 1 /\ Head(toVcs) = "vf")
    BY DEF Simulator, Poll, PollDeferred, PollSocket, PollClosed, Respond, AnnounceCompletion,
           StartDma, DmaReceive, DmaTimeout, SimDies
  <2>3. CASE UNCHANGED <<vfSeen, toVcs>> BY <2>1, <2>3 DEF Among
  <2>4. CASE /\ toVcs # <<>> /\ toVcs' = Tail(toVcs)
             /\ vfSeen' = vfSeen \/ (vfSeen' = vfSeen + 1 /\ Head(toVcs) = "vf")
    <3>1. PICK a \in Nat : a = Among("vf", toVcs) BY <1>v
    <3>2. PICK b : b = Among("vf", toVcs') OBVIOUS
    <3>3. b = a \/ (b = a - 1 /\ Head(toVcs) = "vf") BY <1>0, <2>4, <3>1, <3>2, ToVcsTail
    <3>4. Head(toVcs) = "vf" => b = a - 1 BY <1>0, <2>4, <3>1, <3>2, ToVcsTail
    <3>5. b \in Nat BY <1>2, <3>2, PlacesFinite
    <3>6. vfSeen' + b <= vfSent BY <2>1, <2>4, <3>1, <3>3, <3>4
    <3>7. vfSeen' \in 0 .. MaxVfEvents BY <2>1, <2>4, <3>5, <3>6
    <3> QED BY <2>1, <3>2, <3>6, <3>7
  <2> QED BY <2>2, <2>3, <2>4
<1>7. /\ dmaReqRing' \in Seq(1 .. MaxDmas) /\ dmaCplRing' \in Seq(1 .. MaxDmas)
      /\ Len(dmaReqRing') <= DmaSlots /\ Len(dmaCplRing') <= DmaSlots
      /\ nextDma' \in 1 .. MaxDmas + 1 /\ tries' \in 0 .. WaitLimit /\ gaveUp' \in BOOLEAN
      /\ dmaResult' \in [call : 0 .. MaxDmas, ok : BOOLEAN]
      /\ sim' = "dma" => tries' < WaitLimit /\ nextDma' > 1
  <2>0. /\ dmaReqRing \in Seq(1 .. MaxDmas) /\ dmaCplRing \in Seq(1 .. MaxDmas)
        /\ Len(dmaReqRing) <= DmaSlots /\ Len(dmaCplRing) <= DmaSlots
        /\ nextDma \in 1 .. MaxDmas + 1 /\ tries \in 0 .. WaitLimit /\ gaveUp \in BOOLEAN
        /\ dmaResult \in [call : 0 .. MaxDmas, ok : BOOLEAN]
        /\ sim = "dma" => tries < WaitLimit /\ nextDma > 1
    BY <1>0 DEF TypeOK, Running
  <2>1. CASE UNCHANGED <<dmaReqRing, dmaCplRing, dmaVars>> /\ (sim' = "dma" => sim = "dma")
    BY <2>0, <2>1 DEF dmaVars, dmaTagVars
  <2>2. CASE \E k \in DmaCalls : StartDma(k)
    <3>1. nextDma \in 1 .. MaxDmas /\ nextDma' = nextDma + 1 BY <2>0, <2>2 DEF StartDma
    <3>2. CASE Len(dmaReqRing) < DmaSlots
      <4>1. /\ dmaReqRing' = Append(dmaReqRing, nextDma) /\ sim' = "dma" /\ tries' = 0
            /\ UNCHANGED <<dmaResult, gaveUp, dmaCplRing>>
        BY <2>2, <3>2 DEF StartDma
      <4>2. /\ Append(dmaReqRing, nextDma) \in Seq(1 .. MaxDmas)
            /\ Len(Append(dmaReqRing, nextDma)) = Len(dmaReqRing) + 1 /\ Len(dmaReqRing) \in Nat
        BY <2>0, <3>1, SeqFacts
      <4>3. Len(dmaReqRing') <= DmaSlots BY <3>2, <4>1, <4>2
      <4> QED BY <2>0, <3>1, <4>1, <4>2, <4>3
    <3>3. CASE ~(Len(dmaReqRing) < DmaSlots)
      <4>1. /\ dmaResult' = [call |-> nextDma, ok |-> FALSE]
            /\ UNCHANGED <<dmaReqRing, sim, tries, gaveUp, dmaCplRing>>
        BY <2>2, <3>3 DEF StartDma
      <4> QED BY <2>0, <3>1, <4>1
    <3> QED BY <3>2, <3>3
  <2>3. ASSUME sim = "dma", UNCHANGED <<dmaReqRing, nextDma>>,
               \/ \E ok \in BOOLEAN : DmaReturns(ok) /\ UNCHANGED tries /\ gaveUp' \in BOOLEAN
               \/ DmaContinues,
               \/ UNCHANGED dmaCplRing
               \/ dmaCplRing # <<>> /\ dmaCplRing' = Tail(dmaCplRing)
        PROVE  /\ dmaReqRing' \in Seq(1 .. MaxDmas) /\ dmaCplRing' \in Seq(1 .. MaxDmas)
               /\ Len(dmaReqRing') <= DmaSlots /\ Len(dmaCplRing') <= DmaSlots
               /\ nextDma' \in 1 .. MaxDmas + 1 /\ tries' \in 0 .. WaitLimit /\ gaveUp' \in BOOLEAN
               /\ dmaResult' \in [call : 0 .. MaxDmas, ok : BOOLEAN]
               /\ sim' = "dma" => tries' < WaitLimit /\ nextDma' > 1
    <3>1. dmaCall \in 0 .. MaxDmas BY <2>0 DEF dmaCall
    <3>2. \A ok \in BOOLEAN : DmaReturns(ok) =>
            dmaResult' \in [call : 0 .. MaxDmas, ok : BOOLEAN] /\ sim' = "poll"
      BY <3>1 DEF DmaReturns
    <3>3. /\ tries' \in 0 .. WaitLimit /\ gaveUp' \in BOOLEAN
          /\ dmaResult' \in [call : 0 .. MaxDmas, ok : BOOLEAN]
          /\ sim' = "dma" => tries' < WaitLimit
      <4>1. CASE \E ok \in BOOLEAN : DmaReturns(ok) /\ UNCHANGED tries /\ gaveUp' \in BOOLEAN
        BY <2>0, <3>2, <4>1
      <4>2. CASE DmaContinues
        <5>1. tries' = tries + 1 /\ tries' \in 0 .. WaitLimit
          BY <2>0, <2>3, <4>2 DEF DmaContinues
        <5>2. CASE tries + 1 = WaitLimit
          <6>1. DmaReturns(FALSE) /\ gaveUp' = TRUE BY <4>2, <5>2 DEF DmaContinues
          <6> QED BY <3>2, <5>1, <6>1
        <5>3. CASE tries + 1 # WaitLimit
          <6>1. UNCHANGED <<sim, dmaResult, gaveUp>> BY <4>2, <5>3 DEF DmaContinues
          <6> QED BY <2>0, <2>3, <5>1, <5>3, <6>1
        <5> QED BY <5>2, <5>3
      <4> QED BY <2>3, <4>1, <4>2
    <3>4. dmaCplRing' \in Seq(1 .. MaxDmas) /\ Len(dmaCplRing') <= DmaSlots
      <4>1. dmaCplRing # <<>> => /\ Tail(dmaCplRing) \in Seq(1 .. MaxDmas) /\ Len(dmaCplRing) \in Nat
                                 /\ Len(Tail(dmaCplRing)) = Len(dmaCplRing) - 1
        BY <2>0, SeqFacts
      <4>2. CASE UNCHANGED dmaCplRing BY <2>0, <4>2
      <4>3. CASE dmaCplRing # <<>> /\ dmaCplRing' = Tail(dmaCplRing) BY <2>0, <4>1, <4>3
      <4> QED BY <2>3, <4>2, <4>3
    <3> QED BY <2>0, <2>3, <3>3, <3>4
  <2>4. CASE DmaReceive
    <3>1. IsReply(Head(dmaCplRing)) \in BOOLEAN BY DEF IsReply
    <3>2. sim = "dma" /\ UNCHANGED <<dmaReqRing, nextDma>> BY <2>4 DEF DmaReceive, dmaTagVars
    <3>3. \/ \E ok \in BOOLEAN : DmaReturns(ok) /\ UNCHANGED tries /\ gaveUp' \in BOOLEAN
          \/ DmaContinues
      <4>1. CASE Head(toVcs) = "dmacpl" /\ dmaCplRing # <<>>
        <5>1. DmaReturns(IsReply(Head(dmaCplRing))) /\ UNCHANGED <<tries, gaveUp>>
          BY <2>4, <4>1 DEF DmaReceive
        <5> QED BY <2>0, <3>1, <5>1
      <4>2. CASE ~(Head(toVcs) = "dmacpl" /\ dmaCplRing # <<>>)
        <5>1. IF Head(toVcs) = "shutdown"
              THEN DmaReturns(FALSE) /\ gaveUp' = TRUE /\ UNCHANGED tries ELSE DmaContinues
          BY <2>4, <4>2 DEF DmaReceive
        <5> QED BY <5>1
      <4> QED BY <4>1, <4>2
    <3>4. \/ UNCHANGED dmaCplRing
          \/ dmaCplRing # <<>> /\ dmaCplRing' = Tail(dmaCplRing)
      BY <2>4 DEF DmaReceive
    <3> QED BY <2>3, <3>2, <3>3, <3>4
  <2>5. CASE DmaTimeout
    <3>1. /\ sim = "dma" /\ UNCHANGED <<dmaReqRing, nextDma, dmaCplRing>>
          /\ \/ DmaReturns(FALSE) /\ gaveUp' = TRUE /\ UNCHANGED tries
             \/ DmaContinues
      BY <2>5 DEF DmaTimeout, dmaTagVars, rings
    <3> QED BY <2>3, <3>1
  <2>6. CASE Poll \/ (\E r \in ep : Respond(r)) \/ AnnounceCompletion \/ SimDies
    <3>1. UNCHANGED <<dmaReqRing, dmaCplRing, dmaVars>> /\ (sim' = "dma" => sim = "dma")
      <4>1. CASE Poll BY <4>1 DEF Poll, PollDeferred, PollSocket, PollClosed, rings
      <4>2. CASE (\E r \in ep : Respond(r)) \/ AnnounceCompletion \/ SimDies
        BY <4>2 DEF Respond, AnnounceCompletion, SimDies, rings
      <4> QED BY <2>6, <4>1, <4>2
    <3> QED BY <2>1, <3>1
  <2> QED BY <2>2, <2>4, <2>5, <2>6 DEF Simulator
<1>8. /\ nextTag' \in [DmaCalls -> Nat] /\ dmaTags' \in Seq(Nat)
      /\ Len(dmaTags') = nextDma' - 1
  BY DEF TagsCounted
<1>10. TypeOK'
  BY <1>0, <1>1, <1>2, <1>3, <1>4, <1>5, <1>6, <1>7, <1>8 DEF TypeOK, qemuVars, pollerVars
<1>9. Running' BY <1>0, <1>1, <1>6, <1>7 DEF Running, qemuVars, pollerVars
<1> QED BY <1>9, <1>10

LEMMA TypesInit == Init => TypeInv
<1> SUFFICES ASSUME Init PROVE TypeInv OBVIOUS
<1> USE ConstantBounds
<1>0. TagsCounted BY InitDma DEF DmaInv
<1>1. /\ reqRing = <<>> /\ cplRing = <<>> /\ dmaReqRing = <<>> /\ dmaCplRing = <<>>
      /\ toVcs = <<>> /\ toQemu = <<>> /\ cpu = "idle" /\ sim = "poll" /\ poller = "check"
  BY DEF Init
<1>2. Len(<<>>) = 0 BY EmptySeq
<1>3. /\ cur \in Tlps /\ answer \in Answers /\ ahead \in Nat
      /\ dmaResult \in [call : 0 .. MaxDmas, ok : BOOLEAN]
  BY DEF Init, Tlps, Kinds, Outcomes, Fails, Answers
<1>4. TypeOK
  <2>1. /\ cpu \in {"idle", "notify", "wait", "joining", "down"}
        /\ poller \in {"check", "drain", "copy", "post", "notify", "gone"}
        /\ sim \in {"poll", "announce", "dma", "exited"}
    BY <1>1
  <2>2. /\ drops \in 0 .. DrainGuard /\ nextTlp \in 0 .. MaxTlps + 1
        /\ pendingReady \in 0 .. MaxTlps + 1 /\ tries \in 0 .. WaitLimit
        /\ serving \in 0 .. MaxDmas /\ nextDma \in 1 .. MaxDmas + 1
        /\ vfSent \in 0 .. MaxVfEvents /\ vfSeen \in 0 .. MaxVfEvents
    <3>1. drops = 0 /\ nextTlp = 0 /\ pendingReady = 0 /\ tries = 0 /\ serving = 0 /\ nextDma = 1
      BY DEF Init
    <3>2. vfSent = 0 /\ vfSeen = 0 BY DEF Init
    <3> QED BY <3>1, <3>2
  <2>5. /\ stop \in BOOLEAN /\ gaveUp \in BOOLEAN
        /\ copied \subseteq 1 .. MaxDmas /\ ep \subseteq Tlps
    BY DEF Init
  <2>3. /\ reqRing \in Seq(Tlps) /\ cplRing \in Seq([tag : 0 .. TagSpace - 1, of : 0 .. MaxTlps])
        /\ dmaReqRing \in Seq(1 .. MaxDmas) /\ dmaCplRing \in Seq(1 .. MaxDmas)
        /\ toVcs \in Seq(Messages) /\ toQemu \in Seq({"cpl"})
    BY <1>1, EmptySeq, Zenon
  <2>4. /\ Len(reqRing) <= ReqSlots /\ Len(cplRing) <= CplSlots
        /\ Len(dmaReqRing) <= DmaSlots /\ Len(dmaCplRing) <= DmaSlots
    BY <1>1, <1>2
  <2>6. nextTag \in [DmaCalls -> Nat] /\ dmaTags \in Seq(Nat) /\ Len(dmaTags) = nextDma - 1
    BY <1>0 DEF TagsCounted
  <2> QED BY <1>3, <2>1, <2>2, <2>3, <2>4, <2>5, <2>6 DEF TypeOK, Answers
<1>5. Running
  <2>1. Among("vf", toVcs) = 0 BY <1>1, AmongEmpty
  <2>2. vfSeen = 0 /\ vfSent = 0 BY DEF Init
  <2> QED BY <1>1, <2>1, <2>2 DEF Running
<1>6. Numbered BY <1>1, <1>2 DEF Numbered
<1> QED BY <1>0, <1>4, <1>5, <1>6, AnnounceInit DEF TypeInv

LEMMA NextTypes == ASSUME TypeInv, [Next]_vars PROVE TypeInv'
<1>1. AnnounceInv' BY NextAnnounced DEF TypeInv
<1>2. Shape' /\ Sockets' /\ EntriesAnnounced' BY <1>1 DEF AnnounceInv
<1>3. Numbered' /\ TagsCounted' BY NextNumbered, NextTagsCounted DEF TypeInv, AnnounceInv
<1>4. CASE UNCHANGED vars
  <2>1. TypeOK /\ Running BY DEF TypeInv
  <2>2. TypeOK'
    BY <1>4, <2>1 DEF TypeOK, vars, qemuVars, pollerVars, simVars, dmaVars, dmaTagVars, rings
  <2>3. Running'
    BY <1>4, <2>1 DEF Running, SimUp, vars, qemuVars, pollerVars, simVars, dmaVars, dmaTagVars, rings
  <2> QED BY <1>1, <1>3, <2>2, <2>3 DEF TypeInv
<1>5. CASE ~UNCHANGED vars
  <2>1. Caller \/ Poller \/ Simulator BY <1>5 DEF Next, Done
  <2> QED BY <1>1, <1>2, <1>3, <2>1, CallerTypes, PollerTypes, SimulatorTypes DEF TypeInv
<1> QED BY <1>4, <1>5

(* The rings, the socket and the counters of the bridge stay within their  *)
(* bounds: in particular bridge_vcs_poll_tlp never has more notifications  *)
(* remembered than there are TLPs, and no VF event is seen twice.          *)
THEOREM BridgeTypes == Spec => []TypeOK
<1>1. TypeInv => TypeOK BY DEF TypeInv
<1> QED BY <1>1, TypesInit, NextTypes, PTL DEF Spec
-----------------------------------------------------------------------------
(* Waits that end for no other reason than the simulator's *)

(* The TLPs of the two rings and of the endpoint, by number: each is in    *)
(* one place, and once there.                                              *)
Queued == {reqRing[i].id : i \in 1 .. Len(reqRing)}
Apart ==
  /\ \A i \in Queued \cup Accepted \cup Completed : i \in Nat /\ i < nextTlp
  /\ \A r, s \in ep : r.id = s.id => r = s
  /\ \A i, j \in 1 .. Len(cplRing) : cplRing[i].of = cplRing[j].of => i = j
  /\ Queued \cap Accepted = {} /\ Queued \cap Completed = {}
  /\ Accepted \cap Completed = {}

(* Besides the one a caller waits for no more completions are on their way *)
(* than when its TLP was sent; a wait that discards some has fewer left.   *)
Others == Awaited \ {cur.id}
Waiting == cpu = "wait" \/ (cpu = "notify" /\ cur.kind = "read")
Discarded == IF cpu = "wait" THEN drops ELSE 0
Budget == Waiting => Discarded + Cardinality(Others) <= ahead

(* The TLP of a caller that waits, or is about to, has not been lost, or   *)
(* enough completions of others are there to end the wait.                 *)
InPlay ==
  SimUp /\ Waiting =>
    \/ \E i \in 1 .. Len(reqRing) : reqRing[i] = cur
    \/ cur \in ep
    \/ cur.id \in Completed
    \/ Discarded + Len(cplRing) >= DrainGuard

(* A CPL_READY finds its entry, also after the simulator has gone. *)
ReadyHasEntry == QemuUp => Len(toQemu) <= Len(cplRing)
Ends ==
  /\ answer.how # "empty"
  /\ answer.how = "drained" => answer.behind >= DrainGuard
  /\ cpu = "wait" => cur.kind = "read"

AnswerInv == TypeInv /\ TagsKept /\ Apart /\ Budget /\ InPlay /\ ReadyHasEntry /\ Ends

LEMMA SameSets ==
  ASSUME UNCHANGED <<reqRing, ep, cplRing>>
  PROVE  UNCHANGED <<Queued, Requested, Accepted, Completed, Awaited>>
<1>1. Queued' = Queued BY DEF Queued
<1>2. Requested' = Requested BY DEF Requested, NonPosted
<1>3. Accepted' = Accepted BY DEF Accepted
<1>4. Completed' = Completed BY DEF Completed
<1> QED BY <1>1, <1>2, <1>3, <1>4 DEF Awaited

LEMMA RingIds ==
  ASSUME Shape, Numbered
  PROVE  /\ Len(reqRing) \in Nat
         /\ \A i \in 1 .. Len(reqRing) : reqRing[i] \in Reads /\ reqRing[i].id \in Nat
         /\ \A i, j \in 1 .. Len(reqRing) : reqRing[i].id = reqRing[j].id => i = j
<1>1. reqRing \in Seq(Reads) BY DEF Shape
<1>2. PICK n \in Nat : n = Len(reqRing) BY <1>1, LenProperties
<1>3. \A i \in 1 .. n : reqRing[i] \in Reads BY <1>1, <1>2, ElementOfSeq
<1>4. \A i \in 1 .. n : reqRing[i].id \in Nat BY <1>3 DEF Reads
<1>5. ASSUME NEW i \in 1 .. n, NEW j \in 1 .. n, reqRing[i].id = reqRing[j].id PROVE i = j
  <2>1. ~(i < j) BY <1>2, <1>4, <1>5 DEF Numbered
  <2>2. ~(j < i) BY <1>2, <1>4, <1>5 DEF Numbered
  <2> QED BY <2>1, <2>2
<1> QED BY <1>2, <1>3, <1>4, <1>5

LEMMA AwaitedFinite ==
  ASSUME TypeOK
  PROVE  IsFiniteSet(Awaited) /\ Awaited \subseteq 0 .. MaxTlps
<1>1. reqRing \in Seq(Tlps) /\ ep \subseteq Tlps
      /\ cplRing \in Seq([tag : 0 .. TagSpace - 1, of : 0 .. MaxTlps])
  BY DEF TypeOK
<1>2. /\ \A i \in 1 .. Len(reqRing) : reqRing[i] \in Tlps
      /\ \A i \in 1 .. Len(cplRing) : cplRing[i] \in [tag : 0 .. TagSpace - 1, of : 0 .. MaxTlps]
  BY <1>1, ElementOfSeq
<1>3. Requested \subseteq 0 .. MaxTlps BY <1>2 DEF Requested, Tlps
<1>4. Accepted \subseteq 0 .. MaxTlps BY <1>1 DEF Accepted, Tlps
<1>5. Completed \subseteq 0 .. MaxTlps BY <1>2 DEF Completed
<1>6. Awaited \subseteq 0 .. MaxTlps BY <1>3, <1>4, <1>5 DEF Awaited
<1>7. IsFiniteSet(0 .. MaxTlps) BY ConstantBounds, FS_Interval
<1> QED BY <1>6, <1>7, FS_Subset

(* bridge_send_tlp puts a new number into the request ring. *)
LEMMA SendSets ==
  ASSUME Shape, NEW k \in Kinds, SendTlp(k), ReqRoom
  PROVE  /\ UNCHANGED <<Accepted, Completed, ep, cplRing>> /\ nextTlp' = nextTlp + 1
         /\ Queued' = Queued \cup {nextTlp}
         /\ Requested' \subseteq Requested \cup {nextTlp}
         /\ k = "memwr" => Requested' \subseteq Requested
         /\ cur' = [id |-> nextTlp, kind |-> k] /\ cpu = "idle" /\ cpu' = "notify"
         /\ \E i \in 1 .. Len(reqRing') : reqRing'[i] = cur'
<1>1. PICK r, z, n : r = [id |-> nextTlp, kind |-> k] /\ z = reqRing' /\ n = Len(reqRing)
  OBVIOUS
<1>2. /\ z = Append(reqRing, r) /\ nextTlp' = nextTlp + 1 /\ UNCHANGED <<ep, cplRing>>
      /\ cur' = r /\ cpu = "idle" /\ cpu' = "notify"
  BY <1>1 DEF SendTlp, simVars
<1>3. reqRing \in Seq(Reads) /\ r \in Reads /\ r.id = nextTlp /\ r.kind = k
  BY <1>1 DEF Shape, Reads
<1>4. /\ n \in Nat /\ Len(z) = n + 1 /\ z[n + 1] = r
      /\ \A i \in 1 .. n : z[i] = reqRing[i]
  BY <1>1, <1>2, <1>3, AppendProperties, LenProperties
<1>5. \A i : i \in 1 .. n + 1 <=> (i = n + 1 \/ i \in 1 .. n) BY <1>4
<1>6. Accepted' = Accepted /\ Completed' = Completed BY <1>2 DEF Accepted, Completed
<1>7. Queued' = Queued \cup {nextTlp}
  <2>1. Queued' = {z[i].id : i \in 1 .. n + 1} BY <1>1, <1>4 DEF Queued
  <2>2. Queued = {reqRing[i].id : i \in 1 .. n} BY <1>1 DEF Queued
  <2>3. \A i \in 1 .. n : z[i].id = reqRing[i].id BY <1>4
  <2>4. z[n + 1].id = nextTlp BY <1>3, <1>4
  <2> QED BY <1>5, <2>1, <2>2, <2>3, <2>4
<1>8. Requested' = {z[i].id : i \in {j \in 1 .. n + 1 : NonPosted(z[j])}}
  BY <1>1, <1>4 DEF Requested, NonPosted
<1>9. Requested = {reqRing[i].id : i \in {j \in 1 .. n : NonPosted(reqRing[j])}}
  BY <1>1 DEF Requested
<1>10. Requested' \subseteq Requested \cup {nextTlp}
  BY <1>3, <1>4, <1>5, <1>8, <1>9
<1>11. ASSUME k = "memwr" PROVE Requested' \subseteq Requested
  <2>1. ~NonPosted(z[n + 1]) BY <1>3, <1>4, <1>11 DEF NonPosted
  <2> QED BY <1>4, <1>5, <1>8, <1>9, <2>1
<1>12. n + 1 \in 1 .. Len(z) /\ z[n + 1] = cur' BY <1>2, <1>4
<1> QED BY <1>1, <1>2, <1>6, <1>7, <1>10, <1>11, <1>12

(* A poll takes the oldest request out of the ring and, unless it is       *)
(* posted, puts it into the endpoint.                                      *)
LEMMA TakeSets ==
  ASSUME Shape, Numbered, reqRing # <<>>, reqRing' = Tail(reqRing), Accept(Head(reqRing)),
         UNCHANGED cplRing
  PROVE  /\ Head(reqRing).id \in Queued /\ Queued' = Queued \ {Head(reqRing).id}
         /\ Requested' \subseteq Requested /\ UNCHANGED Completed
         /\ ep' \subseteq ep \cup {Head(reqRing)}
         /\ Accepted' \subseteq Accepted \cup {Head(reqRing).id}
         /\ Awaited' \subseteq Awaited
         /\ \A i \in 1 .. Len(reqRing) :
              \/ reqRing[i] = Head(reqRing)
              \/ \E j \in 1 .. Len(reqRing') : reqRing'[j] = reqRing[i]
<1>1. PICK z, n, h : z = reqRing' /\ n = Len(reqRing) /\ h = Head(reqRing) OBVIOUS
<1>2. reqRing \in Seq(Reads) BY DEF Shape
<1>3. /\ n \in Nat /\ n > 0 /\ Len(z) = n - 1 /\ h = reqRing[1] /\ h \in Reads
      /\ \A i \in 1 .. n - 1 : z[i] = reqRing[i + 1] /\ i + 1 \in 1 .. n
  BY <1>1, <1>2, HeadTailProperties, EmptySeq
<1>4. \A i \in 1 .. n : i = 1 \/ (i - 1 \in 1 .. n - 1 /\ z[i - 1] = reqRing[i])
  <2> SUFFICES ASSUME NEW i \in 1 .. n, i # 1
               PROVE  i - 1 \in 1 .. n - 1 /\ z[i - 1] = reqRing[i]
    OBVIOUS
  <2>1. i - 1 \in 1 .. n - 1 /\ (i - 1) + 1 = i BY <1>3
  <2> QED BY <1>3, <2>1
<1>5. \A i \in 1 .. n : reqRing[i].id = h.id => i = 1 BY <1>1, <1>3, RingIds
<1>6. Queued' = {z[i].id : i \in 1 .. n - 1} BY <1>1, <1>3 DEF Queued
<1>7. Queued = {reqRing[i].id : i \in 1 .. n} BY <1>1 DEF Queued
<1>8. h.id \in Queued BY <1>3, <1>7
<1>9. Queued' = Queued \ {h.id}
  <2>1. ASSUME NEW x \in Queued' PROVE x \in Queued \ {h.id}
    <3>1. PICK i \in 1 .. n - 1 : x = z[i].id BY <1>6
    <3>2. i + 1 \in 1 .. n /\ x = reqRing[i + 1].id /\ i + 1 # 1 BY <1>3, <3>1
    <3> QED BY <1>5, <1>7, <3>2
  <2>2. ASSUME NEW x \in Queued, x # h.id PROVE x \in Queued'
    <3>1. PICK i \in 1 .. n : x = reqRing[i].id BY <1>7
    <3>2. i # 1 BY <1>3, <2>2, <3>1
    <3> QED BY <1>4, <1>6, <3>1, <3>2
  <2> QED BY <2>1, <2>2
<1>10. Requested' \subseteq Requested
  <2>1. Requested' = {z[i].id : i \in {j \in 1 .. n - 1 : NonPosted(z[j])}}
    BY <1>1, <1>3 DEF Requested, NonPosted
  <2>2. Requested = {reqRing[i].id : i \in {j \in 1 .. n : NonPosted(reqRing[j])}}
    BY <1>1 DEF Requested
  <2> QED BY <1>3, <2>1, <2>2
<1>11. Completed' = Completed BY DEF Completed
<1>12. ep' \subseteq ep \cup {h} BY <1>1 DEF Accept
<1>13. Accepted' \subseteq Accepted \cup {h.id} BY <1>12 DEF Accepted
<1>14. Accepted' \subseteq Accepted \cup Requested
  <2>1. NonPosted(h) => h.id \in Requested BY <1>1, <1>3 DEF Requested
  <2>2. ~NonPosted(h) => Accepted' = Accepted BY <1>1 DEF Accept, Accepted
  <2> QED BY <1>13, <2>1, <2>2
<1>15. Awaited' \subseteq Awaited BY <1>10, <1>11, <1>14 DEF Awaited
<1>16. \A i \in 1 .. n : reqRing[i] = h \/ \E j \in 1 .. n - 1 : z[j] = reqRing[i]
  BY <1>3, <1>4
<1> QED BY <1>1, <1>3, <1>8, <1>9, <1>10, <1>11, <1>12, <1>13, <1>15, <1>16

(* A completion leaves the endpoint for the ring, or is lost. *)
LEMMA RespondSets ==
  ASSUME Shape, Apart, NEW r \in ep, Respond(r)
  PROVE  /\ UNCHANGED <<Queued, Requested, nextTlp, reqRing, cpu, cur, ahead, drops>>
         /\ r.id \in Accepted /\ Accepted' = Accepted \ {r.id}
         /\ Completed' \subseteq Completed \cup {r.id} /\ Completed \subseteq Completed'
         /\ Len(cplRing) < CplSlots => r.id \in Completed'
         /\ \A i, j \in 1 .. Len(cplRing') : cplRing'[i].of = cplRing'[j].of => i = j
         /\ Awaited' \subseteq Awaited
<1>1. PICK c, z, n : /\ c = [tag |-> EndpointTag(r.id), of |-> r.id]
                     /\ z = cplRing' /\ n = Len(cplRing)
  OBVIOUS
<1>2. /\ UNCHANGED <<nextTlp, reqRing, cpu, cur, ahead, drops>> /\ ep' = ep \ {r}
      /\ (Len(cplRing) < CplSlots /\ z = Append(cplRing, c))
         \/ (~(Len(cplRing) < CplSlots) /\ z = cplRing)
  BY <1>1 DEF Respond, simIdles, qemuVars
<1>3. r.id \in Nat BY DEF Shape, Reads
<1>4. cplRing \in Seq(Completions) /\ c \in Completions /\ c.of = r.id
  BY <1>1, <1>3, EndpointTagType DEF Shape, Completions
<1>5. n \in Nat BY <1>1, <1>4, LenProperties
<1>6. Queued' = Queued BY <1>2 DEF Queued
<1>7. Requested' = Requested BY <1>2 DEF Requested, NonPosted
<1>8. r.id \in Accepted /\ Accepted' = Accepted \ {r.id} BY <1>2 DEF Accepted, Apart
<1>9. r.id \notin Completed /\ Completed = {cplRing[i].of : i \in 1 .. n}
  BY <1>1, <1>8 DEF Apart, Completed
<1>10. /\ Completed' \subseteq Completed \cup {r.id} /\ Completed \subseteq Completed'
       /\ Len(cplRing) < CplSlots => r.id \in Completed'
       /\ \A i, j \in 1 .. Len(z) : z[i].of = z[j].of => i = j
  <2>1. CASE z = cplRing /\ ~(Len(cplRing) < CplSlots)
    BY <1>1, <2>1 DEF Completed, Apart
  <2>2. CASE z = Append(cplRing, c)
    <3>1. /\ Len(z) = n + 1 /\ z[n + 1] = c
          /\ \A i \in 1 .. n : z[i] = cplRing[i]
      BY <1>1, <1>4, <2>2, AppendProperties
    <3>2. \A i : i \in 1 .. n + 1 <=> (i = n + 1 \/ i \in 1 .. n) BY <1>5
    <3>3. Completed' = {z[i].of : i \in 1 .. n + 1} BY <1>1, <3>1 DEF Completed
    <3>4. Completed' = Completed \cup {r.id} BY <1>4, <1>9, <3>1, <3>2, <3>3
    <3>5. \A i, j \in 1 .. n : z[i].of = z[j].of => i = j BY <1>1, <3>1 DEF Apart
    <3>6. \A i \in 1 .. n : z[i].of # z[n + 1].of BY <1>4, <1>9, <3>1
    <3>7. \A i, j \in 1 .. n + 1 : z[i].of = z[j].of => i = j BY <3>2, <3>5, <3>6
    <3> QED BY <3>1, <3>4, <3>7
  <2> QED BY <1>2, <2>1, <2>2
<1>11. Awaited' \subseteq Awaited BY <1>7, <1>8, <1>10 DEF Awaited
<1> QED BY <1>1, <1>2, <1>6, <1>7, <1>8, <1>10, <1>11

(* A wait takes the oldest completion: it is awaited no more. *)
LEMMA ClaimSets ==
  ASSUME Shape, Apart, cplRing # <<>>, cplRing' = Tail(cplRing), UNCHANGED <<reqRing, ep>>
  PROVE  /\ UNCHANGED <<Queued, Requested, Accepted>>
         /\ Head(cplRing).of \in Completed /\ Completed' = Completed \ {Head(cplRing).of}
         /\ Head(cplRing).of \in Awaited
         /\ Awaited' \subseteq Awaited \ {Head(cplRing).of}
         /\ \A i, j \in 1 .. Len(cplRing') : cplRing'[i].of = cplRing'[j].of => i = j
<1>1. PICK z, n, h : z = cplRing' /\ n = Len(cplRing) /\ h = Head(cplRing) OBVIOUS
<1>2. cplRing \in Seq(Completions) BY DEF Shape
<1>3. /\ n \in Nat /\ n > 0 /\ Len(z) = n - 1 /\ h = cplRing[1]
      /\ \A i \in 1 .. n - 1 : z[i] = cplRing[i + 1] /\ i + 1 \in 1 .. n
  BY <1>1, <1>2, HeadTailProperties, EmptySeq
<1>4. \A i \in 1 .. n : i = 1 \/ (i - 1 \in 1 .. n - 1 /\ z[i - 1] = cplRing[i])
  <2> SUFFICES ASSUME NEW i \in 1 .. n, i # 1
               PROVE  i - 1 \in 1 .. n - 1 /\ z[i - 1] = cplRing[i]
    OBVIOUS
  <2>1. i - 1 \in 1 .. n - 1 /\ (i - 1) + 1 = i BY <1>3
  <2> QED BY <1>3, <2>1
<1>5. 1 \in 1 .. n /\ \A i \in 1 .. n : cplRing[i].of = h.of => i = 1
  BY <1>1, <1>3 DEF Apart
<1>6. Completed' = {z[i].of : i \in 1 .. n - 1} BY <1>1, <1>3 DEF Completed
<1>7. Completed = {cplRing[i].of : i \in 1 .. n} BY <1>1 DEF Completed
<1>8. h.of \in Completed BY <1>3, <1>5, <1>7
<1>9. Completed' = Completed \ {h.of}
  <2>1. ASSUME NEW x \in Completed' PROVE x \in Completed \ {h.of}
    <3>1. PICK i \in 1 .. n - 1 : x = z[i].of BY <1>6
    <3>2. i + 1 \in 1 .. n /\ x = cplRing[i + 1].of /\ i + 1 # 1 BY <1>3, <3>1
    <3> QED BY <1>5, <1>7, <3>2
  <2>2. ASSUME NEW x \in Completed, x # h.of PROVE x \in Completed'
    <3>1. PICK i \in 1 .. n : x = cplRing[i].of BY <1>7
    <3>2. i # 1 BY <1>3, <2>2, <3>1
    <3> QED BY <1>4, <1>6, <3>1, <3>2
  <2> QED BY <2>1, <2>2
<1>10. Queued' = Queued /\ Requested' = Requested /\ Accepted' = Accepted
  BY DEF Queued, Requested, Accepted, NonPosted
<1>11. Requested \subseteq Queued BY DEF Requested, Queued
<1>12. h.of \notin Requested /\ h.of \notin Accepted BY <1>8, <1>11 DEF Apart
<1>13. Awaited' \subseteq Awaited \ {h.of} BY <1>9, <1>10, <1>12 DEF Awaited
<1>14. \A i, j \in 1 .. n - 1 : z[i].of = z[j].of => i = j
  <2> SUFFICES ASSUME NEW i \in 1 .. n - 1, NEW j \in 1 .. n - 1, z[i].of = z[j].of PROVE i = j
    OBVIOUS
  <2>1. i + 1 = j + 1 BY <1>1, <1>3 DEF Apart
  <2> QED BY <2>1
<1> QED BY <1>1, <1>3, <1>8, <1>9, <1>10, <1>13, <1>14 DEF Awaited

(* What a step does to the TLPs and to the caller. *)
Rests == UNCHANGED <<reqRing, ep, cplRing, cur, ahead>>
LEMMA AnswerMoves ==
  ASSUME Shape, ReadyHasEntry, Sockets, [Next]_vars
  PROVE  /\ SimUp' => SimUp
         /\ \/ Rests /\ UNCHANGED <<cpu, drops>> /\ nextTlp' \in {nextTlp, nextTlp + 1}
            \/ Rests /\ UNCHANGED nextTlp /\ NotifyTlp
            \/ Rests /\ UNCHANGED nextTlp /\ cpu' \in {"idle", "joining", "down"}
               /\ (cpu' = "idle" => ~SimUp')
            \/ WaitCompletion /\ cplRing # <<>> /\ UNCHANGED <<reqRing, ep, cur, ahead, nextTlp, sim>>
            \/ \E k \in Kinds : SendTlp(k) /\ ReqRoom /\ UNCHANGED sim
            \/ SimUp /\ reqRing # <<>> /\ reqRing' = Tail(reqRing) /\ Accept(Head(reqRing))
               /\ UNCHANGED <<qemuVars, cplRing>>
            \/ \E r \in ep : Respond(r)
<1> USE DEF Rests
<1>1. CASE Caller
  <2>1. UNCHANGED sim
    BY <1>1 DEF Caller, SendTlp, NotifyTlp, WaitCompletion, WaitClosed, SendVfEvent, StopPoller,
         Destroy, simVars
  <2>2. CASE WaitCompletion
    <3>1. toQemu # <<>> /\ cpu = "wait" /\ UNCHANGED <<reqRing, ep, cur, ahead, nextTlp>>
      BY <2>2 DEF WaitCompletion, simVars
    <3>2. Len(toQemu) > 0 BY <3>1, SeqFacts DEF Sockets
    <3>3. Len(cplRing) > 0
      <4>1. Len(toQemu) <= Len(cplRing) BY <3>1 DEF ReadyHasEntry, QemuUp
      <4>2. Len(toQemu) \in Nat /\ Len(cplRing) \in Nat BY SeqFacts DEF Sockets, Shape
      <4> QED BY <3>2, <4>1, <4>2
    <3>4. cplRing # <<>> BY <3>3, EmptySeq
    <3> QED BY <2>1, <2>2, <3>1, <3>4 DEF SimUp
  <2>3. CASE \E k \in Kinds : SendTlp(k) BY <2>1, <2>3 DEF SendTlp, simVars, SimUp
  <2>4. CASE NotifyTlp BY <2>1, <2>4 DEF NotifyTlp, simVars, rings, SimUp
  <2>5. CASE WaitClosed \/ SendVfEvent \/ StopPoller \/ Destroy
    BY <2>1, <2>5 DEF WaitClosed, SendVfEvent, StopPoller, Destroy, simVars, qemuVars, rings, SimUp
  <2> QED BY <1>1, <2>2, <2>3, <2>4, <2>5 DEF Caller
<1>2. CASE Poller
  BY <1>2 DEF Poller, PollerCheck, PollerTake, PollerCopy, PollerPost, PollerNotify,
       pollerIdles, qemuVars, simVars, SimUp
<1>3. CASE Simulator
  <2>1. SimUp' => SimUp
    BY <1>3 DEF Simulator, Poll, PollDeferred, PollSocket, PollClosed, Respond, AnnounceCompletion,
         StartDma, DmaReceive, DmaTimeout, SimDies, SimUp
  <2>2. CASE Poll
    BY <2>1, <2>2 DEF Poll, PollDeferred, PollSocket, PollClosed, simIdles, qemuVars, rings, SimUp
  <2>3. CASE AnnounceCompletion \/ (\E k \in DmaCalls : StartDma(k)) \/ DmaReceive \/ DmaTimeout \/ SimDies
    BY <2>1, <2>3 DEF AnnounceCompletion, StartDma, DmaReceive, DmaTimeout, SimDies, simIdles,
         qemuVars, rings
  <2> QED BY <1>3, <2>1, <2>2, <2>3 DEF Simulator
<1>4. CASE UNCHANGED vars BY <1>4 DEF vars, qemuVars, simVars, rings, SimUp
<1> QED BY <1>1, <1>2, <1>3, <1>4 DEF Next, Done

(* A number enters the request ring fresh and then stays in one place. *)
LEMMA NextApart ==
  ASSUME Shape, Numbered, Sockets, Apart, ReadyHasEntry, [Next]_vars
  PROVE  Apart'
<1>0. nextTlp \in Nat BY DEF Shape
<1>1. ASSUME Rests, nextTlp' \in {nextTlp, nextTlp + 1} PROVE Apart'
  <2>1. UNCHANGED <<Queued, Accepted, Completed, ep, cplRing>> BY <1>1, SameSets DEF Rests
  <2> QED BY <1>0, <1>1, <2>1 DEF Apart
<1>2. ASSUME WaitCompletion, cplRing # <<>>, UNCHANGED <<reqRing, ep, cur, ahead, nextTlp, sim>>
      PROVE  Apart'
  <2>1. cplRing' = Tail(cplRing) BY <1>2 DEF WaitCompletion
  <2>2. /\ UNCHANGED <<Queued, Accepted>> /\ Completed' \subseteq Completed
        /\ \A i, j \in 1 .. Len(cplRing') : cplRing'[i].of = cplRing'[j].of => i = j
    BY <1>2, <2>1, ClaimSets
  <2> QED BY <1>2, <2>2 DEF Apart
<1>3. ASSUME NEW k \in Kinds, SendTlp(k), ReqRoom PROVE Apart'
  <2>1. /\ UNCHANGED <<Accepted, Completed, ep, cplRing>> /\ nextTlp' = nextTlp + 1
        /\ Queued' = Queued \cup {nextTlp}
    BY <1>3, SendSets
  <2>2. nextTlp \notin Accepted /\ nextTlp \notin Completed BY <1>0 DEF Apart
  <2>3. \A i \in Queued' \cup Accepted' \cup Completed' : i \in Nat /\ i < nextTlp'
    BY <1>0, <2>1 DEF Apart
  <2>4. Queued' \cap Accepted' = {} /\ Queued' \cap Completed' = {} BY <2>1, <2>2 DEF Apart
  <2> QED BY <2>1, <2>3, <2>4 DEF Apart
<1>4. ASSUME reqRing # <<>>, reqRing' = Tail(reqRing), Accept(Head(reqRing)),
             UNCHANGED <<qemuVars, cplRing>>
      PROVE  Apart'
  <2>1. PICK h : h = Head(reqRing) OBVIOUS
  <2>2. /\ h.id \in Queued /\ Queued' = Queued \ {h.id} /\ UNCHANGED Completed
        /\ ep' \subseteq ep \cup {h} /\ Accepted' \subseteq Accepted \cup {h.id}
    BY <1>4, <2>1, TakeSets
  <2>3. UNCHANGED <<nextTlp, cplRing>> BY <1>4 DEF qemuVars
  <2>4. \A r \in ep : r.id # h.id BY <2>2 DEF Apart, Accepted
  <2>5. \A r, s \in ep' : r.id = s.id => r = s BY <2>2, <2>4 DEF Apart
  <2> QED BY <2>2, <2>3, <2>5 DEF Apart
<1>5. ASSUME NEW r \in ep, Respond(r) PROVE Apart'
  <2>1. /\ UNCHANGED <<Queued, nextTlp>>
        /\ r.id \in Accepted /\ Accepted' = Accepted \ {r.id}
        /\ Completed' \subseteq Completed \cup {r.id}
        /\ \A i, j \in 1 .. Len(cplRing') : cplRing'[i].of = cplRing'[j].of => i = j
    BY <1>5, RespondSets
  <2>2. ep' \subseteq ep BY <1>5 DEF Respond
  <2> QED BY <2>1, <2>2 DEF Apart
<1> QED BY <1>1, <1>2, <1>3, <1>4, <1>5, AnswerMoves

(* A completion is queued with the tag of the TLP it completes. *)
LEMMA NextTags ==
  ASSUME EndpointTags >= TagSpace, Shape, Sockets, ReadyHasEntry, TagsKept, [Next]_vars
  PROVE  TagsKept'
<1>1. ASSUME UNCHANGED cplRing PROVE TagsKept' BY <1>1 DEF TagsKept
<1>2. ASSUME WaitCompletion, cplRing # <<>> PROVE TagsKept'
  <2>1. cplRing' = Tail(cplRing) /\ cplRing \in Seq(Completions)
    BY <1>2 DEF WaitCompletion, Shape
  <2>2. \A i \in 1 .. Len(cplRing') : i + 1 \in 1 .. Len(cplRing) /\ cplRing'[i] = cplRing[i + 1]
    BY <1>2, <2>1, TailElements
  <2> QED BY <2>2 DEF TagsKept, Tag
<1>3. ASSUME NEW r \in ep, Respond(r) PROVE TagsKept'
  <2>1. PICK c : c = [tag |-> EndpointTag(r.id), of |-> r.id] OBVIOUS
  <2>2. r.id \in Nat BY DEF Shape, Reads
  <2>3. cplRing \in Seq(Completions) /\ c \in Completions
    BY <2>1, <2>2, EndpointTagType DEF Shape, Completions
  <2>4. c.tag = Tag(c.of) BY <2>1, <2>2, EndpointKeepsTag
  <2>5. cplRing' = Append(cplRing, c) \/ UNCHANGED cplRing BY <1>3, <2>1 DEF Respond
  <2>6. \A i \in 1 .. Len(cplRing') :
          \/ i \in 1 .. Len(cplRing) /\ cplRing'[i] = cplRing[i]
          \/ cplRing'[i] = c
    BY <2>3, <2>5, AppendElements
  <2> QED BY <2>4, <2>6 DEF TagsKept, Tag
<1>4. ASSUME NEW k \in Kinds, SendTlp(k) PROVE TagsKept'
  BY <1>1, <1>4 DEF SendTlp
<1> QED BY <1>1, <1>2, <1>3, <1>4, AnswerMoves DEF Rests

LEMMA OthersFinite ==
  ASSUME TypeOK PROVE IsFiniteSet(Others) /\ Cardinality(Others) \in Nat /\ ahead \in Nat
<1>1. Others \subseteq Awaited BY DEF Others
<1> QED BY <1>1, AwaitedFinite, Counting DEF TypeOK

(* The caller's part of a step that leaves the rings alone. *)
LEMMA LessAwaited ==
  ASSUME TypeOK, Budget, Awaited' \subseteq Awaited, UNCHANGED <<cpu, cur, ahead, drops>>
  PROVE  Budget'
<1>1. PICK o, p, d : o = Others /\ p = Others' /\ d = Discarded OBVIOUS
<1>2. p \subseteq o BY <1>1 DEF Others
<1>3. IsFiniteSet(o) /\ ahead \in Nat BY <1>1, OthersFinite
<1>4. Cardinality(o) \in Nat /\ Cardinality(p) \in Nat /\ Cardinality(p) <= Cardinality(o)
  BY <1>2, <1>3, Counting
<1>5. d \in Nat /\ Discarded' = d BY <1>1 DEF Discarded, TypeOK
<1>6. Waiting' => Waiting BY DEF Waiting
<1>7. Waiting => d + Cardinality(o) <= ahead BY <1>1 DEF Budget
<1>8. Waiting' => d + Cardinality(p) <= ahead' BY <1>3, <1>4, <1>5, <1>6, <1>7
<1> QED BY <1>1, <1>5, <1>8 DEF Budget

(* A wait leaves at most as many completions as it found besides its own,  *)
(* and one fewer when it discards one.                                     *)
LEMMA WaitBudget ==
  ASSUME Shape, TypeOK, TagsKept, Apart, Budget, WaitCompletion, cplRing # <<>>,
         UNCHANGED <<reqRing, ep, cur, ahead, nextTlp, sim>>
  PROVE  /\ Budget'
         /\ Head(cplRing).tag = Tag(Head(cplRing).of)
         /\ Head(cplRing).tag # Tag(cur.id) => drops + 1 <= ahead
<1>1. PICK a, b, o, p, h : /\ a = Awaited /\ b = Awaited' /\ o = Others /\ p = Others'
                           /\ h = Head(cplRing)
  OBVIOUS
<1>2. cplRing' = Tail(cplRing) /\ Claim(h.tag, h.of) /\ cpu = "wait" BY <1>1 DEF WaitCompletion
<1>3. h.of \in a /\ b \subseteq a \ {h.of} BY <1>1, <1>2, ClaimSets
<1>4. o = a \ {cur.id} /\ p = b \ {cur.id} BY <1>1 DEF Others
<1>5. h.tag = Tag(h.of)
  <2>1. cplRing \in Seq(Completions) BY DEF Shape
  <2>2. h = cplRing[1] /\ 1 \in 1 .. Len(cplRing) BY <1>1, <2>1, TailElements
  <2> QED BY <2>2 DEF TagsKept
<1>6. IsFiniteSet(o) /\ Cardinality(o) \in Nat /\ ahead \in Nat /\ drops \in Nat
  <2>1. drops \in Nat BY ConstantBounds DEF TypeOK
  <2> QED BY <1>1, <2>1, OthersFinite
<1>7. drops + Cardinality(o) <= ahead BY <1>1, <1>2 DEF Budget, Waiting, Discarded
<1>8. CASE h.tag = Tag(cur.id)
  <2>1. cpu' = "idle" BY <1>2, <1>8 DEF Claim
  <2> QED BY <1>1, <1>5, <1>8, <2>1 DEF Budget, Waiting
<1>9. CASE h.tag # Tag(cur.id)
  <2>1. h.of # cur.id BY <1>5, <1>9
  <2>2. h.of \in o /\ p \subseteq o \ {h.of} BY <1>3, <1>4, <2>1
  <2>3. /\ IsFiniteSet(o \ {h.of}) /\ Cardinality(o \ {h.of}) \in Nat
        /\ Cardinality(o \ {h.of}) = Cardinality(o) - 1
    BY <1>6, <2>2, Counting
  <2>4. Cardinality(p) \in Nat /\ Cardinality(p) <= Cardinality(o \ {h.of})
    BY <2>2, <2>3, Counting
  <2>5. drops + 1 <= ahead /\ drops + 1 + Cardinality(p) <= ahead
    BY <1>6, <1>7, <2>3, <2>4
  <2>6. drops' = drops + 1 /\ cpu' \in {"idle", "wait"} BY <1>2, <1>9 DEF Claim
  <2>7. Waiting' => Discarded' + Cardinality(p) <= ahead'
    <3>1. cpu' = "idle" => ~Waiting' BY DEF Waiting
    <3>2. cpu' = "wait" => Discarded' = drops + 1 BY <2>6 DEF Discarded
    <3> QED BY <2>5, <2>6, <3>1, <3>2
  <2> QED BY <1>1, <1>5, <2>5, <2>7 DEF Budget
<1> QED BY <1>8, <1>9

(* bridge_send_tlp counts what its caller will wait behind. *)
LEMMA SendBudget ==
  ASSUME Shape, TypeOK, NEW k \in Kinds, SendTlp(k), ReqRoom
  PROVE  Budget'
<1>1. PICK a, b, p, u : /\ a = Awaited /\ b = Awaited' /\ p = Others'
                        /\ u = Cardinality(Unclaimed)
  OBVIOUS
<1>2. /\ UNCHANGED <<Accepted, Completed>>
      /\ Requested' \subseteq Requested \cup {nextTlp}
      /\ cur' = [id |-> nextTlp, kind |-> k] /\ cpu' = "notify"
  BY SendSets
<1>3. b \subseteq a \cup {nextTlp} BY <1>1, <1>2 DEF Awaited
<1>4. cur'.id = nextTlp BY <1>2
<1>5. p \subseteq a BY <1>1, <1>3, <1>4 DEF Others
<1>6. IsFiniteSet(a) BY <1>1, AwaitedFinite
<1>7. Cardinality(a) \in Nat /\ Cardinality(p) \in Nat /\ Cardinality(p) <= Cardinality(a)
  BY <1>5, <1>6, Counting
<1>8. u \in Nat /\ Cardinality(a) <= u BY <1>1, AwaitedCounted
<1>9. ahead' = u /\ Discarded' = 0 BY <1>1, <1>2 DEF SendTlp, Discarded
<1>10. Discarded' + Cardinality(p) <= ahead' BY <1>7, <1>8, <1>9
<1> QED BY <1>1, <1>10 DEF Budget

LEMMA NextBudget ==
  ASSUME Shape, TypeOK, Numbered, Sockets, TagsKept, Apart, Budget, ReadyHasEntry, [Next]_vars
  PROVE  Budget'
<1>1. ASSUME Rests, UNCHANGED <<cpu, drops>> PROVE Budget'
  <2>1. Awaited' \subseteq Awaited BY <1>1, SameSets DEF Rests
  <2> QED BY <1>1, <2>1, LessAwaited DEF Rests
<1>2. ASSUME Rests, NotifyTlp PROVE Budget'
  <2>1. Awaited' = Awaited /\ cur' = cur /\ ahead' = ahead BY <1>2, SameSets DEF Rests
  <2>2. Others' = Others BY <2>1 DEF Others
  <2>3. Waiting' => Waiting /\ Discarded = 0 /\ Discarded' = 0
    BY <1>2, <2>1 DEF NotifyTlp, Waiting, Discarded
  <2> QED BY <2>1, <2>2, <2>3 DEF Budget
<1>3. ASSUME cpu' \in {"idle", "joining", "down"} PROVE Budget'
  BY <1>3 DEF Budget, Waiting
<1>4. ASSUME reqRing # <<>>, reqRing' = Tail(reqRing), Accept(Head(reqRing)),
             UNCHANGED <<qemuVars, cplRing>>
      PROVE  Budget'
  <2>1. Awaited' \subseteq Awaited BY <1>4, TakeSets
  <2> QED BY <1>4, <2>1, LessAwaited DEF qemuVars
<1>5. ASSUME NEW r \in ep, Respond(r) PROVE Budget'
  <2>1. Awaited' \subseteq Awaited /\ UNCHANGED <<cpu, cur, ahead, drops>>
    BY <1>5, RespondSets
  <2> QED BY <2>1, LessAwaited
<1>6. ASSUME NEW k \in Kinds, SendTlp(k), ReqRoom PROVE Budget' BY <1>6, SendBudget
<1>7. ASSUME WaitCompletion, cplRing # <<>>, UNCHANGED <<reqRing, ep, cur, ahead, nextTlp, sim>>
      PROVE  Budget'
  BY <1>7, WaitBudget
<1> QED BY <1>1, <1>2, <1>3, <1>4, <1>5, <1>6, <1>7, AnswerMoves

(* The TLP of a waiting caller moves from the ring to the endpoint to the  *)
(* completion ring, where there is room for it.                            *)
LEMMA NextInPlay ==
  ASSUME DrainGuard <= CplSlots,
         Shape, TypeOK, Numbered, Sockets, TagsKept, Apart, Budget, InPlay, ReadyHasEntry, Ends,
         [Next]_vars
  PROVE  InPlay'
<1>0. SimUp' => SimUp BY AnswerMoves
<1>1. ASSUME Rests, Waiting' => Waiting /\ Discarded' = Discarded PROVE InPlay'
  <2>1. Completed' = Completed BY <1>1, SameSets DEF Rests
  <2>2. reqRing' = reqRing /\ ep' = ep /\ cur' = cur /\ cplRing' = cplRing BY <1>1 DEF Rests
  <2> QED BY <1>0, <1>1, <2>1, <2>2 DEF InPlay
<1>2. ASSUME Rests, UNCHANGED <<cpu, drops>> PROVE InPlay'
  <2>1. Waiting' => Waiting /\ Discarded' = Discarded BY <1>2 DEF Rests, Waiting, Discarded
  <2> QED BY <1>1, <1>2, <2>1
<1>3. ASSUME Rests, NotifyTlp PROVE InPlay'
  <2>1. Waiting' => Waiting /\ Discarded' = Discarded
    BY <1>3 DEF NotifyTlp, Waiting, Discarded
  <2> QED BY <1>1, <1>3, <2>1
<1>4. ASSUME cpu' \in {"idle", "joining", "down"} PROVE InPlay'
  BY <1>4 DEF InPlay, Waiting
<1>5. ASSUME WaitCompletion, cplRing # <<>>, UNCHANGED <<reqRing, ep, cur, ahead, nextTlp, sim>>
      PROVE  InPlay'
  <2>1. PICK h : h = Head(cplRing) OBVIOUS
  <2>2. cplRing' = Tail(cplRing) /\ Claim(h.tag, h.of) /\ cpu = "wait"
    BY <1>5, <2>1 DEF WaitCompletion
  <2>3. h.tag = Tag(h.of) BY <1>5, <2>1, WaitBudget
  <2>4. Completed' = Completed \ {h.of} BY <1>5, <2>1, <2>2, ClaimSets
  <2>5. CASE h.tag = Tag(cur.id)
    <3>1. cpu' = "idle" BY <2>2, <2>5 DEF Claim
    <3> QED BY <3>1 DEF InPlay, Waiting
  <2>6. CASE h.tag # Tag(cur.id)
    <3>1. h.of # cur.id BY <2>3, <2>6
    <3>2. cur.id \in Completed => cur.id \in Completed' BY <2>4, <3>1
    <3>3. drops' = drops + 1 /\ drops \in Nat
      BY <2>2, <2>6, ConstantBounds DEF Claim, TypeOK
    <3>4. Len(cplRing') = Len(cplRing) - 1 /\ Len(cplRing) \in Nat
      BY <1>5, <2>2, SeqFacts DEF Shape
    <3>5. cpu' = "wait" => Discarded' + Len(cplRing') = Discarded + Len(cplRing)
      <4>1. Discarded = drops /\ (cpu' = "wait" => Discarded' = drops + 1)
        BY <2>2, <3>3 DEF Discarded
      <4> QED BY <3>3, <3>4, <4>1
    <3>6. Waiting' => cpu' = "wait" BY <2>2, <2>6 DEF Claim, Waiting
    <3> QED BY <1>0, <1>5, <2>2, <3>2, <3>5, <3>6 DEF InPlay, Waiting
  <2> QED BY <2>5, <2>6
<1>6. ASSUME NEW k \in Kinds, SendTlp(k), ReqRoom PROVE InPlay'
  <2>1. \E i \in 1 .. Len(reqRing') : reqRing'[i] = cur' BY <1>6, SendSets
  <2> QED BY <2>1 DEF InPlay
<1>7. ASSUME reqRing # <<>>, reqRing' = Tail(reqRing), Accept(Head(reqRing)),
             UNCHANGED <<qemuVars, cplRing>>
      PROVE  InPlay'
  <2>1. PICK h : h = Head(reqRing) OBVIOUS
  <2>2. /\ UNCHANGED Completed
        /\ \A i \in 1 .. Len(reqRing) :
             \/ reqRing[i] = h
             \/ \E j \in 1 .. Len(reqRing') : reqRing'[j] = reqRing[i]
    BY <1>7, <2>1, TakeSets
  <2>3. UNCHANGED <<cpu, cur, cplRing>> /\ Discarded' = Discarded
    BY <1>7 DEF qemuVars, Discarded
  <2>4. ep \subseteq ep' BY <1>7 DEF Accept
  <2>5. Waiting => cur.kind = "read" BY DEF Waiting, Ends
  <2>6. h = cur /\ cur.kind = "read" => cur \in ep' BY <1>7, <2>1 DEF Accept, NonPosted
  <2>7. Waiting' => Waiting BY <2>3 DEF Waiting
  <2> QED BY <1>0, <2>2, <2>3, <2>4, <2>5, <2>6, <2>7 DEF InPlay
<1>8. ASSUME NEW r \in ep, Respond(r) PROVE InPlay'
  <2>1. /\ UNCHANGED <<reqRing, cpu, cur, drops>> /\ Completed \subseteq Completed'
        /\ Len(cplRing) < CplSlots => r.id \in Completed'
    BY <1>8, RespondSets
  <2>2. ep' = ep \ {r} BY <1>8 DEF Respond
  <2>3. Waiting' = Waiting /\ Discarded' = Discarded /\ Discarded \in Nat
    BY <2>1 DEF Waiting, Discarded, TypeOK
  <2>4. /\ Len(cplRing) \in Nat /\ Len(cplRing') \in Nat /\ Len(cplRing') >= Len(cplRing)
    <3>1. PICK c : c = [tag |-> EndpointTag(r.id), of |-> r.id] OBVIOUS
    <3>2. r.id \in Nat BY DEF Shape, Reads
    <3>3. cplRing \in Seq(Completions) /\ c \in Completions
      BY <3>1, <3>2, EndpointTagType DEF Shape, Completions
    <3>4. cplRing' = Append(cplRing, c) \/ cplRing' = cplRing BY <1>8, <3>1 DEF Respond
    <3> QED BY <3>3, <3>4, SeqFacts
  <2>5. Discarded + Len(cplRing) >= DrainGuard => Discarded' + Len(cplRing') >= DrainGuard
    BY <2>3, <2>4, ConstantBounds
  <2>6. CASE r # cur \/ Len(cplRing) < CplSlots
    BY <1>0, <2>1, <2>2, <2>3, <2>5, <2>6 DEF InPlay
  <2>7. CASE ~(Len(cplRing) < CplSlots)
    <3>1. Discarded' + Len(cplRing') >= DrainGuard BY <2>3, <2>4, <2>7, ConstantBounds
    <3> QED BY <3>1 DEF InPlay
  <2> QED BY <2>6, <2>7
<1> QED BY <1>2, <1>3, <1>4, <1>5, <1>6, <1>7, <1>8, AnswerMoves

(* Every CPL_READY follows its entry and is read before it. *)
LEMMA NextReady ==
  ASSUME Shape, Sockets, Shape', Sockets', EntriesAnnounced', ReadyHasEntry, [Next]_vars
  PROVE  ReadyHasEntry'
<1>0. /\ Len(toQemu) \in Nat /\ Len(cplRing) \in Nat
      /\ toQemu # <<>> => Len(Tail(toQemu)) = Len(toQemu) - 1
      /\ cplRing # <<>> => Len(Tail(cplRing)) = Len(cplRing) - 1
  BY SeqFacts DEF Shape, Sockets
<1>1. CASE SimUp'
  <2>1. Len(toQemu') \in Nat /\ Len(cplRing') \in Nat BY SeqFacts DEF Shape, Sockets
  <2>2. QemuUp' => Len(cplRing') = Len(toQemu') + IF sim' = "announce" THEN 1 ELSE 0
    BY <1>1 DEF EntriesAnnounced
  <2> QED BY <2>1, <2>2 DEF ReadyHasEntry
<1>2. CASE ~SimUp'
  <2>1. QemuUp' => QemuUp
    BY DEF Next, Caller, Poller, Simulator, Poll, Done, SendTlp, NotifyTlp, WaitCompletion, Claim,
         WaitClosed, SendVfEvent, StopPoller, Destroy, PollerCheck, PollerTake, PollerCopy,
         PollerPost, PollerNotify, PollDeferred, PollSocket, PollClosed, Respond,
         AnnounceCompletion, StartDma, DmaReceive, DmaTimeout, SimDies, pollerIdles, simIdles,
         qemuVars, vars, QemuUp
  <2>2. CASE WaitCompletion
    <3>1. toQemu # <<>> /\ toQemu' = Tail(toQemu) /\ cpu = "wait"
      BY <2>2 DEF WaitCompletion
    <3>2. Len(toQemu) <= Len(cplRing) BY <3>1 DEF ReadyHasEntry, QemuUp
    <3>3. cplRing' = cplRing \/ (cplRing # <<>> /\ cplRing' = Tail(cplRing))
      BY <2>2 DEF WaitCompletion
    <3>4. cplRing # <<>>
      <4>1. Len(toQemu) > 0 BY <3>1, SeqFacts DEF Sockets
      <4>2. Len(cplRing) > 0 BY <1>0, <3>2, <4>1
      <4> QED BY <4>2, EmptySeq
    <3>5. cplRing' = Tail(cplRing) BY <2>2, <3>4 DEF WaitCompletion
    <3>6. Len(toQemu') = Len(toQemu) - 1 /\ Len(cplRing') = Len(cplRing) - 1
      BY <1>0, <3>1, <3>4, <3>5
    <3>7. Len(toQemu') <= Len(cplRing') BY <1>0, <3>2, <3>6
    <3> QED BY <3>7 DEF ReadyHasEntry
  <2>3. CASE ~WaitCompletion
    <3>1. UNCHANGED <<toQemu, cplRing>>
      <4>1. CASE Caller
        BY <2>3, <4>1 DEF Caller, SendTlp, NotifyTlp, WaitClosed, SendVfEvent, StopPoller, Destroy,
             rings
      <4>2. CASE Poller
        BY <4>2 DEF Poller, PollerCheck, PollerTake, PollerCopy, PollerPost, PollerNotify,
             pollerIdles
      <4>3. CASE Simulator
        <5>1. CASE Poll BY <5>1 DEF Poll, PollDeferred, PollSocket, PollClosed, rings
        <5>2. ASSUME NEW r \in ep, Respond(r) PROVE FALSE
          BY <1>2, <5>2 DEF Respond, SimUp
        <5>3. ~AnnounceCompletion BY <1>2 DEF AnnounceCompletion, SimUp
        <5>4. CASE (\E k \in DmaCalls : StartDma(k)) \/ DmaReceive \/ DmaTimeout \/ SimDies
          BY <5>4 DEF StartDma, DmaReceive, DmaTimeout, SimDies, rings
        <5> QED BY <4>3, <5>1, <5>2, <5>3, <5>4 DEF Simulator
      <4>4. CASE UNCHANGED vars BY <4>4 DEF vars, rings
      <4> QED BY <4>1, <4>2, <4>3, <4>4 DEF Next, Done
    <3> QED BY <2>1, <3>1 DEF ReadyHasEntry
  <2> QED BY <2>2, <2>3
<1> QED BY <1>1, <1>2

(* No read returns for want of a completion, and none gives up before it   *)
(* has discarded as many as there were before it.                          *)
LEMMA NextEnds ==
  ASSUME Shape, TypeOK, Sockets, TagsKept, Apart, Budget, ReadyHasEntry, Ends, [Next]_vars
  PROVE  Ends'
<1>1. ASSUME UNCHANGED <<cpu, cur, answer>> PROVE Ends' BY <1>1 DEF Ends
<1>2. ASSUME WaitCompletion, cplRing # <<>>, UNCHANGED <<reqRing, ep, cur, ahead, nextTlp, sim>>
      PROVE  Ends'
  <2>1. PICK h : h = Head(cplRing) OBVIOUS
  <2>2. Claim(h.tag, h.of) BY <1>2, <2>1 DEF WaitCompletion
  <2>3. h.tag # Tag(cur.id) => drops + 1 <= ahead BY <1>2, <2>1, WaitBudget
  <2>6. CASE h.tag = Tag(cur.id) BY <2>2, <2>6 DEF Claim, Answered, Ends
  <2>7. CASE h.tag # Tag(cur.id)
    <3>1. CASE drops + 1 = DrainGuard
      <4>1. answer' = Fails(cur.id, "drained") /\ cpu' = "idle"
        BY <2>2, <2>7, <3>1 DEF Claim
      <4> QED BY <2>3, <2>7, <3>1, <4>1 DEF Fails, Ends
    <3>2. CASE drops + 1 # DrainGuard
      <4>1. UNCHANGED <<answer, cpu, cur>> BY <1>2, <2>2, <2>7, <3>2 DEF Claim
      <4> QED BY <1>1, <4>1
    <3> QED BY <3>1, <3>2
  <2> QED BY <2>6, <2>7
<1>3. WaitCompletion => cplRing # <<>> /\ UNCHANGED <<reqRing, ep, cur, ahead, nextTlp, sim>>
  <2> SUFFICES ASSUME WaitCompletion
               PROVE  cplRing # <<>> /\ UNCHANGED <<reqRing, ep, cur, ahead, nextTlp, sim>>
    OBVIOUS
  <2>1. toQemu # <<>> /\ cpu = "wait" /\ UNCHANGED <<reqRing, ep, cur, ahead, nextTlp, sim>>
    BY DEF WaitCompletion, simVars
  <2>2. Len(toQemu) > 0 /\ Len(toQemu) \in Nat /\ Len(cplRing) \in Nat
    BY <2>1, SeqFacts DEF Sockets, Shape
  <2>3. Len(cplRing) > 0 BY <2>1, <2>2 DEF ReadyHasEntry, QemuUp
  <2> QED BY <2>1, <2>3, EmptySeq
<1>4. CASE Caller
  <2>1. CASE \E k \in Kinds : SendTlp(k) BY <2>1 DEF SendTlp, Fails, Ends
  <2>2. CASE NotifyTlp BY <2>2 DEF NotifyTlp, Fails, Ends
  <2>3. CASE WaitClosed BY <2>3 DEF WaitClosed, Fails, Ends
  <2>4. CASE SendVfEvent BY <1>1, <2>4 DEF SendVfEvent, qemuVars
  <2>5. CASE StopPoller \/ Destroy BY <2>5 DEF StopPoller, Destroy, Ends
  <2> QED BY <1>2, <1>3, <1>4, <2>1, <2>2, <2>3, <2>4, <2>5 DEF Caller
<1>5. CASE Poller
  BY <1>1, <1>5 DEF Poller, PollerCheck, PollerTake, PollerCopy, PollerPost, PollerNotify,
       pollerIdles, qemuVars
<1>6. CASE Simulator
  BY <1>1, <1>6 DEF Simulator, Poll, PollDeferred, PollSocket, PollClosed, Respond,
       AnnounceCompletion, StartDma, DmaReceive, DmaTimeout, SimDies, simIdles, qemuVars
<1>7. CASE UNCHANGED vars BY <1>1, <1>7 DEF vars, qemuVars
<1> QED BY <1>4, <1>5, <1>6, <1>7 DEF Next, Done

LEMMA AnswerInit == Init => AnswerInv
<1> SUFFICES ASSUME Init PROVE AnswerInv
  OBVIOUS
<1>1. /\ reqRing = <<>> /\ cplRing = <<>> /\ toQemu = <<>> /\ ep = {} /\ cpu = "idle"
      /\ answer.how = "full"
  BY DEF Init, Fails
<1>2. Len(<<>>) = 0 BY EmptySeq
<1>3. Queued = {} /\ Requested = {} /\ Accepted = {} /\ Completed = {}
  BY <1>1, <1>2 DEF Queued, Requested, Accepted, Completed
<1>6. Budget BY <1>1 DEF Budget, Waiting
<1>7. Apart BY <1>1, <1>2, <1>3 DEF Apart
<1>8. TagsKept BY <1>1, <1>2 DEF TagsKept
<1>9. InPlay BY <1>1 DEF InPlay, Waiting
<1>10. ReadyHasEntry BY <1>1, <1>2 DEF ReadyHasEntry
<1>11. Ends BY <1>1 DEF Ends
<1> QED BY <1>6, <1>7, <1>8, <1>9, <1>10, <1>11, TypesInit DEF AnswerInv

LEMMA AnswerImplies == AnswerInv => StillAnswerable
<1> SUFFICES ASSUME AnswerInv PROVE StillAnswerable
  OBVIOUS
<1>1. TagsKept /\ InPlay /\ Ends BY DEF AnswerInv
<1>2. reqRing \in Seq(Reads) /\ cplRing \in Seq(Completions)
  BY DEF AnswerInv, TypeInv, AnnounceInv, Shape
<1>3. \A i \in 1 .. Len(reqRing) : reqRing[i] \in Range(reqRing)
  BY <1>2, LenProperties DEF Range
<1>4. \A i \in 1 .. Len(cplRing) : cplRing[i] \in Range(cplRing)
  BY <1>2, LenProperties DEF Range
<1>5. cur.id \in Completed => \E c \in Range(cplRing) : c.of = cur.id /\ c.tag = Tag(cur.id)
  BY <1>1, <1>4 DEF Completed, TagsKept
<1>6. cpu = "wait" => Waiting BY DEF Waiting
<1>7. cpu = "wait" => Discarded = drops BY DEF Discarded
<1> QED BY <1>1, <1>3, <1>5, <1>6, <1>7 DEF StillAnswerable, InPlay, Ends

(* A wait that gives up after DrainGuard foreign completions had as many   *)
(* before it when its TLP was sent, a CPL_READY never finds the completion *)
(* ring empty, and while the simulator is there a waiting read has its TLP *)
(* or its completion in play, unless enough others are queued to end the   *)
(* wait: provided the endpoint keeps every bit of a tag (the run with a    *)
(* narrower one shows what happens if not), and that the completion ring   *)
(* holds the 256 completions bridge_wait_completion looks at (it has room  *)
(* for some 12 000).                                                       *)
THEOREM ReadsStayAnswerable ==
  ASSUME EndpointTags >= TagSpace, DrainGuard <= CplSlots
  PROVE  Spec => []StillAnswerable
<1>1. AnswerInv /\ [Next]_vars => AnswerInv'
  <2> SUFFICES ASSUME AnswerInv, [Next]_vars PROVE AnswerInv'
    OBVIOUS
  <2>1. /\ TypeInv /\ TypeOK /\ Numbered /\ Shape /\ Sockets
        /\ TagsKept /\ Apart /\ Budget /\ InPlay /\ ReadyHasEntry /\ Ends
    BY DEF AnswerInv, TypeInv, AnnounceInv
  <2>2. TypeInv' BY <2>1, NextTypes
  <2>3. Shape' /\ Sockets' /\ EntriesAnnounced' BY <2>2 DEF TypeInv, AnnounceInv
  <2>4. TagsKept' BY <2>1, NextTags
  <2>5. Apart' BY <2>1, NextApart
  <2>6. Budget' BY <2>1, NextBudget
  <2>7. InPlay' BY <2>1, NextInPlay
  <2>8. ReadyHasEntry' BY <2>1, <2>3, NextReady
  <2>9. Ends' BY <2>1, NextEnds
  <2> QED BY <2>2, <2>4, <2>5, <2>6, <2>7, <2>8, <2>9 DEF AnswerInv
<1> QED BY <1>1, AnswerInit, AnswerImplies, PTL DEF Spec
=============================================================================
