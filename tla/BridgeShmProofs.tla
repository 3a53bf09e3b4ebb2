--------------------------- MODULE BridgeShmProofs ---------------------------
(***************************************************************************)
(* Proofs about BridgeShm for every capacity, tag space and bound.  They   *)
(* hold whether or not the simulator may die, and need neither the whole   *)
(* type invariant nor fairness.                                            *)
(***************************************************************************)
EXTENDS BridgeShm, TLAPS, SequenceTheorems

Reads == [id : Nat, kind : Kinds]
Completions == [tag : Nat, of : Nat]

(* The types the arguments below rest on. *)
Shape ==
  /\ cpu \in {"idle", "notify", "wait", "joining", "down"}
  /\ poller \in {"check", "drain", "copy", "post", "notify", "gone"}
  /\ nextTlp \in Nat /\ cur \in Reads
  /\ reqRing \in Seq(Reads) /\ ep \subseteq Reads
  /\ cplRing \in Seq(Completions)
  /\ nextDma \in Nat /\ serving \in Nat
  /\ dmaReqRing \in Seq(Nat) /\ dmaCplRing \in Seq(Nat)

(* A reply in the ring, or about to enter it, has had its data moved. *)
RepliesAreCopied ==
  /\ poller \in {"post", "notify"} => serving \in copied
  /\ \A i \in 1 .. Len(dmaCplRing) : dmaCplRing[i] \in copied

(* A completion carries the tag of the TLP it completes. *)
TagsKept == \A i \in 1 .. Len(cplRing) : cplRing[i].tag = Tag(cplRing[i].of)

(* The TLPs that have been or will be completed and that no wait has taken *)
(* the completion of: none shares the tag of the one a caller waits for.   *)
Requested == {reqRing[i].id : i \in {j \in 1 .. Len(reqRing) : NonPosted(reqRing[j])}}
Accepted == {r.id : r \in ep}
Completed == {cplRing[i].of : i \in 1 .. Len(cplRing)}
Awaited == Requested \cup Accepted \cup Completed
CurApart ==
  cpu \in {"notify", "wait"} =>
    \A i \in Awaited : Tag(i) = Tag(cur.id) => i = cur.id

(* Every number in the DMA rings is that of a call already made, each kind *)
(* has used the tags from its first up to its counter, and two calls with  *)
(* one tag are of two kinds whose counters have met.                       *)
Calls == 1 .. nextDma - 1
CallsKnown ==
  /\ \A i \in 1 .. Len(dmaReqRing) : dmaReqRing[i] \in Calls
  /\ \A i \in 1 .. Len(dmaCplRing) : dmaCplRing[i] \in Calls
  /\ poller \in {"copy", "post", "notify"} => serving \in Calls
  /\ sim = "dma" => dmaCall \in Calls
Used(k, t) == FirstTag(k) <= t /\ t < nextTag[k]
TagsCounted ==
  /\ nextDma \in Nat \ {0} /\ nextTag \in [DmaCalls -> Nat]
  /\ dmaTags \in Seq(Nat) /\ Len(dmaTags) = nextDma - 1
  /\ \A k \in DmaCalls : FirstTag(k) <= nextTag[k]
  /\ \A n \in Calls : \E k \in DmaCalls : Used(k, dmaTags[n])
  /\ \A m, n \in Calls : m # n /\ dmaTags[m] = dmaTags[n] => RangesMet

DmaInv == Shape /\ RepliesAreCopied /\ CallsKnown /\ TagsCounted /\ DmaSuccessIsReal
MatchInv == Shape /\ TagsKept /\ CurApart /\ AnsweredByOwn
-----------------------------------------------------------------------------
LEMMA TagType == \A i \in Nat : Tag(i) \in 0 .. TagSpace - 1
BY BridgeAssumption DEF Tag

LEMMA EndpointTagType == \A i \in Nat : EndpointTag(i) \in Nat
<1> SUFFICES ASSUME NEW i \in Nat PROVE EndpointTag(i) \in Nat
  OBVIOUS
<1>1. Tag(i) \in Nat BY TagType, BridgeAssumption
<1>2. EndpointTags \in Nat \ {0} BY BridgeAssumption
<1>3. \A j \in Nat : j % EndpointTags \in Nat BY <1>2
<1> QED BY <1>1, <1>3 DEF EndpointTag

LEMMA EndpointKeepsTag ==
  ASSUME EndpointTags >= TagSpace, NEW i \in Nat
  PROVE  EndpointTag(i) = Tag(i)
<1>1. Tag(i) \in 0 .. EndpointTags - 1 BY TagType, BridgeAssumption
<1> QED BY <1>1, BridgeAssumption DEF EndpointTag

(* What Head, Tail and Append do to an assertion about every element. *)
LEMMA TailElements ==
  ASSUME NEW S, NEW s \in Seq(S), s # <<>>
  PROVE  /\ Head(s) \in S /\ Head(s) = s[1] /\ 1 \in 1 .. Len(s)
         /\ Tail(s) \in Seq(S)
         /\ \A i \in 1 .. Len(Tail(s)) : i + 1 \in 1 .. Len(s) /\ Tail(s)[i] = s[i + 1]
BY HeadTailProperties, EmptySeq

LEMMA AppendElements ==
  ASSUME NEW S, NEW s \in Seq(S), NEW e \in S
  PROVE  /\ Append(s, e) \in Seq(S)
         /\ \A i \in 1 .. Len(Append(s, e)) :
              \/ i \in 1 .. Len(s) /\ Append(s, e)[i] = s[i]
              \/ Append(s, e)[i] = e
BY AppendProperties
-----------------------------------------------------------------------------
LEMMA InitShape == Init => Shape
BY DEF Init, Shape, Reads, Kinds

LEMMA NextShape == ASSUME Shape, [Next]_vars PROVE Shape'
<1>1. CASE Caller
  <2>1. ASSUME NEW k \in Kinds, SendTlp(k) PROVE Shape'
    <3>1. [id |-> nextTlp, kind |-> k] \in Reads BY DEF Shape, Reads
    <3>2. reqRing \in Seq(Reads) /\ cur \in Reads /\ nextTlp \in Nat BY DEF Shape
    <3>3. Append(reqRing, [id |-> nextTlp, kind |-> k]) \in Seq(Reads)
      BY <3>1, <3>2, AppendElements
    <3>4. reqRing' \in Seq(Reads) /\ cur' \in Reads /\ nextTlp' \in Nat
      <4>1. /\ \/ reqRing' = Append(reqRing, [id |-> nextTlp, kind |-> k]) /\ cur' = [id |-> nextTlp, kind |-> k]
               \/ reqRing' = reqRing /\ cur' = cur
            /\ nextTlp' = nextTlp + 1
        BY <2>1 DEF SendTlp
      <4> QED BY <3>1, <3>2, <3>3, <4>1
    <3>5. cpu' \in {"idle", "notify"} BY <2>1 DEF SendTlp
    <3>6. UNCHANGED <<poller, ep, cplRing, nextDma, serving, dmaReqRing, dmaCplRing>>
      BY <2>1 DEF SendTlp, pollerVars, simVars, dmaVars, dmaTagVars
    <3> QED BY <3>4, <3>5, <3>6 DEF Shape
  <2>2. CASE NotifyTlp BY <2>2 DEF NotifyTlp, Shape, pollerVars, simVars, dmaVars, dmaTagVars, rings
  <2>3. CASE WaitCompletion
    <3>1. cplRing' \in Seq(Completions)
      BY <2>3, TailElements DEF WaitCompletion, Shape
    <3>2. cpu' \in {"idle", "wait"} BY <2>3 DEF WaitCompletion, Claim
    <3> QED BY <2>3, <3>1, <3>2 DEF WaitCompletion, Shape, pollerVars, simVars, dmaVars, dmaTagVars
  <2>4. CASE WaitClosed BY <2>4 DEF WaitClosed, Shape, pollerVars, simVars, dmaVars, dmaTagVars, rings
  <2>5. CASE SendVfEvent
    BY <2>5 DEF SendVfEvent, Shape, qemuVars, pollerVars, simVars, dmaVars, dmaTagVars, rings
  <2>6. CASE StopPoller BY <2>6 DEF StopPoller, Shape, pollerVars, simVars, dmaVars, dmaTagVars, rings
  <2>7. CASE Destroy BY <2>7 DEF Destroy, Shape, pollerVars, simVars, dmaVars, dmaTagVars, rings
  <2> QED BY <1>1, <2>1, <2>2, <2>3, <2>4, <2>5, <2>6, <2>7 DEF Caller
<1>2. CASE Poller
  <2> USE DEF Shape, pollerIdles, qemuVars, simVars, dmaVars, dmaTagVars
  <2>1. CASE PollerCheck BY <2>1 DEF PollerCheck
  <2>2. CASE PollerTake
    <3>1. ASSUME dmaReqRing # <<>>
          PROVE  Head(dmaReqRing) \in Nat /\ Tail(dmaReqRing) \in Seq(Nat)
      BY <3>1, TailElements
    <3> QED BY <2>2, <3>1 DEF PollerTake
  <2>3. CASE PollerCopy BY <2>3 DEF PollerCopy
  <2>4. CASE PollerPost
    <3>1. Append(dmaCplRing, serving) \in Seq(Nat) BY AppendElements
    <3> QED BY <2>4, <3>1 DEF PollerPost
  <2>5. CASE PollerNotify BY <2>5 DEF PollerNotify
  <2> QED BY <1>2, <2>1, <2>2, <2>3, <2>4, <2>5 DEF Poller
<1>3. CASE Simulator
  <2> USE DEF Shape, simIdles, qemuVars, pollerVars, dmaVars, dmaTagVars, rings
  <2>0. ASSUME reqRing # <<>>
        PROVE  Head(reqRing) \in Reads /\ Tail(reqRing) \in Seq(Reads)
    BY <2>0, TailElements
  <2>1. CASE PollDeferred BY <2>0, <2>1 DEF PollDeferred, Accept
  <2>2. CASE PollSocket
    <3>1. ep' \subseteq Reads /\ reqRing' \in Seq(Reads)
      BY <2>0, <2>2 DEF PollSocket, Accept
    <3> QED BY <2>2, <3>1 DEF PollSocket
  <2>3. CASE PollClosed BY <2>3 DEF PollClosed
  <2>4. ASSUME NEW r \in ep, Respond(r) PROVE Shape'
    <3>1. [tag |-> EndpointTag(r.id), of |-> r.id] \in Completions
      <4>1. r.id \in Nat BY DEF Reads
      <4> QED BY <4>1, EndpointTagType DEF Completions
    <3>2. cplRing' \in Seq(Completions)
      <4>1. cplRing \in Seq(Completions) OBVIOUS
      <4>2. \/ cplRing' = Append(cplRing, [tag |-> EndpointTag(r.id), of |-> r.id])
            \/ cplRing' = cplRing
        BY <2>4 DEF Respond
      <4>3. PICK e \in Completions : e = [tag |-> EndpointTag(r.id), of |-> r.id] BY <3>1
      <4>4. Append(cplRing, e) \in Seq(Completions) BY <4>1, AppendElements
      <4> QED BY <4>1, <4>2, <4>3, <4>4
    <3> QED BY <2>4, <3>2 DEF Respond
  <2>5. CASE AnnounceCompletion BY <2>5 DEF AnnounceCompletion
  <2>6. ASSUME NEW k \in DmaCalls, StartDma(k) PROVE Shape'
    <3>0. Append(dmaReqRing, nextDma) \in Seq(Nat) BY AppendElements
    <3>1. nextDma' \in Nat BY <2>6 DEF StartDma
    <3>2. dmaReqRing' = Append(dmaReqRing, nextDma) \/ UNCHANGED dmaReqRing
      BY <2>6 DEF StartDma
    <3>3. UNCHANGED <<cpu, cur, nextTlp, poller, serving, ep, reqRing, cplRing,
                      dmaCplRing>>
      BY <2>6 DEF StartDma
    <3> QED BY <3>0, <3>1, <3>2, <3>3
  <2>7. CASE DmaReceive
    <3>1. dmaCplRing' \in Seq(Nat) BY <2>7, TailElements DEF DmaReceive
    <3>2. UNCHANGED <<cpu, cur, nextTlp, poller, serving, ep, nextDma, reqRing,
                      cplRing, dmaReqRing>>
      BY <2>7 DEF DmaReceive
    <3> QED BY <3>1, <3>2
  <2>8. CASE DmaTimeout BY <2>8 DEF DmaTimeout
  <2>9. CASE SimDies BY <2>9 DEF SimDies
  <2> QED BY <1>3, <2>1, <2>2, <2>3, <2>4, <2>5, <2>6, <2>7, <2>8, <2>9
          DEF Simulator, Poll
<1>4. CASE UNCHANGED vars
  BY <1>4 DEF Shape, vars, qemuVars, pollerVars, simVars, dmaVars, dmaTagVars, rings
<1> QED BY <1>1, <1>2, <1>3, <1>4 DEF Next, Done
-----------------------------------------------------------------------------
(* DMA *)

LEMMA FirstTagType == \A k \in DmaCalls : k \in Nat /\ FirstTag(k) \in Nat
<1>1. \A k \in DmaCalls : k \in Nat BY BridgeAssumption
<1>2. TagGap \in Nat BY BridgeAssumption
<1> QED BY <1>1, <1>2 DEF FirstTag

(* Two kinds have used one tag. *)
LEMMA MetByUse ==
  ASSUME nextTag \in [DmaCalls -> Nat], NEW j \in DmaCalls, NEW k \in DmaCalls, j # k,
         NEW t \in Nat, Used(j, t), Used(k, t)
  PROVE  RangesMet
<1>1. nextTag[j] \in Nat /\ nextTag[k] \in Nat /\ FirstTag(j) \in Nat /\ FirstTag(k) \in Nat
  BY FirstTagType
<1>2. t \in FirstTag(j) .. nextTag[j] - 1 /\ t \in FirstTag(k) .. nextTag[k] - 1
  BY <1>1 DEF Used
<1> QED BY <1>2 DEF RangesMet

LEMMA InitDma == Init => DmaInv
<1> SUFFICES ASSUME Init PROVE DmaInv
  OBVIOUS
<1>1. RepliesAreCopied /\ DmaSuccessIsReal
  BY DEF Init, RepliesAreCopied, DmaSuccessIsReal
<1>2. nextDma = 1 /\ dmaTags = <<>> /\ nextTag = [k \in DmaCalls |-> FirstTag(k)]
  BY DEF Init
<1>3. Calls = {} BY <1>2 DEF Calls
<1>4. CallsKnown BY DEF Init, CallsKnown
<1>5. nextTag \in [DmaCalls -> Nat] /\ \A k \in DmaCalls : FirstTag(k) <= nextTag[k]
  BY <1>2, FirstTagType
<1>6. TagsCounted BY <1>2, <1>3, <1>5 DEF TagsCounted
<1> QED BY <1>1, <1>4, <1>6, InitShape DEF DmaInv

(* A call takes the tag its counter holds: one no call of its kind has. *)
LEMMA NextTagsCounted ==
  ASSUME TagsCounted, [Next]_vars
  PROVE  TagsCounted' /\ (RangesMet => RangesMet') /\ Calls \subseteq Calls'
         /\ \A n \in Calls : dmaTags'[n] = dmaTags[n]
<1>1. ASSUME NEW k \in DmaCalls, StartDma(k)
      PROVE  TagsCounted' /\ (RangesMet => RangesMet') /\ Calls \subseteq Calls'
             /\ \A n \in Calls : dmaTags'[n] = dmaTags[n]
  <2>1. PICK d, t, c : d = nextDma /\ t = nextTag[k] /\ c = Calls OBVIOUS
  <2>2. /\ nextDma' = d + 1 /\ dmaTags' = Append(dmaTags, t)
        /\ nextTag' = [nextTag EXCEPT ![k] = @ + 1]
    BY <1>1, <2>1 DEF StartDma
  <2>3. /\ d \in Nat \ {0} /\ nextTag \in [DmaCalls -> Nat] /\ t \in Nat
        /\ dmaTags \in Seq(Nat) /\ Len(dmaTags) = d - 1
        /\ \A j \in DmaCalls : FirstTag(j) \in Nat /\ FirstTag(j) <= nextTag[j]
    BY <2>1, FirstTagType DEF TagsCounted
  <2>4. /\ nextTag' \in [DmaCalls -> Nat] /\ nextTag'[k] = t + 1
        /\ \A j \in DmaCalls : j # k => nextTag'[j] = nextTag[j]
    BY <2>1, <2>2, <2>3
  <2>5. /\ dmaTags' \in Seq(Nat) /\ Len(dmaTags') = d /\ dmaTags'[d] = t
        /\ \A n \in 1 .. d - 1 : dmaTags'[n] = dmaTags[n]
    BY <2>2, <2>3, AppendProperties
  <2>6. c = 1 .. d - 1 /\ Calls' = c \cup {d} BY <2>1, <2>2, <2>3 DEF Calls
  <2>7. \A n \in c : dmaTags[n] \in Nat BY <2>3, <2>6, ElementOfSeq
  <2>8. ASSUME NEW j \in DmaCalls, NEW u \in Nat, Used(j, u)
        PROVE  FirstTag(j) <= u /\ u < nextTag'[j]
    <3>1. nextTag[j] \in Nat /\ nextTag[j] <= nextTag'[j] BY <2>1, <2>3, <2>4
    <3>2. nextTag'[j] \in Nat BY <2>4
    <3> QED BY <2>3, <2>8, <3>1, <3>2 DEF Used
  <2>9. FirstTag(k) <= t /\ t < nextTag'[k] BY <2>1, <2>3, <2>4
  <2>10. \A j \in DmaCalls : FirstTag(j) <= nextTag'[j]
    <3> SUFFICES ASSUME NEW j \in DmaCalls PROVE FirstTag(j) <= nextTag'[j]
      OBVIOUS
    <3>1. nextTag[j] \in Nat /\ nextTag'[j] \in Nat /\ nextTag[j] <= nextTag'[j]
      BY <2>1, <2>3, <2>4
    <3> QED BY <2>3, <3>1
  <2>11. ASSUME NEW i \in DmaCalls, NEW j \in DmaCalls, i # j, NEW u \in Nat,
                FirstTag(i) <= u, u < nextTag'[i], FirstTag(j) <= u, u < nextTag'[j]
         PROVE  RangesMet'
    <3>1. nextTag'[i] \in Nat /\ nextTag'[j] \in Nat /\ FirstTag(i) \in Nat
          /\ FirstTag(j) \in Nat
      BY <2>3, <2>4
    <3>2. u \in FirstTag(i) .. nextTag'[i] - 1 /\ u \in FirstTag(j) .. nextTag'[j] - 1
      BY <2>11, <3>1
    <3> QED BY <2>11, <3>2 DEF RangesMet, FirstTag
  <2>12. \A n \in Calls' : \E j \in DmaCalls : FirstTag(j) <= dmaTags'[n] /\ dmaTags'[n] < nextTag'[j]
    <3>1. \A n \in c : \E j \in DmaCalls : Used(j, dmaTags[n]) BY <2>1 DEF TagsCounted
    <3>2. ASSUME NEW n \in c
          PROVE  \E j \in DmaCalls : FirstTag(j) <= dmaTags'[n] /\ dmaTags'[n] < nextTag'[j]
      BY <2>5, <2>6, <2>7, <2>8, <3>1
    <3> QED BY <2>5, <2>6, <2>9, <3>2
  <2>13. ASSUME NEW n \in c, dmaTags[n] = t PROVE RangesMet'
    <3>1. PICK j \in DmaCalls : Used(j, dmaTags[n]) BY <2>1 DEF TagsCounted
    <3>2. j # k BY <2>1, <2>3, <2>13, <3>1 DEF Used
    <3>3. FirstTag(j) <= t /\ t < nextTag'[j] BY <2>3, <2>8, <2>13, <3>1
    <3> QED BY <2>3, <2>9, <2>11, <3>2, <3>3
  <2>14. RangesMet => RangesMet'
    <3> SUFFICES ASSUME RangesMet PROVE RangesMet'
      OBVIOUS
    <3>1. PICK i \in DmaCalls, j \in DmaCalls :
            \E u \in FirstTag(i) .. nextTag[i] - 1 :
              i # j /\ u \in FirstTag(j) .. nextTag[j] - 1
      BY DEF RangesMet
    <3>4. PICK u \in FirstTag(i) .. nextTag[i] - 1 :
            i # j /\ u \in FirstTag(j) .. nextTag[j] - 1
      BY <3>1
    <3>2. /\ nextTag[i] \in Nat /\ nextTag[j] \in Nat /\ FirstTag(i) \in Nat
          /\ FirstTag(j) \in Nat
      BY <2>3
    <3>3. u \in Nat /\ Used(i, u) /\ Used(j, u) BY <3>2, <3>4 DEF Used
    <3> QED BY <2>8, <2>11, <3>3, <3>4
  <2>15. ASSUME NEW m \in Calls', NEW n \in Calls', m # n, dmaTags'[m] = dmaTags'[n]
         PROVE  RangesMet'
    <3>1. CASE m \in c /\ n \in c
      <4>1. dmaTags[m] = dmaTags[n] BY <2>5, <2>6, <2>15, <3>1
      <4> QED BY <2>1, <2>14, <2>15, <3>1, <4>1 DEF TagsCounted
    <3>2. CASE m \in c /\ n = d BY <2>5, <2>6, <2>13, <2>15, <3>2
    <3>3. CASE m = d /\ n \in c BY <2>5, <2>6, <2>13, <2>15, <3>3
    <3> QED BY <2>6, <2>15, <3>1, <3>2, <3>3
  <2>16. TagsCounted'
    <3>1. \A j : FirstTag(j)' = FirstTag(j) BY DEF FirstTag
    <3>2. /\ nextDma' \in Nat \ {0} /\ nextTag' \in [DmaCalls -> Nat]
          /\ dmaTags' \in Seq(Nat) /\ Len(dmaTags') = nextDma' - 1
      BY <2>2, <2>3, <2>4, <2>5
    <3>3. \A n \in Calls' : \E j \in DmaCalls : Used(j, dmaTags[n])'
      BY <2>12, <3>1 DEF Used
    <3> QED BY <2>10, <2>15, <3>1, <3>2, <3>3 DEF TagsCounted
  <2>17. \A n \in c : dmaTags'[n] = dmaTags[n] BY <2>5, <2>6
  <2> QED BY <2>1, <2>6, <2>14, <2>16, <2>17
<1>2. ASSUME UNCHANGED dmaTagVars
      PROVE  TagsCounted' /\ (RangesMet => RangesMet') /\ Calls \subseteq Calls'
             /\ \A n \in Calls : dmaTags'[n] = dmaTags[n]
  <2>1. Calls' = Calls /\ (RangesMet' <=> RangesMet)
    BY <1>2 DEF dmaTagVars, Calls, RangesMet, FirstTag
  <2>2. TagsCounted' BY <1>2, <2>1 DEF dmaTagVars, TagsCounted, Used, FirstTag
  <2> QED BY <1>2, <2>1, <2>2 DEF dmaTagVars
<1>3. \/ UNCHANGED dmaTagVars
      \/ \E k \in DmaCalls : StartDma(k)
  <2>1. CASE Caller
    BY <2>1 DEF Caller, SendTlp, NotifyTlp, WaitCompletion, WaitClosed, SendVfEvent,
         StopPoller, Destroy, simVars, dmaVars
  <2>2. CASE Poller
    BY <2>2 DEF Poller, PollerCheck, PollerTake, PollerCopy, PollerPost, PollerNotify,
         pollerIdles, simVars, dmaVars
  <2>3. CASE Simulator
    <3>1. CASE Poll BY <3>1 DEF Poll, PollDeferred, PollSocket, PollClosed, dmaVars
    <3>2. CASE \E r \in ep : Respond(r) BY <3>2 DEF Respond, dmaVars
    <3>3. CASE AnnounceCompletion \/ DmaReceive \/ DmaTimeout \/ SimDies
      BY <3>3 DEF AnnounceCompletion, DmaReceive, DmaTimeout, SimDies, dmaVars
    <3> QED BY <2>3, <3>1, <3>2, <3>3 DEF Simulator
  <2>4. CASE UNCHANGED vars BY <2>4 DEF vars, simVars, dmaVars
  <2> QED BY <2>1, <2>2, <2>3, <2>4 DEF Next, Done
<1> QED BY <1>1, <1>2, <1>3

(* What a step does to the two DMA rings and to the call in progress. *)
LEMMA DmaMoves ==
  ASSUME [Next]_vars
  PROVE  /\ \/ UNCHANGED dmaReqRing
            \/ dmaReqRing # <<>> /\ dmaReqRing' = Tail(dmaReqRing)
            \/ /\ \E k \in DmaCalls : StartDma(k)
               /\ dmaReqRing' = Append(dmaReqRing, nextDma)
         /\ \/ UNCHANGED dmaCplRing
            \/ dmaCplRing # <<>> /\ dmaCplRing' = Tail(dmaCplRing)
            \/ poller = "post" /\ dmaCplRing' = Append(dmaCplRing, serving)
         /\ \/ UNCHANGED <<poller, serving>>
            \/ poller' \in {"check", "drain", "gone"}
            \/ dmaReqRing # <<>> /\ poller' = "copy" /\ serving' = Head(dmaReqRing)
            \/ poller \in {"copy", "post"} /\ UNCHANGED serving
         /\ sim' = "dma" => \/ sim = "dma" /\ UNCHANGED nextDma
                            \/ \E k \in DmaCalls : StartDma(k)
<1>1. CASE Caller
  BY <1>1 DEF Caller, SendTlp, NotifyTlp, WaitCompletion, WaitClosed, SendVfEvent,
       StopPoller, Destroy, pollerVars, simVars, dmaVars, dmaTagVars, rings
<1>2. CASE Poller
  BY <1>2 DEF Poller, PollerCheck, PollerTake, PollerCopy, PollerPost, PollerNotify,
       pollerIdles, simVars, dmaVars, dmaTagVars
<1>3. CASE Simulator
  <2> USE DEF simIdles, pollerVars
  <2>1. CASE Poll
    BY <2>1 DEF Poll, PollDeferred, PollSocket, PollClosed, rings, dmaVars, dmaTagVars
  <2>2. CASE \E r \in ep : Respond(r) BY <2>2 DEF Respond, dmaVars, dmaTagVars
  <2>3. CASE \E k \in DmaCalls : StartDma(k)
    <3>1. UNCHANGED dmaReqRing \/ dmaReqRing' = Append(dmaReqRing, nextDma)
      BY <2>3 DEF StartDma
    <3> QED BY <2>3, <3>1 DEF StartDma
  <2>4. CASE AnnounceCompletion \/ DmaTimeout \/ SimDies
    BY <2>4 DEF AnnounceCompletion, DmaTimeout, SimDies, rings, dmaVars, dmaTagVars
  <2>5. CASE DmaReceive BY <2>5 DEF DmaReceive, dmaTagVars
  <2> QED BY <1>3, <2>1, <2>2, <2>3, <2>4, <2>5 DEF Simulator
<1>4. CASE UNCHANGED vars
  BY <1>4 DEF vars, pollerVars, simVars, dmaVars, dmaTagVars, rings
<1> QED BY <1>1, <1>2, <1>3, <1>4 DEF Next, Done

LEMMA NextCallsKnown ==
  ASSUME Shape, TagsCounted, CallsKnown, [Next]_vars
  PROVE  CallsKnown'
<1>0. /\ Calls \subseteq Calls' /\ nextDma \in Nat \ {0}
      /\ dmaReqRing \in Seq(Nat) /\ dmaCplRing \in Seq(Nat) /\ serving \in Nat
  BY NextTagsCounted DEF Shape, TagsCounted
<1>1. (\E k \in DmaCalls : StartDma(k)) => nextDma \in Calls' /\ dmaCall' = nextDma
  <2> SUFFICES ASSUME NEW k \in DmaCalls, StartDma(k)
               PROVE  nextDma \in Calls' /\ dmaCall' = nextDma
    OBVIOUS
  <2>1. nextDma' = nextDma + 1 BY DEF StartDma
  <2> QED BY <1>0, <2>1 DEF Calls, dmaCall
<1>2. \A i \in 1 .. Len(dmaReqRing') : dmaReqRing'[i] \in Calls'
  <2>1. CASE UNCHANGED dmaReqRing BY <1>0, <2>1 DEF CallsKnown
  <2>2. CASE dmaReqRing # <<>> /\ dmaReqRing' = Tail(dmaReqRing)
    BY <1>0, <2>2, TailElements DEF CallsKnown
  <2>3. CASE /\ \E k \in DmaCalls : StartDma(k)
             /\ dmaReqRing' = Append(dmaReqRing, nextDma)
    <3>1. \A i \in 1 .. Len(dmaReqRing') :
            \/ i \in 1 .. Len(dmaReqRing) /\ dmaReqRing'[i] = dmaReqRing[i]
            \/ dmaReqRing'[i] = nextDma
      BY <1>0, <2>3, AppendElements
    <3> QED BY <1>0, <1>1, <2>3, <3>1 DEF CallsKnown
  <2> QED BY <2>1, <2>2, <2>3, DmaMoves
<1>3. \A i \in 1 .. Len(dmaCplRing') : dmaCplRing'[i] \in Calls'
  <2>1. CASE UNCHANGED dmaCplRing BY <1>0, <2>1 DEF CallsKnown
  <2>2. CASE dmaCplRing # <<>> /\ dmaCplRing' = Tail(dmaCplRing)
    BY <1>0, <2>2, TailElements DEF CallsKnown
  <2>3. CASE poller = "post" /\ dmaCplRing' = Append(dmaCplRing, serving)
    <3>1. \A i \in 1 .. Len(dmaCplRing') :
            \/ i \in 1 .. Len(dmaCplRing) /\ dmaCplRing'[i] = dmaCplRing[i]
            \/ dmaCplRing'[i] = serving
      BY <1>0, <2>3, AppendElements
    <3> QED BY <1>0, <2>3, <3>1 DEF CallsKnown
  <2> QED BY <2>1, <2>2, <2>3, DmaMoves
<1>4. poller' \in {"copy", "post", "notify"} => serving' \in Calls'
  <2>1. dmaReqRing # <<>> => Head(dmaReqRing) \in Calls
    BY <1>0, TailElements DEF CallsKnown
  <2> QED BY <1>0, <2>1, DmaMoves DEF CallsKnown
<1>5. sim' = "dma" => dmaCall' \in Calls'
  <2>1. sim = "dma" /\ UNCHANGED nextDma => dmaCall' \in Calls'
    BY <1>0 DEF CallsKnown, dmaCall
  <2> QED BY <1>1, <2>1, DmaMoves
<1> QED BY <1>2, <1>3, <1>4, <1>5 DEF CallsKnown

(* The poller moves the data of a request before it posts the reply. *)
LEMMA NextReplies ==
  ASSUME Shape, RepliesAreCopied, [Next]_vars
  PROVE  RepliesAreCopied' /\ copied \subseteq copied'
<1>0. dmaCplRing \in Seq(Nat) /\ serving \in Nat BY DEF Shape
<1>1. CASE Caller \/ Simulator \/ UNCHANGED vars
  <2>1. UNCHANGED pollerVars
    BY <1>1 DEF Caller, SendTlp, NotifyTlp, WaitCompletion, WaitClosed, SendVfEvent,
         StopPoller, Destroy, Simulator, Poll, PollDeferred, PollSocket, PollClosed, Respond,
         AnnounceCompletion, StartDma, DmaReceive, DmaTimeout, SimDies, simIdles, vars
  <2>2. poller = "post" => serving \in copied BY DEF RepliesAreCopied
  <2>3. \A i \in 1 .. Len(dmaCplRing') : dmaCplRing'[i] \in copied
    <3>1. CASE UNCHANGED dmaCplRing BY <3>1 DEF RepliesAreCopied
    <3>2. CASE dmaCplRing # <<>> /\ dmaCplRing' = Tail(dmaCplRing)
      BY <1>0, <3>2, TailElements DEF RepliesAreCopied
    <3>3. CASE poller = "post" /\ dmaCplRing' = Append(dmaCplRing, serving)
      <4>1. \A i \in 1 .. Len(dmaCplRing') :
              \/ i \in 1 .. Len(dmaCplRing) /\ dmaCplRing'[i] = dmaCplRing[i]
              \/ dmaCplRing'[i] = serving
        BY <1>0, <3>3, AppendElements
      <4> QED BY <2>2, <3>3, <4>1 DEF RepliesAreCopied
    <3> QED BY <3>1, <3>2, <3>3, DmaMoves
  <2> QED BY <2>1, <2>3 DEF RepliesAreCopied, pollerVars
<1>2. CASE Poller
  <2>1. copied \subseteq copied'
    BY <1>2 DEF Poller, PollerCheck, PollerTake, PollerCopy, PollerPost, PollerNotify
  <2>2. CASE PollerPost
    <3>1. serving \in copied BY <2>2 DEF PollerPost, RepliesAreCopied
    <3>2. \A i \in 1 .. Len(Append(dmaCplRing, serving)) :
            Append(dmaCplRing, serving)[i] \in copied
      BY <1>0, <3>1, AppendElements DEF RepliesAreCopied
    <3>3. RepliesAreCopied'
      BY <2>2, <3>1, <3>2 DEF PollerPost, RepliesAreCopied
    <3> QED BY <2>1, <3>3
  <2>3. CASE ~PollerPost
    <3>1. UNCHANGED dmaCplRing
      BY <1>2, <2>3 DEF Poller, PollerCheck, PollerTake, PollerCopy, PollerNotify
    <3>2. poller' \in {"post", "notify"} => serving' \in copied'
      BY <1>2, <2>3 DEF Poller, PollerCheck, PollerTake, PollerCopy, PollerNotify
    <3>3. RepliesAreCopied' BY <2>1, <3>1, <3>2 DEF RepliesAreCopied
    <3> QED BY <2>1, <3>3
  <2> QED BY <2>2, <2>3
<1> QED BY <1>1, <1>2 DEF Next, Done

(* The wait hands out the head of dma_cpl_ring only to a call that has its *)
(* tag; every other way out of a DMA call reports a failure.               *)
LEMMA NextDmaInv == ASSUME DmaInv, [Next]_vars PROVE DmaInv'
<1>1. Shape /\ RepliesAreCopied /\ CallsKnown /\ TagsCounted /\ DmaSuccessIsReal
  BY DEF DmaInv
<1>2. Shape' BY <1>1, NextShape
<1>3. RepliesAreCopied' /\ copied \subseteq copied' BY <1>1, NextReplies
<1>4. CallsKnown' BY <1>1, NextCallsKnown
<1>5. TagsCounted' /\ (RangesMet => RangesMet') BY <1>1, NextTagsCounted
<1>6. CASE DmaReceive
  <2>1. \/ UNCHANGED dmaResult
        \/ dmaResult' = [call |-> dmaCall, ok |-> FALSE]
        \/ /\ dmaCplRing # <<>>
           /\ dmaResult' = [call |-> dmaCall, ok |-> IsReply(Head(dmaCplRing))]
    BY <1>6 DEF DmaReceive, DmaReturns, DmaContinues
  <2>2. DmaSuccessIsReal'
    <3>2. CASE UNCHANGED dmaResult BY <1>1, <1>3, <1>5, <3>2 DEF DmaSuccessIsReal
    <3>3. CASE dmaResult' = [call |-> dmaCall, ok |-> FALSE]
      BY <3>3 DEF DmaSuccessIsReal
    <3>4. CASE /\ dmaCplRing # <<>>
               /\ dmaResult' = [call |-> dmaCall, ok |-> IsReply(Head(dmaCplRing))]
      <4>1. PICK n : n = Head(dmaCplRing) OBVIOUS
      <4>2. dmaResult'.call = dmaCall /\ (dmaResult'.ok => dmaTags[n] = dmaTags[dmaCall])
        BY <3>4, <4>1 DEF IsReply
      <4>3. n \in copied /\ n \in Calls
        <5>1. dmaCplRing \in Seq(Nat) BY <1>1 DEF Shape
        <5>2. n = dmaCplRing[1] /\ 1 \in 1 .. Len(dmaCplRing)
          BY <3>4, <4>1, <5>1, TailElements
        <5> QED BY <1>1, <5>2 DEF RepliesAreCopied, CallsKnown
      <4>4. dmaCall \in Calls BY <1>1, <1>6 DEF DmaReceive, CallsKnown
      <4>5. dmaResult'.ok => n = dmaCall \/ RangesMet BY <1>1, <4>2, <4>3, <4>4 DEF TagsCounted
      <4> QED BY <1>3, <1>5, <4>2, <4>3, <4>5 DEF DmaSuccessIsReal
    <3> QED BY <2>1, <3>2, <3>3, <3>4
  <2> QED BY <1>2, <1>3, <1>4, <1>5, <2>2 DEF DmaInv
<1>7. CASE ~DmaReceive
  <2>1. \/ UNCHANGED dmaResult
        \/ \E n : dmaResult' = [call |-> n, ok |-> FALSE]
    <3>1. CASE Caller
      BY <3>1 DEF Caller, SendTlp, NotifyTlp, WaitCompletion, WaitClosed, SendVfEvent,
           StopPoller, Destroy, simVars, dmaVars
    <3>2. CASE Poller
      BY <3>2 DEF Poller, PollerCheck, PollerTake, PollerCopy, PollerPost, PollerNotify,
           pollerIdles, simVars, dmaVars
    <3>3. CASE Simulator
      <4>1. CASE Poll BY <4>1 DEF Poll, PollDeferred, PollSocket, PollClosed, dmaVars
      <4>2. CASE \E r \in ep : Respond(r) BY <4>2 DEF Respond, dmaVars
      <4>3. CASE \E k \in DmaCalls : StartDma(k) BY <4>3 DEF StartDma
      <4>4. CASE DmaTimeout BY <4>4 DEF DmaTimeout, DmaReturns, DmaContinues
      <4>5. CASE AnnounceCompletion \/ SimDies
        BY <4>5 DEF AnnounceCompletion, SimDies, dmaVars
      <4> QED BY <1>7, <3>3, <4>1, <4>2, <4>3, <4>4, <4>5 DEF Simulator
    <3>4. CASE UNCHANGED vars BY <3>4 DEF vars, simVars, dmaVars
    <3> QED BY <3>1, <3>2, <3>3, <3>4 DEF Next, Done
  <2>2. DmaSuccessIsReal' BY <1>1, <1>3, <1>5, <2>1 DEF DmaSuccessIsReal
  <2> QED BY <1>2, <1>3, <1>4, <1>5, <2>2 DEF DmaInv
<1> QED BY <1>6, <1>7

(* A synchronous DMA call that returns 0 has had its own request served by *)
(* the poller thread, however many earlier ones were given up, for as long *)
(* as the static tag counters of bridge_vcs.c (from 1000, 2000, 3000, 5000 *)
(* and 6000) have not run into one another; after that the late reply of a *)
(* call given up may be taken for that of a call of another kind.          *)
THEOREM DmaSuccess == Spec => []DmaSuccessIsReal
<1>1. DmaInv /\ [Next]_vars => DmaInv' BY NextDmaInv
<1>2. DmaInv => DmaSuccessIsReal BY DEF DmaInv
<1> QED BY InitDma, <1>1, <1>2, PTL DEF Spec
-----------------------------------------------------------------------------
(* Shutdown *)

(* bridge_destroy unmaps the shared memory only after the join.            *)
THEOREM PollerJoined == Spec => []PollerGoneBeforeUnmap
<1>1. Init => PollerGoneBeforeUnmap BY DEF Init, PollerGoneBeforeUnmap, QemuUp
<1>2. PollerGoneBeforeUnmap /\ [Next]_vars => PollerGoneBeforeUnmap'
  <2> SUFFICES ASSUME PollerGoneBeforeUnmap, [Next]_vars
               PROVE  PollerGoneBeforeUnmap'
    OBVIOUS
  <2> USE DEF PollerGoneBeforeUnmap, QemuUp
  <2>1. CASE Caller
    BY <2>1 DEF Caller, SendTlp, NotifyTlp, WaitCompletion, Claim, WaitClosed,
         SendVfEvent, StopPoller, Destroy, qemuVars, pollerVars
  <2>2. CASE Poller
    BY <2>2 DEF Poller, PollerCheck, PollerTake, PollerCopy, PollerPost,
         PollerNotify, pollerIdles, qemuVars
  <2>3. CASE Simulator
    BY <2>3 DEF Simulator, Poll, PollDeferred, PollSocket, PollClosed, Respond,
         AnnounceCompletion, StartDma, DmaReceive, DmaTimeout, SimDies,
         simIdles, qemuVars, pollerVars
  <2>4. CASE UNCHANGED vars BY <2>4 DEF vars, qemuVars, pollerVars
  <2> QED BY <2>1, <2>2, <2>3, <2>4 DEF Next, Done
<1> QED BY <1>1, <1>2, PTL DEF Spec
-----------------------------------------------------------------------------
(* Matching completions to reads *)

LEMMA InitMatch == Init => MatchInv
<1> SUFFICES ASSUME Init PROVE MatchInv
  OBVIOUS
<1>1. TagsKept /\ CurApart /\ AnsweredByOwn
  BY DEF Init, Fails, TagsKept, CurApart, AnsweredByOwn
<1> QED BY <1>1, InitShape DEF MatchInv

LEMMA AwaitedIsUnclaimed ==
  ASSUME Shape, NEW i \in Awaited
  PROVE  \E u \in Unclaimed : u.id = i
<1>1. CASE i \in Requested
  <2>1. PICK j \in 1 .. Len(reqRing) : NonPosted(reqRing[j]) /\ i = reqRing[j].id
    BY <1>1 DEF Requested
  <2>2. reqRing[j] \in Range(reqRing) BY LenProperties DEF Shape, Range
  <2> QED BY <2>1, <2>2 DEF Unclaimed
<1>2. CASE i \in Accepted BY <1>2 DEF Accepted, Unclaimed
<1>3. CASE i \in Completed
  <2>1. PICK j \in 1 .. Len(cplRing) : i = cplRing[j].of BY <1>3 DEF Completed
  <2>2. cplRing[j] \in Range(cplRing) BY LenProperties DEF Shape, Range
  <2>3. [id |-> cplRing[j].of, kind |-> "cfgwr"] \in Unclaimed BY <2>2 DEF Unclaimed
  <2> QED BY <2>1, <2>3
<1> QED BY <1>1, <1>2, <1>3 DEF Awaited

(* A step other than bridge_send_tlp awaits no more than before, and none  *)
(* but that step makes a caller wait for another TLP.                      *)
LEMMA AwaitedShrinks ==
  ASSUME Shape, CurApart, Awaited' \subseteq Awaited, UNCHANGED cur,
         cpu' \in {"notify", "wait"} => cpu \in {"notify", "wait"}
  PROVE  CurApart'
BY DEF CurApart, Tag

(* bridge_send_tlp: the new tag differs from every awaited one. *)
LEMMA SendMatch ==
  ASSUME FreshTags, MatchInv, NEW k \in Kinds, SendTlp(k)
  PROVE  MatchInv'
<1> DEFINE r == [id |-> nextTlp, kind |-> k]
<1>1. Shape /\ TagsKept /\ CurApart /\ AnsweredByOwn BY DEF MatchInv
<1>2. Shape'
  <2>1. Next BY DEF Next, Caller
  <2> QED BY <1>1, <2>1, NextShape
<1>3. UNCHANGED <<cplRing, ep>> BY DEF SendTlp, simVars
<1>4. TagsKept' BY <1>1, <1>3 DEF TagsKept
<1>5. AnsweredByOwn' BY <1>1 DEF SendTlp, AnsweredByOwn, Fails
<1>6. CASE ReqRoom
  <2>1. cur' = r /\ reqRing' = Append(reqRing, r) BY <1>6 DEF SendTlp
  <2>2. reqRing \in Seq(Reads) /\ r \in Reads BY <1>1 DEF Shape, Reads
  <2>3. Requested' \subseteq Requested \cup {nextTlp}
    <3> SUFFICES ASSUME NEW i \in Requested', i # nextTlp PROVE i \in Requested
      OBVIOUS
    <3>1. PICK j \in 1 .. Len(reqRing') : NonPosted(reqRing'[j]) /\ i = reqRing'[j].id
      BY DEF Requested, NonPosted
    <3>2. reqRing'[j] # r BY <3>1
    <3>3. j \in 1 .. Len(reqRing) /\ reqRing'[j] = reqRing[j]
      BY <2>1, <2>2, <3>1, <3>2, AppendElements
    <3> QED BY <3>1, <3>3 DEF Requested
  <2>4. Awaited' \subseteq Awaited \cup {nextTlp}
    BY <1>3, <2>3 DEF Awaited, Accepted, Completed
  <2>5. \A i \in Awaited : Tag(i) # Tag(nextTlp)
    BY <1>1, AwaitedIsUnclaimed DEF SendTlp
  <2>6. cur'.id = nextTlp BY <2>1
  <2>7. CurApart' BY <2>4, <2>5, <2>6 DEF CurApart, Tag
  <2> QED BY <1>2, <1>4, <1>5, <2>7 DEF MatchInv
<1>7. CASE ~ReqRoom
  <2>1. UNCHANGED <<reqRing, cpu, cur>> BY <1>7 DEF SendTlp
  <2>2. CurApart'
    BY <1>1, <1>3, <2>1 DEF CurApart, Awaited, Requested, Accepted, Completed, NonPosted
  <2> QED BY <1>2, <1>4, <1>5, <2>2 DEF MatchInv
<1> QED BY <1>6, <1>7

(* bridge_wait_completion: a completion with the caller's tag is its own.  *)
LEMMA WaitMatch ==
  ASSUME MatchInv, WaitCompletion
  PROVE  MatchInv'
<1>1. Shape /\ TagsKept /\ CurApart /\ AnsweredByOwn BY DEF MatchInv
<1>2. Shape'
  <2>1. Next BY DEF Next, Caller
  <2> QED BY <1>1, <2>1, NextShape
<1>3. UNCHANGED <<cur, reqRing, ep>> /\ cpu = "wait" BY DEF WaitCompletion, simVars
<1>4. CASE cplRing = <<>>
  <2>1. UNCHANGED cplRing /\ cpu' = "idle" /\ answer'.how = "empty"
    BY <1>4 DEF WaitCompletion, Fails
  <2>2. TagsKept' BY <1>1, <2>1 DEF TagsKept
  <2>3. CurApart' BY <2>1 DEF CurApart
  <2>4. AnsweredByOwn' BY <2>1 DEF AnsweredByOwn
  <2> QED BY <1>2, <2>2, <2>3, <2>4 DEF MatchInv
<1>5. CASE cplRing # <<>>
  <2> DEFINE c == Head(cplRing)
  <2>1. cplRing' = Tail(cplRing) /\ Claim(c.tag, c.of) BY <1>5 DEF WaitCompletion
  <2>2. cplRing \in Seq(Completions) BY <1>1 DEF Shape
  <2>3. /\ c = cplRing[1] /\ 1 \in 1 .. Len(cplRing)
        /\ \A i \in 1 .. Len(cplRing') :
             i + 1 \in 1 .. Len(cplRing) /\ cplRing'[i] = cplRing[i + 1]
    BY <1>5, <2>1, <2>2, TailElements
  <2>4. TagsKept' BY <1>1, <2>3 DEF TagsKept, Tag
  <2>5. Completed' \subseteq Completed BY <2>3 DEF Completed
  <2>6. Awaited' \subseteq Awaited
    BY <1>3, <2>5 DEF Awaited, Requested, Accepted, NonPosted
  <2>7. CurApart' BY <1>1, <1>3, <2>6, AwaitedShrinks
  <2>8. c.tag = Tag(c.of) /\ c.of \in Awaited
    BY <1>1, <2>3 DEF TagsKept, Awaited, Completed
  <2>9. AnsweredByOwn'
    <3>1. CASE c.tag = Tag(cur.id)
      <4>1. c.of = cur.id BY <1>1, <1>3, <2>8, <3>1 DEF CurApart
      <4> QED BY <2>1, <3>1, <4>1 DEF Claim, Answered, AnsweredByOwn
    <3>2. CASE c.tag # Tag(cur.id)
      <4>1. UNCHANGED answer \/ answer'.how = "drained"
        BY <2>1, <3>2 DEF Claim, Fails
      <4> QED BY <1>1, <4>1 DEF AnsweredByOwn
    <3> QED BY <3>1, <3>2
  <2> QED BY <1>2, <2>4, <2>7, <2>9 DEF MatchInv
<1> QED BY <1>4, <1>5

(* A poll moves the head of req_ring to the endpoint. *)
LEMMA TakeMatch ==
  ASSUME MatchInv, Shape', UNCHANGED <<cur, cpu, answer, cplRing>>, reqRing # <<>>,
         reqRing' = Tail(reqRing), Accept(Head(reqRing))
  PROVE  MatchInv'
<1>1. Shape /\ TagsKept /\ CurApart /\ AnsweredByOwn BY DEF MatchInv
<1>2. TagsKept' /\ AnsweredByOwn' BY <1>1 DEF TagsKept, AnsweredByOwn
<1>3. reqRing \in Seq(Reads) BY <1>1 DEF Shape
<1>4. /\ Head(reqRing) = reqRing[1] /\ 1 \in 1 .. Len(reqRing)
      /\ \A i \in 1 .. Len(reqRing') :
           i + 1 \in 1 .. Len(reqRing) /\ reqRing'[i] = reqRing[i + 1]
  BY <1>3, TailElements
<1>5. Requested' \subseteq Requested BY <1>4 DEF Requested, NonPosted
<1>6. Accepted' \subseteq Accepted \cup Requested
  BY <1>4 DEF Accept, Accepted, Requested, NonPosted
<1>7. Awaited' \subseteq Awaited BY <1>5, <1>6 DEF Awaited, Completed
<1>8. CurApart' BY <1>1, <1>7, AwaitedShrinks
<1> QED BY <1>2, <1>8 DEF MatchInv

(* The endpoint's completion keeps the tag it was asked with. *)
LEMMA RespondMatch ==
  ASSUME EndpointTags >= TagSpace, MatchInv, Shape', NEW r \in ep, Respond(r)
  PROVE  MatchInv'
<1> DEFINE c == [tag |-> EndpointTag(r.id), of |-> r.id]
<1>1. Shape /\ TagsKept /\ CurApart /\ AnsweredByOwn BY DEF MatchInv
<1>2. /\ UNCHANGED <<cur, cpu, answer, reqRing>> /\ ep' = ep \ {r}
      /\ cplRing' = Append(cplRing, c) \/ UNCHANGED cplRing
  BY DEF Respond, simIdles, qemuVars
<1>3. r.id \in Nat BY <1>1 DEF Shape, Reads
<1>4. c.tag = Tag(c.of) BY <1>3, EndpointKeepsTag
<1>5. cplRing \in Seq(Completions) /\ c \in Completions
  BY <1>1, <1>3, EndpointTagType DEF Shape, Completions
<1>6. \A i \in 1 .. Len(cplRing') :
        \/ i \in 1 .. Len(cplRing) /\ cplRing'[i] = cplRing[i]
        \/ cplRing'[i] = c
  BY <1>2, <1>5, AppendElements
<1>7. TagsKept' BY <1>1, <1>4, <1>6 DEF TagsKept, Tag
<1>8. Completed' \subseteq Completed \cup Accepted BY <1>6 DEF Completed, Accepted
<1>9. Awaited' \subseteq Awaited
  BY <1>2, <1>8 DEF Awaited, Accepted, Requested, NonPosted
<1>10. CurApart' BY <1>1, <1>2, <1>9, AwaitedShrinks
<1>11. AnsweredByOwn' BY <1>1, <1>2 DEF AnsweredByOwn
<1> QED BY <1>7, <1>10, <1>11 DEF MatchInv

(* Steps that touch neither the awaited TLPs nor an answer that counts. *)
LEMMA OtherMatch ==
  ASSUME MatchInv, Shape', UNCHANGED <<cur, reqRing, ep, cplRing>>,
         UNCHANGED answer \/ answer'.how # "answered",
         cpu' \in {"notify", "wait"} => cpu \in {"notify", "wait"}
  PROVE  MatchInv'
<1>1. Shape /\ TagsKept /\ CurApart /\ AnsweredByOwn BY DEF MatchInv
<1>2. TagsKept' /\ AnsweredByOwn' BY <1>1 DEF TagsKept, AnsweredByOwn
<1>3. Awaited' \subseteq Awaited
  BY DEF Awaited, Requested, Accepted, Completed, NonPosted
<1>4. CurApart' BY <1>1, <1>3, AwaitedShrinks
<1> QED BY <1>2, <1>4 DEF MatchInv

LEMMA NextMatch ==
  ASSUME FreshTags, EndpointTags >= TagSpace, MatchInv, [Next]_vars
  PROVE  MatchInv'
<1>1. Shape' BY NextShape DEF MatchInv
<1>2. CASE Caller
  <2>1. CASE \E k \in Kinds : SendTlp(k) BY <2>1, SendMatch
  <2>2. CASE NotifyTlp
    BY <1>1, <2>2, OtherMatch DEF NotifyTlp, simVars, rings, Fails
  <2>3. CASE WaitCompletion BY <2>3, WaitMatch
  <2>4. CASE WaitClosed
    BY <1>1, <2>4, OtherMatch DEF WaitClosed, simVars, rings, Fails
  <2>5. CASE SendVfEvent
    BY <1>1, <2>5, OtherMatch DEF SendVfEvent, qemuVars, simVars, rings
  <2>6. CASE StopPoller BY <1>1, <2>6, OtherMatch DEF StopPoller, simVars, rings
  <2>7. CASE Destroy BY <1>1, <2>7, OtherMatch DEF Destroy, simVars, rings
  <2> QED BY <1>2, <2>1, <2>2, <2>3, <2>4, <2>5, <2>6, <2>7 DEF Caller
<1>3. CASE Poller
  <2>1. UNCHANGED <<cur, reqRing, ep, cplRing, answer, cpu>>
    BY <1>3 DEF Poller, PollerCheck, PollerTake, PollerCopy, PollerPost,
         PollerNotify, pollerIdles, qemuVars, simVars
  <2> QED BY <1>1, <2>1, OtherMatch
<1>4. CASE Simulator
  <2> USE DEF simIdles, qemuVars, rings
  <2>1. CASE PollDeferred BY <1>1, <2>1, TakeMatch DEF PollDeferred
  <2>2. CASE PollSocket
    <3>0. UNCHANGED <<cur, cpu, answer, cplRing>> BY <2>2 DEF PollSocket
    <3>1. \/ /\ reqRing # <<>> /\ Accept(Head(reqRing))
             /\ reqRing' = Tail(reqRing)
          \/ UNCHANGED <<ep, reqRing>>
      BY <2>2 DEF PollSocket
    <3> QED BY <1>1, <3>0, <3>1, TakeMatch, OtherMatch
  <2>3. CASE PollClosed BY <1>1, <2>3, OtherMatch DEF PollClosed
  <2>4. CASE \E r \in ep : Respond(r) BY <1>1, <2>4, RespondMatch
  <2>5. CASE AnnounceCompletion BY <1>1, <2>5, OtherMatch DEF AnnounceCompletion
  <2>6. CASE \E k \in DmaCalls : StartDma(k) BY <1>1, <2>6, OtherMatch DEF StartDma
  <2>7. CASE DmaReceive BY <1>1, <2>7, OtherMatch DEF DmaReceive
  <2>8. CASE DmaTimeout BY <1>1, <2>8, OtherMatch DEF DmaTimeout
  <2>9. CASE SimDies BY <1>1, <2>9, OtherMatch DEF SimDies
  <2> QED BY <1>4, <2>1, <2>2, <2>3, <2>4, <2>5, <2>6, <2>7, <2>8, <2>9
          DEF Simulator, Poll
<1>5. CASE UNCHANGED vars
  BY <1>1, <1>5, OtherMatch DEF vars, qemuVars, simVars, rings
<1> QED BY <1>2, <1>3, <1>4, <1>5 DEF Next, Done

(* A read that returns a completion returns its own: for every size of the *)
(* rings and of the tag space, provided that no tag is reused while its    *)
(* completion is pending and that the endpoint keeps every bit of a tag.   *)
THEOREM ReadsMatch ==
  ASSUME FreshTags, EndpointTags >= TagSpace
  PROVE  Spec => []AnsweredByOwn
<1>1. MatchInv /\ [Next]_vars => MatchInv' BY NextMatch
<1>2. MatchInv => AnsweredByOwn BY DEF MatchInv
<1> QED BY InitMatch, <1>1, <1>2, PTL DEF Spec
=============================================================================
