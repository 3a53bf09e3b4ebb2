------------------------- MODULE PciFunctionsProofs -------------------------
(***************************************************************************)
(* Safety of the functions, for every number of PFs, of VFs and of         *)
(* operations.  What the simulator does later depends on the messages that *)
(* are still on their way.  A queue Leads from one value to another when   *)
(* its messages, taken in order, change the first into the second: the VFs *)
(* the simulator knows of a PF into those the guest has, unless they       *)
(* changed without an event, and the register of a function, with the VFs  *)
(* known when a write arrives, into what the guest last wrote to it.       *)
(***************************************************************************)
EXTENDS PciFunctions, TLAPS, FunctionTheorems, SequenceTheorems

Leads(s, V, a, b, R) ==
  \E h \in [0 .. Len(s) -> V] :
    /\ h[0] = a /\ h[Len(s)] = b
    /\ \A i \in 1 .. Len(s) : <<s[i], h[i - 1], h[i]>> \in R

Tlps == [kind : {"rd"}, bdf : Nat] \cup [kind : {"wr"}, bdf : Nat, value : Contents]
VfEvents == [kind : {"vf"}, pf : Pfs, count : 0 .. MaxVfs]
IsTlp(m) == m.kind \in {"rd", "wr"}

(* The cache holds TLPs, the slot a VF event. *)
Types == TypeOK /\ cache \in Seq(Tlps) /\ vfEvent \in VfEvents \cup {NoEvent}

HasKind(q, k) == \E i \in 1 .. Len(q) : q[i].kind = k
ReadIsLast(q, b) == \A i \in 1 .. Len(q) : q[i].kind = "rd" => i = Len(q) /\ q[i].bdf = b

(* What is under way when.  The vCPU waits only for a live function the    *)
(* guest may access; over shared memory nothing is kept aside.             *)
Order ==
  /\ pf = "absent" => toVcs = <<>>
  /\ pf = "query" => toVcs = <<[kind |-> "query"]>>
  /\ HasKind(toVcs, "query") => pf = "query"
  /\ cpu = "wait" => pf = "live" /\ Accessible(target)
  /\ transport = "shm" => cache = <<>> /\ vfEvent = NoEvent /\ sim # "drain"

(* A read under way is the last message, and the one the vCPU waits for.   *)
Reads ==
  /\ ReadIsLast(toVcs, QemuBdf(target)) /\ ReadIsLast(cache, QemuBdf(target))
  /\ HasKind(toVcs, "rd") \/ HasKind(cache, "rd") => cpu = "wait" /\ ~answer.known
  /\ HasKind(toVcs, "rd") => ~HasKind(cache, "rd")
  /\ HasKind(cache, "rd") => toVcs = <<>>

(* With one PF the table holds it and the enabled VFs. *)
Table == numPfs = 1 => DOMAIN lut = {0} \cup {b \in 0 .. MaxVfs : <<0, b>> \in enabled}

(* What a message makes of the number of VFs of PF p: over shared memory   *)
(* an ENABLE takes none away, over TCP the last event is what remains.     *)
Counted(p, m, n) ==
  IF m.kind = "vf" /\ m.pf = p
  THEN IF transport = "shm" /\ 0 < m.count /\ m.count < n THEN n ELSE m.count
  ELSE n
VfSteps(p) ==
  {t \in Messages \X (0 .. MaxVfs) \X (0 .. MaxVfs) : t[3] = Counted(p, t[1], t[2])}

Known(p) == {k \in 0 .. MaxVfs : <<p, k>> \in enabled}

(* The messages to the simulator lead from a VFs of p to those of QEMU,    *)
(* unless some change made no event.                                       *)
VfsOf(p, a, z) ==
  /\ Leads(toVcs, 0 .. MaxVfs, a, z, VfSteps(p))
  /\ p \notin silent => z = vfs[p]
  /\ transport = "shm" => Known(p) = 1 .. a
  /\ vfEvent = NoEvent => 1 .. a \subseteq Known(p)
  /\ vfEvent # NoEvent => vfEvent.count = a
Vfs == pf # "gone" /\ (transport = "shm" \/ numPfs = 1) =>
         \A p \in Pfs : \E a, z \in 0 .. MaxVfs : VfsOf(p, a, z)

(* What a message does to the register of function f of the only PF, when  *)
(* the simulator knows n VFs: a write to a VF beyond them is dropped.  The *)
(* PF's own register does not depend on n.                                 *)
Views == (0 .. MaxVfs) \X Contents
After(f, m, v) ==
  <<IF VfOf(f) = 0 THEN v[1] ELSE Counted(0, m, v[1]),
    IF m.kind = "wr" /\ m.bdf = VfOf(f) /\ VfOf(f) <= v[1] THEN m.value ELSE v[2]>>
WrSteps(f) == {t \in Messages \X Views \X Views : t[3] = After(f, t[1], t[2])}

(* The view the guest has: its VFs, and what it wrote in the bytes kept.   *)
Sees(f, z) ==
  /\ VfOf(f) > 0 /\ 0 \notin silent => z[1] = vfs[0]
  /\ \A l \in kept[f] : z[2][l] = wrote[f][l]

(* The cached TLPs lead from the register to x, the messages to what the   *)
(* guest sees.                                                             *)
WritesOf(f, n, x, z) ==
  /\ Leads(cache, Views, <<n, regs[f]>>, x, WrSteps(f))
  /\ Leads(toVcs, Views, x, z, WrSteps(f))
  /\ VfOf(f) > 0 => Known(0) = 1 .. n
  /\ Sees(f, z)
Writes == pf # "gone" /\ numPfs = 1 =>
            \A f \in Functions : transport = "shm" \/ VfOf(f) = 0 =>
              \E n \in 0 .. MaxVfs, x, z \in Views : WritesOf(f, n, x, z)
-----------------------------------------------------------------------------
(* Queues *)

LEMMA LeadsEnds ==
  ASSUME NEW S, NEW s \in Seq(S), NEW V, NEW a, NEW b, NEW R, Leads(s, V, a, b, R)
  PROVE  a \in V /\ b \in V
<1>1. Len(s) \in Nat BY LenProperties
<1> QED BY <1>1 DEF Leads

LEMMA LeadsEmpty ==
  ASSUME NEW V, NEW a \in V, NEW b, NEW R
  PROVE  Leads(<<>>, V, a, b, R) <=> a = b
<1>1. Len(<<>>) = 0 BY EmptySeq
<1>2. ASSUME Leads(<<>>, V, a, b, R) PROVE a = b BY <1>1, <1>2 DEF Leads
<1>3. ASSUME a = b PROVE Leads(<<>>, V, a, b, R)
  <2> DEFINE h == [i \in 0 .. 0 |-> a]
  <2>1. h \in [0 .. Len(<<>>) -> V] /\ h[0] = a /\ h[Len(<<>>)] = b BY <1>1, <1>3
  <2>2. 1 .. Len(<<>>) = {} BY <1>1
  <2> HIDE DEF h
  <2> QED BY <2>1, <2>2 DEF Leads
<1> QED BY <1>2, <1>3

LEMMA LeadsAppend ==
  ASSUME NEW S, NEW s \in Seq(S), NEW e \in S, NEW V, NEW a, NEW b, NEW c \in V, NEW R,
         Leads(s, V, a, b, R), <<e, b, c>> \in R
  PROVE  Leads(Append(s, e), V, a, c, R)
<1>1. PICK h \in [0 .. Len(s) -> V] :
        /\ h[0] = a /\ h[Len(s)] = b
        /\ \A i \in 1 .. Len(s) : <<s[i], h[i - 1], h[i]>> \in R
  BY DEF Leads
<1>2. PICK z : z = Append(s, e) OBVIOUS
<1>3. PICK n \in Nat : n = Len(s) BY LenProperties
<1>4. /\ Len(z) = n + 1 /\ z[n + 1] = e /\ \A i \in 1 .. n : z[i] = s[i]
  BY <1>2, <1>3, AppendProperties
<1> DEFINE g == [i \in 0 .. n + 1 |-> IF i = n + 1 THEN c ELSE h[i]]
<1>5. /\ g \in [0 .. n + 1 -> V] /\ g[0] = a /\ g[n + 1] = c
      /\ \A i \in 0 .. n : g[i] = h[i]
  <2>1. 0 \in 0 .. n + 1 /\ 0 # n + 1 /\ n + 1 \in 0 .. n + 1 /\ 0 .. n \subseteq 0 .. n + 1
    OBVIOUS
  <2>2. \A i \in 0 .. n + 1 : i # n + 1 => i \in 0 .. n OBVIOUS
  <2>3. \A i \in 0 .. n : i # n + 1 OBVIOUS
  <2> QED BY <1>1, <1>3, <2>1, <2>2, <2>3
<1> HIDE DEF g
<1>6. ASSUME NEW i \in 1 .. n + 1 PROVE <<z[i], g[i - 1], g[i]>> \in R
  <2>1. CASE i = n + 1
    <3>1. g[i - 1] = b BY <2>1, <1>1, <1>3, <1>5
    <3> QED BY <2>1, <3>1, <1>4, <1>5
  <2>2. CASE i \in 1 .. n
    <3>1. i - 1 \in 0 .. n /\ i \in 0 .. n BY <2>2
    <3>2. g[i - 1] = h[i - 1] /\ g[i] = h[i] /\ z[i] = s[i]
      BY <2>2, <3>1, <1>4, <1>5
    <3>3. <<s[i], h[i - 1], h[i]>> \in R BY <2>2, <1>1, <1>3
    <3> QED BY <3>2, <3>3
  <2> QED BY <2>1, <2>2
<1>7. Leads(z, V, a, c, R) BY <1>4, <1>5, <1>6 DEF Leads
<1> QED BY <1>2, <1>7

LEMMA LeadsTail ==
  ASSUME NEW S, NEW s \in Seq(S), s # <<>>, NEW V, NEW a, NEW b, NEW R,
         Leads(s, V, a, b, R)
  PROVE  \E c \in V : <<Head(s), a, c>> \in R /\ Leads(Tail(s), V, c, b, R)
<1>1. PICK h \in [0 .. Len(s) -> V] :
        /\ h[0] = a /\ h[Len(s)] = b
        /\ \A i \in 1 .. Len(s) : <<s[i], h[i - 1], h[i]>> \in R
  BY DEF Leads
<1>2. PICK z : z = Tail(s) OBVIOUS
<1>3. PICK n \in Nat \ {0} : n = Len(s) BY EmptySeq
<1>4. /\ Len(z) = n - 1 /\ \A i \in 1 .. n - 1 : z[i] = s[i + 1]
      /\ Head(s) = s[1]
  BY <1>2, <1>3, HeadTailProperties
<1> DEFINE g == [i \in 0 .. n - 1 |-> h[i + 1]]
<1>5. /\ g \in [0 .. n - 1 -> V] /\ g[0] = h[1] /\ g[n - 1] = b /\ h[1] \in V
      /\ \A i \in 0 .. n - 1 : g[i] = h[i + 1]
  <2>1. h \in [0 .. n -> V] /\ h[n] = b BY <1>1, <1>3
  <2>2. 0 \in 0 .. n - 1 /\ n - 1 \in 0 .. n - 1 /\ 1 \in 0 .. n /\ (n - 1) + 1 = n /\ 0 + 1 = 1
    BY <1>3
  <2>3. \A i \in 0 .. n - 1 : i + 1 \in 0 .. n BY <1>3
  <2>4. \A i \in 0 .. n - 1 : g[i] = h[i + 1] OBVIOUS
  <2>5. g \in [0 .. n - 1 -> V] BY <2>1, <2>3
  <2> QED BY <2>1, <2>2, <2>4, <2>5
<1> HIDE DEF g
<1>6. ASSUME NEW i \in 1 .. n - 1 PROVE <<z[i], g[i - 1], g[i]>> \in R
  <2>1. /\ i + 1 \in 1 .. n /\ (i + 1) - 1 = i /\ i - 1 \in 0 .. n - 1
        /\ (i - 1) + 1 = i /\ i \in 0 .. n - 1
    OBVIOUS
  <2>2. <<s[i + 1], h[i], h[i + 1]>> \in R BY <1>1, <1>3, <2>1
  <2> QED BY <2>1, <2>2, <1>4, <1>5
<1>7. Leads(z, V, h[1], b, R) BY <1>4, <1>5, <1>6 DEF Leads
<1>8. <<s[1], a, h[1]>> \in R BY <1>1, <1>3
<1> QED BY <1>2, <1>4, <1>5, <1>7, <1>8

LEMMA KindAppend ==
  ASSUME NEW S, NEW s \in Seq(S), NEW e \in S
  PROVE  \A k : HasKind(Append(s, e), k) <=> HasKind(s, k) \/ e.kind = k
<1>1. PICK z : z = Append(s, e) OBVIOUS
<1>2. PICK n \in Nat : n = Len(s) BY LenProperties
<1>3. /\ Len(z) = n + 1 /\ z[n + 1] = e /\ \A i \in 1 .. n : z[i] = s[i]
      /\ n + 1 \in 1 .. n + 1 /\ 1 .. n \subseteq 1 .. n + 1
      /\ \A i \in 1 .. n + 1 : i = n + 1 \/ i \in 1 .. n
  BY <1>1, <1>2, AppendProperties
<1> QED BY <1>1, <1>2, <1>3 DEF HasKind

LEMMA KindTail ==
  ASSUME NEW S, NEW s \in Seq(S), s # <<>>
  PROVE  /\ \A k : HasKind(Tail(s), k) => HasKind(s, k)
         /\ HasKind(s, Head(s).kind)
<1>1. PICK z : z = Tail(s) OBVIOUS
<1>2. PICK n \in Nat \ {0} : n = Len(s) BY EmptySeq
<1>3. /\ Len(z) = n - 1 /\ Head(s) = s[1] /\ 1 \in 1 .. n
      /\ \A i \in 1 .. n - 1 : z[i] = s[i + 1] /\ i + 1 \in 1 .. n
  BY <1>1, <1>2, HeadTailProperties
<1> QED BY <1>1, <1>2, <1>3 DEF HasKind

LEMMA KindEmpty == \A k : ~HasKind(<<>>, k) /\ ReadIsLast(<<>>, k)
<1>1. 1 .. Len(<<>>) = {} BY EmptySeq
<1> QED BY <1>1 DEF HasKind, ReadIsLast

LEMMA LastAppend ==
  ASSUME NEW S, NEW s \in Seq(S), NEW e \in S, NEW b,
         ~HasKind(s, "rd"), e.kind = "rd" => e.bdf = b
  PROVE  ReadIsLast(Append(s, e), b)
<1>1. PICK z : z = Append(s, e) OBVIOUS
<1>2. PICK n \in Nat : n = Len(s) BY LenProperties
<1>3. /\ Len(z) = n + 1 /\ z[n + 1] = e /\ \A i \in 1 .. n : z[i] = s[i]
      /\ \A i \in 1 .. n + 1 : i = n + 1 \/ i \in 1 .. n
  BY <1>1, <1>2, AppendProperties
<1>4. \A i \in 1 .. n : s[i].kind # "rd" BY <1>2 DEF HasKind
<1> QED BY <1>1, <1>3, <1>4 DEF ReadIsLast

LEMMA LastTail ==
  ASSUME NEW S, NEW s \in Seq(S), s # <<>>, NEW b, ReadIsLast(s, b)
  PROVE  /\ ReadIsLast(Tail(s), b)
         /\ Head(s).kind = "rd" => Head(s).bdf = b /\ Tail(s) = <<>>
<1>1. PICK z : z = Tail(s) OBVIOUS
<1>2. PICK n \in Nat \ {0} : n = Len(s) BY EmptySeq
<1>3. /\ z \in Seq(S) /\ Len(z) = n - 1 /\ Head(s) = s[1] /\ 1 \in 1 .. n
      /\ \A i \in 1 .. n - 1 : z[i] = s[i + 1] /\ i + 1 \in 1 .. n
  BY <1>1, <1>2, HeadTailProperties
<1>4. \A i \in 1 .. n : s[i].kind = "rd" => i = n /\ s[i].bdf = b BY <1>2 DEF ReadIsLast
<1>5. \A i \in 1 .. n - 1 : z[i].kind = "rd" => i = n - 1 /\ z[i].bdf = b BY <1>3, <1>4
<1>6. Head(s).kind = "rd" => Head(s).bdf = b /\ n = 1 BY <1>3, <1>4
<1>7. n = 1 => z = <<>> BY <1>3, EmptySeq
<1> QED BY <1>1, <1>3, <1>5, <1>6, <1>7 DEF ReadIsLast
-----------------------------------------------------------------------------
(* Messages and tables *)

LEMMA Bounds ==
  /\ MaxVfs \in Nat /\ MaxOps \in Nat /\ Values \subseteq Nat \ {0}
  /\ PfCounts \subseteq Nat \ {0} /\ Transports \subseteq {"shm", "tcp"}
  /\ Ones \in Nat
BY FunctionsAssumption

LEMMA MessageIs ==
  ASSUME NEW m \in Messages
  PROVE  /\ m.kind \in {"query", "shutdown", "rd", "wr", "vf"}
         /\ m.kind \in {"rd", "wr"} <=> m \in Tlps
         /\ m.kind = "vf" <=> m \in VfEvents
BY DEF Messages, Tlps, VfEvents

LEMMA TlpIs ==
  ASSUME NEW m \in Tlps
  PROVE  /\ m \in Messages /\ m.kind \in {"rd", "wr"} /\ m.bdf \in Nat
         /\ m.kind = "wr" => m.value \in Contents
BY DEF Messages, Tlps

LEMMA ContentsIs ==
  /\ \A v \in Values \cup {0, Ones} : Both(v) \in Contents
  /\ \A d \in Data : Packed(d) \in Contents
<1>1. \A v \in Values \cup {0, Ones} : Both(v) \in Contents BY DEF Both, Contents
<1>2. ASSUME NEW d \in Data PROVE Packed(d) \in Contents
  <2>1. PICK covered \in (SUBSET Lanes) \ {{}} : d \in [covered -> Values] BY DEF Data
  <2>2. 0 \notin covered => 1 \in covered BY DEF Lanes
  <2> QED BY <2>1, <2>2 DEF Packed, Contents, Lanes
<1> QED BY <1>1, <1>2

(* What a guest's write leaves of the register as the guest wrote it.      *)
LEMMA WroteIs ==
  ASSUME wrote \in [Functions -> Contents], kept \in [Functions -> SUBSET Lanes],
         NEW f \in Functions, NEW d \in Data, Wrote(f, d)
  PROVE  /\ wrote' \in [Functions -> Contents] /\ kept' \in [Functions -> SUBSET Lanes]
         /\ silent' = silent
         /\ \A g \in Functions : g # f => wrote'[g] = wrote[g] /\ kept'[g] = kept[g]
         /\ \A l \in kept'[f] : Packed(d)[l] = wrote'[f][l]
         /\ VfOf(f) > 0 /\ PfOf(f) \in silent => kept'[f] = {}
<1>1. PICK covered \in SUBSET Lanes : d \in [covered -> Values] BY DEF Data
<1>2. PICK c : c = [l \in Lanes |-> IF l \in DOMAIN d THEN d[l] ELSE wrote[f][l]] OBVIOUS
<1>3. c \in Contents
  <2>1. wrote[f] \in [Lanes -> Values \cup {0, Ones}] BY DEF Contents
  <2> QED BY <1>1, <1>2, <2>1 DEF Contents
<1>4. PICK k : k = InPlace(f, d) OBVIOUS
<1>5. /\ k \subseteq Lanes /\ \A l \in k : l \in DOMAIN d /\ Packed(d)[l] = d[l]
      /\ VfOf(f) > 0 /\ PfOf(f) \in silent => k = {}
  BY <1>1, <1>4 DEF InPlace
<1>6. wrote' = [wrote EXCEPT ![f] = c] /\ kept' = [kept EXCEPT ![f] = k] /\ silent' = silent
  BY <1>2, <1>4 DEF Wrote
<1>7. wrote'[f] = c /\ kept'[f] = k BY <1>6
<1>8. \A l \in k : c[l] = d[l] BY <1>2, <1>5
<1> QED BY <1>3, <1>5, <1>6, <1>7, <1>8

LEMMA EventIs ==
  ASSUME NEW m \in VfEvents
  PROVE  m \in Messages /\ m.kind = "vf" /\ m.pf \in Pfs /\ m.count \in 0 .. MaxVfs
BY DEF Messages, VfEvents

LEMMA FunctionIs ==
  /\ \A f \in Functions : /\ PfOf(f) \in Pfs /\ VfOf(f) \in 0 .. MaxVfs
                          /\ f = <<PfOf(f), VfOf(f)>>
  /\ \A p \in Pfs, k \in 0 .. MaxVfs :
       <<p, k>> \in Functions /\ PfOf(<<p, k>>) = p /\ VfOf(<<p, k>>) = k
BY DEF Functions, PfOf, VfOf

(* The tables after an event for n VFs of PF p. *)
LEMMA EnableTable ==
  ASSUME Types, NEW p \in Pfs, NEW n \in 0 .. MaxVfs, EnableVfs(p, n)
  PROVE  /\ enabled' = enabled \cup {<<p, k>> : k \in 1 .. n}
         /\ DOMAIN lut' = DOMAIN lut \cup {p + k : k \in 1 .. n}
         /\ \A b \in DOMAIN lut' :
              lut'[b] = IF b \in {p + k : k \in 1 .. n} THEN <<p, b - p>> ELSE lut[b]
<1> DEFINE added == {<<p, k>> : k \in 1 .. n}
<1>1. (IF n > MaxVfs THEN MaxVfs ELSE n) = n BY Bounds
<1>2. {VcsBdf(f) : f \in added} = {p + k : k \in 1 .. n}
  <2>1. \A k \in 1 .. n : VcsBdf(<<p, k>>) = p + k BY DEF VcsBdf, PfOf, VfOf
  <2> QED BY <2>1
<1> QED BY <1>1, <1>2 DEF EnableVfs

LEMMA DisableTable ==
  ASSUME Types, NEW p \in Pfs, DisableVfs(p)
  PROVE  /\ enabled' = {f \in enabled : PfOf(f) # p}
         /\ DOMAIN lut' \subseteq DOMAIN lut
         /\ \A b \in DOMAIN lut : b \in DOMAIN lut' <=>
              ~ \E f \in enabled : PfOf(f) = p /\ VcsBdf(f) = b
         /\ \A b \in DOMAIN lut' : lut'[b] = lut[b]
BY DEF DisableVfs

LEMMA TablesTyped ==
  ASSUME Types, NEW e \in VfEvents \cup {NoEvent}, Apply(e)
  PROVE  /\ DOMAIN lut' \subseteq Nat
         /\ \A b \in DOMAIN lut' : lut'[b] \in Functions /\ VcsBdf(lut'[b]) = b
         /\ enabled' \subseteq {f \in Functions : VfOf(f) > 0}
<1>0. /\ DOMAIN lut \subseteq Nat
      /\ \A b \in DOMAIN lut : lut[b] \in Functions /\ VcsBdf(lut[b]) = b
      /\ enabled \subseteq {f \in Functions : VfOf(f) > 0}
      /\ Pfs \subseteq Nat
  BY Bounds DEF Types, TypeOK, Pfs
<1>1. CASE e.kind = "none" BY <1>0, <1>1 DEF Apply, tableVars
<1>2. CASE e.kind # "none"
  <2>1. PICK p \in Pfs, n \in 0 .. MaxVfs : p = e.pf /\ n = e.count
    BY <1>2, EventIs DEF NoEvent
  <2>2. CASE n > 0
    <3>1. EnableVfs(p, n) BY <1>2, <2>1, <2>2 DEF Apply
    <3>2. /\ enabled' = enabled \cup {<<p, k>> : k \in 1 .. n}
          /\ DOMAIN lut' = DOMAIN lut \cup {p + k : k \in 1 .. n}
          /\ \A b \in DOMAIN lut' :
               lut'[b] = IF b \in {p + k : k \in 1 .. n} THEN <<p, b - p>> ELSE lut[b]
      BY <3>1, EnableTable
    <3>3. \A k \in 1 .. n : /\ k \in 0 .. MaxVfs /\ k > 0 /\ p + k \in Nat /\ (p + k) - p = k
      BY <1>0, Bounds
    <3>4. \A k \in 1 .. n : <<p, k>> \in Functions /\ VfOf(<<p, k>>) > 0 /\ VcsBdf(<<p, k>>) = p + k
      BY <3>3, FunctionIs DEF VcsBdf
    <3>5. DOMAIN lut' \subseteq Nat BY <1>0, <3>2, <3>3
    <3>6. enabled' \subseteq {f \in Functions : VfOf(f) > 0} BY <1>0, <3>2, <3>4
    <3>7. ASSUME NEW b \in DOMAIN lut' PROVE lut'[b] \in Functions /\ VcsBdf(lut'[b]) = b
      <4>1. CASE b \in {p + k : k \in 1 .. n}
        <5>1. PICK k \in 1 .. n : b = p + k BY <4>1
        <5>2. lut'[b] = <<p, k>> BY <3>2, <3>3, <4>1, <5>1
        <5> QED BY <3>4, <5>1, <5>2
      <4>2. CASE b \notin {p + k : k \in 1 .. n} BY <1>0, <3>2, <4>2
      <4> QED BY <4>1, <4>2
    <3> QED BY <3>5, <3>6, <3>7
  <2>3. CASE ~(n > 0)
    <3>1. DisableVfs(p) BY <1>2, <2>1, <2>3 DEF Apply
    <3> QED BY <1>0, <3>1, DisableTable
  <2> QED BY <2>2, <2>3
<1> QED BY <1>1, <1>2
-----------------------------------------------------------------------------
(* Types *)

LEMMA SetupStays ==
  ASSUME [Next]_vars
  PROVE  /\ transport' = transport /\ numPfs' = numPfs
         /\ Pfs' = Pfs /\ Functions' = Functions
         /\ Messages' = Messages /\ VfEvents' = VfEvents
<1>1. transport' = transport /\ numPfs' = numPfs
  BY DEF vars, setupVars, Next, RealizeQuery, Guest, ConfigRead, ConfigWrite, WriteVfEnable,
         ClearVfEnable, VfsWritten, ReadReturns, Unplug, Simulator, ExportTopology, AnswerQuery,
         TakeTlp, TakeVfEvent, DrainTlp, DrainVfEvent, PollCached, PollEmpty, Shutdown
<1>2. Pfs' = Pfs BY <1>1 DEF Pfs
<1> QED BY <1>1, <1>2 DEF Functions, Messages, VfEvents

LEMMA Holds ==
  ASSUME Types
  PROVE  /\ numPfs \in Nat \ {0} /\ topo \in {0, numPfs} /\ Pfs \subseteq Nat
         /\ \A f \in Functions : QemuBdf(f) \in Nat
         /\ NoFunction \notin Functions
<1>1. numPfs \in Nat \ {0} /\ topo \in {0, numPfs} /\ Pfs \subseteq Nat
  BY Bounds DEF Types, TypeOK, Pfs
<1>2. ASSUME NEW f \in Functions PROVE QemuBdf(f) \in Nat
  <2>1. PICK n \in Nat : n = IF topo > 1 THEN topo ELSE 1 BY <1>1
  <2>2. PICK i \in Nat, k \in Nat : i = PfOf(f) /\ k = VfOf(f)
    <3>1. PfOf(f) \in Pfs /\ VfOf(f) \in 0 .. MaxVfs BY FunctionIs, Zenon
    <3>2. PfOf(f) \in Nat BY <1>1, <3>1
    <3>3. 0 .. MaxVfs \subseteq Nat BY Bounds
    <3> QED BY <3>1, <3>2, <3>3
  <2>3. QemuBdf(f) = i + n * k BY <2>1, <2>2 DEF QemuBdf
  <2> QED BY <2>3
<1>3. NoFunction \notin Functions BY DEF NoFunction, Functions
<1> QED BY <1>1, <1>2, <1>3

(* An arriving message that is a TLP, or an event.                         *)
LEMMA ArrivedIs ==
  ASSUME Types, toVcs # <<>>
  PROVE  /\ Head(toVcs) \in Messages /\ Tail(toVcs) \in Seq(Messages)
         /\ Arrived({"rd", "wr"}) => Head(toVcs) \in Tlps
         /\ Arrived({"vf"}) => Head(toVcs) \in VfEvents
<1>1. toVcs \in Seq(Messages) BY DEF Types, TypeOK
<1>2. Head(toVcs) \in Messages /\ Tail(toVcs) \in Seq(Messages) BY <1>1, HeadTailProperties
<1> QED BY <1>2, MessageIs DEF Arrived

LEMMA HandleTyped ==
  ASSUME Types, NEW t \in Tlps, Handle(t)
  PROVE  /\ regs' \in [Functions -> Contents]
         /\ answer' \in [by : Functions \cup {NoFunction}, known : BOOLEAN, value : Contents]
         /\ t.kind = "rd" => /\ regs' = regs /\ answer'.known
                             /\ answer'.by = Lookup(t.bdf)
                             /\ Lookup(t.bdf) # NoFunction => answer'.value = regs[Lookup(t.bdf)]
         /\ t.kind = "wr" => answer' = answer
<1> DEFINE f == Lookup(t.bdf)
<1>1. f \in Functions \cup {NoFunction} BY DEF Lookup, Types, TypeOK
<1>2. /\ regs \in [Functions -> Contents]
      /\ answer \in [by : Functions \cup {NoFunction}, known : BOOLEAN, value : Contents]
  BY DEF Types, TypeOK
<1> HIDE DEF f
<1>3. CASE t.kind = "rd"
  <2>1. PICK v : v = IF f = NoFunction THEN Both(Ones) ELSE regs[f] OBVIOUS
  <2>2. v \in Contents BY <1>1, <1>2, <2>1, ContentsIs
  <2>3. regs' = regs /\ answer' = [by |-> f, known |-> TRUE, value |-> v]
    BY <1>3, <2>1 DEF Handle, f
  <2> QED BY <1>1, <1>2, <1>3, <2>1, <2>2, <2>3 DEF f
<1>4. CASE t.kind = "wr"
  <2>1. t.value \in Contents BY <1>4, TlpIs
  <2>2. /\ answer' = answer
        /\ regs' = IF f = NoFunction THEN regs ELSE [regs EXCEPT ![f] = t.value]
    BY <1>4 DEF Handle, f
  <2> QED BY <1>2, <1>4, <2>1, <2>2
<1> QED BY <1>3, <1>4, TlpIs

LEMMA OpsBounded == ASSUME Types, Operation PROVE ops' \in 0 .. MaxOps
<1>1. ops \in Nat /\ numPfs \in Nat \ {0} BY Holds, Bounds DEF Types, TypeOK
<1>2. PICK n \in Nat \ {0} : n = numPfs BY <1>1
<1>3. ops + 2 * n <= MaxOps + 1 BY <1>2 DEF Operation
<1>4. ops + 1 <= MaxOps BY <1>1, <1>3, Bounds
<1> QED BY <1>1, <1>4, Bounds DEF Operation

(* A write to SR-IOV Control, by the VFs it leaves. *)
LEMMA ControlWrite ==
  ASSUME Types, NEW p \in Pfs, NEW n \in 0 .. MaxVfs, NEW exact \in BOOLEAN,
         WriteVfEnable(p, n, exact) \/ ClearVfEnable(p, exact)
  PROVE  \E w \in 0 .. MaxVfs : /\ VfsWritten(p, w, exact) /\ (vfs[p] = 0 \/ w = 0 \/ vfs[p] = w)
                                /\ VfMessage(p, w) \in Messages
                                /\ VfMessage(p, w).kind = "vf" /\ VfMessage(p, w).pf = p
                                /\ VfMessage(p, w).count = w
                                /\ \A q \in Pfs : vfs'[q] = IF q = p THEN w ELSE vfs[q]
<1>1. vfs \in [Pfs -> 0 .. MaxVfs] BY DEF Types, TypeOK
<1>2. PICK w : w = IF WriteVfEnable(p, n, exact) THEN IF vfs[p] = 0 THEN n ELSE vfs[p] ELSE 0 OBVIOUS
<1>3. w \in 0 .. MaxVfs /\ (vfs[p] = 0 \/ w = 0 \/ vfs[p] = w) BY <1>1, <1>2, Bounds
<1>4. VfsWritten(p, w, exact) BY <1>2 DEF WriteVfEnable, ClearVfEnable
<1>5. vfs' = [vfs EXCEPT ![p] = w] BY <1>4 DEF VfsWritten
<1>6. VfMessage(p, w) \in Messages BY <1>3 DEF Messages, VfMessage
<1> QED BY <1>1, <1>3, <1>4, <1>5, <1>6 DEF VfMessage

LEMMA NextTypes == ASSUME Types, [Next]_vars PROVE Types'
<1> USE DEF Types, TypeOK, setupVars, deviceVars, cpuVars, guestVars, history, tableVars
<1>0. /\ transport' = transport /\ numPfs' = numPfs
      /\ Pfs' = Pfs /\ Functions' = Functions
      /\ Messages' = Messages /\ VfEvents' = VfEvents
  BY SetupStays
<1>1. \A m \in Messages : Append(toVcs, m) \in Seq(Messages) BY AppendProperties
<1>2. toVcs # <<>> => Tail(toVcs) \in Seq(Messages) BY HeadTailProperties
<1>3. UNCHANGED tableVars =>
        /\ DOMAIN lut' \subseteq Nat
        /\ \A b \in DOMAIN lut' : lut'[b] \in Functions' /\ VcsBdf(lut'[b]) = b
        /\ enabled' \subseteq {f \in Functions' : VfOf(f) > 0}
  BY <1>0
<1>4. CASE RealizeQuery
  <2>1. [kind |-> "query"] \in Messages BY DEF Messages
  <2> QED BY <1>0, <1>1, <1>3, <1>4, <2>1 DEF RealizeQuery
<1>5. ASSUME NEW f \in Functions, ConfigRead(f) PROVE Types'
  <2>1. [kind |-> "rd", bdf |-> QemuBdf(f)] \in Messages BY Holds DEF Messages
  <2>2. NoAnswer \in [by : Functions \cup {NoFunction}, known : BOOLEAN, value : Contents]
    BY ContentsIs DEF NoAnswer
  <2>3. ops' \in 0 .. MaxOps BY <1>5, OpsBounded DEF ConfigRead
  <2> QED BY <1>0, <1>1, <1>3, <1>5, <2>1, <2>2, <2>3 DEF ConfigRead
<1>6. ASSUME NEW f \in Functions, NEW d \in Data, ConfigWrite(f, d) PROVE Types'
  <2>1. [kind |-> "wr", bdf |-> QemuBdf(f), value |-> Packed(d)] \in Messages
    BY Holds, ContentsIs DEF Messages
  <2>2. ops' \in 0 .. MaxOps BY <1>6, OpsBounded DEF ConfigWrite
  <2>3. /\ wrote' \in [Functions -> Contents] /\ kept' \in [Functions -> SUBSET Lanes]
        /\ silent' = silent
    BY <1>6, WroteIs DEF ConfigWrite
  <2> QED BY <1>0, <1>1, <1>3, <1>6, <2>1, <2>2, <2>3 DEF ConfigWrite
<1>7. ASSUME NEW p \in Pfs, NEW n \in 0 .. MaxVfs, NEW exact \in BOOLEAN,
             WriteVfEnable(p, n, exact) \/ ClearVfEnable(p, exact)
      PROVE  Types'
  <2>1. PICK w \in 0 .. MaxVfs : VfsWritten(p, w, exact) /\ VfMessage(p, w) \in Messages
    BY <1>7, ControlWrite
  <2>2. ops' \in 0 .. MaxOps /\ pf' = pf /\ pf = "live"
    BY <2>1, OpsBounded DEF VfsWritten, Operation
  <2>3. vfs' \in [Pfs -> 0 .. MaxVfs] BY <2>1 DEF VfsWritten
  <2>4. toVcs' \in Seq(Messages) /\ silent' \subseteq Pfs BY <1>1, <2>1 DEF VfsWritten
  <2> QED BY <1>0, <1>3, <2>1, <2>2, <2>3, <2>4 DEF VfsWritten
<1>8. CASE ReadReturns
  <2>1. NoAnswer \in [by : Functions \cup {NoFunction}, known : BOOLEAN, value : Contents]
    BY ContentsIs DEF NoAnswer
  <2>2. <<0, 0>> \in Functions
    <3>1. 0 \in Pfs /\ 0 \in 0 .. MaxVfs BY Holds, Bounds DEF Pfs
    <3> QED BY <3>1, FunctionIs
  <2> QED BY <1>0, <1>3, <1>8, <2>1, <2>2 DEF ReadReturns
<1>9. CASE Unplug
  <2>1. [kind |-> "shutdown"] \in Messages BY DEF Messages
  <2>2. vfs' \in [Pfs -> 0 .. MaxVfs] /\ \A p \in Pfs : vfs'[p] = 0 BY <1>9, Bounds DEF Unplug
  <2> QED BY <1>0, <1>1, <1>3, <1>9, <2>1, <2>2 DEF Unplug
<1>10. CASE ExportTopology BY <1>0, <1>3, <1>10 DEF ExportTopology
<1>11. CASE AnswerQuery BY <1>0, <1>2, <1>3, <1>11 DEF AnswerQuery, Arrived
<1>12. CASE TakeTlp
  <2>1. /\ regs' \in [Functions -> Contents] /\ toVcs # <<>>
        /\ answer' \in [by : Functions \cup {NoFunction}, known : BOOLEAN, value : Contents]
    BY <1>12, ArrivedIs, HandleTyped DEF TakeTlp, Arrived
  <2> QED BY <1>0, <1>2, <1>3, <1>12, <2>1 DEF TakeTlp
<1>13. CASE TakeVfEvent
  <2>1. /\ Apply(Head(toVcs)) /\ Head(toVcs) \in VfEvents /\ toVcs # <<>>
    BY <1>13, ArrivedIs DEF TakeVfEvent, Arrived
  <2>2. /\ DOMAIN lut' \subseteq Nat
        /\ \A b \in DOMAIN lut' : lut'[b] \in Functions /\ VcsBdf(lut'[b]) = b
        /\ enabled' \subseteq {f \in Functions : VfOf(f) > 0}
    BY <2>1, TablesTyped
  <2> QED BY <1>0, <1>2, <1>13, <2>1, <2>2 DEF TakeVfEvent
<1>14. CASE DrainTlp
  <2>1. toVcs # <<>> /\ Head(toVcs) \in Tlps BY <1>14, ArrivedIs DEF DrainTlp, Arrived
  <2>2. /\ Append(cache, Head(toVcs)) \in Seq(Tlps)
        /\ Tlps \subseteq Messages
    BY <2>1, AppendProperties, TlpIs
  <2>3. Append(cache, Head(toVcs)) \in Seq(Messages) BY <2>2, SeqMonotonic
  <2> QED BY <1>0, <1>2, <1>3, <1>14, <2>1, <2>2, <2>3 DEF DrainTlp
<1>15. CASE DrainVfEvent
  <2>1. toVcs # <<>> /\ Head(toVcs) \in VfEvents BY <1>15, ArrivedIs DEF DrainVfEvent, Arrived
  <2>2. Head(toVcs) \in Messages BY <2>1, EventIs
  <2> QED BY <1>0, <1>2, <1>3, <1>15, <2>1, <2>2 DEF DrainVfEvent
<1>16. CASE PollCached
  <2>1. cache # <<>> /\ Handle(Head(cache)) BY <1>16 DEF PollCached
  <2>2. Head(cache) \in Tlps /\ Tail(cache) \in Seq(Tlps) BY <2>1, HeadTailProperties
  <2>3. Tail(cache) \in Seq(Messages) BY <2>1, HeadTailProperties
  <2>4. /\ regs' \in [Functions -> Contents]
        /\ answer' \in [by : Functions \cup {NoFunction}, known : BOOLEAN, value : Contents]
    BY <2>1, <2>2, HandleTyped
  <2> QED BY <1>0, <1>3, <1>16, <2>2, <2>3, <2>4 DEF PollCached
<1>17. CASE PollEmpty
  <2>1. /\ DOMAIN lut' \subseteq Nat
        /\ \A b \in DOMAIN lut' : lut'[b] \in Functions /\ VcsBdf(lut'[b]) = b
        /\ enabled' \subseteq {f \in Functions : VfOf(f) > 0}
    BY <1>17, TablesTyped DEF PollEmpty
  <2> QED BY <1>0, <1>17, <2>1 DEF PollEmpty
<1>18. CASE Shutdown BY <1>0, <1>2, <1>3, <1>18 DEF Shutdown, Arrived
<1>19. CASE UNCHANGED vars BY <1>0, <1>3, <1>19 DEF vars
<1> QED
  BY <1>4, <1>5, <1>6, <1>7, <1>8, <1>9, <1>10, <1>11, <1>12, <1>13, <1>14, <1>15,
     <1>16, <1>17, <1>18, <1>19, Bounds DEF Next, Guest, Simulator
-----------------------------------------------------------------------------
(* What is under way *)

(* What the guest sends, if anything: a TLP or an event, while PF devices  *)
(* are live.                                                               *)
LEMMA GuestSends ==
  ASSUME Types, Guest
  PROVE  /\ pf = "live" /\ cpu = "idle" /\ UNCHANGED <<topo, pf, sim, cache, vfEvent, tableVars, regs>>
         /\ \/ UNCHANGED <<toVcs, cpuVars>>
            \/ \E m \in Messages :
                 /\ toVcs' = Append(toVcs, m)
                 /\ m.kind \in {"rd", "wr", "vf"}
                 /\ m.kind = "rd" => /\ cpu' = "wait" /\ ~answer'.known
                                     /\ target' \in Functions /\ Accessible(target')
                                     /\ m.bdf = QemuBdf(target') /\ vfs' = vfs
                 /\ m.kind # "rd" => UNCHANGED cpuVars
<1>1. CASE \E f \in Functions : ConfigRead(f)
  <2>1. PICK f \in Functions : ConfigRead(f) BY <1>1
  <2>2. PICK m : m = [kind |-> "rd", bdf |-> QemuBdf(f)] OBVIOUS
  <2>3. m \in Messages /\ m.kind = "rd" /\ m.bdf = QemuBdf(f) BY <2>2, Holds DEF Messages
  <2>4. ~answer'.known BY <2>1 DEF ConfigRead, NoAnswer
  <2> QED BY <2>1, <2>2, <2>3, <2>4 DEF ConfigRead, Operation, deviceVars, Accessible, setupVars
<1>2. CASE \E f \in Functions, d \in Data : ConfigWrite(f, d)
  <2>1. PICK f \in Functions, d \in Data : ConfigWrite(f, d) BY <1>2
  <2>2. PICK m : m = [kind |-> "wr", bdf |-> QemuBdf(f), value |-> Packed(d)] OBVIOUS
  <2>3. m \in Messages /\ m.kind = "wr" BY <2>2, Holds, ContentsIs DEF Messages
  <2> QED BY <2>1, <2>2, <2>3 DEF ConfigWrite, Operation, deviceVars
<1>3. ASSUME NEW p \in Pfs, NEW n \in 0 .. MaxVfs, NEW exact \in BOOLEAN,
             WriteVfEnable(p, n, exact) \/ ClearVfEnable(p, exact)
      PROVE  /\ pf = "live" /\ cpu = "idle"
             /\ UNCHANGED <<topo, pf, sim, cache, vfEvent, tableVars, regs, cpuVars>>
             /\ \/ UNCHANGED toVcs
                \/ \E m \in Messages : toVcs' = Append(toVcs, m) /\ m.kind = "vf"
  <2>1. PICK w \in 0 .. MaxVfs : /\ VfsWritten(p, w, exact) /\ VfMessage(p, w) \in Messages
                                 /\ VfMessage(p, w).kind = "vf"
    BY <1>3, ControlWrite
  <2> QED BY <2>1 DEF VfsWritten, Operation
<1> QED BY <1>1, <1>2, <1>3, Bounds DEF Guest

LEMMA NextOrder == ASSUME Types, Order, [Next]_vars PROVE Order'
<1> USE DEF setupVars, deviceVars, cpuVars, guestVars, history, tableVars
<1>0. transport' = transport /\ toVcs \in Seq(Messages) BY SetupStays DEF Types, TypeOK
<1>1. CASE RealizeQuery
  <2>1. PICK q : q = [kind |-> "query"] OBVIOUS
  <2>2. toVcs' = Append(<<>>, q) /\ pf' = "query" /\ pf = "absent" BY <1>1, <2>1 DEF RealizeQuery, Order
  <2>3. Append(<<>>, q) = <<q>> OBVIOUS
  <2> QED BY <1>0, <1>1, <2>1, <2>2, <2>3 DEF RealizeQuery, Order, Accessible
<1>2. CASE Guest
  <2>0. CASE UNCHANGED <<toVcs, cpuVars>>
    <3>1. pf' = "live" /\ pf = "live" /\ cpu = "idle" /\ UNCHANGED <<sim, cache, vfEvent>>
      BY <1>2, GuestSends
    <3> QED BY <1>0, <2>0, <3>1 DEF Order
  <2> SUFFICES ASSUME ~UNCHANGED <<toVcs, cpuVars>> PROVE Order' BY <2>0
  <2>1. PICK m \in Messages :
          /\ toVcs' = Append(toVcs, m) /\ m.kind \in {"rd", "wr", "vf"}
          /\ m.kind = "rd" => /\ cpu' = "wait" /\ ~answer'.known
                              /\ target' \in Functions /\ Accessible(target')
                              /\ m.bdf = QemuBdf(target') /\ vfs' = vfs
          /\ m.kind # "rd" => UNCHANGED cpuVars
    BY <1>2, GuestSends
  <2>2. pf' = "live" /\ pf = "live" /\ cpu = "idle" /\ UNCHANGED <<sim, cache, vfEvent>>
    BY <1>2, GuestSends
  <2>3. ~HasKind(toVcs', "query") BY <1>0, <2>1, <2>2, KindAppend DEF Order
  <2>4. cpu' = "wait" => Accessible(target)'
    <3>1. CASE m.kind = "rd" BY <2>1, <3>1 DEF Accessible
    <3>2. CASE m.kind # "rd" BY <2>1, <2>2, <3>2
    <3> QED BY <3>1, <3>2
  <2> QED BY <1>0, <2>2, <2>3, <2>4 DEF Order
<1>3. CASE ReadReturns BY <1>0, <1>3 DEF ReadReturns, Order, Accessible
<1>4. CASE Unplug
  <2>1. [kind |-> "shutdown"] \in Messages /\ [kind |-> "shutdown"].kind = "shutdown" BY DEF Messages
  <2>2. ~HasKind(toVcs', "query") BY <1>0, <1>4, <2>1, KindAppend DEF Unplug, Order
  <2> QED BY <1>0, <1>4, <2>2 DEF Unplug, Order, Accessible
<1>5. CASE ExportTopology BY <1>0, <1>5 DEF ExportTopology, Order, Accessible
<1>6. CASE AnswerQuery
  <2>1. toVcs # <<>> /\ Head(toVcs).kind = "query" BY <1>6 DEF AnswerQuery, Arrived
  <2>2. pf = "query" BY <1>0, <2>1, KindTail DEF Order
  <2>3. Tail(<<[kind |-> "query"]>>) = <<>> OBVIOUS
  <2>4. toVcs' = <<>> BY <1>6, <2>2, <2>3 DEF AnswerQuery, Order
  <2>5. ~HasKind(toVcs', "query") BY <2>4, KindEmpty
  <2> QED BY <1>0, <1>6, <2>2, <2>4, <2>5 DEF AnswerQuery, Order, Accessible
<1>7. ASSUME Arrived({"rd", "wr"}) \/ Arrived({"vf"}) \/ Arrived({"shutdown"}), toVcs' = Tail(toVcs)
      PROVE  /\ pf # "absent" /\ pf # "query"
             /\ HasKind(toVcs', "query") => pf = "query"
  <2>1. toVcs # <<>> /\ Head(toVcs).kind # "query" BY <1>7 DEF Arrived
  <2>2. pf # "absent" /\ pf # "query"
    <3>1. Head(<<[kind |-> "query"]>>).kind = "query" OBVIOUS
    <3> QED BY <2>1, <3>1 DEF Order
  <2> QED BY <1>0, <1>7, <2>1, <2>2, KindTail DEF Order
<1>8. CASE TakeTlp BY <1>0, <1>7, <1>8 DEF TakeTlp, Order, Accessible
<1>9. CASE TakeVfEvent BY <1>0, <1>7, <1>9 DEF TakeVfEvent, Order, Accessible
<1>10. CASE DrainTlp BY <1>0, <1>7, <1>10 DEF DrainTlp, Draining, Order, Accessible
<1>11. CASE DrainVfEvent BY <1>0, <1>7, <1>11 DEF DrainVfEvent, Draining, Order, Accessible
<1>12. CASE PollCached BY <1>0, <1>12 DEF PollCached, Order, Accessible
<1>13. CASE PollEmpty BY <1>0, <1>13 DEF PollEmpty, Order, Accessible
<1>14. CASE Shutdown BY <1>0, <1>7, <1>14 DEF Shutdown, Order, Accessible
<1>15. CASE UNCHANGED vars BY <1>15 DEF vars, Order, Accessible
<1> QED
  BY <1>1, <1>2, <1>3, <1>4, <1>5, <1>6, <1>8, <1>9, <1>10, <1>11, <1>12, <1>13, <1>14,
     <1>15 DEF Next, Simulator

(* A queue without reads satisfies ReadIsLast. *)
LEMMA NoReads == \A q, b : ~HasKind(q, "rd") => ReadIsLast(q, b)
BY DEF HasKind, ReadIsLast

LEMMA NextReads == ASSUME Types, Order, Reads, [Next]_vars PROVE Reads'
<1> USE DEF setupVars, deviceVars, cpuVars, guestVars, history, tableVars
<1>0. /\ toVcs \in Seq(Messages) /\ cache \in Seq(Tlps)
  BY DEF Types, TypeOK
<1>1. ASSUME ~HasKind(toVcs', "rd"), ~HasKind(cache', "rd") PROVE Reads'
  BY <1>1, NoReads DEF Reads
<1>2. ASSUME cpu # "wait" PROVE ~HasKind(toVcs, "rd") /\ ~HasKind(cache, "rd") BY <1>2 DEF Reads
<1>3. CASE RealizeQuery
  <2>1. cpu # "wait" /\ cache' = cache BY <1>3 DEF RealizeQuery, Order
  <2>2. [kind |-> "query"] \in Messages /\ [kind |-> "query"].kind = "query" BY DEF Messages
  <2>3. ~HasKind(toVcs', "rd") BY <1>0, <1>2, <1>3, <2>1, <2>2, KindAppend DEF RealizeQuery
  <2> QED BY <1>1, <1>2, <2>1, <2>3
<1>4. CASE Guest
  <2>0. CASE UNCHANGED <<toVcs, cpuVars>>
    <3>1. UNCHANGED <<cache, topo>> BY <1>4, GuestSends
    <3> QED BY <2>0, <3>1 DEF Reads, QemuBdf
  <2> SUFFICES ASSUME ~UNCHANGED <<toVcs, cpuVars>> PROVE Reads' BY <2>0
  <2>1. PICK m \in Messages :
          /\ toVcs' = Append(toVcs, m) /\ m.kind \in {"rd", "wr", "vf"}
          /\ m.kind = "rd" => /\ cpu' = "wait" /\ ~answer'.known
                              /\ target' \in Functions /\ Accessible(target')
                              /\ m.bdf = QemuBdf(target') /\ vfs' = vfs
          /\ m.kind # "rd" => UNCHANGED cpuVars
    BY <1>4, GuestSends
  <2>2. cpu = "idle" /\ cache' = cache /\ topo' = topo BY <1>4, GuestSends
  <2>3. ~HasKind(toVcs, "rd") /\ ~HasKind(cache, "rd") BY <1>2, <2>2
  <2>4. CASE m.kind = "rd"
    <3>1. m.bdf = QemuBdf(target)' BY <2>1, <2>2, <2>4 DEF QemuBdf
    <3>2. ReadIsLast(toVcs', QemuBdf(target)') BY <1>0, <2>1, <2>3, <3>1, LastAppend
    <3>3. ReadIsLast(cache', QemuBdf(target)') BY <2>2, <2>3, NoReads
    <3> QED BY <2>1, <2>2, <2>3, <2>4, <3>2, <3>3 DEF Reads
  <2>5. CASE m.kind # "rd"
    <3>1. ~HasKind(toVcs', "rd") BY <1>0, <2>1, <2>3, <2>5, KindAppend
    <3> QED BY <1>1, <2>2, <2>3, <3>1
  <2> QED BY <2>4, <2>5
<1>5. CASE ReadReturns
  <2>1. ~HasKind(toVcs, "rd") /\ ~HasKind(cache, "rd") BY <1>5 DEF ReadReturns, Reads
  <2> QED BY <1>1, <1>5, <2>1 DEF ReadReturns
<1>6. CASE Unplug
  <2>1. cpu # "wait" /\ cache' = cache BY <1>6 DEF Unplug
  <2>2. [kind |-> "shutdown"] \in Messages /\ [kind |-> "shutdown"].kind = "shutdown" BY DEF Messages
  <2>3. ~HasKind(toVcs', "rd") BY <1>0, <1>2, <1>6, <2>1, <2>2, KindAppend DEF Unplug
  <2> QED BY <1>1, <1>2, <2>1, <2>3
<1>7. ASSUME UNCHANGED <<topo, target>> PROVE QemuBdf(target)' = QemuBdf(target)
  BY <1>7 DEF QemuBdf
<1>8. CASE ExportTopology BY <1>7, <1>8 DEF ExportTopology, Reads
<1>9. CASE AnswerQuery
  <2>1. toVcs # <<>> /\ Head(toVcs).kind = "query" BY <1>9 DEF AnswerQuery, Arrived
  <2>2. pf = "query" BY <1>0, <2>1, KindTail DEF Order
  <2>3. cpu # "wait" BY <2>2 DEF Order
  <2>4. ~HasKind(toVcs', "rd") BY <1>0, <1>2, <1>9, <2>1, <2>3, KindTail DEF AnswerQuery
  <2> QED BY <1>1, <1>2, <1>9, <2>3, <2>4 DEF AnswerQuery
<1>10. ASSUME toVcs # <<>>, toVcs' = Tail(toVcs), cache' = cache,
              UNCHANGED <<topo, cpuVars>>
       PROVE  Reads'
  <2>1. ReadIsLast(toVcs', QemuBdf(target)') BY <1>0, <1>7, <1>10, LastTail DEF Reads
  <2>2. HasKind(toVcs', "rd") => HasKind(toVcs, "rd") BY <1>0, <1>10, KindTail
  <2>3. ReadIsLast(cache', QemuBdf(target)') BY <1>7, <1>10 DEF Reads
  <2>4. ~HasKind(cache, "rd") BY <1>10 DEF Reads
  <2> QED BY <1>10, <2>1, <2>2, <2>3, <2>4 DEF Reads
<1>11. CASE TakeTlp
  <2>1. toVcs # <<>> /\ Head(toVcs) \in Tlps /\ Handle(Head(toVcs)) /\ toVcs' = Tail(toVcs)
    BY <1>11, ArrivedIs DEF TakeTlp, Arrived
  <2>2. CASE Head(toVcs).kind = "rd"
    <3>1. HasKind(toVcs, "rd") /\ Tail(toVcs) = <<>> BY <1>0, <2>1, <2>2, KindTail, LastTail DEF Reads
    <3> QED BY <1>1, <1>11, <2>1, <3>1, KindEmpty DEF TakeTlp, Reads
  <2>3. CASE Head(toVcs).kind # "rd"
    <3>1. answer' = answer BY <2>1, <2>3, TlpIs, HandleTyped
    <3> QED BY <1>10, <1>11, <2>1, <3>1 DEF TakeTlp
  <2> QED BY <2>2, <2>3
<1>12. CASE TakeVfEvent BY <1>10, <1>12 DEF TakeVfEvent, Arrived
<1>13. CASE DrainTlp
  <2>1. /\ toVcs # <<>> /\ Head(toVcs) \in Tlps /\ toVcs' = Tail(toVcs)
        /\ cache' = Append(cache, Head(toVcs)) /\ UNCHANGED <<topo, cpuVars>>
    BY <1>13, ArrivedIs DEF DrainTlp, Arrived
  <2>2. ~HasKind(cache, "rd") BY <2>1 DEF Reads
  <2>3. ReadIsLast(toVcs', QemuBdf(target)') BY <1>0, <1>7, <2>1, LastTail DEF Reads
  <2>4. /\ HasKind(toVcs', "rd") => HasKind(toVcs, "rd")
        /\ Head(toVcs).kind = "rd" => HasKind(toVcs, "rd")
    BY <1>0, <2>1, KindTail
  <2>5. Head(toVcs).kind = "rd" => Head(toVcs).bdf = QemuBdf(target) /\ toVcs' = <<>>
    BY <1>0, <2>1, LastTail DEF Reads
  <2>6. ReadIsLast(cache', QemuBdf(target)') BY <1>0, <1>7, <2>1, <2>2, <2>5, LastAppend
  <2>7. HasKind(cache', "rd") <=> Head(toVcs).kind = "rd" BY <1>0, <2>1, <2>2, KindAppend
  <2>8. toVcs' = <<>> => ~HasKind(toVcs', "rd") BY KindEmpty
  <2> QED BY <2>1, <2>3, <2>4, <2>5, <2>6, <2>7, <2>8 DEF Reads
<1>14. CASE DrainVfEvent BY <1>10, <1>14 DEF DrainVfEvent, Arrived
<1>15. CASE PollCached
  <2>1. /\ cache # <<>> /\ Head(cache) \in Tlps /\ Handle(Head(cache)) /\ cache' = Tail(cache)
        /\ UNCHANGED <<topo, cpu, target, toVcs>>
    BY <1>0, <1>15, HeadTailProperties DEF PollCached
  <2>2. CASE Head(cache).kind = "rd"
    <3>1. HasKind(cache, "rd") /\ Tail(cache) = <<>> BY <1>0, <2>1, <2>2, KindTail, LastTail DEF Reads
    <3> QED BY <1>1, <2>1, <3>1, KindEmpty DEF Reads
  <2>3. CASE Head(cache).kind # "rd"
    <3>1. answer' = answer BY <2>1, <2>3, TlpIs, HandleTyped
    <3>2. ReadIsLast(cache', QemuBdf(target)') BY <1>0, <1>7, <2>1, LastTail DEF Reads
    <3>3. HasKind(cache', "rd") => HasKind(cache, "rd") BY <1>0, <2>1, KindTail
    <3>4. ReadIsLast(toVcs', QemuBdf(target)') BY <1>7, <2>1 DEF Reads
    <3> QED BY <2>1, <3>1, <3>2, <3>3, <3>4 DEF Reads
  <2> QED BY <2>2, <2>3
<1>16. CASE PollEmpty BY <1>7, <1>16 DEF PollEmpty, Reads
<1>17. CASE Shutdown BY <1>10, <1>17 DEF Shutdown, Arrived
<1>18. CASE UNCHANGED vars BY <1>7, <1>18 DEF vars, Reads
<1> QED
  BY <1>3, <1>4, <1>5, <1>6, <1>8, <1>9, <1>11, <1>12, <1>13, <1>14, <1>15, <1>16, <1>17,
     <1>18 DEF Next, Simulator
-----------------------------------------------------------------------------
(* The table of functions *)

LEMMA OnePf ==
  ASSUME Types, numPfs = 1
  PROVE  /\ Pfs = {0} /\ topo \in {0, 1}
         /\ \A f \in Functions : PfOf(f) = 0 /\ QemuBdf(f) = VfOf(f) /\ VcsBdf(f) = VfOf(f)
                                 /\ f = <<0, VfOf(f)>> /\ VfOf(f) \in 0 .. MaxVfs /\ VfOf(f) \in Nat
<1>1. Pfs = {0} BY DEF Pfs
<1>2. topo \in {0, 1} BY Holds
<1>3. ASSUME NEW f \in Functions
      PROVE  PfOf(f) = 0 /\ f = <<0, VfOf(f)>> /\ VfOf(f) \in 0 .. MaxVfs
  BY <1>1, FunctionIs
<1>4. 0 .. MaxVfs \subseteq Nat BY Bounds
<1>5. ASSUME NEW f \in Functions PROVE QemuBdf(f) = VfOf(f) /\ VcsBdf(f) = VfOf(f)
  <2>1. PICK k \in Nat : k = VfOf(f) BY <1>3, <1>4
  <2>2. QemuBdf(f) = 0 + 1 * k /\ VcsBdf(f) = 0 + k BY <1>2, <1>3, <2>1 DEF QemuBdf, VcsBdf
  <2> QED BY <2>1, <2>2
<1> QED BY <1>1, <1>2, <1>3, <1>4, <1>5

LEMMA LookupOne ==
  ASSUME Types, Table, numPfs = 1, NEW b \in Nat
  PROVE  /\ b = 0 \/ <<0, b>> \in enabled => Lookup(b) = <<0, b>> /\ <<0, b>> \in Functions
         /\ ~(b = 0 \/ <<0, b>> \in enabled) => Lookup(b) = NoFunction
<1>1. /\ DOMAIN lut = {0} \cup {k \in 0 .. MaxVfs : <<0, k>> \in enabled}
      /\ \A k \in DOMAIN lut : lut[k] \in Functions /\ VcsBdf(lut[k]) = k
      /\ enabled \subseteq Functions
  BY DEF Table, Types, TypeOK
<1>2. \A k \in DOMAIN lut : lut[k] = <<0, k>> BY <1>1, OnePf
<1>3. <<0, b>> \in enabled => b \in 0 .. MaxVfs BY <1>1 DEF Functions
<1> QED BY <1>1, <1>2, <1>3 DEF Lookup

(* The tables after an event for n VFs of PF p, seen from PF q.            *)
LEMMA EventApplied ==
  ASSUME Types, Table, NEW e \in VfEvents, Apply(e), UNCHANGED numPfs
  PROVE  /\ Table'
         /\ 1 .. e.count \subseteq Known(e.pf)'
         /\ e.count = 0 => Known(e.pf)' = {}
         /\ e.count > 0 => Known(e.pf)' = Known(e.pf) \cup 1 .. e.count
         /\ \A q \in Pfs : q # e.pf => Known(q)' = Known(q)
<1>1. PICK p \in Pfs, n \in 0 .. MaxVfs : p = e.pf /\ n = e.count BY EventIs
<1>2. e.kind # "none" BY EventIs
<1>3. /\ enabled \subseteq {f \in Functions : VfOf(f) > 0}
      /\ \A f \in enabled : PfOf(f) \in Pfs /\ f = <<PfOf(f), VfOf(f)>>
      /\ 1 .. n \subseteq 0 .. MaxVfs /\ n \in Nat
  <2>1. enabled \subseteq {f \in Functions : VfOf(f) > 0} BY DEF Types, TypeOK
  <2>2. \A f \in enabled : PfOf(f) \in Pfs /\ f = <<PfOf(f), VfOf(f)>> BY <2>1, FunctionIs, Zenon
  <2> QED BY <2>1, <2>2, Bounds
<1>4. CASE n > 0
  <2>1. EnableVfs(p, n) BY <1>1, <1>2, <1>4 DEF Apply
  <2>2. /\ enabled' = enabled \cup {<<p, k>> : k \in 1 .. n}
        /\ DOMAIN lut' = DOMAIN lut \cup {p + k : k \in 1 .. n}
    BY <2>1, EnableTable
  <2>3. \A q, k : <<q, k>> \in enabled' <=> <<q, k>> \in enabled \/ (q = p /\ k \in 1 .. n)
    BY <2>2
  <2>4. Table'
    <3>1. ASSUME numPfs = 1 PROVE DOMAIN lut' = {0} \cup {b \in 0 .. MaxVfs : <<0, b>> \in enabled'}
      <4>1. p = 0 BY <3>1, OnePf
      <4>2. {p + k : k \in 1 .. n} = 1 .. n BY <4>1
      <4>3. DOMAIN lut = {0} \cup {b \in 0 .. MaxVfs : <<0, b>> \in enabled} BY <3>1 DEF Table
      <4> QED BY <1>3, <2>2, <2>3, <4>1, <4>2, <4>3
    <3> QED BY <3>1 DEF Table
  <2> QED BY <1>1, <1>3, <1>4, <2>3, <2>4 DEF Known
<1>5. CASE ~(n > 0)
  <2>1. DisableVfs(p) /\ n = 0 BY <1>1, <1>2, <1>3, <1>5 DEF Apply
  <2>2. /\ enabled' = {f \in enabled : PfOf(f) # p} /\ DOMAIN lut' \subseteq DOMAIN lut
        /\ \A b \in DOMAIN lut : b \in DOMAIN lut' <=>
             ~ \E f \in enabled : PfOf(f) = p /\ VcsBdf(f) = b
    BY <2>1, DisableTable
  <2>3. \A q, k : <<q, k>> \in enabled' <=> <<q, k>> \in enabled /\ q # p
    BY <2>2 DEF PfOf
  <2>4. Table'
    <3>1. ASSUME numPfs = 1 PROVE DOMAIN lut' = {0} \cup {b \in 0 .. MaxVfs : <<0, b>> \in enabled'}
      <4>1. p = 0 BY <3>1, OnePf
      <4>2. \A k \in 0 .. MaxVfs : <<0, k>> \notin enabled' BY <2>3, <4>1
      <4>3. DOMAIN lut = {0} \cup {b \in 0 .. MaxVfs : <<0, b>> \in enabled} BY <3>1 DEF Table
      <4>4. \A f \in enabled : PfOf(f) = p /\ VcsBdf(f) = VfOf(f) /\ VfOf(f) # 0 /\ f = <<0, VfOf(f)>>
        <5>1. \A f \in enabled : f \in Functions /\ VfOf(f) > 0 BY <1>3
        <5> QED BY <3>1, <4>1, <5>1, OnePf
      <4>5. 0 \in DOMAIN lut' BY <2>2, <4>3, <4>4
      <4>6. ASSUME NEW b \in 0 .. MaxVfs, <<0, b>> \in enabled PROVE b \notin DOMAIN lut'
        <5>1. VcsBdf(<<0, b>>) = b BY <4>4, <4>6 DEF VfOf
        <5> QED BY <2>2, <4>4, <4>6, <5>1
      <4> QED BY <2>2, <4>2, <4>3, <4>5, <4>6
    <3> QED BY <3>1 DEF Table
  <2> QED BY <1>1, <2>1, <2>3, <2>4 DEF Known
<1> QED BY <1>4, <1>5

(* The tables change only with an event: the arriving one or the one kept. *)
LEMMA TablesChange ==
  ASSUME Types, [Next]_vars
  PROVE  \/ UNCHANGED tableVars
         \/ TakeVfEvent /\ Head(toVcs) \in VfEvents /\ Apply(Head(toVcs))
         \/ PollEmpty /\ vfEvent \in VfEvents /\ Apply(vfEvent)
<1>1. CASE Guest BY <1>1, GuestSends
<1>2. CASE TakeVfEvent BY <1>2, ArrivedIs DEF TakeVfEvent, Arrived
<1>3. CASE PollEmpty
  <2>1. vfEvent = NoEvent => UNCHANGED tableVars BY <1>3 DEF PollEmpty, Apply, NoEvent
  <2> QED BY <1>3, <2>1 DEF PollEmpty, Types
<1> QED
  BY <1>1, <1>2, <1>3
  DEF Next, vars, RealizeQuery, ReadReturns, Unplug, Simulator, ExportTopology, AnswerQuery,
      TakeTlp, DrainTlp, DrainVfEvent, PollCached, Shutdown

LEMMA NextTable == ASSUME Types, Table, [Next]_vars PROVE Table'
<1>1. numPfs' = numPfs BY SetupStays
<1>2. CASE UNCHANGED tableVars BY <1>1, <1>2 DEF Table, tableVars
<1>3. ASSUME NEW e \in VfEvents, Apply(e) PROVE Table' BY <1>1, <1>3, EventApplied
<1> QED BY <1>2, <1>3, TablesChange
-----------------------------------------------------------------------------
(* The VFs *)

LEMMA CountedIs ==
  ASSUME NEW p, NEW m \in Messages, NEW n \in 0 .. MaxVfs
  PROVE  /\ Counted(p, m, n) \in 0 .. MaxVfs
         /\ m.kind # "vf" \/ m.pf # p => Counted(p, m, n) = n
<1>1. m.kind = "vf" => m.count \in 0 .. MaxVfs BY MessageIs, EventIs
<1> QED BY <1>1 DEF Counted

LEMMA VfStepIs ==
  ASSUME NEW p, NEW m, NEW a, NEW b
  PROVE  <<m, a, b>> \in VfSteps(p) <=>
           m \in Messages /\ a \in 0 .. MaxVfs /\ b \in 0 .. MaxVfs /\ b = Counted(p, m, a)
BY DEF VfSteps

LEMMA VfStepsStay == ASSUME [Next]_vars PROVE \A p : VfSteps(p)' = VfSteps(p)
BY SetupStays DEF VfSteps, Counted

(* A message is sent, after which the number of VFs of a PF is accounted   *)
(* for if it was.                                                          *)
LEMMA VfsSend ==
  ASSUME Types, Types', Vfs, [Next]_vars, NEW m \in Messages, toVcs' = Append(toVcs, m),
         UNCHANGED <<vfEvent, tableVars>>, pf # "gone",
         \A p \in Pfs, z \in 0 .. MaxVfs :
           (p \notin silent => z = vfs[p]) /\ p \notin silent' => Counted(p, m, z) = vfs'[p]
  PROVE  Vfs'
<1>1. transport' = transport /\ numPfs' = numPfs /\ Pfs' = Pfs BY SetupStays
<1> SUFFICES ASSUME transport = "shm" \/ numPfs = 1, NEW p \in Pfs
             PROVE  \E a, z \in 0 .. MaxVfs : VfsOf(p, a, z)'
  BY <1>1 DEF Vfs
<1>2. PICK a \in 0 .. MaxVfs, z \in 0 .. MaxVfs : VfsOf(p, a, z) BY DEF Vfs
<1>3. PICK V, c, R : V = 0 .. MaxVfs /\ c = Counted(p, m, z) /\ R = VfSteps(p) OBVIOUS
<1>4. c \in V BY <1>3, CountedIs
<1>5. Leads(Append(toVcs, m), V, a, c, R)
  <2>1. toVcs \in Seq(Messages) BY DEF Types, TypeOK
  <2>2. Leads(toVcs, V, a, z, R) BY <1>2, <1>3 DEF VfsOf
  <2>3. <<m, z, c>> \in R BY <1>3, <1>4, VfStepIs
  <2> QED BY <1>4, <2>1, <2>2, <2>3, LeadsAppend
<1>6. Leads(toVcs', 0 .. MaxVfs, a, c, VfSteps(p)') BY <1>3, <1>5, VfStepsStay
<1>7. Known(p)' = Known(p) BY DEF Known, tableVars
<1>8. p \notin silent' => c = vfs'[p] BY <1>2, <1>3 DEF VfsOf
<1> QED BY <1>1, <1>2, <1>3, <1>4, <1>6, <1>7, <1>8 DEF VfsOf, tableVars

(* A message is taken: what it leaves of the way to QEMU's VFs.            *)
LEMMA VfsTake ==
  ASSUME Types, [Next]_vars, toVcs # <<>>, toVcs' = Tail(toVcs), UNCHANGED <<vfs, silent>>,
         NEW p \in Pfs, NEW a \in 0 .. MaxVfs, NEW z \in 0 .. MaxVfs, VfsOf(p, a, z)
  PROVE  LET c == Counted(p, Head(toVcs), a) IN
           /\ c \in 0 .. MaxVfs /\ Leads(toVcs', 0 .. MaxVfs, c, z, VfSteps(p)')
           /\ p \notin silent' => z = vfs'[p]
<1>1. PICK V, R : V = 0 .. MaxVfs /\ R = VfSteps(p) OBVIOUS
<1>2. toVcs \in Seq(Messages) BY DEF Types, TypeOK
<1>3. Leads(toVcs, V, a, z, R) BY <1>1 DEF VfsOf
<1>4. PICK c \in V : <<Head(toVcs), a, c>> \in R /\ Leads(Tail(toVcs), V, c, z, R)
  BY <1>2, <1>3, LeadsTail
<1>5. c = Counted(p, Head(toVcs), a) BY <1>1, <1>4, VfStepIs
<1>6. p \notin silent' => z = vfs'[p] BY DEF VfsOf
<1> QED BY <1>1, <1>4, <1>5, <1>6, VfStepsStay

(* An event sent for a write to SR-IOV Control accounts for what it did.   *)
LEMMA ControlCounted ==
  ASSUME NEW p \in Pfs, NEW w \in 0 .. MaxVfs, VfsWritten(p, w, TRUE),
         vfs[p] = 0 \/ w = 0 \/ vfs[p] = w,
         \A q \in Pfs : vfs'[q] = IF q = p THEN w ELSE vfs[q],
         NEW m \in Messages, m = VfMessage(p, w),
         NEW q \in Pfs, NEW z \in 0 .. MaxVfs, q \notin silent => z = vfs[q], q \notin silent'
  PROVE  Counted(q, m, z) = vfs'[q]
<1>1. /\ m.kind = "vf" /\ m.pf = p /\ m.count = w
      /\ silent' = IF w = 0 THEN silent \ {p} ELSE silent
  BY DEF VfsWritten, VfMessage
<1>2. CASE q = p
  <2>1. w = 0 => Counted(q, m, z) = 0 BY <1>1, <1>2 DEF Counted
  <2>2. w # 0 => z = 0 \/ z = w BY <1>1, <1>2
  <2>3. w # 0 => Counted(q, m, z) = w BY <1>1, <1>2, <2>2, Bounds DEF Counted
  <2> QED BY <1>2, <2>1, <2>3
<1>3. CASE q # p
  <2>1. Counted(q, m, z) = z BY <1>1, <1>3, CountedIs
  <2> QED BY <1>1, <1>3, <2>1
<1> QED BY <1>2, <1>3

(* An event that arrives over shared memory leaves the VFs it counts.      *)
LEMMA KnownCounted ==
  ASSUME Types, Table, NEW m \in VfEvents, Apply(m), UNCHANGED numPfs, transport = "shm",
         NEW p \in Pfs, NEW a \in 0 .. MaxVfs, Known(p) = 1 .. a
  PROVE  Known(p)' = 1 .. Counted(p, m, a)
<1>1. /\ m.kind = "vf" /\ m.pf \in Pfs /\ m.count \in Nat /\ a \in Nat
      /\ \A i \in Nat : 1 .. i = {} <=> i = 0
  BY EventIs, Bounds
<1>2. CASE m.pf = p
  <2>1. PICK c : c = IF 0 < m.count /\ m.count < a THEN a ELSE m.count OBVIOUS
  <2>2. Counted(p, m, a) = c BY <1>1, <1>2, <2>1 DEF Counted
  <2>3. /\ m.count = 0 => Known(p)' = {}
        /\ m.count > 0 => Known(p)' = Known(p) \cup 1 .. m.count
    BY <1>2, EventApplied
  <2>4. CASE m.count = 0 BY <1>1, <2>1, <2>2, <2>3, <2>4
  <2>5. CASE m.count > 0
    <3>1. 1 .. c = 1 .. a \cup 1 .. m.count BY <1>1, <2>1, <2>5
    <3> QED BY <2>2, <2>3, <2>5, <3>1
  <2> QED BY <1>1, <2>4, <2>5
<1>3. CASE m.pf # p
  <2>1. Known(p)' = Known(p) BY <1>3, EventApplied
  <2> QED BY <1>3, <2>1 DEF Counted
<1> QED BY <1>2, <1>3

LEMMA NextVfs ==
  ASSUME Types, Types', Order, Table, Vfs, [Next]_vars
  PROVE  Vfs'
<1> USE DEF setupVars, deviceVars, cpuVars, guestVars, history, tableVars
<1>0. /\ transport' = transport /\ numPfs' = numPfs /\ Pfs' = Pfs
      /\ toVcs \in Seq(Messages) /\ vfs \in [Pfs -> 0 .. MaxVfs]
      /\ \A p \in Pfs : vfs[p] > 0 => pf = "live"
  BY SetupStays DEF Types, TypeOK
<1>1. ASSUME UNCHANGED <<toVcs, vfs, silent, vfEvent, enabled>>, pf' # "gone" => pf # "gone" PROVE Vfs'
  <2>1. \A p, a, z : VfsOf(p, a, z)' <=> VfsOf(p, a, z)
    BY <1>0, <1>1, VfStepsStay DEF VfsOf, Known
  <2> QED BY <1>0, <1>1, <2>1 DEF Vfs
<1>2. ASSUME NEW m \in Messages, m.kind # "vf", toVcs' = Append(toVcs, m), pf # "gone",
             UNCHANGED <<vfs, silent, vfEvent, tableVars>>
      PROVE  Vfs'
  <2>1. \A p \in Pfs, z \in 0 .. MaxVfs : Counted(p, m, z) = z BY <1>2, CountedIs
  <2> QED BY <1>2, <2>1, VfsSend
<1>3. CASE RealizeQuery
  <2>1. [kind |-> "query"] \in Messages /\ [kind |-> "query"].kind # "vf" BY DEF Messages
  <2> QED BY <1>2, <1>3, <2>1 DEF RealizeQuery
<1>4. ASSUME NEW f \in Functions, ConfigRead(f) PROVE Vfs'
  <2>1. PICK m : m = [kind |-> "rd", bdf |-> QemuBdf(f)] OBVIOUS
  <2>2. m \in Messages /\ m.kind # "vf" BY <2>1, Holds DEF Messages
  <2> QED BY <1>2, <1>4, <2>1, <2>2 DEF ConfigRead, Operation
<1>5. ASSUME NEW f \in Functions, NEW d \in Data, ConfigWrite(f, d) PROVE Vfs'
  <2>1. PICK m : m = [kind |-> "wr", bdf |-> QemuBdf(f), value |-> Packed(d)] OBVIOUS
  <2>2. m \in Messages /\ m.kind # "vf" BY <2>1, Holds, ContentsIs DEF Messages
  <2>3. silent' = silent BY <1>5 DEF ConfigWrite, Wrote
  <2> QED BY <1>2, <1>5, <2>1, <2>2, <2>3 DEF ConfigWrite, Operation
<1>6. ASSUME NEW p \in Pfs, NEW n \in 0 .. MaxVfs, NEW exact \in BOOLEAN,
             WriteVfEnable(p, n, exact) \/ ClearVfEnable(p, exact)
      PROVE  Vfs'
  <2>1. PICK w \in 0 .. MaxVfs : /\ VfsWritten(p, w, exact) /\ (vfs[p] = 0 \/ w = 0 \/ vfs[p] = w)
                                 /\ VfMessage(p, w) \in Messages
                                 /\ VfMessage(p, w).kind = "vf" /\ VfMessage(p, w).pf = p
                                 /\ VfMessage(p, w).count = w
                                 /\ \A q \in Pfs : vfs'[q] = IF q = p THEN w ELSE vfs[q]
    BY <1>6, ControlWrite
  <2>2. UNCHANGED <<vfEvent, lut, enabled>> /\ pf' = pf /\ pf # "gone"
    BY <2>1 DEF VfsWritten, Operation
  <2>3. CASE exact
    <3>1. PICK m : m = VfMessage(p, w) OBVIOUS
    <3>2. toVcs' = Append(toVcs, m) /\ m \in Messages BY <2>1, <2>3, <3>1 DEF VfsWritten
    <3>3. \A q \in Pfs, z \in 0 .. MaxVfs :
            (q \notin silent => z = vfs[q]) /\ q \notin silent' => Counted(q, m, z) = vfs'[q]
      BY <2>1, <2>3, <3>1, ControlCounted
    <3> QED BY <2>2, <3>2, <3>3, VfsSend
  <2>4. CASE ~exact
    <3>1. toVcs' = toVcs /\ silent' = IF vfs[p] = w THEN silent ELSE silent \cup {p}
      BY <2>1, <2>4 DEF VfsWritten
    <3>2. \A q \in Pfs : q \notin silent' => q \notin silent /\ vfs'[q] = vfs[q] BY <2>1, <3>1
    <3>3. \A q \in Pfs, a, z \in 0 .. MaxVfs : VfsOf(q, a, z) => VfsOf(q, a, z)'
      BY <1>0, <2>2, <3>1, <3>2, VfStepsStay DEF VfsOf, Known
    <3> QED BY <1>0, <2>2, <3>3 DEF Vfs
  <2> QED BY <2>3, <2>4
<1>7. CASE ReadReturns BY <1>1, <1>7 DEF ReadReturns
<1>8. CASE Unplug BY <1>8 DEF Unplug, Vfs
<1>9. CASE ExportTopology BY <1>1, <1>9 DEF ExportTopology
<1>10. ASSUME toVcs # <<>>, toVcs' = Tail(toVcs), Head(toVcs).kind # "vf",
              UNCHANGED <<vfs, silent, vfEvent, enabled>>, pf' # "gone" => pf # "gone"
       PROVE  Vfs'
  <2> SUFFICES ASSUME pf # "gone", transport = "shm" \/ numPfs = 1, NEW p \in Pfs
               PROVE  \E a, z \in 0 .. MaxVfs : VfsOf(p, a, z)'
    BY <1>0, <1>10 DEF Vfs
  <2>1. PICK a \in 0 .. MaxVfs, z \in 0 .. MaxVfs : VfsOf(p, a, z) BY DEF Vfs
  <2>2. Head(toVcs) \in Messages BY <1>10, ArrivedIs
  <2>3. Counted(p, Head(toVcs), a) = a BY <1>10, <2>2, CountedIs
  <2>4. Leads(toVcs', 0 .. MaxVfs, a, z, VfSteps(p)') /\ (p \notin silent' => z = vfs'[p])
    BY <1>10, <2>1, <2>3, VfsTake
  <2>5. Known(p)' = Known(p) BY <1>10 DEF Known
  <2> QED BY <1>0, <1>10, <2>1, <2>4, <2>5 DEF VfsOf
<1>11. CASE AnswerQuery
  <2>1. pf # "gone" BY <1>0, <1>11, KindTail DEF AnswerQuery, Arrived, Order
  <2> QED BY <1>10, <1>11, <2>1 DEF AnswerQuery, Arrived
<1>12. CASE TakeTlp BY <1>10, <1>12 DEF TakeTlp, Arrived
<1>13. CASE TakeVfEvent
  <2>1. PICK m \in VfEvents : m = Head(toVcs) /\ Apply(m) BY <1>13, ArrivedIs DEF TakeVfEvent, Arrived
  <2> SUFFICES ASSUME pf # "gone", transport = "shm" \/ numPfs = 1, NEW p \in Pfs
               PROVE  \E a, z \in 0 .. MaxVfs : VfsOf(p, a, z)'
    BY <1>0, <1>13 DEF Vfs, TakeVfEvent
  <2>2. PICK a \in 0 .. MaxVfs, z \in 0 .. MaxVfs : VfsOf(p, a, z) BY DEF Vfs
  <2>3. PICK c : c = Counted(p, m, a) OBVIOUS
  <2>4. /\ c \in 0 .. MaxVfs /\ Leads(toVcs', 0 .. MaxVfs, c, z, VfSteps(p)')
        /\ (p \notin silent' => z = vfs'[p])
    BY <1>13, <2>1, <2>2, <2>3, VfsTake DEF TakeVfEvent, Arrived
  <2>5. vfEvent' = NoEvent BY <1>13 DEF TakeVfEvent
  <2>6. CASE transport = "shm"
    <3>1. vfEvent = NoEvent /\ Known(p) = 1 .. a BY <2>2, <2>6 DEF Order, VfsOf
    <3>2. Known(p)' = 1 .. c BY <1>0, <2>1, <2>3, <2>6, <3>1, KnownCounted
    <3> QED BY <1>0, <2>4, <2>5, <3>2 DEF VfsOf
  <2>7. CASE transport # "shm"
    <3>1. m.pf = p /\ c = m.count BY <2>1, <2>3, <2>7, EventIs, OnePf DEF Counted
    <3>2. 1 .. c \subseteq Known(p)' BY <1>0, <2>1, <3>1, EventApplied
    <3> QED BY <1>0, <2>4, <2>5, <2>7, <3>2 DEF VfsOf
  <2> QED BY <2>6, <2>7
<1>14. CASE DrainTlp BY <1>10, <1>14 DEF DrainTlp, Arrived
<1>15. CASE DrainVfEvent
  <2>1. PICK m \in VfEvents : m = Head(toVcs) /\ vfEvent' = m
    BY <1>15, ArrivedIs DEF DrainVfEvent, Arrived
  <2> SUFFICES ASSUME pf # "gone", numPfs = 1, transport = "tcp", NEW p \in Pfs
               PROVE  \E a, z \in 0 .. MaxVfs : VfsOf(p, a, z)'
    BY <1>0, <1>15 DEF Vfs, DrainVfEvent, Draining
  <2>2. PICK a \in 0 .. MaxVfs, z \in 0 .. MaxVfs : VfsOf(p, a, z) BY DEF Vfs
  <2>3. PICK c : c = Counted(p, m, a) OBVIOUS
  <2>4. /\ c \in 0 .. MaxVfs /\ Leads(toVcs', 0 .. MaxVfs, c, z, VfSteps(p)')
        /\ (p \notin silent' => z = vfs'[p])
    BY <1>15, <2>1, <2>2, <2>3, VfsTake DEF DrainVfEvent, Arrived
  <2>5. c = m.count BY <2>1, <2>3, EventIs, OnePf DEF Counted
  <2>6. m # NoEvent
    <3>1. m.kind = "vf" /\ NoEvent.kind = "none" BY EventIs DEF NoEvent
    <3> QED BY <3>1
  <2> QED BY <1>0, <2>1, <2>4, <2>5, <2>6 DEF VfsOf
<1>16. CASE PollCached BY <1>1, <1>16 DEF PollCached
<1>17. CASE PollEmpty
  <2>1. CASE vfEvent = NoEvent
    <3>1. UNCHANGED <<lut, enabled>> BY <1>17, <2>1 DEF PollEmpty, Apply, NoEvent
    <3> QED BY <1>1, <1>17, <2>1, <3>1 DEF PollEmpty
  <2>2. CASE vfEvent # NoEvent
    <3> SUFFICES ASSUME pf # "gone", numPfs = 1, transport = "tcp", NEW p \in Pfs
                 PROVE  \E a, z \in 0 .. MaxVfs : VfsOf(p, a, z)'
      BY <1>0, <1>17 DEF Vfs, PollEmpty
    <3>1. PICK a \in 0 .. MaxVfs, z \in 0 .. MaxVfs : VfsOf(p, a, z) BY DEF Vfs
    <3>2. PICK m \in VfEvents : m = vfEvent /\ Apply(m) /\ m.count = a /\ m.pf = p
      <4>1. vfEvent \in VfEvents BY <2>2 DEF Types
      <4>2. vfEvent.count = a BY <2>2, <3>1 DEF VfsOf
      <4> QED BY <1>17, <4>1, <4>2, EventIs, OnePf DEF PollEmpty
    <3>3. 1 .. a \subseteq Known(p)' BY <1>0, <3>2, EventApplied
    <3>4. Leads(toVcs', 0 .. MaxVfs, a, z, VfSteps(p)') /\ (p \notin silent' => z = vfs'[p])
      BY <1>17, <3>1, VfStepsStay DEF VfsOf, PollEmpty
    <3> QED BY <1>0, <1>17, <3>1, <3>3, <3>4 DEF VfsOf, PollEmpty
  <2> QED BY <2>1, <2>2
<1>18. CASE Shutdown BY <1>10, <1>18 DEF Shutdown, Arrived
<1>19. CASE UNCHANGED vars BY <1>1, <1>19 DEF vars
<1> QED
  BY <1>3, <1>4, <1>5, <1>6, <1>7, <1>8, <1>9, <1>11, <1>12, <1>13, <1>14, <1>15, <1>16,
     <1>17, <1>18, <1>19, Bounds DEF Next, Guest, Simulator
-----------------------------------------------------------------------------
(* Writes *)

LEMMA AfterIs ==
  ASSUME NEW f, NEW m \in Messages, NEW v \in Views
  PROVE  /\ After(f, m, v) \in Views
         /\ m.kind # "wr" /\ (m.kind # "vf" \/ VfOf(f) = 0) => After(f, m, v) = v
         /\ m.kind # "vf" \/ VfOf(f) = 0 => After(f, m, v)[1] = v[1]
         /\ m.kind # "wr" \/ m.bdf # VfOf(f) => After(f, m, v)[2] = v[2]
         /\ m.kind = "wr" /\ m.bdf = VfOf(f) /\ VfOf(f) <= v[1] => After(f, m, v)[2] = m.value
<1>1. v[1] \in 0 .. MaxVfs /\ v[2] \in Contents /\ v = <<v[1], v[2]>> BY DEF Views
<1>2. /\ Counted(0, m, v[1]) \in 0 .. MaxVfs
      /\ m.kind # "vf" => Counted(0, m, v[1]) = v[1]
  BY <1>1, CountedIs
<1>3. m.kind = "wr" => m.value \in Contents BY MessageIs, TlpIs
<1>4. PICK a, b : /\ a = IF VfOf(f) = 0 THEN v[1] ELSE Counted(0, m, v[1])
                  /\ b = IF m.kind = "wr" /\ m.bdf = VfOf(f) /\ VfOf(f) <= v[1]
                         THEN m.value ELSE v[2]
  OBVIOUS
<1>5. After(f, m, v) = <<a, b>> BY <1>4 DEF After
<1>6. a \in 0 .. MaxVfs /\ b \in Contents BY <1>1, <1>2, <1>3, <1>4
<1> QED BY <1>1, <1>2, <1>4, <1>5, <1>6 DEF Views

LEMMA WrStepIs ==
  ASSUME NEW f, NEW m, NEW a, NEW b
  PROVE  <<m, a, b>> \in WrSteps(f) <=>
           m \in Messages /\ a \in Views /\ b \in Views /\ b = After(f, m, a)
BY DEF WrSteps

LEMMA WrStepsStay ==
  ASSUME [Next]_vars
  PROVE  /\ Views' = Views
         /\ \A f : WrSteps(f)' = WrSteps(f) /\ VfOf(f)' = VfOf(f)
<1>1. Views' = Views BY DEF Views, Contents
<1> QED BY <1>1, SetupStays DEF WrSteps, After, Counted, VfOf

(* A message is sent, after which the guest sees a function as it did.     *)
LEMMA WritesSend ==
  ASSUME Types, Writes, [Next]_vars, NEW m \in Messages, toVcs' = Append(toVcs, m),
         UNCHANGED <<cache, regs, enabled>>, pf # "gone",
         \A f \in Functions, y, z \in Views :
           numPfs = 1 /\ Sees(f, z) /\ y = After(f, m, z) => Sees(f, y)'
  PROVE  Writes'
<1>1. transport' = transport /\ numPfs' = numPfs /\ Functions' = Functions BY SetupStays
<1> SUFFICES ASSUME numPfs = 1, NEW f \in Functions, transport = "shm" \/ VfOf(f) = 0
             PROVE  \E n \in 0 .. MaxVfs, x, z \in Views : WritesOf(f, n, x, z)'
  BY <1>1, WrStepsStay DEF Writes
<1>2. PICK n \in 0 .. MaxVfs, x \in Views, z \in Views : WritesOf(f, n, x, z) BY DEF Writes
<1>3. PICK V, y, R : V = Views /\ y = After(f, m, z) /\ R = WrSteps(f) OBVIOUS
<1>4. y \in V BY <1>3, AfterIs
<1>5. Leads(Append(toVcs, m), V, x, y, R)
  <2>1. toVcs \in Seq(Messages) BY DEF Types, TypeOK
  <2>2. Leads(toVcs, V, x, z, R) BY <1>2, <1>3 DEF WritesOf
  <2>3. <<m, z, y>> \in R BY <1>3, <1>4, WrStepIs
  <2> QED BY <1>4, <2>1, <2>2, <2>3, LeadsAppend
<1>6. Leads(toVcs', Views', x, y, WrSteps(f)') BY <1>3, <1>5, WrStepsStay
<1>7. Leads(cache', Views', <<n, regs'[f]>>, x, WrSteps(f)')
  BY <1>2, WrStepsStay DEF WritesOf
<1>8. Sees(f, y)' BY <1>2, <1>3, <1>4 DEF WritesOf
<1>9. (VfOf(f) > 0 => Known(0) = 1 .. n)' BY <1>2, WrStepsStay DEF WritesOf, Known
<1> QED BY <1>3, <1>4, <1>6, <1>7, <1>8, <1>9 DEF WritesOf

(* The oldest message, and the oldest TLP of the cache, are one step.      *)
LEMMA WritesTake ==
  ASSUME Types, toVcs # <<>>, NEW f, NEW n, NEW x \in Views, NEW z, WritesOf(f, n, x, z)
  PROVE  LET c == After(f, Head(toVcs), x) IN
           c \in Views /\ Leads(Tail(toVcs), Views, c, z, WrSteps(f))
<1>1. PICK V, R : V = Views /\ R = WrSteps(f) OBVIOUS
<1>2. toVcs \in Seq(Messages) BY DEF Types, TypeOK
<1>3. Leads(toVcs, V, x, z, R) BY <1>1 DEF WritesOf
<1>4. PICK c \in V : <<Head(toVcs), x, c>> \in R /\ Leads(Tail(toVcs), V, c, z, R)
  BY <1>2, <1>3, LeadsTail
<1>5. c = After(f, Head(toVcs), x) BY <1>1, <1>4, WrStepIs
<1> QED BY <1>1, <1>4, <1>5

LEMMA WritesPoll ==
  ASSUME Types, cache # <<>>, NEW f, NEW n, NEW x, NEW z, WritesOf(f, n, x, z)
  PROVE  LET c == After(f, Head(cache), <<n, regs[f]>>) IN
           c \in Views /\ Leads(Tail(cache), Views, c, x, WrSteps(f))
<1>1. PICK V, R, a : V = Views /\ R = WrSteps(f) /\ a = <<n, regs[f]>> OBVIOUS
<1>2. cache \in Seq(Tlps) BY DEF Types
<1>3. Leads(cache, V, a, x, R) BY <1>1 DEF WritesOf
<1>4. PICK c \in V : <<Head(cache), a, c>> \in R /\ Leads(Tail(cache), V, c, x, R)
  BY <1>2, <1>3, LeadsTail
<1>5. c = After(f, Head(cache), a) BY <1>1, <1>4, WrStepIs
<1> QED BY <1>1, <1>4, <1>5

(* With nothing in the cache, x is the register itself. *)
LEMMA WritesFirst ==
  ASSUME Types, cache = <<>>, NEW f \in Functions, NEW n \in 0 .. MaxVfs, NEW x, NEW z,
         WritesOf(f, n, x, z)
  PROVE  x = <<n, regs[f]>>
<1>1. PICK V, R, a : V = Views /\ R = WrSteps(f) /\ a = <<n, regs[f]>> OBVIOUS
<1>2. a \in V BY <1>1 DEF Types, TypeOK, Views
<1>3. Leads(<<>>, V, a, x, R) BY <1>1 DEF WritesOf
<1> QED BY <1>1, <1>2, <1>3, LeadsEmpty

(* A TLP changes the register it names if it is a write and the PF's own,  *)
(* or one of a VF the simulator knows.                                     *)
LEMMA WriteLands ==
  ASSUME Types, Table, numPfs = 1, NEW t \in Tlps, Handle(t), NEW f \in Functions,
         NEW n \in 0 .. MaxVfs, VfOf(f) > 0 => Known(0) = 1 .. n
  PROVE  After(f, t, <<n, regs[f]>>) = <<n, regs'[f]>>
<1>1. /\ f = <<0, VfOf(f)>> /\ VfOf(f) \in 0 .. MaxVfs /\ VfOf(f) \in Nat /\ t.bdf \in Nat
      /\ regs \in [Functions -> Contents] /\ t \in Messages /\ n \in Nat
  BY OnePf, TlpIs, Bounds DEF Types, TypeOK
<1>2. PICK v, c : v = <<n, regs[f]>> /\ c = After(f, t, v) OBVIOUS
<1>3. v \in Views BY <1>1, <1>2 DEF Views
<1>4. t.kind \in {"rd", "wr"} BY TlpIs
<1>5. c \in Views /\ c[1] = n BY <1>1, <1>2, <1>3, <1>4, AfterIs
<1>6. c = <<c[1], c[2]>> BY <1>5 DEF Views
<1>7. CASE t.kind = "rd"
  <2>1. c[2] = v[2] BY <1>1, <1>2, <1>3, <1>7, AfterIs
  <2>2. regs' = regs BY <1>7, HandleTyped
  <2> QED BY <1>2, <1>5, <1>6, <2>1, <2>2
<1>8. CASE t.kind = "wr"
  <2>1. PICK g : g = Lookup(t.bdf) OBVIOUS
  <2>2. regs' = IF g = NoFunction THEN regs ELSE [regs EXCEPT ![g] = t.value]
    BY <1>8, <2>1 DEF Handle
  <2>3. NoFunction # f BY Holds
  <2>4. CASE VfOf(f) # t.bdf
    <3>1. g = NoFunction \/ g = <<0, t.bdf>> BY <1>1, <2>1, LookupOne
    <3>2. f # <<0, t.bdf>> BY <1>1, <2>4
    <3>3. regs'[f] = regs[f] BY <1>1, <2>2, <3>1, <3>2
    <3>4. c[2] = v[2] BY <1>1, <1>2, <1>3, <2>4, AfterIs
    <3> QED BY <1>2, <1>5, <1>6, <3>3, <3>4
  <2>5. CASE VfOf(f) = t.bdf /\ VfOf(f) <= n
    <3>1. VfOf(f) = 0 \/ <<0, VfOf(f)>> \in enabled
      <4>1. VfOf(f) > 0 => VfOf(f) \in 1 .. n BY <1>1, <2>5
      <4>2. VfOf(f) > 0 => VfOf(f) \in Known(0) BY <4>1
      <4> QED BY <1>1, <4>2 DEF Known
    <3>2. g = f BY <1>1, <2>1, <2>5, <3>1, LookupOne
    <3>3. regs'[f] = t.value BY <1>1, <2>2, <2>3, <3>2
    <3>4. c[2] = t.value BY <1>1, <1>2, <1>3, <1>8, <2>5, AfterIs
    <3> QED BY <1>2, <1>5, <1>6, <3>3, <3>4
  <2>6. CASE VfOf(f) = t.bdf /\ ~(VfOf(f) <= n)
    <3>1. VfOf(f) > 0 /\ VfOf(f) \notin 1 .. n BY <1>1, <2>6
    <3>2. <<0, VfOf(f)>> \notin enabled BY <1>1, <3>1 DEF Known
    <3>3. g = NoFunction BY <1>1, <2>1, <2>6, <3>1, <3>2, LookupOne
    <3>4. regs'[f] = regs[f] BY <2>2, <3>3
    <3>5. c = <<Counted(0, t, n), regs[f]>> BY <1>2, <2>6, <3>1 DEF After
    <3> QED BY <1>2, <1>5, <3>4, <3>5
  <2> QED BY <2>4, <2>5, <2>6
<1> QED BY <1>2, <1>4, <1>7, <1>8

LEMMA NextWrites ==
  ASSUME Types, Types', Order, Table, Writes, [Next]_vars
  PROVE  Writes'
<1> USE DEF setupVars, deviceVars, cpuVars, guestVars, history, tableVars
<1>0. /\ transport' = transport /\ numPfs' = numPfs /\ Functions' = Functions
      /\ toVcs \in Seq(Messages) /\ cache \in Seq(Messages) /\ cache \in Seq(Tlps)
      /\ wrote \in [Functions -> Contents] /\ regs \in [Functions -> Contents]
      /\ kept \in [Functions -> SUBSET Lanes] /\ vfs \in [Pfs -> 0 .. MaxVfs]
      /\ \A f : WrSteps(f)' = WrSteps(f) /\ VfOf(f)' = VfOf(f)
      /\ Views' = Views
  BY SetupStays, WrStepsStay DEF Types, TypeOK
<1>1. ASSUME NEW f, NEW z, UNCHANGED <<wrote, kept, silent, vfs>>
      PROVE  Sees(f, z)' <=> Sees(f, z)
  BY <1>0, <1>1 DEF Sees
<1>2. ASSUME UNCHANGED <<toVcs, cache, regs, wrote, kept, silent, vfs>>,
             UNCHANGED enabled \/ transport # "shm", pf' # "gone" => pf # "gone"
      PROVE  Writes'
  <2>1. ASSUME NEW f, NEW n, NEW x, NEW z, transport = "shm" \/ VfOf(f) = 0, WritesOf(f, n, x, z)
        PROVE  WritesOf(f, n, x, z)'
    <3>1. VfOf(f) > 0 => Known(0)' = Known(0) BY <1>2, <2>1 DEF Known
    <3> QED BY <1>0, <1>1, <1>2, <2>1, <3>1 DEF WritesOf
  <2> QED BY <1>0, <1>2, <2>1 DEF Writes
<1>3. ASSUME NEW m \in Messages, m.kind # "wr", m.kind # "vf", toVcs' = Append(toVcs, m),
             pf # "gone", UNCHANGED <<cache, regs, enabled, wrote, kept, silent, vfs>>
      PROVE  Writes'
  <2>1. \A f \in Functions, z \in Views : After(f, m, z) = z BY <1>3, AfterIs
  <2> QED BY <1>1, <1>3, <2>1, WritesSend
<1>4. CASE RealizeQuery
  <2>1. PICK m : m = [kind |-> "query"] OBVIOUS
  <2>2. m \in Messages /\ m.kind = "query" BY <2>1 DEF Messages
  <2> QED BY <1>3, <1>4, <2>1, <2>2 DEF RealizeQuery
<1>5. ASSUME NEW f \in Functions, ConfigRead(f) PROVE Writes'
  <2>1. PICK m : m = [kind |-> "rd", bdf |-> QemuBdf(f)] OBVIOUS
  <2>2. m \in Messages /\ m.kind = "rd" BY <2>1, Holds DEF Messages
  <2> QED BY <1>3, <1>5, <2>1, <2>2 DEF ConfigRead, Operation
<1>6. ASSUME NEW g \in Functions, NEW d \in Data, ConfigWrite(g, d) PROVE Writes'
  <2>1. PICK m : m = [kind |-> "wr", bdf |-> QemuBdf(g), value |-> Packed(d)] OBVIOUS
  <2>2. m \in Messages /\ m.kind = "wr" /\ m.bdf = QemuBdf(g) /\ m.value = Packed(d)
    BY <2>1, Holds, ContentsIs DEF Messages
  <2>3. /\ silent' = silent /\ vfs' = vfs /\ Accessible(g)
        /\ \A f \in Functions : f # g => wrote'[f] = wrote[f] /\ kept'[f] = kept[f]
        /\ \A l \in kept'[g] : Packed(d)[l] = wrote'[g][l]
        /\ VfOf(g) > 0 /\ PfOf(g) \in silent => kept'[g] = {}
    BY <1>0, <1>6, WroteIs DEF ConfigWrite
  <2>4. ASSUME NEW f \in Functions, NEW z \in Views, NEW y \in Views, numPfs = 1, Sees(f, z),
               y = After(f, m, z)
        PROVE  Sees(f, y)'
    <3>1. y[1] = z[1] BY <2>2, <2>4, AfterIs
    <3>2. m.bdf = VfOf(g) /\ PfOf(g) = 0 /\ VfOf(g) \in Nat BY <2>2, <2>4, OnePf
    <3>3. \A l \in kept'[f] : y[2][l] = wrote'[f][l]
      <4>1. CASE f # g
        <5>1. m.bdf # VfOf(f) BY <2>4, <3>2, <4>1, OnePf
        <5>2. y[2] = z[2] BY <2>2, <2>4, <5>1, AfterIs
        <5> QED BY <2>3, <2>4, <4>1, <5>2 DEF Sees
      <4>2. CASE f = g /\ VfOf(g) > 0 /\ 0 \in silent BY <2>3, <3>2, <4>2
      <4>3. CASE f = g /\ ~(VfOf(g) > 0 /\ 0 \in silent)
        <5>1. VfOf(g) <= z[1]
          <6>1. VfOf(g) = 0 => VfOf(g) <= z[1]
            <7>1. z[1] \in Nat BY Bounds DEF Views
            <7> QED BY <7>1
          <6>2. VfOf(g) # 0 => VfOf(g) > 0 BY <3>2
          <6>3. VfOf(g) > 0 => z[1] = vfs[0] BY <2>4, <4>3 DEF Sees
          <6>4. VfOf(g) <= vfs[0] BY <2>3, <3>2 DEF Accessible
          <6>5. VfOf(g) > 0 => VfOf(g) <= z[1] BY <6>3, <6>4
          <6> QED BY <6>1, <6>2, <6>5
        <5>2. y[2] = Packed(d) BY <2>2, <2>4, <3>2, <4>3, <5>1, AfterIs
        <5> QED BY <2>3, <4>3, <5>2
      <4> QED BY <4>1, <4>2, <4>3
    <3> QED BY <1>0, <2>3, <2>4, <3>1, <3>3 DEF Sees
  <2> QED BY <1>6, <2>1, <2>2, <2>4, WritesSend DEF ConfigWrite, Operation
<1>7. ASSUME NEW p \in Pfs, NEW n \in 0 .. MaxVfs, NEW exact \in BOOLEAN,
             WriteVfEnable(p, n, exact) \/ ClearVfEnable(p, exact)
      PROVE  Writes'
  <2>1. PICK w \in 0 .. MaxVfs : /\ VfsWritten(p, w, exact) /\ (vfs[p] = 0 \/ w = 0 \/ vfs[p] = w)
                                 /\ VfMessage(p, w) \in Messages
                                 /\ VfMessage(p, w).kind = "vf" /\ VfMessage(p, w).pf = p
                                 /\ VfMessage(p, w).count = w
                                 /\ \A q \in Pfs : vfs'[q] = IF q = p THEN w ELSE vfs[q]
    BY <1>7, ControlWrite
  <2>2. UNCHANGED <<cache, regs, enabled, wrote, kept>> /\ pf' = pf /\ pf # "gone"
    BY <2>1 DEF VfsWritten, Operation
  <2>3. numPfs = 1 => 0 \in Pfs BY OnePf
  <2>4. CASE exact
    <3>1. PICK m \in Messages : m = VfMessage(p, w) /\ m.kind = "vf" BY <2>1
    <3>2. toVcs' = Append(toVcs, m) BY <2>1, <2>4, <3>1 DEF VfsWritten
    <3>3. ASSUME NEW f \in Functions, NEW z \in Views, NEW y \in Views, numPfs = 1, Sees(f, z),
                 y = After(f, m, z)
          PROVE  Sees(f, y)'
      <4>1. z[1] \in 0 .. MaxVfs BY DEF Views
      <4>2. y[2] = z[2] BY <3>1, <3>3, AfterIs
      <4>3. ASSUME VfOf(f) > 0, 0 \notin silent' PROVE y[1] = vfs'[0]
        <5>1. y[1] = Counted(0, m, z[1]) BY <3>3, <4>3 DEF After
        <5>2. 0 \notin silent => z[1] = vfs[0] BY <3>3, <4>3 DEF Sees
        <5>3. Counted(0, m, z[1]) = vfs'[0]
          BY <2>1, <2>3, <2>4, <3>1, <3>3, <4>1, <4>3, <5>2, ControlCounted
        <5> QED BY <5>1, <5>3
      <4> QED BY <1>0, <2>2, <3>3, <4>2, <4>3 DEF Sees
    <3> QED BY <2>2, <3>2, <3>3, WritesSend
  <2>5. CASE ~exact
    <3>1. toVcs' = toVcs /\ silent' = IF vfs[p] = w THEN silent ELSE silent \cup {p}
      BY <2>1, <2>5 DEF VfsWritten
    <3>2. numPfs = 1 /\ 0 \notin silent' => 0 \notin silent /\ vfs'[0] = vfs[0] BY <2>1, <2>3, <3>1
    <3>3. \A f, z : numPfs = 1 /\ Sees(f, z) => Sees(f, z)' BY <1>0, <2>2, <3>2 DEF Sees
    <3>4. \A f, k, x, z : numPfs = 1 /\ WritesOf(f, k, x, z) => WritesOf(f, k, x, z)'
      BY <1>0, <2>2, <3>1, <3>3 DEF WritesOf, Known
    <3> QED BY <1>0, <2>2, <3>4 DEF Writes
  <2> QED BY <2>4, <2>5
<1>8. CASE ReadReturns BY <1>2, <1>8 DEF ReadReturns
<1>9. CASE Unplug BY <1>9 DEF Unplug, Writes
<1>10. CASE ExportTopology BY <1>2, <1>10 DEF ExportTopology
<1>11. ASSUME toVcs # <<>>, toVcs' = Tail(toVcs), Head(toVcs).kind # "wr",
              Head(toVcs).kind # "vf" \/ transport # "shm", UNCHANGED enabled \/ transport # "shm",
              UNCHANGED <<cache, regs, wrote, kept, silent, vfs>>, pf' # "gone" => pf # "gone"
       PROVE  Writes'
  <2> SUFFICES ASSUME pf # "gone", numPfs = 1, NEW f \in Functions, transport = "shm" \/ VfOf(f) = 0
               PROVE  \E n \in 0 .. MaxVfs, x, z \in Views : WritesOf(f, n, x, z)'
    BY <1>0, <1>11 DEF Writes
  <2>1. PICK n \in 0 .. MaxVfs, x \in Views, z \in Views : WritesOf(f, n, x, z) BY DEF Writes
  <2>2. PICK m \in Messages : m = Head(toVcs) BY <1>11, ArrivedIs
  <2>3. After(f, m, x) = x BY <1>11, <2>2, AfterIs
  <2>4. Leads(toVcs', Views, x, z, WrSteps(f)) BY <1>11, <2>1, <2>2, <2>3, WritesTake
  <2>5. VfOf(f) > 0 => Known(0)' = Known(0) BY <1>11 DEF Known
  <2>6. Sees(f, z)' BY <1>1, <1>11, <2>1 DEF WritesOf
  <2> QED BY <1>0, <1>11, <2>1, <2>4, <2>5, <2>6 DEF WritesOf
<1>12. CASE AnswerQuery
  <2>1. pf # "gone" BY <1>0, <1>12, KindTail DEF AnswerQuery, Arrived, Order
  <2> QED BY <1>11, <1>12, <2>1 DEF AnswerQuery, Arrived
<1>13. CASE TakeTlp
  <2>1. PICK t \in Tlps : /\ t = Head(toVcs) /\ Handle(t) /\ toVcs # <<>>
                          /\ toVcs' = Tail(toVcs) /\ cache = <<>>
                          /\ UNCHANGED <<pf, cache, wrote, kept, silent, vfs, enabled>>
    BY <1>13, ArrivedIs DEF TakeTlp, Arrived, Waiting
  <2> SUFFICES ASSUME pf # "gone", numPfs = 1, NEW f \in Functions, transport = "shm" \/ VfOf(f) = 0
               PROVE  \E n \in 0 .. MaxVfs, x, z \in Views : WritesOf(f, n, x, z)'
    BY <1>0, <2>1 DEF Writes
  <2>2. PICK n \in 0 .. MaxVfs, x \in Views, z \in Views : WritesOf(f, n, x, z) BY DEF Writes
  <2>3. x = <<n, regs[f]>> BY <2>1, <2>2, WritesFirst
  <2>4. PICK c : c = After(f, t, x) OBVIOUS
  <2>5. c \in Views /\ Leads(toVcs', Views, c, z, WrSteps(f)) BY <2>1, <2>2, <2>4, WritesTake
  <2>6. c = <<n, regs'[f]>> BY <2>1, <2>2, <2>3, <2>4, WriteLands DEF WritesOf
  <2>7. Leads(cache', Views, c, c, WrSteps(f))
    <3>1. PICK V, R : V = Views /\ R = WrSteps(f) OBVIOUS
    <3>2. Leads(<<>>, V, c, c, R) BY <2>5, <3>1, LeadsEmpty
    <3> QED BY <2>1, <3>1, <3>2
  <2>8. Sees(f, z)' BY <1>1, <2>1, <2>2 DEF WritesOf
  <2>9. Known(0)' = Known(0) BY <2>1 DEF Known
  <2> QED BY <1>0, <2>2, <2>5, <2>6, <2>7, <2>8, <2>9 DEF WritesOf
<1>14. CASE TakeVfEvent
  <2>1. PICK m \in VfEvents : /\ m = Head(toVcs) /\ Apply(m) /\ toVcs # <<>>
                              /\ toVcs' = Tail(toVcs) /\ cache = <<>>
                              /\ UNCHANGED <<pf, cache, regs, wrote, kept, silent, vfs>>
    BY <1>14, ArrivedIs DEF TakeVfEvent, Arrived, Waiting
  <2>2. m \in Messages /\ m.kind = "vf" BY <2>1, EventIs
  <2> SUFFICES ASSUME pf # "gone", numPfs = 1, NEW f \in Functions, transport = "shm" \/ VfOf(f) = 0
               PROVE  \E n \in 0 .. MaxVfs, x, z \in Views : WritesOf(f, n, x, z)'
    BY <1>0, <2>1 DEF Writes
  <2>3. PICK n \in 0 .. MaxVfs, x \in Views, z \in Views : WritesOf(f, n, x, z) BY DEF Writes
  <2>4. x = <<n, regs[f]>> BY <2>1, <2>3, WritesFirst
  <2>5. PICK c : c = After(f, m, x) OBVIOUS
  <2>6. c \in Views /\ Leads(toVcs', Views, c, z, WrSteps(f)) BY <2>1, <2>3, <2>5, WritesTake
  <2>7. c[2] = regs'[f] BY <2>1, <2>2, <2>4, <2>5, AfterIs
  <2>8. PICK k \in 0 .. MaxVfs : k = c[1] /\ c = <<k, regs'[f]>> BY <2>6, <2>7 DEF Views
  <2>9. ASSUME VfOf(f) > 0 PROVE Known(0)' = 1 .. k
    <3>1. Known(0) = 1 .. n /\ 0 \in Pfs BY <2>3, <2>9, OnePf DEF WritesOf
    <3>2. k = Counted(0, m, n) BY <2>4, <2>5, <2>8, <2>9 DEF After
    <3>3. transport = "shm" BY <2>9
    <3> QED BY <1>0, <2>1, <3>1, <3>2, <3>3, KnownCounted
  <2>10. Leads(cache', Views, c, c, WrSteps(f))
    <3>1. PICK V, R : V = Views /\ R = WrSteps(f) OBVIOUS
    <3>2. Leads(<<>>, V, c, c, R) BY <2>6, <3>1, LeadsEmpty
    <3> QED BY <2>1, <3>1, <3>2
  <2>11. Sees(f, z)' BY <1>1, <2>1, <2>3 DEF WritesOf
  <2> QED BY <1>0, <2>3, <2>6, <2>8, <2>9, <2>10, <2>11 DEF WritesOf
<1>15. CASE DrainTlp
  <2>1. PICK t \in Messages : /\ t = Head(toVcs) /\ cache' = Append(cache, t) /\ toVcs # <<>>
                              /\ toVcs' = Tail(toVcs)
                              /\ UNCHANGED <<pf, regs, wrote, kept, silent, vfs, enabled>>
    BY <1>15, ArrivedIs DEF DrainTlp, Arrived
  <2> SUFFICES ASSUME pf # "gone", numPfs = 1, NEW f \in Functions, transport = "shm" \/ VfOf(f) = 0
               PROVE  \E n \in 0 .. MaxVfs, x, z \in Views : WritesOf(f, n, x, z)'
    BY <1>0, <2>1 DEF Writes
  <2>2. PICK n \in 0 .. MaxVfs, x \in Views, z \in Views : WritesOf(f, n, x, z) BY DEF Writes
  <2>3. PICK V, R, a, c : /\ V = Views /\ R = WrSteps(f) /\ a = <<n, regs[f]>>
                          /\ c = After(f, t, x)
    OBVIOUS
  <2>4. c \in V /\ Leads(toVcs', V, c, z, R) BY <2>1, <2>2, <2>3, WritesTake
  <2>5. Leads(cache, V, a, x, R) BY <2>2, <2>3 DEF WritesOf
  <2>6. <<t, x, c>> \in R BY <2>3, <2>4, WrStepIs
  <2>7. Leads(Append(cache, t), V, a, c, R) BY <1>0, <2>4, <2>5, <2>6, LeadsAppend
  <2>8. Sees(f, z)' BY <1>1, <2>1, <2>2 DEF WritesOf
  <2>9. Known(0)' = Known(0) BY <2>1 DEF Known
  <2> QED BY <1>0, <2>1, <2>2, <2>3, <2>4, <2>7, <2>8, <2>9 DEF WritesOf
<1>16. CASE DrainVfEvent
  <2>1. PICK m \in VfEvents : m = Head(toVcs) BY <1>16, ArrivedIs DEF DrainVfEvent, Arrived
  <2>2. m.kind = "vf" BY EventIs
  <2> QED BY <1>11, <1>16, <2>1, <2>2 DEF DrainVfEvent, Draining, Arrived
<1>17. CASE PollCached
  <2>1. PICK t \in Tlps : /\ t = Head(cache) /\ Handle(t) /\ cache # <<>> /\ cache' = Tail(cache)
                          /\ UNCHANGED <<pf, toVcs, wrote, kept, silent, vfs, enabled>>
    BY <1>0, <1>17, HeadTailProperties DEF PollCached
  <2> SUFFICES ASSUME pf # "gone", numPfs = 1, NEW f \in Functions, transport = "shm" \/ VfOf(f) = 0
               PROVE  \E n \in 0 .. MaxVfs, x, z \in Views : WritesOf(f, n, x, z)'
    BY <1>0, <2>1 DEF Writes
  <2>2. PICK n \in 0 .. MaxVfs, x \in Views, z \in Views : WritesOf(f, n, x, z) BY DEF Writes
  <2>3. PICK c : c = After(f, t, <<n, regs[f]>>) OBVIOUS
  <2>4. Leads(cache', Views, c, x, WrSteps(f)) BY <2>1, <2>2, <2>3, WritesPoll
  <2>5. c = <<n, regs'[f]>> BY <2>1, <2>2, <2>3, WriteLands DEF WritesOf
  <2>6. Sees(f, z)' BY <1>1, <2>1, <2>2 DEF WritesOf
  <2>7. Known(0)' = Known(0) BY <2>1 DEF Known
  <2> QED BY <1>0, <2>1, <2>2, <2>4, <2>5, <2>6, <2>7 DEF WritesOf
<1>18. CASE PollEmpty BY <1>2, <1>18 DEF PollEmpty
<1>19. CASE Shutdown BY <1>11, <1>19 DEF Shutdown, Arrived
<1>20. CASE UNCHANGED vars BY <1>2, <1>20 DEF vars
<1> QED
  BY <1>4, <1>5, <1>6, <1>7, <1>8, <1>9, <1>10, <1>12, <1>13, <1>14, <1>15, <1>16, <1>17,
     <1>18, <1>19, <1>20, Bounds DEF Next, Guest, Simulator
-----------------------------------------------------------------------------
(* Answers *)

Answers == ConfigReachesFunction /\ ReadsWhatWasWritten

(* The read at the head of the queue, and the one in the cache, are last.  *)
LEMMA LastMessage ==
  ASSUME NEW S, NEW s \in Seq(S), s # <<>>, Tail(s) = <<>>, NEW V, NEW a, NEW b, NEW R,
         Leads(s, V, a, b, R)
  PROVE  b \in V /\ <<Head(s), a, b>> \in R
<1>1. PICK c \in V : <<Head(s), a, c>> \in R /\ Leads(<<>>, V, c, b, R) BY LeadsTail
<1> QED BY <1>1, LeadsEmpty

(* What a read of the only PF or its VFs finds, of the registers and the   *)
(* VFs the guest sees with nothing under way.                              *)
LEMMA ReadFinds ==
  ASSUME Types, Table, numPfs = 1, NEW t \in Tlps, Handle(t), t.kind = "rd",
         t.bdf = QemuBdf(target), Accessible(target),
         UNCHANGED <<transport, numPfs, cpu, target, wrote, kept, silent>>,
         transport = "shm" \/ VfOf(target) = 0 =>
           \E n \in 0 .. MaxVfs : /\ VfOf(target) > 0 => Known(0) = 1 .. n
                                  /\ Sees(target, <<n, regs[target]>>)
  PROVE  Answers'
<1>1. PICK k \in Nat : /\ k = VfOf(target) /\ t.bdf = k /\ target = <<0, k>>
                       /\ PfOf(target) = 0 /\ target \in Functions /\ target # NoFunction
  BY OnePf, Holds DEF Types, TypeOK
<1>2. /\ k = 0 \/ <<0, k>> \in enabled => Lookup(k) = target
      /\ ~(k = 0 \/ <<0, k>> \in enabled) => Lookup(k) = NoFunction
  BY <1>1, LookupOne
<1>3. /\ answer'.by = Lookup(k)
      /\ Lookup(k) # NoFunction => answer'.value = regs[Lookup(k)]
  BY <1>1, HandleTyped
<1>4. transport \in {"shm", "tcp"} BY Bounds DEF Types, TypeOK
<1>5. VfOf(target)' = VfOf(target) /\ PfOf(target)' = PfOf(target) BY DEF VfOf, PfOf
<1>6. ASSUME transport = "shm" \/ k = 0, k > 0 => 0 \notin silent
      PROVE  /\ Lookup(k) = target
             /\ \A l \in kept[target] : regs[target][l] = wrote[target][l]
  <2>1. PICK n \in 0 .. MaxVfs : /\ k > 0 => Known(0) = 1 .. n
                                 /\ Sees(target, <<n, regs[target]>>)
    BY <1>1, <1>6
  <2>2. k > 0 => n = vfs[0] /\ k <= vfs[0] BY <1>1, <1>6, <2>1 DEF Sees, Accessible
  <2>3. k > 0 => k \in 1 .. n BY <2>2
  <2>4. k > 0 => <<0, k>> \in enabled BY <2>1, <2>3 DEF Known
  <2>5. k = 0 \/ k > 0 OBVIOUS
  <2> QED BY <1>2, <2>1, <2>4, <2>5 DEF Sees
<1>7. ConfigReachesFunction'
  <2>1. k = 0 \/ k > 0 OBVIOUS
  <2> QED BY <1>1, <1>2, <1>3, <1>4, <1>5, <1>6, <2>1 DEF ConfigReachesFunction
<1>8. ReadsWhatWasWritten' BY <1>1, <1>3, <1>5, <1>6 DEF ReadsWhatWasWritten
<1> QED BY <1>7, <1>8 DEF Answers

LEMMA NextAnswers ==
  ASSUME Types, Order, Reads, Table, Writes, Answers, [Next]_vars
  PROVE  Answers'
<1> USE DEF setupVars, deviceVars, cpuVars, guestVars, history, tableVars
<1>0. /\ transport' = transport /\ numPfs' = numPfs
      /\ \A f : VfOf(f)' = VfOf(f) /\ PfOf(f)' = PfOf(f)
      /\ toVcs \in Seq(Messages) /\ cache \in Seq(Tlps) /\ target \in Functions
  BY SetupStays DEF Types, TypeOK, VfOf, PfOf
<1>1. ASSUME UNCHANGED <<cpu, target, answer, wrote, kept, silent>> PROVE Answers'
  BY <1>0, <1>1 DEF Answers, ConfigReachesFunction, ReadsWhatWasWritten, Answered
<1>2. ASSUME ~Answered' PROVE Answers'
  BY <1>2 DEF Answers, ConfigReachesFunction, ReadsWhatWasWritten
<1>3. CASE Guest
  <2>1. cpu' = "wait" => ~answer'.known
    <3>1. cpu = "idle" BY <1>3, GuestSends
    <3> QED BY <1>3, <3>1, GuestSends
  <2> QED BY <1>2, <2>1 DEF Answered
<1>4. CASE ReadReturns BY <1>2, <1>4 DEF ReadReturns, Answered
<1>5. CASE TakeTlp
  <2>1. PICK t \in Tlps : /\ t = Head(toVcs) /\ Handle(t) /\ toVcs # <<>> /\ cache = <<>>
                          /\ UNCHANGED <<cpu, target, wrote, kept, silent>>
    BY <1>5, ArrivedIs DEF TakeTlp, Arrived, Waiting
  <2>2. CASE t.kind = "wr" BY <1>1, <2>1, <2>2, HandleTyped
  <2>3. CASE t.kind = "rd"
    <3> SUFFICES ASSUME numPfs = 1, cpu = "wait" PROVE Answers'
      BY <1>0, <2>1 DEF Answers, ConfigReachesFunction, ReadsWhatWasWritten, Answered
    <3>1. t.bdf = QemuBdf(target) /\ Tail(toVcs) = <<>> BY <1>0, <2>1, <2>3, LastTail DEF Reads
    <3>2. pf # "gone" /\ Accessible(target) BY DEF Order
    <3>3. ASSUME transport = "shm" \/ VfOf(target) = 0
          PROVE  \E n \in 0 .. MaxVfs : /\ VfOf(target) > 0 => Known(0) = 1 .. n
                                        /\ Sees(target, <<n, regs[target]>>)
      <4>1. PICK n \in 0 .. MaxVfs, x \in Views, z \in Views : WritesOf(target, n, x, z)
        BY <1>0, <3>2, <3>3 DEF Writes
      <4>2. x = <<n, regs[target]>> BY <1>0, <2>1, <4>1, WritesFirst
      <4>3. PICK V, R : V = Views /\ R = WrSteps(target) OBVIOUS
      <4>4. Leads(toVcs, V, x, z, R) BY <4>1, <4>3 DEF WritesOf
      <4>5. <<t, x, z>> \in R BY <1>0, <2>1, <3>1, <4>4, LastMessage
      <4>6. t \in Messages /\ z = After(target, t, x) BY <4>3, <4>5, WrStepIs
      <4>7. z = x BY <2>3, <4>6, AfterIs
      <4> QED BY <4>1, <4>2, <4>7 DEF WritesOf
    <3> QED BY <1>0, <2>1, <2>3, <3>1, <3>2, <3>3, ReadFinds
  <2> QED BY <2>2, <2>3, TlpIs
<1>6. CASE PollCached
  <2>1. PICK t \in Tlps : /\ t = Head(cache) /\ Handle(t) /\ cache # <<>>
                          /\ UNCHANGED <<cpu, target, wrote, kept, silent>>
    BY <1>0, <1>6, HeadTailProperties DEF PollCached
  <2>2. CASE t.kind = "wr" BY <1>1, <2>1, <2>2, HandleTyped
  <2>3. CASE t.kind = "rd"
    <3> SUFFICES ASSUME numPfs = 1, cpu = "wait" PROVE Answers'
      BY <1>0, <2>1 DEF Answers, ConfigReachesFunction, ReadsWhatWasWritten, Answered
    <3>1. t.bdf = QemuBdf(target) /\ Tail(cache) = <<>> BY <1>0, <2>1, <2>3, LastTail DEF Reads
    <3>2. toVcs = <<>> BY <1>0, <2>1, <2>3, KindTail DEF Reads
    <3>3. pf # "gone" /\ Accessible(target) BY DEF Order
    <3>4. ASSUME transport = "shm" \/ VfOf(target) = 0
          PROVE  \E n \in 0 .. MaxVfs : /\ VfOf(target) > 0 => Known(0) = 1 .. n
                                        /\ Sees(target, <<n, regs[target]>>)
      <4>1. PICK n \in 0 .. MaxVfs, x \in Views, z \in Views : WritesOf(target, n, x, z)
        BY <1>0, <3>3, <3>4 DEF Writes
      <4>2. PICK V, R, a : V = Views /\ R = WrSteps(target) /\ a = <<n, regs[target]>> OBVIOUS
      <4>3. Leads(<<>>, V, x, z, R) BY <3>2, <4>1, <4>2 DEF WritesOf
      <4>4. z = x BY <4>2, <4>3, LeadsEmpty
      <4>5. Leads(cache, V, a, x, R) BY <4>1, <4>2 DEF WritesOf
      <4>6. <<t, a, x>> \in R BY <1>0, <2>1, <3>1, <4>5, LastMessage
      <4>7. t \in Messages /\ a \in Views /\ x = After(target, t, a) BY <4>2, <4>6, WrStepIs
      <4>8. x = a BY <2>3, <4>7, AfterIs
      <4> QED BY <4>1, <4>2, <4>4, <4>8 DEF WritesOf
    <3> QED BY <1>0, <2>1, <2>3, <3>1, <3>3, <3>4, ReadFinds
  <2> QED BY <2>2, <2>3, TlpIs
<1> QED
  BY <1>1, <1>3, <1>4, <1>5, <1>6
  DEF Next, vars, RealizeQuery, Unplug, Simulator, ExportTopology, AnswerQuery, TakeVfEvent,
      DrainTlp, DrainVfEvent, PollEmpty, Shutdown
-----------------------------------------------------------------------------
(* The theorems *)

FnInv == Types /\ Order /\ Reads /\ Table /\ Vfs /\ Writes /\ Answers

LEMMA FnInit == Init => FnInv
<1> SUFFICES ASSUME Init PROVE FnInv OBVIOUS
<1> USE DEF Init
<1>1. /\ transport \in Transports /\ numPfs \in PfCounts /\ numPfs \in Nat \ {0}
      /\ Pfs \subseteq Nat /\ 0 \in Pfs /\ 0 \in 0 .. MaxVfs
  BY Bounds DEF Pfs
<1>2. /\ \A p \in Pfs : <<p, 0>> \in Functions /\ VcsBdf(<<p, 0>>) = p
      /\ <<0, 0>> \in Functions
  BY <1>1, FunctionIs DEF VcsBdf
<1>3. /\ NoAnswer \in [by : Functions \cup {NoFunction}, known : BOOLEAN, value : Contents]
      /\ ~NoAnswer.known /\ Both(0) \in Contents
  BY ContentsIs DEF NoAnswer
<1>4. TypeOK
  <2>1. toVcs \in Seq(Messages) /\ cache \in Seq(Messages) OBVIOUS
  <2>2. /\ DOMAIN lut \subseteq Nat
        /\ \A b \in DOMAIN lut : lut[b] \in Functions /\ VcsBdf(lut[b]) = b
    BY <1>1, <1>2
  <2> QED BY <1>1, <1>2, <1>3, <2>1, <2>2, Bounds DEF TypeOK
<1>5. Types BY <1>4 DEF Types
<1>6. Order BY KindEmpty DEF Order
<1>7. Reads BY KindEmpty DEF Reads
<1>8. Table BY <1>5, OnePf DEF Table
<1>9. 1 .. 0 = {} /\ \A p : Known(p) = {} BY DEF Known
<1>10. Vfs
  <2>1. ASSUME NEW p \in Pfs PROVE VfsOf(p, 0, 0)
    <3>1. PICK R : R = VfSteps(p) OBVIOUS
    <3>2. Leads(<<>>, 0 .. MaxVfs, 0, 0, R) BY <1>1, LeadsEmpty
    <3>3. Leads(toVcs, 0 .. MaxVfs, 0, 0, VfSteps(p)) BY <3>1, <3>2
    <3> QED BY <1>9, <3>3 DEF VfsOf
  <2> QED BY <1>1, <2>1 DEF Vfs
<1>11. Writes
  <2>1. PICK x : x = <<0, Both(0)>> OBVIOUS
  <2>2. x \in Views BY <1>1, <1>3, <2>1 DEF Views
  <2>3. ASSUME NEW f \in Functions, numPfs = 1 PROVE WritesOf(f, 0, x, x)
    <3>1. PICK V, R : V = Views /\ R = WrSteps(f) OBVIOUS
    <3>2. Leads(<<>>, V, x, x, R) BY <2>2, <3>1, LeadsEmpty
    <3>3. Sees(f, x) BY <1>1, <2>1 DEF Sees
    <3> QED BY <1>9, <2>1, <3>1, <3>2, <3>3 DEF WritesOf
  <2> QED BY <1>1, <2>2, <2>3 DEF Writes
<1>12. Answers BY <1>3 DEF Answers, ConfigReachesFunction, ReadsWhatWasWritten, Answered
<1> QED BY <1>5, <1>6, <1>7, <1>8, <1>10, <1>11, <1>12 DEF FnInv

(* What is on its way between the guest and the simulator accounts for     *)
(* every difference between them: applied in order to bdf_lut and the      *)
(* registers, the messages make the VFs those of QEMU, unless some changed *)
(* without an event, and each register what the guest last wrote, in the   *)
(* bytes handle_cfg_write_bdf leaves at their place.                       *)
THEOREM FnCorrect == Spec => []FnInv
<1>1. FnInv /\ [Next]_vars => FnInv'
  BY NextTypes, NextOrder, NextReads, NextTable, NextVfs, NextWrites, NextAnswers DEF FnInv
<1> QED BY <1>1, FnInit, PTL DEF Spec

(* The tables, queues and registers of the functions keep their types.  In *)
(* particular every entry of bdf_lut is a function whose BDF, as           *)
(* get_vf_rid computes it, is the key, for any number of PFs.              *)
THEOREM FnTypes == Spec => []TypeOK
<1>1. FnInv => TypeOK BY DEF FnInv, Types
<1> QED BY <1>1, FnCorrect, PTL

(* With one PF, the function that answers cosim_pf_config_read or          *)
(* cosim_vf_config_read is the one addressed or, for a VF over TCP or one  *)
(* whose creation made no event, nobody.                                   *)
THEOREM ReadsReach == Spec => []ConfigReachesFunction
<1>1. FnInv => ConfigReachesFunction BY DEF FnInv, Answers
<1> QED BY <1>1, FnCorrect, PTL

(* With one PF, a configuration read returns what was last written, in the *)
(* bytes that the message carried at their place, though writes are posted *)
(* and VF events travel between them.                                      *)
THEOREM ReadsLastWrite == Spec => []ReadsWhatWasWritten
<1>1. FnInv => ReadsWhatWasWritten BY DEF FnInv, Answers
<1> QED BY <1>1, FnCorrect, PTL

(* Once every message is handled the simulator's function manager has the  *)
(* VFs the guest enabled: exactly those over shared memory, for any number *)
(* of PFs, and at least those over TCP with one PF.  PFs whose VFs changed *)
(* without an event are excepted.                                          *)
THEOREM VfsKnown == Spec => []VfsAgree
<1>1. FnInv => VfsAgree
  <2> SUFFICES ASSUME FnInv, pf = "live", toVcs = <<>>, vfEvent = NoEvent,
                      NEW f \in Functions, VfOf(f) > 0, PfOf(f) \notin silent
               PROVE  /\ transport = "shm" => (f \in enabled <=> VfOf(f) <= vfs[PfOf(f)])
                      /\ numPfs = 1 /\ VfOf(f) <= vfs[PfOf(f)] => f \in enabled
    BY DEF VfsAgree
  <2>1. Types /\ vfs \in [Pfs -> 0 .. MaxVfs] BY DEF FnInv, Types, TypeOK
  <2>2. PICK p \in Pfs : p = PfOf(f) BY FunctionIs
  <2>3. VfOf(f) \in 0 .. MaxVfs /\ f = <<p, VfOf(f)>> BY <2>2, FunctionIs
  <2>4. f \in enabled <=> VfOf(f) \in Known(p) BY <2>3 DEF Known
  <2>5. VfOf(f) <= vfs[p] <=> VfOf(f) \in 1 .. vfs[p] BY <2>1, <2>3, Bounds
  <2>6. ASSUME transport = "shm" \/ numPfs = 1
        PROVE  1 .. vfs[p] \subseteq Known(p) /\ (transport = "shm" => Known(p) = 1 .. vfs[p])
    <3>1. PICK a \in 0 .. MaxVfs, z \in 0 .. MaxVfs : VfsOf(p, a, z) BY <2>6 DEF FnInv, Vfs
    <3>2. PICK R : R = VfSteps(p) OBVIOUS
    <3>3. Leads(<<>>, 0 .. MaxVfs, a, z, R) BY <3>1, <3>2 DEF VfsOf
    <3>4. a = z BY <3>3, LeadsEmpty
    <3> QED BY <2>2, <3>1, <3>4 DEF VfsOf
  <2> QED BY <2>2, <2>4, <2>5, <2>6
<1> QED BY <1>1, FnCorrect, PTL
=============================================================================
