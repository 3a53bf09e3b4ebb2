---------------------------- MODULE PciFunctions ----------------------------
(***************************************************************************)
(* The physical and virtual functions of the multi-function device.  QEMU  *)
(* (cosim_pcie_pf.c, cosim_pcie_vf.c) learns the topology from the         *)
(* simulator, creates a device per PF, lets the guest switch VFs on and    *)
(* off and sends configuration accesses with a target BDF; the simulator   *)
(* (pcie_tl_func_manager, pcie_tl_config_proxy, cosim_rc_driver) keeps its *)
(* own table of functions, told by VF events which VFs exist.              *)
(*                                                                         *)
(* Function <<p, 0>> is PF p and <<p, k>> its k-th VF.  BDFs are counted   *)
(* from PF 0's.  Of its configuration space there is one register that may *)
(* be written, in two halves.  Between the two programs lies the bridge,   *)
(* reduced to what it does to the order of messages: see BridgeShm and     *)
(* BridgeTcp.                                                              *)
(***************************************************************************)
EXTENDS Naturals, Sequences

CONSTANTS
  Transports, \* "shm", "tcp": the transports to consider
  PfCounts,   \* the values of NUM_PFS to consider
  MaxVfs,     \* VFs per PF (MAX_VFS)
  Values,     \* what the guest writes to half a register
  Ones,       \* all ones, which nobody writes
  MaxOps      \* bound on the guest's operations, two fewer for each further PF

ASSUME FunctionsAssumption ==
  /\ Transports \subseteq {"shm", "tcp"}
  /\ PfCounts \subseteq Nat \ {0}
  /\ MaxVfs \in Nat /\ MaxOps \in Nat
  /\ Values \subseteq Nat \ {0} /\ Ones \in Nat \ Values

VARIABLES
  transport,
  numPfs,    \* the simulator's num_pfs
  topo,      \* g_cosim_shared.num_pfs, 0 until the topology is known
  pf,        \* the PF devices: absent, query, live, gone
  vfs,       \* exp.sriov_pf.num_vfs of each PF
  cpu,       \* vCPU: idle, or waiting for a configuration read
  target,    \* the function read
  answer,    \* the completion: who answered, and with what
  ops,       \* operations of the guest so far
  wrote,     \* each register as the guest has written it,
  kept,      \* the halves that should reach the function so, and
  silent,    \* the PFs whose VFs changed without an event
  toVcs,     \* messages to the simulator, TLPs among them
  sim,       \* init, poll, drain, gone
  cache,     \* TLP cache
  vfEvent,   \* vf_event and vf_event_pending
  lut,       \* bdf_lut
  enabled,   \* VFs with enabled = 1
  regs       \* configuration space of each function: one register

setupVars == <<transport, numPfs>>
deviceVars == <<topo, pf, vfs>>
cpuVars == <<cpu, target, answer>>
history == <<wrote, kept, silent>>
guestVars == <<ops, history>>
tableVars == <<lut, enabled>>
vars == <<setupVars, deviceVars, cpuVars, guestVars, toVcs, sim, cache, vfEvent,
          tableVars, regs>>

Pfs == 0 .. numPfs - 1
PfOf(f) == f[1]
VfOf(f) == f[2]
Functions == Pfs \X (0 .. MaxVfs)
NoFunction == <<>>
(* A register is two bytes: the guest may write both or either one. *)
Lanes == {0, 1}
Contents == [Lanes -> Values \cup {0, Ones}]
Both(v) == [l \in Lanes |-> v]
Data == UNION {[covered -> Values] : covered \in (SUBSET Lanes) \ {{}}}

NoAnswer == [by |-> NoFunction, value |-> Both(0), known |-> FALSE]
NoEvent == [kind |-> "none"]

QemuBdfSamePf(f) == \* mutant: the offset is forgotten
  PfOf(f) + (IF topo > 1 THEN topo ELSE 1) * (VfOf(f) - 1)
(* cosim_vf_config_read: PF BDF + offset + index * stride, both npfs.      *)
QemuBdf(f) == PfOf(f) + (IF topo > 1 THEN topo ELSE 1) * VfOf(f)

(* get_vf_rid: first_vf_offset and vf_stride are 1 and nobody sets them.   *)
VcsBdf(f) == PfOf(f) + VfOf(f)

(* func_manager.build: PFs are in the table, VFs are built but disabled.   *)
Init ==
  /\ transport \in Transports /\ numPfs \in PfCounts
  /\ topo = 0 /\ pf = "absent" /\ vfs = [p \in Pfs |-> 0]
  /\ cpu = "idle" /\ target = <<0, 0>> /\ answer = NoAnswer
  /\ ops = 0 /\ wrote = [f \in Functions |-> Both(0)]
  /\ kept = [f \in Functions |-> Lanes] /\ silent = {}
  /\ toVcs = <<>> /\ sim = "init" /\ cache = <<>> /\ vfEvent = NoEvent
  /\ lut = [p \in Pfs |-> <<p, 0>>] /\ enabled = {}
  /\ regs = [f \in Functions |-> Both(0)]
-----------------------------------------------------------------------------
(* QEMU *)

(* PF0's realize has connected the bridge and asks for the topology.       *)
RealizeQuery ==
  /\ pf = "absent" /\ pf' = "query"
  /\ toVcs' = Append(toVcs, [kind |-> "query"])
  /\ UNCHANGED <<setupVars, topo, vfs, cpuVars, guestVars, sim, cache, vfEvent,
                 tableVars, regs>>

Operation ==
  /\ pf = "live" /\ cpu = "idle"
  /\ ops + 2 * numPfs <= MaxOps + 1 /\ ops' = ops + 1
Accessible(f) == VfOf(f) <= vfs[PfOf(f)]

(* cosim_pf_config_read, cosim_vf_config_read: a CfgRd with the function's *)
(* BDF; the vCPU waits.                                                    *)
ConfigRead(f) ==
  /\ Operation /\ Accessible(f)
  /\ cpu' = "wait" /\ target' = f /\ answer' = NoAnswer
  /\ toVcs' = Append(toVcs, [kind |-> "rd", bdf |-> QemuBdf(f)])
  /\ UNCHANGED <<setupVars, deviceVars, history, sim, cache, vfEvent, tableVars, regs>>

ReadReturns ==
  /\ cpu = "wait" /\ answer.known
  /\ cpu' = "idle" /\ target' = <<0, 0>> /\ answer' = NoAnswer
  /\ UNCHANGED <<setupVars, deviceVars, guestVars, toVcs, sim, cache, vfEvent,
                 tableVars, regs>>

(* What a CfgWr carries: the bytes written, from the first byte on, and    *)
(* zeros after them.                                                       *)
Packed(d) == IF 0 \in DOMAIN d THEN [l \in Lanes |-> IF l \in DOMAIN d THEN d[l] ELSE 0]
             ELSE [l \in Lanes |-> IF l = 0 THEN d[1] ELSE 0]

(* The halves it carries at their place; none if the function may be one   *)
(* the simulator was not told of.                                          *)
InPlace(f, d) ==
  IF VfOf(f) > 0 /\ PfOf(f) \in silent THEN {} ELSE {l \in DOMAIN d : Packed(d)[l] = d[l]}

Wrote(f, d) ==
  /\ wrote' = [wrote EXCEPT ![f] = [l \in Lanes |-> IF l \in DOMAIN d THEN d[l] ELSE @[l]]]
  /\ kept' = [kept EXCEPT ![f] = InPlace(f, d)]
  /\ UNCHANGED silent

ConfigWriteToPf(f, d) == \* mutant: a VF's write carries the BDF of its PF
  /\ Operation /\ Accessible(f) /\ Wrote(f, d)
  /\ toVcs' = Append(toVcs, [kind |-> "wr", bdf |-> QemuBdf(<<PfOf(f), 0>>), value |-> Packed(d)])
  /\ UNCHANGED <<setupVars, deviceVars, cpuVars, sim, cache, vfEvent, tableVars, regs>>

(* cosim_pf_config_write, cosim_vf_config_write: nobody waits.             *)
ConfigWrite(f, d) ==
  /\ Operation /\ Accessible(f) /\ Wrote(f, d)
  /\ toVcs' = Append(toVcs, [kind |-> "wr", bdf |-> QemuBdf(f), value |-> Packed(d)])
  /\ UNCHANGED <<setupVars, deviceVars, cpuVars, sim, cache, vfEvent, tableVars, regs>>

VfMessage(p, n) == [kind |-> "vf", pf |-> p, count |-> n]

(* A write that covers SR-IOV Control leaves PF p with n VFs.  Only one at *)
(* the register's own address and of its length makes an event, which is a *)
(* DISABLE when there are none.  SR-IOV registers are never sent.          *)
VfsWritten(p, n, exact) ==
  /\ Operation
  /\ vfs' = [vfs EXCEPT ![p] = n]
  /\ IF exact
     THEN /\ toVcs' = Append(toVcs, VfMessage(p, n))
          /\ silent' = IF n = 0 THEN silent \ {p} ELSE silent
     ELSE /\ silent' = IF vfs[p] = n THEN silent ELSE silent \cup {p}
          /\ UNCHANGED toVcs
  /\ UNCHANGED <<setupVars, topo, pf, cpuVars, wrote, kept, sim, cache, vfEvent,
                 tableVars, regs>>

(* VF Enable is set, NumVFs being n: QEMU's framework creates the VFs      *)
(* unless there are some.                                                  *)
WriteVfEnable(p, n, exact) == VfsWritten(p, IF vfs[p] = 0 THEN n ELSE vfs[p], exact)

ClearVfEnable(p, exact) == VfsWritten(p, 0, exact)

UnplugKeepsVfs == \* mutant: pcie_sriov_pf_exit is forgotten
  /\ pf = "live" /\ cpu = "idle" /\ pf' = "gone"
  /\ toVcs' = Append(toVcs, [kind |-> "shutdown"])
  /\ UNCHANGED <<setupVars, topo, vfs, cpuVars, guestVars, sim, cache, vfEvent,
                 tableVars, regs>>

(* cosim_pcie_pf_exit of all functions of the slot: bridge_destroy says    *)
(* SHUTDOWN, the VFs go without an event.                                  *)
Unplug ==
  /\ pf = "live" /\ cpu = "idle" /\ pf' = "gone"
  /\ vfs' = [p \in Pfs |-> 0]
  /\ toVcs' = Append(toVcs, [kind |-> "shutdown"])
  /\ UNCHANGED <<setupVars, topo, cpuVars, guestVars, sim, cache, vfEvent, tableVars, regs>>
-----------------------------------------------------------------------------
(* The simulator *)

(* cosim_test: the bridge is up, the topology exported, polling starts.    *)
ExportTopology ==
  /\ sim = "init" /\ sim' = "poll"
  /\ UNCHANGED <<setupVars, deviceVars, cpuVars, guestVars, toVcs, cache, vfEvent,
                 tableVars, regs>>

Lookup(bdf) == IF bdf \in DOMAIN lut THEN lut[bdf] ELSE NoFunction

(* enable_vfs: marks the VFs and enters them, whatever is at their BDF.    *)
EnableVfs(p, n) ==
  LET added == {<<p, k>> : k \in 1 .. IF n > MaxVfs THEN MaxVfs ELSE n}
      taken == {VcsBdf(f) : f \in added} IN
    /\ enabled' = enabled \cup added
    /\ lut' = [b \in DOMAIN lut \cup taken |-> IF b \in taken THEN <<p, b - p>> ELSE lut[b]]

DisableVfsKeepsOne(p) == \* mutant: the loop starts at the second VF
  LET gone == {f \in enabled : PfOf(f) = p /\ VfOf(f) > 1} IN
    /\ enabled' = enabled \ gone
    /\ lut' = [b \in DOMAIN lut \ {VcsBdf(f) : f \in gone} |-> lut[b]]

(* disable_vfs deletes the BDF of every enabled VF of the PF.              *)
DisableVfs(p) ==
  LET gone == {f \in enabled : PfOf(f) = p} IN
    /\ enabled' = enabled \ gone
    /\ lut' = [b \in DOMAIN lut \ {VcsBdf(f) : f \in gone} |-> lut[b]]

(* cosim_rc_driver, after a poll that returned no TLP. *)
Apply(e) ==
  IF e.kind = "none" THEN UNCHANGED tableVars
  ELSE IF e.count > 0 THEN EnableVfs(e.pf, e.count) ELSE DisableVfs(e.pf)

HandleKnown(t) == \* mutant: an access to an unknown BDF is ignored
  LET f == Lookup(t.bdf) IN
    IF f = NoFunction THEN UNCHANGED <<answer, regs>>
    ELSE IF t.kind = "rd"
    THEN /\ answer' = [by |-> f, known |-> TRUE, value |-> regs[f]]
         /\ UNCHANGED regs
    ELSE /\ regs' = [regs EXCEPT ![f] = t.value]
         /\ UNCHANGED answer

(* handle_cfg_read_bdf, handle_cfg_write_bdf: all ones are read from, and  *)
(* nothing is written to, a BDF that is not in the table.  A write sets    *)
(* all bytes of the register from the message's first on: the offset and   *)
(* the length that come with it are not used.                              *)
Handle(t) ==
  LET f == Lookup(t.bdf) IN
    IF t.kind = "rd"
    THEN /\ answer' = [by |-> f, known |-> TRUE,
                       value |-> IF f = NoFunction THEN Both(Ones) ELSE regs[f]]
         /\ UNCHANGED regs
    ELSE /\ regs' = IF f = NoFunction THEN regs ELSE [regs EXCEPT ![f] = t.value]
         /\ UNCHANGED answer

Arrived(kinds) == toVcs # <<>> /\ Head(toVcs).kind \in kinds
Waiting == sim = "poll" /\ cache = <<>>
Draining == transport = "tcp" /\ (Waiting \/ sim = "drain")

(* handle_topology_query: the answer lets PF0's realize create PF1..N.     *)
AnswerQuery ==
  /\ Waiting \/ Draining
  /\ Arrived({"query"}) /\ toVcs' = Tail(toVcs)
  /\ topo' = numPfs /\ pf' = "live"
  /\ UNCHANGED <<setupVars, vfs, cpuVars, guestVars, sim, cache, vfEvent, tableVars, regs>>

(* A poll that waits (over shared memory, every poll) takes one message.   *)
TakeTlp ==
  /\ Waiting /\ Arrived({"rd", "wr"})
  /\ toVcs' = Tail(toVcs) /\ Handle(Head(toVcs))
  /\ UNCHANGED <<setupVars, deviceVars, cpu, target, guestVars, sim, cache, vfEvent, tableVars>>

TakeVfEvent ==
  /\ Waiting /\ Arrived({"vf"})
  /\ toVcs' = Tail(toVcs) /\ Apply(Head(toVcs)) /\ vfEvent' = NoEvent
  /\ UNCHANGED <<setupVars, deviceVars, cpuVars, guestVars, sim, cache, regs>>

(* Over TCP a poll first takes whatever has arrived: TLPs into the cache,  *)
(* the last VF event into its one slot.                                    *)
DrainTlp ==
  /\ Draining /\ Arrived({"rd", "wr"})
  /\ sim' = "drain" /\ toVcs' = Tail(toVcs) /\ cache' = Append(cache, Head(toVcs))
  /\ UNCHANGED <<setupVars, deviceVars, cpuVars, guestVars, vfEvent, tableVars, regs>>

DrainVfEvent ==
  /\ Draining /\ Arrived({"vf"})
  /\ sim' = "drain" /\ toVcs' = Tail(toVcs) /\ vfEvent' = Head(toVcs)
  /\ UNCHANGED <<setupVars, deviceVars, cpuVars, guestVars, cache, tableVars, regs>>

(* ... and returns a cached TLP, also when the drain was an earlier poll's. *)
PollCached ==
  /\ cache # <<>> /\ (sim = "poll" \/ (sim = "drain" /\ toVcs = <<>>))
  /\ sim' = "poll" /\ Handle(Head(cache)) /\ cache' = Tail(cache)
  /\ UNCHANGED <<setupVars, deviceVars, cpu, target, guestVars, toVcs, vfEvent, tableVars>>

(* Nothing arrived while it waited. *)
PollEmpty ==
  /\ transport = "tcp" /\ cache = <<>> /\ toVcs = <<>>
  /\ sim = "drain" \/ (sim = "poll" /\ vfEvent # NoEvent)
  /\ sim' = "poll" /\ Apply(vfEvent) /\ vfEvent' = NoEvent
  /\ UNCHANGED <<setupVars, deviceVars, cpuVars, guestVars, toVcs, cache, regs>>

Shutdown ==
  /\ Waiting \/ Draining
  /\ Arrived({"shutdown"}) /\ toVcs' = Tail(toVcs) /\ sim' = "gone"
  /\ UNCHANGED <<setupVars, deviceVars, cpuVars, guestVars, cache, vfEvent, tableVars, regs>>
-----------------------------------------------------------------------------
Guest ==
  \/ \E f \in Functions : ConfigRead(f)
  \/ \E f \in Functions, d \in Data : ConfigWrite(f, d)
  \/ \E p \in Pfs, n \in 0 .. MaxVfs, exact \in BOOLEAN : WriteVfEnable(p, n, exact)
  \/ \E p \in Pfs, exact \in BOOLEAN : ClearVfEnable(p, exact)

Simulator ==
  \/ ExportTopology \/ AnswerQuery \/ TakeTlp \/ TakeVfEvent
  \/ DrainTlp \/ DrainVfEvent \/ PollCached \/ PollEmpty \/ Shutdown

Next == RealizeQuery \/ Guest \/ ReadReturns \/ Unplug \/ Simulator

Spec == Init /\ [][Next]_vars
FairSpec == Spec /\ WF_vars(RealizeQuery) /\ WF_vars(ReadReturns) /\ WF_vars(Simulator)
-----------------------------------------------------------------------------
Messages ==
  [kind : {"query", "shutdown"}] \cup [kind : {"rd"}, bdf : Nat]
    \cup [kind : {"wr"}, bdf : Nat, value : Contents]
    \cup [kind : {"vf"}, pf : Pfs, count : 0 .. MaxVfs]

(* Types of the variables. *)
TypeOK ==
  /\ transport \in Transports /\ numPfs \in PfCounts /\ topo \in {0, numPfs}
  /\ pf \in {"absent", "query", "live", "gone"}
  /\ vfs \in [Pfs -> 0 .. MaxVfs] /\ \A p \in Pfs : vfs[p] > 0 => pf = "live"
  /\ cpu \in {"idle", "wait"} /\ target \in Functions
  /\ answer \in [by : Functions \cup {NoFunction}, known : BOOLEAN, value : Contents]
  /\ ops \in 0 .. MaxOps
  /\ {wrote, regs} \subseteq [Functions -> Contents]
  /\ kept \in [Functions -> SUBSET Lanes] /\ silent \subseteq Pfs
  /\ toVcs \in Seq(Messages) /\ cache \in Seq(Messages)
  /\ sim \in {"init", "poll", "drain", "gone"}
  /\ vfEvent \in Messages \cup {NoEvent}
  /\ DOMAIN lut \subseteq Nat /\ \A b \in DOMAIN lut : lut[b] \in Functions /\ VcsBdf(lut[b]) = b
  /\ enabled \subseteq {f \in Functions : VfOf(f) > 0}

Answered == cpu = "wait" /\ answer.known

(* A configuration read is answered by the function the guest addressed.   *)
(* With one PF the BDF computed by QEMU is the one the function manager    *)
(* gave the function, the PF is never displaced from the table, and VFs    *)
(* are in it by the time they are read.  Two exceptions find nothing: over *)
(* TCP the event may still be behind the read, and VFs that a control      *)
(* write of another length created have none.                              *)
ConfigReachesFunction ==
  numPfs = 1 /\ Answered =>
    \/ answer.by = target
    \/ /\ transport = "tcp" \/ PfOf(target) \in silent
       /\ VfOf(target) > 0 /\ answer.by = NoFunction

(* The same for every number of PFs, the VFs of which were announced: see  *)
(* the run that refutes it.                                                *)
ConfigReachesEveryFunction == Answered /\ PfOf(target) \notin silent => answer.by = target

(* What the guest reads is what it last wrote to that function, though     *)
(* nobody waits for writes and the VF may have been off in between.  This  *)
(* holds for the bytes the last write carried at their place: after a      *)
(* write of part of the register the function has zeros, or the written    *)
(* bytes, in place of others.                                              *)
ReadsWhatWasWritten ==
  numPfs = 1 /\ Answered /\ (transport = "shm" \/ VfOf(target) = 0)
  /\ (VfOf(target) > 0 => PfOf(target) \notin silent) =>
    \A l \in kept[target] : answer.value[l] = wrote[target][l]

(* When the simulator has seen everything it knows every VF the guest has, *)
(* and over shared memory no other.  (Over TCP one slot holds the last of  *)
(* several events: a DISABLE can be lost behind an ENABLE of fewer VFs,    *)
(* and with several PFs the event of another PF.)  A PF whose VFs changed  *)
(* without an event is excepted until an event says that it has none.      *)
VfsAgree ==
  pf = "live" /\ toVcs = <<>> /\ cache = <<>> /\ vfEvent = NoEvent =>
    \A f \in Functions : VfOf(f) > 0 /\ PfOf(f) \notin silent =>
      /\ transport = "shm" => (f \in enabled <=> VfOf(f) <= vfs[PfOf(f)])
      /\ numPfs = 1 /\ VfOf(f) <= vfs[PfOf(f)] => f \in enabled

(* Every configuration read ends, also one of a BDF nobody has.            *)
ConfigReadsReturn == cpu = "wait" ~> cpu = "idle"
=============================================================================
