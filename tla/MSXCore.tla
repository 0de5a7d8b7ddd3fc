-------------------------------- MODULE MSXCore --------------------------------
(***************************************************************************)
(* The core of the emulator (spec sections 2 and 5): the Scheduler and the *)
(* AddressSpace driven by one thread.  Between runUntil calls the CPU      *)
(* reads and writes memory, writes the slot-select registers, and its      *)
(* device accesses schedule or cancel events; the machine configuration   *)
(* installs, removes and expands slots.  Inside runUntil the fired         *)
(* callbacks may register further events and switch banks (slot and       *)
(* subslot selection), which changes the mapping the CPU sees next.        *)
(***************************************************************************)
EXTENDS Naturals, Sequences

CONSTANTS
    Primaries, Subslots, Pages, RamDevices, PlainDevices, Values, NoDevice, MaxBound,
    Tokens, MaxTime, MaxSeq

VARIABLES
    expanded, binding, primarySel, subSel, mem, lastRead, lastError, flat, cpuLine, cpuWLine,
    now, pending, target, nextSeq, cancelled

AS    == INSTANCE AddressSpace
Sched == INSTANCE Scheduler
SM    == INSTANCE SlotMap

asVars    == <<expanded, binding, primarySel, subSel, mem, lastRead, lastError, flat, cpuLine, cpuWLine>>
schedVars == <<now, pending, target, nextSeq, cancelled>>
vars      == <<asVars, schedVars>>

Init == AS!Init /\ Sched!Init

Idle == target = Sched!NoRun   \* the CPU runs, no runUntil in progress

\* The CPU's accesses and the configuration layer, between runs.
CpuStep ==
    /\ Idle
    /\ \/ \E g \in Pages : AS!CpuRead(g)
       \/ \E g \in Pages, v \in Values : AS!CpuWrite(g, v)
       \/ \E g \in Pages, p \in Primaries : AS!SelectPrimary(g, p)
       \/ \E p \in Primaries, s \in Subslots : AS!SelectSubslot(p, s)
       \/ AS!Reconfigure(SM!Configure)
    /\ UNCHANGED schedVars

\* A device accessed by the CPU registers or cancels an event.
DeviceSchedules ==
    /\ Idle
    /\ \/ \E t \in Sched!Times, tok \in Tokens : Sched!ScheduleAt(t, tok)
       \/ \E tok \in Tokens : Sched!Cancel(tok)
    /\ UNCHANGED asVars

Run ==
    \/ \E t \in Sched!Times : Sched!RunUntil(t) /\ UNCHANGED asVars
    \/ Sched!EndRun /\ UNCHANGED asVars

(* A callback fires: it may register an event and may switch a bank.      *)
FireCallback ==
    /\ \E cb \in Sched!Callbacks : Sched!Fire(cb)
    /\ \/ UNCHANGED asVars
       \/ \E p \in Primaries, s \in Subslots : AS!SelectSubslot(p, s)
       \/ \E g \in Pages, p \in Primaries : AS!SelectPrimary(g, p)

Next == CpuStep \/ DeviceSchedules \/ Run \/ FireCallback

Spec == Init /\ [][Next]_vars

-----------------------------------------------------------------------------
TypeOK ==
    /\ AS!TypeOK
    /\ now \in Sched!Times
    /\ pending \in Seq(Sched!Event)
    /\ target \in Sched!Times \cup {Sched!NoRun}
    /\ nextSeq \in 0..MaxSeq
    /\ cancelled \subseteq Tokens

(* No time travel: every pending event lies at or after the current time, *)
(* whoever registered it (CPU-side devices or callbacks during a run) and *)
(* however far runUntil has advanced the clock since.                     *)
NoTimeTravel == \A k \in DOMAIN pending : pending[k].time >= now

Precedes(a, b) == a.time < b.time \/ (a.time = b.time /\ a.seq < b.seq)

(* Scheduler ordering: an event fires only when due (not after the target *)
(* of the runUntil firing it), and before every event left pending or     *)
(* registered by its callback: earlier time first, registration order     *)
(* among equal times.                                                     *)
EventsFireInOrder ==
    [][\A k \in DOMAIN pending :
          /\ target # Sched!NoRun
          /\ pending[k].seq \notin {pending'[j].seq : j \in DOMAIN pending'}
          => /\ pending[k].time <= target
             /\ \A j \in DOMAIN pending' : Precedes(pending[k], pending'[j])]_vars

(* cancel before firing means the callback never runs: no pending event   *)
(* carries a token cancelled since it was last scheduled.                 *)
CancelledNeverFires == \A k \in DOMAIN pending : pending[k].token \notin cancelled

(* Resolution through the flat array and the CPU's cache lines returns    *)
(* what walking the slot hierarchy returns, whatever the bank switches of *)
(* callbacks and the CPU: the address space implements SlotMap.           *)
AddressSpaceRefinesSlotMap == SM!Spec
==============================================================================
