----------------------------- MODULE AddressSpace -----------------------------
(***************************************************************************)
(* The address space as the bus implements it (spec 4.3): the slot        *)
(* hierarchy of SlotMap is the configuration, and reads go through a flat *)
(* per-page resolution cache, rebuilt synchronously on every install,      *)
(* removal, expansion and selection change.  The CPU keeps the cache      *)
(* lines a device offered (getReadCacheLine, getWriteCacheLine,           *)
(* MSXMemDevice.hh) and reads or writes them without dispatch until a     *)
(* mapping change invalidates them.                                       *)
(*                                                                         *)
(* The refinement: with flat and the lines hidden, every behaviour of this   *)
(* module is one of SlotMap, i.e. every read returns what walking the      *)
(* hierarchy would return.                                                 *)
(***************************************************************************)
EXTENDS Naturals, FiniteSets

CONSTANTS Primaries, Subslots, Pages, RamDevices, PlainDevices, Values, NoDevice, MaxBound

VARIABLES
    expanded, binding, primarySel, subSel, mem, lastRead, lastError,
    flat,      \* flat[g]: the device page window g resolves to (the hot path)
    cpuLine,   \* cpuLine[g]: device whose read cache line the CPU holds, or NoDevice
    cpuWLine   \* cpuWLine[g]: device whose write cache line the CPU holds, or NoDevice

SM == INSTANCE SlotMap

asVars == <<expanded, binding, primarySel, subSel, mem, lastRead, lastError, flat, cpuLine, cpuWLine>>

\* Fault: every mapped device is taken to offer a cache line.
ReadCacheLineAny(d) == d

\* MSXMemDevice::getReadCacheLine: RAM offers its buffer; the default
\* implementation returns a null pointer.
ReadCacheLine(d) == IF d \in RamDevices THEN d ELSE NoDevice

\* MSXMemDevice::getWriteCacheLine: RAM offers its buffer for writing; the
\* default implementation returns a null pointer.
WriteCacheLine(d) == IF d \in RamDevices THEN d ELSE NoDevice

NoLines == [g \in Pages |-> NoDevice]

\* Fault: the flat cache is not rebuilt (cache lines are still dropped).
RebuiltStale == flat' = flat /\ cpuLine' = NoLines /\ cpuWLine' = NoLines

\* Fault: only the read cache lines are dropped.
RebuiltKeepsWriteLines ==
    flat' = [g \in Pages |-> SM!Resolve(g)'] /\ cpuLine' = NoLines /\ UNCHANGED cpuWLine

(* The flat array recomputed from the new configuration, and every cache *)
(* line the CPU holds, for reading and for writing, dropped.              *)
Rebuilt == flat' = [g \in Pages |-> SM!Resolve(g)'] /\ cpuLine' = NoLines /\ cpuWLine' = NoLines

Init ==
    /\ SM!Init
    /\ flat = [g \in Pages |-> SM!Resolve(g)]
    /\ cpuLine = NoLines
    /\ cpuWLine = NoLines

\* A configuration or selection call of SlotMap, then the rebuild.
Reconfigure(A) == A /\ Rebuilt

(* read(address) on the hot path: from the cache line the CPU holds, or   *)
(* through the flat array to the device, taking its cache line if it     *)
(* offers one (queryCacheLine).                                           *)
CpuRead(g) ==
    /\ \/ /\ cpuLine[g] # NoDevice
          /\ lastRead' = [page |-> g, value |-> mem[cpuLine[g]][g]]
          /\ UNCHANGED cpuLine
       \/ /\ cpuLine[g] = NoDevice
          /\ lastRead' = [page |-> g, value |-> SM!ReadAt(flat[g], g)]
          /\ cpuLine' = [cpuLine EXCEPT ![g] = ReadCacheLine(flat[g])]
    /\ UNCHANGED <<expanded, binding, primarySel, subSel, mem, lastError, flat, cpuWLine>>

(* write(address, value) on the hot path: into the write cache line the  *)
(* CPU holds, or through the flat array to the device (RAM stores it, the *)
(* default discards it), taking its write cache line if it offers one.    *)
(* A RAM's cache lines are its own buffer, so they stay valid.            *)
CpuWrite(g, v) ==
    /\ \/ /\ cpuWLine[g] # NoDevice
          /\ mem' = [mem EXCEPT ![cpuWLine[g]][g] = v]
          /\ UNCHANGED cpuWLine
       \/ /\ cpuWLine[g] = NoDevice
          /\ mem' = IF flat[g] \in RamDevices THEN [mem EXCEPT ![flat[g]][g] = v] ELSE mem
          /\ cpuWLine' = [cpuWLine EXCEPT ![g] = WriteCacheLine(flat[g])]
    /\ UNCHANGED <<expanded, binding, primarySel, subSel, lastRead, lastError, flat, cpuLine>>

\* selectSubslot and the primary-slot register, with the rebuild.
SelectSubslot(p, s) == Reconfigure(SM!SelectSubslot(p, s))
SelectPrimary(g, p) == Reconfigure(SM!SelectPrimary(g, p))

Next ==
    \/ Reconfigure(SM!Configure)
    \/ \E g \in Pages, p \in Primaries : SelectPrimary(g, p)
    \/ \E p \in Primaries, s \in Subslots : SelectSubslot(p, s)
    \/ \E g \in Pages, v \in Values : CpuWrite(g, v)
    \/ \E g \in Pages : CpuRead(g)

Spec == Init /\ [][Next]_asVars

-----------------------------------------------------------------------------
TypeOK ==
    /\ expanded \in [Primaries -> BOOLEAN]
    /\ binding \in [Primaries -> [Subslots -> [Pages -> SM!Devices \cup {NoDevice}]]]
    /\ primarySel \in [Pages -> Primaries] /\ subSel \in [Primaries -> Subslots]
    /\ mem \in [RamDevices -> [Pages -> Values]]
    /\ lastRead = SM!NoRead \/ lastRead \in [page : Pages, value : Values \cup {SM!FillByte}]
    /\ lastError \in SM!Errors
    /\ flat \in [Pages -> SM!Devices \cup {NoDevice}]
    /\ cpuLine \in [Pages -> RamDevices \cup {NoDevice}]
    /\ cpuWLine \in [Pages -> RamDevices \cup {NoDevice}]
==============================================================================
