------------------------------- MODULE SlotMap --------------------------------
(***************************************************************************)
(* The slot hierarchy of the memory bus, as a configuration model (spec    *)
(* section 3 "Slot hierarchy", 4.3 AddressSpace).  A page window shows the *)
(* primary slot selected for it and, when that slot is expanded, the       *)
(* subslot selected for the slot; a non-expanded slot always shows         *)
(* subslot 0.  Every read walks this chain.  AddressSpace implements the   *)
(* same operations with a flat per-page cache and CPU cache lines, and is  *)
(* shown to implement this module.                                         *)
(*                                                                         *)
(* A page is one address: within a page all addresses resolve alike, and   *)
(* a cache line here is the page's buffer.  The devices' own contents      *)
(* follow MSXMemDevice (src/src/MSXMemDevice.hh): a device that does not   *)
(* override readMem reads 0xFF and ignores writes; RAM devices store what  *)
(* is written.                                                             *)
(***************************************************************************)
EXTENDS Naturals, FiniteSets

CONSTANTS
    Primaries,     \* primary slots
    Subslots,      \* subslots of an expanded primary slot (0 among them)
    Pages,         \* page windows of the 64 KiB space
    RamDevices,    \* devices storing written bytes, offering cache lines
    PlainDevices,  \* devices with MSXMemDevice's default behaviour
    Values,        \* byte values a RAM may hold
    NoDevice,      \* an unbound page
    MaxBound       \* bound on the bound (primary, subslot, page) cells

Devices  == RamDevices \cup PlainDevices
FillByte == 255                       \* unmapped reads: 0xFF
NoRead   == [page |-> NoDevice, value |-> 256]   \* no read done yet
Errors   == {"none", "Overlap", "SlotNotExpanded", "AlreadyBound"}

VARIABLES
    expanded,     \* expanded[p]: primary slot p is expanded
    binding,      \* binding[p][s][g]: the device of page g in (p, s)
    primarySel,   \* primarySel[g]: primary slot shown in page window g
    subSel,       \* subSel[p]: selected subslot of primary slot p
    mem,          \* mem[d][g]: what RAM device d holds at page g
    lastRead,     \* the last CPU read: its page and the value returned
    lastError     \* the outcome of the last configuration call

slotVars == <<expanded, binding, primarySel, subSel, mem, lastRead, lastError>>

\* MSXMemDevice::readMem: RAM returns its byte, the default returns 255.
ReadMem(d, g) == IF d \in RamDevices THEN mem[d][g] ELSE FillByte

\* The device a read sees, or NoDevice: unmapped, 0xFF.
ReadAt(d, g) == IF d = NoDevice THEN FillByte ELSE ReadMem(d, g)

\* The subslot primary slot p shows: a non-expanded slot aliases subslot 0.
ActiveSub(p) == IF expanded[p] THEN subSel[p] ELSE 0

\* Walk the hierarchy: page window -> primary slot -> subslot -> device.
Resolve(g) == binding[primarySel[g]][ActiveSub(primarySel[g])][g]

BoundCells == {<<p, s, g>> \in Primaries \X Subslots \X Pages : binding[p][s][g] # NoDevice}

Init ==
    /\ expanded   = [p \in Primaries |-> FALSE]
    /\ binding    = [p \in Primaries |-> [s \in Subslots |-> [g \in Pages |-> NoDevice]]]
    /\ primarySel = [g \in Pages |-> 0]
    /\ subSel     = [p \in Primaries |-> 0]
    /\ mem        \in [RamDevices -> [Pages -> Values]]
    /\ lastRead   = NoRead
    /\ lastError  = "none"

Fail(err) == lastError' = err /\ UNCHANGED <<expanded, binding, primarySel, subSel, mem, lastRead>>

(* installDevice(primary, subslot, pageRange, device): all pages of the   *)
(* range or none; a subslot other than 0 needs an expanded slot.          *)
InstallDevice(p, s, R, d) ==
    \/ /\ ~expanded[p] /\ s # 0
       /\ Fail("SlotNotExpanded")
    \/ /\ expanded[p] \/ s = 0
       /\ \E g \in R : binding[p][s][g] # NoDevice
       /\ Fail("Overlap")
    \/ /\ expanded[p] \/ s = 0
       /\ \A g \in R : binding[p][s][g] = NoDevice
       /\ Cardinality(BoundCells) + Cardinality(R) <= MaxBound
       /\ binding' = [binding EXCEPT ![p][s] = [g \in Pages |-> IF g \in R THEN d ELSE @[g]]]
       /\ lastError' = "none"
       /\ UNCHANGED <<expanded, primarySel, subSel, mem, lastRead>>

\* Removing a device (cartridge ejected) unbinds its pages.
RemoveDevice(p, s, d) ==
    /\ \E g \in Pages : binding[p][s][g] = d
    /\ binding' = [binding EXCEPT ![p][s] = [g \in Pages |-> IF @[g] = d THEN NoDevice ELSE @[g]]]
    /\ lastError' = "none"
    /\ UNCHANGED <<expanded, primarySel, subSel, mem, lastRead>>

(* expandSlot(primary): refused while the slot has a direct binding,     *)
(* which would become ambiguous.                                          *)
ExpandSlot(p) ==
    /\ ~expanded[p]
    /\ \/ /\ \E g \in Pages : binding[p][0][g] # NoDevice
          /\ Fail("AlreadyBound")
       \/ /\ \A g \in Pages : binding[p][0][g] = NoDevice
          /\ expanded' = [expanded EXCEPT ![p] = TRUE]
          /\ lastError' = "none"
          /\ UNCHANGED <<binding, primarySel, subSel, mem, lastRead>>

\* The primary-slot select register (the system device) for one window.
SelectPrimary(g, p) ==
    /\ primarySel' = [primarySel EXCEPT ![g] = p]
    /\ UNCHANGED <<expanded, binding, subSel, mem, lastRead, lastError>>

\* selectSubslot(primary, subslot): ignored for a non-expanded slot.
SelectSubslot(p, s) ==
    /\ subSel' = IF expanded[p] THEN [subSel EXCEPT ![p] = s] ELSE subSel
    /\ UNCHANGED <<expanded, binding, primarySel, mem, lastRead, lastError>>

\* write(address, value): RAM stores it; the default device and an
\* unmapped page discard it.
Write(g, v) ==
    /\ mem' = IF Resolve(g) \in RamDevices THEN [mem EXCEPT ![Resolve(g)][g] = v] ELSE mem
    /\ UNCHANGED <<expanded, binding, primarySel, subSel, lastRead, lastError>>

\* read(address): the device found by walking the hierarchy answers.
Read(g) ==
    /\ lastRead' = [page |-> g, value |-> ReadAt(Resolve(g), g)]
    /\ UNCHANGED <<expanded, binding, primarySel, subSel, mem, lastError>>

Configure ==
    \/ \E p \in Primaries, s \in Subslots, R \in SUBSET Pages \ {{}}, d \in Devices :
          InstallDevice(p, s, R, d)
    \/ \E p \in Primaries, s \in Subslots, d \in Devices : RemoveDevice(p, s, d)
    \/ \E p \in Primaries : ExpandSlot(p)

Next ==
    \/ Configure
    \/ \E g \in Pages, p \in Primaries : SelectPrimary(g, p)
    \/ \E p \in Primaries, s \in Subslots : SelectSubslot(p, s)
    \/ \E g \in Pages, v \in Values : Write(g, v)
    \/ \E g \in Pages : Read(g)

Spec == Init /\ [][Next]_slotVars
==============================================================================
