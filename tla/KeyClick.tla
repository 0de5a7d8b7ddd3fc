------------------------------ MODULE KeyClick ------------------------------
(***************************************************************************)
(* KeyClick (src/src/KeyClick.cc): the keyboard click, a one-bit state     *)
(* driving a DAC.  setClick writes the DAC only when the status changes,   *)
(* 0xff for on and 0x80 for off, at the EmuTime it is given.  The         *)
(* constructor calls reset() before 'status' was ever assigned, so the     *)
(* first comparison reads an uninitialised bool: either value may be       *)
(* read.  reset() passes a default-constructed Emutime, i.e. time zero.    *)
(* The DAC (DACSound, not in src/) is modelled by its last written level   *)
(* and the time of that write.                                             *)
(***************************************************************************)
EXTENDS Integers

CONSTANT MaxTime   \* bound on the emulated time

VARIABLES
    constructed,   \* the constructor has run
    status,        \* KeyClick::status
    now,           \* the emulated time of the caller (the PPI writing port C)
    dacLevel,      \* last value written to the DAC, or Unwritten
    dacTime        \* EmuTime of the last DAC write

vars == <<constructed, status, now, dacLevel, dacTime>>

Unwritten == -1   \* no write yet: outside the byte range

Level(on) == IF on THEN 255 ELSE 128   \* status ? 0xff : 0x80
DummyTime == 0                         \* Emutime dummy;

\* setClick(newStatus, time), the body shared by all callers.
SetClickAt(newStatus, time) ==
    IF newStatus # status
    THEN /\ status' = newStatus
         /\ dacLevel' = Level(newStatus)
         /\ dacTime' = time
    ELSE UNCHANGED <<status, dacLevel, dacTime>>

Init ==
    /\ constructed = FALSE
    /\ status \in BOOLEAN          \* indeterminate value of an unset bool
    /\ now = 0
    /\ dacLevel = Unwritten
    /\ dacTime = 0

\* KeyClick::KeyClick(): new DACSound, then reset().
Construct ==
    /\ ~constructed
    /\ constructed' = TRUE
    /\ SetClickAt(FALSE, DummyTime)
    /\ UNCHANGED now

\* KeyClick::reset(), called again on a machine reset.
Reset ==
    /\ constructed
    /\ SetClickAt(FALSE, DummyTime)
    /\ UNCHANGED <<constructed, now>>

\* KeyClick::setClick(newStatus, time) at the caller's current time.
SetClick ==
    /\ constructed
    /\ \E b \in BOOLEAN : SetClickAt(b, now)
    /\ UNCHANGED <<constructed, now>>

\* Emulated time passes between calls.
Tick ==
    /\ constructed /\ now < MaxTime
    /\ now' = now + 1
    /\ UNCHANGED <<constructed, status, dacLevel, dacTime>>

Next == Construct \/ Reset \/ SetClick \/ Tick

Spec == Init /\ [][Next]_vars

-----------------------------------------------------------------------------
TypeOK ==
    /\ constructed \in BOOLEAN /\ status \in BOOLEAN
    /\ now \in 0..MaxTime /\ dacTime \in 0..MaxTime
    /\ dacLevel \in {Unwritten} \cup 0..255     \* writeDAC takes a byte

(* The DAC is written in emulated-time order: a write never carries an    *)
(* EmuTime earlier than the previous write (virtual time is monotonic).   *)
(* reset() writes 0x80 at its dummy Emutime when the click was on.        *)
DacWritesInOrder == [][dacTime' >= dacTime]_vars
==============================================================================
