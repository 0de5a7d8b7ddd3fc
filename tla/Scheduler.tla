------------------------------- MODULE Scheduler -------------------------------
(***************************************************************************)
(* The Scheduler (spec 4.2): pending events (wake time, token) kept in     *)
(* registration order; runUntil(target) fires, one at a time, the due     *)
(* event with the earliest time, the earliest registered among equal      *)
(* times, advancing the current time to it, and finally sets the time to  *)
(* the target.  A callback may schedule further events, which fire in the *)
(* same runUntil when they are due.  scheduleAt in the past raises         *)
(* InvalidTimeError and changes nothing: it is not an action here.        *)
(*                                                                         *)
(* Times are 0..MaxTime; the device of an event is folded into its token. *)
(***************************************************************************)
EXTENDS Naturals, Sequences, SequencesExt

CONSTANTS
    Tokens,    \* (device, token) pairs that can be scheduled
    MaxTime,   \* last virtual time
    MaxSeq     \* bound on registrations in a behaviour

NoRun == MaxTime + 1   \* target while no runUntil is in progress

VARIABLES
    now,        \* the Scheduler's current time
    pending,    \* pending events [time, token, seq], in registration order
    target,     \* the target of the runUntil in progress, or NoRun
    nextSeq,    \* registrations so far (seq of the next event)
    cancelled   \* tokens cancelled and not scheduled since (not in the code)

schedVars == <<now, pending, target, nextSeq, cancelled>>

Times == 0..MaxTime
Event == [time : Times, token : Tokens, seq : 0..MaxSeq]

Init ==
    /\ now = 0
    /\ pending = <<>>
    /\ target = NoRun
    /\ nextSeq = 0
    /\ cancelled = {}

\* The pending list with event e registered at its end.
Registered(e) ==
    /\ pending' = Append(pending, e)
    /\ nextSeq' = nextSeq + 1
    /\ cancelled' = cancelled \ {e.token}

\* Fault: the past check is left out.
ScheduleAtUnchecked(time, tok) ==
    /\ nextSeq < MaxSeq
    /\ Registered([time |-> time, token |-> tok, seq |-> nextSeq])
    /\ UNCHANGED <<now, target>>

\* scheduleAt(time, device, token): only at or after the current time.
ScheduleAt(time, tok) ==
    /\ nextSeq < MaxSeq
    /\ time >= now
    /\ Registered([time |-> time, token |-> tok, seq |-> nextSeq])
    /\ UNCHANGED <<now, target>>

\* Fault: only the first pending event of the token is removed.
CancelFirst(tok) ==
    /\ pending' = LET ks == {k \in DOMAIN pending : pending[k].token = tok}
                  IN  IF ks = {} THEN pending ELSE RemoveAt(pending, Min(ks))
    /\ cancelled' = cancelled \cup {tok}
    /\ UNCHANGED <<now, target, nextSeq>>

\* cancel(device, token): every pending event of it; no-op when absent.
Cancel(tok) ==
    /\ pending' = SelectSeq(pending, LAMBDA e : e.token # tok)
    /\ cancelled' = cancelled \cup {tok}
    /\ UNCHANGED <<now, target, nextSeq>>

\* runUntil(targetTime) is entered.
RunUntil(t) ==
    /\ target = NoRun
    /\ t \in now..MaxTime
    /\ target' = t
    /\ UNCHANGED <<now, pending, nextSeq, cancelled>>

Due == {k \in DOMAIN pending : pending[k].time <= target}

\* Fault: among equal times the last registered fires first.
NextDueLifo ==
    CHOOSE k \in Due : \A j \in Due : pending[k].time < pending[j].time
                                      \/ (pending[k].time = pending[j].time /\ k >= j)

\* The due event of earliest time, earliest registered among equals.
NextDue ==
    CHOOSE k \in Due : \A j \in Due : pending[k].time < pending[j].time
                                      \/ (pending[k].time = pending[j].time /\ k <= j)

(* Fire the next due event: the time advances to it and it leaves the     *)
(* list; its callback may register one event (newEvents of length 0 or 1) *)
(* at or after that time.                                                 *)
Fire(newEvents) ==
    /\ target # NoRun /\ Due # {}
    /\ LET e == pending[NextDue]
       IN  /\ now' = e.time
           /\ \A k \in DOMAIN newEvents : newEvents[k].time >= e.time
           /\ nextSeq + Len(newEvents) <= MaxSeq
           /\ pending' = RemoveAt(pending, NextDue)
                          \o [k \in DOMAIN newEvents |-> [newEvents[k] EXCEPT !.seq = nextSeq + k - 1]]
           /\ nextSeq' = nextSeq + Len(newEvents)
           /\ cancelled' = cancelled \ {newEvents[k].token : k \in DOMAIN newEvents}
    /\ UNCHANGED target

\* Nothing due is left: the time becomes the target and runUntil returns.
EndRun ==
    /\ target # NoRun /\ Due = {}
    /\ now' = target
    /\ target' = NoRun
    /\ UNCHANGED <<pending, nextSeq, cancelled>>

\* Callbacks that register nothing or one event.
Callbacks == {<<>>} \cup {<<[time |-> t, token |-> tok, seq |-> 0]>> : t \in Times, tok \in Tokens}

Next ==
    \/ \E t \in Times, tok \in Tokens : target = NoRun /\ ScheduleAt(t, tok)
    \/ \E tok \in Tokens : target = NoRun /\ Cancel(tok)
    \/ \E t \in Times : RunUntil(t)
    \/ \E cb \in Callbacks : Fire(cb)
    \/ EndRun

Spec == Init /\ [][Next]_schedVars
==============================================================================
