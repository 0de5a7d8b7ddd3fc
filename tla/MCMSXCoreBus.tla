----------------------------- MODULE MCMSXCoreBus -----------------------------
EXTENDS MSXCore

CONSTANTS r1, d1, a, NoDev

\* Two primary slots and two subslots: the window can switch between
\* slots and subslots.  One page: a page stands for all its addresses,
\* and every stale-line case needs only one window.  One RAM (it offers
\* read and write cache lines) and one device with MSXMemDevice's default
\* behaviour, both bound at once, so a switch moves the window from one to
\* the other while the CPU holds a line; two values so a write through a
\* stale line is visible.
MCPrimaries    == {0, 1}
MCSubslots     == {0, 1}
MCPages        == {0}
MCRamDevices   == {r1}
MCPlainDevices == {d1}
MCValues       == {0, 1}
MCMaxBound     == 2
\* One event at time 0: its callback switches banks during a run.
MCTokens  == {a}
MCMaxTime == 0
MCMaxSeq  == 1
==============================================================================
