---------------------------- MODULE MCMSXCoreSched ----------------------------
EXTENDS MSXCore

CONSTANTS d1, a, b, NoDev

\* Two tokens at three times with three registrations: equal times, a
\* token pending twice, and callbacks registering during a run happen.
MCTokens  == {a, b}
MCMaxTime == 2
MCMaxSeq  == 3
\* A one-page bus with one primary slot: the callbacks' selections are
\* steps, but the address space is not what this instance is about.
MCPrimaries    == {0}
MCSubslots     == {0}
MCPages        == {0}
MCRamDevices   == {}
MCPlainDevices == {d1}
MCValues       == {0}
MCMaxBound     == 1
==============================================================================
