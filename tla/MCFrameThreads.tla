--------------------------- MODULE MCFrameThreads ---------------------------
EXTENDS FrameThreads

Setup(update, safe, delay, hw, early, packets, flushes) ==
    [update |-> update, safe |-> safe, delay |-> delay, hw |-> hw,
     early |-> early, packets |-> packets, flushes |-> flushes]

\* The combinations that differ in which waits they use, each with as many
\* packets and seeks as its interleavings allow.
MCSetups == {Setup(TRUE, TRUE, FALSE, "none", 1, 3, 0),
             Setup(FALSE, TRUE, FALSE, "none", 0, 3, 1),
             Setup(FALSE, FALSE, FALSE, "none", 0, 3, 0),
             Setup(TRUE, TRUE, TRUE, "none", 0, 3, 0),
             Setup(TRUE, FALSE, FALSE, "none", 0, 2, 0),
             Setup(TRUE, TRUE, FALSE, "async_safe", 0, 2, 0),
             Setup(TRUE, TRUE, FALSE, "serial", 0, 3, 0)}
=============================================================================
