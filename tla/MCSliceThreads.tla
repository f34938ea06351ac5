--------------------------- MODULE MCSliceThreads ---------------------------
EXTENDS SliceThreads

Setup(mainfunc, cols, jobs, broken) ==
    [mainfunc |-> mainfunc, cols |-> cols, jobs |-> jobs, broken |-> broken]

MCSetups == {Setup(FALSE, 0, {1, 2, 4}, {}), Setup(TRUE, 0, {1, 2, 4}, {}),
             Setup(FALSE, 2, {4}, {}), Setup(FALSE, 2, {4}, {1, 2})}
MCBroken == {Setup(FALSE, 1, {6}, {2})}
=============================================================================
