---------------------------- MODULE MCBufferPool ----------------------------
EXTENDS BufferPool

\* Three threads, two blocks and four references: one thread writes while one
\* copies and one gives back, and the pool is empty, reused and exhausted.
=============================================================================
