------------------------------ MODULE ForkJoin ------------------------------
(***************************************************************************)
(* What AVCodecContext.execute and execute2 promise a decoder              *)
(* (libavcodec/avcodec.h: "It will return only after finishing all         *)
(* tasks"): a call has jobs, each is run once, and the call returns when   *)
(* all have been run.                                                      *)
(***************************************************************************)
EXTENDS Naturals

CONSTANT JobCounts   \* how many jobs a call may have

VARIABLES calling,   \* the decoder is in the call
          todo       \* the jobs that have not been run

Init == calling = FALSE /\ todo = {}

Call(n) == /\ ~calling
           /\ calling' = TRUE
           /\ todo' = 0 .. n - 1

Run(j) == /\ calling /\ j \in todo
          /\ todo' = todo \ {j}
          /\ UNCHANGED calling

Return == /\ calling /\ todo = {}
          /\ calling' = FALSE
          /\ UNCHANGED todo

Next == \/ \E n \in JobCounts : Call(n)
        \/ \E j \in todo : Run(j)
        \/ Return

Spec == Init /\ [][Next]_<<calling, todo>>
=============================================================================
