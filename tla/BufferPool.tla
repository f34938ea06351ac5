----------------------------- MODULE BufferPool -----------------------------
(***************************************************************************)
(* The reference-counted buffers of the decoders (libavutil/buffer.c) and  *)
(* the pool frames are allocated from (AVBufferPool; video_get_buffer and  *)
(* update_frame_pool of libavcodec/decode.c).                              *)
(*                                                                         *)
(* Threads hold references to buffers and give each other more, without a  *)
(* lock: counters are atomic, only the list of the pool has a mutex.  The  *)
(* last reference gives the block back to the pool, and the last user of a *)
(* pool that was uninitialized frees it, whichever thread that is.         *)
(*                                                                         *)
(* An operator named after a slip is the mutant of the definition below it. *)
(***************************************************************************)
EXTENDS Naturals, Sequences, FiniteSets

CONSTANTS Threads,
          Blocks,    \* the memory there is for data; more fails
          Refs,      \* the memory there is for AVBufferRef
          Free,      \* an AVBufferRef that is not allocated
          None       \* nobody, no block

ASSUME FiniteAssumption == IsFiniteSet(Blocks) /\ IsFiniteSet(Refs) /\ IsFiniteSet(Threads)
ASSUME NamesAssumption == None \notin Threads \cup Blocks /\ Free \notin [by : Threads, of : Blocks]

VARIABLES
    refs,       \* each AVBufferRef: who has it, and the block of its buffer
    refcount,   \* AVBuffer.refcount, for each block; 0 without a buffer
    list,       \* AVBufferPool.pool, linked by next
    fresh,      \* the blocks that are not allocated
    mutex,      \* who has AVBufferPool.mutex
    users,      \* AVBufferPool.refcount
    handle,     \* somebody has the pointer to the pool
    freed,      \* the pool is freed
    pc, blk, dst   \* where a thread is; its block, and the reference it replaces

shared == <<refs, refcount>>
pool == <<list, fresh, mutex, users, handle, freed>>
vars == <<shared, pool, pc, blk, dst>>

RefsTo(b) == {r \in Refs : refs[r] # Free /\ refs[r].of = b}
HeldBy(t) == {r \in Refs : refs[r] # Free /\ refs[r].by = t}
Go(t, where) == pc' = [pc EXCEPT ![t] = where]
Has(t, b) == blk' = [blk EXCEPT ![t] = b]

Init ==
    /\ refs = [r \in Refs |-> Free] /\ refcount = [b \in Blocks |-> 0]
    /\ list = <<>> /\ fresh = Blocks
    /\ mutex = None /\ users = 1
    /\ handle = TRUE /\ freed = FALSE
    /\ pc = [t \in Threads |-> "idle"]
    /\ blk = [t \in Threads |-> None] /\ dst = [t \in Threads |-> None]

-----------------------------------------------------------------------------
(* av_buffer_pool_get.                                                     *)

NoMutex == TRUE
MutexIsFree == mutex = None

\* Under the mutex the first entry of the list is read ...
PoolGet(t) ==
    /\ handle /\ pc[t] = "idle" /\ MutexIsFree
    /\ mutex' = t
    /\ Has(t, IF list = <<>> THEN None ELSE Head(list))
    /\ Go(t, "getting")
    /\ UNCHANGED <<shared, list, fresh, users, handle, freed, dst>>

\* ... and taken for a new buffer with one reference; without one there is
\* pool_alloc_buffer.
Take(t) ==
    /\ pc[t] = "getting"
    /\ mutex' = None
    /\ \E b \in IF blk[t] = None THEN fresh ELSE {blk[t]} :
       \E r \in Refs :
         /\ refs[r] = Free
         /\ refs' = [refs EXCEPT ![r] = [by |-> t, of |-> b]]
         /\ refcount' = [refcount EXCEPT ![b] = 1]
         /\ fresh' = fresh \ {b}
         /\ list' = IF blk[t] = None \/ list = <<>> THEN list ELSE Tail(list)
         /\ Has(t, b)
    /\ Go(t, "got")
    /\ UNCHANGED <<users, handle, freed, dst>>

\* There is no memory for the data, its entry or the reference.
GetFails(t) ==
    /\ pc[t] = "getting"
    /\ mutex' = None
    /\ Has(t, None)
    /\ Go(t, "idle")
    /\ UNCHANGED <<shared, list, fresh, users, handle, freed, dst>>

\* The buffer becomes a user of the pool only after the mutex is given up.
CountNothing(t) ==
    pc[t] = "got" /\ Go(t, "idle") /\ Has(t, None) /\ UNCHANGED <<shared, pool, dst>>
Count(t) ==
    /\ pc[t] = "got"
    /\ users' = users + 1
    /\ Go(t, "idle") /\ Has(t, None)
    /\ UNCHANGED <<shared, list, fresh, mutex, handle, freed, dst>>

-----------------------------------------------------------------------------
(* av_buffer_ref, av_buffer_unref and av_buffer_make_writable.             *)

\* A new reference, for the thread itself or for another.
Ref(t, u) ==
    /\ pc[t] = "idle"
    /\ \E r \in HeldBy(t), new \in Refs :
         /\ refs[new] = Free
         /\ refs' = [refs EXCEPT ![new] = [by |-> u, of |-> refs[r].of]]
         /\ refcount' = [refcount EXCEPT ![refs[r].of] = @ + 1]
    /\ UNCHANGED <<pool, pc, blk, dst>>

\* buffer_replace: the reference goes, and with the last one the buffer.
Drop(t, r) ==
    LET b == refs[r].of IN
    /\ refs' = [refs EXCEPT ![r] = Free]
    /\ refcount' = [refcount EXCEPT ![b] = @ - 1]
    /\ IF refcount[b] = 1
       THEN Go(t, "releasing") /\ Has(t, b)
       ELSE Go(t, "idle") /\ Has(t, None)
    /\ dst' = [dst EXCEPT ![t] = None]

Unref(t) ==
    /\ pc[t] = "idle"
    /\ \E r \in HeldBy(t) : Drop(t, r)
    /\ UNCHANGED pool

\* av_buffer_is_writable.
IsOnlyOfThread(t, b) == Cardinality(RefsTo(b) \cap HeldBy(t)) = 1
IsWritable(t, b) == refcount[b] = 1

MakeWritable(t) ==
    /\ pc[t] = "idle"
    /\ \E r \in HeldBy(t) :
         IF IsWritable(t, refs[r].of)
         THEN Go(t, "writing") /\ Has(t, refs[r].of) /\ UNCHANGED dst
         ELSE Go(t, "copying") /\ dst' = [dst EXCEPT ![t] = r] /\ UNCHANGED blk
    /\ UNCHANGED <<shared, pool>>

Written(t) ==
    /\ pc[t] = "writing"
    /\ Go(t, "idle") /\ Has(t, None)
    /\ UNCHANGED <<shared, pool, dst>>

\* The copy replaces the reference, which may have become the last meanwhile;
\* or there is no memory for it.
Copied(t) ==
    /\ pc[t] = "copying"
    /\ Drop(t, dst[t])
    /\ UNCHANGED pool

CopyFails(t) ==
    /\ pc[t] = "copying"
    /\ Go(t, "idle")
    /\ dst' = [dst EXCEPT ![t] = None]
    /\ UNCHANGED <<shared, pool, blk>>

-----------------------------------------------------------------------------
(* pool_release_buffer, av_buffer_pool_uninit and buffer_pool_free.        *)

Release(t) ==
    /\ pc[t] = "releasing" /\ MutexIsFree
    /\ mutex' = t
    /\ Go(t, "pushing")
    /\ UNCHANGED <<shared, list, fresh, users, handle, freed, blk, dst>>

Push(t) ==
    /\ pc[t] = "pushing"
    /\ list' = <<blk[t]>> \o list
    /\ mutex' = None
    /\ Has(t, None)
    /\ Go(t, "pushed")
    /\ UNCHANGED <<shared, fresh, users, handle, freed, dst>>

NobodyLeft == users = 0
IsLastUser == users = 1

LeavePool(t) ==
    /\ users' = users - 1
    /\ Go(t, IF IsLastUser THEN "freeing" ELSE "idle")

Leave(t) ==
    /\ pc[t] = "pushed"
    /\ LeavePool(t)
    /\ UNCHANGED <<shared, list, fresh, mutex, handle, freed, blk, dst>>

\* Whoever has the pointer to the pool gives it up when nobody is using it.
Uninit(t) ==
    /\ handle /\ pc[t] = "idle"
    /\ \A u \in Threads : pc[u] \notin {"getting", "got"}
    /\ handle' = FALSE
    /\ LeavePool(t)
    /\ UNCHANGED <<shared, list, fresh, mutex, freed, blk, dst>>

FreeBlock(t) ==
    /\ pc[t] = "freeing" /\ list # <<>>
    /\ fresh' = fresh \cup {Head(list)}
    /\ list' = Tail(list)
    /\ UNCHANGED <<shared, mutex, users, handle, freed, pc, blk, dst>>

FreePool(t) ==
    /\ pc[t] = "freeing" /\ list = <<>>
    /\ freed' = TRUE
    /\ Go(t, "idle")
    /\ UNCHANGED <<shared, list, fresh, mutex, users, handle, blk, dst>>

-----------------------------------------------------------------------------

\* What a thread does of its own accord, and what it must go on with.
Begins(t) ==
    \/ PoolGet(t) \/ Unref(t) \/ MakeWritable(t) \/ Uninit(t)
    \/ \E u \in Threads : Ref(t, u)

GoesOn(t) ==
    \/ Take(t) \/ GetFails(t) \/ Count(t) \/ Written(t) \/ Copied(t) \/ CopyFails(t)
    \/ Release(t) \/ Push(t) \/ Leave(t) \/ FreeBlock(t) \/ FreePool(t)

\* All references are given up, nobody has anything left to do.
AllGivenUp ==
    /\ ~handle /\ \A r \in Refs : refs[r] = Free
    /\ \A t \in Threads : pc[t] = "idle"
    /\ UNCHANGED vars

Next == \/ \E t \in Threads : Begins(t) \/ GoesOn(t)
        \/ AllGivenUp

\* The scheduler runs every thread that can run; a lock is fair.
Fairness == \A t \in Threads : WF_vars(GoesOn(t)) /\ SF_vars(Release(t))

Spec == Init /\ [][Next]_vars /\ Fairness

-----------------------------------------------------------------------------
(* Properties.                                                             *)

\* The counters count: a buffer its references, the pool the pointer to it,
\* the buffers and the threads on the way back to it, but for the buffers that
\* were got and are not counted yet.
CountersCount ==
    /\ \A b \in Blocks : refcount[b] = Cardinality(RefsTo(b))
    /\ users + Cardinality({t \in Threads : pc[t] = "got"}) =
         (IF handle THEN 1 ELSE 0) + Cardinality({b \in Blocks : refcount[b] # 0})
           + Cardinality({t \in Threads : pc[t] \in {"releasing", "pushing", "pushed"}})

\* A block is in one place: not allocated, in the list, in a buffer that is
\* referenced, or with the one thread that gives it back.
Returning(b) == {t \in Threads : pc[t] \in {"releasing", "pushing"} /\ blk[t] = b}
InList(b) == {i \in 1 .. Len(list) : list[i] = b}

BlocksAreOnce ==
    \A b \in Blocks :
      (IF b \in fresh THEN 1 ELSE 0) + Cardinality(InList(b))
        + (IF RefsTo(b) # {} THEN 1 ELSE 0) + Cardinality(Returning(b)) = 1

\* av_buffer_make_writable: who writes to a block has the only reference to it.
WriterIsAlone ==
    \A t \in Threads : pc[t] = "writing" =>
      \E r \in HeldBy(t) : RefsTo(blk[t]) = {r}

\* av_buffer_pool_uninit: the pool is freed only when all its buffers are
\* released and no thread is in it, and with it all that was allocated.
PoolOutlivesUse ==
    freed => /\ fresh = Blocks
             /\ mutex = None
             /\ \A t \in Threads : pc[t] = "idle"

\* After the pointer to it and all references are given up, the pool is freed.
PoolIsFreed == ~handle /\ (\A r \in Refs : refs[r] = Free) ~> freed
=============================================================================
