-------------------------- MODULE BufferPool_proofs --------------------------
(* The theorems about BufferPool, for every number of threads, blocks and   *)
(* references.                                                              *)
EXTENDS BufferPool, TLAPS, FiniteSetTheorems, SequenceTheorems

Places == {"idle", "getting", "got", "writing", "copying", "releasing", "pushing",
           "pushed", "freeing"}

PoolTypes ==
    /\ refs \in [Refs -> [by : Threads, of : Blocks] \cup {Free}]
    /\ refcount \in [Blocks -> Nat]
    /\ list \in Seq(Blocks) /\ fresh \in SUBSET Blocks
    /\ mutex \in Threads \cup {None} /\ users \in Nat
    /\ handle \in BOOLEAN /\ freed \in BOOLEAN
    /\ pc \in [Threads -> Places]
    /\ blk \in [Threads -> Blocks \cup {None}]
    /\ dst \in [Threads -> Refs \cup {None}]

\* refcount counts the references.
RefsCounted == \A b \in Blocks : refcount[b] = Cardinality(RefsTo(b))

\* Who was given a buffer, or found it writable, has the only reference; who copies
\* one still has it.
IsAlone(t) == blk[t] \in Blocks /\ \E r \in HeldBy(t) : RefsTo(blk[t]) = {r}
Holding ==
    \A t \in Threads : /\ pc[t] \in {"got", "writing"} => IsAlone(t)
                       /\ pc[t] = "copying" => dst[t] \in HeldBy(t)

\* The mutex is with the thread that reads or changes the list.
UnderMutex ==
    \A t \in Threads :
      /\ mutex = t <=> pc[t] \in {"getting", "pushing"}
      /\ pc[t] = "getting" => blk[t] = IF list = <<>> THEN None ELSE Head(list)

\* Where a block is; no two threads give back the same.
IsReturning(t) == pc[t] \in {"releasing", "pushing"}
InNoList(b) == \A i \in 1 .. Len(list) : list[i] # b
IsReferenced(b) == RefsTo(b) # {}
Placed(b) == \/ b \in fresh \/ ~InNoList(b) \/ IsReferenced(b)
             \/ \E t \in Threads : IsReturning(t) /\ blk[t] = b
OnlyReturned(b) == b \in Blocks \ fresh /\ InNoList(b) /\ ~IsReferenced(b)
OnePlace ==
    /\ \A b \in Blocks : Placed(b)
    /\ \A b \in Blocks : b \in fresh => InNoList(b) /\ ~IsReferenced(b)
    /\ \A b \in Blocks : IsReferenced(b) => InNoList(b)
    /\ \A t \in Threads : IsReturning(t) => OnlyReturned(blk[t])
    /\ \A t, u \in Threads : IsReturning(t) /\ IsReturning(u) /\ t # u => blk[u] # blk[t]
    /\ \A i, j \in 1 .. Len(list) : i # j => list[i] # list[j]

\* The users of the pool: who has the pointer to it, the buffers but those that were
\* got and are not counted yet, and the threads that give one back.
Counted == {b \in Blocks : /\ IsReferenced(b)
                           /\ \A t \in Threads : pc[t] = "got" => blk[t] # b}
Leaving == {t \in Threads : pc[t] \in {"releasing", "pushing", "pushed"}}
UsersCounted ==
    /\ users = (IF handle THEN 1 ELSE 0) + Cardinality(Counted) + Cardinality(Leaving)
    /\ \A t \in Threads : pc[t] \in {"getting", "got"} => handle
    /\ freed \/ (\E t \in Threads : pc[t] = "freeing") => users = 0
    /\ freed => list = <<>>
    /\ \A t, u \in Threads : pc[t] = "freeing" => ~freed /\ (pc[u] = "freeing" => u = t)

BufferInv ==
    PoolTypes /\ RefsCounted /\ Holding /\ UnderMutex /\ OnePlace /\ UsersCounted

-----------------------------------------------------------------------------
(* The constants, and sequences. *)

\* What the assumptions on the constants say: a holder is never the free reference.
LEMMA Constants ==
    /\ IsFiniteSet(Blocks) /\ IsFiniteSet(Refs) /\ IsFiniteSet(Threads)
    /\ None \notin Threads /\ None \notin Blocks
    /\ \A t \in Threads, b \in Blocks : [by |-> t, of |-> b] # Free
BY FiniteAssumption, NamesAssumption DEF FiniteAssumption, NamesAssumption

\* The sets that are counted are finite.
LEMMA Finite ==
    /\ \A b \in Blocks : IsFiniteSet(RefsTo(b)) /\ Cardinality(RefsTo(b)) \in Nat
    /\ IsFiniteSet(Counted) /\ Cardinality(Counted) \in Nat
    /\ IsFiniteSet(Leaving) /\ Cardinality(Leaving) \in Nat
<1>1. (\A b \in Blocks : RefsTo(b) \in SUBSET Refs) /\ Counted \in SUBSET Blocks
      /\ Leaving \in SUBSET Threads
  BY DEF RefsTo, Counted, Leaving
<1>2. QED
  BY <1>1, Constants, FS_Subset, FS_CardinalityType

\* Where the blocks of a list are when its first is taken.
LEMMA WithoutFirst ==
    ASSUME NEW S, NEW s \in Seq(S), s # <<>>
    PROVE  /\ Len(s) \in Nat /\ Len(s) > 0 /\ Head(s) = s[1] /\ Head(s) \in S
           /\ Tail(s) \in Seq(S) /\ Len(Tail(s)) = Len(s) - 1
           /\ \A i \in 1 .. Len(s) - 1 : Tail(s)[i] = s[i + 1]
BY HeadTailProperties

\* And when one is put before it.
LEMMA WithFirst ==
    ASSUME NEW S, NEW s \in Seq(S), NEW e \in S
    PROVE  /\ Len(s) \in Nat
           /\ <<e>> \o s \in Seq(S) /\ Len(<<e>> \o s) = Len(s) + 1
           /\ (<<e>> \o s)[1] = e
           /\ \A i \in 1 .. Len(s) : (<<e>> \o s)[i + 1] = s[i]
           /\ \A i \in 2 .. Len(s) + 1 : (<<e>> \o s)[i] = s[i - 1]
<1>1. <<e>> \in Seq(S) /\ Len(<<e>>) = 1 /\ <<e>>[1] = e
  OBVIOUS
<1>2. QED
  BY <1>1, ConcatProperties

-----------------------------------------------------------------------------
(* What the steps do to the references. *)

\* A new reference is one of the block, and of the thread.
LEMMA Referenced ==
    ASSUME PoolTypes, NEW t \in Threads, NEW b \in Blocks, NEW r \in Refs, refs[r] = Free,
           refs' = [refs EXCEPT ![r] = [by |-> t, of |-> b]]
    PROVE  /\ r \notin RefsTo(b) /\ RefsTo(b)' = RefsTo(b) \cup {r}
           /\ \A c \in Blocks \ {b} : RefsTo(c)' = RefsTo(c)
           /\ HeldBy(t)' = HeldBy(t) \cup {r}
           /\ \A u \in Threads \ {t} : HeldBy(u)' = HeldBy(u)
<1>1. /\ refs'[r] # Free /\ refs'[r].by = t /\ refs'[r].of = b
      /\ \A p \in Refs \ {r} : refs'[p] = refs[p]
  BY Constants DEF PoolTypes
<1>2. r \notin RefsTo(b) /\ r \notin HeldBy(t)
  BY DEF RefsTo, HeldBy
<1>3. \A c \in Blocks, p \in Refs : p \in RefsTo(c)' <=> p \in RefsTo(c) \/ (p = r /\ c = b)
  BY <1>1 DEF RefsTo
<1>4. \A u \in Threads, p \in Refs : p \in HeldBy(u)' <=> p \in HeldBy(u) \/ (p = r /\ u = t)
  BY <1>1 DEF HeldBy
<1>5. /\ \A c : RefsTo(c) \in SUBSET Refs /\ RefsTo(c)' \in SUBSET Refs
      /\ \A u : HeldBy(u) \in SUBSET Refs /\ HeldBy(u)' \in SUBSET Refs
  BY DEF RefsTo, HeldBy
<1>6. RefsTo(b)' = RefsTo(b) \cup {r} /\ HeldBy(t)' = HeldBy(t) \cup {r}
  BY <1>3, <1>4, <1>5
<1>7. ASSUME NEW c \in Blocks \ {b}
      PROVE  RefsTo(c)' = RefsTo(c)
  BY <1>3, <1>5
<1>8. ASSUME NEW u \in Threads \ {t}
      PROVE  HeldBy(u)' = HeldBy(u)
  BY <1>4, <1>5
<1>9. QED
  BY <1>2, <1>6, <1>7, <1>8

\* A block that was not referenced is taken, from the list or from the memory.
TakeEffect(t, b, r) ==
    /\ refs[r] = Free /\ refs' = [refs EXCEPT ![r] = [by |-> t, of |-> b]]
    /\ RefsTo(b) = {} /\ RefsTo(b)' = {r}
    /\ \A c \in Blocks \ {b} : RefsTo(c)' = RefsTo(c)
    /\ HeldBy(t)' = HeldBy(t) \cup {r} /\ \A u \in Threads \ {t} : HeldBy(u)' = HeldBy(u)
    /\ refcount' = [refcount EXCEPT ![b] = 1]
    /\ pc[t] = "getting" /\ pc' = [pc EXCEPT ![t] = "got"] /\ blk' = [blk EXCEPT ![t] = b]
    /\ mutex' = None /\ UNCHANGED <<users, handle, freed, dst>>
    /\ \/ list = <<>> /\ b \in fresh /\ fresh' = fresh \ {b} /\ UNCHANGED list
       \/ list # <<>> /\ b = Head(list) /\ list' = Tail(list) /\ UNCHANGED fresh

\* pool_get takes a block in this way.
LEMMA TakeStep ==
    ASSUME BufferInv, NEW t \in Threads, Take(t)
    PROVE  \E b \in Blocks, r \in Refs : TakeEffect(t, b, r)
<1> USE Constants DEF BufferInv, PoolTypes
<1>1. /\ pc[t] = "getting" /\ pc' = [pc EXCEPT ![t] = "got"] /\ mutex' = None
      /\ UNCHANGED <<users, handle, freed, dst>>
      /\ blk[t] = IF list = <<>> THEN None ELSE Head(list)
  BY DEF Take, Go, UnderMutex
<1>2. list # <<>> => Head(list) = list[1] /\ Head(list) \in Blocks /\ Len(list) \in Nat /\ Len(list) > 0
  BY WithoutFirst
<1>3. PICK b \in Blocks, r \in Refs :
         /\ b \in IF blk[t] = None THEN fresh ELSE {blk[t]}
         /\ refs[r] = Free
         /\ refs' = [refs EXCEPT ![r] = [by |-> t, of |-> b]]
         /\ refcount' = [refcount EXCEPT ![b] = 1]
         /\ fresh' = fresh \ {b}
         /\ list' = IF blk[t] = None \/ list = <<>> THEN list ELSE Tail(list)
         /\ blk' = [blk EXCEPT ![t] = b]
  BY <1>1, <1>2 DEF Take, Has
<1>r. /\ RefsTo(b)' = RefsTo(b) \cup {r}
      /\ \A c \in Blocks \ {b} : RefsTo(c)' = RefsTo(c)
      /\ HeldBy(t)' = HeldBy(t) \cup {r}
      /\ \A u \in Threads \ {t} : HeldBy(u)' = HeldBy(u)
  <2> HIDE Constants DEF BufferInv, PoolTypes
  <2>1. PoolTypes /\ refs[r] = Free /\ refs' = [refs EXCEPT ![r] = [by |-> t, of |-> b]]
    BY <1>3 DEF BufferInv
  <2>2. QED
    BY <2>1, Referenced
<1>4. CASE list = <<>>
  <2>1. b \in fresh /\ list' = list
    BY <1>1, <1>3, <1>4
  <2>2. RefsTo(b) = {} /\ b \in Blocks
    BY <2>1 DEF OnePlace, IsReferenced
  <2>3. QED
    <3>1. /\ RefsTo(b)' = {r} /\ \A c \in Blocks \ {b} : RefsTo(c)' = RefsTo(c)
          /\ HeldBy(t)' = HeldBy(t) \cup {r}
          /\ \A u \in Threads \ {t} : HeldBy(u)' = HeldBy(u)
      BY <1>r, <2>2
    <3>2. QED
      BY <1>1, <1>3, <1>4, <2>1, <2>2, <3>1 DEF TakeEffect
<1>5. CASE list # <<>>
  <2>1. b = Head(list) /\ list' = Tail(list) /\ b \in Blocks
    BY <1>1, <1>2, <1>3, <1>5
  <2>2. ~InNoList(b)
    BY <1>2, <1>5, <2>1 DEF InNoList
  <2>3. b \notin fresh /\ RefsTo(b) = {}
    BY <2>1, <2>2 DEF OnePlace, IsReferenced
  <2>4. fresh' = fresh
    BY <1>3, <2>3
  <2>5. QED
    <3>1. /\ RefsTo(b)' = {r} /\ \A c \in Blocks \ {b} : RefsTo(c)' = RefsTo(c)
          /\ HeldBy(t)' = HeldBy(t) \cup {r}
          /\ \A u \in Threads \ {t} : HeldBy(u)' = HeldBy(u)
      BY <1>r, <2>3
    <3>2. QED
      BY <1>1, <1>3, <1>5, <2>1, <2>3, <2>4, <3>1 DEF TakeEffect
<1>6. QED
  BY <1>4, <1>5

\* A reference more, to a block that nobody has for himself.
RefEffect(u, b, r) ==
    /\ refs[r] = Free /\ refs' = [refs EXCEPT ![r] = [by |-> u, of |-> b]]
    /\ RefsTo(b) # {} /\ r \notin RefsTo(b) /\ RefsTo(b)' = RefsTo(b) \cup {r}
    /\ \A c \in Blocks \ {b} : RefsTo(c)' = RefsTo(c)
    /\ HeldBy(u)' = HeldBy(u) \cup {r} /\ \A v \in Threads \ {u} : HeldBy(v)' = HeldBy(v)
    /\ refcount' = [refcount EXCEPT ![b] = @ + 1]
    /\ \A v \in Threads : pc[v] \in {"got", "writing"} => blk[v] # b
    /\ UNCHANGED <<pool, pc, blk, dst>>

\* What a thread has that is not in a step of its own, nobody has for himself.
LEMMA NotAlone ==
    ASSUME BufferInv, NEW t \in Threads, pc[t] \in {"idle", "copying"}, NEW r \in HeldBy(t)
    PROVE  /\ refs[r] \in [by : Threads, of : Blocks] /\ r \in Refs
           /\ refs[r].of \in Blocks /\ refs[r].by = t /\ r \in RefsTo(refs[r].of)
           /\ \A v \in Threads : pc[v] \in {"got", "writing"} => blk[v] # refs[r].of
<1>1. /\ refs[r] \in [by : Threads, of : Blocks] /\ r \in Refs /\ refs[r].by = t
      /\ r \in RefsTo(refs[r].of)
  BY DEF BufferInv, PoolTypes, HeldBy, RefsTo
<1>2. ASSUME NEW v \in Threads, pc[v] \in {"got", "writing"}, blk[v] = refs[r].of
      PROVE  FALSE
  <2>1. PICK r1 \in HeldBy(v) : RefsTo(blk[v]) = {r1}
    BY <1>2 DEF BufferInv, Holding, IsAlone
  <2>2. r1 = r
    BY <1>1, <1>2, <2>1
  <2>3. v = t
    BY <1>1, <2>2 DEF HeldBy
  <2>4. QED
    BY <1>2, <2>3
<1>3. QED
  BY <1>1, <1>2

\* av_buffer_ref adds one reference to a block and changes nothing else.
LEMMA RefStep ==
    ASSUME BufferInv, NEW t \in Threads, NEW u \in Threads, Ref(t, u)
    PROVE  \E b \in Blocks, r \in Refs : RefEffect(u, b, r)
<1>1. PICK old \in HeldBy(t), new \in Refs :
         /\ refs[new] = Free
         /\ refs' = [refs EXCEPT ![new] = [by |-> u, of |-> refs[old].of]]
         /\ refcount' = [refcount EXCEPT ![refs[old].of] = @ + 1]
  BY DEF Ref
<1>2. PICK b \in Blocks : b = refs[old].of
  BY NotAlone DEF Ref
<1>3. /\ old \in RefsTo(b)
      /\ \A v \in Threads : pc[v] \in {"got", "writing"} => blk[v] # b
  BY <1>2, NotAlone DEF Ref
<1>4. RefEffect(u, b, new)
  BY <1>1, <1>2, <1>3, Referenced DEF RefEffect, Ref, BufferInv
<1>5. QED
  BY <1>4

\* A reference less: the block is given back with the last one.
DropEffect(t, b, r) ==
    /\ r \in RefsTo(b) /\ r \in HeldBy(t) /\ refs' = [refs EXCEPT ![r] = Free]
    /\ RefsTo(b)' = RefsTo(b) \ {r} /\ \A c \in Blocks \ {b} : RefsTo(c)' = RefsTo(c)
    /\ HeldBy(t)' = HeldBy(t) \ {r} /\ \A u \in Threads \ {t} : HeldBy(u)' = HeldBy(u)
    /\ refcount' = [refcount EXCEPT ![b] = @ - 1] /\ refcount[b] > 0
    /\ pc[t] \in {"idle", "copying"}
    /\ \A v \in Threads : pc[v] \in {"got", "writing"} => blk[v] # b
    /\ \/ /\ RefsTo(b)' = {}
          /\ pc' = [pc EXCEPT ![t] = "releasing"] /\ blk' = [blk EXCEPT ![t] = b]
       \/ /\ RefsTo(b)' # {}
          /\ pc' = [pc EXCEPT ![t] = "idle"] /\ blk' = [blk EXCEPT ![t] = None]
    /\ dst' = [dst EXCEPT ![t] = None]
    /\ UNCHANGED pool

\* A reference is given up in this way, by av_buffer_unref or when the copy of
\* av_buffer_make_writable is there.
LEMMA DropStep ==
    ASSUME BufferInv, NEW t \in Threads, Unref(t) \/ Copied(t)
    PROVE  \E b \in Blocks, r \in Refs : DropEffect(t, b, r)
<1>1. PICK r \in HeldBy(t) : Drop(t, r) /\ pc[t] \in {"idle", "copying"} /\ UNCHANGED pool
  BY DEF Unref, Copied, BufferInv, Holding
<1>2. PICK b \in Blocks : b = refs[r].of
  BY <1>1, NotAlone
<1>3. /\ r \in RefsTo(b) /\ r \in Refs
      /\ \A v \in Threads : pc[v] \in {"got", "writing"} => blk[v] # b
  BY <1>1, <1>2, NotAlone
<1>4. /\ refs' = [refs EXCEPT ![r] = Free]
      /\ refcount' = [refcount EXCEPT ![b] = @ - 1]
      /\ dst' = [dst EXCEPT ![t] = None]
      /\ IF refcount[b] = 1
         THEN pc' = [pc EXCEPT ![t] = "releasing"] /\ blk' = [blk EXCEPT ![t] = b]
         ELSE pc' = [pc EXCEPT ![t] = "idle"] /\ blk' = [blk EXCEPT ![t] = None]
  BY <1>1, <1>2 DEF Drop, Go, Has
<1>5. /\ RefsTo(b)' = RefsTo(b) \ {r} /\ \A c \in Blocks \ {b} : RefsTo(c)' = RefsTo(c)
      /\ HeldBy(t)' = HeldBy(t) \ {r} /\ \A u \in Threads \ {t} : HeldBy(u)' = HeldBy(u)
  BY <1>2, <1>4, Constants DEF RefsTo, HeldBy, BufferInv, PoolTypes
<1>6. IsFiniteSet(RefsTo(b)) /\ Cardinality(RefsTo(b)) = refcount[b] /\ refcount[b] \in Nat
  BY Finite DEF BufferInv, RefsCounted, PoolTypes
<1>7. /\ IsFiniteSet(RefsTo(b) \ {r})
      /\ Cardinality(RefsTo(b) \ {r}) = refcount[b] - 1
      /\ Cardinality(RefsTo(b) \ {r}) \in Nat
  BY <1>3, <1>6, FS_RemoveElement, FS_CardinalityType
<1>8. refcount[b] > 0 /\ (refcount[b] = 1 <=> RefsTo(b) \ {r} = {})
  <2> DEFINE W == RefsTo(b) \ {r}
  <2>1. IsFiniteSet(W) /\ Cardinality(W) = refcount[b] - 1 /\ Cardinality(W) \in Nat
    BY <1>7
  <2> HIDE DEF W
  <2>2. Cardinality(W) = 0 <=> W = {}
    BY <2>1, FS_EmptySet
  <2>3. refcount[b] > 0 /\ (refcount[b] = 1 <=> W = {})
    BY <1>6, <2>1, <2>2
  <2>4. QED
    BY <2>3 DEF W
<1>9. DropEffect(t, b, r)
  BY <1>1, <1>3, <1>4, <1>5, <1>8 DEF DropEffect
<1>10. QED
  BY <1>3, <1>9

\* The other steps leave the references as they are.
Others(t) ==
    \/ PoolGet(t) \/ GetFails(t) \/ Count(t) \/ MakeWritable(t) \/ Written(t)
    \/ CopyFails(t) \/ Release(t) \/ Leave(t) \/ Uninit(t) \/ FreePool(t)
    \/ Push(t) \/ FreeBlock(t)

\* Every step takes a block, adds or gives up a reference, or is one of the others.
LEMMA StepKinds ==
    ASSUME BufferInv, [Next]_vars
    PROVE  \/ \E t \in Threads, b \in Blocks, r \in Refs :
                TakeEffect(t, b, r) \/ RefEffect(t, b, r) \/ DropEffect(t, b, r)
           \/ \E t \in Threads : Others(t)
           \/ UNCHANGED vars
<1>1. ASSUME NEW t \in Threads, Begins(t) \/ GoesOn(t)
      PROVE  \/ \E u \in Threads, b \in Blocks, r \in Refs :
                  TakeEffect(u, b, r) \/ RefEffect(u, b, r) \/ DropEffect(u, b, r)
             \/ Others(t)
  BY <1>1, TakeStep, RefStep, DropStep DEF Begins, GoesOn, Others
<1>2. QED
  BY <1>1 DEF Next, AllGivenUp

\* The other steps, and stuttering, leave references, their counts and holders alone.
LEMMA OthersKeepReferences ==
    ASSUME NEW t \in Threads, Others(t) \/ UNCHANGED vars
    PROVE  /\ UNCHANGED <<refs, refcount>>
           /\ \A b : RefsTo(b)' = RefsTo(b) /\ IsReferenced(b)' = IsReferenced(b)
           /\ \A u : HeldBy(u)' = HeldBy(u)
<1>1. UNCHANGED <<refs, refcount>>
  BY DEF Others, PoolGet, GetFails, Count, MakeWritable, Written, CopyFails, Release, Leave,
         Uninit, FreePool, Push, FreeBlock, LeavePool, vars, shared
<1>2. QED
  BY <1>1 DEF RefsTo, HeldBy, IsReferenced

\* When the pool has no users nobody has anything of it.
LEMMA NoUsers ==
    ASSUME BufferInv, users = 0
    PROVE  /\ ~handle /\ \A b \in Blocks : ~IsReferenced(b)
           /\ \A t \in Threads : pc[t] \in {"idle", "freeing"} /\ HeldBy(t) = {}
<1>1. ~handle /\ Counted = {} /\ Leaving = {}
  <2>1. Cardinality(Counted) \in Nat /\ Cardinality(Leaving) \in Nat
        /\ IsFiniteSet(Counted) /\ IsFiniteSet(Leaving)
    BY Finite
  <2>2. ~handle /\ Cardinality(Counted) = 0 /\ Cardinality(Leaving) = 0
    BY <2>1 DEF BufferInv, UsersCounted
  <2>3. QED
    BY <2>1, <2>2, FS_EmptySet
<1>2. \A t \in Threads : pc[t] \notin {"getting", "got"}
  BY <1>1 DEF BufferInv, UsersCounted
<1>3. \A b \in Blocks : ~IsReferenced(b)
  BY <1>1, <1>2 DEF Counted
<1>4. \A t \in Threads : HeldBy(t) = {}
  BY <1>3 DEF HeldBy, IsReferenced, RefsTo, BufferInv, PoolTypes
<1>5. \A t \in Threads : pc[t] \notin {"writing", "copying"}
  BY <1>4 DEF BufferInv, Holding, IsAlone
<1>6. \A t \in Threads : pc[t] \notin {"releasing", "pushing", "pushed"}
  BY <1>1 DEF Leaving
<1>7. QED
  BY <1>1, <1>2, <1>3, <1>4, <1>5, <1>6 DEF BufferInv, PoolTypes, Places

-----------------------------------------------------------------------------
(* The invariant is kept. *)

\* The variables keep their types.
LEMMA PoolTypesStep ==
    ASSUME BufferInv, [Next]_vars
    PROVE  PoolTypes'
<1>a. PoolTypes
  BY DEF BufferInv
<1> USE Constants, <1>a DEF PoolTypes, pool
<1>p. {"idle", "getting", "got", "writing", "copying", "releasing", "pushing",
       "pushed", "freeing"} \in SUBSET Places
  BY DEF Places
<1>1. ASSUME NEW t \in Threads, NEW b \in Blocks, NEW r \in Refs, TakeEffect(t, b, r)
      PROVE  PoolTypes'
  <2>1. list # <<>> => Tail(list) \in Seq(Blocks)
    BY WithoutFirst
  <2>2. QED
    BY <1>1, <1>p, <2>1 DEF TakeEffect
<1>2. ASSUME NEW t \in Threads, NEW b \in Blocks, NEW r \in Refs, RefEffect(t, b, r)
      PROVE  PoolTypes'
  BY <1>2 DEF RefEffect
<1>3. ASSUME NEW t \in Threads, NEW b \in Blocks, NEW r \in Refs, DropEffect(t, b, r)
      PROVE  PoolTypes'
  <2>1. refs' \in [Refs -> [by : Threads, of : Blocks] \cup {Free}]
    BY <1>3 DEF DropEffect
  <2>2. refcount' \in [Blocks -> Nat]
    BY <1>3 DEF DropEffect
  <2>3. pc' \in [Threads -> Places] /\ blk' \in [Threads -> Blocks \cup {None}]
    <3>1. b \in Blocks \cup {None} /\ None \in Blocks \cup {None} /\ "releasing" \in Places /\ "idle" \in Places
      BY <1>p
    <3>2. \/ /\ pc' = [pc EXCEPT ![t] = "releasing"] /\ blk' = [blk EXCEPT ![t] = b]
          \/ /\ pc' = [pc EXCEPT ![t] = "idle"] /\ blk' = [blk EXCEPT ![t] = None]
      BY <1>3 DEF DropEffect
    <3>3. pc' \in [Threads -> Places]
      BY <3>1, <3>2
    <3>4. blk' \in [Threads -> Blocks \cup {None}]
      BY <3>1, <3>2
    <3>5. QED
      BY <3>3, <3>4
  <2>4. dst' \in [Threads -> Refs \cup {None}] /\ UNCHANGED pool
    BY <1>3 DEF DropEffect
  <2>5. QED
    BY <2>1, <2>2, <2>3, <2>4
<1>4. ASSUME NEW t \in Threads, Others(t)
      PROVE  PoolTypes'
  <2>a. UNCHANGED <<refs, refcount>>
    BY <1>4, OthersKeepReferences
  <2>h. list # <<>> => Head(list) \in Blocks /\ Tail(list) \in Seq(Blocks)
    BY WithoutFirst
  <2>1. CASE PoolGet(t)
    BY <2>1, <2>a, <2>h, <1>p DEF PoolGet, Go, Has
  <2>2. CASE GetFails(t) \/ Written(t)
    BY <2>2, <2>a, <1>p DEF GetFails, Written, Go, Has
  <2>9. CASE Count(t)
    BY <2>9, <2>a, <1>p DEF Count, Go, Has
  <2>3. CASE MakeWritable(t)
    <3>1. \A r \in HeldBy(t) : r \in Refs /\ refs[r].of \in Blocks
      BY DEF HeldBy
    <3>2. pc' \in [Threads -> Places]
      BY <2>3, <1>p DEF MakeWritable, Go
    <3>3. blk' \in [Threads -> Blocks \cup {None}] /\ dst' \in [Threads -> Refs \cup {None}]
      BY <2>3, <3>1 DEF MakeWritable, Has
    <3>4. QED
      BY <2>3, <2>a, <3>2, <3>3 DEF MakeWritable
  <2>4. CASE CopyFails(t) \/ Release(t) \/ FreePool(t)
    <3>1. CASE CopyFails(t)
      BY <3>1, <2>a, <1>p DEF CopyFails, Go
    <3>2. CASE Release(t)
      BY <3>2, <2>a, <1>p DEF Release, Go
    <3>3. CASE FreePool(t)
      BY <3>3, <2>a, <1>p DEF FreePool, Go
    <3>4. QED
      BY <2>4, <3>1, <3>2, <3>3
  <2>5. CASE Push(t)
    <3>1. blk[t] \in Blocks
      BY <2>5 DEF BufferInv, OnePlace, IsReturning, OnlyReturned, Push
    <3>2. <<blk[t]>> \o list \in Seq(Blocks)
      BY <3>1, WithFirst
    <3>3. QED
      BY <2>5, <2>a, <3>2, <1>p DEF Push, Go, Has
  <2>6. CASE Leave(t) \/ Uninit(t)
    <3>1. users # 0
      BY <2>6, NoUsers DEF Leave, Uninit
    <3>2. users - 1 \in Nat
      BY <3>1
    <3>3. pc' \in [Threads -> Places]
      BY <2>6, <1>p DEF Leave, Uninit, LeavePool, Go
    <3>4. users' = users - 1 /\ handle' \in BOOLEAN /\ UNCHANGED <<list, fresh, mutex, freed, blk, dst>>
      BY <2>6 DEF Leave, Uninit, LeavePool
    <3>5. QED
      BY <2>a, <3>2, <3>3, <3>4
  <2>7. CASE FreeBlock(t)
    BY <2>7, <2>a, <2>h DEF FreeBlock
  <2>8. QED
    BY <1>4, <2>1, <2>2, <2>9, <2>3, <2>4, <2>5, <2>6, <2>7 DEF Others
<1>5. CASE UNCHANGED vars
  BY <1>5 DEF vars, shared
<1>6. QED
  BY <1>1, <1>2, <1>3, <1>4, <1>5, StepKinds

\* The reference count of a block stays the number of its references.
LEMMA RefsCountedStep ==
    ASSUME BufferInv, [Next]_vars
    PROVE  RefsCounted'
<1>a. PoolTypes /\ RefsCounted /\ \A b \in Blocks : IsFiniteSet(RefsTo(b)) /\ refcount[b] \in Nat
  BY Finite DEF BufferInv, PoolTypes
<1>1. ASSUME NEW t \in Threads, NEW b \in Blocks, NEW r \in Refs, TakeEffect(t, b, r)
      PROVE  RefsCounted'
  <2>1. Cardinality(RefsTo(b)') = 1
    BY <1>1, FS_Singleton DEF TakeEffect
  <2>2. refcount'[b] = 1 /\ \A c \in Blocks \ {b} : refcount'[c] = refcount[c] /\ RefsTo(c)' = RefsTo(c)
    BY <1>1, <1>a DEF TakeEffect, PoolTypes
  <2>3. QED
    BY <1>a, <2>1, <2>2 DEF RefsCounted
<1>2. ASSUME NEW t \in Threads, NEW b \in Blocks, NEW r \in Refs, RefEffect(t, b, r)
      PROVE  RefsCounted'
  <2>1. Cardinality(RefsTo(b) \cup {r}) = Cardinality(RefsTo(b)) + 1
    BY <1>2, <1>a, FS_AddElement DEF RefEffect
  <2>2. /\ refcount'[b] = refcount[b] + 1 /\ RefsTo(b)' = RefsTo(b) \cup {r}
        /\ \A c \in Blocks \ {b} : refcount'[c] = refcount[c] /\ RefsTo(c)' = RefsTo(c)
    BY <1>2, <1>a DEF RefEffect, PoolTypes
  <2>3. QED
    BY <1>a, <2>1, <2>2 DEF RefsCounted
<1>3. ASSUME NEW t \in Threads, NEW b \in Blocks, NEW r \in Refs, DropEffect(t, b, r)
      PROVE  RefsCounted'
  <2>1. Cardinality(RefsTo(b) \ {r}) = Cardinality(RefsTo(b)) - 1
    BY <1>3, <1>a, FS_RemoveElement DEF DropEffect
  <2>2. /\ refcount'[b] = refcount[b] - 1 /\ RefsTo(b)' = RefsTo(b) \ {r}
        /\ \A c \in Blocks \ {b} : refcount'[c] = refcount[c] /\ RefsTo(c)' = RefsTo(c)
    BY <1>3, <1>a DEF DropEffect, PoolTypes
  <2>3. QED
    BY <1>a, <2>1, <2>2 DEF RefsCounted
<1>4. CASE (\E t \in Threads : Others(t)) \/ UNCHANGED vars
  <2>1. UNCHANGED refcount /\ \A b : RefsTo(b)' = RefsTo(b)
    BY <1>4, OthersKeepReferences DEF vars, shared, RefsTo
  <2>2. QED
    BY <1>a, <2>1 DEF RefsCounted
<1>5. QED
  BY <1>1, <1>2, <1>3, <1>4, StepKinds

\* What a thread needs for the step it is in, it goes on having.
LEMMA HoldingStep ==
    ASSUME BufferInv, [Next]_vars
    PROVE  Holding'
<1>a. PoolTypes /\ Holding
  BY DEF BufferInv
<1>1. ASSUME NEW t \in Threads, NEW b \in Blocks, NEW r \in Refs, TakeEffect(t, b, r)
      PROVE  Holding'
  <2>1. /\ pc'[t] = "got" /\ blk'[t] = b /\ RefsTo(b)' = {r} /\ r \in HeldBy(t)'
        /\ UNCHANGED dst /\ \A u : HeldBy(u) \in SUBSET HeldBy(u)' \/ u \notin Threads
        /\ \A u \in Threads \ {t} : pc'[u] = pc[u] /\ blk'[u] = blk[u] /\ HeldBy(u)' = HeldBy(u)
        /\ \A c \in Blocks \ {b} : RefsTo(c)' = RefsTo(c)
        /\ RefsTo(b) = {}
    BY <1>1, <1>a DEF TakeEffect, PoolTypes
  <2>2. \A u \in Threads \ {t} : IsAlone(u) => IsAlone(u)'
    BY <2>1 DEF IsAlone
  <2>3. IsAlone(t)'
    BY <2>1 DEF IsAlone
  <2>4. QED
    BY <1>a, <2>1, <2>2, <2>3 DEF Holding
<1>2. ASSUME NEW t \in Threads, NEW b \in Blocks, NEW r \in Refs, RefEffect(t, b, r)
      PROVE  Holding'
  <2>1. /\ UNCHANGED <<pc, blk, dst>>
        /\ \A u \in Threads : HeldBy(u) \in SUBSET HeldBy(u)'
        /\ \A c \in Blocks \ {b} : RefsTo(c)' = RefsTo(c)
        /\ \A v \in Threads : pc[v] \in {"got", "writing"} => blk[v] # b
    BY <1>2 DEF RefEffect
  <2>2. \A u \in Threads : pc[u] \in {"got", "writing"} /\ IsAlone(u) => IsAlone(u)'
    BY <2>1 DEF IsAlone
  <2>3. QED
    BY <1>a, <2>1, <2>2 DEF Holding
<1>3. ASSUME NEW t \in Threads, NEW b \in Blocks, NEW r \in Refs, DropEffect(t, b, r)
      PROVE  Holding'
  <2>1. /\ pc'[t] \in {"idle", "releasing"}
        /\ \A u \in Threads \ {t} : /\ pc'[u] = pc[u] /\ blk'[u] = blk[u] /\ dst'[u] = dst[u]
                                    /\ HeldBy(u)' = HeldBy(u)
        /\ \A c \in Blocks \ {b} : RefsTo(c)' = RefsTo(c)
        /\ \A v \in Threads : pc[v] \in {"got", "writing"} => blk[v] # b
    BY <1>3, <1>a DEF DropEffect, PoolTypes
  <2>2. \A u \in Threads \ {t} : pc[u] \in {"got", "writing"} /\ IsAlone(u) => IsAlone(u)'
    BY <2>1 DEF IsAlone
  <2>3. QED
    BY <1>a, <2>1, <2>2 DEF Holding
<1>4. ASSUME NEW t \in Threads, Others(t)
      PROVE  Holding'
  <2>1. (\A b : RefsTo(b)' = RefsTo(b)) /\ \A u : HeldBy(u)' = HeldBy(u)
    BY <1>4, OthersKeepReferences
  <2>2. \A u \in Threads \ {t} : pc'[u] = pc[u] /\ blk'[u] = blk[u] /\ dst'[u] = dst[u]
    BY <1>4, <1>a DEF Others, PoolGet, GetFails, Count, MakeWritable, Written, CopyFails, Release,
         Leave, Uninit, FreePool, Push, FreeBlock, LeavePool, PoolTypes, Go, Has
  <2>3. \A u \in Threads \ {t} : IsAlone(u) => IsAlone(u)'
    BY <2>1, <2>2 DEF IsAlone
  <2>4. CASE MakeWritable(t)
    <3>1. PICK r \in HeldBy(t) :
             IF IsWritable(t, refs[r].of)
             THEN Go(t, "writing") /\ Has(t, refs[r].of) /\ UNCHANGED dst
             ELSE Go(t, "copying") /\ dst' = [dst EXCEPT ![t] = r] /\ UNCHANGED blk
      BY <2>4 DEF MakeWritable
    <3>2. PICK b \in Blocks : b = refs[r].of
      BY <2>4, NotAlone DEF MakeWritable
    <3>3. CASE IsWritable(t, b)
      <4>1. Cardinality(RefsTo(b)) = 1 /\ r \in RefsTo(b) /\ IsFiniteSet(RefsTo(b))
        BY <2>4, <3>2, <3>3, Finite, NotAlone DEF MakeWritable, IsWritable, BufferInv, RefsCounted
      <4>2. /\ IsFiniteSet({r}) /\ Cardinality({r}) = 1
        BY FS_Singleton
      <4>3. {r} = RefsTo(b)
        BY <4>1, <4>2, FS_Subset
      <4>4. pc'[t] = "writing" /\ blk'[t] = b
        BY <1>a, <3>1, <3>2, <3>3 DEF Go, Has, PoolTypes
      <4>5. IsAlone(t)'
        BY <2>1, <4>3, <4>4 DEF IsAlone
      <4>6. QED
        BY <1>a, <2>1, <2>2, <2>3, <4>4, <4>5 DEF Holding
    <3>4. CASE ~IsWritable(t, b)
      <4>1. pc'[t] = "copying" /\ dst'[t] = r
        BY <1>a, <3>1, <3>2, <3>4 DEF Go, PoolTypes
      <4>2. QED
        BY <1>a, <2>1, <2>2, <2>3, <4>1 DEF Holding
    <3>5. QED
      BY <3>3, <3>4
  <2>5. CASE ~MakeWritable(t)
    <3>1. pc'[t] \notin {"got", "writing", "copying"} \/ (UNCHANGED <<pc, blk, dst>>)
      BY <1>4, <1>a, <2>5 DEF Others, PoolGet, GetFails, Count, Written, CopyFails, Release,
         Leave, Uninit, FreePool, Push, FreeBlock, LeavePool, PoolTypes, Go
    <3>2. UNCHANGED <<pc, blk, dst>> => Holding'
      BY <1>a, <2>1 DEF Holding, IsAlone
    <3>3. QED
      BY <1>a, <2>1, <2>2, <2>3, <3>1, <3>2 DEF Holding
  <2>6. QED
    BY <2>4, <2>5
<1>5. CASE UNCHANGED vars
  BY <1>a, <1>5 DEF vars, shared, Holding, IsAlone, HeldBy, RefsTo
<1>6. QED
  BY <1>1, <1>2, <1>3, <1>4, <1>5, StepKinds

\* The mutex stays with the thread that reads or changes the list.
LEMMA UnderMutexStep ==
    ASSUME BufferInv, [Next]_vars
    PROVE  UnderMutex'
<1>a. PoolTypes /\ UnderMutex /\ None \notin Threads
  BY Constants DEF BufferInv
<1> USE <1>a DEF PoolTypes, UnderMutex, pool
<1>1. ASSUME NEW t \in Threads, NEW b \in Blocks, NEW r \in Refs, TakeEffect(t, b, r)
      PROVE  UnderMutex'
  BY <1>1 DEF TakeEffect
<1>2. ASSUME NEW t \in Threads, NEW b \in Blocks, NEW r \in Refs, RefEffect(t, b, r)
      PROVE  UnderMutex'
  BY <1>2 DEF RefEffect
<1>3. ASSUME NEW t \in Threads, NEW b \in Blocks, NEW r \in Refs, DropEffect(t, b, r)
      PROVE  UnderMutex'
  <2>1. /\ pc'[t] \in {"idle", "releasing"} /\ pc[t] \in {"idle", "copying"} /\ UNCHANGED <<mutex, list>>
        /\ \A u \in Threads \ {t} : pc'[u] = pc[u] /\ blk'[u] = blk[u]
    BY <1>3 DEF DropEffect
  <2>2. QED
    BY <2>1
<1>4. ASSUME NEW t \in Threads, Others(t)
      PROVE  UnderMutex'
  <2>1. \A u \in Threads \ {t} : pc'[u] = pc[u] /\ blk'[u] = blk[u]
    BY <1>4 DEF Others, PoolGet, GetFails, Count, MakeWritable, Written, CopyFails, Release,
         Leave, Uninit, FreePool, Push, FreeBlock, LeavePool, Go, Has
  <2>2. CASE PoolGet(t)
    <3>1. /\ mutex = None /\ mutex' = t /\ pc'[t] = "getting" /\ UNCHANGED list
          /\ blk'[t] = IF list = <<>> THEN None ELSE Head(list)
      BY <2>2 DEF PoolGet, MutexIsFree, Go, Has
    <3>2. QED
      BY <2>1, <3>1
  <2>3. CASE GetFails(t) \/ Push(t)
    <3>1. mutex = t /\ mutex' = None /\ pc'[t] \in {"idle", "pushed"}
      BY <2>3 DEF GetFails, Push, Go
    <3>2. \A u \in Threads \ {t} : pc[u] \notin {"getting", "pushing"}
      BY <3>1
    <3>3. QED
      BY <2>1, <3>1, <3>2
  <2>4. CASE Release(t)
    <3>1. mutex = None /\ mutex' = t /\ pc'[t] = "pushing" /\ UNCHANGED list
      BY <2>4 DEF Release, MutexIsFree, Go
    <3>2. QED
      BY <2>1, <3>1
  <2>5. CASE Count(t) \/ MakeWritable(t) \/ Written(t) \/ CopyFails(t) \/ Leave(t) \/ Uninit(t) \/ FreePool(t)
    <3>1. /\ pc[t] \notin {"getting", "pushing"} /\ pc'[t] \notin {"getting", "pushing"}
          /\ UNCHANGED <<mutex, list>>
      BY <2>5 DEF Count, MakeWritable, Written, CopyFails, Leave, Uninit, FreePool, LeavePool, Go
    <3>2. QED
      BY <2>1, <3>1
  <2>6. CASE FreeBlock(t)
    <3>1. \A u \in Threads : pc[u] \in {"idle", "freeing"} /\ UNCHANGED <<pc, mutex>>
      BY <2>6, NoUsers DEF FreeBlock, BufferInv, UsersCounted
    <3>2. QED
      BY <3>1
  <2>7. QED
    BY <1>4, <2>2, <2>3, <2>4, <2>5, <2>6 DEF Others
<1>5. CASE UNCHANGED vars
  BY <1>5 DEF vars, shared
<1>6. QED
  BY <1>1, <1>2, <1>3, <1>4, <1>5, StepKinds

\* A block stays in one place: never made, in use, on its way back, or in the list once.
LEMMA OnePlaceStep ==
    ASSUME BufferInv, [Next]_vars
    PROVE  OnePlace'
<1>a. /\ PoolTypes /\ Len(list) \in Nat
      /\ \A c \in Blocks : Placed(c)
      /\ \A c \in Blocks : c \in fresh => InNoList(c) /\ ~IsReferenced(c)
      /\ \A c \in Blocks : IsReferenced(c) => InNoList(c)
      /\ \A t \in Threads : IsReturning(t) => OnlyReturned(blk[t])
      /\ \A t, u \in Threads : IsReturning(t) /\ IsReturning(u) /\ t # u => blk[u] # blk[t]
      /\ \A i, j \in 1 .. Len(list) : i # j => list[i] # list[j]
  BY DEF BufferInv, PoolTypes, OnePlace
<1> USE <1>a
<1>1. ASSUME NEW t \in Threads, NEW b \in Blocks, NEW r \in Refs, TakeEffect(t, b, r)
      PROVE  OnePlace'
  <2>1. /\ IsReferenced(b)' /\ ~IsReferenced(b)
        /\ \A c \in Blocks \ {b} : IsReferenced(c)' <=> IsReferenced(c)
    BY <1>1 DEF TakeEffect, IsReferenced
  <2>2. /\ ~IsReturning(t) /\ ~IsReturning(t)'
        /\ \A u \in Threads \ {t} : (IsReturning(u)' <=> IsReturning(u)) /\ blk'[u] = blk[u]
    BY <1>1 DEF TakeEffect, PoolTypes, IsReturning
  <2>3. CASE b \in fresh /\ fresh' = fresh \ {b} /\ UNCHANGED list
    <3>1. \A c : InNoList(c)' <=> InNoList(c)
      BY <2>3 DEF InNoList
    <3>p. \A c \in Blocks : Placed(c)'
      BY <2>1, <2>2, <2>3, <3>1 DEF Placed
    <3>q. \A c \in Blocks : c \in fresh' => InNoList(c)' /\ ~IsReferenced(c)'
      BY <2>1, <2>2, <2>3, <3>1
    <3>r. \A c \in Blocks : IsReferenced(c)' => InNoList(c)'
      BY <2>1, <2>2, <2>3, <3>1
    <3>s. \A u \in Threads : IsReturning(u)' => OnlyReturned(blk[u])'
      BY <2>1, <2>2, <2>3, <3>1 DEF OnlyReturned
    <3>t. \A u, v \in Threads : IsReturning(u)' /\ IsReturning(v)' /\ u # v => blk'[v] # blk'[u]
      BY <2>1, <2>2, <2>3, <3>1
    <3>u. \A i, j \in 1 .. Len(list') : i # j => list'[i] # list'[j]
      BY <2>1, <2>2, <2>3, <3>1
    <3>z. QED
      BY <3>p, <3>q, <3>r, <3>s, <3>t, <3>u DEF OnePlace
  <2>4. CASE list # <<>> /\ b = Head(list) /\ list' = Tail(list) /\ UNCHANGED fresh
    <3>1. /\ Len(list) > 0 /\ b = list[1] /\ Len(list') = Len(list) - 1
          /\ \A i \in 1 .. Len(list') : list'[i] = list[i + 1]
      BY <2>4, WithoutFirst DEF PoolTypes
    <3>2. InNoList(b)' /\ ~InNoList(b)
      BY <3>1 DEF InNoList
    <3>4. \A c \in Blocks \ {b} : InNoList(c) <=> InNoList(c)'
      <4>1. \A i \in 1 .. Len(list) : i = 1 \/ (i - 1 \in 1 .. Len(list') /\ list[i] = list'[i - 1])
        BY <3>1
      <4>2. \A i \in 1 .. Len(list') : i + 1 \in 1 .. Len(list)
        BY <3>1
      <4>3. QED
        BY <2>4, <3>1, <4>1, <4>2 DEF InNoList
    <3>5. \A i, j \in 1 .. Len(list') : i # j => list'[i] # list'[j]
      BY <3>1
    <3>p. \A c \in Blocks : Placed(c)'
      BY <2>1, <2>2, <2>4, <3>2, <3>4, <3>5 DEF Placed
    <3>q. \A c \in Blocks : c \in fresh' => InNoList(c)' /\ ~IsReferenced(c)'
      BY <2>1, <2>2, <2>4, <3>2, <3>4, <3>5
    <3>r. \A c \in Blocks : IsReferenced(c)' => InNoList(c)'
      BY <2>1, <2>2, <2>4, <3>2, <3>4, <3>5
    <3>s. \A u \in Threads : IsReturning(u)' => OnlyReturned(blk[u])'
      BY <2>1, <2>2, <2>4, <3>2, <3>4, <3>5 DEF OnlyReturned
    <3>t. \A u, v \in Threads : IsReturning(u)' /\ IsReturning(v)' /\ u # v => blk'[v] # blk'[u]
      BY <2>1, <2>2, <2>4, <3>2, <3>4, <3>5
    <3>u. \A i, j \in 1 .. Len(list') : i # j => list'[i] # list'[j]
      BY <2>1, <2>2, <2>4, <3>2, <3>4, <3>5
    <3>z. QED
      BY <3>p, <3>q, <3>r, <3>s, <3>t, <3>u DEF OnePlace
  <2>5. QED
    BY <1>1, <2>3, <2>4 DEF TakeEffect
<1>2. ASSUME NEW t \in Threads, NEW b \in Blocks, NEW r \in Refs, RefEffect(t, b, r)
      PROVE  OnePlace'
  <2>1. /\ \A c \in Blocks : IsReferenced(c)' <=> IsReferenced(c)
        /\ UNCHANGED <<list, fresh, pc, blk>>
    BY <1>2 DEF RefEffect, IsReferenced, pool
  <2>2. /\ \A c : InNoList(c)' <=> InNoList(c)
        /\ \A u \in Threads : IsReturning(u)' <=> IsReturning(u)
    BY <2>1 DEF InNoList, IsReturning
  <2>p. \A c \in Blocks : Placed(c)'
    BY <2>1, <2>2 DEF Placed
  <2>q. \A c \in Blocks : c \in fresh' => InNoList(c)' /\ ~IsReferenced(c)'
    BY <2>1, <2>2
  <2>r. \A c \in Blocks : IsReferenced(c)' => InNoList(c)'
    BY <2>1, <2>2
  <2>s. \A u \in Threads : IsReturning(u)' => OnlyReturned(blk[u])'
    BY <2>1, <2>2 DEF OnlyReturned
  <2>t. \A u, v \in Threads : IsReturning(u)' /\ IsReturning(v)' /\ u # v => blk'[v] # blk'[u]
    BY <2>1, <2>2
  <2>u. \A i, j \in 1 .. Len(list') : i # j => list'[i] # list'[j]
    BY <2>1, <2>2
  <2>z. QED
    BY <2>p, <2>q, <2>r, <2>s, <2>t, <2>u DEF OnePlace
<1>3. ASSUME NEW t \in Threads, NEW b \in Blocks, NEW r \in Refs, DropEffect(t, b, r)
      PROVE  OnePlace'
  <2>1. /\ IsReferenced(b) /\ \A c \in Blocks \ {b} : IsReferenced(c)' <=> IsReferenced(c)
        /\ UNCHANGED <<list, fresh>> /\ ~IsReturning(t)
        /\ \/ ~IsReferenced(b)' /\ IsReturning(t)' /\ blk'[t] = b
           \/ IsReferenced(b)' /\ ~IsReturning(t)'
        /\ \A u \in Threads \ {t} : (IsReturning(u)' <=> IsReturning(u)) /\ blk'[u] = blk[u]
    BY <1>3 DEF DropEffect, IsReferenced, pool, PoolTypes, IsReturning
  <2>2. \A c : InNoList(c)' <=> InNoList(c)
    BY <2>1 DEF InNoList
  <2>3. \A u \in Threads : IsReturning(u) => blk[u] # b
    BY <2>1 DEF OnlyReturned
  <2>4. b \notin fresh /\ InNoList(b)
    BY <2>1
  <2>p. \A c \in Blocks : Placed(c)'
    BY <2>1, <2>2, <2>3, <2>4 DEF Placed
  <2>q. \A c \in Blocks : c \in fresh' => InNoList(c)' /\ ~IsReferenced(c)'
    BY <2>1, <2>2, <2>3, <2>4
  <2>r. \A c \in Blocks : IsReferenced(c)' => InNoList(c)'
    BY <2>1, <2>2, <2>3, <2>4
  <2>s. \A u \in Threads : IsReturning(u)' => OnlyReturned(blk[u])'
    BY <2>1, <2>2, <2>3, <2>4 DEF OnlyReturned
  <2>t. \A u, v \in Threads : IsReturning(u)' /\ IsReturning(v)' /\ u # v => blk'[v] # blk'[u]
    BY <2>1, <2>2, <2>3, <2>4
  <2>u. \A i, j \in 1 .. Len(list') : i # j => list'[i] # list'[j]
    BY <2>1, <2>2, <2>3, <2>4
  <2>z. QED
    BY <2>p, <2>q, <2>r, <2>s, <2>t, <2>u DEF OnePlace
<1>4. ASSUME NEW t \in Threads, Others(t)
      PROVE  OnePlace'
  <2>1. \A c : IsReferenced(c)' <=> IsReferenced(c)
    BY <1>4, OthersKeepReferences
  <2>2. \A u \in Threads \ {t} : (IsReturning(u)' <=> IsReturning(u)) /\ blk'[u] = blk[u]
    BY <1>4 DEF Others, PoolGet, GetFails, Count, MakeWritable, Written, CopyFails, Release,
         Leave, Uninit, FreePool, Push, FreeBlock, LeavePool, Go, Has, PoolTypes, IsReturning
  <2>3. CASE Push(t)
    <3>1. /\ IsReturning(t) /\ ~IsReturning(t)' /\ UNCHANGED fresh /\ list' = <<blk[t]>> \o list
      BY <2>3 DEF Push, Go, PoolTypes, IsReturning
    <3>2. PICK b \in Blocks : b = blk[t]
      BY <3>1 DEF OnlyReturned
    <3>3. /\ Len(list') = Len(list) + 1 /\ list'[1] = b
          /\ \A i \in 1 .. Len(list) : list'[i + 1] = list[i]
          /\ \A i \in 2 .. Len(list) + 1 : list'[i] = list[i - 1]
      BY SMTT(30), <3>1, <3>2, WithFirst DEF PoolTypes
    <3>4. b \notin fresh /\ InNoList(b) /\ ~IsReferenced(b)
          /\ \A u \in Threads : IsReturning(u) /\ u # t => blk[u] # b
      BY <3>1, <3>2 DEF OnlyReturned
    <3>5. ~InNoList(b)'
      BY <3>3 DEF InNoList
    <3>6. \A c \in Blocks \ {b} : InNoList(c) <=> InNoList(c)'
      BY <3>3 DEF InNoList
    <3>7. \A i, j \in 1 .. Len(list') : i # j => list'[i] # list'[j]
      <4>1. \A i \in 1 .. Len(list') : i = 1 \/ (i - 1 \in 1 .. Len(list) /\ list'[i] = list[i - 1])
        BY <3>3
      <4>2. \A i \in 1 .. Len(list) : list[i] # b
        BY <3>4 DEF InNoList
      <4>3. ASSUME NEW i \in 1 .. Len(list'), NEW j \in 1 .. Len(list'), i # j
            PROVE  list'[i] # list'[j]
        <5>1. CASE i = 1
          BY <3>3, <4>1, <4>2, <4>3, <5>1
        <5>2. CASE j = 1
          BY <3>3, <4>1, <4>2, <4>3, <5>2
        <5>3. CASE i # 1 /\ j # 1
          <6>1. i - 1 \in 1 .. Len(list) /\ j - 1 \in 1 .. Len(list) /\ i - 1 # j - 1
            BY <3>3, <4>1, <4>3, <5>3
          <6>2. QED
            BY <4>1, <4>3, <5>3, <6>1
        <5>4. QED
          BY <5>1, <5>2, <5>3
      <4>4. QED
        BY <4>3
    <3>p. \A c \in Blocks : Placed(c)'
      <4>1. Placed(b)'
        BY <3>5 DEF Placed
      <4>2. ASSUME NEW c \in Blocks \ {b} PROVE Placed(c)'
        <5>1. CASE \E u \in Threads : IsReturning(u) /\ blk[u] = c
          BY <2>2, <3>2, <5>1, <4>2 DEF Placed
        <5>2. CASE c \in fresh \/ ~InNoList(c) \/ IsReferenced(c)
          BY <2>1, <3>1, <3>6, <5>2, <4>2 DEF Placed
        <5>3. QED
          BY <5>1, <5>2 DEF Placed
      <4>3. QED
        BY <4>1, <4>2
    <3>q. \A c \in Blocks : c \in fresh' => InNoList(c)' /\ ~IsReferenced(c)'
      BY <2>1, <2>2, <3>1, <3>2, <3>4, <3>5, <3>6, <3>7
    <3>r. \A c \in Blocks : IsReferenced(c)' => InNoList(c)'
      BY <2>1, <2>2, <3>1, <3>2, <3>4, <3>5, <3>6, <3>7
    <3>s. \A u \in Threads : IsReturning(u)' => OnlyReturned(blk[u])'
      BY <2>1, <2>2, <3>1, <3>2, <3>4, <3>5, <3>6, <3>7 DEF OnlyReturned
    <3>t. \A u, v \in Threads : IsReturning(u)' /\ IsReturning(v)' /\ u # v => blk'[v] # blk'[u]
      BY <2>1, <2>2, <3>1, <3>2, <3>4, <3>5, <3>6, <3>7
    <3>u. \A i, j \in 1 .. Len(list') : i # j => list'[i] # list'[j]
      BY <2>1, <2>2, <3>1, <3>2, <3>4, <3>5, <3>6, <3>7
    <3>z. QED
      BY <3>p, <3>q, <3>r, <3>s, <3>t, <3>u DEF OnePlace
  <2>4. CASE FreeBlock(t)
    <3>1. /\ list # <<>> /\ list' = Tail(list) /\ fresh' = fresh \cup {Head(list)}
          /\ UNCHANGED blk /\ (IsReturning(t)' <=> IsReturning(t))
      BY <2>4 DEF FreeBlock, IsReturning
    <3>2. PICK b \in Blocks : b = Head(list)
      BY <3>1, WithoutFirst DEF PoolTypes
    <3>3. /\ Len(list) > 0 /\ b = list[1] /\ Len(list') = Len(list) - 1
          /\ \A i \in 1 .. Len(list') : list'[i] = list[i + 1]
      BY <3>1, <3>2, WithoutFirst DEF PoolTypes
    <3>4. InNoList(b)' /\ ~InNoList(b)
      BY <3>3 DEF InNoList
    <3>6. \A c \in Blocks \ {b} : InNoList(c) <=> InNoList(c)'
      <4>1. \A i \in 1 .. Len(list) : i = 1 \/ (i - 1 \in 1 .. Len(list') /\ list[i] = list'[i - 1])
        BY <3>3
      <4>2. \A i \in 1 .. Len(list') : i + 1 \in 1 .. Len(list)
        BY <3>3
      <4>3. QED
        BY <3>3, <4>1, <4>2 DEF InNoList
    <3>7. \A i, j \in 1 .. Len(list') : i # j => list'[i] # list'[j]
      BY <3>3
    <3>8. \A u \in Threads : IsReturning(u) => blk[u] # b
      BY <3>4 DEF OnlyReturned
    <3>p. \A c \in Blocks : Placed(c)'
      BY <2>1, <2>2, <3>1, <3>2, <3>4, <3>6, <3>7, <3>8 DEF Placed
    <3>q. \A c \in Blocks : c \in fresh' => InNoList(c)' /\ ~IsReferenced(c)'
      BY <2>1, <2>2, <3>1, <3>2, <3>4, <3>6, <3>7, <3>8
    <3>r. \A c \in Blocks : IsReferenced(c)' => InNoList(c)'
      BY <2>1, <2>2, <3>1, <3>2, <3>4, <3>6, <3>7, <3>8
    <3>s. \A u \in Threads : IsReturning(u)' => OnlyReturned(blk[u])'
      BY <2>1, <2>2, <3>1, <3>2, <3>4, <3>6, <3>7, <3>8 DEF OnlyReturned
    <3>t. \A u, v \in Threads : IsReturning(u)' /\ IsReturning(v)' /\ u # v => blk'[v] # blk'[u]
      BY <2>1, <2>2, <3>1, <3>2, <3>4, <3>6, <3>7, <3>8
    <3>u. \A i, j \in 1 .. Len(list') : i # j => list'[i] # list'[j]
      BY <2>1, <2>2, <3>1, <3>2, <3>4, <3>6, <3>7, <3>8
    <3>z. QED
      BY <3>p, <3>q, <3>r, <3>s, <3>t, <3>u DEF OnePlace
  <2>5. CASE ~Push(t) /\ ~FreeBlock(t)
    <3>1. UNCHANGED <<list, fresh>>
      BY <1>4, <2>5 DEF Others, PoolGet, GetFails, Count, MakeWritable, Written, CopyFails,
         Release, Leave, Uninit, FreePool, LeavePool, pool
    <3>2. \A c : InNoList(c)' <=> InNoList(c)
      BY <3>1 DEF InNoList
    <3>3. \/ ~IsReturning(t) /\ ~IsReturning(t)'
          \/ IsReturning(t) /\ IsReturning(t)' /\ blk'[t] = blk[t]
      <4>1. CASE PoolGet(t) \/ GetFails(t) \/ Count(t) \/ MakeWritable(t)
        BY <4>1 DEF PoolGet, GetFails, Count, MakeWritable, Go, PoolTypes, IsReturning
      <4>2. CASE Written(t) \/ CopyFails(t) \/ Leave(t) \/ Uninit(t) \/ FreePool(t)
        BY <4>2 DEF Written, CopyFails, Leave, Uninit, FreePool, LeavePool, Go, PoolTypes, IsReturning
      <4>3. CASE Release(t)
        BY <4>3 DEF Release, Go, PoolTypes, IsReturning
      <4>4. QED
        BY <1>4, <2>5, <4>1, <4>2, <4>3 DEF Others
    <3>p. \A c \in Blocks : Placed(c)'
      BY <2>1, <2>2, <3>1, <3>2, <3>3 DEF Placed
    <3>q. \A c \in Blocks : c \in fresh' => InNoList(c)' /\ ~IsReferenced(c)'
      BY <2>1, <2>2, <3>1, <3>2, <3>3
    <3>r. \A c \in Blocks : IsReferenced(c)' => InNoList(c)'
      BY <2>1, <2>2, <3>1, <3>2, <3>3
    <3>s. \A u \in Threads : IsReturning(u)' => OnlyReturned(blk[u])'
      BY <2>1, <2>2, <3>1, <3>2, <3>3 DEF OnlyReturned
    <3>t. \A u, v \in Threads : IsReturning(u)' /\ IsReturning(v)' /\ u # v => blk'[v] # blk'[u]
      BY <2>1, <2>2, <3>1, <3>2, <3>3
    <3>u. \A i, j \in 1 .. Len(list') : i # j => list'[i] # list'[j]
      BY <2>1, <2>2, <3>1, <3>2, <3>3
    <3>z. QED
      BY <3>p, <3>q, <3>r, <3>s, <3>t, <3>u DEF OnePlace
  <2>6. QED
    BY <2>3, <2>4, <2>5
<1>5. CASE UNCHANGED vars
  BY <1>5 DEF vars, shared, pool, OnePlace, Placed, OnlyReturned, InNoList, IsReferenced, IsReturning, RefsTo
<1>6. QED
  BY <1>1, <1>2, <1>3, <1>4, <1>5, StepKinds

\* How many users each step leaves.
LEMMA UsersStep ==
    ASSUME BufferInv, [Next]_vars
    PROVE  users' = (IF handle' THEN 1 ELSE 0) + Cardinality(Counted') + Cardinality(Leaving')
<1> DEFINE C == Cardinality(Counted)
           L == Cardinality(Leaving)
<1>a. /\ users = (IF handle THEN 1 ELSE 0) + C + L /\ C \in Nat /\ L \in Nat
      /\ IsFiniteSet(Counted) /\ IsFiniteSet(Leaving) /\ handle \in BOOLEAN /\ users \in Nat
      /\ pc \in [Threads -> Places] /\ blk \in [Threads -> Blocks \cup {None}]
      /\ \A t \in Threads : pc[t] = "got" => IsAlone(t)
  BY Finite DEF BufferInv, UsersCounted, PoolTypes, Holding
<1>1. ASSUME NEW t \in Threads, NEW b \in Blocks, NEW r \in Refs, TakeEffect(t, b, r)
      PROVE  users' = (IF handle' THEN 1 ELSE 0) + Cardinality(Counted') + Cardinality(Leaving')
  <2>1. /\ IsReferenced(b)' /\ ~IsReferenced(b)
        /\ \A c \in Blocks \ {b} : IsReferenced(c)' <=> IsReferenced(c)
    BY <1>1 DEF TakeEffect, IsReferenced
  <2>2. /\ pc[t] = "getting" /\ pc'[t] = "got" /\ blk'[t] = b /\ UNCHANGED <<users, handle>>
        /\ \A u \in Threads \ {t} : pc'[u] = pc[u] /\ blk'[u] = blk[u]
    BY <1>1, <1>a DEF TakeEffect
  <2>3. Counted' = Counted /\ Leaving' = Leaving
    BY <2>1, <2>2 DEF Counted, Leaving
  <2>4. QED
    BY <1>a, <2>2, <2>3
<1>2. ASSUME NEW t \in Threads, NEW b \in Blocks, NEW r \in Refs, RefEffect(t, b, r)
      PROVE  users' = (IF handle' THEN 1 ELSE 0) + Cardinality(Counted') + Cardinality(Leaving')
  <2>1. /\ \A c \in Blocks : IsReferenced(c)' <=> IsReferenced(c)
        /\ UNCHANGED <<pc, blk, users, handle>>
    BY <1>2 DEF RefEffect, IsReferenced, pool
  <2>2. Counted' = Counted /\ Leaving' = Leaving
    BY <2>1 DEF Counted, Leaving
  <2>3. QED
    BY <1>a, <2>1, <2>2
<1>3. ASSUME NEW t \in Threads, NEW b \in Blocks, NEW r \in Refs, DropEffect(t, b, r)
      PROVE  users' = (IF handle' THEN 1 ELSE 0) + Cardinality(Counted') + Cardinality(Leaving')
  <2>1. /\ IsReferenced(b) /\ \A c \in Blocks \ {b} : IsReferenced(c)' <=> IsReferenced(c)
        /\ UNCHANGED <<users, handle>> /\ pc[t] \in {"idle", "copying"}
        /\ \A v \in Threads : pc[v] = "got" => blk[v] # b
        /\ \/ ~IsReferenced(b)' /\ pc'[t] = "releasing"
           \/ IsReferenced(b)' /\ pc'[t] = "idle"
        /\ \A u \in Threads \ {t} : pc'[u] = pc[u] /\ blk'[u] = blk[u]
    BY <1>3, <1>a DEF DropEffect, IsReferenced, pool
  <2>2. CASE ~IsReferenced(b)' /\ pc'[t] = "releasing"
    <3>1. b \in Counted /\ Counted' = Counted \ {b}
      BY <2>1, <2>2 DEF Counted
    <3>2. t \notin Leaving /\ Leaving' = Leaving \cup {t}
      BY <2>1, <2>2 DEF Leaving
    <3>3. Cardinality(Counted') = C - 1 /\ Cardinality(Leaving') = L + 1
      BY <1>a, <3>1, <3>2, FS_RemoveElement, FS_AddElement
    <3>4. QED
      BY <1>a, <2>1, <3>3
  <2>3. CASE IsReferenced(b)' /\ pc'[t] = "idle"
    <3>1. Counted' = Counted
      BY <2>1, <2>3 DEF Counted
    <3>2. Leaving' = Leaving
      BY <2>1, <2>3 DEF Leaving
    <3>3. QED
      BY <1>a, <2>1, <3>1, <3>2
  <2>4. QED
    BY <2>1, <2>2, <2>3
<1>4. ASSUME NEW t \in Threads, Others(t)
      PROVE  users' = (IF handle' THEN 1 ELSE 0) + Cardinality(Counted') + Cardinality(Leaving')
  <2>1. \A c : IsReferenced(c)' <=> IsReferenced(c)
    BY <1>4, OthersKeepReferences
  <2>2. \A u \in Threads \ {t} : pc'[u] = pc[u] /\ blk'[u] = blk[u]
    BY <1>4, <1>a DEF Others, PoolGet, GetFails, Count, MakeWritable, Written, CopyFails, Release,
         Leave, Uninit, FreePool, Push, FreeBlock, LeavePool, Go, Has
  <2>3. CASE Count(t)
    <3>1. pc[t] = "got" /\ pc'[t] = "idle" /\ users' = users + 1 /\ UNCHANGED handle
      BY <2>3, <1>a DEF Count, Go
    <3>2. PICK b \in Blocks, r \in HeldBy(t) : b = blk[t] /\ RefsTo(b) = {r}
      BY <1>a, <3>1 DEF IsAlone
    <3>3. \A u \in Threads \ {t} : pc[u] = "got" => blk[u] # b
      BY <1>a, <3>2 DEF IsAlone, HeldBy
    <3>4. IsReferenced(b)
      BY <3>2 DEF IsReferenced
    <3>5. b \notin Counted /\ Counted' = Counted \cup {b}
      BY <2>1, <2>2, <3>1, <3>2, <3>3, <3>4 DEF Counted
    <3>6. Leaving' = Leaving
      BY <2>2, <3>1 DEF Leaving
    <3>7. Cardinality(Counted') = C + 1
      BY <1>a, <3>5, FS_AddElement
    <3>8. QED
      BY <1>a, <3>1, <3>6, <3>7
  <2>4. CASE ~Count(t)
    <3>1. pc[t] # "got" /\ pc'[t] # "got"
      <4>1. CASE PoolGet(t) \/ GetFails(t) \/ MakeWritable(t) \/ Push(t) \/ FreeBlock(t)
        BY <4>1, <1>a DEF PoolGet, GetFails, MakeWritable, Push, FreeBlock, Go
      <4>2. CASE Written(t) \/ CopyFails(t) \/ Leave(t) \/ Uninit(t) \/ FreePool(t) \/ Release(t)
        BY <4>2, <1>a DEF Written, CopyFails, Leave, Uninit, FreePool, Release, LeavePool, Go
      <4>3. QED
        BY <1>4, <2>4, <4>1, <4>2 DEF Others
    <3>2. Counted' = Counted
      BY <2>1, <2>2, <3>1 DEF Counted
    <3>3. CASE Leave(t)
      <4>1. /\ pc[t] = "pushed" /\ pc'[t] \in {"idle", "freeing"} /\ users' = users - 1
            /\ UNCHANGED handle
        BY <3>3, <1>a DEF Leave, LeavePool, Go
      <4>2. t \in Leaving /\ Leaving' = Leaving \ {t}
        BY <2>2, <4>1 DEF Leaving
      <4>3. Cardinality(Leaving') = L - 1
        BY <1>a, <4>2, FS_RemoveElement
      <4>4. QED
        BY <1>a, <3>2, <4>1, <4>3
    <3>4. CASE ~Leave(t)
      <4>1. t \in Leaving <=> t \in Leaving'
        <5>1. CASE PoolGet(t) \/ GetFails(t) \/ MakeWritable(t) \/ Push(t) \/ FreeBlock(t)
          BY <5>1, <1>a DEF PoolGet, GetFails, MakeWritable, Push, FreeBlock, Go, Leaving
        <5>2. CASE Written(t) \/ CopyFails(t) \/ Uninit(t) \/ FreePool(t) \/ Release(t)
          BY <5>2, <1>a DEF Written, CopyFails, Uninit, FreePool, Release, LeavePool, Go, Leaving
        <5>3. QED
          BY <1>4, <2>4, <3>4, <5>1, <5>2 DEF Others
      <4>2. \A u \in Threads : u \in Leaving <=> u \in Leaving'
        BY <2>2, <4>1 DEF Leaving
      <4>3. Leaving' = Leaving
        BY <4>2 DEF Leaving
      <4>4. \/ UNCHANGED <<users, handle>>
            \/ users' = users - 1 /\ handle /\ ~handle'
        BY <1>4, <2>4, <3>4 DEF Others, PoolGet, GetFails, MakeWritable, Written, CopyFails, Release,
             Uninit, FreePool, Push, FreeBlock, LeavePool, pool
      <4>5. QED
        BY <1>a, <3>2, <4>3, <4>4
    <3>5. QED
      BY <3>3, <3>4
  <2>5. QED
    BY <2>3, <2>4
<1>5. CASE UNCHANGED vars
  <2>1. UNCHANGED <<users, handle>> /\ Counted' = Counted /\ Leaving' = Leaving
    BY <1>5 DEF vars, shared, pool, Counted, Leaving, IsReferenced, RefsTo
  <2>2. QED
    BY <1>a, <2>1
<1>6. QED
  BY <1>1, <1>2, <1>3, <1>4, <1>5, StepKinds

\* users stays the sum of the pointer to the pool, the buffers counted and those leaving.
LEMMA UsersCountedStep ==
    ASSUME BufferInv, [Next]_vars
    PROVE  UsersCounted'
<1>a. /\ UsersCounted /\ pc \in [Threads -> Places]
  BY DEF BufferInv, PoolTypes
<1>b. users' = (IF handle' THEN 1 ELSE 0) + Cardinality(Counted') + Cardinality(Leaving')
  BY UsersStep
\* Once the pool is being freed only that goes on.
<1>c. ASSUME users = 0
      PROVE  /\ ~handle /\ \A t \in Threads : pc[t] \in {"idle", "freeing"} /\ HeldBy(t) = {}
  BY <1>c, NoUsers
<1>1. ASSUME NEW t \in Threads, NEW b \in Blocks, NEW r \in Refs,
             TakeEffect(t, b, r) \/ RefEffect(t, b, r) \/ DropEffect(t, b, r)
      PROVE  UsersCounted'
  <2>1. users # 0
    <3>1. CASE TakeEffect(t, b, r)
      BY <1>c, <3>1 DEF TakeEffect
    <3>2. CASE RefEffect(t, b, r)
      BY <3>2, NoUsers DEF RefEffect, IsReferenced
    <3>3. CASE DropEffect(t, b, r)
      BY <1>c, <3>3 DEF DropEffect
    <3>4. QED
      BY <1>1, <3>1, <3>2, <3>3
  <2>2. /\ UNCHANGED <<handle, freed>>
        /\ \/ pc' = pc
           \/ pc[t] = "getting" /\ pc' = [pc EXCEPT ![t] = "got"]
           \/ pc' = [pc EXCEPT ![t] = "idle"]
           \/ pc' = [pc EXCEPT ![t] = "releasing"]
    BY <1>1 DEF TakeEffect, RefEffect, DropEffect, pool
  <2>3. ~freed /\ \A u \in Threads : pc[u] # "freeing"
    BY <1>a, <2>1 DEF UsersCounted
  <2>4. ~freed' /\ \A u \in Threads : pc'[u] # "freeing" /\ (pc'[u] \in {"getting", "got"} => handle')
    BY <1>a, <2>2, <2>3 DEF UsersCounted
  <2>5. QED
    BY <1>b, <2>4 DEF UsersCounted
<1>2. ASSUME NEW t \in Threads, Others(t)
      PROVE  UsersCounted'
  <2>1. \A u \in Threads \ {t} : pc'[u] = pc[u]
    BY <1>2, <1>a DEF Others, PoolGet, GetFails, Count, MakeWritable, Written, CopyFails, Release,
         Leave, Uninit, FreePool, Push, FreeBlock, LeavePool, Go
  <2>2. CASE Leave(t) \/ Uninit(t)
    <3>1. users # 0 /\ ~freed /\ \A u \in Threads : pc[u] # "freeing"
      BY <1>a, <1>c, <2>2 DEF UsersCounted, Leave, Uninit
    <3>2. /\ users' = users - 1 /\ UNCHANGED freed
          /\ pc'[t] = IF users = 1 THEN "freeing" ELSE "idle"
          /\ handle' \/ \A u \in Threads : pc[u] \notin {"getting", "got"}
      BY <1>a, <2>2 DEF Leave, Uninit, LeavePool, IsLastUser, Go, UsersCounted
    <3>3. users' = 0 \/ \A u \in Threads : pc'[u] # "freeing"
      BY <2>1, <3>1, <3>2
    <3>4. \A u \in Threads : pc'[u] \in {"getting", "got"} => handle'
      BY <2>1, <3>2
    <3>5. QED
      BY <1>b, <2>1, <3>1, <3>2, <3>3, <3>4 DEF UsersCounted
  <2>3. CASE FreeBlock(t) \/ FreePool(t)
    <3>1. pc[t] = "freeing" /\ users = 0 /\ ~freed /\ \A u \in Threads \ {t} : pc[u] = "idle"
      BY <1>a, <1>c, <2>3 DEF FreeBlock, FreePool, UsersCounted
    <3>2. /\ UNCHANGED <<users, handle>>
          /\ \/ pc' = pc /\ UNCHANGED freed
             \/ pc'[t] = "idle" /\ UNCHANGED list /\ list = <<>>
      BY <1>a, <2>3 DEF FreeBlock, FreePool, Go
    <3>3. QED
      BY <1>b, <2>1, <3>1, <3>2 DEF UsersCounted
  <2>4. CASE PoolGet(t) \/ GetFails(t) \/ Count(t) \/ Push(t) \/ Release(t) \/ Written(t)
    <3>1. users # 0
      BY <1>c, <2>4 DEF PoolGet, GetFails, Count, Push, Release, Written
    <3>2. ~freed /\ \A u \in Threads : pc[u] # "freeing"
      BY <1>a, <3>1 DEF UsersCounted
    <3>3. /\ UNCHANGED <<handle, freed>> /\ pc'[t] # "freeing"
          /\ pc'[t] \in {"getting", "got"} => handle
      BY <1>a, <2>4 DEF PoolGet, GetFails, Count, Push, Release, Written, Go, pool
    <3>4. ~freed' /\ \A u \in Threads : pc'[u] # "freeing" /\ (pc'[u] \in {"getting", "got"} => handle')
      BY <1>a, <2>1, <3>2, <3>3 DEF UsersCounted
    <3>5. QED
      BY <1>b, <3>4 DEF UsersCounted
  <2>5. CASE MakeWritable(t) \/ CopyFails(t)
    <3>1. /\ UNCHANGED <<users, list, handle, freed>> /\ pc'[t] \in {"idle", "writing", "copying"}
      BY <1>a, <2>5 DEF MakeWritable, CopyFails, shared, pool, Go
    <3>2. QED
      BY <1>a, <1>b, <2>1, <3>1 DEF UsersCounted
  <2>6. QED
    BY <1>2, <2>2, <2>3, <2>4, <2>5 DEF Others
<1>3. CASE UNCHANGED vars
  BY <1>a, <1>b, <1>3 DEF vars, pool, UsersCounted
<1>4. QED
  BY <1>1, <1>2, <1>3, StepKinds

\* At first every block is still to be made, and the pool is used by its handle.
LEMMA BufferInit ==
    ASSUME Init
    PROVE  BufferInv
<1> USE Constants DEF Init
<1>1. PoolTypes
  <2>1. <<>> \in Seq(Blocks) /\ "idle" \in Places
    BY DEF Places
  <2>2. QED
    BY <2>1 DEF PoolTypes
<1>2. \A b : RefsTo(b) = {}
  BY DEF RefsTo
<1>3. Counted = {} /\ Leaving = {}
  BY <1>2 DEF Counted, Leaving, IsReferenced
<1>4. Cardinality({}) = 0
  BY FS_EmptySet
<1>5. RefsCounted /\ Holding /\ UnderMutex
  BY <1>2, <1>4 DEF RefsCounted, Holding, UnderMutex
<1>6. Len(list) = 0
  OBVIOUS
<1>7. OnePlace
  BY <1>2, <1>6 DEF OnePlace, Placed, OnlyReturned, IsReturning, InNoList, IsReferenced
<1>8. UsersCounted
  BY <1>3, <1>4 DEF UsersCounted
<1>9. QED
  BY <1>1, <1>5, <1>7, <1>8 DEF BufferInv

\* The pool and its buffers keep their invariant.
THEOREM BufferInvariant == Spec => []BufferInv
<1>1. Init => BufferInv
  BY BufferInit
<1>2. BufferInv /\ [Next]_vars => BufferInv'
  BY PoolTypesStep, RefsCountedStep, HoldingStep, UnderMutexStep, OnePlaceStep, UsersCountedStep
  DEF BufferInv
<1>3. QED
  BY <1>1, <1>2, PTL DEF Spec

-----------------------------------------------------------------------------
(* What it shows. *)

\* However many threads share the frames, who was told by av_buffer_make_writable that
\* it may write has the only reference for as long as it writes: av_buffer_is_writable
\* reads the counter without a lock, and nobody else can have a reference to copy.
THEOREM WriterAlwaysAlone == Spec => []WriterIsAlone
<1>1. BufferInv => WriterIsAlone
  BY DEF BufferInv, Holding, IsAlone, WriterIsAlone
<1>2. QED
  BY <1>1, BufferInvariant, PTL

\* The pool is freed when every block has come back and no thread is in it, and with
\* it all its blocks: pool_release_buffer and av_buffer_pool_uninit count users, and a
\* buffer that av_buffer_pool_get has not counted yet cannot be the last.
THEOREM PoolAlwaysOutlivesUse == Spec => []PoolOutlivesUse
<1>1. ASSUME BufferInv, freed
      PROVE  fresh = Blocks /\ mutex = None /\ \A t \in Threads : pc[t] = "idle"
  <2>1. users = 0 /\ list = <<>> /\ \A t \in Threads : pc[t] # "freeing"
    BY <1>1 DEF BufferInv, UsersCounted
  <2>2. (\A b \in Blocks : ~IsReferenced(b)) /\ \A t \in Threads : pc[t] = "idle"
    BY <1>1, <2>1, NoUsers
  <2>3. \A b \in Blocks : InNoList(b)
    BY <2>1 DEF InNoList
  <2>4. \A b \in Blocks : b \in fresh
    BY <1>1, <2>2, <2>3 DEF BufferInv, OnePlace, Placed, IsReturning
  <2>5. mutex = None
    BY <1>1, <2>2 DEF BufferInv, PoolTypes, UnderMutex
  <2>6. QED
    BY <1>1, <2>2, <2>4, <2>5 DEF BufferInv, PoolTypes
<1>2. BufferInv => PoolOutlivesUse
  BY <1>1 DEF PoolOutlivesUse
<1>3. QED
  BY <1>2, BufferInvariant, PTL

\* A block of a pool is in one place, never twice in the list or in the list and in a
\* frame: a decoder never writes into the memory of another frame.
THEOREM BlocksAlwaysOnce == Spec => []BlocksAreOnce
<1>1. ASSUME BufferInv, NEW b \in Blocks
      PROVE  (IF b \in fresh THEN 1 ELSE 0) + Cardinality(InList(b))
               + (IF RefsTo(b) # {} THEN 1 ELSE 0) + Cardinality(Returning(b)) = 1
  <2>a. PoolTypes /\ OnePlace /\ Len(list) \in Nat
    BY <1>1 DEF BufferInv, PoolTypes
  <2>1. /\ InNoList(b) => InList(b) = {}
        /\ ~InNoList(b) => \E i : InList(b) = {i}
    BY <2>a DEF InNoList, InList, OnePlace
  <2>2. \/ Returning(b) = {}
        \/ \E t \in Threads : IsReturning(t) /\ blk[t] = b /\ Returning(b) = {t}
    BY <2>a DEF OnePlace, Returning, IsReturning
  <2>3. Cardinality({}) = 0 /\ \A x : Cardinality({x}) = 1
    BY FS_EmptySet, FS_Singleton
  <2>4. Cardinality(InList(b)) = IF InNoList(b) THEN 0 ELSE 1
    BY <2>1, <2>3
  <2>5. CASE Returning(b) = {}
    <3>1. ~ \E t \in Threads : IsReturning(t) /\ blk[t] = b
      BY <2>5 DEF Returning, IsReturning
    <3>2. QED
      BY <2>a, <2>3, <2>4, <2>5, <3>1 DEF OnePlace, Placed, IsReferenced
  <2>6. CASE \E t \in Threads : IsReturning(t) /\ blk[t] = b /\ Returning(b) = {t}
    <3>1. OnlyReturned(b) /\ Cardinality(Returning(b)) = 1
      BY <2>a, <2>3, <2>6 DEF OnePlace
    <3>2. QED
      BY <2>4, <3>1 DEF OnlyReturned, IsReferenced
  <2>7. QED
    BY <2>2, <2>5, <2>6
<1>2. BufferInv => BlocksAreOnce
  BY <1>1 DEF BlocksAreOnce
<1>3. QED
  BY <1>2, BufferInvariant, PTL

\* The counters count, for any number of threads, blocks and references: the counter of a
\* buffer is that of its references, and the counter of the pool falls short of its
\* users by exactly the buffers that av_buffer_pool_get (338-361) took and has not
\* counted yet, each of another thread.
THEOREM CountersAlwaysCount == Spec => []CountersCount
<1>1. ASSUME BufferInv
      PROVE  CountersCount
  <2> DEFINE Got == {t \in Threads : pc[t] = "got"}
             Used == {b \in Blocks : refcount[b] # 0}
             Early == Used \ Counted
             f == [t \in Got |-> blk[t]]
  <2>1. \A b \in Blocks : refcount[b] = Cardinality(RefsTo(b)) /\ (refcount[b] # 0 <=> IsReferenced(b))
    BY <1>1, Finite, FS_EmptySet DEF BufferInv, RefsCounted, IsReferenced
  <2>2. ASSUME NEW t \in Got
        PROVE  blk[t] \in Early /\ \E r \in HeldBy(t) : RefsTo(blk[t]) = {r}
    <3>1. blk[t] \in Blocks /\ \E r \in HeldBy(t) : RefsTo(blk[t]) = {r}
      BY <1>1 DEF BufferInv, Holding, IsAlone
    <3>2. IsReferenced(blk[t]) /\ blk[t] \notin Counted
      BY <3>1 DEF IsReferenced, Counted
    <3>3. QED
      BY <2>1, <3>1, <3>2
  <2>3. \A t, u \in Got : f[t] = f[u] => t = u
    <3> SUFFICES ASSUME NEW t \in Got, NEW u \in Got, f[t] = f[u]
                 PROVE  t = u
      OBVIOUS
    <3>1. PICK r \in HeldBy(t), p \in HeldBy(u) : RefsTo(blk[t]) = {r} /\ RefsTo(blk[u]) = {p}
      BY <2>2
    <3>2. r = p
      BY <3>1
    <3>3. QED
      BY <3>1, <3>2 DEF HeldBy
  <2>4. \A b \in Early : \E t \in Got : f[t] = b
    BY <2>1 DEF Counted
  <2>5. f \in Bijection(Got, Early)
    <3>1. f \in [Got -> Early]
      BY <2>2
    <3> HIDE DEF f, Got, Early
    <3>2. QED
      BY <2>3, <2>4, <3>1 DEF Bijection, Injection, Surjection, IsInjective
  <2>6. IsFiniteSet(Got) /\ IsFiniteSet(Used)
    BY Constants, FS_Subset
  <2>7. Cardinality(Early) = Cardinality(Got)
    <3>1. ExistsBijection(Got, Early)
      BY <2>5 DEF ExistsBijection
    <3> HIDE DEF Got, Early
    <3>2. QED
      BY <2>6, <3>1, FS_Bijection
  <2>8. Used \cap Counted = Counted
    BY <2>1 DEF Counted
  <2>9. Cardinality(Early) = Cardinality(Used) - Cardinality(Counted)
    <3> HIDE DEF Used
    <3>1. QED
      BY <2>6, <2>8, FS_Difference
  <2>10. users = (IF handle THEN 1 ELSE 0) + Cardinality(Counted) + Cardinality(Leaving)
    BY <1>1 DEF BufferInv, UsersCounted
  <2>11. Cardinality(Got) \in Nat /\ Cardinality(Used) \in Nat
    BY <2>6, FS_CardinalityType
  <2> HIDE DEF Got, Used, Early
  <2>12. users + Cardinality(Got) = (IF handle THEN 1 ELSE 0) + Cardinality(Used) + Cardinality(Leaving)
    BY <2>7, <2>9, <2>10, <2>11, Finite
  <2>13. QED
    BY <2>1, <2>12 DEF CountersCount, Leaving, Got, Used
<1>2. QED
  BY <1>1, BufferInvariant, PTL
=============================================================================
