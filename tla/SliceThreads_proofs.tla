------------------------- MODULE SliceThreads_proofs -------------------------
(* The theorems about SliceThreads, for every number of threads, kind of    *)
(* decoder and number of calls.                                             *)
EXTENDS SliceThreads, TLAPS, FiniteSetTheorems, WellFoundedInduction

Running == {"run", "row", "asleep", "decode", "row_done", "failed"}
Places == Running \cup {"waiting", "first", "next", "last", "over", "gone",
                        "idle", "waking", "joining", "freeing"}
Calling == pc[Main] \notin {"idle", "freeing", "gone"}

SliceTypes ==
    /\ setup \in Setups
    /\ started \in 0 .. NbWanted(setup)
    /\ finished \in BOOLEAN /\ done \in BOOLEAN /\ err \in BOOLEAN
    /\ nbJobs \in Nat /\ active \in 0 .. N
    /\ firstJob \in Nat /\ currentJob \in Nat /\ woken \in 0 .. N
    /\ pc \in [AllThreads -> Places]
    /\ job \in [AllThreads -> Nat] /\ number \in [AllThreads -> Nat]
    /\ todo \in SUBSET Nat

\* Where the calling thread and the workers are: a worker that has not been woken
\* in the call still ends the one before.
Phases ==
    /\ pc[Main] # "waiting"
    /\ \A w \in Workers : pc[w] \notin {"idle", "waking", "joining", "freeing"}
    /\ setup.mainfunc => pc[Main] \in {"idle", "waking", "joining", "freeing", "gone"}
    /\ pc[Main] \in {"freeing", "gone"} <=> finished
    /\ ~finished => started = NbWanted(setup)
    /\ Calling => /\ active <= nbJobs /\ active > 0 /\ nbJobs \in setup.jobs
                  /\ woken <= NbWorkers
                  /\ pc[Main] # "waking" => woken = NbWorkers
                  /\ \A w \in Workers : /\ w < woken => pc[w] # "gone"
                                        /\ w >= woken => pc[w] \in {"waiting", "over"}
    /\ pc[Main] = "idle" => \A w \in Workers : pc[w] \in {"waiting", "over"}
    /\ pc[Main] \in {"freeing", "gone"} =>
         \A w \in Workers : pc[w] \in {"waiting", "over", "first", "gone"}
    /\ ~Calling => ~done /\ todo = {}

\* The threads of a call, those that have not asked for their first job, and those
\* that have found no further one.
Participants == (0 .. NbWorkers - 1) \cup (IF setup.mainfunc THEN {} ELSE {Main})
Unstarted ==
    {q \in Participants : (q # Main /\ q >= woken) \/ pc[q] \in {"first", "waking"}}
Ended ==
    {q \in Participants : /\ q # Main => q < woken
                          /\ pc[q] \in {"over", "last", "waiting", "joining"}}
Busy(q) == InJob(q) \/ pc[q] = "next"

\* first_job counts the threads that have asked, and numbers them.
FirstCounts ==
    Calling => /\ firstJob + Cardinality(Unstarted) = active
               /\ \A q \in Threads : Busy(q) => number[q] < firstJob
               /\ \A p, q \in Threads : Busy(p) /\ Busy(q) /\ p # q => number[p] # number[q]

\* Beyond nb_jobs current_job counts the threads that have ended; the last of them
\* is reported when all have.
CurrentCounts ==
    Calling =>
      /\ active <= currentJob
      /\ \/ currentJob <= nbJobs /\ Ended = {}
         \/ currentJob = nbJobs + Cardinality(Ended)
      /\ done => Ended = Participants /\ \A q \in Threads : pc[q] # "last"
      /\ \A q \in Threads : pc[q] = "last" =>
           /\ Ended = Participants /\ ~done
           /\ \A p \in Threads \ {q} : pc[p] # "last"

\* A job that has not been run is in nobody's hands or in those of one thread.
Unassigned(j) == (firstJob <= j /\ j < active) \/ currentJob <= j
JobsAreApart ==
    Calling =>
      /\ \A j \in todo : j < nbJobs /\ (Unassigned(j) \/ \E q \in Threads : InJob(q) /\ job[q] = j)
      /\ \A j \in 0 .. nbJobs - 1 : Unassigned(j) => j \in todo
      /\ \A q \in Threads : InJob(q) => job[q] \in todo /\ ~Unassigned(job[q])
      /\ \A p, q \in Threads : InJob(p) /\ InJob(q) /\ p # q => job[p] # job[q]

PoolInv == SliceTypes /\ Phases /\ FirstCounts /\ CurrentCounts /\ JobsAreApart

\* A row reports a column when it has been decoded, and Shift more when it is
\* finished or given up.
RowTypes ==
    /\ entries \in [Jobs -> Nat] /\ decoded \in [Jobs -> Nat]
    /\ \A s \in Setups : s.cols \in Nat
RowsReport ==
    /\ \A q \in Threads : /\ pc[q] = "run" => setup.cols = 0
                          /\ pc[q] \in Running \ {"run"} => setup.cols # 0
                          /\ pc[q] = "row_done" => decoded[job[q]] = setup.cols
                          /\ pc[q] = "failed" => err
    /\ Calling /\ setup.cols # 0 =>
         \A r \in Jobs : r < nbJobs =>
           /\ r \in todo => entries[r] = decoded[r]
           /\ r \notin todo => /\ entries[r] = decoded[r] + Shift
                               /\ decoded[r] = setup.cols \/ err
RowInv == RowTypes /\ RowsReport /\ WavefrontIsAhead

-----------------------------------------------------------------------------
(* The constants, and the threads of a call. *)

\* What the assumptions on the constants say of the threads and the setups.
LEMMA Constants ==
    /\ N \in Nat /\ N >= 2 /\ Main \notin Nat
    /\ \A s \in Setups : /\ s.mainfunc \in BOOLEAN /\ s.cols \in Nat
                         /\ s.jobs \in SUBSET (Nat \ {0}) /\ NbWanted(s) \in 0 .. N
BY NAssumption, MainAssumption, SetupsAssumption
   DEF NAssumption, MainAssumption, SetupsAssumption, NbWanted

\* A call with "a" active threads has as many participants.
LEMMA CallCounted ==
    ASSUME NEW m \in BOOLEAN, NEW a \in Nat, a > 0,
           NEW P, P = (0 .. (IF m THEN a ELSE a - 1) - 1) \cup (IF m THEN {} ELSE {Main})
    PROVE  IsFiniteSet(P) /\ Cardinality(P) = a
<1> DEFINE n == IF m THEN a ELSE a - 1
<1>1. n \in Nat /\ IsFiniteSet(0 .. n - 1) /\ Cardinality(0 .. n - 1) = n
  BY FS_Interval
<1>2. CASE m
  BY <1>1, <1>2
<1>3. CASE ~m
  <2>1. Main \notin 0 .. n - 1
    BY Constants
  <2>2. P = (0 .. n - 1) \cup {Main}
    BY <1>3
  <2> DEFINE W == 0 .. n - 1
  <2>3. IsFiniteSet(W) /\ Main \notin W /\ P = W \cup {Main} /\ Cardinality(W) = a - 1
    BY <1>1, <1>3, <2>1, <2>2
  <2> HIDE DEF W
  <2>4. IsFiniteSet(P) /\ Cardinality(P) = Cardinality(W) + 1
    BY <2>3, FS_AddElement
  <2>5. QED
    BY <2>3, <2>4
<1>4. QED
  BY <1>2, <1>3

\* None of the threads of a call is missing.
LEMMA ParticipantsCounted ==
    ASSUME SliceTypes, Phases, Calling
    PROVE  /\ Participants \in SUBSET Threads
           /\ IsFiniteSet(Participants) /\ Cardinality(Participants) = active
           /\ IsFiniteSet(Unstarted) /\ IsFiniteSet(Ended)
<1>1. /\ active \in Nat /\ active > 0 /\ active <= N /\ NbWorkers \in Nat
      /\ NbWorkers = IF setup.mainfunc THEN active ELSE active - 1
      /\ setup.mainfunc \in BOOLEAN
  BY Constants DEF SliceTypes, Phases, NbWorkers
<1>2. ~finished /\ started = NbWanted(setup)
  BY DEF Calling, Phases
<1>3. 0 .. NbWorkers - 1 \in SUBSET Workers
  BY <1>1, <1>2, Constants DEF Workers, NbWanted, SliceTypes
<1>4. IsFiniteSet(Participants) /\ Cardinality(Participants) = active
  BY <1>1, CallCounted DEF Participants
<1>5. Unstarted \in SUBSET Participants /\ Ended \in SUBSET Participants
  BY DEF Unstarted, Ended
<1>6. QED
  BY <1>3, <1>4, <1>5, FS_Subset DEF Participants, Threads

\* Who is at work takes part in a call, has asked and has not ended.
LEMMA BusyTakesPart ==
    ASSUME SliceTypes, Phases, NEW q \in Threads,
           Busy(q) \/ pc[q] \in {"last", "joining"} \/ (pc[q] = "first" /\ ~finished)
           \/ (q = Main /\ pc[q] = "over")
    PROVE  /\ Calling
           /\ q # Main => q < woken /\ q \in Workers
           /\ pc[q] # "joining" \/ ~setup.mainfunc => q \in Participants
BY Constants DEF SliceTypes, Phases, Calling, Busy, InJob, Threads, Workers, Participants, NbWorkers

\* When all have ended nothing is left to do.
LEMMA NothingLeft ==
    ASSUME PoolInv, Calling, Ended = Participants
    PROVE  /\ todo = {}
           /\ \A q \in Threads : ~Busy(q)
           /\ \A w \in Workers : pc[w] \in {"waiting", "over", "last"}
<1> USE DEF PoolInv
<1>1. /\ IsFiniteSet(Participants) /\ Cardinality(Participants) = active
      /\ Participants \in SUBSET Threads
  BY ParticipantsCounted
<1>2. active \in Nat /\ active > 0 /\ nbJobs \in Nat /\ firstJob \in Nat /\ currentJob \in Nat
  BY Constants DEF SliceTypes, Phases
<1>3. Participants # {}
  BY <1>1, <1>2, FS_EmptySet
<1>4. Unstarted = {}
  BY Constants, <1>2 DEF Ended, Unstarted, Participants, SliceTypes, NbWorkers
<1>5. firstJob = active
  BY <1>2, <1>4, FS_EmptySet DEF FirstCounts
<1>6. currentJob >= nbJobs
  BY <1>1, <1>2, <1>3 DEF CurrentCounts
<1>7. \A q \in Threads : ~Busy(q)
  BY BusyTakesPart DEF Ended, Busy, InJob
<1>8. todo = {}
  BY <1>2, <1>5, <1>6, <1>7 DEF JobsAreApart, Unassigned, Busy, SliceTypes
<1>9. ASSUME NEW w \in Workers
      PROVE  pc[w] \in {"waiting", "over", "last"}
  <2>1. CASE w \in Participants
    BY <1>9, <2>1, Constants DEF Ended, Phases, Workers
  <2>2. CASE w \notin Participants
    <3>1. w >= NbWorkers /\ woken <= NbWorkers
      BY <1>9, <2>2, <1>2, Constants DEF Participants, Phases, Workers, NbWorkers, SliceTypes
    <3>2. QED
      BY <3>1, <1>9, <1>2, Constants DEF Phases, Workers, SliceTypes, NbWorkers
  <2>3. QED
    BY <2>1, <2>2
<1>10. QED
  BY <1>7, <1>8, <1>9

-----------------------------------------------------------------------------
(* Types and places. *)

\* The numbers and places that the steps name are of their types.
LEMMA ThreadsKnown ==
    ASSUME SliceTypes
    PROVE  /\ Threads \in SUBSET AllThreads /\ Main \in AllThreads
           /\ Running \cup {"waiting", "first", "next", "last", "over", "gone", "idle",
                            "waking", "joining", "freeing"} \in SUBSET Places
           /\ Begins \in Running
           /\ started \in Nat /\ started <= N /\ NbWorkers <= N
           /\ Workers \in SUBSET Nat
BY Constants DEF SliceTypes, Threads, Workers, AllThreads, Places, Running, Begins, NbWanted, NbWorkers

\* A thread that goes on stays in a place.
LEMMA GoTypes ==
    ASSUME NEW q \in AllThreads, NEW where \in Places, pc \in [AllThreads -> Places],
           Go(q, where)
    PROVE  pc' \in [AllThreads -> Places]
BY DEF Go

\* The variables keep their types.
LEMMA TypesStep ==
    ASSUME SliceTypes, [Next]_vars
    PROVE  SliceTypes'
<1> USE Constants, ThreadsKnown DEF SliceTypes, pool, counters, rows
<1>1. ASSUME NEW n \in setup.jobs, Execute(n)
      PROVE  SliceTypes'
  <2>1. n \in Nat /\ Minimum(n, N) \in 0 .. N /\ Minimum(n, N) \in Nat /\ 0 .. n - 1 \in SUBSET Nat
    BY DEF Minimum
  <2>2. pc' \in [AllThreads -> Places]
    BY <1>1, GoTypes DEF Execute
  <2>3. /\ nbJobs' = n /\ active' = Minimum(n, N) /\ firstJob' = 0 /\ currentJob' = Minimum(n, N)
        /\ err' = FALSE /\ woken' = 0 /\ todo' = 0 .. n - 1
        /\ UNCHANGED <<setup, started, finished, done, job, number>>
    BY <1>1 DEF Execute
  <2>4. 0 \in 0 .. N
    OBVIOUS
  <2>5. QED
    BY <2>1, <2>2, <2>3, <2>4
<1>2. CASE Free
  <2>1. pc' \in [AllThreads -> Places]
    BY <1>2, GoTypes DEF Free
  <2>2. QED
    BY <1>2, <2>1 DEF Free
<1>3. CASE Join \/ Freed
  <2>1. pc' \in [AllThreads -> Places]
    BY <1>3, GoTypes DEF Join, Freed
  <2>2. QED
    BY <1>3, <2>1 DEF Join, Freed
<1>4. CASE Wake
  <2>1. woken \in Nat /\ woken + 1 \in 0 .. N
    BY <1>4 DEF Wake, NbWorkers
  <2>2. woken \in AllThreads
    BY <1>4, <2>1 DEF AllThreads
  <2>3. pc' \in [AllThreads -> Places]
    BY <1>4, <2>2, GoTypes DEF Wake
  <2>4. QED
    BY <1>4, <2>1, <2>3 DEF Wake
<1>5. CASE AllWoken
  <2>1. pc' \in [AllThreads -> Places]
    BY <1>5, GoTypes DEF AllWoken
  <2>2. QED
    BY <1>5, <2>1 DEF AllWoken
<1>6. ASSUME NEW q \in Threads, Thread(q)
      PROVE  SliceTypes'
  <2> q \in AllThreads
    OBVIOUS
  <2>1. CASE Exit(q)
    <3>1. pc' \in [AllThreads -> Places]
      BY <2>1, GoTypes DEF Exit
    <3>2. QED
      BY <2>1, <3>1 DEF Exit
  <2>9. CASE RowFails(q)
    <3>1. pc' \in [AllThreads -> Places]
      BY <2>9, GoTypes DEF RowFails, Running
    <3>2. QED
      BY <2>9, <3>1 DEF RowFails
  <2>2. CASE FirstJob(q)
    <3>1. pc' \in [AllThreads -> Places]
      BY <2>2, GoTypes DEF FirstJob
    <3>2. /\ job' \in [AllThreads -> Nat] /\ number' \in [AllThreads -> Nat]
          /\ firstJob' \in Nat
      BY <2>2 DEF FirstJob, Incremented
    <3>3. QED
      BY <2>2, <3>1, <3>2 DEF FirstJob
  <2>3. CASE NextJob(q)
    <3>1. pc' \in [AllThreads -> Places]
      BY <2>3, GoTypes DEF NextJob
    <3>2. QED
      BY <2>3, <3>1 DEF NextJob, Incremented
  <2>4. CASE Await(q)
    <3>1. pc' \in [AllThreads -> Places]
      BY <2>4, GoTypes DEF Await, Running
    <3>2. QED
      BY <2>4, <3>1 DEF Await
  <2>5. CASE Decode(q)
    <3>1. pc' \in [AllThreads -> Places]
      BY <2>5, GoTypes DEF Decode, Running
    <3>2. QED
      BY <2>5, <3>1 DEF Decode
  <2>6. CASE RunJob(q) \/ RowDone(q)
    <3>1. pc' \in [AllThreads -> Places]
      BY <2>6, GoTypes DEF RunJob, RowDone, Finished
    <3>2. QED
      BY <2>6, <3>1 DEF RunJob, RowDone, Finished
  <2>7. CASE Over(q)
    <3>1. pc' \in [AllThreads -> Places]
      BY <2>7, GoTypes DEF Over
    <3>2. QED
      BY <2>7, <3>1 DEF Over
  <2>8. QED
    BY <1>6, <2>1, <2>9, <2>2, <2>3, <2>4, <2>5, <2>6, <2>7 DEF Thread
<1>7. CASE UNCHANGED vars
  BY <1>7 DEF vars
<1>8. QED
  BY <1>1, <1>2, <1>3, <1>4, <1>5, <1>6, <1>7 DEF Next, MainStep

\* How a thread moves within its jobs leaves the call as it is.
Within(q) ==
    /\ pc[q] \in Running
    /\ \E where \in Running \cup {"next"} : Go(q, where)
    /\ UNCHANGED <<pool, counters, done, woken, number, job>>
    /\ \/ todo' = todo /\ pc'[q] \in Running
       \/ todo' = todo \ {job[q]} /\ pc'[q] = "next"

\* The steps of a row and of a job are steps within the jobs of a call.
LEMMA WithinSteps ==
    ASSUME NEW q \in Threads, SliceTypes,
           RowFails(q) \/ Await(q) \/ Decode(q) \/ RunJob(q) \/ RowDone(q)
    PROVE  Within(q) /\ InJob(q)
<1> USE ThreadsKnown DEF Within, InJob, Running, Go, pool, counters, SliceTypes
<1>1. CASE RowFails(q)
  BY <1>1 DEF RowFails
<1>2. CASE Await(q)
  BY <1>2 DEF Await
<1>3. CASE Decode(q)
  BY <1>3 DEF Decode
<1>4. CASE RunJob(q)
  BY <1>4 DEF RunJob, Finished
<1>5. CASE RowDone(q)
  BY <1>5 DEF RowDone, Finished
<1>6. QED
  BY <1>1, <1>2, <1>3, <1>4, <1>5

\* Where the caller and the workers are keeps agreeing with what the pool is doing.
LEMMA PhasesStep ==
    ASSUME PoolInv, [Next]_vars
    PROVE  Phases'
<1> USE Constants DEF SliceTypes, Phases, AllThreads, Threads, Workers, Go, pool, counters,
    Calling, NbWorkers
<1>a. SliceTypes /\ Phases
  BY DEF PoolInv
<1>1. ASSUME NEW n \in setup.jobs, Execute(n)
      PROVE  Phases'
  <2>1. n \in Nat /\ n > 0 /\ Minimum(n, N) <= n /\ Minimum(n, N) > 0 /\ Minimum(n, N) \in Nat
    BY <1>a DEF Minimum
  <2>2. QED
    BY <1>a, <1>1, <2>1 DEF Execute
<1>2. CASE Free
  BY <1>a, <1>2 DEF Free
<1>f. CASE Freed
  BY <1>a, <1>f DEF Freed
<1>3. CASE Wake
  BY <1>a, <1>3 DEF Wake, CanWake
<1>4. CASE AllWoken
  BY <1>a, <1>4 DEF AllWoken
<1>5. ASSUME Calling, Ended = Participants, UNCHANGED <<setup, started, finished, todo>>,
             Go(Main, "idle"), ~done', \A q \in Workers : pc[q] # "last"
      PROVE  Phases'
  <2>1. todo = {} /\ \A w \in Workers : pc[w] \in {"waiting", "over", "last"}
    BY <1>5, NothingLeft
  <2>2. QED
    BY <1>a, <1>5, <2>1
<1>6. CASE Join
  BY <1>5, <1>6 DEF Join, PoolInv, CurrentCounts
<1>7. ASSUME NEW q \in Threads, Thread(q)
      PROVE  Phases'
  <2>1. CASE Exit(q)
    BY <1>a, <2>1 DEF Exit
  <2>2. CASE FirstJob(q)
    BY <1>a, <2>2, <1>7, BusyTakesPart DEF FirstJob, Begins, Participants
  <2>3. CASE NextJob(q)
    <3>1. \E where \in Running \cup {"last", "over"} : Go(q, where)
      BY <1>a, <2>3, ThreadsKnown DEF NextJob
    <3>2. Calling /\ (q # Main => q < woken) /\ (setup.mainfunc => q # Main)
      BY <1>a, <1>7, <2>3, BusyTakesPart DEF Busy, Participants, NextJob
    <3>3. UNCHANGED <<setup, started, finished, nbJobs, active, done, woken, todo>>
      BY <2>3 DEF NextJob
    <3>4. PICK where \in Running \cup {"last", "over"} : Go(q, where)
      BY <3>1
    <3>5. where \notin {"idle", "waking", "joining", "freeing", "waiting", "gone"}
      BY DEF Running
    <3>6. pc' = [pc EXCEPT ![q] = where] /\ pc'[q] = where
      BY <1>a, <1>7, <3>4
    <3>7. pc[q] = "next"
      BY <2>3 DEF NextJob
    <3>8. CASE q = Main
      BY <1>a, <1>7, <3>2, <3>3, <3>5, <3>6, <3>7, <3>8
    <3>9. CASE q # Main
      BY <1>a, <1>7, <3>2, <3>3, <3>5, <3>6, <3>7, <3>9
    <3>10. QED
      BY <3>8, <3>9
  <2>4. CASE Over(q)
    <3>1. CASE q = Main /\ pc[q] = "last"
      <4>1. Calling /\ Ended = Participants /\ ~done /\ \A p \in Workers : pc[p] # "last"
        BY <1>a, <1>7, <3>1 DEF PoolInv, CurrentCounts
      <4>2. QED
        BY <1>5, <4>1, <2>4, <3>1 DEF Over
    <3>2. CASE q # Main
      <4>1. /\ Go(q, "waiting") /\ pc[q] \in {"last", "over"}
            /\ UNCHANGED <<pool, counters, woken, todo>>
            /\ done' = (done \/ pc[q] = "last")
        BY <2>4, <3>2 DEF Over
      <4>2. pc' = [pc EXCEPT ![q] = "waiting"]
        BY <4>1 DEF Go
      <4>3. QED
        BY <1>a, <1>7, <3>2, <4>1, <4>2
    <3>3. CASE q = Main /\ pc[q] = "over"
      BY <1>a, <1>7, <2>4, <3>3 DEF Over
    <3>4. QED
      BY <2>4, <3>1, <3>2, <3>3 DEF Over
  <2>5. CASE RowFails(q) \/ Await(q) \/ Decode(q) \/ RunJob(q) \/ RowDone(q)
    <3>1. Within(q) /\ InJob(q)
      BY <1>a, <1>7, <2>5, WithinSteps
    <3>2. Calling /\ (q # Main => q < woken) /\ (setup.mainfunc => q # Main)
      BY <1>a, <1>7, <3>1, BusyTakesPart DEF Busy, Within, Running
    <3>3. QED
      BY <1>a, <1>7, <3>1, <3>2 DEF Within, Running
  <2>6. QED
    BY <1>7, <2>1, <2>2, <2>3, <2>4, <2>5 DEF Thread
<1>8. CASE UNCHANGED vars
  BY <1>a, <1>8 DEF vars
<1>9. QED
  BY <1>1, <1>2, <1>f, <1>3, <1>4, <1>6, <1>7, <1>8 DEF Next, MainStep

-----------------------------------------------------------------------------
(* How the steps change who has not begun and who has ended. *)

\* Within a call most steps leave them as they are, and the counters too.
LEMMA QuietStep ==
    ASSUME PoolInv, Calling, Calling',
           \/ Wake \/ AllWoken \/ UNCHANGED vars
           \/ \E q \in Threads : Over(q) \/ Within(q)
    PROVE  /\ Participants' = Participants /\ Threads' = Threads
           /\ Unstarted' = Unstarted /\ Ended' = Ended
           /\ UNCHANGED <<setup, counters, number, job>>
           /\ \A q \in Threads : /\ Busy(q)' = Busy(q)
                                 /\ InJob(q)' => InJob(q)
<1> DEFINE Quiet == /\ Unstarted' = Unstarted /\ Ended' = Ended
                    /\ \A q \in Threads : /\ Busy(q)' = Busy(q)
                                          /\ InJob(q)' => InJob(q)
<1> USE Constants DEF SliceTypes, Phases, Calling, PoolInv, AllThreads, Go, counters, pool, InJob
<1>1. UNCHANGED <<setup, started, counters, number, job>>
  BY DEF Wake, AllWoken, Over, Within, vars
<1>2. Participants' = Participants /\ Threads' = Threads /\ NbWorkers' = NbWorkers
  BY <1>1 DEF Participants, NbWorkers, Threads, Workers
<1>3. ASSUME Wake
      PROVE  Quiet
  <2>1. /\ woken \in Nat /\ woken \in AllThreads /\ woken # Main /\ woken' = woken + 1
        /\ pc[woken] = "waiting" /\ pc' = [pc EXCEPT ![woken] = "first"]
    BY <1>3 DEF Wake, CanWake, NbWorkers
  <2>2. \A q \in Participants : q # Main => q \in Nat
    BY DEF Participants
  <2>3. \A q \in Participants : q \in Unstarted <=> q \in Unstarted'
    BY <1>2, <2>1, <2>2 DEF Unstarted
  <2>4. \A q \in Participants : q \in Ended <=> q \in Ended'
    BY <1>2, <2>1, <2>2 DEF Ended
  <2>5. Unstarted' = Unstarted /\ Ended' = Ended
    BY <1>2, <2>3, <2>4 DEF Unstarted, Ended
  <2>6. QED
    BY <1>1, <1>2, <2>1, <2>5 DEF Busy
<1>4. ASSUME AllWoken
      PROVE  Quiet
  <2>1. UNCHANGED woken
    BY <1>4 DEF AllWoken
  <2>2. Unstarted' = Unstarted /\ Ended' = Ended
    BY <1>2, <1>4, <2>1 DEF AllWoken, Unstarted, Ended, Participants
  <2>3. QED
    BY <1>1, <1>2, <1>4, <2>2 DEF Busy, AllWoken
<1>5. ASSUME UNCHANGED vars
      PROVE  Quiet
  BY <1>1, <1>2, <1>5 DEF vars, Unstarted, Ended, Busy
<1>6. ASSUME NEW q \in Threads, Over(q)
      PROVE  Quiet
  <2>1. /\ UNCHANGED woken /\ pc[q] \in {"last", "over"} /\ q \in AllThreads
        /\ \E where \in {"waiting", "joining"} : pc' = [pc EXCEPT ![q] = where]
    BY <1>6, ThreadsKnown DEF Over
  <2>2. Unstarted' = Unstarted
    BY <1>2, <2>1 DEF Unstarted
  <2>3. Ended' = Ended
    BY <1>2, <2>1 DEF Ended
  <2>4. QED
    BY <2>1, <2>2, <2>3 DEF Busy
<1>7. ASSUME NEW q \in Threads, Within(q)
      PROVE  Quiet
  <2>1. /\ UNCHANGED woken /\ pc[q] \in Running /\ q \in AllThreads
        /\ \E where \in Running \cup {"next"} : pc' = [pc EXCEPT ![q] = where]
        /\ q # Main => q \in Nat /\ q < woken
    BY <1>7, ThreadsKnown, BusyTakesPart DEF Within, Busy, Running, Workers
  <2>2. Unstarted' = Unstarted
    BY <1>2, <2>1 DEF Unstarted, Running
  <2>3. Ended' = Ended
    BY <1>2, <2>1 DEF Ended, Running
  <2>4. QED
    BY <2>1, <2>2, <2>3 DEF Busy, Running
<1> HIDE DEF Quiet
<1>8. Quiet
  <2> HIDE DEF SliceTypes, Phases, Calling, PoolInv, AllThreads, Go, counters, pool, InJob
  <2>1. QED
    BY <1>3, <1>4, <1>5, <1>6, <1>7
<1>9. QED
  BY <1>1, <1>2, <1>8 DEF Quiet

\* A thread that asks for its first job is one of those that had not.
LEMMA FirstJobStep ==
    ASSUME PoolInv, NEW q \in Threads, FirstJob(q)
    PROVE  /\ Calling /\ Calling' /\ UNCHANGED <<setup, started>> /\ q \in AllThreads
           /\ Participants' = Participants /\ Threads' = Threads
           /\ Ended' = Ended /\ ~Busy(q) /\ InJob(q)'
           /\ \A p \in Threads \ {q} : pc'[p] = pc[p]
           /\ firstJob + 1 + Cardinality(Unstarted') = active /\ firstJob < active
<1> USE Constants DEF SliceTypes, Phases, PoolInv, Go, counters, pool
<1>1. /\ UNCHANGED <<setup, started, active, nbJobs, woken>> /\ pc[q] = "first" /\ ~finished
      /\ pc' = [pc EXCEPT ![q] = Begins] /\ q \in AllThreads /\ Begins \in {"run", "row"}
  BY ThreadsKnown DEF FirstJob, Begins
<1>2. Calling /\ q \in Participants /\ (q # Main => q < woken /\ q \in Nat)
  BY <1>1, BusyTakesPart DEF Workers
<1>3. Participants' = Participants /\ Threads' = Threads /\ Calling'
  BY <1>1, <1>2 DEF Participants, NbWorkers, Threads, Workers, Calling, AllThreads
<1>4. q \in Unstarted
  BY <1>1, <1>2 DEF Unstarted
<1>5. Unstarted' = Unstarted \ {q}
  <2>1. \A p \in Participants : p # q => pc'[p] = pc[p]
    BY <1>1
  <2>2. q \notin Unstarted'
    BY <1>1, <1>2 DEF Unstarted, AllThreads
  <2>3. \A p \in Participants : p # q => (p \in Unstarted <=> p \in Unstarted')
    BY <1>1, <1>3, <2>1 DEF Unstarted
  <2>4. QED
    BY <1>3, <2>2, <2>3 DEF Unstarted
<1>6. Ended' = Ended
  BY <1>1, <1>2, <1>3 DEF Ended
<1>7. /\ IsFiniteSet(Unstarted) /\ Cardinality(Unstarted') = Cardinality(Unstarted) - 1
      /\ Cardinality(Unstarted) \in Nat /\ Cardinality(Unstarted') \in Nat
  BY <1>2, <1>4, <1>5, ParticipantsCounted, FS_RemoveElement, FS_CardinalityType
<1>8. firstJob + Cardinality(Unstarted) = active /\ firstJob \in Nat /\ active \in Nat
  BY <1>2 DEF FirstCounts
<1>9. QED
  BY <1>1, <1>2, <1>3, <1>6, <1>7, <1>8 DEF Busy, InJob

\* A thread that finds no further job has ended.
LEMMA NextJobStep ==
    ASSUME PoolInv, NEW q \in Threads, NextJob(q)
    PROVE  /\ Calling /\ Calling' /\ UNCHANGED <<setup, started>> /\ q \in AllThreads
           /\ Participants' = Participants /\ Threads' = Threads
           /\ Unstarted' = Unstarted /\ q \notin Ended /\ q \in Participants
           /\ Busy(q) /\ ~InJob(q)
           /\ \A p \in Threads \ {q} : pc'[p] = pc[p]
           /\ currentJob < nbJobs => Ended' = Ended /\ InJob(q)'
           /\ currentJob >= nbJobs => /\ Ended' = Ended \cup {q}
                                      /\ pc'[q] = IF IsLast THEN "last" ELSE "over"
<1> USE Constants DEF SliceTypes, Phases, PoolInv, Go, counters, pool
<1>1. /\ UNCHANGED <<setup, started, active, nbJobs, woken>> /\ pc[q] = "next"
      /\ q \in AllThreads /\ Begins \in {"run", "row"}
  BY ThreadsKnown DEF NextJob, Begins
<1>2. Calling /\ q \in Participants /\ (q # Main => q < woken /\ q \in Nat)
  BY <1>1, BusyTakesPart DEF Workers, Busy
<1>3. PICK where \in {"run", "row", "last", "over"} :
        /\ pc' = [pc EXCEPT ![q] = where]
        /\ where = IF currentJob < nbJobs THEN Begins ELSE IF IsLast THEN "last" ELSE "over"
  BY <1>1 DEF NextJob
<1>4. Participants' = Participants /\ Threads' = Threads /\ Calling'
  BY <1>1, <1>2, <1>3 DEF Participants, NbWorkers, Threads, Workers, Calling, AllThreads
<1>5. Unstarted' = Unstarted
  BY <1>1, <1>2, <1>3, <1>4 DEF Unstarted
<1>6. q \notin Ended
  BY <1>1 DEF Ended
<1>7. currentJob < nbJobs => Ended' = Ended
  BY <1>1, <1>2, <1>3, <1>4 DEF Ended
<1>8. currentJob >= nbJobs => Ended' = Ended \cup {q}
  BY <1>1, <1>2, <1>3, <1>4 DEF Ended
<1>9. QED
  BY <1>1, <1>2, <1>3, <1>4, <1>5, <1>6, <1>7, <1>8 DEF Busy, InJob

\* A call begins with nobody started.
LEMMA ExecuteStep ==
    ASSUME PoolInv, NEW n \in setup.jobs, Execute(n)
    PROVE  /\ Calling' /\ UNCHANGED <<setup, started>> /\ Threads' = Threads
           /\ n \in Nat /\ n > 0 /\ active' \in Nat /\ active' > 0 /\ active' <= n
           /\ nbJobs' = n /\ firstJob' = 0 /\ currentJob' = active' /\ ~done'
           /\ todo' = 0 .. n - 1
           /\ Ended' = {} /\ Cardinality(Unstarted') = active'
           /\ \A q \in Threads : ~Busy(q)' /\ ~InJob(q)' /\ pc'[q] # "last"
<1> USE Constants DEF SliceTypes, Phases, PoolInv, Go, counters, pool
<1>1. /\ UNCHANGED <<setup, started>> /\ pc[Main] = "idle" /\ active' = Minimum(n, N)
      /\ woken' = 0 /\ Main \in AllThreads /\ pc' = [pc EXCEPT ![Main] = "waking"]
      /\ n \in Nat /\ n > 0 /\ active' \in Nat /\ active' > 0 /\ active' <= n
      /\ nbJobs' = n /\ firstJob' = 0 /\ currentJob' = active' /\ ~done'
      /\ todo' = 0 .. n - 1
  BY ThreadsKnown DEF Execute, Minimum, Calling
<1>2. \A q \in Threads : /\ q = Main => pc'[q] = "waking"
                         /\ q # Main => pc'[q] \in {"waiting", "over"}
  BY <1>1, ThreadsKnown DEF Threads
<1>3. \A q \in Participants' : q # Main => q \in Nat /\ q >= 0
  BY DEF Participants
<1>4. Unstarted' = Participants' /\ Ended' = {}
  BY <1>1, <1>3 DEF Unstarted, Ended
<1>5. Cardinality(Participants') = active'
  BY <1>1, CallCounted DEF Participants, NbWorkers
<1>6. QED
  BY <1>1, <1>2, <1>4, <1>5 DEF Busy, InJob, Calling, Threads, Workers

\* Within a call the step is one of these.
LEMMA StepsOfACall ==
    ASSUME PoolInv, [Next]_vars, Calling'
    PROVE  \/ \E n \in setup.jobs : Execute(n)
           \/ \E q \in Threads : FirstJob(q) \/ NextJob(q)
           \/ /\ Calling
              /\ \/ Wake \/ AllWoken \/ UNCHANGED vars
                 \/ \E q \in Threads : Over(q) \/ Within(q)
<1> USE Constants, ThreadsKnown DEF SliceTypes, Phases, PoolInv, Go, pool
<1>1. ~Free /\ ~Freed /\ ~Join
  BY DEF Free, Freed, Join, Calling
<1>2. ASSUME NEW q \in Threads, Thread(q)
      PROVE  FirstJob(q) \/ NextJob(q) \/ (Calling /\ (Over(q) \/ Within(q)))
  <2>1. CASE RowFails(q) \/ Await(q) \/ Decode(q) \/ RunJob(q) \/ RowDone(q)
    BY <1>2, <2>1, WithinSteps, BusyTakesPart DEF Busy
  <2>2. CASE Over(q)
    BY <1>2, <2>2 DEF Over, Calling, Threads, AllThreads
  <2>3. CASE Exit(q)
    BY <1>2, <2>3 DEF Exit, Calling, Threads, AllThreads
  <2>4. QED
    BY <1>2, <2>1, <2>2, <2>3 DEF Thread
<1>3. CASE Wake
  <2>1. woken \in Nat /\ woken # Main
    OBVIOUS
  <2>2. QED
    BY <1>3, <2>1 DEF Wake, Calling, AllThreads
<1>6. CASE AllWoken
  BY <1>6 DEF AllWoken, Calling, AllThreads
<1>4. CASE UNCHANGED vars
  BY <1>4 DEF vars, Calling
<1>5. QED
  BY <1>1, <1>2, <1>3, <1>4, <1>6 DEF Next, MainStep

-----------------------------------------------------------------------------
(* The counters. *)

\* firstJob stays the number of the threads that have asked, and no two have the same.
LEMMA FirstCountsStep ==
    ASSUME PoolInv, [Next]_vars
    PROVE  FirstCounts'
<1> SUFFICES ASSUME Calling'
             PROVE  FirstCounts'
  BY DEF FirstCounts
<1>1. ASSUME NEW n \in setup.jobs, Execute(n)
      PROVE  FirstCounts'
  <2>1. firstJob' = 0 /\ Cardinality(Unstarted') = active' /\ active' \in Nat
        /\ Threads' = Threads /\ \A q \in Threads : ~Busy(q)'
    BY <1>1, ExecuteStep
  <2>2. firstJob' + Cardinality(Unstarted') = active'
    BY <2>1
  <2>3. \A p \in Threads' : Busy(p)' => FALSE
    BY <2>1
  <2>4. QED
    BY <2>2, <2>3 DEF FirstCounts
<1>2. ASSUME NEW q \in Threads, FirstJob(q)
      PROVE  FirstCounts'
  <2>1. /\ Calling /\ Threads' = Threads /\ \A p \in Threads \ {q} : Busy(p)' = Busy(p)
        /\ firstJob + 1 + Cardinality(Unstarted') = active
    BY <1>2, FirstJobStep DEF Busy, InJob
  <2>2. /\ firstJob' = firstJob + 1 /\ active' = active /\ firstJob \in Nat
        /\ number'[q] = firstJob /\ \A p \in Threads \ {q} : number'[p] = number[p]
        /\ \A p \in Threads : number[p] \in Nat
    BY <1>2, ThreadsKnown DEF FirstJob, Incremented, PoolInv, SliceTypes
  <2>3. /\ \A p \in Threads : Busy(p) => number[p] < firstJob
        /\ \A p, r \in Threads : Busy(p) /\ Busy(r) /\ p # r => number[p] # number[r]
    BY <2>1 DEF PoolInv, FirstCounts
  <2>4. \A p \in Threads : Busy(p)' => number'[p] < firstJob'
    BY <2>1, <2>2, <2>3
  <2>5. \A p, r \in Threads : Busy(p)' /\ Busy(r)' /\ p # r => number'[p] # number'[r]
    BY <2>1, <2>2, <2>3
  <2>6. QED
    BY <2>1, <2>2, <2>4, <2>5 DEF FirstCounts
<1>3. ASSUME NEW q \in Threads, NextJob(q)
      PROVE  FirstCounts'
  <2>1. /\ Calling /\ Threads' = Threads /\ \A p \in Threads \ {q} : Busy(p)' = Busy(p)
        /\ Unstarted' = Unstarted /\ Busy(q)
    BY <1>3, NextJobStep DEF Busy, InJob
  <2>2. UNCHANGED <<firstJob, active, number>>
    BY <1>3 DEF NextJob
  <2>3. QED
    BY <2>1, <2>2 DEF FirstCounts, PoolInv
<1>4. CASE Calling /\ (Wake \/ AllWoken \/ UNCHANGED vars \/ \E q \in Threads : Over(q) \/ Within(q))
  <2>1. /\ Threads' = Threads /\ \A p \in Threads : Busy(p)' = Busy(p)
        /\ Unstarted' = Unstarted /\ UNCHANGED <<firstJob, active, number>>
    BY <1>4, QuietStep DEF counters
  <2>2. QED
    BY <1>4, <2>1 DEF FirstCounts, PoolInv
<1>5. QED
  BY <1>1, <1>2, <1>3, <1>4, StepsOfACall

\* Beyond nb_jobs currentJob stays the count of the threads that have ended.
LEMMA CurrentCountsStep ==
    ASSUME PoolInv, [Next]_vars
    PROVE  CurrentCounts'
<1> SUFFICES ASSUME Calling'
             PROVE  CurrentCounts'
  BY DEF CurrentCounts
<1>a. SliceTypes /\ Phases /\ CurrentCounts /\ active \in Nat /\ nbJobs \in Nat /\ currentJob \in Nat
      /\ (Calling => active > 0 /\ active <= nbJobs)
  BY Constants DEF PoolInv, SliceTypes, Phases
<1>1. ASSUME NEW n \in setup.jobs, Execute(n)
      PROVE  CurrentCounts'
  <2>1. /\ currentJob' = active' /\ active' \in Nat /\ active' <= n /\ nbJobs' = n /\ n \in Nat
        /\ Ended' = {} /\ ~done'
        /\ Threads' = Threads /\ \A q \in Threads : pc'[q] # "last"
    BY <1>1, ExecuteStep
  <2>2. QED
    BY <2>1 DEF CurrentCounts
<1>2. ASSUME NEW q \in Threads, FirstJob(q)
      PROVE  CurrentCounts'
  <2>1. /\ Calling /\ Threads' = Threads /\ \A p \in Threads \ {q} : pc'[p] = pc[p]
        /\ Participants' = Participants /\ Ended' = Ended /\ InJob(q)'
    BY <1>2, FirstJobStep
  <2>2. UNCHANGED <<currentJob, active, nbJobs, done>> /\ pc'[q] # "last" /\ pc[q] # "last"
    BY <1>2, <2>1 DEF FirstJob, InJob
  <2>3. QED
    BY <1>a, <2>1, <2>2 DEF CurrentCounts
<1>3. ASSUME NEW q \in Threads, NextJob(q)
      PROVE  CurrentCounts'
  <2>1. /\ Calling /\ Threads' = Threads /\ \A p \in Threads \ {q} : pc'[p] = pc[p]
        /\ Participants' = Participants /\ q \notin Ended /\ q \in Participants
        /\ currentJob < nbJobs => Ended' = Ended /\ InJob(q)'
        /\ currentJob >= nbJobs => /\ Ended' = Ended \cup {q}
                                   /\ pc'[q] = IF IsLast THEN "last" ELSE "over"
    BY <1>3, NextJobStep
  <2>2. UNCHANGED <<active, nbJobs, done>> /\ currentJob' = currentJob + 1
    BY <1>3 DEF NextJob, Incremented
  <2>3. ~done /\ \A p \in Threads : pc[p] # "last"
    BY <1>a, <2>1 DEF CurrentCounts
  <2>4. CASE currentJob < nbJobs
    <3>1. IsFiniteSet(Ended) /\ Cardinality(Ended) \in Nat
      BY <1>a, <2>1, ParticipantsCounted, FS_CardinalityType
    <3>2. Ended = {}
      BY <1>a, <2>1, <2>4, <3>1 DEF CurrentCounts
    <3>3. \A p \in Threads : pc'[p] # "last"
      BY <2>1, <2>3, <2>4 DEF InJob
    <3>4. QED
      BY <1>a, <2>1, <2>2, <2>3, <2>4, <3>2, <3>3 DEF CurrentCounts
  <2>5. CASE currentJob >= nbJobs
    <3>1. /\ IsFiniteSet(Ended) /\ Cardinality(Ended) \in Nat
          /\ IsFiniteSet(Participants) /\ Cardinality(Participants) = active
      BY <1>a, <2>1, ParticipantsCounted, FS_CardinalityType
    <3>2. currentJob = nbJobs + Cardinality(Ended)
      BY <1>a, <2>1, <2>5, FS_EmptySet DEF CurrentCounts
    <3>3. IsFiniteSet(Ended') /\ Cardinality(Ended') = Cardinality(Ended) + 1
      BY <2>1, <2>5, <3>1, FS_AddElement
    <3>4. Ended' \in SUBSET Participants
      BY <2>1, <2>5 DEF Ended
    <3>5. IsLast => Ended' = Participants
      <4>1. IsLast => Cardinality(Ended') = Cardinality(Participants)
        BY <1>a, <3>1, <3>2, <3>3 DEF IsLast
      <4>2. QED
        BY <3>1, <3>4, <4>1, FS_Subset
    <3>6. \A p \in Threads \ {q} : pc'[p] # "last"
      BY <2>1, <2>3
    <3>7. active <= currentJob /\ currentJob' = nbJobs' + Cardinality(Ended')
      BY <1>a, <2>1, <2>2, <3>1, <3>2, <3>3 DEF CurrentCounts
    <3>8. \A p \in Threads : pc'[p] = "last" => p = q /\ Ended' = Participants
      BY <2>1, <2>5, <3>5, <3>6
    <3>9. active' <= currentJob'
      BY <1>a, <2>2, <3>7
    <3>10. QED
      BY <2>1, <2>2, <2>3, <3>6, <3>7, <3>8, <3>9 DEF CurrentCounts
  <2>6. QED
    BY <1>a, <2>4, <2>5
<1>4. CASE Calling /\ (Wake \/ AllWoken \/ UNCHANGED vars \/ \E q \in Threads : Over(q) \/ Within(q))
  <2>1. /\ Threads' = Threads /\ Participants' = Participants /\ Ended' = Ended
        /\ UNCHANGED <<currentJob, nbJobs, active>>
    BY <1>4, QuietStep DEF counters
  <2>2. CASE \E q \in Threads : Over(q)
    <3>1. PICK q \in Threads : Over(q)
      BY <2>2
    <3>2. /\ \A p \in Threads \ {q} : pc'[p] = pc[p]
          /\ pc'[q] # "last" /\ (done' => done \/ pc[q] = "last")
      BY <1>a, <3>1, ThreadsKnown DEF Over, Go, SliceTypes
    <3>3. done' => Ended = Participants /\ \A p \in Threads : pc'[p] # "last"
      BY <1>a, <1>4, <3>2 DEF CurrentCounts
    <3>4. \A r \in Threads : pc'[r] = "last" =>
           /\ Ended = Participants /\ ~done'
           /\ \A p \in Threads \ {r} : pc'[p] # "last"
      BY <1>a, <1>4, <3>2 DEF CurrentCounts
    <3>5. QED
      BY <1>a, <1>4, <2>1, <3>3, <3>4 DEF CurrentCounts
  <2>3. CASE ~ \E q \in Threads : Over(q)
    <3>1. /\ UNCHANGED done
          /\ \A q \in Threads : pc'[q] = "last" <=> pc[q] = "last"
      <4>1. CASE Wake
        BY <1>a, <4>1, Constants DEF Wake, CanWake, Go, SliceTypes
      <4>2. CASE AllWoken
        BY <1>a, <4>2 DEF AllWoken, Go, SliceTypes
      <4>3. CASE UNCHANGED vars
        BY <4>3 DEF vars
      <4>4. ASSUME NEW q \in Threads, Within(q)
            PROVE  UNCHANGED done /\ \A p \in Threads : pc'[p] = "last" <=> pc[p] = "last"
        BY <1>a, <4>4 DEF Within, Running, Go, SliceTypes
      <4>5. QED
        BY <1>4, <2>3, <4>1, <4>2, <4>3, <4>4
    <3>2. QED
      BY <1>a, <1>4, <2>1, <3>1 DEF CurrentCounts
  <2>4. QED
    BY <2>2, <2>3
<1>5. QED
  BY <1>1, <1>2, <1>3, <1>4, StepsOfACall

\* Who has which job.
LEMMA JobsAreApartStep ==
    ASSUME PoolInv, [Next]_vars
    PROVE  JobsAreApart'
<1> SUFFICES ASSUME Calling'
             PROVE  JobsAreApart'
  BY DEF JobsAreApart
<1>a. /\ SliceTypes /\ Phases /\ JobsAreApart /\ active \in Nat /\ nbJobs \in Nat
      /\ currentJob \in Nat /\ firstJob \in Nat /\ todo \in SUBSET Nat
      /\ (Calling => active > 0 /\ active <= nbJobs /\ active <= currentJob)
      /\ \A q \in Threads : q \in AllThreads /\ job[q] \in Nat
  BY Constants, ThreadsKnown DEF PoolInv, SliceTypes, Phases, CurrentCounts
<1>1. ASSUME NEW n \in setup.jobs, Execute(n)
      PROVE  JobsAreApart'
  <2>1. /\ currentJob' = active' /\ active' \in Nat /\ nbJobs' = n /\ n \in Nat
        /\ firstJob' = 0 /\ todo' = 0 .. n - 1
        /\ Threads' = Threads /\ \A q \in Threads : ~InJob(q)'
    BY <1>1, ExecuteStep
  <2>2. \A j \in 0 .. n - 1 : Unassigned(j)'
    BY <2>1 DEF Unassigned
  <2>3. QED
    BY <2>1, <2>2 DEF JobsAreApart
<1>2. ASSUME NEW q \in Threads, FirstJob(q)
      PROVE  JobsAreApart'
  <2>1. /\ Calling /\ Threads' = Threads /\ \A p \in Threads \ {q} : pc'[p] = pc[p]
        /\ firstJob < active /\ InJob(q)' /\ ~InJob(q)
    BY <1>2, FirstJobStep DEF Busy
  <2>2. /\ firstJob' = firstJob + 1 /\ UNCHANGED <<currentJob, active, nbJobs, todo>>
        /\ job' = [job EXCEPT ![q] = firstJob]
    BY <1>2 DEF FirstJob, Incremented
  <2>3. /\ job'[q] = firstJob /\ \A p \in Threads \ {q} : job'[p] = job[p]
        /\ \A p \in Threads \ {q} : InJob(p)' = InJob(p)
    BY <1>a, <2>1, <2>2 DEF InJob, SliceTypes
  <2>4. \A j \in Nat : Unassigned(j) <=> Unassigned(j)' \/ j = firstJob
    BY <1>a, <2>1, <2>2 DEF Unassigned
  <2>5. \A j \in Nat : j = firstJob => ~Unassigned(j)'
    BY <1>a, <2>1, <2>2 DEF Unassigned
  <2>6. firstJob \in todo /\ \A p \in Threads : InJob(p) => job[p] # firstJob
    BY <1>a, <2>1, <2>4 DEF JobsAreApart
  <2>7. /\ \A j \in todo : /\ j \in Nat /\ j < nbJobs
                           /\ Unassigned(j) \/ \E p \in Threads : InJob(p) /\ job[p] = j
        /\ \A j \in 0 .. nbJobs - 1 : Unassigned(j) => j \in todo
        /\ \A p \in Threads : InJob(p) => job[p] \in todo /\ ~Unassigned(job[p])
        /\ \A p, r \in Threads : InJob(p) /\ InJob(r) /\ p # r => job[p] # job[r]
    BY <1>a, <2>1 DEF JobsAreApart
  <2>8. \A j \in todo' : /\ j < nbJobs'
                         /\ Unassigned(j)' \/ \E p \in Threads' : InJob(p)' /\ job'[p] = j
    <3>1. SUFFICES ASSUME NEW j \in todo
                   PROVE  /\ j < nbJobs
                          /\ Unassigned(j)' \/ \E p \in Threads : InJob(p)' /\ job'[p] = j
      BY <2>1, <2>2
    <3>2. CASE j = firstJob
      BY <2>1, <2>3, <2>7, <3>2
    <3>3. CASE j # firstJob /\ Unassigned(j)
      BY <2>4, <2>7, <3>3
    <3>4. ASSUME NEW p \in Threads, InJob(p), job[p] = j
          PROVE  \E r \in Threads : InJob(r)' /\ job'[r] = j
      BY <2>1, <2>3, <3>4
    <3>5. QED
      BY <2>7, <3>2, <3>3, <3>4
  <2>9. \A j \in 0 .. nbJobs' - 1 : Unassigned(j)' => j \in todo'
    BY <1>a, <2>2, <2>4, <2>7
  <2>10. ASSUME NEW p \in Threads, InJob(p)'
         PROVE  (job[p] \in todo /\ ~Unassigned(job[p]))'
    <3>1. CASE p = q
      BY <1>a, <2>1, <2>2, <2>3, <2>6, <3>1 DEF Unassigned
    <3>2. CASE p # q
      <4>1. InJob(p) /\ job'[p] = job[p]
        BY <2>3, <2>10, <3>2
      <4>2. job[p] \in todo /\ job[p] \in Nat /\ ~Unassigned(job[p])
        BY <1>a, <2>7, <4>1
      <4>3. QED
        BY <1>a, <2>2, <4>1, <4>2 DEF Unassigned
    <3>3. QED
      BY <3>1, <3>2
  <2>11. ASSUME NEW p \in Threads, NEW r \in Threads, InJob(p)', InJob(r)', p # r
         PROVE  job'[p] # job'[r]
    BY <2>3, <2>6, <2>7, <2>11
  <2>12. QED
    BY <2>1, <2>8, <2>9, <2>10, <2>11 DEF JobsAreApart
<1>3. ASSUME NEW q \in Threads, NextJob(q)
      PROVE  JobsAreApart'
  <2>1. /\ Calling /\ Threads' = Threads /\ \A p \in Threads \ {q} : pc'[p] = pc[p]
        /\ ~InJob(q)
        /\ currentJob < nbJobs => InJob(q)'
        /\ currentJob >= nbJobs => pc'[q] = IF IsLast THEN "last" ELSE "over"
    BY <1>3, NextJobStep
  <2>2. /\ currentJob' = currentJob + 1 /\ UNCHANGED <<firstJob, active, nbJobs, todo>>
        /\ job' = IF currentJob < nbJobs THEN [job EXCEPT ![q] = currentJob] ELSE job
    BY <1>3 DEF NextJob, Incremented
  <2>3. /\ \A p \in Threads \ {q} : job'[p] = job[p]
        /\ \A p \in Threads \ {q} : InJob(p)' = InJob(p)
    BY <1>a, <2>1, <2>2 DEF InJob, SliceTypes
  <2>4. \A j \in Nat : Unassigned(j) <=> Unassigned(j)' \/ j = currentJob
    BY <1>a, <2>1, <2>2 DEF Unassigned
  <2>5. \A j \in Nat : j = currentJob => ~Unassigned(j)'
    BY <1>a, <2>1, <2>2 DEF Unassigned
  <2>6. CASE currentJob < nbJobs
    <3>1. currentJob \in todo /\ \A p \in Threads : InJob(p) => job[p] # currentJob
      BY <1>a, <2>1, <2>4, <2>6 DEF JobsAreApart
    <3>2. job'[q] = currentJob
      BY <1>a, <2>2, <2>6 DEF SliceTypes
    <3>3. QED
      BY <1>a, <2>1, <2>2, <2>3, <2>4, <2>5, <2>6, <3>1, <3>2 DEF JobsAreApart
  <2>7. CASE currentJob >= nbJobs
    <3>1. ~InJob(q)'
      BY <2>1, <2>7 DEF InJob
    <3>2. \A j \in todo : j # currentJob
      BY <1>a, <2>1, <2>7 DEF JobsAreApart
    <3>3. /\ \A j \in todo : /\ j \in Nat /\ j < nbJobs
                             /\ Unassigned(j) \/ \E p \in Threads : InJob(p) /\ job[p] = j
          /\ \A j \in 0 .. nbJobs - 1 : Unassigned(j) => j \in todo
          /\ \A p \in Threads : InJob(p) => job[p] \in todo /\ ~Unassigned(job[p])
          /\ \A p, r \in Threads : InJob(p) /\ InJob(r) /\ p # r => job[p] # job[r]
      BY <1>a, <2>1 DEF JobsAreApart
    <3>4. \A p \in Threads : InJob(p)' => p # q /\ InJob(p) /\ job'[p] = job[p]
      BY <2>3, <3>1
    <3>5. \A p \in Threads : InJob(p) => InJob(p)' /\ job'[p] = job[p]
      BY <2>1, <2>3
    <3>6. \A j \in todo' : /\ j < nbJobs'
                           /\ Unassigned(j)' \/ \E p \in Threads' : InJob(p)' /\ job'[p] = j
      BY <2>1, <2>2, <2>4, <3>2, <3>3, <3>5
    <3>7. \A j \in 0 .. nbJobs' - 1 : Unassigned(j)' => j \in todo'
      BY <1>a, <2>2, <2>4, <3>3
    <3>8. ASSUME NEW p \in Threads, InJob(p)'
          PROVE  (job[p] \in todo /\ ~Unassigned(job[p]))'
      <4>1. InJob(p) /\ job'[p] = job[p]
        BY <3>4, <3>8
      <4>2. job[p] \in todo /\ job[p] \in Nat /\ ~Unassigned(job[p])
        BY <1>a, <3>3, <4>1
      <4>3. QED
        BY <1>a, <2>2, <4>1, <4>2 DEF Unassigned
    <3>9. ASSUME NEW p \in Threads, NEW r \in Threads, InJob(p)', InJob(r)', p # r
          PROVE  job'[p] # job'[r]
      BY <3>3, <3>4, <3>9
    <3>10. QED
      BY <2>1, <3>6, <3>7, <3>8, <3>9 DEF JobsAreApart
  <2>8. QED
    BY <1>a, <2>6, <2>7
<1>4. CASE Calling /\ (Wake \/ AllWoken \/ UNCHANGED vars \/ \E q \in Threads : Over(q) \/ Within(q))
  <2>1. /\ Threads' = Threads
        /\ UNCHANGED <<currentJob, nbJobs, active, firstJob, job>>
        /\ \A q \in Threads : InJob(q)' => InJob(q)
    BY <1>4, QuietStep DEF counters
  <2>2. \A j : Unassigned(j)' = Unassigned(j)
    BY <2>1 DEF Unassigned
  <2>3. CASE todo' = todo /\ \A q \in Threads : InJob(q)' = InJob(q)
    BY <1>4, <1>a, <2>1, <2>2, <2>3 DEF JobsAreApart
  <2>4. CASE ~ \E q \in Threads : Within(q)
    <3>1. todo' = todo
      BY <1>4, <2>4 DEF Wake, AllWoken, vars, Over
    <3>2. \A q \in Threads : InJob(q)' = InJob(q)
      <4>1. CASE Wake
        BY <1>a, <4>1, Constants DEF Wake, CanWake, Go, SliceTypes, InJob
      <4>2. CASE AllWoken
        BY <1>a, <4>2 DEF AllWoken, Go, SliceTypes, InJob
      <4>3. CASE UNCHANGED vars
        BY <4>3 DEF vars, InJob
      <4>4. ASSUME NEW q \in Threads, Over(q)
            PROVE  \A p \in Threads : InJob(p)' = InJob(p)
        BY <1>a, <4>4 DEF Over, Go, SliceTypes, InJob
      <4>5. QED
        BY <1>4, <2>4, <4>1, <4>2, <4>3, <4>4
    <3>3. QED
      BY <2>3, <3>1, <3>2
  <2>5. ASSUME NEW q \in Threads, Within(q)
        PROVE  JobsAreApart'
    <3>1. InJob(q) /\ \A p \in Threads \ {q} : InJob(p)' = InJob(p)
      BY <1>a, <2>5 DEF Within, Go, SliceTypes, InJob, Running
    <3>2. CASE todo' = todo /\ InJob(q)'
      BY <2>3, <3>1, <3>2 DEF InJob
    <3>3. CASE pc'[q] = "next" /\ todo' \in {todo, todo \ {job[q]}}
      <4>1. ~InJob(q)'
        BY <3>3 DEF InJob
      <4>2. todo' = todo \ {job[q]}
        BY <2>5, <3>3 DEF Within, Running
      <4>3. \A j \in todo' : j # job[q] /\ j \in todo
        BY <4>2
      <4>4. \A j \in 0 .. nbJobs - 1 : Unassigned(j) => j # job[q]
        BY <1>4, <1>a, <3>1 DEF JobsAreApart
      <4>5. QED
        BY <1>4, <1>a, <2>1, <2>2, <3>1, <4>1, <4>2, <4>3, <4>4 DEF JobsAreApart
    <3>4. QED
      BY <1>a, <2>5, <3>2, <3>3 DEF Within, Go, SliceTypes, InJob, Running
  <2>6. QED
    BY <2>4, <2>5
<1>5. QED
  BY <1>1, <1>2, <1>3, <1>4, StepsOfACall

\* At first no call is made, and the workers wait.
LEMMA PoolInit ==
    ASSUME Init
    PROVE  PoolInv
<1>1. PICK s \in Setups, k \in 0 .. N :
        /\ k <= NbWanted(s) /\ setup = s /\ started = k
        /\ finished = (k < NbWanted(s))
        /\ pc = [q \in AllThreads |-> IF q # Main THEN "waiting"
                            ELSE IF k < NbWanted(s) THEN "freeing" ELSE "idle"]
        /\ nbJobs = 0 /\ active = 0 /\ firstJob = 0 /\ currentJob = 0
        /\ done = FALSE /\ woken = 0 /\ err = FALSE
        /\ job = [q \in AllThreads |-> 0]
        /\ number = [q \in AllThreads |-> 0]
        /\ todo = {}
  BY Constants DEF Init
<1>2. NbWanted(s) \in Nat /\ NbWanted(s) <= N
  BY Constants
<1>3. SliceTypes
  <2>1. pc \in [AllThreads -> Places]
    <3>1. {"waiting", "freeing", "idle"} \in SUBSET Places
      BY DEF Places
    <3>2. QED
      BY <1>1, <3>1
  <2>2. job \in [AllThreads -> Nat] /\ number \in [AllThreads -> Nat]
    BY <1>1
  <2>3. 0 \in 0 .. N /\ started \in 0 .. NbWanted(setup) /\ finished \in BOOLEAN
    BY <1>1, <1>2, Constants
  <2>4. QED
    BY <1>1, <2>1, <2>2, <2>3 DEF SliceTypes
<1>4. ~Calling
  BY <1>1 DEF Calling, AllThreads
<1>5. Workers \in SUBSET AllThreads /\ Main \notin Workers /\ Main \in AllThreads
  BY <1>3, Constants, ThreadsKnown DEF Threads, Workers
<1>6. \A w \in Workers : pc[w] = "waiting"
  BY <1>1, <1>5
<1>7. pc[Main] = IF finished THEN "freeing" ELSE "idle"
  BY <1>1, <1>5
<1>8. started < NbWanted(setup) \/ started = NbWanted(setup)
  BY <1>1, <1>2
<1>9. setup.mainfunc \in BOOLEAN /\ ~done /\ todo = {} /\ (finished <=> started < NbWanted(setup))
  BY <1>1, Constants
<1>10. Phases
  BY <1>4, <1>6, <1>7, <1>8, <1>9 DEF Phases
<1>11. QED
  BY <1>3, <1>4, <1>10 DEF PoolInv, FirstCounts, CurrentCounts, JobsAreApart

\* Every step keeps the invariant of the pool.
LEMMA PoolStep ==
    ASSUME PoolInv, [Next]_vars
    PROVE  PoolInv'
<1>1. SliceTypes'
  BY TypesStep DEF PoolInv
<1>2. QED
  BY <1>1, PhasesStep, FirstCountsStep, CurrentCountsStep, JobsAreApartStep DEF PoolInv

\* The pool keeps its invariant.
THEOREM PoolInvariant == Spec => []PoolInv
<1>1. Init => PoolInv
  BY PoolInit
<1>2. PoolInv /\ [Next]_vars => PoolInv'
  BY PoolStep
<1>3. QED
  BY <1>1, <1>2, PTL DEF Spec

\* Whatever the number of threads and of jobs, no two threads of a pool have the
\* same number in a job, and none a number beyond the contexts there are: a decoder
\* that takes its state from the number (HEVCContext.sList) shares it with nobody.
THEOREM NumbersAlwaysDistinct == Spec => []NumbersAreDistinct
<1>1. ASSUME PoolInv
      PROVE  NumbersAreDistinct
  <2>1. ASSUME NEW q \in Threads, InJob(q)
        PROVE  Calling /\ Busy(q)
    BY <1>1, <2>1, BusyTakesPart DEF PoolInv, Busy
  <2>2. ASSUME Calling
        PROVE  firstJob <= N
    <3>1. Cardinality(Unstarted) \in Nat
      BY <1>1, <2>2, ParticipantsCounted, FS_CardinalityType DEF PoolInv
    <3>2. active <= N /\ active \in Nat /\ firstJob \in Nat
      BY <1>1, Constants DEF PoolInv, SliceTypes
    <3>3. QED
      BY <1>1, <2>2, <3>1, <3>2, Constants DEF PoolInv, FirstCounts
  <2>3. \A q \in Threads : number[q] \in Nat
    BY <1>1, ThreadsKnown DEF PoolInv, SliceTypes
  <2>4. firstJob \in Nat
    BY <1>1 DEF PoolInv, SliceTypes
  <2>5. QED
    BY <1>1, <2>1, <2>2, <2>3, <2>4, Constants DEF NumbersAreDistinct, PoolInv, FirstCounts
<1>2. QED
  BY <1>1, PoolInvariant, PTL

\* When a call of execute has returned nothing of it is left: every job has been run,
\* no worker still runs one or holds a wake-up, and no completion is left over for
\* the next call, in avpriv_slicethread_execute, to take for its own.
THEOREM JoinAlwaysComplete == Spec => []JoinIsComplete
<1>1. ASSUME PoolInv
      PROVE  JoinIsComplete
  BY <1>1 DEF PoolInv, Phases, JoinIsComplete, Calling
<1>2. QED
  BY <1>1, PoolInvariant, PTL

-----------------------------------------------------------------------------
(* The pool gives what execute promises. *)

\* Every step is a step of ForkJoin or none: waking the workers does not show, the
\* function of a job that returns is a job run, and the call returns when the calling
\* thread has waited for the last worker or was itself the last.
LEMMA StepRefines ==
    ASSUME PoolInv, [Next]_vars
    PROVE  [Abstract!Next]_<<Calling, todo>>
<1> USE Constants DEF PoolInv, SliceTypes, Phases, Go
<1>1. ASSUME NEW n \in setup.jobs, Execute(n)
      PROVE  [Abstract!Next]_<<Calling, todo>>
  <2>1. n \in UNION {s.jobs : s \in Setups}
    OBVIOUS
  <2>2. ~Calling /\ Calling' /\ todo' = 0 .. n - 1
    BY <1>1, ExecuteStep DEF Calling, Execute
  <2>3. QED
    BY <2>1, <2>2 DEF Abstract!Next, Abstract!Call, Calling
<1>2. CASE Free
  BY <1>2 DEF Free, Calling, AllThreads
<1>3. CASE Freed
  BY <1>3 DEF Freed, Calling, AllThreads
<1>4. CASE Wake
  <2>1. woken # Main
    OBVIOUS
  <2>2. QED
    BY <1>4, <2>1 DEF Wake, Calling, AllThreads
<1>5. CASE AllWoken
  BY <1>5 DEF AllWoken, Calling, AllThreads
<1>6. ASSUME Calling, Ended = Participants, Go(Main, "idle"), UNCHANGED todo
      PROVE  [Abstract!Next]_<<Calling, todo>>
  <2>1. todo = {} /\ ~Calling'
    BY <1>6, NothingLeft DEF Calling, AllThreads
  <2>2. QED
    BY <1>6, <2>1 DEF Abstract!Next, Abstract!Return, Calling
<1>7. CASE Join
  BY <1>6, <1>7 DEF Join, CurrentCounts, Calling
<1>8. ASSUME NEW q \in Threads, Thread(q)
      PROVE  [Abstract!Next]_<<Calling, todo>>
  <2>1. CASE Exit(q)
    BY <1>8, <2>1 DEF Exit, Calling, Threads, AllThreads
  <2>2. CASE FirstJob(q)
    <3>1. UNCHANGED todo /\ Calling /\ Calling'
      BY <1>8, <2>2, FirstJobStep DEF FirstJob
    <3>2. QED
      BY <3>1 DEF Calling
  <2>3. CASE NextJob(q)
    <3>1. UNCHANGED todo /\ Calling /\ Calling'
      BY <1>8, <2>3, NextJobStep DEF NextJob
    <3>2. QED
      BY <3>1 DEF Calling
  <2>4. CASE Over(q)
    <3>1. CASE q = Main /\ pc[q] = "last"
      <4>1. Calling /\ Ended = Participants
        BY <1>8, <3>1 DEF CurrentCounts, Calling
      <4>2. QED
        BY <1>6, <2>4, <3>1, <4>1 DEF Over
    <3>2. CASE ~(q = Main /\ pc[q] = "last")
      BY <2>4, <3>2 DEF Over, Calling, AllThreads
    <3>3. QED
      BY <3>1, <3>2
  <2>5. CASE RowFails(q) \/ Await(q) \/ Decode(q) \/ RunJob(q) \/ RowDone(q)
    <3>1. Within(q) /\ InJob(q)
      BY <1>8, <2>5, WithinSteps
    <3>2. Calling /\ job[q] \in todo
      BY <1>8, <3>1, BusyTakesPart DEF Busy, JobsAreApart
    <3>3. Calling'
      BY <3>1, <3>2 DEF Within, Running, Calling, AllThreads
    <3>4. todo' = todo \/ todo' = todo \ {job[q]}
      BY <3>1 DEF Within
    <3>5. QED
      BY <3>2, <3>3, <3>4 DEF Abstract!Next, Abstract!Run, Calling
  <2>6. QED
    BY <1>8, <2>1, <2>2, <2>3, <2>4, <2>5 DEF Thread
<1>9. CASE UNCHANGED vars
  BY <1>9 DEF vars, Calling
<1>10. QED
  BY <1>1, <1>2, <1>3, <1>4, <1>5, <1>7, <1>8, <1>9 DEF Next, MainStep

\* For every number of threads, jobs and calls the pool is a call that has its jobs
\* run, each once, and returns when all have been: libavcodec/avcodec.h says so of
\* AVCodecContext.execute.
THEOREM PoolImplementsForkJoin == Spec => ImplementsForkJoin
<1>1. Init => Abstract!Init
  <2>1. Init => pc[Main] \in {"idle", "freeing"} /\ todo = {}
    BY DEF Init, AllThreads
  <2>2. QED
    BY <2>1 DEF Abstract!Init
<1>2. PoolInv /\ [Next]_vars => [Abstract!Next]_<<Calling, todo>>
  BY StepRefines
<1>3. QED
  BY <1>1, <1>2, PoolInvariant, PTL DEF Spec, ImplementsForkJoin, Abstract!Spec, Calling

-----------------------------------------------------------------------------
(* The rows of a picture. *)

\* The row a thread decodes is one of the call's, and nobody else has it.
LEMMA RowIsHeld ==
    ASSUME PoolInv, NEW q \in Threads, InJob(q)
    PROVE  /\ Calling /\ job[q] \in Jobs /\ job[q] \in Nat /\ job[q] \in todo /\ job[q] < nbJobs
           /\ job[q] # 0 => job[q] - 1 \in Jobs /\ job[q] - 1 < nbJobs
           /\ \A p \in Threads : InJob(p) /\ p # q => job[p] # job[q]
           /\ nbJobs \in Nat
<1>1. Calling
  BY BusyTakesPart DEF PoolInv, Busy
<1>2. /\ job[q] \in todo /\ job[q] < nbJobs /\ job[q] \in Nat /\ nbJobs \in Nat
      /\ nbJobs \in setup.jobs /\ setup \in Setups
      /\ \A p \in Threads : InJob(p) /\ p # q => job[p] # job[q]
  BY <1>1, ThreadsKnown DEF PoolInv, SliceTypes, Phases, JobsAreApart
<1>3. \A j \in 0 .. nbJobs - 1 : j \in Jobs
  BY <1>2 DEF Jobs
<1>4. QED
  BY <1>1, <1>2, <1>3

\* A step of a thread within its row touches that row only.
LEMMA RowInvStep ==
    ASSUME PoolInv, RowInv, [Next]_vars, PoolInv'
    PROVE  RowInv'
<1> USE Constants DEF SliceTypes, PoolInv, Go, RowInv, RowTypes, pool, counters, rows
<1>t. \A q \in Threads : q \in AllThreads
  BY ThreadsKnown
<1>b. Begins = IF setup.cols = 0 THEN "run" ELSE "row"
  BY DEF Begins
<1>s. Shift \in Nat
  BY BoundsAssumption DEF BoundsAssumption
<1>d. setup \in Setups /\ setup.cols \in Nat
  OBVIOUS
<1>1. ASSUME NEW n \in setup.jobs, Execute(n)
      PROVE  RowInv'
  <2>1. /\ entries' = [r \in Jobs |-> 0] /\ decoded' = [r \in Jobs |-> 0] /\ UNCHANGED setup
        /\ todo' = 0 .. n - 1 /\ nbJobs' = n /\ n \in Nat /\ Threads' = Threads
        /\ \A q \in Threads : ~InJob(q)'
    BY <1>1, ExecuteStep DEF Execute
  <2>2. \A r \in Jobs : r \in Nat
    BY DEF Jobs
  <2>3. \A q \in Threads' : pc'[q] \notin Running
    BY <2>1 DEF InJob, Running
  <2>4. RowsReport'
    BY <2>1, <2>2, <2>3 DEF RowsReport, Running
  <2>5. WavefrontIsAhead'
    BY <2>1, <2>3 DEF WavefrontIsAhead, Running
  <2>6. QED
    BY <2>1, <2>4, <2>5
<1>2. ASSUME UNCHANGED <<setup, started, nbJobs, rows>>,
             Calling' /\ setup.cols # 0 => todo' = todo /\ Calling,
             \A q \in Threads : \/ pc'[q] = pc[q] /\ job'[q] = job[q]
                                \/ pc'[q] \notin Running
                                \/ pc'[q] = Begins
      PROVE  RowInv'
  <2>1. Threads' = Threads
    BY <1>2 DEF Threads, Workers
  <2>2. UNCHANGED <<entries, decoded, err, setup, nbJobs>>
    BY <1>2
  <2>3. \A q \in Threads : /\ pc'[q] = "run" => setup.cols = 0
                           /\ pc'[q] \in Running \ {"run"} => setup.cols # 0
                           /\ pc'[q] = "row_done" => pc[q] = "row_done" /\ job'[q] = job[q]
                           /\ pc'[q] = "failed" => pc[q] = "failed"
                           /\ pc'[q] = "decode" => pc[q] = "decode" /\ job'[q] = job[q]
    BY <1>2, <1>b DEF Running, RowsReport
  <2>4. RowsReport'
    BY <1>2, <2>1, <2>2, <2>3 DEF RowsReport
  <2>5. WavefrontIsAhead'
    BY <2>1, <2>2, <2>3 DEF WavefrontIsAhead
  <2>6. QED
    BY <2>2, <2>4, <2>5
<1>3. CASE Free \/ Freed \/ Join \/ AllWoken
  BY <1>2, <1>3, <1>t DEF Free, Freed, Join, AllWoken, Running, Calling
<1>4. CASE Wake
  <2>1. woken # Main /\ woken \in AllThreads
    BY <1>4 DEF Wake, NbWorkers, AllThreads
  <2>2. QED
    BY <1>2, <1>4, <2>1, <1>t DEF Wake, Running, Calling
<1>5. CASE UNCHANGED vars
  BY <1>2, <1>5 DEF vars, Calling
<1>6. ASSUME NEW q \in Threads, Exit(q) \/ FirstJob(q) \/ NextJob(q) \/ Over(q)
      PROVE  RowInv'
  <2> Main \in AllThreads /\ q \in AllThreads
    BY <1>t, ThreadsKnown
  <2>1. CASE Exit(q)
    BY <1>2, <1>6, <2>1, <1>t DEF Exit, Running, Calling
  <2>5. CASE Over(q)
    BY <1>2, <1>6, <2>5, <1>t DEF Over, Running, Calling
  <2>2. CASE FirstJob(q)
    <3>1. Calling
      BY <2>2, <1>6, FirstJobStep
    <3>2. QED
      BY <1>2, <1>6, <2>2, <3>1, <1>t DEF FirstJob
  <2>3. CASE NextJob(q)
    <3>1. Calling
      BY <2>3, <1>6, NextJobStep
    <3>2. QED
      BY <1>2, <1>6, <2>3, <3>1, <1>t DEF NextJob, Running
  <2>4. QED
    BY <1>6, <2>1, <2>2, <2>3, <2>5
<1>7. ASSUME NEW q \in Threads, RunJob(q)
      PROVE  RowInv'
  <2>1. setup.cols = 0
    BY <1>7 DEF RunJob, RowsReport
  <2>2. QED
    BY <1>2, <1>7, <2>1, <1>t DEF RunJob, Finished, Running
\* The steps within a row.
<1>8. ASSUME NEW q \in Threads, RowFails(q) \/ Await(q) \/ Decode(q) \/ RowDone(q)
      PROVE  RowInv'
  <2>1. Within(q) /\ InJob(q)
    BY <1>8, WithinSteps
  <2>2. /\ Calling /\ job[q] \in Jobs /\ job[q] \in Nat /\ job[q] \in todo /\ job[q] < nbJobs
        /\ job[q] # 0 => job[q] - 1 \in Jobs /\ job[q] - 1 < nbJobs
        /\ \A p \in Threads : InJob(p) /\ p # q => job[p] # job[q]
        /\ nbJobs \in Nat
    BY <1>8, <2>1, RowIsHeld
  <2>3. /\ Threads' = Threads /\ UNCHANGED <<setup, nbJobs, job>> /\ q \in AllThreads
        /\ \A p \in Threads \ {q} : pc'[p] = pc[p]
    BY <2>1, <1>t DEF Within, Threads, Workers
  <2>4. setup.cols # 0 /\ pc[q] \in Running \ {"run"}
    BY <1>8 DEF RowsReport, Running, RowFails, Await, Decode, RowDone
  <2>5. \A p \in Threads : pc[p] \in {"row_done", "decode"} => InJob(p)
    BY DEF InJob
  <2>6. CASE RowFails(q)
    <3>1. UNCHANGED <<entries, decoded, todo>> /\ err' = TRUE /\ pc'[q] = "failed"
      BY <2>6, <2>3 DEF RowFails
    <3>2. RowsReport'
      BY <2>2, <2>3, <2>4, <3>1 DEF RowsReport
    <3>3. WavefrontIsAhead'
      BY <2>3, <3>1 DEF WavefrontIsAhead
    <3>4. QED
      BY <3>1, <3>2, <3>3
  <2>7. CASE Await(q)
    <3>1. /\ UNCHANGED <<entries, decoded, todo, err>>
          /\ pc'[q] \in {"failed", "decode", "asleep"}
          /\ pc'[q] = "failed" => err
          /\ pc'[q] = "decode" => IsAhead(job[q])
      BY <2>7, <2>3 DEF Await
    <3>2. RowsReport'
      BY <2>2, <2>3, <2>4, <3>1 DEF RowsReport, Running
    <3>3. ASSUME pc'[q] = "decode", job[q] # 0, ~err
          PROVE  decoded[job[q] - 1] >= Minimum(setup.cols, decoded[job[q]] + Shift)
      <4>1. entries[job[q] - 1] >= entries[job[q]] + Shift
        BY <3>1, <3>3 DEF IsAhead
      <4>2. entries[job[q]] = decoded[job[q]]
        BY <2>2, <2>4 DEF RowsReport
      <4>3. \/ entries[job[q] - 1] = decoded[job[q] - 1]
            \/ decoded[job[q] - 1] = setup.cols
        BY <2>2, <2>4, <3>3 DEF RowsReport
      <4>4. decoded[job[q]] \in Nat /\ decoded[job[q] - 1] \in Nat /\ setup.cols \in Nat
        BY <1>d, <2>2, <3>3
      <4>5. QED
        BY <1>s, <4>1, <4>2, <4>3, <4>4 DEF Minimum
    <3>4. WavefrontIsAhead'
      BY <2>3, <3>1, <3>3 DEF WavefrontIsAhead
    <3>5. QED
      BY <3>1, <3>2, <3>4
  <2>8. CASE Decode(q)
    <3>1. /\ decoded' = [decoded EXCEPT ![job[q]] = @ + 1] /\ UNCHANGED <<todo, err>>
          /\ entries' = [entries EXCEPT ![job[q]] = @ + 1]
          /\ pc'[q] = IF decoded'[job[q]] = setup.cols THEN "row_done" ELSE "row"
      BY <2>8, <2>3 DEF Decode, Report
    <3>2. /\ RowTypes'
          /\ decoded'[job[q]] = decoded[job[q]] + 1 /\ entries'[job[q]] = entries[job[q]] + 1
          /\ \A r \in Jobs : r # job[q] => decoded'[r] = decoded[r] /\ entries'[r] = entries[r]
          /\ \A r \in Jobs : decoded'[r] \in Nat /\ decoded[r] \in Nat /\ decoded'[r] >= decoded[r]
      BY <2>2, <3>1
    <3>3. \A p \in Threads : pc'[p] = "row_done" => decoded'[job[p]] = setup.cols
      <4>1. ASSUME NEW p \in Threads, p # q, pc[p] = "row_done"
            PROVE  decoded'[job[p]] = setup.cols
        <5>1. job[p] \in Jobs /\ job[p] # job[q]
          BY <4>1, <2>2, <2>5, RowIsHeld
        <5>2. QED
          BY <4>1, <5>1, <3>2 DEF RowsReport
      <4>2. QED
        BY <2>3, <3>1, <4>1
    <3>4. RowsReport'
      <4>1. \A r \in Jobs : r < nbJobs =>
           /\ r \in todo => entries'[r] = decoded'[r]
           /\ r \notin todo => /\ entries'[r] = decoded'[r] + Shift
                               /\ decoded'[r] = setup.cols \/ err
        BY <2>2, <2>4, <3>2 DEF RowsReport
      <4>2. QED
        BY <2>2, <2>3, <2>4, <3>1, <3>3, <4>1 DEF RowsReport, Running
    <3>5. WavefrontIsAhead'
      <4>1. ASSUME NEW p \in Threads, p # q, pc[p] = "decode", job[p] # 0, ~err
            PROVE  decoded'[job[p] - 1] >= Minimum(setup.cols, decoded'[job[p]] + Shift)
        <5>1. job[p] \in Jobs /\ job[p] # job[q] /\ job[p] - 1 \in Jobs
          BY <4>1, <2>2, <2>5, RowIsHeld
        <5>2. decoded[job[p] - 1] >= Minimum(setup.cols, decoded[job[p]] + Shift)
          BY <4>1 DEF WavefrontIsAhead
        <5>3. decoded'[job[p] - 1] >= decoded[job[p] - 1] /\ decoded'[job[p]] = decoded[job[p]]
          BY <5>1, <3>2
        <5>4. /\ decoded'[job[p] - 1] \in Nat /\ decoded[job[p] - 1] \in Nat
              /\ Minimum(setup.cols, decoded[job[p]] + Shift) \in Nat
          BY <1>d, <1>s, <5>1, <3>2 DEF Minimum
        <5>5. QED
          BY <5>2, <5>3, <5>4
      <4>2. QED
        BY <2>3, <3>1, <4>1 DEF WavefrontIsAhead
    <3>6. QED
      BY <3>2, <3>4, <3>5
  <2>9. CASE RowDone(q)
    <3>1. /\ todo' = todo \ {job[q]} /\ UNCHANGED <<decoded, err>>
          /\ entries' = [entries EXCEPT ![job[q]] = @ + Shift]
          /\ pc'[q] = "next"
      BY <2>9, <2>3 DEF RowDone, Report, Finished
    <3>2. /\ RowTypes'
          /\ entries'[job[q]] = entries[job[q]] + Shift
          /\ \A r \in Jobs : r # job[q] => entries'[r] = entries[r]
      BY <2>2, <3>1, <1>s
    <3>3. decoded[job[q]] = setup.cols \/ err
      BY <2>9 DEF RowDone, RowsReport
    <3>4. RowsReport'
      <4>1. \A r \in Jobs : r < nbJobs =>
           /\ r \in todo' => entries'[r] = decoded[r]
           /\ r \notin todo' => /\ entries'[r] = decoded[r] + Shift
                                /\ decoded[r] = setup.cols \/ err
        BY <2>2, <2>4, <3>1, <3>2, <3>3 DEF RowsReport
      <4>2. QED
        BY <2>2, <2>3, <2>4, <3>1, <4>1 DEF RowsReport, Running
    <3>5. WavefrontIsAhead'
      BY <2>3, <3>1 DEF WavefrontIsAhead
    <3>6. QED
      BY <3>2, <3>4, <3>5
  <2>10. QED
    BY <1>8, <2>6, <2>7, <2>8, <2>9
<1>9. ASSUME NEW q \in Threads, Thread(q)
      PROVE  RowInv'
  BY <1>6, <1>7, <1>8, <1>9 DEF Thread
<1>10. QED
  BY <1>1, <1>3, <1>4, <1>5, <1>9 DEF Next, MainStep

\* What is reported of a row is what has been decoded of it, always.
LEMMA RowInvariant == Spec => []RowInv
<1>1. Init => RowInv
  <2>1. SUFFICES ASSUME Init
                 PROVE  RowInv
    OBVIOUS
  <2>2. /\ entries = [r \in Jobs |-> 0] /\ decoded = [r \in Jobs |-> 0]
        /\ \A q \in AllThreads : pc[q] \in {"waiting", "freeing", "idle"}
        /\ ~Calling
    BY <2>1 DEF Init, Calling, AllThreads
  <2>3. \A q \in Threads : pc[q] \in {"waiting", "freeing", "idle"}
    BY <2>1, <2>2, PoolInit, ThreadsKnown DEF PoolInv
  <2>4. QED
    BY <2>2, <2>3, Constants DEF RowInv, RowTypes, RowsReport, WavefrontIsAhead, Running
<1>2. PoolInv /\ RowInv /\ [Next]_vars /\ PoolInv' => RowInv'
  BY RowInvStep
<1>3. QED
  BY <1>1, <1>2, PoolInvariant, PTL DEF Spec

\* A column is decoded only when the columns it is predicted from have been, for
\* every size of picture, number of threads and Shift: await_progress2 lets a row go
\* on when the row above is far enough, and a row given up lets the next one pass
\* with wpp_err set.
THEOREM WavefrontAlwaysAhead == Spec => []WavefrontIsAhead
<1>1. RowInv => WavefrontIsAhead
  BY DEF RowInv
<1>2. QED
  BY <1>1, RowInvariant, PTL

-----------------------------------------------------------------------------
(* Nobody waits for ever: the guards of the steps, and what they rest on.    *)

\* What the calling thread needs for its next step in a call of execute or free, and a
\* thread for its own.
MainCan ==
    \/ pc[Main] = "waking" /\ (woken = NbWorkers \/ (woken < NbWorkers /\ CanWake(woken)))
    \/ pc[Main] = "joining" /\ done
    \/ pc[Main] = "freeing" /\ woken < started /\ CanWake(woken)
    \/ pc[Main] = "freeing" /\ woken = started /\ \A w \in Workers : pc[w] = "gone"
ThreadCan(q) ==
    \/ pc[q] \in {"first", "run", "next", "decode", "row_done", "failed", "last", "over"}
    \/ pc[q] \in {"row", "asleep"} /\ Awake(q)

SomebodyCan == MainCan \/ \E q \in Threads : ThreadCan(q)

\* No row can be given up.
Whole == setup.broken = {} \/ setup.cols = 0

(***************************************************************************)
(* Unless rows are broken (the finding of slice_threads_broken), there is  *)
(* a thread that can go on in every state of a call of execute, and of     *)
(* free: neither the mutexes and done nor the conditions of the rows leave *)
(* all of them waiting for each other.                                     *)
(***************************************************************************)
NeverStuck ==
    Whole /\ pc[Main] \notin {"idle", "gone"} => SomebodyCan

\* The last thread of a call reports; free wakes the workers one by one.
LastReports ==
    Calling /\ Ended = Participants => done \/ \E q \in Threads : pc[q] = "last"
FreeWakes ==
    pc[Main] = "freeing" =>
      /\ woken <= started
      /\ \A w \in Workers : /\ w < woken => pc[w] \in {"first", "gone"}
                            /\ w >= woken => pc[w] \in {"waiting", "over"}

\* No row that is whole passes the one above.
RowsInOrder ==
    /\ ~err
    /\ Calling /\ setup.cols # 0 =>
         /\ \A q \in Threads : pc[q] \in {"row", "asleep", "decode"} =>
              decoded[job[q]] < setup.cols
         /\ \A r \in Jobs : r < nbJobs => /\ decoded[r] <= setup.cols
                                          /\ Unassigned(r) => decoded[r] = 0
         /\ \A r, s \in Jobs : r < nbJobs /\ s < r /\ decoded[r] = setup.cols =>
              decoded[s] = setup.cols

\* Who sleeps was not signalled since the row above was not far enough, and it is the
\* condition of that row that it sleeps on.
SleepersWait ==
    /\ sleepers \in [0 .. N - 1 -> SUBSET Threads]
    /\ \A i \in 0 .. N - 1 : \A q \in sleepers[i] :
         /\ pc[q] = "asleep" /\ job[q] # 0 /\ (job[q] - 1) % N = i
         /\ ~IsAhead(job[q])

\* The thread that ends last reports, and is not forgotten before it does.
LEMMA LastReportsStep ==
    ASSUME PoolInv, LastReports, [Next]_vars
    PROVE  LastReports'
<1> SUFFICES ASSUME Calling', Ended' = Participants'
             PROVE  done' \/ \E q \in Threads' : pc'[q] = "last"
  BY DEF LastReports
<1>a. SliceTypes /\ Phases /\ active \in Nat /\ nbJobs \in Nat /\ currentJob \in Nat
      /\ (Calling => active > 0 /\ active <= nbJobs)
  BY Constants DEF PoolInv, SliceTypes, Phases
<1>1. ASSUME NEW n \in setup.jobs, Execute(n)
      PROVE  FALSE
  <2>1. Ended' = {} /\ active' \in Nat /\ active' > 0 /\ setup' = setup
    BY <1>1, ExecuteStep
  <2>2. Participants' # {}
    BY <1>a, <2>1, Constants DEF Participants, NbWorkers, SliceTypes
  <2>3. QED
    BY <2>1, <2>2
<1>2. ASSUME NEW q \in Threads, FirstJob(q)
      PROVE  FALSE
  <2>1. /\ Calling /\ Participants' = Participants /\ InJob(q)' /\ q \in Participants
    BY <1>2, <1>a, FirstJobStep, BusyTakesPart DEF FirstJob
  <2>2. q \in Ended'
    BY <2>1
  <2>3. QED
    BY <2>1, <2>2 DEF InJob, Ended
<1>3. ASSUME NEW q \in Threads, NextJob(q)
      PROVE  \E p \in Threads' : pc'[p] = "last"
  <2>1. /\ Calling /\ Threads' = Threads
        /\ Participants' = Participants /\ q \notin Ended /\ q \in Participants
        /\ currentJob < nbJobs => Ended' = Ended
        /\ currentJob >= nbJobs => /\ Ended' = Ended \cup {q}
                                   /\ pc'[q] = IF IsLast THEN "last" ELSE "over"
    BY <1>3, NextJobStep
  <2>2. currentJob >= nbJobs
    BY <1>a, <2>1
  <2>3. /\ IsFiniteSet(Ended) /\ Cardinality(Ended) \in Nat
        /\ IsFiniteSet(Participants) /\ Cardinality(Participants) = active
    BY <1>a, <2>1, ParticipantsCounted, FS_CardinalityType
  <2>4. currentJob = nbJobs + Cardinality(Ended)
    BY <1>a, <2>1, <2>2, <2>3, FS_EmptySet DEF PoolInv, CurrentCounts
  <2>5. Cardinality(Ended') = Cardinality(Ended) + 1
    BY <2>1, <2>2, <2>3, FS_AddElement
  <2>6. IsLast
    BY <1>a, <2>1, <2>3, <2>4, <2>5 DEF IsLast
  <2>7. QED
    BY <2>1, <2>2, <2>6
<1>4. ASSUME Calling, Wake \/ AllWoken \/ UNCHANGED vars \/ \E q \in Threads : Over(q) \/ Within(q)
      PROVE  done' \/ \E q \in Threads' : pc'[q] = "last"
  <2>1. /\ Threads' = Threads /\ Participants' = Participants /\ Ended' = Ended
    BY <1>4, QuietStep
  <2>2. CASE done
    <3>1. done' = done
      BY <1>4, <2>2, <1>a DEF Wake, AllWoken, vars, Over, Within
    <3>2. QED
      BY <2>2, <3>1
  <2>3. CASE ~done
    <3>1. PICK p \in Threads : pc[p] = "last"
      BY <1>4, <2>1, <2>3 DEF LastReports
    <3>2. p \in AllThreads /\ Main \in AllThreads
      BY <1>a, ThreadsKnown
    <3>3. CASE Over(p)
      <4>1. CASE p = Main
        <5>1. pc'[Main] = "idle"
          BY <1>a, <3>1, <3>2, <3>3, <4>1 DEF Over, Go, SliceTypes
        <5>2. QED
          BY <5>1 DEF Calling
      <4>2. CASE p # Main
        BY <3>1, <3>3, <4>2 DEF Over
      <4>3. QED
        BY <4>1, <4>2
    <3>4. CASE ~Over(p)
      <4>1. CASE Wake
        BY <1>a, <3>1, <3>2, <4>1, <2>1 DEF Wake, CanWake, Go, SliceTypes
      <4>2. CASE AllWoken
        BY <1>a, <3>1, <3>2, <4>2, <2>1 DEF AllWoken, Go, SliceTypes
      <4>3. CASE UNCHANGED vars
        BY <3>1, <4>3, <2>1 DEF vars
      <4>4. ASSUME NEW q \in Threads, Over(q) \/ Within(q)
            PROVE  pc'[p] = "last" \/ Over(p)
        BY <1>a, <3>1, <3>2, <4>4 DEF Over, Within, Running, Go, SliceTypes
      <4>5. QED
        BY <1>4, <2>1, <3>4, <4>1, <4>2, <4>3, <4>4
    <3>5. QED
      BY <3>3, <3>4
  <2>4. QED
    BY <2>2, <2>3
<1>5. QED
  BY <1>1, <1>2, <1>3, <1>4, StepsOfACall

\* free wakes the workers in their order, and they end.
LEMMA FreeWakesStep ==
    ASSUME PoolInv, FreeWakes, [Next]_vars
    PROVE  FreeWakes'
<1> SUFFICES ASSUME pc'[Main] = "freeing"
             PROVE  FreeWakes'
  BY DEF FreeWakes
<1>a. /\ SliceTypes /\ Phases /\ Main \in AllThreads /\ Main \notin Workers
      /\ Workers \in SUBSET Nat /\ Workers \in SUBSET AllThreads /\ started \in Nat
      /\ woken \in Nat /\ Threads = Workers \cup {Main} /\ pc \in [AllThreads -> Places]
  BY Constants, ThreadsKnown DEF PoolInv, SliceTypes, Threads
<1>b. UNCHANGED started => Workers' = Workers
  BY DEF Workers
<1>1. CASE Free
  <2>1. pc[Main] = "idle" /\ woken' = 0 /\ UNCHANGED started /\ pc' = [pc EXCEPT ![Main] = "freeing"]
    BY <1>1 DEF Free, Go
  <2>2. \A w \in Workers : pc[w] \in {"waiting", "over"}
    BY <1>a, <2>1 DEF Phases
  <2>3. \A w \in Workers : pc'[w] \in {"waiting", "over"} /\ ~(w < woken')
    BY <1>a, <2>1, <2>2
  <2>4. woken' <= started' /\ Workers' = Workers
    BY <1>a, <1>b, <2>1
  <2>5. QED
    BY <2>3, <2>4 DEF FreeWakes
<1>2. ASSUME pc[Main] = "freeing"
      PROVE  FreeWakes'
  <2>0. /\ woken <= started /\ finished
        /\ \A w \in Workers : /\ w < woken => pc[w] \in {"first", "gone"}
                              /\ w >= woken => pc[w] \in {"waiting", "over"}
    BY <1>2, <1>a DEF FreeWakes, Phases
  <2>1. CASE Wake
    <3>1. /\ woken < started /\ woken' = woken + 1 /\ pc' = [pc EXCEPT ![woken] = "first"]
          /\ UNCHANGED started
      BY <1>2, <2>1 DEF Wake, Go, pool
    <3>2. woken \in Workers
      BY <1>a, <3>1 DEF Workers
    <3>3. ASSUME NEW w \in Workers
          PROVE  /\ w < woken' => pc'[w] \in {"first", "gone"}
                 /\ w >= woken' => pc'[w] \in {"waiting", "over"}
      <4>1. CASE w = woken
        BY <1>a, <3>1, <3>2, <4>1
      <4>2. CASE w # woken
        <5>1. pc'[w] = pc[w] /\ w \in Nat /\ woken \in Nat
          BY <1>a, <3>1, <3>2, <4>2
        <5>2. (w < woken' => w < woken) /\ (w >= woken' => w >= woken)
          BY <3>1, <4>2, <5>1
        <5>3. QED
          BY <2>0, <5>1, <5>2
      <4>3. QED
        BY <4>1, <4>2
    <3>4. woken' <= started' /\ Workers' = Workers
      BY <1>a, <1>b, <3>1
    <3>5. QED
      BY <3>3, <3>4 DEF FreeWakes
  <2>2. ASSUME NEW q \in Threads, Thread(q)
        PROVE  FreeWakes'
    <3>1. q \in Workers /\ pc[q] \in {"first", "gone", "waiting", "over"}
      <4>1. q # Main
        BY <1>2, <2>2 DEF Thread, Exit, FirstJob, NextJob, Over, RunJob, RowFails, Await,
                          Decode, RowDone
      <4>2. q \in Workers
        BY <1>a, <4>1
      <4>3. q < woken \/ q >= woken
        BY <1>a, <4>2
      <4>4. QED
        BY <2>0, <4>2, <4>3
    <3>2. Exit(q) \/ Over(q)
      BY <2>0, <2>2, <3>1 DEF Thread, FirstJob, NextJob, RunJob, RowFails, Await, Decode, RowDone
    <3>3. CASE Exit(q)
      <4>1. pc[q] = "first" /\ pc' = [pc EXCEPT ![q] = "gone"] /\ UNCHANGED <<started, woken>>
        BY <3>3 DEF Exit, Go, pool
      <4>2. QED
        BY <1>a, <1>b, <2>0, <3>1, <4>1 DEF FreeWakes
    <3>4. CASE Over(q)
      <4>1. /\ pc[q] = "over" /\ pc' = [pc EXCEPT ![q] = "waiting"]
            /\ UNCHANGED <<started, woken>>
        BY <1>a, <3>1, <3>4 DEF Over, Go, pool
      <4>2. QED
        BY <1>a, <1>b, <2>0, <3>1, <4>1 DEF FreeWakes
    <3>5. QED
      BY <3>2, <3>3, <3>4
  <2>3. CASE UNCHANGED vars
    BY <2>0, <2>3, <1>b DEF vars, pool, FreeWakes
  <2>4. ~Free /\ ~AllWoken /\ ~Join /\ ~ \E n \in setup.jobs : Execute(n)
    BY <1>2 DEF Free, AllWoken, Join, Execute
  <2>5. ~Freed
    BY <1>a DEF Freed, Go
  <2>6. QED
    BY <2>1, <2>2, <2>3, <2>4, <2>5 DEF Next, MainStep
<1>3. ASSUME pc[Main] # "freeing", ~Free
      PROVE  FALSE
  <2>1. ASSUME NEW n \in setup.jobs, Execute(n)
        PROVE  FALSE
    BY <1>a, <2>1 DEF Execute, Go
  <2>2. CASE Wake
    <3>1. woken # Main
      BY <1>a, Constants
    <3>2. QED
      BY <1>a, <1>3, <2>2, <3>1 DEF Wake, Go
  <2>3. CASE AllWoken \/ Join \/ Freed
    BY <1>a, <2>3 DEF AllWoken, Join, Freed, Go
  <2>4. ASSUME NEW q \in Threads, Thread(q)
        PROVE  FALSE
    <3>1. \E where \in Running \cup {"next", "over", "last", "gone", "waiting", "idle", "joining"} :
             Go(q, where)
      BY <2>4, <1>a, ThreadsKnown DEF Thread, Exit, FirstJob, NextJob, Over, RunJob, RowFails, Await,
                        Decode, RowDone, Finished, Running
    <3>2. QED
      BY <1>a, <1>3, <3>1 DEF Go, Running
  <2>5. CASE UNCHANGED vars
    BY <1>3, <2>5 DEF vars
  <2>6. QED
    BY <1>3, <2>1, <2>2, <2>3, <2>4, <2>5 DEF Next, MainStep
<1>4. QED
  BY <1>1, <1>2, <1>3

-----------------------------------------------------------------------------
(* The rows that sleep. *)

\* A row has been decoded no further than those above, and not at all when nobody
\* has it yet.
LEMMA RowsInOrderStep ==
    ASSUME PoolInv, RowInv, RowsInOrder, Whole, [Next]_vars
    PROVE  RowsInOrder'
<1>a. /\ SliceTypes /\ Phases /\ JobsAreApart /\ RowTypes /\ RowsReport /\ WavefrontIsAhead
      /\ active \in Nat /\ nbJobs \in Nat /\ currentJob \in Nat /\ firstJob \in Nat
      /\ (Calling => active > 0 /\ active <= nbJobs /\ active <= currentJob)
      /\ setup.cols \in Nat /\ \A q \in Threads : q \in AllThreads /\ job[q] \in Nat
      /\ decoded \in [Jobs -> Nat] /\ Jobs \in SUBSET Nat /\ ~err
  BY Constants, ThreadsKnown
     DEF PoolInv, RowInv, SliceTypes, Phases, CurrentCounts, RowTypes, RowsInOrder, Jobs
<1>b. setup \in Setups /\ (Calling => nbJobs \in setup.jobs)
  BY DEF PoolInv, Phases, SliceTypes
<1>c. Calling => \A r \in 0 .. nbJobs - 1 : r \in Jobs
  BY <1>b DEF Jobs
<1>s. Shift \in Nat /\ Shift > 0
  BY BoundsAssumption DEF BoundsAssumption
<1> DEFINE Row(q) == pc[q] \in {"row", "asleep", "decode"}
           First == \A q \in Threads : Row(q) => decoded[job[q]] < setup.cols
           Second == \A r \in Jobs : r < nbJobs => /\ decoded[r] <= setup.cols
                                                   /\ Unassigned(r) => decoded[r] = 0
           Third == \A r, s \in Jobs : r < nbJobs /\ s < r /\ decoded[r] = setup.cols =>
                      decoded[s] = setup.cols
<1>d. ASSUME Calling, setup.cols # 0
      PROVE  First /\ Second /\ Third
  <2>1. First
    BY <1>d DEF RowsInOrder
  <2>2. Second
    BY <1>d DEF RowsInOrder
  <2>3. Third
    BY <1>d DEF RowsInOrder
  <2>4. QED
    BY <2>1, <2>2, <2>3
<1>1. ASSUME NEW n \in setup.jobs, Execute(n)
      PROVE  RowsInOrder'
  <2>1. /\ decoded' = [r \in Jobs |-> 0] /\ UNCHANGED setup /\ ~err'
        /\ Threads' = Threads /\ \A q \in Threads : ~InJob(q)'
    BY <1>1, ExecuteStep DEF Execute, pool
  <2>2. QED
    BY <1>a, <2>1 DEF RowsInOrder, InJob
<1>2. ASSUME UNCHANGED <<setup, started, nbJobs, active, decoded, err>>, Calling' => Calling,
             \A q \in Threads : Row(q)' => \/ Row(q) /\ job'[q] = job[q]
                                           \/ /\ job'[q] \in Jobs /\ job'[q] < nbJobs
                                              /\ Unassigned(job'[q]),
             \A r \in Jobs : Unassigned(r)' => Unassigned(r)
      PROVE  RowsInOrder'
  <2>1. Threads' = Threads
    BY <1>2 DEF Threads, Workers
  <2>2. ~err'
    BY <1>a, <1>2
  <2>3. SUFFICES ASSUME Calling, setup.cols # 0, First, Second, Third
                 PROVE  First' /\ Second' /\ Third'
    BY <1>2, <1>d, <2>2 DEF RowsInOrder
  <2>4. ASSUME NEW q \in Threads, Row(q)'
        PROVE  decoded[job'[q]] < setup.cols
    <3>1. CASE Row(q) /\ job'[q] = job[q]
      BY <2>3, <3>1
    <3>2. CASE job'[q] \in Jobs /\ job'[q] < nbJobs /\ Unassigned(job'[q])
      <4>1. decoded[job'[q]] = 0
        BY <2>3, <3>2
      <4>2. QED
        BY <1>a, <2>3, <4>1
    <3>3. QED
      BY <1>2, <2>4, <3>1, <3>2
  <2>5. First'
    BY <1>2, <2>1, <2>4
  <2>6. Second'
    BY <1>2, <2>3
  <2>7. Third'
    BY <1>2, <2>3
  <2>8. QED
    BY <2>5, <2>6, <2>7
<1>3. CASE Free \/ Freed \/ Join \/ AllWoken \/ UNCHANGED vars
  BY <1>a, <1>2, <1>3
     DEF Free, Freed, Join, AllWoken, vars, pool, counters, rows, Calling, Go, SliceTypes, Unassigned,
         AllThreads
<1>4. CASE Wake
  <2>1. woken # Main /\ woken \in AllThreads /\ pc' = [pc EXCEPT ![woken] = "first"]
    BY <1>a, <1>4, Constants DEF Wake, NbWorkers, AllThreads, SliceTypes, Go, CanWake
  <2>2. QED
    BY <1>a, <1>2, <1>4, <2>1
       DEF Wake, pool, counters, rows, Calling, SliceTypes, Unassigned, AllThreads
<1>5. ASSUME NEW q \in Threads, FirstJob(q)
      PROVE  RowsInOrder'
  <2>1. Calling /\ firstJob < active
    BY <1>5, FirstJobStep
  <2>2. /\ job' = [job EXCEPT ![q] = firstJob] /\ firstJob' = firstJob + 1
        /\ UNCHANGED <<setup, started, nbJobs, active, currentJob, decoded, err>>
        /\ \E where \in {"run", "row"} : pc' = [pc EXCEPT ![q] = where]
    BY <1>5 DEF FirstJob, Go, Begins, Incremented, pool, rows
  <2>3. firstJob \in Jobs /\ firstJob < nbJobs /\ Unassigned(firstJob)
    BY <1>a, <1>c, <2>1 DEF Unassigned
  <2>4. \A r \in Jobs : Unassigned(r)' => Unassigned(r)
    BY <1>a, <2>2 DEF Unassigned
  <2>5. \A p \in Threads : Row(p)' => \/ Row(p) /\ job'[p] = job[p]
                                      \/ job'[p] = firstJob
    BY <1>a, <2>2 DEF SliceTypes
  <2>6. QED
    BY <1>2, <2>1, <2>2, <2>3, <2>4, <2>5
<1>6. ASSUME NEW q \in Threads, NextJob(q)
      PROVE  RowsInOrder'
  <2>1. Calling
    BY <1>6, NextJobStep
  <2>2. /\ currentJob' = currentJob + 1
        /\ UNCHANGED <<setup, started, nbJobs, active, firstJob, decoded, err>>
    BY <1>6 DEF NextJob, Incremented, pool, rows
  <2>3. \A r \in Jobs : Unassigned(r)' => Unassigned(r)
    BY <1>a, <2>2 DEF Unassigned
  <2>4. CASE currentJob < nbJobs
    <3>1. currentJob \in Jobs /\ Unassigned(currentJob)
      BY <1>a, <1>c, <2>1, <2>4 DEF Unassigned
    <3>2. /\ job' = [job EXCEPT ![q] = currentJob]
          /\ \E where \in {"run", "row"} : pc' = [pc EXCEPT ![q] = where]
      BY <1>6, <2>4 DEF NextJob, Go, Begins
    <3>3. \A p \in Threads : Row(p)' => \/ Row(p) /\ job'[p] = job[p]
                                        \/ job'[p] = currentJob
      BY <1>a, <3>2 DEF SliceTypes
    <3>4. QED
      BY <1>2, <2>1, <2>2, <2>3, <2>4, <3>1, <3>3
  <2>5. CASE ~(currentJob < nbJobs)
    <3>1. /\ job' = job
          /\ \E where \in {"last", "over"} : pc' = [pc EXCEPT ![q] = where]
      BY <1>6, <2>5 DEF NextJob, Go
    <3>2. \A p \in Threads : Row(p)' => Row(p) /\ job'[p] = job[p]
      BY <1>a, <3>1 DEF SliceTypes
    <3>3. QED
      BY <1>2, <2>1, <2>2, <2>3, <3>2
  <2>6. QED
    BY <2>4, <2>5
<1>7. ASSUME NEW q \in Threads, Exit(q) \/ Over(q) \/ RunJob(q) \/ Await(q) \/ RowDone(q)
      PROVE  RowsInOrder'
  <2>1. /\ UNCHANGED <<setup, started, nbJobs, active, firstJob, currentJob, decoded, err, job>>
        /\ \E where \in {"gone", "idle", "joining", "waiting", "next", "failed", "decode", "asleep"} :
             /\ pc' = [pc EXCEPT ![q] = where]
             /\ where \in {"failed", "decode", "asleep"} => pc[q] \in {"row", "asleep"}
    BY <1>7 DEF Exit, Over, RunJob, Await, RowDone, Report, Finished, Go, pool, counters, rows
  <2>2. \A p \in Threads : Row(p)' => Row(p) /\ job'[p] = job[p]
    BY <1>a, <2>1 DEF SliceTypes
  <2>3. \A r \in Jobs : Unassigned(r)' => Unassigned(r)
    BY <2>1 DEF Unassigned
  <2>4. Calling' => Calling
    <3>1. Exit(q) => pc[q] = "first" /\ finished
      BY DEF Exit
    <3>2. q = Main => pc[q] # "waiting"
      BY <1>a DEF Phases
    <3>3. q # Main => pc'[Main] = pc[Main]
      BY <1>a, <2>1, ThreadsKnown DEF SliceTypes
    <3>4. q = Main => pc[q] \notin {"idle", "freeing", "gone"}
      BY <1>7 DEF Exit, Over, RunJob, Await, RowDone
    <3>5. QED
      BY <3>3, <3>4 DEF Calling
  <2>5. QED
    BY <1>2, <2>1, <2>2, <2>3, <2>4
<1>8. ASSUME NEW q \in Threads, RowFails(q)
      PROVE  FALSE
  <2>1. setup.cols # 0 /\ setup.broken # {}
    BY <1>8, <1>a DEF RowFails, RowsReport, Running
  <2>2. QED
    BY <2>1 DEF Whole
<1>9. ASSUME NEW q \in Threads, Decode(q)
      PROVE  RowsInOrder'
  <2> DEFINE j == job[q]
  <2>1. InJob(q) /\ pc[q] = "decode"
    BY <1>9 DEF Decode, InJob
  <2>2. /\ Calling /\ j \in Jobs /\ j \in Nat /\ j < nbJobs
        /\ j # 0 => j - 1 \in Jobs /\ j - 1 < nbJobs
        /\ \A p \in Threads : InJob(p) /\ p # q => job[p] # j
    BY <2>1, RowIsHeld
  <2>3. setup.cols # 0
    BY <1>a, <2>1 DEF RowsReport, Running
  <2>4. First /\ Second /\ Third
    BY <1>d, <2>2, <2>3
  <2>5. decoded[j] < setup.cols /\ decoded[j] \in Nat
    BY <1>a, <2>1, <2>2, <2>4
  <2>6. /\ decoded' = [decoded EXCEPT ![j] = @ + 1]
        /\ pc' = [pc EXCEPT ![q] = IF decoded'[j] = setup.cols THEN "row_done" ELSE "row"]
        /\ UNCHANGED <<setup, started, nbJobs, active, firstJob, currentJob, err, job>>
    BY <1>9 DEF Decode, Go, pool, counters
  <2>7. /\ decoded'[j] = decoded[j] + 1 /\ decoded'[j] <= setup.cols
        /\ \A r \in Jobs : r # j => decoded'[r] = decoded[r]
    BY <1>a, <2>2, <2>5, <2>6
  <2>8. Threads' = Threads /\ (\A r \in Jobs : Unassigned(r)' = Unassigned(r))
    BY <2>6 DEF Threads, Workers, Unassigned
  <2>9. ~Unassigned(j)
    BY <1>a, <2>1, <2>2 DEF JobsAreApart
  <2> HIDE DEF j
  <2>10. First'
    <3>1. ASSUME NEW p \in Threads, Row(p)'
          PROVE  decoded'[job[p]] < setup.cols
      <4>1. CASE p = q
        <5>1. decoded'[j] # setup.cols
          BY <1>a, <2>6, <3>1, <4>1 DEF SliceTypes
        <5>2. QED
          BY <1>a, <2>5, <2>7, <4>1, <5>1 DEF j
      <4>2. CASE p # q
        <5>1. Row(p)
          BY <1>a, <2>6, <3>1, <4>2 DEF SliceTypes
        <5>2. job[p] \in Jobs /\ job[p] # j
          BY <2>2, <4>2, <5>1, RowIsHeld DEF InJob
        <5>3. QED
          BY <2>4, <2>7, <5>1, <5>2
      <4>3. QED
        BY <4>1, <4>2
    <3>2. QED
      BY <2>6, <2>8, <3>1
  <2>11. Second'
    <3>1. ASSUME NEW r \in Jobs, r < nbJobs
          PROVE  decoded'[r] <= setup.cols /\ (Unassigned(r) => decoded'[r] = 0)
      BY <2>4, <2>7, <2>9, <3>1
    <3>2. QED
      BY <2>6, <2>8, <3>1
  <2>12. Third'
    <3>1. ASSUME NEW r \in Jobs, NEW s \in Jobs, r < nbJobs, s < r, decoded'[r] = setup.cols
          PROVE  decoded'[s] = setup.cols
      <4>1. CASE r = j
        <5>1. j # 0 /\ s # j /\ s \in Nat
          BY <1>a, <2>2, <3>1, <4>1
        <5>2. decoded[j - 1] >= Minimum(setup.cols, decoded[j] + Shift)
          BY <1>a, <2>1, <5>1 DEF WavefrontIsAhead, j
        <5>3. Minimum(setup.cols, decoded[j] + Shift) = setup.cols
          BY <1>a, <1>s, <2>5, <2>7, <3>1, <4>1 DEF Minimum
        <5>4. decoded[j - 1] = setup.cols /\ j - 1 \in Jobs /\ j - 1 < nbJobs
          BY <1>a, <2>2, <2>4, <5>1, <5>2, <5>3
        <5>5. decoded[s] = setup.cols
          <6>1. s = j - 1 \/ s < j - 1
            BY <2>2, <3>1, <4>1, <5>1
          <6>2. QED
            BY <2>4, <5>4, <6>1
        <5>6. QED
          BY <2>7, <5>1, <5>5
      <4>2. CASE r # j
        <5>1. decoded[r] = setup.cols
          BY <2>7, <3>1, <4>2
        <5>2. decoded[s] = setup.cols
          BY <2>4, <3>1, <5>1
        <5>3. s # j
          BY <2>5, <5>2, <1>a
        <5>4. QED
          BY <2>7, <5>2, <5>3
      <4>3. QED
        BY <4>1, <4>2
    <3>2. QED
      BY <2>6, <3>1
  <2>13. QED
    BY <1>a, <2>6, <2>10, <2>11, <2>12 DEF RowsInOrder
<1>10. QED
  BY <1>1, <1>3, <1>4, <1>5, <1>6, <1>7, <1>8, <1>9 DEF Next, MainStep, Thread

\* Numbers with the same remainder are N apart.
LEMMA SameCondition ==
    ASSUME NEW a \in Nat, NEW b \in Nat, a < b, a % N = b % N
    PROVE  a + N <= b
<1> DEFINE x == a \div N
           y == b \div N
           m == a % N
<1>1. N \in Nat /\ N > 0
  BY Constants
<1>2. /\ x \in Int /\ y \in Int /\ m \in 0 .. N - 1
      /\ a = N * x + m /\ b = N * y + m
  BY <1>1
<1> HIDE DEF x, y, m
<1>3. y >= x + 1
  <2>1. SUFFICES ASSUME y <= x
                 PROVE  FALSE
    BY <1>2
  <2>2. N * y <= N * x
    BY <1>1, <1>2, <2>1
  <2>3. QED
    BY <1>1, <1>2, <2>2
<1>4. N * y >= N * x + N
  <2>1. N * y = N * x + N * (y - x)
    BY <1>1, <1>2
  <2>2. N * (y - x) >= N
    BY <1>1, <1>2, <1>3
  <2>3. N * x \in Int /\ N * y \in Int /\ N * (y - x) \in Int
    BY <1>1, <1>2
  <2>4. QED
    BY <1>1, <2>1, <2>2, <2>3
<1>5. N * x \in Int /\ N * y \in Int
  BY <1>1, <1>2
<1>6. QED
  BY <1>1, <1>2, <1>4, <1>5

\* Of N + 1 rows that are not done one is in nobody's hands: the threads of a call have
\* different numbers, and the rows that were left to those that have not begun are the
\* numbers these will have.
LEMMA RowsInHand ==
    ASSUME PoolInv, Calling, NEW j \in Nat, NEW k \in Nat, j + N <= k,
           k < currentJob, \A r \in j .. k : r \in todo
    PROVE  FALSE
<1>1. /\ N \in Nat /\ active \in 0 .. N /\ firstJob \in Nat /\ currentJob \in Nat
      /\ \A q \in Threads : number[q] \in Nat /\ job[q] \in Nat
  BY Constants, ThreadsKnown DEF PoolInv, SliceTypes
<1> DEFINE Holds(q, r) == InJob(q) /\ job[q] = r
           Holder(r) == CHOOSE q \in Threads : Holds(q, r)
           f == [r \in j .. k |-> IF \E q \in Threads : Holds(q, r) THEN number[Holder(r)] ELSE r]
<1>2. firstJob <= active
  <2>1. IsFiniteSet(Unstarted)
    BY ParticipantsCounted DEF PoolInv
  <2>2. Cardinality(Unstarted) \in Nat
    BY <2>1, FS_CardinalityType
  <2>3. QED
    BY <1>1, <2>2 DEF PoolInv, FirstCounts
<1>3. ASSUME NEW r \in j .. k
      PROVE  \/ /\ Holder(r) \in Threads /\ Holds(Holder(r), r) /\ f[r] = number[Holder(r)]
                /\ f[r] \in 0 .. firstJob - 1
             \/ f[r] = r /\ firstJob <= r /\ r < active
  <2>1. CASE \E q \in Threads : Holds(q, r)
    <3>1. Holder(r) \in Threads /\ Holds(Holder(r), r)
      BY <2>1
    <3>2. f[r] = number[Holder(r)]
      BY <2>1
    <3> HIDE DEF Holder
    <3>3. number[Holder(r)] < firstJob
      BY <3>1 DEF PoolInv, FirstCounts, Busy
    <3>4. QED
      BY <1>1, <3>1, <3>2, <3>3
  <2>2. CASE ~ \E q \in Threads : Holds(q, r)
    <3>1. f[r] = r
      BY <2>2
    <3>2. Unassigned(r)
      BY <1>3, <2>2 DEF PoolInv, JobsAreApart
    <3>3. r < currentJob
      BY <1>1, <1>3
    <3>4. QED
      BY <1>1, <1>3, <3>1, <3>2, <3>3 DEF Unassigned
  <2>3. QED
    BY <2>1, <2>2
<1> DEFINE S == j .. k
           T == 0 .. active - 1
<1>4. f \in [S -> T]
  <2>1. \A r \in S : f[r] \in T
    BY <1>1, <1>2, <1>3
  <2>2. QED
    BY <2>1
<1>5. /\ IsFiniteSet(S) /\ Cardinality(S) = k - j + 1
      /\ IsFiniteSet(T) /\ Cardinality(T) = active
  <2>1. IsFiniteSet(S) /\ Cardinality(S) = k - j + 1
    BY <1>1, FS_Interval
  <2>2. IsFiniteSet(T) /\ Cardinality(T) = active
    BY <1>1, FS_Interval
  <2>3. QED
    BY <2>1, <2>2
<1>6. Cardinality(T) < Cardinality(S)
  BY <1>1, <1>5
<1>7. PICK r, s \in S : r # s /\ f[r] = f[s]
  <2> HIDE DEF S, T, f
  <2>1. QED
    BY <1>4, <1>5, <1>6, FS_PigeonHole
<1> HIDE DEF Holder, f
<1>8. CASE f[r] < firstJob
  <2>1. /\ Holder(r) \in Threads /\ Holds(Holder(r), r) /\ f[r] = number[Holder(r)]
        /\ Holder(s) \in Threads /\ Holds(Holder(s), s) /\ f[s] = number[Holder(s)]
    BY <1>1, <1>3, <1>7, <1>8
  <2>2. Holder(r) = Holder(s)
    BY <1>7, <2>1 DEF PoolInv, FirstCounts, Busy
  <2>3. QED
    BY <1>7, <2>1, <2>2
<1>9. CASE ~(f[r] < firstJob)
  BY <1>1, <1>3, <1>7, <1>9
<1>10. QED
  BY <1>8, <1>9

\* The rows that two threads sleep for are less than N apart, so that the condition
\* one of them sleeps on is its own.
LEMMA OneSleeper ==
    ASSUME PoolInv, RowInv, RowsInOrder, SleepersWait, NEW i \in 0 .. N - 1,
           NEW p \in sleepers[i], NEW q \in sleepers[i]
    PROVE  p = q
<1>1. /\ p \in Threads /\ InJob(p) /\ pc[p] = "asleep" /\ job[p] # 0 /\ (job[p] - 1) % N = i
      /\ q \in Threads /\ InJob(q) /\ pc[q] = "asleep" /\ job[q] # 0 /\ (job[q] - 1) % N = i
  BY DEF SleepersWait, InJob
<1>2. /\ Calling /\ job[p] \in Nat /\ job[q] \in Nat /\ job[p] \in Jobs /\ job[q] \in Jobs
      /\ job[p] < nbJobs /\ job[q] < nbJobs /\ nbJobs \in Nat
      /\ job[p] \in todo /\ job[q] \in todo
  BY <1>1, RowIsHeld
<1>3. setup.cols # 0
  BY <1>1 DEF RowInv, RowsReport, Running
<1>4. ASSUME NEW a \in Threads, NEW b \in Threads, InJob(b), pc[a] = "asleep",
             job[a] \in Nat, job[a] # 0, job[b] \in Nat, job[b] < nbJobs, job[b] # 0,
             job[a] \in Jobs, job[a] < job[b], (job[a] - 1) % N = (job[b] - 1) % N
      PROVE  FALSE
  <2>1. job[a] + N <= job[b]
    <3>1. /\ job[a] - 1 \in Nat /\ job[b] - 1 \in Nat /\ job[a] - 1 < job[b] - 1
      BY <1>4
    <3>2. job[a] - 1 + N <= job[b] - 1
      BY <1>4, <3>1, SameCondition
    <3>3. QED
      BY <1>4, <3>2, Constants
  <2>2. job[b] < currentJob
    <3>1. currentJob \in Nat /\ ~Unassigned(job[b])
      BY <1>2, <1>4 DEF PoolInv, SliceTypes, JobsAreApart
    <3>2. QED
      BY <1>4, <3>1 DEF Unassigned
  <2>3. decoded[job[a]] < setup.cols /\ decoded[job[a]] \in Nat /\ setup.cols \in Nat
    BY <1>2, <1>3, <1>4, Constants DEF RowsInOrder, RowInv, RowTypes, PoolInv, SliceTypes
  <2>4. ASSUME NEW r \in job[a] .. job[b]
        PROVE  r \in todo
    <3>1. SUFFICES ASSUME r \notin todo
                   PROVE  FALSE
      OBVIOUS
    <3>2. r \in Nat /\ r < nbJobs
      BY <1>2, <1>4
    <3>3. r \in Jobs
      <4>1. setup \in Setups /\ nbJobs \in setup.jobs
        BY <1>2 DEF PoolInv, Phases, SliceTypes
      <4>2. \A n \in 0 .. nbJobs - 1 : n \in Jobs
        BY <4>1 DEF Jobs
      <4>3. QED
        BY <1>2, <3>2, <4>2
    <3>4. decoded[r] = setup.cols
      BY <1>2, <1>3, <3>1, <3>2, <3>3 DEF RowInv, RowsReport, RowsInOrder
    <3>5. job[a] < r \/ r = job[a]
      BY <1>4
    <3>6. decoded[job[a]] = setup.cols
      BY <1>2, <1>3, <1>4, <3>2, <3>3, <3>4, <3>5 DEF RowsInOrder
    <3>7. QED
      BY <2>3, <3>6
  <2>5. QED
    BY <1>2, <1>4, <2>1, <2>2, <2>4, RowsInHand
<1>5. job[p] = job[q]
  <2>1. ~(job[p] < job[q])
    BY <1>1, <1>2, <1>4
  <2>2. ~(job[q] < job[p])
    BY <1>1, <1>2, <1>4
  <2>3. QED
    BY <1>2, <2>1, <2>2
<1>6. QED
  BY <1>1, <1>5, RowIsHeld

\* A sleeper is signalled by every report of the row it sleeps for, and by no other.
LEMMA SleepersStep ==
    ASSUME PoolInv, RowInv, RowsInOrder, SleepersWait, [Next]_vars
    PROVE  SleepersWait'
<1>a. /\ SliceTypes /\ Phases /\ N \in Nat /\ N > 0 /\ \A q \in Threads : q \in AllThreads
      /\ sleepers \in [0 .. N - 1 -> SUBSET Threads]
      /\ \A i \in 0 .. N - 1 : \A q \in sleepers[i] :
           /\ pc[q] = "asleep" /\ job[q] # 0 /\ (job[q] - 1) % N = i
           /\ ~IsAhead(job[q])
  BY Constants, ThreadsKnown DEF PoolInv, SleepersWait
<1>b. Threads' = Threads
  <2>1. UNCHANGED started
    BY DEF Next, MainStep, Thread, Execute, Free, Wake, AllWoken, Join, Freed, Exit, FirstJob,
           NextJob, Over, RunJob, RowFails, Await, Decode, RowDone, pool, vars
  <2>2. QED
    BY <2>1 DEF Threads, Workers
<1>c. \A q \in Threads : pc[q] = "asleep" => InJob(q)
  BY DEF InJob
<1>1. ASSUME NEW n \in setup.jobs, Execute(n)
      PROVE  SleepersWait'
  <2>1. pc[Main] = "idle" /\ UNCHANGED sleepers
    BY <1>1 DEF Execute
  <2>2. \A q \in Threads : pc[q] # "asleep"
    BY <1>a, <2>1 DEF Phases, Threads
  <2>3. \A i \in 0 .. N - 1 : sleepers[i] = {}
    BY <1>a, <2>2
  <2>4. QED
    BY <1>a, <1>b, <2>1, <2>3 DEF SleepersWait
<1>2. ASSUME UNCHANGED <<sleepers, entries>>,
             \A q \in Threads : pc[q] = "asleep" /\ ~Awake(q) => pc'[q] = "asleep" /\ job'[q] = job[q]
      PROVE  SleepersWait'
  <2>1. ASSUME NEW i \in 0 .. N - 1, NEW q \in sleepers[i]
        PROVE  /\ pc'[q] = "asleep" /\ job'[q] = job[q] /\ job[q] # 0 /\ (job[q] - 1) % N = i
               /\ ~IsAhead(job[q])
    <3>1. q \in Threads /\ pc[q] = "asleep" /\ ~Awake(q)
      BY <1>a DEF Awake
    <3>2. QED
      BY <1>2, <1>a, <3>1
  <2>2. QED
    BY <1>a, <1>b, <1>2, <2>1 DEF SleepersWait, IsAhead
<1>3. CASE Free \/ Freed \/ Join \/ AllWoken \/ UNCHANGED vars
  BY <1>a, <1>2, <1>3 DEF Free, Freed, Join, AllWoken, vars, rows, Go, SliceTypes
<1>4. CASE Wake
  BY <1>a, <1>2, <1>4, Constants DEF Wake, CanWake, rows, Go, SliceTypes
<1>5. ASSUME NEW q \in Threads,
             Exit(q) \/ FirstJob(q) \/ NextJob(q) \/ Over(q) \/ RunJob(q) \/ RowFails(q)
      PROVE  SleepersWait'
  <2>1. UNCHANGED <<sleepers, entries>> /\ pc[q] # "asleep"
    BY <1>5 DEF Exit, FirstJob, NextJob, Over, RunJob, RowFails, rows
  <2>2. \E where \in Places : pc' = [pc EXCEPT ![q] = where]
    BY <1>a, <1>5, ThreadsKnown DEF Exit, FirstJob, NextJob, Over, RunJob, RowFails, Go, Finished, Places, Running
  <2>3. \A p \in Threads : p # q => job'[p] = job[p]
    BY <1>a, <1>5 DEF Exit, FirstJob, NextJob, Over, RunJob, RowFails, SliceTypes
  <2>4. QED
    BY <1>a, <1>2, <2>1, <2>2, <2>3 DEF SliceTypes
<1>6. ASSUME NEW q \in Threads, Await(q)
      PROVE  SleepersWait'
  <2>1. Awake(q) /\ UNCHANGED <<entries, job>> /\ pc[q] \in {"row", "asleep"} /\ InJob(q)
    BY <1>6 DEF Await, InJob
  <2>2. CASE IsAhead(job[q])
    <3>1. UNCHANGED sleepers /\ \E where \in {"failed", "decode"} : pc' = [pc EXCEPT ![q] = where]
      BY <1>6, <2>2 DEF Await, Go
    <3>2. QED
      BY <1>a, <1>2, <2>1, <3>1 DEF SliceTypes
  <2>3. CASE ~IsAhead(job[q])
    <3> DEFINE k == (job[q] - 1) % N
    <3>1. /\ sleepers' = [sleepers EXCEPT ![k] = @ \cup {q}]
          /\ pc' = [pc EXCEPT ![q] = "asleep"]
      BY <1>6, <2>3 DEF Await, Go
    <3>2. job[q] # 0 /\ job[q] \in Nat
      BY <2>1, <2>3, RowIsHeld DEF IsAhead
    <3>3. k \in 0 .. N - 1
      BY <1>a, <3>2
    <3>4. sleepers' \in [0 .. N - 1 -> SUBSET Threads]
      BY <1>a, <3>1, <3>3
    <3>5. ASSUME NEW i \in 0 .. N - 1, NEW p \in sleepers'[i]
          PROVE  /\ pc'[p] = "asleep" /\ job[p] # 0 /\ (job[p] - 1) % N = i
                 /\ ~IsAhead(job[p])
      <4>1. CASE p \in sleepers[i]
        BY <1>a, <3>1, <4>1 DEF SliceTypes
      <4>2. CASE p \notin sleepers[i]
        <5>1. p = q /\ i = k
          BY <1>a, <3>1, <3>3, <4>2
        <5>2. QED
          BY <1>a, <2>3, <3>1, <3>2, <5>1 DEF SliceTypes
      <4>3. QED
        BY <4>1, <4>2
    <3>6. QED
      BY <1>b, <2>1, <3>4, <3>5 DEF SleepersWait, IsAhead
  <2>4. QED
    BY <2>2, <2>3
<1>7. ASSUME NEW q \in Threads, NEW n \in {1, Shift}, Report(q, n), UNCHANGED job,
             InJob(q), pc[q] # "asleep", \E where \in Places : pc' = [pc EXCEPT ![q] = where]
      PROVE  SleepersWait'
  <2> DEFINE j == job[q]
             k == j % N
  <2>1. /\ Calling /\ j \in Nat /\ j \in Jobs
        /\ \A p \in Threads : InJob(p) /\ p # q => job[p] # j /\ job[p] \in Nat /\ job[p] \in Jobs
        /\ \A p \in Threads : InJob(p) /\ p # q /\ job[p] # 0 => job[p] - 1 \in Jobs
    BY <1>7, RowIsHeld
  <2>2. k \in 0 .. N - 1
    BY <1>a, <2>1
  <2>3. /\ entries' = [entries EXCEPT ![j] = @ + n]
        /\ \E S \in IF sleepers[k] = {} THEN {{}} ELSE {sleepers[k] \ {p} : p \in sleepers[k]} :
             sleepers' = [sleepers EXCEPT ![k] = S]
    BY <1>7 DEF Report
  <2>4. \A p, r \in sleepers[k] : p = r
    BY <2>2, OneSleeper
  <2> HIDE DEF k
  <2>5. sleepers' = [sleepers EXCEPT ![k] = {}]
    <3>1. PICK S \in IF sleepers[k] = {} THEN {{}} ELSE {sleepers[k] \ {p} : p \in sleepers[k]} :
             sleepers' = [sleepers EXCEPT ![k] = S]
      BY <2>3
    <3>2. S = {}
      BY <2>4
    <3>3. QED
      BY <3>1, <3>2
  <2>6. ASSUME NEW i \in 0 .. N - 1, NEW p \in sleepers'[i]
        PROVE  /\ pc'[p] = "asleep" /\ job[p] # 0 /\ (job[p] - 1) % N = i
               /\ ~IsAhead(job[p])'
    <3>1. i # k /\ p \in sleepers[i]
      BY <1>a, <2>2, <2>5
    <3>2. /\ p \in Threads /\ pc[p] = "asleep" /\ p # q /\ InJob(p)
          /\ job[p] # 0 /\ (job[p] - 1) % N = i /\ ~IsAhead(job[p])
      BY <1>a, <1>c, <1>7, <3>1
    <3>3. job[p] # j /\ job[p] - 1 # j
      BY <2>1, <3>1, <3>2 DEF k
    <3>4. entries'[job[p]] = entries[job[p]] /\ entries'[job[p] - 1] = entries[job[p] - 1]
      BY <2>1, <2>3, <3>2, <3>3 DEF RowInv, RowTypes
    <3>5. pc'[p] = "asleep"
      BY <1>a, <1>7, <3>2 DEF SliceTypes
    <3>6. ~IsAhead(job[p])'
      BY <1>7, <3>2, <3>4 DEF IsAhead
    <3>7. QED
      BY <3>2, <3>5, <3>6
  <2>7. sleepers' \in [0 .. N - 1 -> SUBSET Threads]
    BY <1>a, <2>2, <2>5
  <2>8. QED
    BY <1>b, <1>7, <2>6, <2>7 DEF SleepersWait
<1>8. ASSUME NEW q \in Threads, Decode(q) \/ RowDone(q)
      PROVE  SleepersWait'
  <2>1. \E where \in Places : pc' = [pc EXCEPT ![q] = where]
    BY <1>8, ThreadsKnown DEF Decode, RowDone, Finished, Go, Places, Running
  <2>2. InJob(q) /\ pc[q] # "asleep" /\ UNCHANGED job
    BY <1>8 DEF Decode, RowDone, InJob
  <2>3. Report(q, 1) \/ Report(q, Shift)
    BY <1>8 DEF Decode, RowDone
  <2>4. QED
    BY <1>7, <2>1, <2>2, <2>3
<1>9. QED
  BY <1>1, <1>3, <1>4, <1>5, <1>6, <1>8 DEF Next, MainStep, Thread

-----------------------------------------------------------------------------
(* Somebody can go on. *)

\* A set of numbers has a least one.
LEMMA LeastRow ==
    ASSUME NEW S \in SUBSET Nat, S # {}
    PROVE  \E j \in S : \A k \in S : j <= k
<1>1. PICK j \in S : \A k \in S : ~(<<k, j>> \in OpToRel(<, Nat))
  BY NatLessThanWellFounded, WFMin
<1>2. ASSUME NEW k \in S, k < j
      PROVE  FALSE
  <2>1. <<k, j>> \in OpToRel(<, Nat)
    BY <1>2 DEF OpToRel
  <2>2. QED
    BY <1>1, <2>1
<1>3. \A k \in S : j <= k
  BY <1>2
<1>4. QED
  BY <1>3

\* Of the threads in their rows the one with the first row is not asleep: the row
\* above is done, or in the hands of another, or will be of one that has not begun.
LEMMA SomeRowCan ==
    ASSUME PoolInv, RowInv, RowsInOrder, SleepersWait, pc[Main] # "waking",
           NEW p \in Threads, pc[p] = "asleep"
    PROVE  \E q \in Threads : ThreadCan(q)
<1> SUFFICES ASSUME \A q \in Threads : ~ThreadCan(q)
             PROVE  FALSE
  OBVIOUS
<1> DEFINE Asleep == {q \in Threads : InJob(q)}
           S == {job[q] : q \in Asleep}
<1>1. InJob(p)
  BY DEF InJob
<1>2. Calling
  BY <1>1, RowIsHeld
<1>3. \A q \in Threads : InJob(q) => job[q] \in Nat /\ job[q] \in todo
  BY RowIsHeld
<1>4. S \in SUBSET Nat /\ S # {}
  BY <1>1, <1>3
<1>5. PICK q \in Asleep : \A r \in Asleep : job[q] <= job[r]
  <2>1. PICK j \in S : \A k \in S : j <= k
    <3> HIDE DEF S
    <3>1. QED
      BY <1>4, LeastRow
  <2>2. QED
    BY <2>1
<1> HIDE DEF S
<1>6. q \in Threads /\ InJob(q) /\ pc[q] = "asleep" /\ ~Awake(q)
  <2>1. pc[q] \in {"row", "asleep"} /\ ~Awake(q)
    BY <1>5 DEF ThreadCan, InJob
  <2>2. PICK i \in 0 .. N - 1 : q \in sleepers[i]
    BY <2>1 DEF Awake
  <2>3. QED
    BY <1>5, <2>1, <2>2 DEF SleepersWait
<1>7. job[q] # 0 /\ ~IsAhead(job[q])
  BY <1>6 DEF Awake, SleepersWait
<1> DEFINE j == job[q]
<1>8. /\ j \in Nat /\ j \in Jobs /\ j < nbJobs /\ j \in todo
      /\ j - 1 \in Nat /\ j - 1 \in Jobs /\ j - 1 < nbJobs /\ nbJobs \in Nat
  BY <1>6, <1>7, RowIsHeld
<1>9. entries[j - 1] < entries[j] + Shift
  <2>1. entries[j - 1] \in Nat /\ entries[j] \in Nat /\ Shift \in Nat
    BY <1>8, BoundsAssumption DEF RowInv, RowTypes, BoundsAssumption
  <2>2. QED
    BY <1>7, <2>1 DEF IsAhead
<1>10. setup.cols # 0 /\ setup.cols \in Nat
  BY <1>6, Constants DEF RowInv, RowsReport, Running, PoolInv, SliceTypes
<1>11. decoded[j] < setup.cols /\ entries[j] = decoded[j] /\ decoded[j] \in Nat
  BY <1>2, <1>6, <1>8, <1>10 DEF RowsInOrder, RowInv, RowsReport, RowTypes
<1>12. j - 1 \in todo
  <2>1. SUFFICES ASSUME j - 1 \notin todo
                 PROVE  FALSE
    OBVIOUS
  <2>2. entries[j - 1] = decoded[j - 1] + Shift /\ decoded[j - 1] = setup.cols
    BY <1>2, <1>8, <1>10, <2>1 DEF RowInv, RowsReport, RowsInOrder
  <2>3. Shift \in Nat
    BY BoundsAssumption DEF BoundsAssumption
  <2>4. QED
    BY <1>9, <1>10, <1>11, <2>2, <2>3
<1>13. /\ active \in Nat /\ firstJob \in Nat /\ currentJob \in Nat /\ active <= currentJob
       /\ firstJob + Cardinality(Unstarted) = active
       /\ ~Unassigned(j)
       /\ (Unassigned(j - 1) \/ \E r \in Threads : InJob(r) /\ job[r] = j - 1)
  <2>1. /\ active \in Nat /\ firstJob \in Nat /\ currentJob \in Nat /\ active <= currentJob
        /\ firstJob + Cardinality(Unstarted) = active
    BY <1>2, Constants DEF PoolInv, SliceTypes, FirstCounts, CurrentCounts
  <2>2. ~Unassigned(j)
    BY <1>2, <1>6 DEF PoolInv, JobsAreApart
  <2>3. Unassigned(j - 1) \/ \E r \in Threads : InJob(r) /\ job[r] = j - 1
    BY <1>2, <1>12 DEF PoolInv, JobsAreApart
  <2>4. QED
    BY <2>1, <2>2, <2>3
<1>14. Unassigned(j - 1)
  <2>1. ASSUME NEW r \in Threads, InJob(r), job[r] = j - 1
        PROVE  FALSE
    BY <1>5, <1>8, <2>1
  <2>2. QED
    BY <1>13, <2>1
<1>15. firstJob < active
  BY <1>8, <1>13, <1>14 DEF Unassigned
<1>16. PICK u \in Unstarted : TRUE
  <2>1. Unstarted # {}
    BY <1>13, <1>15, FS_EmptySet
  <2>2. QED
    BY <2>1
<1>17. woken = NbWorkers /\ woken \in Nat /\ u \in Threads
  BY <1>2, <1>16, ParticipantsCounted, Constants DEF PoolInv, Phases, SliceTypes, Unstarted
<1>18. pc[u] \in {"first", "waking"}
  BY <1>16, <1>17 DEF Unstarted, Participants
<1>19. pc[u] = "first"
  <2>1. u # Main => u \in Workers
    BY <1>17 DEF Threads
  <2>2. QED
    BY <1>18, <2>1 DEF PoolInv, Phases
<1>20. QED
  BY <1>17, <1>19 DEF ThreadCan

\* The inductive invariant: the pool's, and what keeps it going.
GoesOn == LastReports /\ FreeWakes /\ (Whole => RowsInOrder /\ SleepersWait)

LEMMA SomebodyAlwaysCan ==
    ASSUME PoolInv, RowInv, GoesOn
    PROVE  NeverStuck
<1> SUFFICES ASSUME Whole, pc[Main] \notin {"idle", "gone"}, ~MainCan,
                    \A q \in Threads : ~ThreadCan(q)
             PROVE  FALSE
  BY DEF NeverStuck, SomebodyCan
<1>a. /\ SliceTypes /\ Phases /\ RowsInOrder /\ SleepersWait /\ LastReports /\ FreeWakes
      /\ Main \in Threads /\ woken \in Nat /\ started \in Nat /\ NbWorkers \in Int
      /\ \A w \in Workers : w \in Threads /\ w \in Nat /\ w # Main
      /\ \A q \in Threads : pc[q] \in Places
  BY Constants, ThreadsKnown DEF PoolInv, GoesOn, Threads, SliceTypes, NbWorkers
<1>1. CASE pc[Main] = "freeing"
  <2>1. /\ woken <= started
        /\ \A w \in Workers : /\ w < woken => pc[w] \in {"first", "gone"}
                              /\ w >= woken => pc[w] \in {"waiting", "over"}
    BY <1>a, <1>1 DEF FreeWakes
  <2>2. CASE woken < started
    <3>1. woken \in Workers
      BY <1>a, <2>2 DEF Workers
    <3>2. pc[woken] \in {"waiting", "over"}
      BY <1>a, <2>1, <3>1
    <3>3. QED
      BY <1>a, <1>1, <2>2, <3>1, <3>2 DEF MainCan, ThreadCan, CanWake
  <2>3. CASE woken = started
    <3>1. \A w \in Workers : w < woken
      BY <1>a, <2>3 DEF Workers
    <3>2. \A w \in Workers : pc[w] = "gone"
      BY <1>a, <2>1, <3>1 DEF ThreadCan
    <3>3. QED
      BY <1>1, <2>3, <3>2 DEF MainCan
  <2>4. QED
    BY <1>a, <2>1, <2>2, <2>3
<1>2. CASE pc[Main] = "waking"
  <2>1. Calling /\ woken <= NbWorkers /\ started = NbWanted(setup)
    BY <1>a, <1>2 DEF Phases, Calling
  <2>2. woken < NbWorkers
    BY <1>a, <1>2, <2>1 DEF MainCan
  <2>3. woken \in Workers
    BY <1>a, <2>1, <2>2, Constants DEF Workers, NbWorkers, NbWanted, SliceTypes
  <2>4. pc[woken] \in {"waiting", "over"}
    BY <1>a, <2>1, <2>3 DEF Phases
  <2>5. QED
    BY <1>a, <1>2, <2>2, <2>3, <2>4 DEF MainCan, ThreadCan, CanWake
<1>3. CASE pc[Main] \notin {"freeing", "waking"}
  <2>1. Calling /\ woken = NbWorkers
    BY <1>a, <1>3 DEF Phases, Calling
  <2>2. ASSUME NEW q \in Threads
        PROVE  pc[q] # "asleep"
    BY <1>a, <1>3, SomeRowCan
  <2>3. ASSUME NEW q \in Threads
        PROVE  pc[q] \notin Running
    <3>1. pc[q] = "row" => Awake(q)
      BY <1>a DEF SleepersWait, Awake
    <3>2. QED
      BY <2>2, <3>1 DEF ThreadCan, Running
  <2>4. pc[Main] = "joining"
    BY <1>a, <1>3, <2>1, <2>3 DEF Places, ThreadCan, Phases
  <2>5. ~done
    BY <2>4 DEF MainCan
  <2>6. ASSUME NEW w \in 0 .. NbWorkers - 1
        PROVE  w \in Workers /\ w < woken /\ pc[w] = "waiting"
    <3>1. w \in Workers /\ w < woken
      BY <1>a, <2>1, ParticipantsCounted, Constants
         DEF Participants, Threads, Workers, SliceTypes, Phases, NbWorkers, NbWanted
    <3>2. pc[w] # "gone" /\ pc[w] \notin {"idle", "waking", "joining", "freeing"}
      BY <1>a, <2>1, <3>1 DEF Phases
    <3>3. w \in Threads
      BY <1>a, <3>1
    <3>4. pc[w] \notin Running /\ pc[w] \in Places
      BY <1>a, <2>3, <3>3
    <3>5. QED
      BY <3>1, <3>2, <3>3, <3>4 DEF Places, ThreadCan
  <2>7. Ended = Participants
    BY <2>4, <2>6 DEF Ended, Participants
  <2>8. PICK q \in Threads : pc[q] = "last"
    BY <1>a, <2>1, <2>5, <2>7 DEF LastReports
  <2>9. QED
    BY <2>8 DEF ThreadCan
<1>4. QED
  BY <1>1, <1>2, <1>3

\* At first nobody sleeps, and no call is under way.
LEMMA GoesOnInit == Init => GoesOn
<1> SUFFICES ASSUME Init
             PROVE  GoesOn
  OBVIOUS
<1>1. /\ Main \in Threads /\ N \in Nat
      /\ \A q \in AllThreads : pc[q] \in {"waiting", "freeing", "idle"}
      /\ \A q \in Threads : q \in AllThreads
      /\ \A w \in Workers : w \in Nat /\ pc[w] = "waiting"
      /\ ~err /\ ~Calling /\ woken = 0 /\ started \in Nat
      /\ sleepers = [i \in 0 .. N - 1 |-> {}]
  <2>1. PoolInv
    BY PoolInit
  <2>2. \A w \in Workers : w \in AllThreads /\ w # Main
    BY <2>1, Constants, ThreadsKnown DEF PoolInv, Threads
  <2>3. QED
    BY <2>1, <2>2, Constants, ThreadsKnown DEF Init, PoolInv, SliceTypes, Calling, AllThreads, Threads
<1>2. LastReports /\ FreeWakes
  BY <1>1 DEF LastReports, FreeWakes
<1>3. RowsInOrder /\ SleepersWait
  BY <1>1 DEF RowsInOrder, SleepersWait
<1>4. QED
  BY <1>2, <1>3 DEF GoesOn

\* Every step keeps it.
LEMMA GoesOnStep ==
    ASSUME PoolInv, RowInv, GoesOn, [Next]_vars
    PROVE  GoesOn'
<1>1. UNCHANGED setup
  BY DEF Next, MainStep, Thread, Execute, Free, Wake, AllWoken, Join, Freed, Exit, FirstJob,
         NextJob, Over, RunJob, RowFails, Await, Decode, RowDone, pool, vars
<1>2. LastReports' /\ FreeWakes'
  BY LastReportsStep, FreeWakesStep DEF GoesOn
<1>3. ASSUME Whole
      PROVE  RowsInOrder' /\ SleepersWait'
  BY <1>3, RowsInOrderStep, SleepersStep DEF GoesOn
<1>4. Whole' => Whole
  BY <1>1 DEF Whole
<1>5. QED
  BY <1>2, <1>3, <1>4 DEF GoesOn

\* For every number of threads, jobs and columns, and every Shift: unless a row can be
\* broken, some thread can go on in every state of a call of execute and of free, so
\* that neither the hand-over of the workers (their mutexes, done) nor the signals of
\* the rows (ff_thread_report_progress2 signals one sleeper, ff_thread_await_progress2
\* sleeps on the condition of its row modulo the number of threads) leaves all of them
\* waiting. The run slice_threads_broken shows what a row that is given up does.
THEOREM NeverAllWait == Spec => []NeverStuck
<1>1. PoolInv /\ RowInv /\ GoesOn /\ [Next]_vars => GoesOn'
  BY GoesOnStep
<1>2. PoolInv /\ RowInv /\ GoesOn => NeverStuck
  BY SomebodyAlwaysCan
<1>3. QED
  BY <1>1, <1>2, GoesOnInit, PoolInvariant, RowInvariant, PTL DEF Spec
=====
