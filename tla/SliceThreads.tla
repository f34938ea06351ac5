---------------------------- MODULE SliceThreads ----------------------------
(***************************************************************************)
(* Slice threading of the decoders built into the game: the pool of        *)
(* libavutil/slicethread.c, the execute functions and the progress of      *)
(* rows of libavcodec/pthread_slice.c, and the job that uses both, the     *)
(* rows of a picture decoded as a wavefront (hls_decode_entry_wpp of       *)
(* libavcodec/hevcdec.c).                                                  *)
(*                                                                         *)
(* A worker holds its mutex except while it waits for its condition, so    *)
(* waking it is one step, possible only while it waits.  A section of      *)
(* done_mutex or of a progress_mutex is a step; who sleeps on the          *)
(* conditions is explicit, since a signal wakes one sleeper only; wake-ups *)
(* without a signal, which POSIX allows, are left out.                     *)
(*                                                                         *)
(* An operator named after a slip is the mutant of the definition below it. *)
(***************************************************************************)
EXTENDS Naturals, FiniteSets

CONSTANTS N,         \* thread_count
          Setups,    \* what kind of decoder uses the pool
          MaxCalls,  \* how often it calls execute
          Shift,     \* SHIFT_CTB_WPP
          Main       \* the thread that calls

ASSUME NAssumption == N \in Nat /\ N >= 2
ASSUME MainAssumption == Main \notin Nat
ASSUME BoundsAssumption == MaxCalls \in Nat /\ Shift \in Nat \ {0}

\* Whether the codec has a main function (FF_CODEC_CAP_SLICE_THREAD_HAS_MF); how
\* many columns the rows have, 0 for jobs that are independent; how many jobs a
\* call may have; which rows may be broken.
ASSUME SetupsAssumption ==
    \A s \in Setups : s \in [mainfunc : BOOLEAN, cols : Nat, jobs : SUBSET (Nat \ {0}),
                             broken : SUBSET Nat]

VARIABLES
    setup, started,          \* the kind of decoder; how many workers were created
    nbJobs, active,          \* nb_jobs and nb_active_threads of the call
    firstJob, currentJob,    \* the atomic counters
    done, finished,          \* AVSliceThread.done and finished
    woken,                   \* how many workers execute or free has woken
    pc,                      \* where each thread is
    job, number,             \* the job a thread has, and its threadnr
    entries, err,            \* SliceThreadContext.entries, HEVCContext.wpp_err
    decoded,                 \* how many columns of a row have been decoded
    sleepers,                \* who waits for progress_cond, for each index
    todo,                    \* the jobs whose function has not returned
    calls

counters == <<nbJobs, active, firstJob, currentJob>>
rows == <<entries, err, decoded, sleepers>>
pool == <<setup, started, finished>>
vars == <<pool, counters, done, woken, pc, job, number, rows, todo, calls>>

\* With a main function the calling thread runs no jobs, and has N workers.
NbWanted(s) == IF s.mainfunc THEN N ELSE N - 1
Workers == 0 .. started - 1
Threads == Workers \cup {Main}
AllThreads == 0 .. N - 1 \cup {Main}
InJob(q) == pc[q] \in {"run", "row", "asleep", "decode", "row_done", "failed"}
Jobs == UNION {0 .. n - 1 : n \in UNION {s.jobs : s \in Setups}}

Go(q, where) == pc' = [pc EXCEPT ![q] = where]
Awake(q) == \A i \in 0 .. N - 1 : q \notin sleepers[i]

-----------------------------------------------------------------------------
(* avpriv_slicethread_create returns when all the workers wait; it calls   *)
(* avpriv_slicethread_free when one of them could not be created.          *)

Init ==
    \E s \in Setups : \E k \in 0 .. NbWanted(s) :
    /\ setup = s /\ started = k
    /\ finished = (k < NbWanted(s))
    /\ nbJobs = 0 /\ active = 0 /\ firstJob = 0 /\ currentJob = 0
    /\ done = FALSE /\ woken = 0
    /\ pc = [q \in AllThreads |-> IF q # Main THEN "waiting"
                            ELSE IF k < NbWanted(s) THEN "freeing" ELSE "idle"]
    /\ job = [q \in AllThreads |-> 0]
    /\ number = [q \in AllThreads |-> 0]
    /\ entries = [r \in Jobs |-> 0] /\ err = FALSE
    /\ decoded = [r \in Jobs |-> 0]
    /\ sleepers = [i \in 0 .. N - 1 |-> {}]
    /\ todo = {} /\ calls = 0

-----------------------------------------------------------------------------
(* avpriv_slicethread_execute, after ff_reset_entries.                     *)

Minimum(a, b) == IF a < b THEN a ELSE b
NbWorkers == IF setup.mainfunc THEN active ELSE active - 1

Execute(n) ==
    /\ pc[Main] = "idle" /\ calls < MaxCalls
    /\ nbJobs' = n /\ active' = Minimum(n, N)
    /\ firstJob' = 0 /\ currentJob' = Minimum(n, N)
    /\ entries' = [r \in Jobs |-> 0] /\ err' = FALSE /\ decoded' = [r \in Jobs |-> 0]
    /\ woken' = 0 /\ todo' = 0 .. n - 1 /\ calls' = calls + 1
    /\ Go(Main, "waking")
    /\ UNCHANGED <<pool, done, job, number, sleepers>>

\* A worker is woken only when it waits again: until then it has its mutex.
CanWake(w) == pc[w] = "waiting"

Wake ==
    /\ \/ pc[Main] = "waking" /\ woken < NbWorkers
       \/ pc[Main] = "freeing" /\ woken < started
    /\ CanWake(woken)
    /\ Go(woken, "first")
    /\ woken' = woken + 1
    /\ UNCHANGED <<pool, counters, done, job, number, rows, todo, calls>>

AllWoken ==
    /\ pc[Main] = "waking" /\ woken = NbWorkers
    /\ Go(Main, IF setup.mainfunc THEN "joining" ELSE "first")
    /\ UNCHANGED <<pool, counters, done, woken, job, number, rows, todo, calls>>

\* The calling thread waits for the last worker, unless it was the last itself.
Join ==
    /\ pc[Main] = "joining" /\ done
    /\ done' = FALSE
    /\ Go(Main, "idle")
    /\ UNCHANGED <<pool, counters, woken, job, number, rows, todo, calls>>

-----------------------------------------------------------------------------
(* avpriv_slicethread_free wakes each worker for it to end, and joins it.  *)

Free ==
    /\ pc[Main] = "idle"
    /\ finished' = TRUE /\ woken' = 0
    /\ Go(Main, "freeing")
    /\ UNCHANGED <<setup, started, counters, done, job, number, rows, todo, calls>>

Exit(w) ==
    /\ pc[w] = "first" /\ finished
    /\ Go(w, "gone")
    /\ UNCHANGED <<pool, counters, done, woken, job, number, rows, todo, calls>>

Freed ==
    /\ pc[Main] = "freeing" /\ woken = started
    /\ \A w \in Workers : pc[w] = "gone"
    /\ Go(Main, "gone")
    /\ UNCHANGED <<pool, counters, done, woken, job, number, rows, todo, calls>>

-----------------------------------------------------------------------------
(* run_jobs, in a worker or in the calling thread.                         *)

Begins == IF setup.cols = 0 THEN "run" ELSE "row"

IncrementIsLost(counter) == counter
Incremented(counter) == counter + 1

FirstJob(q) ==
    /\ pc[q] = "first" /\ ~finished
    /\ job' = [job EXCEPT ![q] = firstJob]
    /\ number' = [number EXCEPT ![q] = firstJob]
    /\ firstJob' = Incremented(firstJob)
    /\ Go(q, Begins)
    /\ UNCHANGED <<pool, nbJobs, active, currentJob, done, woken, rows, todo,
                   calls>>

\* The last of the active threads is the one that takes the counter to its end;
\* nb_jobs and nb_active_threads are copies, read before the first job.
IsAnyLast == currentJob >= nbJobs
IsLast == currentJob = nbJobs + active - 1

NextJob(q) ==
    /\ pc[q] = "next"
    /\ currentJob' = Incremented(currentJob)
    /\ IF currentJob < nbJobs
       THEN job' = [job EXCEPT ![q] = currentJob] /\ Go(q, Begins)
       ELSE Go(q, IF IsLast THEN "last" ELSE "over") /\ UNCHANGED job
    /\ UNCHANGED <<pool, nbJobs, active, firstJob, done, woken, number, rows, todo,
                   calls>>

OverUnreported(q) ==
    /\ pc[q] \in {"last", "over"}
    /\ Go(q, IF q # Main THEN "waiting" ELSE IF pc[q] = "last" THEN "idle" ELSE "joining")
    /\ UNCHANGED <<pool, counters, done, woken, job, number, rows, todo, calls>>

\* The last worker reports; the calling thread waits unless it was the last.
Over(q) ==
    /\ pc[q] \in {"last", "over"}
    /\ IF q = Main
       THEN Go(q, IF pc[q] = "last" THEN "idle" ELSE "joining") /\ UNCHANGED done
       ELSE Go(q, "waiting") /\ done' = (done \/ pc[q] = "last")
    /\ UNCHANGED <<pool, counters, woken, job, number, rows, todo, calls>>

\* The function of a job returns.
Finished(q) == todo' = todo \ {job[q]} /\ Go(q, "next")

RunJob(q) ==
    /\ pc[q] = "run"
    /\ Finished(q)
    /\ UNCHANGED <<pool, counters, done, woken, job, number, rows, calls>>

-----------------------------------------------------------------------------
(* hls_decode_entry_wpp: a row, one column after the other, each when the  *)
(* row above is Shift columns ahead.                                       *)

\* ff_thread_report_progress2: the row's count, and a signal to one sleeper.
Report(q, n) ==
    LET i == job[q] % N IN
    /\ entries' = [entries EXCEPT ![job[q]] = @ + n]
    /\ \E S \in IF sleepers[i] = {} THEN {{}} ELSE {sleepers[i] \ {p} : p \in sleepers[i]} :
         sleepers' = [sleepers EXCEPT ![i] = S]

\* The bits of a row may be missing, be broken in a column, or end too early.
RowFails(q) ==
    /\ job[q] \in setup.broken
    /\ \/ pc[q] = "row" /\ (job[q] # 0 \/ decoded[job[q]] # 0)
       \/ pc[q] = "decode"
    /\ err' = TRUE
    /\ Go(q, "failed")
    /\ UNCHANGED <<pool, counters, done, woken, job, number, entries, decoded,
                   sleepers, todo, calls>>

\* ff_thread_await_progress2; the rows above the first need no waiting.
IsDecoded(r) == r = 0 \/ entries[r - 1] > entries[r]
IsAhead(r) == r = 0 \/ entries[r - 1] >= entries[r] + Shift

Await(q) ==
    /\ pc[q] \in {"row", "asleep"} /\ Awake(q)
    /\ IF IsAhead(job[q])
       THEN Go(q, IF err THEN "failed" ELSE "decode") /\ UNCHANGED sleepers
       ELSE /\ sleepers' = [sleepers EXCEPT ![(job[q] - 1) % N] = @ \cup {q}]
            /\ Go(q, "asleep")
    /\ UNCHANGED <<pool, counters, done, woken, job, number, entries, err,
                   decoded, todo, calls>>

\* A column is decoded and reported; after the last the row is.
Decode(q) ==
    /\ pc[q] = "decode"
    /\ decoded' = [decoded EXCEPT ![job[q]] = @ + 1]
    /\ Report(q, 1)
    /\ Go(q, IF decoded'[job[q]] = setup.cols THEN "row_done" ELSE "row")
    /\ UNCHANGED <<pool, counters, done, woken, job, number, err, todo, calls>>

\* The row is finished, or given up: the next one may pass it.
RowDone(q) ==
    /\ pc[q] \in {"row_done", "failed"}
    /\ Report(q, Shift)
    /\ Finished(q)
    /\ UNCHANGED <<pool, counters, done, woken, job, number, err, decoded, calls>>

-----------------------------------------------------------------------------

Thread(q) ==
    \/ Exit(q) \/ FirstJob(q) \/ NextJob(q) \/ Over(q) \/ RunJob(q)
    \/ RowFails(q) \/ Await(q) \/ Decode(q) \/ RowDone(q)

MainStep == Wake \/ AllWoken \/ Join \/ Freed

Next ==
    \/ \E n \in setup.jobs : Execute(n)
    \/ Free
    \/ MainStep
    \/ \E q \in Threads : Thread(q)

\* The scheduler runs every thread that can run.
Fairness == WF_vars(MainStep) /\ \A q \in AllThreads : WF_vars(q \in Threads /\ Thread(q))

Spec == Init /\ [][Next]_vars /\ Fairness

-----------------------------------------------------------------------------
(* Properties.                                                             *)

\* Two threads never have the same number in a job, and the number is less than
\* the number of threads: it chooses the context of the decoder the job works in
\* (HEVCContext.sList).
NumbersAreDistinct ==
    \A p \in Threads : InJob(p) =>
      number[p] < N /\ \A q \in Threads \ {p} : InJob(q) => number[p] # number[q]

\* Between calls every worker waits or is about to, no completion is left over
\* for the next call to take for its own, and every job has been run.
JoinIsComplete ==
    pc[Main] = "idle" =>
      /\ \A w \in Workers : pc[w] \in {"waiting", "over"}
      /\ ~done /\ todo = {}

\* A column is decoded when the columns it is predicted from have been: up to
\* Shift more of the row above, unless that row was given up.
WavefrontIsAhead ==
    \A q \in Threads :
      pc[q] = "decode" /\ job[q] # 0 =>
        \/ decoded[job[q] - 1] >= Minimum(setup.cols, decoded[job[q]] + Shift)
        \/ err

\* Every call of execute returns, and so does free.
ExecuteReturns == pc[Main] \notin {"idle", "gone"} ~> pc[Main] \in {"idle", "gone"}

\* The pool gives what execute promises.
Abstract == INSTANCE ForkJoin
              WITH JobCounts <- UNION {s.jobs : s \in Setups},
                   calling <- pc[Main] \notin {"idle", "freeing", "gone"}
ImplementsForkJoin == Abstract!Spec
=============================================================================
