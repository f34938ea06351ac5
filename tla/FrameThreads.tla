---------------------------- MODULE FrameThreads ----------------------------
(***************************************************************************)
(* Frame threading of the decoders that build_android.sh and build_ios.sh  *)
(* build into the game: libavcodec/pthread_frame.c.  The user's thread     *)
(* submits one packet to each of N contexts in turn and takes the frames   *)
(* back in the same order; each context has a worker.  What is modelled:   *)
(*                                                                         *)
(*   - the state machine of a context and the condition variables through  *)
(*     which it is watched: a wait is a membership of the variable's set   *)
(*     of sleepers, a signal wakes one of them, a broadcast all;           *)
(*   - the locks that are held across a wait: the mutex of a context,      *)
(*     buffer_mutex, hwaccel_mutex and the flag async_lock.  The sections  *)
(*     of progress_mutex and async_mutex, left only by waiting, are steps; *)
(*   - the codec, outside the file, as any order of the calls it may make; *)
(*   - the client: packets, draining, flushes, and the end.                *)
(*                                                                         *)
(* An operator named after a slip is the mutant of the definition below it. *)
(***************************************************************************)
EXTENDS Naturals, FiniteSets, Sequences

CONSTANTS N,           \* thread_count
          Setups,      \* the codecs, and the clients with their bounds
          User, None   \* the user's thread; nobody

ASSUME NAssumption == N \in Nat /\ N >= 2
\* Whether the codec has update_thread_context, the client's callbacks are
\* thread safe, the codec has AV_CODEC_CAP_DELAY, and which accelerator
\* get_format may choose: none, one that is HWACCEL_CAP_ASYNC_SAFE, one that is not.
\* FFV1 returns its first frame one packet early.
\* A decoder with an accelerator has to have update_thread_context.  The client
\* submits at most "packets" packets and seeks at most "flushes" times.
ASSUME SetupsAssumption ==
    \A s \in Setups :
      /\ s \in [update : BOOLEAN, safe : BOOLEAN, delay : BOOLEAN,
                hw : {"none", "async_safe", "serial"},
                early : {0, 1}, packets : Nat, flushes : Nat]
      /\ s.hw # "none" => s.update
ASSUME NamesAssumption == User # None /\ {User, None} \cap (0 .. N - 1) = {}

Threads == 0 .. N - 1

VARIABLES
    setup,         \* what the codec has and the client is
    state,         \* PerThreadContext.state
    worker,        \* where each worker is
    mutex,         \* who holds PerThreadContext.mutex
    input, progress, output,  \* who sleeps on the three conditions of a context
    die,           \* PerThreadContext.die
    pkt,           \* the number of the packet in avpkt, 0 for none
    result,        \* result and got_frame: "frame", "none" or "error"
    made,          \* the calls the codec has made for this packet
    ref,           \* the earlier frame the codec may refer to, 0 for none
    released,      \* num_released_buffers
    hwaccel,       \* avctx->hwaccel of the context is set
    hwSer, asyncSer,          \* hwaccel_serializing, async_serializing
    hwLock, bufLock,          \* who holds hwaccel_mutex, buffer_mutex
    asyncLock,     \* async_lock
    user,          \* where the user's thread is, and the locals of its call
    prev,          \* prev_thread
    nextDecoding, nextFinished, delaying,
    client         \* the client's side: what it submitted and got back

conds == <<input, progress, output>>
decoded == <<pkt, result, made, ref>>
accel == <<hwaccel, hwSer, asyncSer>>
perThread == <<state, worker, mutex, die, decoded, released, accel>>
locks == <<hwLock, bufLock, asyncLock>>
queue == <<prev, nextDecoding, nextFinished, delaying>>
vars == <<setup, perThread, conds, locks, user, queue, client>>

-----------------------------------------------------------------------------
(* Condition variables.                                                    *)

Awake(q) == \A t \in Threads : q \notin input[t] \cup progress[t] \cup output[t]

\* The sleepers that may be left after a signal.
Signalled(S) == IF S = {} THEN {S} ELSE {S \ {q} : q \in S}

Broadcast(t) == progress' = [progress EXCEPT ![t] = {}]

SignalOutput(t) == \E S \in Signalled(output[t]) : output' = [output EXCEPT ![t] = S]

\* What async_lock waits for.
AsyncAtOnce == TRUE
AsyncFree == ~asyncLock

-----------------------------------------------------------------------------
(* ff_frame_thread_init: all the workers, or, after a failure, as many as  *)
(* had been created, and ff_frame_thread_free is called.                   *)

Init ==
    \E s \in Setups, created \in 0 .. N :
    /\ setup = s
    /\ state = [t \in Threads |-> "INPUT_READY"]
    /\ worker = [t \in Threads |-> IF t < created THEN "locking" ELSE "exited"]
    /\ mutex = [t \in Threads |-> None]
    /\ input = [t \in Threads |-> {}]
    /\ progress = [t \in Threads |-> {}]
    /\ output = [t \in Threads |-> {}]
    /\ die = [t \in Threads |-> FALSE]
    /\ pkt = [t \in Threads |-> 0]
    /\ result = [t \in Threads |-> "none"]
    /\ made = [t \in Threads |-> {}]
    /\ ref = [t \in Threads |-> 0]
    /\ released = [t \in Threads |-> 0]
    /\ hwaccel = [t \in Threads |-> FALSE]
    /\ hwSer = [t \in Threads |-> FALSE]
    /\ asyncSer = [t \in Threads |-> FALSE]
    /\ hwLock = None /\ bufLock = None /\ asyncLock = TRUE
    /\ prev = None /\ nextDecoding = 0 /\ nextFinished = 0 /\ delaying = TRUE
    /\ user = [pc |-> IF created = N THEN "idle" ELSE "unpark",
               p |-> 0, size |-> FALSE, why |-> "free"]
    /\ client = [next |-> 1, last |-> 0, owed |-> {}, drain |-> "no", flushes |-> 0]

-----------------------------------------------------------------------------
(* The worker: frame_worker_thread.                                        *)

Go(t, pc) == worker' = [worker EXCEPT ![t] = pc]
At(t, pc) == worker[t] = pc /\ Awake(t)

\* Nothing to do: wait on input_cond, which releases the mutex.
WaitInput(t) ==
    /\ At(t, "wait") /\ state[t] = "INPUT_READY" /\ ~die[t]
    /\ input' = [input EXCEPT ![t] = {t}]
    /\ mutex' = [mutex EXCEPT ![t] = None]
    /\ Go(t, "locking")
    /\ UNCHANGED <<setup, state, progress, output, die, decoded,
                   released, accel, locks, user, queue, client>>

\* The thread starts, or pthread_cond_wait returns, with the mutex.
TakeMutex(t) ==
    /\ At(t, "locking") /\ mutex[t] = None
    /\ mutex' = [mutex EXCEPT ![t] = t]
    /\ Go(t, "wait")
    /\ UNCHANGED <<setup, state, conds, die, decoded, released, accel,
                   locks, user, queue, client>>

Exit(t) ==
    /\ At(t, "wait") /\ die[t]
    /\ mutex' = [mutex EXCEPT ![t] = None]
    /\ Go(t, "exited")
    /\ UNCHANGED <<setup, state, conds, die, decoded, released, accel,
                   locks, user, queue, client>>

\* A packet: the set-up of a codec without update_thread_context is over at
\* once; the lock of the accelerator is taken if the previous thread uses it.
Begin(t) ==
    /\ At(t, "wait") /\ state[t] # "INPUT_READY" /\ ~die[t]
    /\ IF ~setup.update /\ setup.safe
       THEN /\ state' = [state EXCEPT ![t] = "SETUP_FINISHED"]
            /\ Broadcast(t)
       ELSE UNCHANGED <<state, progress>>
    /\ Go(t, IF hwaccel[t] THEN "lock_hw" ELSE "decode")
    /\ UNCHANGED <<setup, mutex, die, decoded, released, accel, input,
                   output, locks, user, queue, client>>

LockHw(t) ==
    /\ At(t, "lock_hw") /\ hwLock = None
    /\ hwLock' = t
    /\ hwSer' = [hwSer EXCEPT ![t] = TRUE]
    /\ Go(t, "decode")
    /\ UNCHANGED <<setup, state, mutex, die, decoded, released,
                   hwaccel, asyncSer, conds, bufLock, asyncLock, user, queue,
                   client>>

-----------------------------------------------------------------------------
(* What the codec may call from decode().                                  *)

Made(t, S) == made' = [made EXCEPT ![t] = @ \cup S]
Leave(t) == IF hwSer[t] \/ asyncSer[t] THEN "unserialize" ELSE "done"

\* A call is made once for a packet, and not after the calls of "later": format,
\* release, buffer, await, report is the order doc/multithreading.txt asks for,
\* with the end of the set-up wherever the codec knows what the next needs.
May(t, call, later) ==
    At(t, "decode") /\ (later \cup {call, "return"}) \cap made[t] = {}

\* ff_get_format chooses the accelerator, or a software format.
Chosen(t) ==
    \E h \in BOOLEAN : /\ h => setup.hw # "none"
                       /\ hwaccel' = [hwaccel EXCEPT ![t] = h]

\* ff_thread_get_format: the user's thread is asked when the client is not safe.
GetFormat(t) ==
    /\ May(t, "format", {"release", "finish", "buffer", "failed", "empty"})
    /\ setup.update /\ state[t] = "SETTING_UP"
    /\ Made(t, {"format"})
    /\ IF setup.safe
       THEN /\ Chosen(t)
            /\ UNCHANGED <<state, progress, worker>>
       ELSE /\ state' = [state EXCEPT ![t] = "GET_FORMAT"]
            /\ progress' = [progress EXCEPT ![t] = {t}]
            /\ Go(t, "in_format")
            /\ UNCHANGED hwaccel
    /\ UNCHANGED <<setup, mutex, die, pkt, result, ref, released,
                   hwSer, asyncSer, input, output, locks, user, queue, client>>

FormatAnswered(t) ==
    /\ At(t, "in_format") /\ state[t] = "SETTING_UP"
    /\ Chosen(t)
    /\ Go(t, "decode")
    /\ UNCHANGED <<setup, state, mutex, die, decoded, released, hwSer,
                   asyncSer, conds, locks, user, queue, client>>

\* thread_get_buffer_internal: it fails after the set-up, unless the client is
\* safe and the codec shares nothing with the next thread; or for want of memory.
TooLate(t) == state[t] # "SETTING_UP" /\ (setup.update \/ ~setup.safe)

GetBuffer(t) ==
    /\ May(t, "buffer", {"failed", "empty"})
    /\ \/ /\ Made(t, {"failed"})
          /\ UNCHANGED <<state, progress, worker, bufLock>>
       \/ /\ ~TooLate(t) /\ setup.safe /\ bufLock = None
          /\ Made(t, {"buffer"})
          /\ UNCHANGED <<state, progress, worker, bufLock>>
       \/ /\ ~TooLate(t) /\ ~setup.safe /\ bufLock = None
          /\ bufLock' = t
          /\ state' = [state EXCEPT ![t] = "GET_BUFFER"]
          /\ progress' = [progress EXCEPT ![t] = {t}]
          /\ Go(t, "in_buffer")
          /\ UNCHANGED made
    /\ UNCHANGED <<setup, mutex, die, pkt, result, ref, released,
                   accel, input, output, hwLock, asyncLock, user, queue, client>>

BufferAnswered(t) ==
    /\ At(t, "in_buffer") /\ state[t] = "SETTING_UP"
    /\ \E S \in {{"buffer"}, {"failed"}} : Made(t, S)
    /\ IF setup.update
       THEN UNCHANGED <<state, progress>>
       ELSE state' = [state EXCEPT ![t] = "SETUP_FINISHED"] /\ Broadcast(t)
    /\ bufLock' = None
    /\ Go(t, "decode")
    /\ UNCHANGED <<setup, mutex, die, pkt, result, ref, released,
                   accel, input, output, hwLock, asyncLock, user, queue, client>>

\* ff_thread_finish_setup, called by the codec (or for it, see Return): the lock
\* of the accelerator, then async_lock, then the state.
FinishSetup(t) ==
    /\ May(t, "finish", {"failed", "report"}) /\ setup.update
    /\ Made(t, {"finish"})
    /\ Go(t, "finish_setup")
    /\ UNCHANGED <<setup, state, mutex, die, pkt, result, ref,
                   released, accel, conds, locks, user, queue, client>>

FinishSetupLockHw(t) ==
    /\ At(t, "finish_setup") /\ hwaccel[t] /\ ~hwSer[t] /\ hwLock = None
    /\ hwLock' = t
    /\ hwSer' = [hwSer EXCEPT ![t] = TRUE]
    /\ UNCHANGED <<setup, state, worker, mutex, die, decoded,
                   released, hwaccel, asyncSer, conds, bufLock, asyncLock, user,
                   queue, client>>

\* async_serializing is set, and async_lock waits for the flag.
FinishSetupAsync(t) ==
    /\ At(t, "finish_setup") /\ hwaccel[t] /\ hwSer[t]
    /\ setup.hw = "serial" /\ ~asyncSer[t] /\ AsyncFree
    /\ asyncSer' = [asyncSer EXCEPT ![t] = TRUE]
    /\ asyncLock' = TRUE
    /\ UNCHANGED <<setup, state, worker, mutex, die, decoded,
                   released, hwaccel, hwSer, conds, hwLock, bufLock, user, queue,
                   client>>

SetupFinished(t) ==
    /\ At(t, "finish_setup")
    /\ hwaccel[t] => hwSer[t] /\ (setup.hw = "serial" => asyncSer[t])
    /\ state' = [state EXCEPT ![t] = "SETUP_FINISHED"]
    /\ Broadcast(t)
    /\ Go(t, IF "return" \in made[t] THEN Leave(t) ELSE "decode")
    /\ UNCHANGED <<setup, mutex, die, decoded, released, accel, input,
                   output, locks, user, queue, client>>

\* ff_thread_report_progress, on the frame this thread owns.
Report(t) ==
    /\ May(t, "report", {}) /\ "buffer" \in made[t]
    /\ ref[t] # 0 => "await" \in made[t]
    /\ Made(t, {"report"})
    /\ Broadcast(t)
    /\ UNCHANGED <<setup, state, worker, mutex, die, pkt, result, ref,
                   released, accel, input, output, locks, user, queue, client>>

\* ff_thread_await_progress, on the frame before.  While that is not reported,
\* its owner still has the packet: decode() returns after it has reported.
Owners(k) ==
    {t \in Threads : pkt[t] = k /\ {"buffer", "report"} \cap made[t] = {"buffer"}}

\* The frame the context leaves to the next one.
Frame(t) == IF "buffer" \in made[t] THEN pkt[t] ELSE ref[t]

Await(t) ==
    /\ \/ May(t, "await", {"report"}) /\ "buffer" \in made[t] /\ ref[t] # 0
       \/ At(t, "awaiting")
    /\ Made(t, {"await"})
    /\ progress' = [q \in Threads |->
                      progress[q] \cup (IF q \in Owners(ref[t]) THEN {t} ELSE {})]
    /\ Go(t, IF Owners(ref[t]) = {} THEN "decode" ELSE "awaiting")
    /\ UNCHANGED <<setup, state, mutex, die, pkt, result, ref,
                   released, accel, input, output, locks, user, queue, client>>

\* ff_thread_release_buffer of an earlier frame: freed at once if the client is
\* safe, else kept for the user's thread.
ReleaseBuffer(t) ==
    /\ May(t, "release", {"finish", "buffer", "failed", "empty"}) /\ ~setup.safe
    /\ bufLock = None
    /\ released' = [released EXCEPT ![t] = @ + 1]
    /\ Made(t, {"release"})
    /\ UNCHANGED <<setup, state, worker, mutex, die, pkt, result, ref,
                   accel, conds, locks, user, queue, client>>

\* decode() returns: a frame (of an empty packet, one that was delayed), none,
\* or an error.  A set-up that is still open is finished for the codec.
Returned(t) ==
    CASE "report" \in made[t] \/ "empty" \in made[t] -> {"frame", "none"}
      [] "failed" \in made[t] -> {"error"}
      [] {"buffer", "report"} \cap made[t] = {"buffer"} -> {}
      [] OTHER -> {"none", "error"}

Return(t) ==
    /\ May(t, "return", {})
    /\ \E r \in Returned(t) :
         /\ result' = [result EXCEPT ![t] = r]
         /\ client' = [client EXCEPT !.owed = IF r = "frame" THEN @ \cup {pkt[t]} ELSE @]
    /\ Made(t, {"return"})
    /\ Go(t, IF state[t] = "SETTING_UP" THEN "finish_setup" ELSE Leave(t))
    /\ UNCHANGED <<setup, state, mutex, die, pkt, ref, released,
                   accel, conds, locks, user, queue>>

Unserialize(t) ==
    /\ At(t, "unserialize")
    /\ hwLock' = IF hwSer[t] THEN None ELSE hwLock
    /\ hwSer' = [hwSer EXCEPT ![t] = FALSE]
    /\ asyncLock' = (asyncLock /\ ~asyncSer[t])
    /\ asyncSer' = [asyncSer EXCEPT ![t] = FALSE]
    /\ Go(t, "done")
    /\ UNCHANGED <<setup, state, mutex, die, decoded, released,
                   hwaccel, conds, bufLock, user, queue, client>>

Done(t) ==
    /\ At(t, "done")
    /\ state' = [state EXCEPT ![t] = "INPUT_READY"]
    /\ Broadcast(t)
    /\ SignalOutput(t)
    /\ ref' = [ref EXCEPT ![t] = Frame(t)]
    /\ made' = [made EXCEPT ![t] = {}]
    /\ Go(t, "wait")
    /\ UNCHANGED <<setup, mutex, die, pkt, result, released, accel,
                   input, locks, user, queue, client>>

Worker(t) ==
    \/ WaitInput(t) \/ TakeMutex(t) \/ Exit(t) \/ Begin(t) \/ LockHw(t)
    \/ GetFormat(t) \/ FormatAnswered(t) \/ GetBuffer(t) \/ BufferAnswered(t)
    \/ FinishSetup(t) \/ FinishSetupLockHw(t) \/ FinishSetupAsync(t)
    \/ SetupFinished(t) \/ Report(t) \/ Await(t) \/ ReleaseBuffer(t)
    \/ Return(t) \/ Unserialize(t) \/ Done(t)

-----------------------------------------------------------------------------
(* ff_thread_decode_frame and submit_packet, in the user's thread.         *)

UserAt(pc) == user.pc = pc /\ Awake(User)
UserGo(pc) == user' = [user EXCEPT !.pc = pc]

\* A call with a packet, or, to drain, with an empty one; async_unlock.  Without
\* AV_CODEC_CAP_DELAY an empty packet is not submitted.
Decode(size) ==
    /\ UserAt("idle")
    /\ IF size THEN client.drain = "no" ELSE client.drain # "done"
    /\ size \/ setup.delay => client.next <= setup.packets
    /\ client' = [client EXCEPT !.drain = IF size THEN "no" ELSE "on"]
    /\ asyncLock' = FALSE
    /\ user' = [user EXCEPT !.size = size,
                   !.p  = IF size \/ setup.delay THEN nextDecoding ELSE nextFinished,
                   !.pc = IF size \/ setup.delay THEN "lock" ELSE "collect"]
    /\ UNCHANGED <<setup, state, worker, mutex, die, decoded,
                   released, accel, conds, hwLock, bufLock, queue>>

Lock ==
    /\ UserAt("lock") /\ mutex[user.p] = None
    /\ mutex' = [mutex EXCEPT ![user.p] = User]
    /\ UserGo(IF released[user.p] = 0 THEN "prev" ELSE "release")
    /\ UNCHANGED <<setup, state, worker, die, decoded, released,
                   accel, conds, locks, queue, client>>

ReleaseDelayed ==
    /\ UserAt("release")
    /\ bufLock = None
    /\ released' = [released EXCEPT ![user.p] = 0]
    /\ UserGo("prev")
    /\ UNCHANGED <<setup, state, worker, mutex, die, decoded, accel,
                   conds, locks, queue, client>>

AwaitPrev ==
    /\ UserAt("prev") /\ prev # None /\ state[prev] = "SETTING_UP"
    /\ progress' = [progress EXCEPT ![prev] = @ \cup {User}]
    /\ UNCHANGED <<setup, state, worker, mutex, die, decoded,
                   released, accel, input, output, locks, user, queue, client>>

\* The context follows its predecessor's; a failure there, or of
\* av_packet_ref, ends the call with nothing submitted.
Submit ==
    LET p == user.p IN
    /\ UserAt("prev") /\ (prev # None => state[prev] # "SETTING_UP")
    /\ IF prev # None /\ setup.update
       THEN /\ hwaccel' = [hwaccel EXCEPT ![p] = hwaccel[prev]]
            /\ ref' = [ref EXCEPT ![p] = Frame(prev)]
       ELSE UNCHANGED <<hwaccel, ref>>
    /\ mutex' = [mutex EXCEPT ![p] = None]
    /\ \/ /\ UserGo("finish")
          /\ UNCHANGED <<state, pkt, made, input, client>>
       \/ /\ pkt' = [pkt EXCEPT ![p] = client.next]
          /\ client' = [client EXCEPT !.next = @ + 1]
          /\ made' = [made EXCEPT ![p] = IF user.size THEN {} ELSE {"empty"}]
          /\ state' = [state EXCEPT ![p] = "SETTING_UP"]
          /\ \E S \in Signalled(input[p]) : input' = [input EXCEPT ![p] = S]
          /\ UserGo("serve")
    /\ UNCHANGED <<setup, worker, die, result, released, hwSer,
                   asyncSer, progress, output, locks, queue>>

\* The callbacks of a client that is not thread safe are called from here.
Serve ==
    LET p == user.p IN
    /\ UserAt("serve") /\ ~setup.safe
    /\ \/ /\ state[p] = "SETTING_UP"
          /\ progress' = [progress EXCEPT ![p] = @ \cup {User}]
          /\ UNCHANGED state
       \/ /\ state[p] \in {"GET_BUFFER", "GET_FORMAT"}
          /\ state' = [state EXCEPT ![p] = "SETTING_UP"]
          /\ \E S \in Signalled(progress[p]) : progress' = [progress EXCEPT ![p] = S]
    /\ UNCHANGED <<setup, worker, mutex, die, decoded, released,
                   accel, input, output, locks, user, queue, client>>

SetupAtOnce(p) == TRUE
SetupIsOver(p) == setup.safe \/ state[p] \in {"SETUP_FINISHED", "INPUT_READY"}

\* While the first packets are submitted nothing is returned.
Submitted ==
    /\ UserAt("serve")
    /\ SetupIsOver(user.p)
    /\ prev' = user.p
    /\ nextDecoding' = nextDecoding + 1
    /\ delaying' = (delaying /\ nextDecoding' <= N - 1 - setup.early)
    /\ user' = IF delaying' /\ user.size
               THEN [user EXCEPT !.pc = "finish"]
               ELSE [user EXCEPT !.pc = "collect", !.p = nextFinished]
    /\ UNCHANGED <<setup, state, worker, mutex, die, decoded,
                   released, accel, conds, locks, nextFinished, client>>

AwaitOutput ==
    /\ UserAt("collect") \/ UserAt("park")
    /\ user.p \in Threads /\ state[user.p] # "INPUT_READY"
    /\ output' = [output EXCEPT ![user.p] = @ \cup {User}]
    /\ UNCHANGED <<setup, state, worker, mutex, die, decoded,
                   released, accel, input, progress, locks, user, queue, client>>

\* The result of the oldest thread.  While draining, threads without one are
\* skipped, once round.
NoneSkipped(p) == FALSE
AllSkipped(p) == ~user.size /\ result[p] = "none"
Skipped(p) == ~user.size /\ result[p] = "none" /\ (p + 1) % N # nextFinished

ResultStays(p) == UNCHANGED result
ResultTaken(p) == result' = [result EXCEPT ![p] = "none"]

Collect ==
    LET p == user.p
        after == (p + 1) % N
    IN
    /\ UserAt("collect") /\ state[p] = "INPUT_READY"
    /\ ResultTaken(p)
    /\ client' = [client EXCEPT
                    !.last = IF result[p] = "frame" THEN pkt[p] ELSE @,
                    !.owed = @ \ {pkt[p]},
                    !.drain = IF ~user.size /\ result[p] = "none" /\ ~Skipped(p)
                              THEN "done" ELSE @]
    /\ IF Skipped(p)
       THEN user' = [user EXCEPT !.p = after] /\ UNCHANGED
                                                             <<nextFinished,
                                                             nextDecoding>>
       ELSE /\ UserGo("finish")
            /\ nextFinished' = after
            /\ nextDecoding' = IF nextDecoding >= N THEN 0 ELSE nextDecoding
    /\ UNCHANGED <<setup, state, worker, mutex, die, pkt, made, ref,
                   released, accel, conds, locks, prev, delaying>>

\* async_lock: an accelerator that is not safe finishes first.
Finish ==
    /\ UserAt("finish") /\ AsyncFree
    /\ asyncLock' = TRUE
    /\ UserGo("idle")
    /\ UNCHANGED <<setup, state, worker, mutex, die, decoded,
                   released, accel, conds, hwLock, bufLock, queue, client>>

-----------------------------------------------------------------------------
(* park_frame_worker_threads, ff_thread_flush and ff_frame_thread_free.    *)

Park(why) ==
    /\ UserAt("idle")
    /\ why = "flush" => client.flushes < setup.flushes
    /\ user' = [user EXCEPT !.pc = "unpark", !.why = why]
    /\ UNCHANGED <<setup, state, worker, mutex, die, decoded,
                   released, accel, conds, locks, queue, client>>

Unpark ==
    /\ UserAt("unpark")
    /\ asyncLock' = FALSE
    /\ user' = [user EXCEPT !.pc = "park", !.p = 0]
    /\ UNCHANGED <<setup, state, worker, mutex, die, decoded,
                   released, accel, conds, hwLock, bufLock, queue, client>>

Parked ==
    /\ UserAt("park") /\ user.p \in Threads /\ state[user.p] = "INPUT_READY"
    /\ result' = [result EXCEPT ![user.p] = IF @ = "frame" THEN "none" ELSE @]
    /\ user' = [user EXCEPT !.p = @ + 1]
    /\ UNCHANGED <<setup, state, worker, mutex, die, pkt, made, ref,
                   released, accel, conds, locks, queue, client>>

\* All are parked; async_lock; what follows is of flush or of free.
AllParked ==
    /\ UserAt("park") /\ user.p = N /\ AsyncFree
    /\ asyncLock' = TRUE
    /\ user' = [user EXCEPT !.pc = user.why, !.p = 0]
    /\ UNCHANGED <<setup, state, worker, mutex, die, decoded,
                   released, accel, conds, hwLock, bufLock, queue, client>>

Flush ==
    /\ UserAt("flush") /\ bufLock = None
    /\ hwaccel' = IF prev # None /\ setup.update
                  THEN [hwaccel EXCEPT ![0] = hwaccel[prev]] ELSE hwaccel
    /\ nextDecoding' = 0 /\ nextFinished' = 0 /\ delaying' = TRUE /\ prev' = None
    /\ result' = [t \in Threads |-> "none"]
    /\ released' = [t \in Threads |-> 0]
    /\ ref' = [t \in Threads |-> 0]
    /\ client' = [client EXCEPT !.drain = "no", !.last = client.next - 1,
                               !.owed = {}, !.flushes = @ + 1]
    /\ UserGo("idle")
    /\ UNCHANGED <<setup, state, worker, mutex, die, pkt, made, hwSer,
                   asyncSer, conds, locks>>

Kill ==
    /\ UserAt("free") /\ user.p \in Threads /\ mutex[user.p] = None /\ ~die[user.p]
    /\ die' = [die EXCEPT ![user.p] = TRUE]
    /\ \E S \in Signalled(input[user.p]) : input' = [input EXCEPT ![user.p] = S]
    /\ UNCHANGED <<setup, state, worker, mutex, decoded, released,
                   accel, progress, output, locks, user, queue, client>>

Join ==
    /\ UserAt("free") /\ user.p \in Threads
    /\ die[user.p] /\ worker[user.p] = "exited" /\ bufLock = None
    /\ released' = [released EXCEPT ![user.p] = 0]
    /\ user' = [user EXCEPT !.p = @ + 1, !.pc = IF user.p = N - 1 THEN "freed" ELSE @]
    /\ UNCHANGED <<setup, state, worker, mutex, die, decoded, accel,
                   conds, locks, queue, client>>

UserStep ==
    \/ Lock \/ ReleaseDelayed \/ AwaitPrev \/ Submit \/ Serve \/ Submitted
    \/ AwaitOutput \/ Collect \/ Finish
    \/ Unpark \/ Parked \/ AllParked \/ Flush \/ Kill \/ Join

Next ==
    \/ \E size \in BOOLEAN : Decode(size)
    \/ \E why \in {"flush", "free"} : Park(why)
    \/ UserStep
    \/ \E t \in Threads : Worker(t)
    \/ user.pc = "freed" /\ UNCHANGED vars

\* The scheduler runs every thread that can run, and decode() returns.
Fairness == WF_vars(UserStep) /\ \A t \in Threads : WF_vars(Worker(t))

Spec == Init /\ [][Next]_vars /\ Fairness

-----------------------------------------------------------------------------
(* Properties.                                                             *)

\* The client is given frames in the order in which it submitted their packets,
\* each once, and none from before the last seek: the slot of a context is not
\* read twice, nor refilled before it was read.
FramesInOrder == [][client'.last # client.last => client'.last > client.last]_vars

\* When draining reports the end of the stream, every frame the codec produced
\* since the last seek has been given to the client ("we don't want to
\* accidentally signal EOF").
DrainIsComplete == client.drain = "done" => client.owed = {}

\* A worker that asks for a buffer or a format is asking the thread that is in
\* submit_packet for it: the client's callbacks run inside its own calls, and no
\* worker is left asking after the call has gone on.
CallbacksInsideCall ==
    \A t \in Threads :
      state[t] \in {"GET_BUFFER", "GET_FORMAT"} => user.pc = "serve" /\ user.p = t

\* At most one worker decodes with the accelerator, and, when that is not safe,
\* never while the client is outside its calls (hwaccel_mutex and async_lock).
Accelerating(t) ==
    /\ hwaccel[t] /\ state[t] = "SETUP_FINISHED"
    /\ worker[t] \in {"decode", "awaiting"}

AcceleratorIsExclusive ==
    \A t \in Threads : Accelerating(t) =>
      /\ \A q \in Threads \ {t} : ~Accelerating(q)
      /\ setup.hw = "serial" => user.pc \notin {"idle", "flush", "free", "freed"}

\* Every call returns: no wake-up is lost and no two threads wait for each other.
CallReturns == user.pc # "idle" ~> user.pc \in {"idle", "freed"}
=============================================================================
