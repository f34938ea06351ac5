------------------------- MODULE FrameThreads_proofs -------------------------
(* The theorems about FrameThreads, for every number of threads and every   *)
(* codec and client the assumptions allow.                                  *)
EXTENDS FrameThreads, TLAPS, WellFoundedInduction

States == {"INPUT_READY", "SETTING_UP", "GET_BUFFER", "GET_FORMAT", "SETUP_FINISHED"}
Parking == {"locking", "wait", "exited"}
Working == {"lock_hw", "decode", "in_format", "in_buffer", "awaiting",
            "finish_setup", "unserialize", "done"}

\* Where the user's thread works on the context user.p of a call.
InContext == {"lock", "release", "prev", "serve", "collect"}
\* Where async_lock belongs to the user's thread.
HasAsync == {"idle", "flush", "free", "freed", "unpark"}
UserPcs == InContext \cup HasAsync \cup {"finish", "park"}

FrameTypes ==
    /\ setup \in Setups
    /\ state \in [Threads -> States]
    /\ worker \in [Threads -> Parking \cup Working]
    /\ mutex \in [Threads -> Threads \cup {User, None}]
    /\ hwaccel \in [Threads -> BOOLEAN]
    /\ hwSer \in [Threads -> BOOLEAN]
    /\ asyncSer \in [Threads -> BOOLEAN]
    /\ hwLock \in Threads \cup {None}
    /\ asyncLock \in BOOLEAN

UserType ==
    user \in [pc : UserPcs, p : 0 .. N, size : BOOLEAN, why : {"flush", "free"}]

\* The ring: the user's thread is always at a context there is.
Places ==
    /\ prev \in Threads \cup {None}
    /\ nextFinished \in Threads
    /\ nextDecoding \in 0 .. N
    /\ delaying \in BOOLEAN
    /\ nextDecoding = N => user.pc = "collect"
    /\ user.pc \in InContext => user.p \in Threads

\* A worker gives its mutex up only to wait for a packet or to end, so the user's
\* thread finds no worker at work in the context it fills.
Mutexes ==
    /\ \A t \in Threads : worker[t] \notin {"locking", "exited"} => mutex[t] = t
    /\ user.pc \in {"release", "prev"} => mutex[user.p] = User

\* The state of a context tells where its worker is.
Phases ==
    \A t \in Threads :
      /\ worker[t] \in Parking => state[t] \in {"INPUT_READY", "SETTING_UP"}
      /\ worker[t] \in Working => state[t] # "INPUT_READY"
      /\ worker[t] = "lock_hw" => state[t] = "SETTING_UP"
      /\ state[t] \in {"GET_BUFFER", "GET_FORMAT"} => ~setup.safe

\* When the client is not thread safe, submit_packet is with every context whose
\* set-up goes on.
SetupInCall ==
    ~setup.safe => \A t \in Threads :
      state[t] \in {"SETTING_UP", "GET_BUFFER", "GET_FORMAT"}
        => user.pc = "serve" /\ user.p = t

\* park_frame_worker_threads has seen the contexts behind it without a packet.
ParkedSoFar ==
    /\ user.pc = "park" =>
         \A t \in Threads : t < user.p => state[t] = "INPUT_READY"
    /\ user.pc = "flush" => \A t \in Threads : state[t] = "INPUT_READY"

\* The flags of a context say which of the two locks are its own, and whoever
\* decodes with the accelerator has those it needs.
Serialized ==
    /\ \A t \in Threads :
         /\ hwSer[t] <=> hwLock = t
         /\ asyncSer[t] => hwSer[t] /\ asyncLock
         /\ hwaccel[t] => setup.update
         /\ Accelerating(t) => hwSer[t] /\ (setup.hw = "serial" => asyncSer[t])
    /\ user.pc \in HasAsync => asyncLock /\ \A t \in Threads : ~asyncSer[t]

LockInv ==
    /\ FrameTypes /\ UserType /\ Places /\ Mutexes /\ Phases
    /\ SetupInCall /\ ParkedSoFar /\ Serialized


-----------------------------------------------------------------------------
(* Steps.  The user's thread takes UsersStep, the workers the other steps.  *)

UsersStep ==
    \/ UserStep
    \/ \E size \in BOOLEAN : Decode(size)
    \/ \E why \in {"flush", "free"} : Park(why)

\* An accelerator needs update_thread_context.
LEMMA AcceleratorUpdates == setup \in Setups /\ setup.hw # "none" => setup.update
BY SetupsAssumption DEF SetupsAssumption

\* No worker is the user's thread, or nobody.
LEMMA Names == User # None /\ User \notin Threads /\ None \notin Threads
BY NamesAssumption DEF NamesAssumption, Threads

\* What submit_packet changes, but for the condition it signals.
LEMMA SubmitEffect ==
    ASSUME Submit
    PROVE  /\ user.pc = "prev" /\ (prev # None => state[prev] # "SETTING_UP")
           /\ hwaccel' = IF prev # None /\ setup.update
                         THEN [hwaccel EXCEPT ![user.p] = hwaccel[prev]] ELSE hwaccel
           /\ mutex' = [mutex EXCEPT ![user.p] = None]
           /\ \/ user' = [user EXCEPT !.pc = "finish"] /\ state' = state
              \/ /\ user' = [user EXCEPT !.pc = "serve"]
                 /\ state' = [state EXCEPT ![user.p] = "SETTING_UP"]
           /\ UNCHANGED <<setup, worker, hwSer, asyncSer, hwLock, asyncLock,
                          prev, nextDecoding, nextFinished, delaying>>
BY DEF Submit, UserAt, UserGo, locks, queue

\* What answering a worker changes, but for the condition it waits for.
LEMMA ServeEffect ==
    ASSUME Serve
    PROVE  /\ user.pc = "serve" /\ ~setup.safe
           /\ \/ state' = state
              \/ /\ state[user.p] \in {"GET_BUFFER", "GET_FORMAT"}
                 /\ state' = [state EXCEPT ![user.p] = "SETTING_UP"]
           /\ UNCHANGED <<setup, worker, mutex, hwaccel, hwSer, asyncSer, hwLock,
                          asyncLock, user, prev, nextDecoding, nextFinished, delaying>>
BY DEF Serve, UserAt, accel, locks, queue

\* A worker's step leaves the user's thread where it is.
LEMMA WorkerKeeps ==
    ASSUME TRUE, NEW t \in Threads, Worker(t)
    PROVE  UNCHANGED <<setup, user, prev, nextDecoding, nextFinished, delaying>>
<1> USE DEF queue
<1>1. CASE WaitInput(t) \/ TakeMutex(t) \/ Exit(t)
  BY <1>1 DEF WaitInput, TakeMutex, Exit, accel, locks
<1>2. CASE Begin(t) \/ LockHw(t) \/ GetFormat(t)
  BY <1>2 DEF Begin, LockHw, GetFormat, Chosen, accel, locks
<1>3. CASE FormatAnswered(t) \/ GetBuffer(t) \/ BufferAnswered(t)
  BY <1>3 DEF FormatAnswered, GetBuffer, BufferAnswered, Chosen, TooLate,
     accel, locks
<1>4. CASE FinishSetup(t) \/ FinishSetupLockHw(t) \/ FinishSetupAsync(t)
  BY <1>4 DEF FinishSetup, FinishSetupLockHw, FinishSetupAsync, AsyncFree,
     accel, locks
<1>5. CASE SetupFinished(t) \/ Report(t) \/ Await(t)
  BY <1>5 DEF SetupFinished, Report, Await, Leave, accel, locks
<1>6. CASE ReleaseBuffer(t) \/ Return(t) \/ Unserialize(t)
  BY <1>6 DEF ReleaseBuffer, Return, Unserialize, Leave, accel, locks
<1>7. CASE Done(t)
  BY <1>7 DEF Done, accel, locks
<1>8. QED
  BY <1>1, <1>2, <1>3, <1>4, <1>5, <1>6, <1>7 DEF Worker

-----------------------------------------------------------------------------
(* Types. *)

\* The worker's steps keep the types
LEMMA TypesWorker ==
    ASSUME FrameTypes, NEW t \in Threads, Worker(t)
    PROVE  FrameTypes'
<1> USE DEF FrameTypes, States, Parking, Working, At, Go, Broadcast, May
<1>1. CASE WaitInput(t) \/ TakeMutex(t) \/ Exit(t)
  BY <1>1 DEF WaitInput, TakeMutex, Exit, accel, locks
<1>2. CASE Begin(t) \/ LockHw(t) \/ GetFormat(t)
  <2>1. CASE Begin(t)
    BY <2>1 DEF Begin, accel, locks
  <2>2. CASE LockHw(t)
    BY <2>2 DEF LockHw, accel, locks
  <2>3. CASE GetFormat(t)
    BY <2>3 DEF GetFormat, Chosen, accel, locks
  <2>4. QED
    BY <1>2, <2>1, <2>2, <2>3
<1>3. CASE FormatAnswered(t) \/ GetBuffer(t) \/ BufferAnswered(t)
  BY <1>3 DEF FormatAnswered, GetBuffer, BufferAnswered, Chosen, TooLate,
     accel, locks
<1>4. CASE FinishSetup(t) \/ FinishSetupLockHw(t) \/ FinishSetupAsync(t)
  BY <1>4 DEF FinishSetup, FinishSetupLockHw, FinishSetupAsync, AsyncFree,
     accel, locks
<1>5. CASE SetupFinished(t) \/ Report(t) \/ Await(t)
  BY <1>5 DEF SetupFinished, Report, Await, Leave, accel, locks
<1>6. CASE ReleaseBuffer(t) \/ Return(t) \/ Unserialize(t)
  BY <1>6 DEF ReleaseBuffer, Return, Unserialize, Leave, accel, locks
<1>7. CASE Done(t)
  BY <1>7 DEF Done, accel, locks
<1>8. QED
  BY <1>1, <1>2, <1>3, <1>4, <1>5, <1>6, <1>7 DEF Worker

\* and so do the steps of the user's thread.
LEMMA TypesUser ==
    ASSUME FrameTypes, Places, UsersStep
    PROVE  FrameTypes'
<1> USE Names DEF UserAt, UserGo, FrameTypes, States, Parking, Working, Broadcast, Places, InContext
<1>1. CASE Submit
  BY <1>1, SubmitEffect DEF Submit, accel, locks, queue
<1>2. CASE Serve
  BY <1>2, ServeEffect DEF Serve, accel, locks, queue
<1>3. CASE Flush
  BY <1>3 DEF Flush, accel, locks, queue
<1>4. CASE Lock \/ ReleaseDelayed \/ AwaitPrev
  BY <1>4 DEF Lock, ReleaseDelayed, AwaitPrev, accel, locks, queue
<1>5. CASE Submitted \/ AwaitOutput \/ Collect
  BY <1>5 DEF Submitted, AwaitOutput, Collect, SetupIsOver, ResultTaken,
     Skipped, accel, locks, queue
<1>6. CASE Finish \/ Unpark \/ Parked
  BY <1>6 DEF Finish, Unpark, Parked, AsyncFree, accel, locks, queue
<1>7. CASE AllParked \/ Kill \/ Join
  <2>1. CASE AllParked
    BY <2>1 DEF AllParked, AsyncFree, accel, locks, queue
  <2>2. CASE Kill
    BY <2>2 DEF Kill, accel, locks, queue
  <2>3. CASE Join
    BY <2>3 DEF Join, accel, locks, queue
  <2>4. QED
    BY <1>7, <2>1, <2>2, <2>3
<1>8. ASSUME NEW size \in BOOLEAN, Decode(size)
      PROVE  FrameTypes'
  BY <1>8 DEF Decode, accel, queue
<1>9. ASSUME NEW why \in {"flush", "free"}, Park(why)
      PROVE  FrameTypes'
  BY <1>9 DEF Park, accel, locks, queue
<1>10. QED
  BY <1>1, <1>2, <1>3, <1>4, <1>5, <1>6, <1>7, <1>8, <1>9 DEF UserStep,
     UsersStep

\* The locals of the user's call keep theirs.
LEMMA UserTypeStep ==
    ASSUME UserType, Places, UsersStep
    PROVE  UserType'
<1> USE DEF UserAt, UserGo, UserType
<1>a. /\ {"lock", "release", "prev", "serve", "collect"} \in SUBSET UserPcs
      /\ {"idle", "flush", "free", "freed", "unpark", "finish", "park"} \in SUBSET UserPcs
  BY DEF UserPcs, InContext, HasAsync
<1>b. /\ 0 \in 0 .. N /\ nextDecoding \in 0 .. N /\ nextFinished \in 0 .. N
      /\ \A p \in Threads : p + 1 \in 0 .. N
      /\ user.pc = "collect" => user.p \in Threads
      /\ \A p \in Threads : (p + 1) % N \in 0 .. N
  BY NAssumption DEF NAssumption, Threads, Places, InContext
<1>1. CASE Submit
  BY <1>1, <1>a, SubmitEffect DEF Submit, accel, locks, queue
<1>2. CASE Submitted
  BY <1>2, <1>a, <1>b DEF Submitted, SetupIsOver, accel, locks, queue
<1>3. CASE Collect
  BY <1>3, <1>a, <1>b DEF Collect, ResultTaken, Skipped, accel, locks, queue
<1>4. CASE Lock \/ ReleaseDelayed \/ AwaitPrev
  BY <1>4, <1>a, <1>b DEF Lock, ReleaseDelayed, AwaitPrev, accel, locks,
     queue
<1>5. CASE Serve \/ AwaitOutput \/ Finish
  BY <1>5, <1>a, <1>b DEF Serve, AwaitOutput, Finish, AsyncFree, accel,
     locks, queue
<1>6. CASE Unpark \/ Parked \/ AllParked
  BY <1>6, <1>a, <1>b DEF Unpark, Parked, AllParked, AsyncFree, accel,
     locks, queue
<1>7. CASE Flush \/ Kill \/ Join
  BY <1>7, <1>a, <1>b DEF Flush, Kill, Join, accel, locks, queue
<1>8. ASSUME NEW size \in BOOLEAN, Decode(size)
      PROVE  UserType'
  BY <1>8, <1>a, <1>b DEF Decode, accel, queue
<1>9. ASSUME NEW why \in {"flush", "free"}, Park(why)
      PROVE  UserType'
  BY <1>9, <1>a, <1>b DEF Park, accel, locks, queue
<1>10. QED
  BY <1>1, <1>2, <1>3, <1>4, <1>5, <1>6, <1>7, <1>8, <1>9 DEF UserStep,
     UsersStep

-----------------------------------------------------------------------------
(* Each part of the invariant. *)

\* nextDecoding passes the end of the ring only on the way to Collect, which
\* turns it back: a call that returns without collecting has room left.
LEMMA PlacesUser ==
    ASSUME UserType, setup \in Setups, Places, UsersStep
    PROVE  Places'
<1> USE DEF UserAt, UserGo, UserType, Places
<1>a. /\ N \in Nat /\ N >= 2 /\ 0 \in Threads
      /\ \A k \in 0 .. N : k \in Threads <=> k # N
      /\ \A p \in Threads : p + 1 \in 0 .. N /\ (p + 1) % N \in Threads
  BY NAssumption DEF NAssumption, Threads
<1> USE DEF InContext
<1>1. CASE Submit
  BY <1>1, SubmitEffect DEF Submit, accel, locks, queue
<1>2. CASE Submitted
  <2>1. setup.early \in {0, 1}
    BY SetupsAssumption DEF SetupsAssumption
  <2>2. nextDecoding \in 0 .. N - 1
    BY <1>2, <1>a DEF Submitted
  <2>3. /\ nextDecoding' \in 0 .. N /\ delaying' \in BOOLEAN
        /\ delaying' => nextDecoding' # N
    <3>1. nextDecoding' = nextDecoding + 1
      BY <1>2 DEF Submitted
    <3>2. delaying' = (delaying /\ nextDecoding' <= N - 1 - setup.early)
      BY <1>2 DEF Submitted
    <3>3. nextDecoding' \in 0 .. N
      BY <1>a, <2>2, <3>1
    <3>4. delaying' => nextDecoding' # N
      <4>1. delaying' => nextDecoding' <= N - 1 - setup.early
        BY <3>2
      <4>2. QED
        BY <1>a, <2>1, <3>3, <4>1
    <3>5. delaying' \in BOOLEAN
      BY <3>2
    <3>6. QED
      BY <3>3, <3>4, <3>5
  <2>4. /\ prev' \in Threads /\ nextFinished' \in Threads
        /\ user'.pc = "finish" => delaying'
        /\ user'.pc \in {"finish", "collect"}
        /\ user'.pc = "collect" => user'.p \in Threads
    BY <1>2 DEF Submitted
  <2>5. QED
    BY <2>3, <2>4
<1>3. CASE Collect
  BY <1>3, <1>a DEF Collect, ResultTaken, Skipped, accel, locks, queue
<1>4. CASE Flush
  BY <1>4, <1>a DEF Flush, accel, locks, queue
<1>5. CASE Lock \/ ReleaseDelayed \/ AwaitPrev
  BY <1>5, <1>a DEF Lock, ReleaseDelayed, AwaitPrev, accel, locks, queue
<1>6. CASE Serve \/ AwaitOutput \/ Finish
  BY <1>6, <1>a DEF Serve, AwaitOutput, Finish, AsyncFree, accel, locks,
     queue
<1>7. CASE Unpark \/ Parked \/ AllParked
  BY <1>7, <1>a DEF Unpark, Parked, AllParked, AsyncFree, accel, locks,
     queue
<1>8. CASE Kill \/ Join
  BY <1>8, <1>a DEF Kill, Join, accel, locks, queue
<1>9. ASSUME NEW size \in BOOLEAN, Decode(size)
      PROVE  Places'
  <2>1. /\ UNCHANGED <<prev, nextFinished, nextDecoding, delaying>>
        /\ user'.pc \in {"lock", "collect"}
        /\ user'.p \in {nextDecoding, nextFinished}
        /\ nextDecoding # N
    BY <1>9 DEF Decode, queue
  <2>2. QED
    BY <1>a, <2>1
<1>10. ASSUME NEW why \in {"flush", "free"}, Park(why)
      PROVE  Places'
  BY <1>10, <1>a DEF Park, accel, locks, queue
<1>11. QED
  BY <1>1, <1>2, <1>3, <1>4, <1>5, <1>6, <1>7, <1>8, <1>9, <1>10 DEF
     UserStep, UsersStep

\* A worker leaves its mutex only for "locking" or "exited".
LEMMA MutexesWorker ==
    ASSUME FrameTypes, Mutexes, NEW t \in Threads, Worker(t)
    PROVE  Mutexes'
<1> USE Names DEF At, Go, May, FrameTypes, Mutexes
<1>1. CASE WaitInput(t)
  BY <1>1 DEF WaitInput, accel, locks
<1>2. CASE TakeMutex(t)
  BY <1>2 DEF TakeMutex, accel, locks
<1>3. CASE Exit(t)
  BY <1>3 DEF Exit, accel, locks
<1>4. CASE Begin(t) \/ LockHw(t) \/ GetFormat(t)
  BY <1>4 DEF Begin, LockHw, GetFormat, Chosen, accel, locks
<1>5. CASE FormatAnswered(t) \/ GetBuffer(t) \/ BufferAnswered(t)
  BY <1>5 DEF FormatAnswered, GetBuffer, BufferAnswered, Chosen, TooLate,
     accel, locks
<1>6. CASE FinishSetup(t) \/ FinishSetupLockHw(t) \/ FinishSetupAsync(t)
  BY <1>6 DEF FinishSetup, FinishSetupLockHw, FinishSetupAsync, AsyncFree,
     accel, locks
<1>7. CASE SetupFinished(t) \/ Report(t) \/ Await(t)
  BY <1>7 DEF SetupFinished, Report, Await, Leave, accel, locks
<1>8. CASE ReleaseBuffer(t) \/ Return(t) \/ Unserialize(t)
  BY <1>8 DEF ReleaseBuffer, Return, Unserialize, Leave, accel, locks
<1>9. CASE Done(t)
  BY <1>9 DEF Done, accel, locks
<1>10. QED
  BY <1>1, <1>2, <1>3, <1>4, <1>5, <1>6, <1>7, <1>8, <1>9 DEF Worker

\* A worker is at work exactly while its context has a packet.
LEMMA PhasesWorker ==
    ASSUME FrameTypes, Phases, Serialized, NEW t \in Threads, Worker(t)
    PROVE  Phases'
<1> USE Names DEF FrameTypes, States, Parking, Working, At, Go, Broadcast, May, Phases, Serialized
<1>1. CASE Begin(t)
  BY <1>1 DEF Begin, accel, locks
<1>2. CASE GetFormat(t)
  BY <1>2 DEF GetFormat, Chosen, accel, locks
<1>3. CASE GetBuffer(t)
  BY <1>3 DEF GetBuffer, TooLate, accel, locks
<1>4. CASE WaitInput(t) \/ TakeMutex(t) \/ Exit(t)
  BY <1>4 DEF WaitInput, TakeMutex, Exit, accel, locks
<1>5. CASE LockHw(t) \/ FormatAnswered(t) \/ BufferAnswered(t)
  BY <1>5 DEF LockHw, FormatAnswered, BufferAnswered, Chosen, accel, locks
<1>6. CASE FinishSetup(t) \/ FinishSetupLockHw(t) \/ FinishSetupAsync(t)
  BY <1>6 DEF FinishSetup, FinishSetupLockHw, FinishSetupAsync, AsyncFree,
     accel, locks
<1>7. CASE SetupFinished(t) \/ Report(t) \/ Await(t)
  BY <1>7 DEF SetupFinished, Report, Await, Leave, accel, locks
<1>8. CASE ReleaseBuffer(t) \/ Return(t) \/ Unserialize(t)
  BY <1>8 DEF ReleaseBuffer, Return, Unserialize, Leave, accel, locks
<1>9. CASE Done(t)
  BY <1>9 DEF Done, accel, locks
<1>10. QED
  BY <1>1, <1>2, <1>3, <1>4, <1>5, <1>6, <1>7, <1>8, <1>9 DEF Worker

\* No worker starts a set-up: it only asks, or ends one.
LEMMA SetupInCallWorker ==
    ASSUME FrameTypes, Phases, SetupInCall, NEW t \in Threads, Worker(t)
    PROVE  SetupInCall'
<1> USE Names DEF FrameTypes, States, Parking, Working, At, Go, Broadcast, May, Phases, SetupInCall
<1>1. CASE GetFormat(t)
  BY <1>1 DEF GetFormat, Chosen, accel, locks
<1>2. CASE GetBuffer(t)
  BY <1>2 DEF GetBuffer, TooLate, accel, locks
<1>3. CASE WaitInput(t) \/ TakeMutex(t) \/ Exit(t)
  BY <1>3 DEF WaitInput, TakeMutex, Exit, accel, locks
<1>4. CASE Begin(t) \/ LockHw(t) \/ FormatAnswered(t)
  BY <1>4 DEF Begin, LockHw, FormatAnswered, Chosen, accel, locks
<1>5. CASE BufferAnswered(t) \/ FinishSetup(t) \/ FinishSetupLockHw(t)
  BY <1>5 DEF BufferAnswered, FinishSetup, FinishSetupLockHw, accel, locks
<1>6. CASE FinishSetupAsync(t) \/ SetupFinished(t) \/ Report(t)
  BY <1>6 DEF FinishSetupAsync, SetupFinished, Report, AsyncFree, Leave,
     accel, locks
<1>7. CASE Await(t) \/ ReleaseBuffer(t) \/ Return(t)
  BY <1>7 DEF Await, ReleaseBuffer, Return, Leave, accel, locks
<1>8. CASE Unserialize(t) \/ Done(t)
  BY <1>8 DEF Unserialize, Done, accel, locks
<1>9. QED
  BY <1>1, <1>2, <1>3, <1>4, <1>5, <1>6, <1>7, <1>8 DEF Worker

\* A context without a packet has an idle worker, which gives it none.
LEMMA ParkedWorker ==
    ASSUME FrameTypes, Phases, ParkedSoFar, NEW t \in Threads, Worker(t)
    PROVE  ParkedSoFar'
<1> USE Names DEF FrameTypes, States, Parking, Working, At, Go, Broadcast, May, Phases, ParkedSoFar
<1>1. CASE Begin(t)
  BY <1>1 DEF Begin, accel, locks
<1>2. CASE WaitInput(t) \/ TakeMutex(t) \/ Exit(t)
  BY <1>2 DEF WaitInput, TakeMutex, Exit, accel, locks
<1>3. CASE LockHw(t) \/ GetFormat(t) \/ FormatAnswered(t)
  BY <1>3 DEF LockHw, GetFormat, FormatAnswered, Chosen, accel, locks
<1>4. CASE GetBuffer(t) \/ BufferAnswered(t) \/ FinishSetup(t)
  BY <1>4 DEF GetBuffer, BufferAnswered, FinishSetup, TooLate, accel, locks
<1>5. CASE FinishSetupLockHw(t) \/ FinishSetupAsync(t) \/ SetupFinished(t)
  BY <1>5 DEF FinishSetupLockHw, FinishSetupAsync, SetupFinished, AsyncFree,
     Leave, accel, locks
<1>6. CASE Report(t) \/ Await(t) \/ ReleaseBuffer(t)
  BY <1>6 DEF Report, Await, ReleaseBuffer, accel, locks
<1>7. CASE Return(t) \/ Unserialize(t) \/ Done(t)
  BY <1>7 DEF Return, Unserialize, Done, Leave, accel, locks
<1>8. QED
  BY <1>1, <1>2, <1>3, <1>4, <1>5, <1>6, <1>7 DEF Worker

\* A worker decodes with the accelerator once its set-up has the locks, and gives
\* them up when decode() has returned; only the owner of async_lock takes it away.
LEMMA SerializedWorker ==
    ASSUME FrameTypes, Phases, Serialized, NEW t \in Threads, Worker(t)
    PROVE  Serialized'
<1> USE Names DEF FrameTypes, States, Parking, Working, At, Go, Broadcast, May, Phases, Serialized, Accelerating, HasAsync
<1>1. CASE Begin(t)
  BY <1>1, AcceleratorUpdates DEF Begin, accel, locks
<1>2. CASE LockHw(t)
  BY <1>2 DEF LockHw, accel, locks
<1>3. CASE GetFormat(t)
  BY <1>3, AcceleratorUpdates DEF GetFormat, Chosen, accel, locks
<1>4. CASE FormatAnswered(t)
  BY <1>4, AcceleratorUpdates DEF FormatAnswered, Chosen, accel, locks
<1>5. CASE BufferAnswered(t)
  BY <1>5 DEF BufferAnswered, accel, locks
<1>6. CASE FinishSetupLockHw(t)
  BY <1>6 DEF FinishSetupLockHw, accel, locks
<1>7. CASE FinishSetupAsync(t)
  BY <1>7 DEF FinishSetupAsync, AsyncFree, accel, locks
<1>8. CASE SetupFinished(t)
  BY <1>8 DEF SetupFinished, Leave, accel, locks
<1>9. CASE Unserialize(t)
  BY <1>9 DEF Unserialize, accel, locks
<1>10. CASE WaitInput(t) \/ TakeMutex(t) \/ Exit(t)
  BY <1>10 DEF WaitInput, TakeMutex, Exit, accel, locks
<1>11. CASE GetBuffer(t) \/ FinishSetup(t) \/ Report(t)
  BY <1>11 DEF GetBuffer, FinishSetup, Report, TooLate, accel, locks
<1>12. CASE Await(t) \/ ReleaseBuffer(t) \/ Return(t)
  BY <1>12 DEF Await, ReleaseBuffer, Return, Leave, accel, locks
<1>13. CASE Done(t)
  BY <1>13 DEF Done, accel, locks
<1>14. QED
  BY <1>1, <1>2, <1>3, <1>4, <1>5, <1>6, <1>7, <1>8, <1>9, <1>10, <1>11,
     <1>12, <1>13 DEF Worker

\* The user's thread takes a mutex nobody has.
LEMMA MutexesUser ==
    ASSUME FrameTypes, UserType, Places, Mutexes, UsersStep
    PROVE  Mutexes'
<1> USE Names DEF UserAt, UserGo, FrameTypes, UserType, Places, InContext, Mutexes
<1>1. CASE Lock
  BY <1>1 DEF Lock, accel, locks, queue
<1>2. CASE Submit
  BY <1>2, SubmitEffect DEF Submit, accel, locks, queue
<1>3. CASE Serve
  BY <1>3, ServeEffect DEF Serve, accel, locks, queue
<1>4. CASE ReleaseDelayed \/ AwaitPrev \/ Submitted
  BY <1>4 DEF ReleaseDelayed, AwaitPrev, Submitted, SetupIsOver, accel,
     locks, queue
<1>5. CASE AwaitOutput \/ Collect \/ Finish
  BY <1>5 DEF AwaitOutput, Collect, Finish, ResultTaken, Skipped, AsyncFree,
     accel, locks, queue
<1>6. CASE Unpark \/ Parked \/ AllParked
  BY <1>6 DEF Unpark, Parked, AllParked, AsyncFree, accel, locks, queue
<1>7. CASE Flush \/ Kill \/ Join
  BY <1>7 DEF Flush, Kill, Join, accel, locks, queue
<1>8. ASSUME NEW size \in BOOLEAN, Decode(size)
      PROVE  Mutexes'
  BY <1>8 DEF Decode, accel, queue
<1>9. ASSUME NEW why \in {"flush", "free"}, Park(why)
      PROVE  Mutexes'
  BY <1>9 DEF Park, accel, locks, queue
<1>10. QED
  BY <1>1, <1>2, <1>3, <1>4, <1>5, <1>6, <1>7, <1>8, <1>9 DEF UserStep,
     UsersStep

\* A packet is put where the worker is idle, since the mutex is the user's.
LEMMA PhasesUser ==
    ASSUME FrameTypes, Places, Mutexes, Phases, UsersStep
    PROVE  Phases'
<1> USE Names DEF UserAt, UserGo, FrameTypes, Parking, Working, Places, InContext, Mutexes, Phases
<1>1. CASE Submit
  BY <1>1, SubmitEffect DEF Submit, accel, locks, queue
<1>2. CASE Serve
  BY <1>2, ServeEffect DEF Serve, accel, locks, queue
<1>3. CASE Lock \/ ReleaseDelayed \/ AwaitPrev
  BY <1>3 DEF Lock, ReleaseDelayed, AwaitPrev, accel, locks, queue
<1>4. CASE Submitted \/ AwaitOutput \/ Collect
  BY <1>4 DEF Submitted, AwaitOutput, Collect, SetupIsOver, ResultTaken,
     Skipped, accel, locks, queue
<1>5. CASE Finish \/ Unpark \/ Parked
  BY <1>5 DEF Finish, Unpark, Parked, AsyncFree, accel, locks, queue
<1>6. CASE AllParked \/ Flush \/ Kill
  BY <1>6 DEF AllParked, Flush, Kill, AsyncFree, accel, locks, queue
<1>7. CASE Join
  BY <1>7 DEF Join, accel, locks, queue
<1>8. ASSUME NEW size \in BOOLEAN, Decode(size)
      PROVE  Phases'
  BY <1>8 DEF Decode, accel, queue
<1>9. ASSUME NEW why \in {"flush", "free"}, Park(why)
      PROVE  Phases'
  BY <1>9 DEF Park, accel, locks, queue
<1>10. QED
  BY <1>1, <1>2, <1>3, <1>4, <1>5, <1>6, <1>7, <1>8, <1>9 DEF UserStep,
     UsersStep

\* submit_packet does not go on before the set-up is over.
LEMMA SetupInCallUser ==
    ASSUME FrameTypes, UserType, Places, SetupInCall, UsersStep
    PROVE  SetupInCall'
<1> USE Names DEF UserAt, UserGo, FrameTypes, States, UserType, Places, InContext, SetupInCall
<1>1. CASE Submit
  BY <1>1, SubmitEffect DEF Submit, accel, locks, queue
<1>2. CASE Serve
  BY <1>2, ServeEffect DEF Serve, accel, locks, queue
<1>3. CASE Submitted
  BY <1>3 DEF Submitted, SetupIsOver, accel, locks, queue
<1>4. CASE Lock \/ ReleaseDelayed \/ AwaitPrev
  BY <1>4 DEF Lock, ReleaseDelayed, AwaitPrev, accel, locks, queue
<1>5. CASE AwaitOutput \/ Collect \/ Finish
  BY <1>5 DEF AwaitOutput, Collect, Finish, ResultTaken, Skipped, AsyncFree,
     accel, locks, queue
<1>6. CASE Unpark \/ Parked \/ AllParked
  BY <1>6 DEF Unpark, Parked, AllParked, AsyncFree, accel, locks, queue
<1>7. CASE Flush \/ Kill \/ Join
  BY <1>7 DEF Flush, Kill, Join, accel, locks, queue
<1>8. ASSUME NEW size \in BOOLEAN, Decode(size)
      PROVE  SetupInCall'
  BY <1>8 DEF Decode, accel, queue
<1>9. ASSUME NEW why \in {"flush", "free"}, Park(why)
      PROVE  SetupInCall'
  BY <1>9 DEF Park, accel, locks, queue
<1>10. QED
  BY <1>1, <1>2, <1>3, <1>4, <1>5, <1>6, <1>7, <1>8, <1>9 DEF UserStep,
     UsersStep

\* While the contexts are parked one after the other none gets a packet.
LEMMA ParkedUser ==
    ASSUME FrameTypes, UserType, Places, ParkedSoFar, UsersStep
    PROVE  ParkedSoFar'
<1> USE NAssumption, Names DEF UserAt, UserGo, FrameTypes, UserType, Places, InContext, Threads, NAssumption, ParkedSoFar
<1>1. CASE Submit
  BY <1>1, SubmitEffect DEF Submit, accel, locks, queue
<1>2. CASE Serve
  BY <1>2, ServeEffect DEF Serve, accel, locks, queue
<1>3. CASE Unpark
  BY <1>3 DEF Unpark, accel, locks, queue
<1>4. CASE Parked
  BY <1>4 DEF Parked, accel, locks, queue
<1>5. CASE AllParked
  BY <1>5 DEF AllParked, AsyncFree, accel, locks, queue
<1>6. CASE Flush
  BY <1>6 DEF Flush, accel, locks, queue
<1>7. CASE Lock \/ ReleaseDelayed \/ AwaitPrev
  BY <1>7 DEF Lock, ReleaseDelayed, AwaitPrev, accel, locks, queue
<1>8. CASE Submitted \/ AwaitOutput \/ Collect
  BY <1>8 DEF Submitted, AwaitOutput, Collect, SetupIsOver, ResultTaken,
     Skipped, accel, locks, queue
<1>9. CASE Finish \/ Kill \/ Join
  BY <1>9 DEF Finish, Kill, Join, AsyncFree, accel, locks, queue
<1>10. ASSUME NEW size \in BOOLEAN, Decode(size)
      PROVE  ParkedSoFar'
  BY <1>10 DEF Decode, accel, queue
<1>11. ASSUME NEW why \in {"flush", "free"}, Park(why)
      PROVE  ParkedSoFar'
  BY <1>11 DEF Park, accel, locks, queue
<1>12. QED
  BY <1>1, <1>2, <1>3, <1>4, <1>5, <1>6, <1>7, <1>8, <1>9, <1>10, <1>11 DEF
     UserStep, UsersStep

\* The accelerator of a context changes only while its worker is idle, and the
\* call returns with async_lock, which no worker can have then.
LEMMA SerializedUser ==
    ASSUME FrameTypes, UserType, Places, Mutexes, Phases, ParkedSoFar, Serialized, UsersStep
    PROVE  Serialized'
<1> USE Names DEF UserAt, UserGo, FrameTypes, UserType, Places, InContext, HasAsync, Mutexes, Phases, Parking, ParkedSoFar, Serialized, Accelerating
<1>1. CASE Submit
  BY <1>1, SubmitEffect DEF Submit, accel, locks, queue
<1>2. CASE Serve
  BY <1>2, ServeEffect DEF Serve, accel, locks, queue
<1>3. CASE Submitted
  BY <1>3 DEF Submitted, SetupIsOver, accel, locks, queue
<1>4. CASE Collect
  BY <1>4 DEF Collect, ResultTaken, Skipped, accel, locks, queue
<1>5. CASE Finish
  BY <1>5 DEF Finish, AsyncFree, accel, locks, queue
<1>6. CASE Unpark
  BY <1>6 DEF Unpark, accel, locks, queue
<1>7. CASE AllParked
  BY <1>7 DEF AllParked, AsyncFree, accel, locks, queue
<1>8. CASE Flush
  BY <1>8 DEF Flush, accel, locks, queue
<1>9. CASE Lock \/ ReleaseDelayed \/ AwaitPrev
  BY <1>9 DEF Lock, ReleaseDelayed, AwaitPrev, accel, locks, queue
<1>10. CASE AwaitOutput \/ Parked \/ Kill
  BY <1>10 DEF AwaitOutput, Parked, Kill, accel, locks, queue
<1>11. CASE Join
  BY <1>11 DEF Join, accel, locks, queue
<1>12. ASSUME NEW size \in BOOLEAN, Decode(size)
      PROVE  Serialized'
  BY <1>12 DEF Decode, accel, queue
<1>13. ASSUME NEW why \in {"flush", "free"}, Park(why)
      PROVE  Serialized'
  BY <1>13 DEF Park, accel, locks, queue
<1>14. QED
  BY <1>1, <1>2, <1>3, <1>4, <1>5, <1>6, <1>7, <1>8, <1>9, <1>10, <1>11,
     <1>12, <1>13 DEF UserStep, UsersStep

-----------------------------------------------------------------------------
(* The invariant, and what it says. *)

\* At first the workers that were created are about to lock, and nothing is in a context.
LEMMA LockInit == Init => LockInv
<1> SUFFICES ASSUME Init PROVE LockInv
  OBVIOUS
<1>1. 0 \in Threads /\ 0 \in 0 .. N /\ N # 0 /\ N \in Nat
  BY NAssumption DEF NAssumption, Threads
<1>2. PICK s \in Setups, created \in 0 .. N :
        /\ setup = s
        /\ worker = [t \in Threads |-> IF t < created THEN "locking" ELSE "exited"]
        /\ user = [pc |-> IF created = N THEN "idle" ELSE "unpark",
                   p |-> 0, size |-> FALSE, why |-> "free"]
  BY DEF Init
<1>3. FrameTypes
  BY <1>2 DEF Init, FrameTypes, States, Parking
<1>4. UserType /\ user.pc \in {"idle", "unpark"}
  BY <1>1, <1>2 DEF UserType, UserPcs, HasAsync
<1>5. Places /\ Mutexes /\ ParkedSoFar
  BY <1>1, <1>2, <1>4 DEF Init, Places, Mutexes, ParkedSoFar, InContext
<1>6. Phases /\ SetupInCall
  BY <1>2 DEF Init, Phases, SetupInCall, Parking, Working
<1>7. Serialized
  BY Names DEF Init, Serialized, Accelerating
<1>8. QED
  BY <1>3, <1>4, <1>5, <1>6, <1>7 DEF LockInv

\* Every step of a worker or of a user keeps the mutexes and the phases in agreement.
LEMMA LockStep == LockInv /\ [Next]_vars => LockInv'
<1> SUFFICES ASSUME LockInv, [Next]_vars PROVE LockInv'
  OBVIOUS
<1> USE DEF LockInv
<1>1. ASSUME NEW t \in Threads, Worker(t)
      PROVE  LockInv'
  <2>1. UserType' /\ Places'
    BY <1>1, WorkerKeeps DEF UserType, Places
  <2>2. QED
    BY <1>1, <2>1, TypesWorker, MutexesWorker, PhasesWorker, SetupInCallWorker,
       ParkedWorker, SerializedWorker
<1>2. CASE UsersStep
  <2>1. setup \in Setups
    BY DEF FrameTypes
  <2>2. QED
    BY <1>2, <2>1, TypesUser, UserTypeStep, PlacesUser, MutexesUser, PhasesUser,
       SetupInCallUser, ParkedUser, SerializedUser
<1>3. CASE UNCHANGED vars
  BY <1>3 DEF vars, perThread, accel, locks, queue, FrameTypes, UserType, Places,
     Mutexes, Phases, SetupInCall, ParkedSoFar, Serialized, Accelerating
<1>4. QED
  BY <1>1, <1>2, <1>3 DEF Next, UsersStep

\* In every reachable state the contexts, the locks and the user's thread agree
\* (pthread_frame.c): mutexes, states and flags say the same of who is where.
THEOREM LocksAgree == Spec => []LockInv
BY LockInit, LockStep, PTL DEF Spec

\* A worker that asks for a buffer or a format is asking the thread that is in
\* submit_packet for it (thread_get_buffer_internal, ff_thread_get_format): the
\* callbacks of a client that is not thread safe run inside its own calls.
THEOREM CallbacksAlwaysInsideCall == Spec => []CallbacksInsideCall
<1>1. LockInv => CallbacksInsideCall
  BY DEF LockInv, Phases, SetupInCall, CallbacksInsideCall
<1>2. QED
  BY <1>1, LocksAgree, PTL

\* hwaccel_mutex lets one worker at a time decode with the accelerator, and
\* async_lock none while the client is outside its calls, when that is not safe.
THEOREM AcceleratorAlwaysExclusive == Spec => []AcceleratorIsExclusive
<1>1. LockInv => AcceleratorIsExclusive
  BY Names DEF LockInv, Serialized, AcceleratorIsExclusive, HasAsync
<1>2. QED
  BY <1>1, LocksAgree, PTL

-----------------------------------------------------------------------------
(* The ring of contexts: what was submitted and not yet collected lies,     *)
(* in the order of the packets, from nextFinished on up to nextDecoding.    *)

Results == {"frame", "none", "error"}
Drains == {"no", "on", "done"}
Calls == {"format", "release", "finish", "buffer", "failed", "empty", "await",
          "report", "return"}

RingTypes ==
    /\ pkt \in [Threads -> Nat]
    /\ result \in [Threads -> Results]
    /\ made \in [Threads -> SUBSET Calls]
    /\ client \in [next : Nat, last : Nat, owed : SUBSET Nat, drain : Drains,
                   flushes : Nat]

\* How far a context is behind another one, going round.
Distance(from, t) == IF t >= from THEN t - from ELSE t - from + N
Behind(t) == Distance(nextFinished, t)

\* A packet or a result the client has not got anything for.
Pending(t) == state[t] # "INPUT_READY" \/ result[t] # "none"

\* As many contexts from nextFinished on may be pending.
Filled ==
    CASE user.pc = "serve" -> Behind(nextDecoding) + 1
      [] user.pc = "collect" /\ ~delaying
           /\ nextDecoding \in {nextFinished, nextFinished + N} -> N
      [] OTHER -> Behind(IF nextDecoding = N THEN 0 ELSE nextDecoding)

InRing ==
    /\ client.last < client.next
    /\ \A t \in Threads : Pending(t) =>
         /\ Behind(t) < Filled
         /\ client.last < pkt[t] /\ pkt[t] < client.next
         /\ \A q \in Threads : Pending(q) /\ Behind(t) < Behind(q) => pkt[t] < pkt[q]

\* The context of the user's call: the one to fill, then the first, or, while
\* draining, the first behind those without a frame.  As long as nothing had to be
\* collected the ring has not been gone round.
CallAt ==
    /\ user.pc \in {"lock", "release", "prev", "serve"} => user.p = nextDecoding
    /\ user.pc = "collect" =>
         \A t \in Threads : Behind(t) < Behind(user.p) => ~Pending(t)
    /\ user.pc = "collect" /\ user.size => user.p = nextFinished /\ ~delaying
    /\ delaying => nextFinished <= nextDecoding /\ nextDecoding # N

\* What is owed is in the contexts, unless they are being parked; and nothing is
\* when draining is done.  A context has no result before decode() returns.
OwedInRing ==
    /\ user.pc \in InContext \cup {"idle", "finish", "unpark"} =>
         \A k \in client.owed : \E t \in Threads : result[t] = "frame" /\ pkt[t] = k
    /\ \A t \in Threads :
         state[t] # "INPUT_READY" /\ result[t] = "frame" => "return" \in made[t]
    /\ user.pc \in InContext => client.drain # "done"
    /\ client.drain = "done" =>
         client.owed = {} /\ \A t \in Threads : state[t] = "INPUT_READY"

RingInv == RingTypes /\ InRing /\ CallAt /\ OwedInRing

\* The next context, going round.
LEMMA After ==
    ASSUME NEW p \in Threads
    PROVE  (p + 1) % N = IF p = N - 1 THEN 0 ELSE p + 1
BY NAssumption DEF NAssumption, Threads

\* Distances are less than N, and tell the contexts apart.
LEMMA DistanceType ==
    ASSUME NEW f \in Threads, NEW t \in Threads
    PROVE  /\ Distance(f, t) \in 0 .. N - 1
           /\ \A q \in Threads : Distance(f, q) = Distance(f, t) => q = t
           /\ Distance(f, f) = 0
BY NAssumption DEF NAssumption, Threads, Distance

\* Distances from the context after p.
LEMMA DistanceAfter ==
    ASSUME NEW f \in Threads, NEW p \in Threads, NEW t \in Threads
    PROVE  LET d == Distance(f, t) - Distance(f, p) - 1
           IN  Distance((p + 1) % N, t) = IF Distance(f, t) > Distance(f, p) THEN d ELSE d + N
<1>1. /\ N \in Nat /\ f \in 0 .. N - 1 /\ p \in 0 .. N - 1 /\ t \in 0 .. N - 1
      /\ (p + 1) % N = IF p = N - 1 THEN 0 ELSE p + 1
  BY NAssumption, After DEF NAssumption, Threads
<1>2. CASE p = N - 1
  BY <1>1, <1>2 DEF Distance
<1>3. CASE p # N - 1
  BY <1>1, <1>3 DEF Distance
<1>4. QED
  BY <1>2, <1>3

\* The next context is one further, unless the round is over.
LEMMA DistanceNext ==
    ASSUME NEW f \in Threads, NEW p \in Threads
    PROVE  /\ (p + 1) % N \in Threads
           /\ (p + 1) % N # f => Distance(f, (p + 1) % N) = Distance(f, p) + 1
           /\ (p + 1) % N = f => Distance(f, p) = N - 1
<1>1. /\ N \in Nat /\ f \in 0 .. N - 1 /\ p \in 0 .. N - 1
      /\ (p + 1) % N = IF p = N - 1 THEN 0 ELSE p + 1
  BY NAssumption, After DEF NAssumption, Threads
<1>2. QED
  BY <1>1 DEF Distance, Threads

\* Recording calls adds to those the context has made.
LEMMA MadeGrows ==
    ASSUME made \in [Threads -> SUBSET Calls], NEW t \in Threads, NEW S,
           Made(t, S), S \in SUBSET Calls
    PROVE  /\ made' \in [Threads -> SUBSET Calls]
           /\ made'[t] = made[t] \cup S
           /\ \A q \in Threads \ {t} : made'[q] = made[q]
BY DEF Made

\* A worker's step, as the ring sees it: its context is emptied at most, and its
\* result is put there with what the client is owed.
LEMMA WorkerInRing ==
    ASSUME FrameTypes, Phases, RingTypes, OwedInRing, NEW t \in Threads, Worker(t)
    PROVE  /\ UNCHANGED <<pkt, user, nextDecoding, nextFinished, delaying>>
           /\ RingTypes'
           /\ client'.last = client.last /\ client'.next = client.next
           /\ client'.drain = client.drain
           /\ \A q \in Threads \ {t} : state'[q] = state[q] /\ result'[q] = result[q]
                                       /\ made'[q] = made[q]
           /\ state[t] = "INPUT_READY" =>
                state'[t] = "INPUT_READY" /\ result' = result /\ client' = client
           /\ \/ UNCHANGED <<result, client>>
                 /\ ("return" \in made[t] => "return" \in made'[t] \/ state'[t] = "INPUT_READY")
              \/ /\ state'[t] # "INPUT_READY" /\ "return" \in made'[t]
                 /\ result[t] # "frame"
                 /\ client'.owed = IF result'[t] = "frame" THEN client.owed \cup {pkt[t]}
                                                           ELSE client.owed
<1> USE DEF FrameTypes, RingTypes, Phases, Parking, Working, At, Go, Broadcast, May
<1>1. CASE WaitInput(t) \/ TakeMutex(t) \/ Exit(t)
  BY <1>1, MadeGrows DEF Calls, WaitInput, TakeMutex, Exit, decoded, locks, queue
<1>2. CASE Begin(t) \/ LockHw(t)
  BY <1>2, MadeGrows DEF Calls, Begin, LockHw, decoded, locks, queue
<1>3. CASE GetFormat(t)
  BY <1>3, MadeGrows DEF Calls, GetFormat, decoded, locks, queue
<1>4. CASE FormatAnswered(t)
  BY <1>4, MadeGrows DEF Calls, FormatAnswered, decoded, locks, queue
<1>5. CASE GetBuffer(t)
  BY <1>5, MadeGrows DEF Calls, GetBuffer, decoded, locks, queue
<1>6. CASE BufferAnswered(t)
  BY <1>6, MadeGrows DEF Calls, BufferAnswered, decoded, locks, queue
<1>7. CASE FinishSetup(t)
  BY <1>7, MadeGrows DEF Calls, FinishSetup, decoded, locks, queue
<1>8. CASE FinishSetupLockHw(t) \/ FinishSetupAsync(t)
  BY <1>8, MadeGrows DEF Calls, FinishSetupLockHw, FinishSetupAsync, decoded, locks, queue
<1>9. CASE SetupFinished(t)
  BY <1>9, MadeGrows DEF Calls, SetupFinished, decoded, locks, queue
<1>10. CASE Report(t)
  BY <1>10, MadeGrows DEF Calls, Report, decoded, locks, queue
<1>11. CASE Await(t)
  BY <1>11, MadeGrows DEF Calls, Await, decoded, locks, queue
<1>12. CASE ReleaseBuffer(t)
  BY <1>12, MadeGrows DEF Calls, ReleaseBuffer, decoded, locks, queue
<1>13. CASE Return(t)
  BY <1>13, MadeGrows DEF Calls, Return, decoded, locks, queue, OwedInRing, Returned, Results
<1>14. CASE Unserialize(t)
  BY <1>14, MadeGrows DEF Calls, Unserialize, decoded, locks, queue
<1>15. CASE Done(t)
  BY <1>15, MadeGrows DEF Calls, Done, decoded, locks, queue
<1>16. QED
  BY <1>1, <1>2, <1>3, <1>4, <1>5, <1>6, <1>7, <1>8, <1>9, <1>10, <1>11, <1>12, <1>13, <1>14, <1>15 DEF Worker

\* A worker's step keeps the ring: what is pending only gets less.
LEMMA RingWorker ==
    ASSUME FrameTypes, Phases, RingInv, NEW t \in Threads, Worker(t)
    PROVE  RingInv'
<1>1. /\ UNCHANGED <<pkt, user, nextDecoding, nextFinished, delaying>>
      /\ RingTypes'
      /\ client'.last = client.last /\ client'.next = client.next
      /\ client'.drain = client.drain
      /\ \A q \in Threads \ {t} : state'[q] = state[q] /\ result'[q] = result[q]
                                  /\ made'[q] = made[q]
      /\ state[t] = "INPUT_READY" =>
           state'[t] = "INPUT_READY" /\ result' = result /\ client' = client
      /\ \/ UNCHANGED <<result, client>>
            /\ ("return" \in made[t] => "return" \in made'[t] \/ state'[t] = "INPUT_READY")
         \/ /\ state'[t] # "INPUT_READY" /\ "return" \in made'[t]
            /\ result[t] # "frame"
            /\ client'.owed = IF result'[t] = "frame" THEN client.owed \cup {pkt[t]}
                                                      ELSE client.owed
  BY WorkerInRing DEF RingInv
<1>2. \A q \in Threads : Pending(q)' => Pending(q)
  BY <1>1 DEF Pending
<1>3. Filled' = Filled /\ \A q \in Threads : Behind(q)' = Behind(q)
      /\ Behind(user.p)' = Behind(user.p)
  BY <1>1 DEF Filled, Behind, Distance
<1>4. InRing'
  BY <1>1, <1>2, <1>3 DEF RingInv, InRing
<1>5. CallAt'
  BY <1>1, <1>2, <1>3 DEF RingInv, CallAt
<1>6. OwedInRing'
  BY <1>1 DEF RingInv, OwedInRing
<1>7. QED
  BY <1>1, <1>4, <1>5, <1>6 DEF RingInv


\* A step of the user's thread that neither submits nor collects, and empties
\* contexts at most, keeps what is in the ring.
LEMMA RingQuiet ==
    ASSUME RingInv, UNCHANGED <<pkt, made, nextDecoding, nextFinished, delaying>>,
           client'.next = client.next /\ client'.last = client.last,
           \A q \in Threads : /\ state'[q] # "INPUT_READY" <=> state[q] # "INPUT_READY"
                              /\ result'[q] # "none" => result[q] # "none",
           \A q \in Threads : Behind(q) < Filled => Behind(q) < Filled'
    PROVE  InRing' /\ \A t \in Threads : Pending(t)' => Pending(t)
<1>1. \A q \in Threads : Pending(q)' => Pending(q)
  BY DEF Pending
<1>2. \A q \in Threads : Behind(q)' = Behind(q)
  BY DEF Behind, Distance
<1>3. QED
  BY <1>1, <1>2 DEF RingInv, InRing

\* The contexts of a ring that is not being collected from are filled up to
\* nextDecoding.
LEMMA FilledElsewhere ==
    ASSUME user.pc # "serve", user.pc # "collect" \/ delaying, nextDecoding # N
    PROVE  Filled = Behind(nextDecoding)
BY DEF Filled

\* The user's thread keeps the ring: a packet is put behind all that are pending,
\* and what is collected is the first of them, or all have been gone past.
LEMMA RingUser ==
    ASSUME LockInv, RingInv, UsersStep
    PROVE  RingInv'
<1> USE DEF UserAt, UserGo
<1>a. /\ UserType /\ Places /\ FrameTypes /\ N \in Nat /\ N # 0 /\ 0 \in Threads
      /\ RingTypes /\ InRing /\ CallAt /\ OwedInRing
  BY NAssumption DEF LockInv, RingInv, NAssumption, Threads
<1>b. nextDecoding # N => /\ nextDecoding \in Threads
                          /\ Behind(nextDecoding) \in 0 .. N - 1
  BY <1>a, DistanceType DEF Places, Threads, Behind
<1>c. ASSUME UNCHANGED <<state, pkt, made, result, client, nextDecoding, nextFinished,
                         delaying>>,
             nextDecoding # N, Filled' = Behind(nextDecoding),
             user.pc \notin {"serve", "collect"}, user'.pc \notin {"serve", "collect"},
             user'.pc \in {"lock", "release", "prev"} =>
               user.pc \in {"lock", "release", "prev"} /\ user'.p = user.p,
             user'.pc \in {"idle", "finish", "unpark"} =>
               user.pc \in InContext \cup {"idle", "finish", "unpark"}
      PROVE  RingInv'
  <2>1. Filled' = Filled
    BY <1>c, FilledElsewhere
  <2>2. InRing'
    BY <1>c, <2>1, RingQuiet
  <2>3. RingTypes' /\ CallAt'
    BY <1>a, <1>c DEF RingTypes, CallAt
  <2>4. OwedInRing'
    BY <1>a, <1>c DEF OwedInRing, InContext
  <2>5. QED
    BY <2>2, <2>3, <2>4 DEF RingInv
<1>d. UNCHANGED <<nextDecoding, nextFinished>> => Behind(nextDecoding)' = Behind(nextDecoding)
  BY DEF Behind, Distance
<1>1. CASE Lock \/ ReleaseDelayed
  <2>1. /\ UNCHANGED <<state, pkt, made, result, client, nextDecoding, nextFinished, delaying>>
        /\ user.pc \in {"lock", "release"} /\ user'.pc \in {"release", "prev"}
        /\ user'.p = user.p
    BY <1>1, <1>a DEF Lock, ReleaseDelayed, decoded, queue, UserType
  <2>2. nextDecoding # N
    BY <1>a, <2>1 DEF Places
  <2>3. Filled' = Behind(nextDecoding)
    BY <1>d, <2>1, <2>2 DEF Filled
  <2>4. QED
    BY <1>c, <2>1, <2>2, <2>3
<1>2. CASE Finish \/ Unpark \/ AllParked \/ Join \/ \E why \in {"flush", "free"} : Park(why)
  <2>1. /\ UNCHANGED <<state, pkt, made, result, client, nextDecoding, nextFinished, delaying>>
        /\ user.pc \notin {"serve", "collect"}
        /\ user'.pc \notin {"lock", "release", "prev", "serve", "collect"}
        /\ user'.pc \in {"idle", "finish", "unpark"} => user.pc \in {"idle", "finish", "unpark"}
    BY <1>2, <1>a DEF Finish, Unpark, AllParked, Join, Park, decoded, queue, UserType
  <2>2. nextDecoding # N
    BY <1>a, <2>1 DEF Places
  <2>3. Filled' = Behind(nextDecoding)
    BY <1>d, <2>1, <2>2 DEF Filled
  <2>4. QED
    BY <1>c, <2>1, <2>2, <2>3
<1>3. CASE AwaitPrev \/ AwaitOutput \/ Kill
  <2>1. UNCHANGED <<state, pkt, made, result, client, user, nextDecoding, nextFinished, delaying>>
    BY <1>3 DEF AwaitPrev, AwaitOutput, Kill, decoded, queue
  <2>2. UNCHANGED Filled /\ UNCHANGED Behind(user.p)
    BY <2>1 DEF Filled, Behind, Distance
  <2>3. InRing' /\ \A t \in Threads : Pending(t)' => Pending(t)
    BY <2>1, <2>2, RingQuiet
  <2>4. \A t \in Threads : Behind(t)' = Behind(t)
    BY <2>1 DEF Behind, Distance
  <2>5. CallAt'
    BY <1>a, <2>1, <2>2, <2>3, <2>4 DEF CallAt
  <2>6. RingTypes' /\ OwedInRing'
    BY <1>a, <2>1 DEF RingTypes, OwedInRing
  <2>7. QED
    BY <2>3, <2>5, <2>6 DEF RingInv
<1>4. CASE Serve
  <2>1. /\ UNCHANGED <<pkt, made, result, client, user, nextDecoding, nextFinished, delaying>>
        /\ user.pc = "serve"
        /\ \A t \in Threads : state'[t] = "INPUT_READY" <=> state[t] = "INPUT_READY"
    BY <1>4, <1>a DEF Serve, decoded, queue, FrameTypes
  <2>2. UNCHANGED Filled
    BY <2>1 DEF Filled, Behind, Distance
  <2>3. InRing'
    BY <2>1, <2>2, RingQuiet
  <2>4. RingTypes' /\ OwedInRing' /\ CallAt'
    BY <1>a, <2>1 DEF RingTypes, OwedInRing, CallAt
  <2>5. QED
    BY <2>3, <2>4 DEF RingInv
<1>5. ASSUME NEW size \in BOOLEAN, Decode(size)
      PROVE  RingInv'
  <2>1. /\ UNCHANGED <<state, pkt, made, result, nextDecoding, nextFinished, delaying>>
        /\ user.pc = "idle"
        /\ \/ user'.pc = "lock" /\ user'.p = nextDecoding
           \/ user'.pc = "collect" /\ user'.p = nextFinished /\ ~user'.size
    BY <1>5, <1>a DEF Decode, decoded, queue, UserType
  <2>2. /\ client'.next = client.next /\ client'.last = client.last
        /\ client'.owed = client.owed /\ client'.drain \in {"no", "on"}
        /\ RingTypes'
    BY <1>5, <1>a, <2>1 DEF Decode, RingTypes, Drains
  <2>3. nextDecoding # N /\ Filled = Behind(nextDecoding)
    BY <1>a, <2>1, FilledElsewhere DEF Places
  <2>4. Filled' \in {Behind(nextDecoding), N}
    BY <1>d, <2>1, <2>3 DEF Filled
  <2>5. \A q \in Threads : Behind(q) < Filled => Behind(q) < Filled'
    BY <1>a, <1>b, <2>3, <2>4, DistanceType DEF Behind, Places
  <2>6. InRing'
    BY <2>1, <2>2, <2>5, RingQuiet
  <2>7. \A t \in Threads : ~(Behind(t) < Behind(nextFinished))
    BY <1>a, DistanceType DEF Behind, Places
  <2>8. \A t \in Threads : user'.pc = "collect" => ~(Behind(t)' < Behind(user.p)')
    BY <2>1, <2>7 DEF Behind, Distance
  <2>9. CallAt'
    BY <1>a, <2>1, <2>8 DEF CallAt
  <2>10. OwedInRing'
    BY <1>a, <2>1, <2>2 DEF OwedInRing, InContext
  <2>11. QED
    BY <2>2, <2>6, <2>9, <2>10 DEF RingInv
<1>6. CASE Parked
  <2>1. /\ UNCHANGED <<state, pkt, made, client, nextDecoding, nextFinished, delaying>>
        /\ user.pc = "park" /\ user'.pc = "park"
        /\ result' \in [Threads -> Results]
        /\ \A t \in Threads : /\ result'[t] # "none" => result[t] # "none"
                              /\ result'[t] = "frame" => result[t] = "frame"
    BY <1>6, <1>a DEF Parked, decoded, queue, UserType, RingTypes, Results
  <2>2. nextDecoding # N /\ UNCHANGED Filled
    BY <1>a, <1>d, <2>1 DEF Places, Filled
  <2>3. InRing'
    BY <2>1, <2>2, RingQuiet
  <2>4. RingTypes' /\ OwedInRing' /\ CallAt'
    BY <1>a, <2>1 DEF RingTypes, OwedInRing, CallAt, InContext
  <2>5. QED
    BY <2>3, <2>4 DEF RingInv
<1>7. CASE Flush
  <2>1. /\ UNCHANGED <<state, pkt, made>>
        /\ user.pc = "flush" /\ user'.pc = "idle"
        /\ nextDecoding' = 0 /\ nextFinished' = 0 /\ delaying' = TRUE
        /\ result' = [t \in Threads |-> "none"]
        /\ client' = [client EXCEPT !.drain = "no", !.last = client.next - 1,
                                    !.owed = {}, !.flushes = @ + 1]
    BY <1>7, <1>a DEF Flush, UserType
  <2>2. client.next \in Nat /\ client.last \in Nat /\ client.last < client.next
    BY <1>a DEF RingTypes, InRing
  <2>3. /\ client'.last = client.next - 1 /\ client'.next = client.next
        /\ client'.last < client'.next /\ client'.last \in Nat
        /\ client'.drain = "no" /\ client'.owed = {}
    BY <1>a, <2>1, <2>2 DEF RingTypes
  <2>4. RingTypes'
    <3>1. result' \in [Threads -> Results] /\ {} \in SUBSET Nat /\ "no" \in Drains
      BY <2>1 DEF Results, Drains
    <3>2. /\ client \in [next : Nat, last : Nat, owed : SUBSET Nat, drain : Drains,
                         flushes : Nat]
          /\ client.next - 1 \in Nat /\ client.flushes + 1 \in Nat
      BY <1>a, <2>2 DEF RingTypes
    <3>3. client' \in [next : Nat, last : Nat, owed : SUBSET Nat, drain : Drains,
                       flushes : Nat]
      BY <2>1, <3>1, <3>2
    <3>4. QED
      BY <1>a, <2>1, <3>1, <3>3 DEF RingTypes
  <2>5. \A t \in Threads : ~Pending(t)'
    BY <1>a, <2>1 DEF LockInv, ParkedSoFar, Pending
  <2>6. InRing' /\ CallAt' /\ OwedInRing'
    BY <1>a, <2>1, <2>3, <2>5 DEF InRing, CallAt, OwedInRing, InContext
  <2>7. QED
    BY <2>4, <2>6 DEF RingInv
<1>8. CASE Submit
  <2> DEFINE p == user.p
  <2>1. /\ UNCHANGED <<result, nextDecoding, nextFinished, delaying>>
        /\ user.pc = "prev" /\ user'.p = p /\ p = nextDecoding /\ p \in Threads
        /\ \/ user'.pc = "finish" /\ UNCHANGED <<state, pkt, made, client>>
           \/ /\ user'.pc = "serve"
              /\ pkt' = [pkt EXCEPT ![p] = client.next]
              /\ client' = [client EXCEPT !.next = @ + 1]
              /\ made' = [made EXCEPT ![p] = IF user.size THEN {} ELSE {"empty"}]
              /\ state' = [state EXCEPT ![p] = "SETTING_UP"]
    BY <1>8, <1>a DEF Submit, queue, UserType, Places, InContext, CallAt
  <2>2. nextDecoding # N /\ Filled = Behind(p)
    BY <1>a, <2>1, FilledElsewhere DEF Places
  <2>3. CASE user'.pc = "finish"
    <3>1. UNCHANGED <<state, pkt, made, client>>
      BY <2>1, <2>3
    <3>2. Filled' = Behind(nextDecoding)
      BY <1>d, <2>1, <2>2, <2>3 DEF Filled
    <3>3. QED
      BY <1>c, <2>1, <2>2, <2>3, <3>1, <3>2 DEF InContext
  <2>4. CASE user'.pc = "serve"
    <3>1. ~Pending(p)
      BY <1>a, <1>b, <2>1, <2>2 DEF InRing
    <3>2. /\ client.next \in Nat /\ client'.next = client.next + 1
          /\ client'.last = client.last /\ client'.last \in Nat
          /\ client'.drain = client.drain /\ client'.owed = client.owed
          /\ client' \in [next : Nat, last : Nat, owed : SUBSET Nat, drain : Drains,
                          flushes : Nat]
      BY <1>a, <2>1, <2>4 DEF RingTypes
    <3>3. RingTypes'
      BY <1>a, <2>1, <2>4, <3>2 DEF RingTypes, Calls
    <3>4. \A t \in Threads : /\ Pending(t)' => Pending(t) \/ t = p
                             /\ Behind(t)' = Behind(t)
      BY <1>a, <2>1, <2>4 DEF Pending, Behind, Distance, FrameTypes
    <3>5. Filled' = Behind(p) + 1
      BY <1>d, <2>1, <2>4 DEF Filled
    <3>6. \A t \in Threads : Behind(t) \in 0 .. N - 1
      BY <1>a, DistanceType DEF Behind, Places
    <3>7. \A t \in Threads : Pending(t)' => Behind(t)' < Filled'
      BY <1>a, <2>1, <2>2, <3>4, <3>5, <3>6 DEF InRing
    <3>8. \A t \in Threads : /\ t # p => pkt'[t] = pkt[t] /\ pkt[t] \in Nat
                             /\ t = p => pkt'[t] = client.next
      BY <1>a, <2>1, <2>4 DEF RingTypes
    <3>9. \A t \in Threads : Pending(t)' => client'.last < pkt'[t] /\ pkt'[t] < client'.next
      BY <1>a, <2>1, <3>2, <3>4, <3>8 DEF InRing
    <3>10. \A t, q \in Threads : Pending(t)' /\ Pending(q)' /\ Behind(t) < Behind(q)
                                   => pkt'[t] < pkt'[q]
      <4>1. ASSUME NEW t \in Threads, NEW q \in Threads, Pending(t)', Pending(q)',
                   Behind(t) < Behind(q)
            PROVE  pkt'[t] < pkt'[q]
        <5>1. t # p
          BY <1>a, <2>1, <2>2, <3>4, <3>6, <4>1 DEF InRing
        <5>2. Pending(t)
          BY <3>4, <4>1, <5>1
        <5>3. QED
          BY <1>a, <3>4, <3>8, <4>1, <5>1, <5>2 DEF InRing
      <4>2. QED
        BY <4>1
    <3>11. InRing'
      BY <1>a, <3>2, <3>4, <3>7, <3>9, <3>10 DEF InRing
    <3>12. CallAt'
      BY <1>a, <2>1, <2>4 DEF CallAt
    <3>13. OwedInRing'
      BY <1>a, <2>1, <2>4, <3>1, <3>2, <3>8 DEF OwedInRing, InContext, FrameTypes, Pending,
         RingTypes
    <3>14. QED
      BY <3>3, <3>11, <3>12, <3>13 DEF RingInv
  <2>5. QED
    BY <2>1, <2>3, <2>4
<1>9. CASE Submitted
  <2>1. /\ UNCHANGED <<state, pkt, made, result, client, nextFinished>>
        /\ user.pc = "serve" /\ user'.size = user.size
        /\ nextDecoding' = nextDecoding + 1
        /\ delaying' => delaying /\ nextDecoding' <= N - 1 - setup.early
        /\ \/ user'.pc = "finish" /\ delaying'
           \/ /\ user'.pc = "collect" /\ user'.p = nextFinished
              /\ delaying' => ~user.size
    BY <1>9, <1>a DEF Submitted, decoded, UserType
  <2>2. setup.early \in {0, 1}
    BY <1>a, SetupsAssumption DEF SetupsAssumption, FrameTypes
  <2>3. nextDecoding \in 0 .. N - 1 /\ nextFinished \in 0 .. N - 1
    BY <1>a, <2>1 DEF Places, Threads
  <2>4. delaying' => nextFinished <= nextDecoding' /\ nextDecoding' # N
    BY <1>a, <2>1, <2>2, <2>3 DEF CallAt
  <2>5. Filled = Behind(nextDecoding) + 1
    BY <2>1 DEF Filled
  <2>6. \A t \in Threads : Behind(t)' = Behind(t) /\ (Pending(t)' <=> Pending(t))
    BY <2>1 DEF Behind, Distance, Pending
  <2>7. Filled' = Filled
    <3>1. CASE delaying'
      <4>1. nextDecoding + 1 < N /\ nextFinished <= nextDecoding
        BY <1>a, <2>1, <2>2, <2>3, <3>1 DEF CallAt
      <4>2. Filled' = Behind(nextDecoding)'
        BY <2>1, <2>4, <3>1, FilledElsewhere DEF Filled
      <4>3. QED
        BY <1>a, <2>1, <2>3, <2>5, <4>1, <4>2 DEF Behind, Distance
    <3>2. CASE ~delaying'
      <4>1. user'.pc = "collect"
        BY <2>1, <3>2
      <4>2. Filled' = IF nextDecoding + 1 \in {nextFinished, nextFinished + N} THEN N
                      ELSE Distance(nextFinished,
                                    IF nextDecoding + 1 = N THEN 0 ELSE nextDecoding + 1)
        BY <2>1, <3>2, <4>1 DEF Filled, Behind, Distance
      <4>3. QED
        BY <1>a, <2>3, <2>5, <4>2 DEF Behind, Distance
    <3>3. QED
      BY <3>1, <3>2
  <2>8. InRing'
    BY <1>a, <2>1, <2>6, <2>7 DEF InRing
  <2>9. \A t \in Threads : ~(Behind(t)' < Behind(nextFinished)')
    BY <1>a, <2>1, DistanceType DEF Behind, Places, Distance
  <2>10. CallAt'
    BY <1>a, <2>1, <2>4, <2>9 DEF CallAt
  <2>11. RingTypes' /\ OwedInRing'
    BY <1>a, <2>1 DEF RingTypes, OwedInRing, InContext
  <2>12. QED
    BY <2>8, <2>10, <2>11 DEF RingInv
<1>10. CASE Collect
  <2> DEFINE p == user.p
             after == (p + 1) % N
  <2>1. /\ UNCHANGED <<state, pkt, made, delaying>>
        /\ user.pc = "collect" /\ user'.size = user.size /\ p \in Threads
        /\ state[p] = "INPUT_READY" /\ result' = [result EXCEPT ![p] = "none"]
        /\ \/ /\ Skipped(p) /\ user'.p = after /\ user'.pc = "collect"
              /\ UNCHANGED <<nextFinished, nextDecoding>>
           \/ /\ ~Skipped(p) /\ user'.pc = "finish"
              /\ nextFinished' = after
              /\ nextDecoding' = IF nextDecoding >= N THEN 0 ELSE nextDecoding
    BY <1>10, <1>a DEF Collect, ResultTaken, UserType, Places, InContext
  <2>2. client' = [client EXCEPT
                    !.last = IF result[p] = "frame" THEN pkt[p] ELSE @,
                    !.owed = @ \ {pkt[p]},
                    !.drain = IF ~user.size /\ result[p] = "none" /\ ~Skipped(p)
                              THEN "done" ELSE @]
    BY <1>10 DEF Collect
  <2>3. /\ client'.next = client.next /\ client'.owed = client.owed \ {pkt[p]}
        /\ client'.last = IF result[p] = "frame" THEN pkt[p] ELSE client.last
        /\ client'.drain = IF ~user.size /\ result[p] = "none" /\ ~Skipped(p)
                           THEN "done" ELSE client.drain
        /\ RingTypes'
    <3>1. /\ client \in [next : Nat, last : Nat, owed : SUBSET Nat, drain : Drains,
                         flushes : Nat]
          /\ pkt[p] \in Nat /\ "done" \in Drains /\ "none" \in Results
          /\ result \in [Threads -> Results]
      BY <1>a, <2>1 DEF RingTypes, Drains, Results
    <3>2. client' \in [next : Nat, last : Nat, owed : SUBSET Nat, drain : Drains,
                       flushes : Nat]
      BY <2>2, <3>1
    <3>3. result' \in [Threads -> Results]
      BY <2>1, <3>1
    <3>4. QED
      BY <1>a, <2>1, <2>2, <3>1, <3>2, <3>3 DEF RingTypes
  <2>4. /\ nextFinished \in Threads /\ after \in Threads
        /\ \A t \in Threads : Behind(t) \in 0 .. N - 1
        /\ \A t \in Threads : Behind(t) = Behind(p) => t = p
    BY <1>a, <2>1, DistanceType, DistanceNext DEF Places, Behind
  <2>5. \A t \in Threads : /\ Pending(t)' <=> Pending(t) /\ t # p
                           /\ Pending(t)' => Behind(t) > Behind(p)
    <3>1. \A t \in Threads : Pending(t)' <=> Pending(t) /\ t # p
      BY <1>a, <2>1 DEF Pending, RingTypes
    <3>2. \A t \in Threads : Pending(t) => ~(Behind(t) < Behind(p))
      BY <1>a, <2>1 DEF CallAt
    <3>3. QED
      BY <1>a, <2>1, <2>4, <3>1, <3>2
  <2>6. /\ client'.last < client'.next
        /\ \A t \in Threads : Pending(t)' => client'.last < pkt[t]
    <3>1. result[p] = "frame" => Pending(p)
      BY DEF Pending
    <3>2. QED
      BY <1>a, <2>1, <2>3, <2>5, <3>1 DEF InRing
  <2>7. OwedInRing'
    <3>1. \A k \in client'.owed : \E t \in Threads : result'[t] = "frame" /\ pkt'[t] = k
      BY <1>a, <2>1, <2>3 DEF OwedInRing, RingTypes, InContext
    <3>2. \A t \in Threads : state'[t] # "INPUT_READY" /\ result'[t] = "frame"
                                => "return" \in made'[t]
      BY <1>a, <2>1 DEF OwedInRing, RingTypes
    <3>3. client.drain # "done"
      BY <1>a, <2>1 DEF OwedInRing, InContext
    <3>4. ASSUME client'.drain = "done"
          PROVE  /\ user'.pc = "finish" /\ client'.owed = {}
                 /\ \A t \in Threads : state'[t] = "INPUT_READY"
      <4>1. after = nextFinished /\ ~Skipped(p)
        BY <2>3, <3>3, <3>4 DEF Skipped
      <4>2. Behind(p) = N - 1
        BY <2>1, <2>4, <4>1, DistanceNext DEF Behind
      <4>3. \A t \in Threads : ~Pending(t)'
        BY <1>a, <2>1, <2>4, <2>5, <4>2
      <4>4. QED
        BY <2>1, <3>1, <4>1, <4>3 DEF Pending
    <3>5. QED
      BY <2>1, <3>1, <3>2, <3>3, <3>4, <2>3 DEF OwedInRing, InContext
  <2>8. CASE Skipped(p)
    <3>1. /\ user'.p = after /\ user'.pc = "collect" /\ ~user.size
          /\ UNCHANGED <<nextFinished, nextDecoding>> /\ after # nextFinished
      BY <2>1, <2>8 DEF Skipped
    <3>2. /\ UNCHANGED Filled
          /\ \A t \in Threads : Behind(t)' = Behind(t)
          /\ Behind(user.p)' = Behind(p) + 1
      BY <2>1, <2>4, <3>1, DistanceNext DEF Filled, Behind, Distance
    <3>3. InRing'
      BY <1>a, <2>1, <2>3, <2>5, <2>6, <3>2 DEF InRing
    <3>4. CallAt'
      BY <1>a, <2>1, <2>4, <2>5, <3>1, <3>2 DEF CallAt
    <3>5. QED
      BY <2>3, <2>7, <3>3, <3>4 DEF RingInv
  <2>9. CASE ~Skipped(p)
    <3>1. /\ user'.pc = "finish" /\ nextFinished' = after
          /\ nextDecoding' = IF nextDecoding >= N THEN 0 ELSE nextDecoding
      BY <2>1, <2>9
    <3>2. \A t \in Threads :
            Behind(t)' = IF Behind(t) > Behind(p) THEN Behind(t) - Behind(p) - 1
                                                  ELSE Behind(t) - Behind(p) - 1 + N
      BY <2>1, <2>4, <3>1, DistanceAfter DEF Behind, Distance
    <3>3. /\ nextDecoding' \in Threads
          /\ nextDecoding' = IF nextDecoding = N THEN 0 ELSE nextDecoding
      BY <1>a, <3>1 DEF Places, Threads
    <3>4. Filled' = Behind(nextDecoding)'
      BY <3>1, <3>3 DEF Filled, Behind, Distance, Threads
    <3>5. \A t \in Threads : Pending(t)' => Behind(t)' < Filled'
      <4>1. ASSUME NEW t \in Threads, Pending(t)'
            PROVE  Behind(t)' < Filled'
        <5>1. Behind(t) > Behind(p) /\ Behind(t) < Filled
          BY <1>a, <2>5, <4>1 DEF InRing
        <5>2. Filled = Behind(nextDecoding') \/ nextDecoding' = nextFinished
          BY <1>a, <2>1, <3>3 DEF Filled, Places, Threads
        <5>3. /\ Behind(t)' = Behind(t) - Behind(p) - 1
              /\ Behind(t) \in 0 .. N - 1 /\ Behind(p) \in 0 .. N - 1
          BY <2>1, <2>4, <3>2, <5>1
        <5>4. CASE nextDecoding' = nextFinished
          <6>1. Filled' = N - 1 - Behind(p)
            <7>1. Distance(nextFinished, nextFinished) = 0
              BY <2>4, DistanceType
            <7>2. Distance(after, nextFinished) = 0 - Behind(p) - 1 + N
              BY <1>a, <2>1, <2>4, <5>3, <7>1, DistanceAfter DEF Behind
            <7>3. QED
              BY <1>a, <3>1, <3>4, <5>3, <5>4, <7>2 DEF Behind
          <6>2. QED
            BY <1>a, <5>3, <6>1
        <5>5. CASE Filled = Behind(nextDecoding')
          <6>1. Behind(nextDecoding') > Behind(p)
            BY <2>4, <3>3, <5>1, <5>3, <5>5
          <6>2. Filled' = Behind(nextDecoding') - Behind(p) - 1
            BY <2>1, <2>4, <3>1, <3>3, <3>4, <6>1, DistanceAfter DEF Behind
          <6>3. QED
            BY <2>4, <3>3, <5>1, <5>3, <5>5, <6>2
        <5>6. QED
          BY <5>2, <5>4, <5>5
      <4>2. QED
        BY <4>1
    <3>6. \A t, q \in Threads : Pending(t)' /\ Pending(q)' /\ Behind(t)' < Behind(q)'
                                  => Behind(t) < Behind(q)
      BY <2>1, <2>4, <2>5, <3>2
    <3>7. InRing'
      BY <1>a, <2>1, <2>3, <2>5, <2>6, <3>5, <3>6 DEF InRing
    <3>8. delaying => nextFinished' <= nextDecoding' /\ nextDecoding' # N
      <4>1. ASSUME delaying
            PROVE  nextFinished' <= nextDecoding' /\ nextDecoding' # N
        <5>1. /\ nextFinished <= nextDecoding /\ nextDecoding # N /\ ~user.size
              /\ nextDecoding' = nextDecoding /\ Filled = Behind(nextDecoding)
          BY <1>a, <2>1, <3>3, <4>1, FilledElsewhere DEF CallAt, UserType
        <5>2. CASE Pending(p)
          <6>1. Behind(p) < Behind(nextDecoding)
            BY <1>a, <2>1, <5>1, <5>2 DEF InRing
          <6>2. QED
            BY <1>a, <2>1, <2>4, <3>1, <3>3, <5>1, <6>1, After DEF Behind, Distance, Threads
        <5>3. CASE ~Pending(p)
          <6>1. after = nextFinished
            BY <2>9, <5>1, <5>3 DEF Skipped, Pending
          <6>2. QED
            BY <3>1, <5>1, <6>1
        <5>4. QED
          BY <5>2, <5>3
      <4>2. QED
        BY <4>1
    <3>9. CallAt'
      BY <2>1, <3>1, <3>8 DEF CallAt
    <3>10. QED
      BY <2>3, <2>7, <3>7, <3>9 DEF RingInv
  <2>10. QED
    BY <2>8, <2>9
<1>11. QED
  BY <1>1, <1>2, <1>3, <1>4, <1>5, <1>6, <1>7, <1>8, <1>9, <1>10 DEF UsersStep, UserStep

\* At first no packet is in the ring.
LEMMA RingInit == Init => RingInv
<1> SUFFICES ASSUME Init PROVE RingInv
  OBVIOUS
<1>1. N \in Nat /\ N # 0
  BY NAssumption DEF NAssumption
<1>2. /\ client = [next |-> 1, last |-> 0, owed |-> {}, drain |-> "no", flushes |-> 0]
      /\ user.pc \in {"idle", "unpark"} /\ nextFinished = 0 /\ nextDecoding = 0
  BY DEF Init
<1>3. RingTypes
  BY <1>2 DEF Init, RingTypes, Results, Drains, Calls
<1>4. \A t \in Threads : ~Pending(t)
  BY DEF Init, Pending
<1>5. InRing /\ CallAt /\ OwedInRing
  BY <1>1, <1>2, <1>4 DEF Init, InRing, CallAt, OwedInRing, InContext
<1>6. QED
  BY <1>3, <1>5 DEF RingInv

\* Every step keeps the ring in order.
LEMMA RingStep == LockInv /\ RingInv /\ [Next]_vars => RingInv'
<1> SUFFICES ASSUME LockInv, RingInv, [Next]_vars PROVE RingInv'
  OBVIOUS
<1>1. ASSUME NEW t \in Threads, Worker(t)
      PROVE  RingInv'
  BY <1>1, RingWorker DEF LockInv
<1>2. CASE UsersStep
  BY <1>2, RingUser
<1>3. CASE UNCHANGED vars
  BY <1>3 DEF vars, perThread, decoded, queue, RingInv, RingTypes, InRing, CallAt,
     OwedInRing, Filled, Behind, Distance, Pending
<1>4. QED
  BY <1>1, <1>2, <1>3 DEF Next, UsersStep

\* What the client has been given last changes when a frame is collected, which
\* comes after it, or when a seek has forgotten everything.
LEMMA LastGrows ==
    ASSUME LockInv, RingInv, [Next]_vars
    PROVE  client'.last # client.last => client'.last > client.last
<1>a. /\ client \in [next : Nat, last : Nat, owed : SUBSET Nat, drain : Drains,
                     flushes : Nat]
      /\ client.last < client.next
      /\ pkt \in [Threads -> Nat]
  BY DEF RingInv, RingTypes, InRing
<1>1. ASSUME NEW t \in Threads, Worker(t)
      PROVE  client'.last = client.last
  BY <1>1, WorkerInRing DEF LockInv, RingInv
<1>2. CASE Collect
  <2>1. /\ user.p \in Threads
        /\ client'.last = IF result[user.p] = "frame" THEN pkt[user.p] ELSE client.last
    BY <1>2, <1>a DEF Collect, UserAt, LockInv, Places, InContext
  <2>2. result[user.p] = "frame" => client.last < pkt[user.p]
    BY <2>1 DEF RingInv, InRing, Pending
  <2>3. QED
    BY <1>a, <2>1, <2>2
<1>3. CASE Flush
  <2>1. client'.last = client.next - 1
    BY <1>3, <1>a DEF Flush
  <2>2. QED
    BY <1>a, <2>1
<1>4. CASE Submit \/ \E size \in BOOLEAN : Decode(size)
  BY <1>4, <1>a DEF Submit, Decode
<1>5. CASE Lock \/ ReleaseDelayed \/ AwaitPrev \/ Serve \/ Submitted \/ AwaitOutput
  BY <1>5 DEF Lock, ReleaseDelayed, AwaitPrev, Serve, Submitted, AwaitOutput
<1>6. CASE \/ Finish \/ Unpark \/ Parked \/ AllParked \/ Kill \/ Join
           \/ \E why \in {"flush", "free"} : Park(why)
  BY <1>6 DEF Finish, Unpark, Parked, AllParked, Kill, Join, Park
<1>7. CASE UNCHANGED vars
  BY <1>7 DEF vars
<1>8. QED
  BY <1>1, <1>2, <1>3, <1>4, <1>5, <1>6, <1>7 DEF Next, UserStep

\* In every reachable state the pending contexts are a stretch of the ring in the
\* order of their packets (submit_packet, ff_thread_decode_frame).
THEOREM RingInOrder == Spec => []RingInv
BY LockInit, LockStep, RingInit, RingStep, PTL DEF Spec

\* The client is given frames in the order of the packets, each once and none from
\* before the last seek, with any number of threads, failures and drains.
THEOREM FramesAlwaysInOrder == Spec => FramesInOrder
<1>1. LockInv /\ RingInv /\ [Next]_vars
        => [client'.last # client.last => client'.last > client.last]_vars
  BY LastGrows
<1>2. QED
  BY <1>1, LocksAgree, RingInOrder, PTL DEF Spec, FramesInOrder

\* When draining reports the end of the stream the client has been given every
\* frame the codec produced since the last seek (the loop of
\* ff_thread_decode_frame over the contexts without a frame).
THEOREM DrainAlwaysComplete == Spec => []DrainIsComplete
<1>1. RingInv => DrainIsComplete
  BY DEF RingInv, OwedInRing, DrainIsComplete
<1>2. QED
  BY <1>1, RingInOrder, PTL

-----------------------------------------------------------------------------
(* Nobody waits in vain: in every state of a call some thread can go on.    *)

\* What decode() can do next: return, report its frame, or await the one before.
DecodeCan(t) ==
    /\ "return" \notin made[t]
    /\ \/ Returned(t) # {}
       \/ /\ "buffer" \in made[t] /\ "report" \notin made[t]
          /\ ref[t] # 0 => "await" \in made[t]
       \/ /\ "buffer" \in made[t] /\ {"await", "report"} \cap made[t] = {}
          /\ ref[t] # 0

\* What a worker needs for its next step, and what the user's thread needs.
WorkerCan(t) ==
    /\ Awake(t)
    /\ \/ worker[t] \in {"wait", "awaiting", "unserialize", "done"}
       \/ worker[t] = "decode" /\ DecodeCan(t)
       \/ worker[t] = "locking" /\ mutex[t] = None
       \/ worker[t] = "lock_hw" /\ hwLock = None
       \/ worker[t] \in {"in_format", "in_buffer"} /\ state[t] = "SETTING_UP"
       \/ /\ worker[t] = "finish_setup"
          /\ hwaccel[t] /\ ~hwSer[t] => hwLock = None
          /\ hwaccel[t] /\ hwSer[t] /\ setup.hw = "serial" /\ ~asyncSer[t] => AsyncFree
UserCan ==
    /\ Awake(User)
    /\ \/ user.pc \in {"prev", "serve", "collect", "unpark"}
       \/ user.pc = "lock" /\ mutex[user.p] = None
       \/ user.pc \in {"release", "flush"} /\ bufLock = None
       \/ user.pc = "finish" /\ AsyncFree
       \/ user.pc = "park" /\ (user.p \in Threads \/ AsyncFree)
       \/ user.pc = "free" /\ ~die[user.p] /\ mutex[user.p] = None
       \/ user.pc = "free" /\ die[user.p] /\ worker[user.p] = "exited" /\ bufLock = None

NeverStuck ==
    user.pc \notin {"idle", "freed"} => UserCan \/ \E t \in Threads : WorkerCan(t)

Asking == {"GET_BUFFER", "GET_FORMAT"}
InSetup == {"SETTING_UP"} \cup Asking

\* Who holds the mutex of a context, and from where on a lock is held.
MutexHeld(t) ==
    \/ mutex[t] = t /\ worker[t] \notin {"locking", "exited"}
    \/ mutex[t] = None /\ worker[t] \in {"locking", "exited"}
    \/ /\ mutex[t] = User /\ worker[t] \in {"locking", "exited"}
       /\ user.pc \in {"release", "prev"} /\ user.p = t
LocksHeld ==
    /\ bufLock \in Threads \cup {None}
    /\ \A t \in Threads :
         /\ MutexHeld(t)
         /\ worker[t] = "in_buffer" <=> bufLock = t
         /\ hwSer[t] => worker[t] \in Working \ {"lock_hw", "done"}
AsyncHeld ==
    asyncLock /\ user.pc \notin HasAsync => \E t \in Threads : asyncSer[t]

\* How far the codec is with its packet.
Stage(t) ==
    /\ worker[t] \in Parking \cup {"lock_hw"} => made[t] \subseteq {"empty"}
    /\ worker[t] \in {"decode", "in_format", "in_buffer", "awaiting"} =>
         "return" \notin made[t]
    /\ worker[t] = "finish_setup" =>
         state[t] = "SETTING_UP" /\ {"finish", "return"} \cap made[t] # {}
    /\ setup.update /\ worker[t] \in Working /\ {"finish", "return"} \cap made[t] = {} =>
         state[t] # "SETUP_FINISHED"
    /\ state[t] \in Asking => worker[t] \in {"in_format", "in_buffer"}
    /\ worker[t] \in {"in_format", "in_buffer"} => state[t] \in InSetup
    /\ worker[t] = "lock_hw" => setup.update
Stages == \A t \in Threads : Stage(t)

\* Workers end when the contexts are freed, and no context has a packet then.
Ends ==
    /\ die \in [Threads -> BOOLEAN]
    /\ \A t \in Threads :
         /\ die[t] => user.pc \in {"free", "freed"}
         /\ worker[t] = "exited" =>
              /\ state[t] = "INPUT_READY" /\ user.why = "free"
              /\ user.pc \in {"unpark", "park", "free", "freed"}
    /\ user.pc \in {"free", "freed"} =>
         user.why = "free" /\ \A t \in Threads : state[t] = "INPUT_READY"
    /\ user.pc = "free" => user.p \in Threads

\* The context submit_packet is at, or was at last, has the last packet; and a codec
\* refers to earlier ones.
Newest == IF user.pc = "serve" THEN user.p ELSE prev
Numbered ==
    /\ ref \in [Threads -> Nat]
    /\ \A t \in Threads :
         /\ pkt[t] < client.next /\ ref[t] < client.next
         /\ state[t] # "INPUT_READY" => ref[t] < pkt[t]
    /\ Newest # None => pkt[Newest] + 1 = client.next
\* With update_thread_context no other is in its set-up.
SetupInTurn ==
    setup.update => \A t \in Threads : state[t] \in InSetup => t = Newest

\* Who sleeps on which condition, and what for.
SleepsOnInput(x, t) ==
    x = t /\ worker[t] = "locking" /\ state[t] = "INPUT_READY" /\ ~die[t]
SleepsOnProgress(x, t) ==
    \/ x = t /\ worker[t] \in {"in_format", "in_buffer"} /\ state[t] \in Asking
    \/ x \in Threads /\ worker[x] = "awaiting" /\ t \in Owners(ref[x])
    \/ /\ x = User /\ state[t] = "SETTING_UP"
       /\ \/ user.pc = "prev" /\ prev = t
          \/ user.pc = "serve" /\ user.p = t
SleepsOnOutput(x, t) ==
    x = User /\ state[t] # "INPUT_READY" /\ user.pc \in {"collect", "park"} /\ user.p = t
InputSleepers ==
    /\ input \in [Threads -> SUBSET (Threads \cup {User})]
    /\ \A t \in Threads : \A x \in input[t] : SleepsOnInput(x, t)
ProgressSleepers ==
    /\ progress \in [Threads -> SUBSET (Threads \cup {User})]
    /\ \A t \in Threads : \A x \in progress[t] : SleepsOnProgress(x, t)
OutputSleepers ==
    /\ output \in [Threads -> SUBSET (Threads \cup {User})]
    /\ \A t \in Threads : \A x \in output[t] : SleepsOnOutput(x, t)

WakeInv ==
    /\ LocksHeld /\ AsyncHeld /\ Stages /\ Ends
    /\ Numbered /\ SetupInTurn
    /\ InputSleepers /\ ProgressSleepers /\ OutputSleepers

-----------------------------------------------------------------------------
(* Each part of that invariant. *)

\* Of one sleeper none is left after a signal.
LEMMA OneSignalled ==
    ASSUME NEW x, NEW S \in SUBSET {x}, NEW R \in Signalled(S)
    PROVE  R = {}
BY DEF Signalled

\* What a worker's step leaves as it is.
LEMMA WorkerAlone ==
    ASSUME FrameTypes, RingTypes, ref \in [Threads -> Nat], NEW t \in Threads, Worker(t)
    PROVE  /\ Awake(t) /\ UNCHANGED <<setup, user, prev, die, pkt>> /\ client'.next = client.next
           /\ ref' \in [Threads -> Nat]
           /\ \A q \in Threads \ {t} :
                /\ state'[q] = state[q] /\ worker'[q] = worker[q] /\ made'[q] = made[q]
                /\ ref'[q] = ref[q]
<1> USE DEF FrameTypes, RingTypes, At, Go, May, Made, Broadcast
<1>1. CASE GetBuffer(t)
  BY <1>1 DEF GetBuffer, TooLate, decoded, accel, locks, queue
<1>2. CASE BufferAnswered(t)
  BY <1>2 DEF BufferAnswered, decoded, accel, locks, queue
<1>3. CASE Await(t)
  BY <1>3 DEF Await, decoded, accel, locks, queue
<1>4. CASE Return(t)
  BY <1>4 DEF Return, Leave, decoded, accel, locks, queue
<1>5. CASE Done(t)
  BY <1>5 DEF Done, Frame, decoded, accel, locks, queue
<1>6. CASE WaitInput(t) \/ TakeMutex(t) \/ Exit(t)
  BY <1>6 DEF WaitInput, TakeMutex, Exit, decoded, accel, locks, queue
<1>7. CASE Begin(t) \/ LockHw(t) \/ GetFormat(t)
  BY <1>7 DEF Begin, LockHw, GetFormat, Chosen, decoded, accel, locks, queue
<1>8. CASE FormatAnswered(t) \/ FinishSetup(t) \/ FinishSetupLockHw(t)
  BY <1>8 DEF FormatAnswered, Chosen, FinishSetup, FinishSetupLockHw, decoded, accel,
     locks, queue
<1>9. CASE FinishSetupAsync(t) \/ SetupFinished(t) \/ Report(t)
  BY <1>9 DEF FinishSetupAsync, AsyncFree, SetupFinished, Leave, Report, decoded, accel,
     locks, queue
<1>10. CASE ReleaseBuffer(t) \/ Unserialize(t)
  BY <1>10 DEF ReleaseBuffer, Unserialize, decoded, accel, locks, queue
<1>11. QED
  BY <1>1, <1>2, <1>3, <1>4, <1>5, <1>6, <1>7, <1>8, <1>9, <1>10 DEF Worker

\* A worker holds its mutex from "wait" on, buffer_mutex while it asks for a buffer, and
\* the accelerator's lock until it has given it up.
LEMMA LocksHeldWorker ==
    ASSUME FrameTypes, Phases, LocksHeld, NEW t \in Threads, Worker(t)
    PROVE  LocksHeld'
<1> USE Names DEF FrameTypes, Parking, Working, At, Go, May, LocksHeld, MutexHeld
<1>1. CASE WaitInput(t)
  BY <1>1 DEF WaitInput, decoded, accel, locks
<1>2. CASE TakeMutex(t)
  BY <1>2 DEF TakeMutex, decoded, accel, locks
<1>3. CASE Exit(t)
  BY <1>3 DEF Exit, decoded, accel, locks
<1>4. CASE Begin(t)
  BY <1>4 DEF Begin, decoded, accel, locks
<1>5. CASE LockHw(t)
  BY <1>5 DEF LockHw, decoded, accel, locks
<1>6. CASE GetBuffer(t)
  BY <1>6 DEF GetBuffer, TooLate, decoded, accel, locks
<1>7. CASE BufferAnswered(t)
  BY <1>7 DEF BufferAnswered, decoded, accel, locks
<1>8. CASE SetupFinished(t)
  BY <1>8 DEF SetupFinished, Leave, decoded, accel, locks
<1>9. CASE Await(t)
  BY <1>9 DEF Await, decoded, accel, locks
<1>10. CASE Return(t)
  BY <1>10 DEF Return, Leave, decoded, accel, locks
<1>11. CASE Unserialize(t)
  BY <1>11 DEF Unserialize, decoded, accel, locks
<1>12. CASE Done(t)
  BY <1>12 DEF Done, decoded, accel, locks
<1>13. CASE GetFormat(t) \/ FormatAnswered(t) \/ FinishSetup(t)
  BY <1>13 DEF GetFormat, Chosen, FormatAnswered, FinishSetup, decoded, accel, locks
<1>14. CASE FinishSetupLockHw(t) \/ FinishSetupAsync(t) \/ Report(t)
  BY <1>14 DEF FinishSetupLockHw, FinishSetupAsync, AsyncFree, Report, decoded, accel,
     locks
<1>15. CASE ReleaseBuffer(t)
  BY <1>15 DEF ReleaseBuffer, decoded, accel, locks
<1>16. QED
  BY <1>1, <1>2, <1>3, <1>4, <1>5, <1>6, <1>7, <1>8, <1>9, <1>10, <1>11, <1>12, <1>13,
     <1>14, <1>15 DEF Worker

\* Whoever sets async_lock has the flag.
LEMMA AsyncHeldWorker ==
    ASSUME FrameTypes, AsyncHeld, NEW t \in Threads, Worker(t)
    PROVE  AsyncHeld'
<1> USE DEF FrameTypes, At, Go, May, AsyncHeld
<1>1. CASE FinishSetupAsync(t)
  BY <1>1 DEF FinishSetupAsync, AsyncFree, decoded, accel, locks, queue
<1>2. CASE Unserialize(t)
  BY <1>2 DEF Unserialize, decoded, accel, locks, queue
<1>3. CASE WaitInput(t) \/ TakeMutex(t) \/ Exit(t)
  BY <1>3 DEF WaitInput, TakeMutex, Exit, decoded, accel, locks, queue
<1>4. CASE Begin(t) \/ LockHw(t) \/ GetFormat(t)
  BY <1>4 DEF Begin, LockHw, GetFormat, Chosen, decoded, accel, locks, queue
<1>5. CASE FormatAnswered(t) \/ GetBuffer(t) \/ BufferAnswered(t)
  BY <1>5 DEF FormatAnswered, Chosen, GetBuffer, TooLate, BufferAnswered, decoded,
     accel, locks, queue
<1>6. CASE FinishSetup(t) \/ FinishSetupLockHw(t) \/ SetupFinished(t)
  BY <1>6 DEF FinishSetup, FinishSetupLockHw, SetupFinished, Leave, decoded, accel,
     locks, queue
<1>7. CASE Report(t) \/ Await(t) \/ ReleaseBuffer(t)
  BY <1>7 DEF Report, Await, ReleaseBuffer, decoded, accel, locks, queue
<1>8. CASE Return(t) \/ Done(t)
  BY <1>8 DEF Return, Leave, Done, decoded, accel, locks, queue
<1>9. QED
  BY <1>1, <1>2, <1>3, <1>4, <1>5, <1>6, <1>7, <1>8 DEF Worker

\* The set-up is open until the codec or decode() has ended it.
LEMMA StagesWorker ==
    ASSUME FrameTypes, RingTypes, Phases, Serialized, Stages, NEW t \in Threads, Worker(t)
    PROVE  Stages'
<1> USE DEF FrameTypes, RingTypes, Parking, Working, Phases, At, Go, May, Made,
        Broadcast, Asking, InSetup, Stages, Stage
<1>1. CASE Begin(t)
  BY <1>1 DEF Begin, Serialized, decoded, accel, locks
<1>2. CASE GetFormat(t)
  BY <1>2 DEF GetFormat, Chosen, decoded, accel, locks
<1>3. CASE FormatAnswered(t)
  BY <1>3 DEF FormatAnswered, Chosen, decoded, accel, locks
<1>4. CASE GetBuffer(t)
  BY <1>4 DEF GetBuffer, TooLate, decoded, accel, locks
<1>5. CASE BufferAnswered(t)
  BY <1>5 DEF BufferAnswered, decoded, accel, locks
<1>6. CASE FinishSetup(t)
  <2>1. At(t, "decode") /\ {"finish", "return"} \cap made[t] = {} /\ setup.update
    BY <1>6 DEF FinishSetup
  <2>2. state[t] = "SETTING_UP"
    BY <2>1 DEF States
  <2>3. "finish" \in made'[t]
    BY <1>6 DEF FinishSetup, Calls
  <2>4. QED
    BY <1>6, <2>1, <2>2, <2>3 DEF FinishSetup, decoded, accel, locks
<1>7. CASE SetupFinished(t)
  BY <1>7 DEF SetupFinished, Leave, decoded, accel, locks
<1>8. CASE Await(t)
  BY <1>8 DEF Await, decoded, accel, locks
<1>9. CASE Return(t)
  BY <1>9 DEF Return, Leave, decoded, accel, locks
<1>10. CASE Done(t)
  BY <1>10 DEF Done, decoded, accel, locks
<1>11. CASE WaitInput(t) \/ TakeMutex(t) \/ Exit(t)
  BY <1>11 DEF WaitInput, TakeMutex, Exit, decoded, accel, locks
<1>12. CASE LockHw(t) \/ FinishSetupLockHw(t) \/ FinishSetupAsync(t)
  BY <1>12 DEF LockHw, FinishSetupLockHw, FinishSetupAsync, AsyncFree, decoded, accel,
     locks
<1>13. CASE Report(t) \/ ReleaseBuffer(t) \/ Unserialize(t)
  BY <1>13 DEF Report, ReleaseBuffer, Unserialize, decoded, accel, locks
<1>14. QED
  BY <1>1, <1>2, <1>3, <1>4, <1>5, <1>6, <1>7, <1>8, <1>9, <1>10, <1>11, <1>12, <1>13
     DEF Worker

\* A worker ends when it is told to.
LEMMA EndsWorker ==
    ASSUME FrameTypes, Phases, Ends, NEW t \in Threads, Worker(t)
    PROVE  Ends'
<1> USE DEF FrameTypes, Parking, Working, Phases, At, Go, May, Broadcast, Ends
<1>1. CASE Exit(t)
  BY <1>1 DEF Exit, decoded, accel, locks
<1>2. CASE Begin(t)
  BY <1>2 DEF Begin, decoded, accel, locks
<1>3. CASE GetBuffer(t)
  BY <1>3 DEF GetBuffer, TooLate, decoded, accel, locks
<1>4. CASE BufferAnswered(t)
  BY <1>4 DEF BufferAnswered, decoded, accel, locks
<1>5. CASE SetupFinished(t)
  BY <1>5 DEF SetupFinished, Leave, decoded, accel, locks
<1>6. CASE Return(t)
  BY <1>6 DEF Return, Leave, decoded, accel, locks
<1>7. CASE Done(t)
  BY <1>7 DEF Done, decoded, accel, locks
<1>8. CASE WaitInput(t) \/ TakeMutex(t) \/ LockHw(t)
  BY <1>8 DEF WaitInput, TakeMutex, LockHw, decoded, accel, locks
<1>9. CASE GetFormat(t) \/ FormatAnswered(t) \/ FinishSetup(t)
  BY <1>9 DEF GetFormat, Chosen, FormatAnswered, FinishSetup, decoded, accel, locks
<1>10. CASE FinishSetupLockHw(t) \/ FinishSetupAsync(t) \/ Report(t)
  BY <1>10 DEF FinishSetupLockHw, FinishSetupAsync, AsyncFree, Report, decoded, accel,
     locks
<1>11. CASE Await(t) \/ ReleaseBuffer(t) \/ Unserialize(t)
  BY <1>11 DEF Await, ReleaseBuffer, Unserialize, decoded, accel, locks
<1>12. QED
  BY <1>1, <1>2, <1>3, <1>4, <1>5, <1>6, <1>7, <1>8, <1>9, <1>10, <1>11 DEF Worker

\* The user's thread takes the mutex of a context only from nobody.
LEMMA LocksHeldUser ==
    ASSUME FrameTypes, UserType, Places, Mutexes, LocksHeld, UsersStep
    PROVE  LocksHeld'
<1> USE Names DEF UserAt, UserGo, FrameTypes, UserType, Places, InContext, Mutexes,
        LocksHeld, MutexHeld
<1>1. CASE Lock
  BY <1>1 DEF Lock, accel, locks, queue
<1>2. CASE Submit
  BY <1>2 DEF Submit, accel, locks, queue
<1>3. CASE Serve
  BY <1>3 DEF Serve, accel, locks, queue
<1>4. CASE Flush
  BY <1>4 DEF Flush, accel, locks, queue
<1>5. CASE ReleaseDelayed \/ AwaitPrev \/ Submitted
  BY <1>5 DEF ReleaseDelayed, AwaitPrev, Submitted, SetupIsOver, accel, locks, queue
<1>6. CASE AwaitOutput \/ Collect \/ Finish
  BY <1>6 DEF AwaitOutput, Collect, ResultTaken, Skipped, Finish, AsyncFree, accel,
     locks, queue
<1>7. CASE Unpark \/ Parked \/ AllParked
  BY <1>7 DEF Unpark, Parked, AllParked, AsyncFree, accel, locks, queue
<1>8. CASE Kill \/ Join
  BY <1>8 DEF Kill, Join, accel, locks, queue
<1>9. ASSUME NEW size \in BOOLEAN, Decode(size)
      PROVE  LocksHeld'
  BY <1>9 DEF Decode, accel, locks, queue
<1>10. ASSUME NEW why \in {"flush", "free"}, Park(why)
      PROVE  LocksHeld'
  BY <1>10 DEF Park, accel, locks, queue
<1>11. QED
  BY <1>1, <1>2, <1>3, <1>4, <1>5, <1>6, <1>7, <1>8, <1>9, <1>10 DEF UserStep, UsersStep

\* async_lock is the user's outside its calls only.
LEMMA AsyncHeldUser ==
    ASSUME FrameTypes, UserType, AsyncHeld, UsersStep
    PROVE  AsyncHeld'
<1> USE DEF UserAt, UserGo, FrameTypes, UserType, HasAsync, AsyncHeld
<1>1. CASE Submit
  BY <1>1 DEF Submit, accel, locks, queue
<1>2. CASE AllParked
  BY <1>2 DEF AllParked, AsyncFree, accel, locks, queue
<1>3. CASE Lock \/ ReleaseDelayed \/ AwaitPrev
  BY <1>3 DEF Lock, ReleaseDelayed, AwaitPrev, accel, locks, queue
<1>4. CASE Serve \/ Submitted \/ AwaitOutput
  BY <1>4 DEF Serve, Submitted, SetupIsOver, AwaitOutput, accel, locks, queue
<1>5. CASE Collect \/ Finish \/ Unpark
  BY <1>5 DEF Collect, ResultTaken, Skipped, Finish, AsyncFree, Unpark, accel, locks,
     queue
<1>6. CASE Parked \/ Flush \/ Kill
  BY <1>6 DEF Parked, Flush, Kill, accel, locks, queue
<1>7. CASE Join
  BY <1>7 DEF Join, accel, locks, queue
<1>8. ASSUME NEW size \in BOOLEAN, Decode(size)
      PROVE  AsyncHeld'
  BY <1>8 DEF Decode, accel, locks, queue
<1>9. ASSUME NEW why \in {"flush", "free"}, Park(why)
      PROVE  AsyncHeld'
  BY <1>9 DEF Park, accel, locks, queue
<1>10. QED
  BY <1>1, <1>2, <1>3, <1>4, <1>5, <1>6, <1>7, <1>8, <1>9 DEF UserStep, UsersStep

\* A packet comes to an idle worker.
LEMMA StagesUser ==
    ASSUME FrameTypes, RingTypes, Places, Mutexes, Phases, Stages, UsersStep
    PROVE  Stages'
<1> USE Names DEF UserAt, UserGo, FrameTypes, Parking, Working, Places, InContext,
        Mutexes, Phases, Asking, InSetup, Stages, Stage
<1>1. CASE Submit
  <2>1. /\ user.p \in Threads /\ worker[user.p] \in {"locking", "exited"}
        /\ UNCHANGED <<setup, worker>>
    BY <1>1 DEF Submit
  <2>2. CASE UNCHANGED <<state, made>>
    BY <2>1, <2>2
  <2>3. CASE /\ state' = [state EXCEPT ![user.p] = "SETTING_UP"]
             /\ made' = [made EXCEPT ![user.p] = IF user.size THEN {} ELSE {"empty"}]
    <3>1. made'[user.p] \subseteq {"empty"} /\ state'[user.p] = "SETTING_UP"
      BY <2>1, <2>3 DEF RingTypes
    <3>2. \A t \in Threads \ {user.p} : made'[t] = made[t] /\ state'[t] = state[t]
      BY <2>3 DEF RingTypes
    <3>3. QED
      BY <2>1, <3>1, <3>2
  <2>4. QED
    BY <1>1, <2>2, <2>3 DEF Submit, decoded
<1>2. CASE Serve
  BY <1>2 DEF Serve, decoded, accel, locks, queue
<1>3. CASE Lock \/ ReleaseDelayed \/ AwaitPrev
  BY <1>3 DEF Lock, ReleaseDelayed, AwaitPrev, decoded, accel, locks, queue
<1>4. CASE Submitted \/ AwaitOutput \/ Collect
  BY <1>4 DEF Submitted, SetupIsOver, AwaitOutput, Collect, ResultTaken, Skipped,
     decoded, accel, locks, queue
<1>5. CASE Finish \/ Unpark \/ Parked
  BY <1>5 DEF Finish, AsyncFree, Unpark, Parked, decoded, accel, locks, queue
<1>6. CASE AllParked \/ Flush \/ Kill
  BY <1>6 DEF AllParked, AsyncFree, Flush, Kill, decoded, accel, locks, queue
<1>7. CASE Join
  BY <1>7 DEF Join, decoded, accel, locks, queue
<1>8. ASSUME NEW size \in BOOLEAN, Decode(size)
      PROVE  Stages'
  BY <1>8 DEF Decode, decoded, accel, locks, queue
<1>9. ASSUME NEW why \in {"flush", "free"}, Park(why)
      PROVE  Stages'
  BY <1>9 DEF Park, decoded, accel, locks, queue
<1>10. QED
  BY <1>1, <1>2, <1>3, <1>4, <1>5, <1>6, <1>7, <1>8, <1>9 DEF UserStep, UsersStep

\* The contexts are parked before they are freed.
LEMMA EndsUser ==
    ASSUME FrameTypes, UserType, Places, ParkedSoFar, Ends, UsersStep
    PROVE  Ends'
<1> USE NAssumption, Names DEF UserAt, UserGo, FrameTypes, UserType, Places, InContext,
        Threads, NAssumption, ParkedSoFar, Ends
<1>1. CASE Submit
  BY <1>1 DEF Submit, accel, locks, queue
<1>2. CASE Serve
  BY <1>2 DEF Serve, accel, locks, queue
<1>3. CASE Submitted
  BY <1>3 DEF Submitted, SetupIsOver, accel, locks, queue
<1>4. CASE AwaitOutput
  BY <1>4 DEF AwaitOutput, accel, locks, queue
<1>5. CASE Collect
  <2>1. user.pc = "collect" /\ UNCHANGED <<state, worker, die>>
    BY <1>5 DEF Collect
  <2>2. user'.pc \in {"collect", "finish"}
    BY <1>5 DEF Collect
  <2>3. \A t \in Threads : ~die[t] /\ worker[t] # "exited"
    BY <2>1
  <2>4. QED
    BY <2>1, <2>2, <2>3
<1>6. CASE Finish
  BY <1>6 DEF Finish, AsyncFree, accel, locks, queue
<1>7. CASE Unpark
  BY <1>7 DEF Unpark, accel, locks, queue
<1>8. CASE Parked
  BY <1>8 DEF Parked, accel, locks, queue
<1>9. CASE AllParked
  BY <1>9 DEF AllParked, AsyncFree, accel, locks, queue
<1>10. CASE Flush
  BY <1>10 DEF Flush, accel, locks, queue
<1>11. CASE Kill
  BY <1>11 DEF Kill, accel, locks, queue
<1>12. CASE Join
  BY <1>12 DEF Join, accel, locks, queue
<1>13. CASE Lock \/ ReleaseDelayed \/ AwaitPrev
  BY <1>13 DEF Lock, ReleaseDelayed, AwaitPrev, accel, locks, queue
<1>14. ASSUME NEW size \in BOOLEAN, Decode(size)
      PROVE  Ends'
  BY <1>14 DEF Decode, accel, locks, queue
<1>15. ASSUME NEW why \in {"flush", "free"}, Park(why)
      PROVE  Ends'
  BY <1>15 DEF Park, accel, locks, queue
<1>16. QED
  BY <1>1, <1>2, <1>3, <1>4, <1>5, <1>6, <1>7, <1>8, <1>9, <1>10, <1>11, <1>12, <1>13,
     <1>14, <1>15 DEF UserStep, UsersStep

\* The context that submit_packet fills has no packet.
LEMMA FreshContext ==
    ASSUME Places, RingInv, user.pc \in {"lock", "release", "prev"}
    PROVE  state[user.p] = "INPUT_READY"
<1>1. user.p \in Threads /\ user.p = nextDecoding /\ nextDecoding # N
  BY DEF Places, InContext, RingInv, CallAt
<1>2. Filled = Behind(nextDecoding)
  BY <1>1, FilledElsewhere
<1>3. Behind(nextDecoding) \in 0 .. N - 1
  BY <1>1, DistanceType DEF Behind, Places
<1>4. ~(Behind(user.p) < Filled)
  BY <1>1, <1>2, <1>3, NAssumption DEF NAssumption
<1>5. QED
  BY <1>1, <1>4 DEF RingInv, InRing, Pending

\* A frame the codec leaves is that of its packet, or the one before.
LEMMA NumberedWorker ==
    ASSUME FrameTypes, Phases, RingTypes, OwedInRing, Numbered, NEW t \in Threads, Worker(t)
    PROVE  Numbered'
<1>1. /\ UNCHANGED <<user, prev, pkt>> /\ client'.next = client.next
      /\ ref' \in [Threads -> Nat]
      /\ \A q \in Threads \ {t} : state'[q] = state[q] /\ ref'[q] = ref[q]
  BY WorkerAlone DEF Numbered
<1>2. state[t] = "INPUT_READY" => state'[t] = "INPUT_READY"
  BY WorkerInRing
<1>3. \/ ref'[t] = ref[t]
      \/ ref'[t] \in {pkt[t], ref[t]} /\ state'[t] = "INPUT_READY"
  <2>1. CASE Done(t)
    BY <2>1 DEF Done, Frame, FrameTypes, Numbered
  <2>2. CASE ~Done(t)
    <3>1. UNCHANGED ref
      BY <2>2 DEF Worker, WaitInput, TakeMutex, Exit, Begin, LockHw, GetFormat,
         FormatAnswered, GetBuffer, BufferAnswered, FinishSetup, FinishSetupLockHw,
         FinishSetupAsync, SetupFinished, Report, Await, ReleaseBuffer, Return,
         Unserialize, decoded
    <3>2. QED
      BY <3>1
  <2>3. QED
    BY <2>1, <2>2
<1>4. Newest' = Newest
  BY <1>1 DEF Newest
<1>5. QED
  BY <1>1, <1>2, <1>3, <1>4 DEF Numbered

\* A packet gets the next number, and a context follows one with an earlier packet.
LEMMA NumberedUser ==
    ASSUME FrameTypes, UserType, Places, RingInv, Numbered, UsersStep
    PROVE  Numbered'
<1>a. pkt \in [Threads -> Nat] /\ client.next \in Nat
  BY DEF RingInv, RingTypes
<1>1. CASE Submit
  <2>1. user.pc = "prev" /\ user.p \in Threads /\ state[user.p] = "INPUT_READY"
        /\ UNCHANGED prev
    BY <1>1, FreshContext, SubmitEffect DEF Places, InContext
  <2>2. ref' \in [Threads -> Nat] /\ \A t \in Threads : ref'[t] < client.next
    <3>1. CASE prev # None /\ setup.update
      <4>1. prev \in Threads /\ Frame(prev) \in {pkt[prev], ref[prev]}
        BY <3>1 DEF Places, Frame
      <4>2. Frame(prev) \in Nat /\ Frame(prev) < client.next
        BY <1>a, <4>1 DEF Numbered
      <4>3. ref' = [ref EXCEPT ![user.p] = Frame(prev)]
        BY <1>1, <3>1 DEF Submit
      <4>4. QED
        BY <2>1, <4>2, <4>3 DEF Numbered
    <3>2. CASE ~(prev # None /\ setup.update)
      BY <1>1, <3>2 DEF Submit, Numbered
    <3>3. QED
      BY <3>1, <3>2
  <2>3. \A t \in Threads \ {user.p} : ref'[t] = ref[t]
    BY <1>1 DEF Submit, Numbered
  <2>4. CASE UserGo("finish") /\ UNCHANGED <<state, pkt, client>>
    <3>1. Newest' = Newest
      BY <2>1, <2>4 DEF UserGo, Newest, UserType
    <3>2. QED
      BY <2>1, <2>2, <2>3, <2>4, <3>1 DEF Numbered
  <2>5. CASE /\ pkt' = [pkt EXCEPT ![user.p] = client.next]
             /\ client' = [client EXCEPT !.next = @ + 1]
             /\ state' = [state EXCEPT ![user.p] = "SETTING_UP"]
             /\ UserGo("serve")
    <3>1. client'.next = client.next + 1
      BY <2>5 DEF RingInv, RingTypes
    <3>2. Newest' = user.p
      BY <2>5 DEF UserGo, Newest, UserType
    <3>3. /\ pkt'[user.p] = client.next
          /\ \A t \in Threads \ {user.p} : pkt'[t] = pkt[t] /\ state'[t] = state[t]
      BY <1>a, <2>1, <2>5 DEF FrameTypes
    <3>4. \A t \in Threads : pkt'[t] < client'.next /\ ref'[t] < client'.next
      BY <1>a, <2>2, <3>1, <3>3 DEF Numbered
    <3>5. \A t \in Threads : state'[t] # "INPUT_READY" => ref'[t] < pkt'[t]
      BY <2>2, <2>3, <3>3 DEF Numbered
    <3>6. QED
      BY <2>1, <2>2, <3>1, <3>2, <3>3, <3>4, <3>5 DEF Numbered
  <2>6. QED
    BY <1>1, <2>4, <2>5 DEF Submit
<1>2. CASE Submitted
  <2>1. Newest' = Newest
    BY <1>2 DEF Submitted, UserAt, Newest, UserType
  <2>2. QED
    BY <1>2, <2>1 DEF Submitted, Numbered, decoded
<1>3. CASE Flush
  <2>1. /\ prev' = None /\ user'.pc = "idle" /\ UNCHANGED <<state, pkt>>
        /\ client'.next = client.next /\ ref' = [t \in Threads |-> 0]
    BY <1>3 DEF Flush, UserGo, UserType, RingInv, RingTypes
  <2>2. \A t \in Threads : pkt[t] < client.next /\ 0 < client.next
    BY <1>a DEF Numbered
  <2>3. \A t \in Threads : state[t] # "INPUT_READY" => 0 < pkt[t]
    BY <1>a DEF Numbered
  <2>4. QED
    BY <2>1, <2>2, <2>3 DEF Numbered, Newest
<1>4. CASE Serve
  <2>1. UNCHANGED <<user, prev, pkt, ref, client>>
        /\ \A t \in Threads : state'[t] # "INPUT_READY" => state[t] # "INPUT_READY"
    BY <1>4 DEF Serve, FrameTypes, decoded, queue
  <2>2. QED
    BY <2>1 DEF Numbered, Newest
<1>5. ASSUME UNCHANGED <<state, pkt, ref, prev>>, client'.next = client.next,
             user.pc # "serve", user'.pc # "serve"
      PROVE  Numbered'
  BY <1>5 DEF Numbered, Newest
<1>6. CASE Lock \/ ReleaseDelayed \/ AwaitPrev \/ AwaitOutput
  BY <1>5, <1>6 DEF Lock, ReleaseDelayed, AwaitPrev, AwaitOutput, UserAt, UserGo, UserType,
     decoded, queue
<1>7. CASE Collect
  BY <1>5, <1>7 DEF Collect, UserAt, UserGo, UserType, RingInv, RingTypes
<1>8. CASE Finish \/ Unpark \/ Parked \/ AllParked
  BY <1>5, <1>8 DEF Finish, Unpark, Parked, AllParked, UserAt, UserGo, UserType, decoded,
     queue
<1>9. CASE Kill \/ Join
  BY <1>5, <1>9 DEF Kill, Join, UserAt, UserGo, UserType, decoded, queue
<1>10. ASSUME NEW size \in BOOLEAN, Decode(size)
       PROVE  Numbered'
  BY <1>5, <1>10 DEF Decode, UserAt, UserType, RingInv, RingTypes, decoded, queue
<1>11. ASSUME NEW why \in {"flush", "free"}, Park(why)
       PROVE  Numbered'
  BY <1>5, <1>11 DEF Park, UserAt, UserType, decoded, queue
<1>12. QED
  BY <1>1, <1>2, <1>3, <1>4, <1>6, <1>7, <1>8, <1>9, <1>10, <1>11 DEF UserStep, UsersStep

\* With update_thread_context a worker does not open its set-up again.
LEMMA SetupOpens ==
    ASSUME FrameTypes, NEW t \in Threads, Worker(t)
    PROVE  setup.update /\ state'[t] \in InSetup => state[t] \in InSetup
<1> USE DEF FrameTypes, At, Go, May, Broadcast, Asking, InSetup
<1>1. CASE GetBuffer(t)
  BY <1>1 DEF GetBuffer, TooLate, decoded, accel, locks
<1>2. CASE BufferAnswered(t)
  BY <1>2 DEF BufferAnswered, decoded, accel, locks
<1>3. CASE Return(t)
  BY <1>3 DEF Return, Leave, decoded, accel, locks
<1>4. CASE WaitInput(t) \/ TakeMutex(t) \/ Exit(t)
  BY <1>4 DEF WaitInput, TakeMutex, Exit, decoded, accel, locks
<1>5. CASE Begin(t) \/ LockHw(t) \/ GetFormat(t)
  BY <1>5 DEF Begin, LockHw, GetFormat, Chosen, decoded, accel, locks
<1>6. CASE FormatAnswered(t) \/ FinishSetup(t) \/ FinishSetupLockHw(t)
  BY <1>6 DEF FormatAnswered, Chosen, FinishSetup, FinishSetupLockHw, decoded, accel,
     locks
<1>7. CASE FinishSetupAsync(t) \/ SetupFinished(t) \/ Report(t)
  BY <1>7 DEF FinishSetupAsync, AsyncFree, SetupFinished, Leave, Report, decoded, accel,
     locks
<1>8. CASE Await(t) \/ ReleaseBuffer(t) \/ Unserialize(t)
  BY <1>8 DEF Await, ReleaseBuffer, Unserialize, decoded, accel, locks
<1>9. CASE Done(t)
  BY <1>9 DEF Done, decoded, accel, locks
<1>10. QED
  BY <1>1, <1>2, <1>3, <1>4, <1>5, <1>6, <1>7, <1>8, <1>9 DEF Worker

\* The set-ups are one after the other.
LEMMA SetupInTurnWorker ==
    ASSUME FrameTypes, RingTypes, Numbered, SetupInTurn, NEW t \in Threads, Worker(t)
    PROVE  SetupInTurn'
<1>1. /\ UNCHANGED <<setup, user, prev>>
      /\ \A q \in Threads \ {t} : state'[q] = state[q]
  BY WorkerAlone DEF Numbered
<1>2. setup.update /\ state'[t] \in InSetup => state[t] \in InSetup
  BY SetupOpens
<1>3. Newest' = Newest
  BY <1>1 DEF Newest
<1>4. QED
  BY <1>1, <1>2, <1>3 DEF SetupInTurn

\* A packet is submitted when the set-up of the one before is over.
LEMMA SetupInTurnUser ==
    ASSUME FrameTypes, UserType, Places, Phases, SetupInCall, ParkedSoFar, SetupInTurn,
           UsersStep
    PROVE  SetupInTurn'
<1>1. CASE Submit
  <2>1. user.pc = "prev" /\ (prev # None => state[prev] # "SETTING_UP")
        /\ UNCHANGED <<setup, prev>>
    BY <1>1, SubmitEffect
  <2>2. setup.update => \A t \in Threads : state[t] \notin InSetup
    <3>1. SUFFICES ASSUME setup.update, NEW t \in Threads, state[t] \in InSetup
                   PROVE  FALSE
      OBVIOUS
    <3>2. t = prev /\ t # None
      BY <2>1, <3>1, Names DEF SetupInTurn, Newest
    <3>3. state[t] \in Asking
      BY <2>1, <3>1, <3>2 DEF InSetup
    <3>4. QED
      BY <2>1, <3>3 DEF Phases, SetupInCall, Asking
  <2>3. CASE user' = [user EXCEPT !.pc = "finish"] /\ state' = state
    BY <2>1, <2>2, <2>3 DEF SetupInTurn
  <2>4. CASE user' = [user EXCEPT !.pc = "serve"]
             /\ state' = [state EXCEPT ![user.p] = "SETTING_UP"]
    <3>1. Newest' = user.p
      BY <2>4 DEF UserType, Newest
    <3>2. \A t \in Threads \ {user.p} : state'[t] = state[t]
      BY <2>4 DEF FrameTypes
    <3>3. QED
      BY <2>1, <2>2, <3>1, <3>2 DEF SetupInTurn
  <2>5. QED
    BY <1>1, <2>3, <2>4, SubmitEffect
<1>2. CASE Serve
  <2>1. UNCHANGED <<setup, user, prev>>
        /\ \A t \in Threads : state'[t] \in InSetup => state[t] \in InSetup
    BY <1>2 DEF Serve, FrameTypes, queue, InSetup, Asking
  <2>2. QED
    BY <2>1 DEF SetupInTurn, Newest
<1>3. CASE Submitted
  <2>1. Newest' = Newest
    BY <1>3 DEF Submitted, UserAt, UserType, Newest
  <2>2. QED
    BY <1>3, <2>1 DEF Submitted, SetupInTurn
<1>4. CASE Flush
  BY <1>4 DEF Flush, UserAt, ParkedSoFar, SetupInTurn, InSetup, Asking
<1>5. ASSUME UNCHANGED <<setup, state, prev>>, user.pc # "serve", user'.pc # "serve"
      PROVE  SetupInTurn'
  BY <1>5 DEF SetupInTurn, Newest
<1>6. CASE Lock \/ ReleaseDelayed \/ AwaitPrev \/ AwaitOutput
  BY <1>5, <1>6 DEF Lock, ReleaseDelayed, AwaitPrev, AwaitOutput, UserAt, UserGo, UserType,
     queue
<1>7. CASE Collect
  BY <1>5, <1>7 DEF Collect, UserAt, UserGo, UserType
<1>8. CASE Finish \/ Unpark \/ Parked \/ AllParked
  BY <1>5, <1>8 DEF Finish, Unpark, Parked, AllParked, UserAt, UserGo, UserType, queue
<1>9. CASE Kill \/ Join
  BY <1>5, <1>9 DEF Kill, Join, UserAt, UserGo, UserType, queue
<1>10. ASSUME NEW size \in BOOLEAN, Decode(size)
       PROVE  SetupInTurn'
  BY <1>5, <1>10 DEF Decode, UserAt, UserType, queue
<1>11. ASSUME NEW why \in {"flush", "free"}, Park(why)
       PROVE  SetupInTurn'
  BY <1>5, <1>11 DEF Park, UserAt, UserType, queue
<1>12. QED
  BY <1>1, <1>2, <1>3, <1>4, <1>6, <1>7, <1>8, <1>9, <1>10, <1>11 DEF UserStep, UsersStep

\* Only a worker with nothing to do goes to sleep on input_cond.
LEMMA WorkerWaits ==
    ASSUME FrameTypes, Ends, input \in [Threads -> SUBSET (Threads \cup {User})], NEW t \in Threads, Worker(t)
    PROVE  \/ input' = input
           \/ /\ input' = [input EXCEPT ![t] = {t}]
              /\ worker'[t] = "locking" /\ state'[t] = "INPUT_READY" /\ ~die'[t]
<1> USE DEF FrameTypes, Ends, Go
<1>1. CASE WaitInput(t)
  BY <1>1 DEF WaitInput, conds
<1>2. CASE TakeMutex(t) \/ Exit(t) \/ Begin(t)
  BY <1>2 DEF TakeMutex, Exit, Begin, conds
<1>3. CASE LockHw(t) \/ GetFormat(t) \/ FormatAnswered(t)
  BY <1>3 DEF LockHw, GetFormat, Chosen, FormatAnswered, conds
<1>4. CASE GetBuffer(t) \/ BufferAnswered(t) \/ FinishSetup(t)
  BY <1>4 DEF GetBuffer, TooLate, BufferAnswered, FinishSetup, conds
<1>5. CASE FinishSetupLockHw(t) \/ FinishSetupAsync(t) \/ SetupFinished(t)
  BY <1>5 DEF FinishSetupLockHw, FinishSetupAsync, AsyncFree, SetupFinished, Leave,
     conds
<1>6. CASE Report(t) \/ Await(t) \/ ReleaseBuffer(t)
  BY <1>6 DEF Report, Await, ReleaseBuffer, conds
<1>7. CASE Return(t) \/ Unserialize(t) \/ Done(t)
  BY <1>7 DEF Return, Leave, Unserialize, Done, conds
<1>8. QED
  BY <1>1, <1>2, <1>3, <1>4, <1>5, <1>6, <1>7 DEF Worker

\* Who sleeps there still has nothing to do.
LEMMA InputWorker ==
    ASSUME FrameTypes, RingTypes, Numbered, Ends, InputSleepers, NEW t \in Threads, Worker(t)
    PROVE  InputSleepers'
<1>1. /\ Awake(t) /\ UNCHANGED die
      /\ \A q \in Threads \ {t} : state'[q] = state[q] /\ worker'[q] = worker[q]
  BY WorkerAlone DEF Numbered
<1>2. input[t] = {}
  BY <1>1 DEF Awake, InputSleepers, SleepsOnInput
<1>3. \A q \in Threads \ {t} : \A x \in input[q] : SleepsOnInput(x, q)'
  BY <1>1 DEF InputSleepers, SleepsOnInput
<1>4. CASE input' = input
  BY <1>2, <1>3, <1>4 DEF InputSleepers
<1>5. CASE /\ input' = [input EXCEPT ![t] = {t}]
           /\ worker'[t] = "locking" /\ state'[t] = "INPUT_READY" /\ ~die'[t]
  <2>1. input' \in [Threads -> SUBSET (Threads \cup {User})]
    BY <1>5 DEF InputSleepers
  <2>2. input'[t] = {t} /\ \A q \in Threads \ {t} : input'[q] = input[q]
    BY <1>5 DEF InputSleepers
  <2>3. SleepsOnInput(t, t)'
    BY <1>5 DEF SleepsOnInput
  <2>4. QED
    BY <1>3, <2>1, <2>2, <2>3 DEF InputSleepers
<1>6. QED
  BY <1>4, <1>5, WorkerWaits DEF InputSleepers

\* pthread_cond_signal(&input_cond) wakes the one worker that may wait there.
LEMMA InputUser ==
    ASSUME FrameTypes, UserType, Places, Mutexes, Ends, InputSleepers, UsersStep
    PROVE  InputSleepers'
<1>a. \A t \in Threads : input[t] \in SUBSET {t}
  BY DEF InputSleepers, SleepsOnInput
<1>1. ASSUME NEW p \in Threads, \E S \in Signalled(input[p]) : input' = [input EXCEPT ![p] = S],
             UNCHANGED worker,
             \A q \in Threads \ {p} : state'[q] = state[q] /\ die'[q] = die[q]
      PROVE  InputSleepers'
  <2>1. input' = [input EXCEPT ![p] = {}]
    BY <1>a, <1>1, OneSignalled
  <2>2. input' \in [Threads -> SUBSET (Threads \cup {User})] /\ input'[p] = {}
        /\ \A q \in Threads \ {p} : input'[q] = input[q]
    BY <2>1 DEF InputSleepers
  <2>3. \A q \in Threads \ {p} : \A x \in input'[q] : SleepsOnInput(x, q)'
    BY <1>1, <2>2 DEF InputSleepers, SleepsOnInput
  <2>4. QED
    BY <2>2, <2>3 DEF InputSleepers
<1>2. CASE Submit
  <2>1. user.p \in Threads /\ UNCHANGED <<worker, die>>
    BY <1>2 DEF Submit, UserAt, Places, InContext
  <2>2. CASE UNCHANGED <<state, input>>
    BY <2>1, <2>2 DEF InputSleepers, SleepsOnInput
  <2>3. CASE /\ \E S \in Signalled(input[user.p]) : input' = [input EXCEPT ![user.p] = S]
             /\ state' = [state EXCEPT ![user.p] = "SETTING_UP"]
    BY <1>1, <2>1, <2>3 DEF FrameTypes
  <2>4. QED
    BY <1>2, <2>2, <2>3 DEF Submit
<1>3. CASE Kill
  BY <1>1, <1>3 DEF Kill, Ends
<1>4. CASE Serve
  <2>1. UNCHANGED <<input, worker, die>>
        /\ \A t \in Threads : state[t] = "INPUT_READY" => state'[t] = "INPUT_READY"
    BY <1>4 DEF Serve, FrameTypes
  <2>2. QED
    BY <2>1 DEF InputSleepers, SleepsOnInput
<1>5. ASSUME UNCHANGED <<input, worker, state, die>>
      PROVE  InputSleepers'
  BY <1>5 DEF InputSleepers, SleepsOnInput
<1>6. CASE Lock \/ ReleaseDelayed \/ AwaitPrev \/ AwaitOutput
  BY <1>5, <1>6 DEF Lock, ReleaseDelayed, AwaitPrev, AwaitOutput, conds
<1>7. CASE Submitted \/ Collect \/ Finish
  BY <1>5, <1>7 DEF Submitted, Collect, Finish, conds
<1>8. CASE Unpark \/ Parked \/ AllParked
  BY <1>5, <1>8 DEF Unpark, Parked, AllParked, conds
<1>9. CASE Flush \/ Join
  BY <1>5, <1>9 DEF Flush, Join, conds
<1>10. ASSUME NEW size \in BOOLEAN, Decode(size)
       PROVE  InputSleepers'
  BY <1>5, <1>10 DEF Decode, conds
<1>11. ASSUME NEW why \in {"flush", "free"}, Park(why)
       PROVE  InputSleepers'
  BY <1>5, <1>11 DEF Park, conds
<1>12. QED
  BY <1>2, <1>3, <1>4, <1>6, <1>7, <1>8, <1>9, <1>10, <1>11 DEF UserStep, UsersStep

\* A worker that has no packet any more signals output_cond.
LEMMA WorkerSignals ==
    ASSUME FrameTypes, NEW t \in Threads, Worker(t)
    PROVE  \/ /\ output' = output
              /\ state[t] # "INPUT_READY" => state'[t] # "INPUT_READY"
           \/ SignalOutput(t)
<1> USE DEF FrameTypes, Broadcast, SignalOutput
<1>1. CASE Begin(t)
  BY <1>1 DEF Begin, conds
<1>2. CASE GetBuffer(t)
  BY <1>2 DEF GetBuffer, TooLate, conds
<1>3. CASE BufferAnswered(t)
  BY <1>3 DEF BufferAnswered, conds
<1>4. CASE Done(t)
  BY <1>4 DEF Done, conds
<1>5. CASE WaitInput(t) \/ TakeMutex(t) \/ Exit(t)
  BY <1>5 DEF WaitInput, TakeMutex, Exit, conds
<1>6. CASE LockHw(t) \/ GetFormat(t) \/ FormatAnswered(t)
  BY <1>6 DEF LockHw, GetFormat, Chosen, FormatAnswered, conds
<1>7. CASE FinishSetup(t) \/ FinishSetupLockHw(t) \/ FinishSetupAsync(t)
  BY <1>7 DEF FinishSetup, FinishSetupLockHw, FinishSetupAsync, AsyncFree, conds
<1>8. CASE SetupFinished(t) \/ Report(t) \/ Await(t)
  BY <1>8 DEF SetupFinished, Leave, Report, Await, conds
<1>9. CASE ReleaseBuffer(t) \/ Return(t) \/ Unserialize(t)
  BY <1>9 DEF ReleaseBuffer, Return, Leave, Unserialize, conds
<1>10. QED
  BY <1>1, <1>2, <1>3, <1>4, <1>5, <1>6, <1>7, <1>8, <1>9 DEF Worker

\* That wakes the one thread that may wait there, the user's.
LEMMA OutputWorker ==
    ASSUME FrameTypes, RingTypes, Numbered, OutputSleepers, NEW t \in Threads, Worker(t)
    PROVE  OutputSleepers'
<1>1. /\ UNCHANGED user
      /\ \A q \in Threads \ {t} : state'[q] = state[q]
  BY WorkerAlone DEF Numbered
<1>2. CASE /\ output' = output
           /\ state[t] # "INPUT_READY" => state'[t] # "INPUT_READY"
  BY <1>1, <1>2 DEF OutputSleepers, SleepsOnOutput
<1>3. CASE SignalOutput(t)
  <2>1. output[t] \in SUBSET {User}
    BY DEF OutputSleepers, SleepsOnOutput
  <2>2. output' = [output EXCEPT ![t] = {}]
    BY <1>3, <2>1, OneSignalled DEF SignalOutput
  <2>3. output' \in [Threads -> SUBSET (Threads \cup {User})] /\ output'[t] = {}
        /\ \A q \in Threads \ {t} : output'[q] = output[q]
    BY <2>2 DEF OutputSleepers
  <2>4. QED
    BY <1>1, <2>3 DEF OutputSleepers, SleepsOnOutput
<1>4. QED
  BY <1>2, <1>3, WorkerSignals

\* Every step of the user's thread is one of a thread that is awake.
LEMMA UserAwake ==
    ASSUME UsersStep
    PROVE  Awake(User)
BY DEF UsersStep, UserStep, UserAt, Lock, ReleaseDelayed, AwaitPrev, Submit, Serve,
   Submitted, AwaitOutput, Collect, Finish, Unpark, Parked, AllParked, Flush, Kill, Join,
   Decode, Park

\* The user's thread waits for a context that still has its packet.
LEMMA OutputUser ==
    ASSUME FrameTypes, UserType, Places, OutputSleepers, UsersStep
    PROVE  OutputSleepers'
<1>1. \A t \in Threads : output[t] = {}
  BY UserAwake DEF Awake, OutputSleepers, SleepsOnOutput
<1>2. CASE AwaitOutput
  <2>1. /\ user.p \in Threads /\ state[user.p] # "INPUT_READY"
        /\ user.pc \in {"collect", "park"} /\ UNCHANGED <<user, state>>
        /\ output' = [output EXCEPT ![user.p] = @ \cup {User}]
    BY <1>2 DEF AwaitOutput, UserAt
  <2>2. SleepsOnOutput(User, user.p)'
    BY <2>1 DEF SleepsOnOutput
  <2>3. output' \in [Threads -> SUBSET (Threads \cup {User})] /\ output'[user.p] = {User}
        /\ \A q \in Threads \ {user.p} : output'[q] = {}
    BY <1>1, <2>1 DEF OutputSleepers
  <2>4. QED
    BY <2>1, <2>2, <2>3 DEF OutputSleepers
<1>3. ASSUME UNCHANGED output
      PROVE  OutputSleepers'
  BY <1>1, <1>3 DEF OutputSleepers
<1>4. CASE Lock \/ ReleaseDelayed \/ AwaitPrev \/ Submit \/ Serve
  BY <1>3, <1>4 DEF Lock, ReleaseDelayed, AwaitPrev, Submit, Serve, conds
<1>5. CASE Submitted \/ Collect \/ Finish \/ Unpark \/ Parked
  BY <1>3, <1>5 DEF Submitted, Collect, Finish, Unpark, Parked, conds
<1>6. CASE AllParked \/ Flush \/ Kill \/ Join
  BY <1>3, <1>6 DEF AllParked, Flush, Kill, Join, conds
<1>7. ASSUME NEW size \in BOOLEAN, Decode(size)
      PROVE  OutputSleepers'
  BY <1>3, <1>7 DEF Decode, conds
<1>8. ASSUME NEW why \in {"flush", "free"}, Park(why)
      PROVE  OutputSleepers'
  BY <1>3, <1>8 DEF Park, conds
<1>9. QED
  BY <1>2, <1>4, <1>5, <1>6, <1>7, <1>8 DEF UserStep, UsersStep

\* The frame of a context, if it is to be reported, still is.
StillOwed(t) ==
    {"buffer", "report"} \cap made[t] = {"buffer"} =>
      {"buffer", "report"} \cap made'[t] = {"buffer"}

\* A worker's step, as those see it that wait for its progress: it tells them all, or it
\* keeps what they wait for and sleeps itself, if at all, for an answer or a frame.
LEMMA WorkerProgress ==
    ASSUME FrameTypes, RingTypes, Stages, NEW t \in Threads, Worker(t)
    PROVE  \/ progress' = [progress EXCEPT ![t] = {}]
           \/ /\ progress' = [progress EXCEPT ![t] = {t}]
              /\ worker'[t] \in {"in_format", "in_buffer"} /\ state'[t] \in Asking
           \/ UNCHANGED <<progress, state, ref>> /\ StillOwed(t)
           \/ Await(t)
<1> USE DEF FrameTypes, RingTypes, At, Go, May, Made, Broadcast, StillOwed, Asking
<1>1. CASE Begin(t)
  BY <1>1 DEF Begin, decoded, accel, conds
<1>2. CASE GetFormat(t)
  BY <1>2 DEF GetFormat, Chosen, decoded, accel, conds
<1>3. CASE GetBuffer(t)
  BY <1>3 DEF GetBuffer, TooLate, decoded, accel, conds
<1>4. CASE BufferAnswered(t)
  BY <1>4 DEF BufferAnswered, decoded, accel, conds
<1>5. CASE Await(t)
  BY <1>5 DEF Await, decoded, accel, conds
<1>6. CASE Return(t)
  BY <1>6 DEF Return, Leave, decoded, accel, conds
<1>7. CASE WaitInput(t) \/ TakeMutex(t) \/ Exit(t)
  BY <1>7 DEF WaitInput, TakeMutex, Exit, decoded, accel, conds
<1>8. CASE LockHw(t) \/ FormatAnswered(t) \/ FinishSetup(t)
  BY <1>8 DEF LockHw, FormatAnswered, Chosen, FinishSetup, decoded, accel, conds
<1>9. CASE FinishSetupLockHw(t) \/ FinishSetupAsync(t) \/ SetupFinished(t)
  BY <1>9 DEF FinishSetupLockHw, FinishSetupAsync, AsyncFree, SetupFinished, Leave,
     decoded, accel, conds
<1>10. CASE Report(t) \/ ReleaseBuffer(t) \/ Unserialize(t)
  BY <1>10 DEF Report, ReleaseBuffer, Unserialize, decoded, accel, conds
<1>11. CASE Done(t)
  BY <1>11 DEF Done, decoded, accel, conds
<1>12. QED
  BY <1>1, <1>2, <1>3, <1>4, <1>5, <1>6, <1>7, <1>8, <1>9, <1>10, <1>11 DEF Worker

\* So who still sleeps there still waits for what it went to sleep for.
LEMMA ProgressWorker ==
    ASSUME FrameTypes, RingTypes, Stages, Numbered, ProgressSleepers,
           NEW t \in Threads, Worker(t)
    PROVE  ProgressSleepers'
<1>1. /\ Awake(t) /\ UNCHANGED <<user, prev, pkt>>
      /\ \A q \in Threads \ {t} :
           /\ state'[q] = state[q] /\ worker'[q] = worker[q] /\ made'[q] = made[q]
           /\ ref'[q] = ref[q]
  BY WorkerAlone DEF Numbered
<1>2. \A q \in Threads : t \notin progress[q]
  BY <1>1 DEF Awake
<1>3. ASSUME NEW q \in Threads, NEW x \in progress[q],
             q # t \/ (state'[t] = state[t] /\ StillOwed(t))
      PROVE  SleepsOnProgress(x, q)'
  <2>1. SleepsOnProgress(x, q) /\ x # t
    BY <1>2 DEF ProgressSleepers
  <2>2. CASE x = q /\ worker[q] \in {"in_format", "in_buffer"} /\ state[q] \in Asking
    BY <1>1, <2>1, <2>2 DEF SleepsOnProgress
  <2>3. CASE x \in Threads /\ worker[x] = "awaiting" /\ q \in Owners(ref[x])
    <3>1. worker'[x] = "awaiting" /\ ref'[x] = ref[x]
      BY <1>1, <2>1, <2>3
    <3>2. pkt'[q] = ref[x] /\ {"buffer", "report"} \cap made[q] = {"buffer"}
      BY <1>1, <2>3 DEF Owners
    <3>3. {"buffer", "report"} \cap made'[q] = {"buffer"}
      BY <1>1, <1>3, <3>2 DEF StillOwed
    <3>4. QED
      BY <2>3, <3>1, <3>2, <3>3 DEF SleepsOnProgress, Owners
  <2>4. CASE /\ x = User /\ state[q] = "SETTING_UP"
             /\ \/ user.pc = "prev" /\ prev = q
                \/ user.pc = "serve" /\ user.p = q
    <3>1. state'[q] = "SETTING_UP"
      BY <1>1, <1>3, <2>4
    <3>2. QED
      BY <1>1, <2>4, <3>1 DEF SleepsOnProgress
  <2>5. QED
    BY <2>1, <2>2, <2>3, <2>4 DEF SleepsOnProgress
<1>4. ASSUME NEW S \in {{}, {t}}, progress' = [progress EXCEPT ![t] = S],
             S # {} => worker'[t] \in {"in_format", "in_buffer"} /\ state'[t] \in Asking
      PROVE  ProgressSleepers'
  <2>1. /\ progress' \in [Threads -> SUBSET (Threads \cup {User})] /\ progress'[t] = S
        /\ \A q \in Threads \ {t} : progress'[q] = progress[q]
    BY <1>4 DEF ProgressSleepers
  <2>2. \A x \in S : SleepsOnProgress(x, t)'
    BY <1>4 DEF SleepsOnProgress
  <2>3. \A q \in Threads \ {t} : \A x \in progress[q] : SleepsOnProgress(x, q)'
    BY <1>3
  <2>4. QED
    BY <2>1, <2>2, <2>3 DEF ProgressSleepers
<1>5. CASE UNCHANGED <<progress, state, ref>> /\ StillOwed(t)
  BY <1>3, <1>5 DEF ProgressSleepers
<1>6. CASE Await(t)
  <2>1. /\ UNCHANGED <<state, ref, pkt>>
        /\ progress' = [q \in Threads |->
                          progress[q] \cup (IF q \in Owners(ref[t]) THEN {t} ELSE {})]
        /\ made' = [made EXCEPT ![t] = @ \cup {"await"}]
        /\ worker' = [worker EXCEPT
                        ![t] = IF Owners(ref[t]) = {} THEN "decode" ELSE "awaiting"]
    BY <1>6 DEF Await, Made, Go
  <2>2. made' \in [Threads -> SUBSET Calls] /\ made'[t] = made[t] \cup {"await"}
    BY <1>6, MadeGrows DEF Await, RingTypes, Calls
  <2>3. StillOwed(t)
    BY <2>2 DEF StillOwed
  <2>4. progress' \in [Threads -> SUBSET (Threads \cup {User})]
    BY <2>1 DEF ProgressSleepers
  <2>5. ASSUME NEW q \in Threads, q \in Owners(ref[t])
        PROVE  SleepsOnProgress(t, q)'
    <3>1. worker'[t] = "awaiting"
      BY <2>1, <2>5 DEF FrameTypes
    <3>2. pkt[q] = ref[t] /\ {"buffer", "report"} \cap made'[q] = {"buffer"}
      BY <1>1, <2>3, <2>5 DEF Owners, StillOwed
    <3>3. QED
      BY <2>1, <3>1, <3>2 DEF SleepsOnProgress, Owners
  <2>6. ASSUME NEW q \in Threads, NEW x \in progress'[q]
        PROVE  SleepsOnProgress(x, q)'
    <3>1. CASE x \in progress[q]
      BY <1>3, <2>1, <2>3, <3>1
    <3>2. CASE x \notin progress[q]
      BY <2>1, <2>5, <2>6, <3>2
    <3>3. QED
      BY <3>1, <3>2
  <2>7. QED
    BY <2>4, <2>6 DEF ProgressSleepers
<1>7. QED
  BY <1>4, <1>5, <1>6, WorkerProgress

\* Answering wakes the one worker that asks: no other waits for the newest packet.
LEMMA ProgressUser ==
    ASSUME FrameTypes, RingTypes, UserType, Places, Mutexes, Phases, ParkedSoFar, Stages,
           Numbered, ProgressSleepers, UsersStep
    PROVE  ProgressSleepers'
<1>1. ASSUME NEW q \in Threads, NEW x \in progress[q]
      PROVE  \/ x = q /\ worker[q] \in {"in_format", "in_buffer"} /\ state[q] \in Asking
             \/ x \in Threads /\ worker[x] = "awaiting" /\ q \in Owners(ref[x])
  <2>1. SleepsOnProgress(x, q) /\ x # User
    BY UserAwake DEF Awake, ProgressSleepers
  <2>2. QED
    BY <2>1 DEF SleepsOnProgress
<1>2. ASSUME NEW q \in Threads, NEW x \in progress[q],
             UNCHANGED worker,
             state'[q] = state[q] /\ pkt'[q] = pkt[q] /\ made'[q] = made[q],
             worker[x] = "awaiting" => ref'[x] = ref[x]
      PROVE  SleepsOnProgress(x, q)'
  BY <1>1, <1>2 DEF SleepsOnProgress, Owners
<1>3. ASSUME NEW p \in Threads, progress' = [progress EXCEPT ![p] = @ \cup {User}],
             UNCHANGED <<worker, state, pkt, made, ref, user, prev>>,
             state[p] = "SETTING_UP",
             \/ user.pc = "prev" /\ prev = p
             \/ user.pc = "serve" /\ user.p = p
      PROVE  ProgressSleepers'
  <2>1. SleepsOnProgress(User, p)'
    BY <1>3 DEF SleepsOnProgress
  <2>2. /\ progress' \in [Threads -> SUBSET (Threads \cup {User})]
        /\ progress'[p] = progress[p] \cup {User}
        /\ \A q \in Threads \ {p} : progress'[q] = progress[q]
    BY <1>3 DEF ProgressSleepers
  <2>3. \A q \in Threads : \A x \in progress[q] : SleepsOnProgress(x, q)'
    BY <1>2, <1>3
  <2>4. QED
    BY <2>1, <2>2, <2>3 DEF ProgressSleepers
<1>4. CASE AwaitPrev
  BY <1>3, <1>4 DEF AwaitPrev, UserAt, Places, decoded, queue
<1>5. CASE Serve
  <2>1. user.p \in Threads /\ user.pc = "serve"
        /\ UNCHANGED <<worker, pkt, made, ref, user, prev>>
    BY <1>5 DEF Serve, UserAt, Places, InContext, decoded, queue
  <2>2. CASE /\ state[user.p] = "SETTING_UP" /\ UNCHANGED state
             /\ progress' = [progress EXCEPT ![user.p] = @ \cup {User}]
    BY <1>3, <2>1, <2>2
  <2>3. CASE /\ state' = [state EXCEPT ![user.p] = "SETTING_UP"]
             /\ \E S \in Signalled(progress[user.p]) :
                  progress' = [progress EXCEPT ![user.p] = S]
    <3>1. ASSUME NEW x \in Threads, worker[x] = "awaiting", user.p \in Owners(ref[x])
          PROVE  FALSE
      <4>1. ref[x] < pkt[x]
        BY <3>1 DEF Phases, Working, Numbered
      <4>2. pkt[x] < pkt[user.p] + 1 /\ pkt[user.p] = ref[x]
        BY <2>1, <3>1, Names DEF Numbered, Newest, Owners
      <4>3. pkt[x] \in Nat /\ ref[x] \in Nat
        BY DEF RingTypes, Numbered
      <4>4. QED
        BY <4>1, <4>2, <4>3
    <3>2. progress[user.p] \in SUBSET {user.p}
      BY <1>1, <2>1, <3>1
    <3>3. progress' = [progress EXCEPT ![user.p] = {}]
      BY <2>3, <3>2, OneSignalled
    <3>4. /\ progress' \in [Threads -> SUBSET (Threads \cup {User})]
          /\ progress'[user.p] = {}
          /\ \A q \in Threads \ {user.p} : progress'[q] = progress[q] /\ state'[q] = state[q]
      BY <2>1, <2>3, <3>3 DEF ProgressSleepers, FrameTypes
    <3>5. \A q \in Threads \ {user.p} : \A x \in progress[q] : SleepsOnProgress(x, q)'
      BY <1>2, <2>1, <3>4
    <3>6. QED
      BY <3>4, <3>5 DEF ProgressSleepers
  <2>4. QED
    BY <1>5, <2>2, <2>3 DEF Serve
<1>6. CASE Submit
  <2>1. user.p \in Threads /\ worker[user.p] \in {"locking", "exited"}
        /\ UNCHANGED <<worker, progress>>
    BY <1>6, Names DEF Submit, UserAt, Places, InContext, Mutexes
  <2>2. \A x \in Threads \ {user.p} : ref'[x] = ref[x]
    BY <1>6 DEF Submit, Numbered
  <2>3. /\ \A q \in Threads \ {user.p} :
             state'[q] = state[q] /\ pkt'[q] = pkt[q] /\ made'[q] = made[q]
        /\ UNCHANGED <<state, pkt, made>> \/ state[user.p] \notin Asking
    <3>1. state[user.p] \notin Asking
      BY <2>1 DEF Stages, Stage
    <3>2. CASE UNCHANGED <<state, pkt, made>>
      BY <3>1, <3>2
    <3>3. CASE /\ pkt' = [pkt EXCEPT ![user.p] = client.next]
               /\ made' = [made EXCEPT ![user.p] = IF user.size THEN {} ELSE {"empty"}]
               /\ state' = [state EXCEPT ![user.p] = "SETTING_UP"]
      BY <3>1, <3>3 DEF FrameTypes, RingTypes
    <3>4. QED
      BY <1>6, <3>2, <3>3 DEF Submit
  <2>4. progress[user.p] = {}
    <3>1. made[user.p] \subseteq {"empty"}
      BY <2>1 DEF Stages, Stage, Parking
    <3>2. user.p \notin {t \in Threads : {"buffer", "report"} \cap made[t] = {"buffer"}}
      BY <3>1
    <3>3. QED
      BY <1>1, <2>1, <3>2 DEF Owners
  <2>5. \A q \in Threads : \A x \in progress[q] : SleepsOnProgress(x, q)'
    BY <1>1, <1>2, <2>1, <2>2, <2>3, <2>4
  <2>6. QED
    BY <2>1, <2>5 DEF ProgressSleepers
<1>7. CASE Flush
  <2>1. \A t \in Threads : state[t] = "INPUT_READY"
    BY <1>7 DEF Flush, UserAt, ParkedSoFar
  <2>2. \A t \in Threads : progress[t] = {}
    BY <1>1, <2>1 DEF Phases, Working, Asking
  <2>3. QED
    BY <1>7, <2>2 DEF Flush, conds, ProgressSleepers
<1>8. ASSUME UNCHANGED <<worker, progress, state, pkt, made, ref>>
      PROVE  ProgressSleepers'
  BY <1>2, <1>8 DEF ProgressSleepers
<1>9. CASE Lock \/ ReleaseDelayed \/ AwaitOutput \/ Submitted
  BY <1>8, <1>9 DEF Lock, ReleaseDelayed, AwaitOutput, Submitted, conds, decoded
<1>10. CASE Collect \/ Finish \/ Unpark \/ Parked
  BY <1>8, <1>10 DEF Collect, Finish, Unpark, Parked, conds, decoded
<1>11. CASE AllParked \/ Kill \/ Join
  BY <1>8, <1>11 DEF AllParked, Kill, Join, conds, decoded
<1>12. ASSUME NEW size \in BOOLEAN, Decode(size)
       PROVE  ProgressSleepers'
  BY <1>8, <1>12 DEF Decode, conds, decoded
<1>13. ASSUME NEW why \in {"flush", "free"}, Park(why)
       PROVE  ProgressSleepers'
  BY <1>8, <1>13 DEF Park, conds, decoded
<1>14. QED
  BY <1>4, <1>5, <1>6, <1>7, <1>9, <1>10, <1>11, <1>12, <1>13 DEF UserStep, UsersStep

\* The invariant holds when the threads have been created.
LEMMA WakeInit == Init => WakeInv
<1> SUFFICES ASSUME Init PROVE WakeInv
  OBVIOUS
<1> USE Names, NAssumption DEF NAssumption, Init, Threads
<1>1. LocksHeld /\ AsyncHeld
  BY DEF LocksHeld, MutexHeld, AsyncHeld, HasAsync
<1>2. Stages
  BY DEF Stages, Stage, Parking, Asking
<1>3. Ends
  BY DEF Ends
<1>4. Numbered /\ SetupInTurn
  BY DEF Numbered, Newest, SetupInTurn, InSetup, Asking
<1>5. InputSleepers /\ ProgressSleepers /\ OutputSleepers
  BY DEF InputSleepers, ProgressSleepers, OutputSleepers
<1>6. QED
  BY <1>1, <1>2, <1>3, <1>4, <1>5 DEF WakeInv

\* Every step keeps it.
LEMMA WakeStep == LockInv /\ RingInv /\ WakeInv /\ [Next]_vars => WakeInv'
<1> SUFFICES ASSUME LockInv, RingInv, WakeInv, [Next]_vars PROVE WakeInv'
  OBVIOUS
<1> USE DEF WakeInv
<1>a. /\ FrameTypes /\ UserType /\ Places /\ Mutexes /\ Phases /\ SetupInCall /\ ParkedSoFar
      /\ Serialized
  BY DEF LockInv
<1>b. RingTypes /\ OwedInRing
  BY DEF RingInv
<1>1. ASSUME NEW t \in Threads, Worker(t)
      PROVE  WakeInv'
  <2>1. LocksHeld' /\ AsyncHeld' /\ Stages' /\ Ends'
    BY <1>a, <1>b, <1>1, LocksHeldWorker, AsyncHeldWorker, StagesWorker, EndsWorker
  <2>2. Numbered' /\ SetupInTurn'
    BY <1>a, <1>b, <1>1, NumberedWorker, SetupInTurnWorker
  <2>3. InputSleepers' /\ ProgressSleepers' /\ OutputSleepers'
    BY <1>a, <1>b, <1>1, InputWorker, ProgressWorker, OutputWorker
  <2>4. QED
    BY <2>1, <2>2, <2>3
<1>2. CASE UsersStep
  <2>1. LocksHeld' /\ AsyncHeld' /\ Stages' /\ Ends'
    BY <1>a, <1>b, <1>2, LocksHeldUser, AsyncHeldUser, StagesUser, EndsUser
  <2>2. Numbered' /\ SetupInTurn'
    BY <1>a, <1>b, <1>2, NumberedUser, SetupInTurnUser
  <2>3. InputSleepers' /\ ProgressSleepers' /\ OutputSleepers'
    BY <1>a, <1>b, <1>2, InputUser, ProgressUser, OutputUser
  <2>4. QED
    BY <2>1, <2>2, <2>3
<1>3. CASE UNCHANGED vars
  <2> USE <1>3 DEF vars, perThread, decoded, accel, conds, locks, queue
  <2>1. LocksHeld' /\ AsyncHeld' /\ Stages' /\ Ends'
    BY DEF LocksHeld, MutexHeld, AsyncHeld, Stages, Stage, Ends
  <2>2. Numbered' /\ SetupInTurn'
    BY DEF Numbered, Newest, SetupInTurn
  <2>3. InputSleepers' /\ ProgressSleepers' /\ OutputSleepers'
    BY DEF InputSleepers, SleepsOnInput, ProgressSleepers, SleepsOnProgress, Owners,
       OutputSleepers, SleepsOnOutput
  <2>4. QED
    BY <2>1, <2>2, <2>3
<1>4. QED
  BY <1>1, <1>2, <1>3 DEF Next, UsersStep

-----------------------------------------------------------------------------
(* Somebody can go on. *)

\* A set of numbers has a least one.
LEMMA LeastNumber ==
    ASSUME NEW S \in SUBSET Nat, S # {}
    PROVE  \E j \in S : \A k \in S : j <= k
<1>1. PICK j \in S : \A k \in S : ~(<<k, j>> \in OpToRel(<, Nat))
  BY NatLessThanWellFounded, WFMin
<1>2. ASSUME NEW k \in S, k < j
      PROVE  FALSE
  BY <1>1, <1>2 DEF OpToRel
<1>3. \A k \in S : j <= k
  BY <1>2
<1>4. QED
  BY <1>3

\* What a worker that sleeps waits for.
LEMMA WorkerSleeps ==
    ASSUME InputSleepers, ProgressSleepers, OutputSleepers, NEW t \in Threads, ~Awake(t)
    PROVE  \/ worker[t] = "locking" /\ state[t] = "INPUT_READY" /\ ~die[t]
           \/ worker[t] \in {"in_format", "in_buffer"} /\ state[t] \in Asking
           \/ worker[t] = "awaiting" /\ \E q \in Threads : q \in Owners(ref[t])
<1>1. PICK q \in Threads : t \in input[q] \/ t \in progress[q] \/ t \in output[q]
  BY DEF Awake
<1>2. CASE t \in input[q]
  BY <1>2 DEF InputSleepers, SleepsOnInput
<1>3. CASE t \in progress[q]
  BY <1>3, Names DEF ProgressSleepers, SleepsOnProgress
<1>4. CASE t \in output[q]
  BY <1>4, Names DEF OutputSleepers, SleepsOnOutput
<1>5. QED
  BY <1>1, <1>2, <1>3, <1>4

\* What the user's thread waits for when it sleeps.
LEMMA UserSleeps ==
    ASSUME InputSleepers, ProgressSleepers, OutputSleepers, ~Awake(User)
    PROVE  \E t \in Threads :
             \/ state[t] = "SETTING_UP" /\ user.pc \in {"prev", "serve"}
             \/ state[t] # "INPUT_READY" /\ user.pc \in {"collect", "park"}
<1>1. PICK q \in Threads : User \in input[q] \/ User \in progress[q] \/ User \in output[q]
  BY DEF Awake
<1>2. CASE User \in input[q]
  BY <1>2, Names DEF InputSleepers, SleepsOnInput
<1>3. CASE User \in progress[q]
  BY <1>3, Names DEF ProgressSleepers, SleepsOnProgress
<1>4. CASE User \in output[q]
  BY <1>4 DEF OutputSleepers, SleepsOnOutput
<1>5. QED
  BY <1>1, <1>2, <1>3, <1>4

\* A codec that has not returned has a call to make.
LEMMA DecodeGoesOn ==
    ASSUME Stages, NEW t \in Threads, worker[t] = "decode"
    PROVE  DecodeCan(t)
<1>1. "return" \notin made[t]
  BY DEF Stages, Stage
<1>2. CASE "buffer" \in made[t] /\ "report" \notin made[t]
  BY <1>1, <1>2 DEF DecodeCan, Returned
<1>3. CASE ~("buffer" \in made[t] /\ "report" \notin made[t])
  BY <1>1, <1>3 DEF DecodeCan, Returned
<1>4. QED
  BY <1>2, <1>3

\* The owner of a frame a worker awaits is at work on an earlier packet.
LEMMA OwnerWorks ==
    ASSUME FrameTypes, RingTypes, Phases, Stages, Numbered, NEW t \in Threads,
           worker[t] = "awaiting", NEW q \in Threads, q \in Owners(ref[t])
    PROVE  worker[q] \in Working /\ pkt[q] < pkt[t]
<1>1. pkt[q] = ref[t] /\ "buffer" \in made[q]
  BY DEF Owners
<1>2. ref[t] < pkt[t]
  BY DEF Phases, Working, Numbered
<1>3. worker[q] \notin Parking
  BY <1>1 DEF Stages, Stage
<1>4. worker[q] \in Parking \cup Working
  BY DEF FrameTypes
<1>5. QED
  BY <1>1, <1>2, <1>3, <1>4

\* async_lock is the accelerator's of a worker, or the user's outside its calls.
LEMMA AsyncOwner ==
    ASSUME LockInv, WakeInv, ~AsyncFree, user.pc \notin HasAsync
    PROVE  \E q \in Threads : asyncSer[q] /\ hwLock = q /\ worker[q] \in Working
<1>1. PICK q \in Threads : asyncSer[q]
  BY DEF WakeInv, AsyncHeld, AsyncFree
<1>2. hwSer[q] /\ hwLock = q
  BY <1>1 DEF LockInv, Serialized
<1>3. worker[q] \in Working
  BY <1>2 DEF WakeInv, LocksHeld
<1>4. QED
  BY <1>1, <1>2, <1>3

\* A worker that has a packet and cannot go on awaits a frame, or another has the
\* accelerator and its own set-up is not over.
LEMMA WhyStuck ==
    ASSUME LockInv, RingTypes, WakeInv, user.pc \notin {"idle", "freed"}, ~UserCan,
           NEW t \in Threads, worker[t] \in Working, ~WorkerCan(t)
    PROVE  \/ worker[t] = "awaiting" /\ \E q \in Threads : q \in Owners(ref[t])
           \/ /\ hwLock \in Threads \ {t}
              /\ setup.update /\ state[t] = "SETTING_UP"
<1>a. Stage(t) /\ InputSleepers /\ ProgressSleepers /\ OutputSleepers
  BY DEF WakeInv, Stages
<1>b. state[t] # "INPUT_READY"
  BY DEF LockInv, Phases
<1>1. CASE worker[t] \in {"unserialize", "done"}
  BY <1>a, <1>1, WorkerSleeps DEF WorkerCan
<1>2. CASE worker[t] = "decode"
  <2>1. Awake(t) /\ DecodeCan(t)
    BY <1>a, <1>2, WorkerSleeps, DecodeGoesOn DEF WakeInv
  <2>2. QED
    BY <1>2, <2>1 DEF WorkerCan
<1>3. CASE worker[t] \in {"in_format", "in_buffer"}
  <2>1. state[t] \in InSetup
    BY <1>a, <1>3 DEF Stage
  <2>2. CASE state[t] = "SETTING_UP"
    <3>1. Awake(t)
      BY <1>a, <1>3, <2>2, WorkerSleeps DEF Asking
    <3>2. QED
      BY <1>3, <2>2, <3>1 DEF WorkerCan
  <2>3. CASE state[t] \in Asking
    <3>1. ~setup.safe
      BY <2>3 DEF LockInv, Phases, Asking
    <3>2. \A q \in Threads : state[q] \in InSetup => q = user.p
      BY <3>1 DEF LockInv, SetupInCall, InSetup, Asking
    <3>3. user.pc = "serve" /\ user.p = t
      BY <2>1, <3>1 DEF LockInv, SetupInCall, InSetup, Asking
    <3>4. Awake(User)
      <4>1. SUFFICES ASSUME NEW q \in Threads, state[q] = "SETTING_UP"
                     PROVE  FALSE
        BY <1>a, <3>3, UserSleeps
      <4>2. q = t
        BY <3>2, <3>3, <4>1 DEF InSetup
      <4>3. QED
        BY <2>3, <4>1, <4>2 DEF Asking
    <3>5. QED
      BY <3>3, <3>4 DEF UserCan
  <2>4. QED
    BY <2>1, <2>2, <2>3 DEF InSetup
<1>4. CASE worker[t] = "awaiting"
  <2>1. ~Awake(t)
    BY <1>4 DEF WorkerCan
  <2>2. QED
    BY <1>a, <1>4, <2>1, WorkerSleeps
<1>5. CASE worker[t] = "lock_hw"
  <2>1. Awake(t)
    BY <1>a, <1>5, WorkerSleeps
  <2>2. hwLock # None
    BY <1>5, <2>1 DEF WorkerCan
  <2>3. hwLock # t
    BY <1>5 DEF LockInv, Serialized, WakeInv, LocksHeld
  <2>4. setup.update /\ state[t] = "SETTING_UP"
    BY <1>a, <1>5 DEF LockInv, Phases, Stage
  <2>5. QED
    BY <2>2, <2>3, <2>4 DEF LockInv, FrameTypes
<1>6. CASE worker[t] = "finish_setup"
  <2>1. Awake(t)
    BY <1>a, <1>6, WorkerSleeps
  <2>2. hwaccel[t] => setup.update
    BY DEF LockInv, Serialized
  <2>3. state[t] = "SETTING_UP"
    BY <1>a, <1>6 DEF Stage
  <2>4. CASE hwaccel[t] /\ ~hwSer[t] /\ hwLock # None
    <3>1. hwLock # t
      BY <2>4 DEF LockInv, Serialized
    <3>2. QED
      BY <2>2, <2>3, <2>4, <3>1 DEF LockInv, FrameTypes
  <2>5. CASE hwSer[t] /\ ~asyncSer[t] /\ ~AsyncFree
    <3>1. user.pc \notin HasAsync
      <4>1. user.pc # "flush"
        BY <1>b DEF LockInv, ParkedSoFar
      <4>2. user.pc # "free"
        BY <1>b DEF WakeInv, Ends
      <4>3. user.pc # "unpark"
        <5>1. SUFFICES ASSUME user.pc = "unpark" PROVE FALSE
          OBVIOUS
        <5>2. Awake(User)
          BY <1>a, <5>1, UserSleeps
        <5>3. QED
          BY <5>1, <5>2 DEF UserCan
      <4>4. QED
        BY <4>1, <4>2, <4>3 DEF HasAsync
    <3>2. PICK q \in Threads : asyncSer[q] /\ hwLock = q
      BY <2>5, <3>1, AsyncOwner
    <3>3. hwLock = t
      BY <2>5 DEF LockInv, Serialized
    <3>4. QED
      BY <2>5, <3>2, <3>3
  <2>6. QED
    BY <1>6, <2>1, <2>4, <2>5 DEF WorkerCan
<1>7. QED
  BY <1>1, <1>2, <1>3, <1>4, <1>5, <1>6 DEF Working

\* Of the workers with a packet the one with the earliest can go on, or another that has
\* the accelerator, or the user's thread.
LEMMA WorkGoesOn ==
    ASSUME LockInv, RingTypes, WakeInv, user.pc \notin {"idle", "freed"}, ~UserCan,
           NEW w \in Threads, worker[w] \in Working
    PROVE  \E t \in Threads : WorkerCan(t)
<1> SUFFICES ASSUME \A t \in Threads : ~WorkerCan(t)
             PROVE  FALSE
  OBVIOUS
<1> DEFINE S == {pkt[t] : t \in {q \in Threads : worker[q] \in Working}}
<1>1. PICK t \in Threads : /\ worker[t] \in Working
                           /\ \A q \in Threads : worker[q] \in Working => pkt[t] <= pkt[q]
  <2>1. S \in SUBSET Nat /\ S # {}
    BY DEF RingTypes
  <2>2. PICK j \in S : \A k \in S : j <= k
    <3> HIDE DEF S
    <3>1. QED
      BY <2>1, LeastNumber
  <2>3. QED
    BY <2>2
<1> HIDE DEF S
<1>2. \A q \in Threads : pkt[q] \in Nat
  BY DEF RingTypes
<1>3. ASSUME NEW q \in Threads, worker[q] = "awaiting", NEW r \in Threads, r \in Owners(ref[q])
      PROVE  pkt[t] < pkt[q]
  <2>1. worker[r] \in Working /\ pkt[r] < pkt[q]
    BY <1>3, OwnerWorks DEF LockInv, WakeInv
  <2>2. QED
    BY <1>1, <1>2, <2>1
<1>4. hwLock \in Threads \ {t} /\ setup.update /\ state[t] = "SETTING_UP"
  <2>1. ~(worker[t] = "awaiting" /\ \E q \in Threads : q \in Owners(ref[t]))
    BY <1>2, <1>3
  <2>2. QED
    BY <1>1, <2>1, WhyStuck
<1>5. PICK q \in Threads : q = hwLock /\ worker[q] \in Working
  <2>1. hwSer[hwLock]
    BY <1>4 DEF LockInv, Serialized
  <2>2. QED
    BY <1>4, <2>1 DEF WakeInv, LocksHeld
<1>6. worker[q] = "awaiting" /\ \E r \in Threads : r \in Owners(ref[q])
  BY <1>5, WhyStuck
<1>7. pkt[t] < pkt[q]
  BY <1>3, <1>6
<1>8. pkt[t] + 1 = client.next /\ pkt[q] < client.next
  <2>1. t = Newest
    BY <1>4 DEF WakeInv, SetupInTurn, InSetup
  <2>2. QED
    BY <2>1, Names DEF WakeInv, Numbered
<1>9. QED
  BY <1>2, <1>7, <1>8

\* In every state of a call the user's thread or a worker can go on.
LEMMA SomebodyCan ==
    ASSUME LockInv, RingInv, WakeInv
    PROVE  NeverStuck
<1> SUFFICES ASSUME user.pc \notin {"idle", "freed"}, ~UserCan,
                    \A t \in Threads : ~WorkerCan(t)
             PROVE  FALSE
  BY DEF NeverStuck
<1>a. InputSleepers /\ ProgressSleepers /\ OutputSleepers
  BY DEF WakeInv
<1>1. \A t \in Threads : worker[t] \notin Working
  BY WorkGoesOn DEF RingInv
<1>2. ASSUME NEW t \in Threads
      PROVE  worker[t] \in {"locking", "exited"}
  <2>1. worker[t] \in Parking
    BY <1>1 DEF LockInv, FrameTypes
  <2>2. worker[t] # "wait"
    <3>1. SUFFICES ASSUME worker[t] = "wait" PROVE FALSE
      OBVIOUS
    <3>2. Awake(t)
      BY <1>a, <3>1, WorkerSleeps
    <3>3. QED
      BY <3>1, <3>2 DEF WorkerCan
  <2>3. QED
    BY <2>1, <2>2 DEF Parking
<1>3. ASSUME NEW t \in Threads
      PROVE  \/ mutex[t] = None
             \/ user.pc \in {"release", "prev"} /\ user.p = t
  BY <1>2 DEF WakeInv, LocksHeld, MutexHeld
<1>4. bufLock = None
  BY <1>2 DEF WakeInv, LocksHeld
<1>5. user.pc \in HasAsync \/ AsyncFree
  BY <1>1, AsyncOwner
<1>6. ASSUME NEW t \in Threads
      PROVE  state[t] = "INPUT_READY"
  <2>1. state[t] \in {"INPUT_READY", "SETTING_UP"}
    BY <1>2 DEF LockInv, Phases, Parking
  <2>2. CASE worker[t] = "exited"
    BY <2>2 DEF WakeInv, Ends
  <2>3. CASE worker[t] = "locking" /\ Awake(t)
    <3>1. user.pc \in {"release", "prev"} /\ user.p = t
      BY <1>3, <2>3 DEF WorkerCan
    <3>2. QED
      BY <3>1, FreshContext DEF LockInv
  <2>4. CASE worker[t] = "locking" /\ ~Awake(t)
    BY <1>a, <2>4, WorkerSleeps
  <2>5. QED
    BY <1>2, <2>2, <2>3, <2>4
<1>7. Awake(User)
  BY <1>a, <1>6, UserSleeps
<1>8. user.pc \in UserPcs \ {"idle", "freed"}
  BY DEF LockInv, UserType
<1>9. user.pc \notin {"prev", "serve", "collect", "unpark"}
  BY <1>7 DEF UserCan
<1>10. user.pc # "lock"
  <2>1. user.pc = "lock" => user.p \in Threads
    BY DEF LockInv, Places, InContext
  <2>2. QED
    BY <1>3, <1>7, <2>1 DEF UserCan
<1>11. user.pc \notin {"release", "flush"}
  BY <1>4, <1>7 DEF UserCan
<1>12. user.pc \notin {"finish", "park"}
  BY <1>5, <1>7 DEF UserCan, HasAsync
<1>13. user.pc # "free"
  <2>1. SUFFICES ASSUME user.pc = "free" PROVE FALSE
    OBVIOUS
  <2>2. user.p \in Threads /\ die[user.p] \in BOOLEAN
    BY <2>1 DEF WakeInv, Ends
  <2>3. mutex[user.p] = None
    BY <1>3, <2>1, <2>2
  <2>4. die[user.p] /\ worker[user.p] = "locking"
    BY <1>2, <1>4, <1>7, <2>1, <2>2, <2>3 DEF UserCan
  <2>5. Awake(user.p)
    BY <1>a, <2>2, <2>4, WorkerSleeps
  <2>6. QED
    BY <2>2, <2>3, <2>4, <2>5 DEF WorkerCan
<1>14. QED
  BY <1>8, <1>9, <1>10, <1>11, <1>12, <1>13 DEF UserPcs, InContext, HasAsync

\* No wake-up is lost and no two threads wait for each other (the waits of
\* pthread_frame.c on input_cond, progress_cond, output_cond and async_cond, and its
\* mutexes): in every state of a call of the client the thread of that call or a worker
\* can take its next step, with any number of threads and any codec and client.
THEOREM NobodyWaitsInVain == Spec => []NeverStuck
<1>1. Init => WakeInv
  BY WakeInit
<1>2. LockInv /\ RingInv /\ WakeInv /\ [Next]_vars => WakeInv'
  BY WakeStep
<1>3. Spec => []WakeInv
  BY <1>1, <1>2, LocksAgree, RingInOrder, PTL DEF Spec
<1>4. LockInv /\ RingInv /\ WakeInv => NeverStuck
  BY SomebodyCan
<1>5. QED
  BY <1>3, <1>4, LocksAgree, RingInOrder, PTL

=============================================================================
