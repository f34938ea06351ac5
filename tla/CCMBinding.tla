----------------------------- MODULE CCMBinding -----------------------------
(***************************************************************************)
(* Calls of native methods from the game (CCMBinding/CCMBinding.ts): the   *)
(* functions a call leaves on window for the native side to answer with,   *)
(* its timer and its promise.                                              *)
(*                                                                         *)
(* The native side is the environment: it may answer once, late or never,  *)
(* and report progress while it works.  Names are unique, one for each     *)
(* call (AUTO_INCREASE_ID).                                                *)
(*                                                                         *)
(* An operator named after a slip is the mutant of the definition below it. *)
(***************************************************************************)
EXTENDS Naturals

CONSTANTS Calls, MaxProgress

VARIABLES
    platform,     \* where the game runs: "android", "ios" or "other"
    opts,         \* _options of each call
    promise,      \* "none", "pending", "resolved" or "rejected"
    callbacks,    \* the calls whose window[cbName] there is
    progressCbs,  \* the calls whose window[cbProgressName] there is
    timers,       \* the calls whose timer runs
    native,       \* "idle", "running" or "done", for each call
    heard         \* how often the onProgress of a call was called

window == <<callbacks, progressCbs>>
bindingVars == <<platform, opts, promise, window, timers, native, heard>>

Options == [hasCallback : BOOLEAN, onProgress : BOOLEAN]
Default == [hasCallback |-> TRUE, onProgress |-> FALSE]

BindingInit ==
    /\ opts = [c \in Calls |-> Default]
    /\ promise = [c \in Calls |-> "none"]
    /\ callbacks = {} /\ progressCbs = {} /\ timers = {}
    /\ native = [c \in Calls |-> "idle"]
    /\ heard = [c \in Calls |-> 0]

-----------------------------------------------------------------------------

\* clearCallback; the timer that fired is not cleared again.
ForgetResult(c) ==
    /\ callbacks' = callbacks \ {c}
    /\ timers' = timers \ {c}
    /\ UNCHANGED progressCbs
ClearCallback(c) ==
    /\ callbacks' = callbacks \ {c}
    /\ progressCbs' = progressCbs \ {c}
    /\ timers' = timers \ {c}

\* A promise that is settled stays as it is.
Settle(c, how) ==
    promise' = [promise EXCEPT ![c] = IF @ = "pending" THEN how ELSE @]

\* With neither option there is nothing the native side could answer with.
RegisteredUntimed(c, o) ==
    /\ callbacks' = callbacks \cup {c} /\ progressCbs' = progressCbs \cup {c}
    /\ UNCHANGED timers
Registered(c, o) ==
    IF o.hasCallback \/ o.onProgress
    THEN /\ callbacks' = callbacks \cup {c}
         /\ progressCbs' = progressCbs \cup {c}
         /\ timers' = timers \cup {c}
    ELSE UNCHANGED <<window, timers>>

\* callNativeMethod, when the native side takes the call: it answers 0, or on
\* iOS anything.
CallTaken(c, o) ==
    /\ promise[c] = "none" /\ platform \in {"android", "ios"}
    /\ opts' = [opts EXCEPT ![c] = o]
    /\ promise' = [promise EXCEPT ![c] = "pending"]
    /\ native' = [native EXCEPT ![c] = "running"]
    /\ Registered(c, o)
    /\ UNCHANGED <<platform, heard>>

\* The call is refused: Android answers an error code, other platforms have no
\* native side.  Without hasCallback Android leaves window and timer alone.
CallRefused(c, o) ==
    /\ promise[c] = "none" /\ platform \in {"android", "other"}
    /\ opts' = [opts EXCEPT ![c] = o]
    /\ promise' = [promise EXCEPT ![c] = "rejected"]
    /\ IF platform = "android" /\ ~o.hasCallback
       THEN Registered(c, o)
       ELSE UNCHANGED <<window, timers>>
    /\ UNCHANGED <<platform, native, heard>>

\* The timer of a call fires.
CallTimesOut(c) ==
    /\ c \in timers
    /\ IF c \in callbacks
       THEN ClearCallback(c) /\ Settle(c, "rejected")
       ELSE timers' = timers \ {c} /\ UNCHANGED <<window, promise>>
    /\ UNCHANGED <<platform, opts, native, heard>>

\* The native side answers: code 0, an error, or nothing at all.  Without the
\* function on window the answer is lost.
NativeResult(c, how) ==
    /\ native[c] = "running"
    /\ native' = [native EXCEPT ![c] = "done"]
    /\ IF c \in callbacks
       THEN Settle(c, how) /\ ClearCallback(c)
       ELSE UNCHANGED <<promise, window, timers>>
    /\ UNCHANGED <<platform, opts, heard>>

\* It reports progress, which the call may not want to hear of.
NativeProgress(c) ==
    /\ native[c] = "running" /\ c \in progressCbs /\ opts[c].onProgress
    /\ heard[c] < MaxProgress
    /\ heard' = [heard EXCEPT ![c] = @ + 1]
    /\ UNCHANGED <<platform, opts, promise, window, timers, native>>

-----------------------------------------------------------------------------
(* Properties.                                                             *)

\* A call whose answer somebody waits for settles, whatever the native side does:
\* a call without hasCallback waits for nothing but its onProgress.
CallsSettle ==
    \A c \in Calls :
      promise[c] = "pending" /\ (opts[c].hasCallback \/ opts[c].onProgress)
        ~> promise[c] # "pending"

\* What a settled call left on window, and its timer, do not stay.
NothingStays ==
    \A c \in Calls :
      promise[c] \in {"resolved", "rejected"}
        ~> c \notin callbacks \cup progressCbs \cup timers

\* onProgress is not called any more when the promise is settled.
ProgressInTime ==
    [][\A c \in Calls : heard'[c] # heard[c] => promise[c] = "pending"]_bindingVars
=============================================================================
