--------------------------- MODULE CCMAudioManager ---------------------------
(***************************************************************************)
(* lib/CCMAudioManager/CCMAudioManager.ts: music, sound effects and        *)
(* background music.  A sound is asked for by a clip, which the engine     *)
(* plays at once, or by a url, whose clip loads first; either way the      *)
(* manager learns of the sound's id in a later microtask.  pc[s] is how    *)
(* far the call for sound s has come:                                      *)
(*    stopping        stops the other music first (40)                     *)
(*    loading         awaits the clip (182)                                *)
(*    loaded, failed  the load has ended, the promise is to go on          *)
(*    started         it plays, its id is to be recorded (42, 87, 121)     *)
(*    done            recorded, or its failure is being reported           *)
(*    raised          the call raised a TypeError before it came to play   *)
(* A sound is silent before it plays and over after it, or when its load   *)
(* has failed.                                                             *)
(*                                                                         *)
(* The call backs of the application run inside the manager's code, which  *)
(* has still to report onEnd and to delete the sound from its map, and     *)
(* they may call the manager again: stack holds what that code has still   *)
(* to do, the innermost first.  setVolume and the volume of a call are     *)
(* left out.                                                               *)
(***************************************************************************)
EXTENDS Naturals, SequencesExt

CONSTANTS
    Uses,       \* the ways in which applications use the manager
    MaxSounds,  \* bound: calls made in any use
    MaxDepth    \* bound: call backs one within the other

Kinds == {"music", "effect", "bgm"}
\* options: the options argument is given; loop is part of it.
Call == [kind : Kinds, byUrl : BOOLEAN, stopOther : BOOLEAN,
         options : BOOLEAN, loop : BOOLEAN]

\* settled: it calls in turns of its own, with no microtask pending.
Use == [calls : SUBSET Call,        \* the sounds it asks for
        mayFail : BOOLEAN,          \* a clip may fail to load
        mayStopAll : BOOLEAN,       \* it calls stopAll
        settled : BOOLEAN,
        nested : BOOLEAN,           \* its call backs call the manager
        most : 0 .. MaxSounds]      \* bound: calls it makes

ASSUME UsesAssumption == \A u \in Uses : u \in Use
ASSUME BoundAssumption == MaxSounds \in Nat /\ MaxDepth \in Nat

VARIABLES
    use,        \* the way this application uses the manager
    calls,      \* the calls made, one for each sound
    pc,
    sound,      \* external: the state of each sound in cc.audioEngine
    music,      \* keys of musicPlayCallback, in the order of a Map
    effects,    \* keys of effectPlayCallback
    bgm,        \* bgmAudioID, 0 for -1
    stack,      \* what the manager has still to do after the call backs that run
    ends        \* history: how often the onEnd of each sound was called, 2 for more

vars == <<use, calls, pc, sound, music, effects, bgm, stack, ends>>

Sounds == 1 .. MaxSounds
Made == 1 .. Len(calls)

\* A forEach over a map (60-81, 105-112).  A sound that has finished (44-50) or
\* failed (51-57) is one that has come to its last key.
Frame == [op : {"end", "pause", "resume"},
          map : {"music", "effect", "none"},    \* a failed sound is in none
          rest : SUBSET Sounds,         \* keys it has not come to yet
          at : {"next",                 \* it goes on to the next key
                "first",                \* in onStop, onComplete or onError of s
                "last"},                \* in onEnd, onPause or onResume of s
          s : Sounds \cup {0},
          call : Sounds \cup {0}]       \* the call that plays after it (42), or 0

TypeOK ==
    /\ use \in Uses
    /\ calls \in Seq(Call) /\ Len(calls) <= MaxSounds
    /\ pc \in [Sounds -> {"none", "stopping", "loading", "loaded", "failed",
                          "started", "done", "raised"}]
    /\ sound \in [Sounds -> {"silent", "playing", "paused", "over"}]
    /\ music \in Seq(Sounds) /\ effects \in Seq(Sounds)
    /\ bgm \in Sounds \cup {0}
    /\ stack \in Seq(Frame)
    /\ ends \in [Sounds -> 0 .. 2]

Init ==
    /\ use \in Uses
    /\ calls = <<>>
    /\ pc = [s \in Sounds |-> "none"]
    /\ sound = [s \in Sounds |-> "silent"]
    /\ music = <<>> /\ effects = <<>> /\ bgm = 0
    /\ stack = <<>>
    /\ ends = [s \in Sounds |-> 0]

-----------------------------------------------------------------------------
(* An operator named after a slip is the mutant of the definition below it. *)

Sounding(s) == sound[s] \in {"playing", "paused"}
OfKind(k) == {s \in Made : calls[s].kind = k}

\* cc.audioEngine.stop, pause and resume; on a sound that is over, nothing.
StopSounds(S) == [s \in Sounds |-> IF s \in S /\ Sounding(s) THEN "over" ELSE sound[s]]
PauseSounds(S) ==
    [s \in Sounds |-> IF s \in S /\ sound[s] = "playing" THEN "paused" ELSE sound[s]]
ResumeSounds(S) ==
    [s \in Sounds |-> IF s \in S /\ sound[s] = "paused" THEN "playing" ELSE sound[s]]

Microtasks == \E s \in Made : pc[s] \in {"loaded", "failed", "started"}

\* The application calls in a turn of its own, or from a call back of the manager.
AppTurn ==
    IF stack = <<>> THEN use.settled => ~Microtasks
    ELSE use.nested /\ Head(stack).at # "next" /\ Len(stack) < MaxDepth

\* The manager's code that runs, when no call back does.
InLoop == stack # <<>> /\ Head(stack).at = "next"
Entered(op, map, rest, call) ==
    <<[op |-> op, map |-> map, rest |-> rest, at |-> "next", s |-> 0, call |-> call]>>
        \o stack
Replaced(f) == <<f>> \o Tail(stack)

\* The keys a forEach is to come to: those of its map when it starts, for none is
\* recorded before it ends; one that was deleted meanwhile it does not meet.
AllButTheLast(map) == {map[i] : i \in {j \in 1 .. Len(map) : j < Len(map)}}
Keys(map) == ToSet(map)
MapOf(k) == IF k = "music" THEN music ELSE effects
NextIndex == SelectInSeq(MapOf(Head(stack).map), LAMBDA k : k \in Head(stack).rest)
NextKey == MapOf(Head(stack).map)[NextIndex]

\* map.delete
NotDeleted(map, s) == map
AllDeleted(map, s) == <<>>
Deleted(map, s) == RemoveFirst(map, s)

\* play(): the clip plays at once or loads.
Begun(c) == IF c.byUrl THEN "loading" ELSE "started"
Begins(snd, s, c) == [snd EXCEPT ![s] = IF c.byUrl THEN @ ELSE "playing"]

\* A call is made, and comes to p.
Called(c, p) ==
    /\ Len(calls) < use.most
    /\ calls' = Append(calls, c)
    /\ pc' = [pc EXCEPT ![Len(calls) + 1] = p]

\* It plays, after sounds were stopped.
Plays(c, stopped) ==
    /\ Called(c, Begun(c))
    /\ sound' = Begins(stopped, Len(calls) + 1, c)

-----------------------------------------------------------------------------
(* Calls of the application. *)

PlayMusic(c) ==
    /\ c.kind = "music"
    /\ IF c.stopOther
       THEN /\ Called(c, "stopping")
            /\ stack' = Entered("end", "music", Keys(music), Len(calls) + 1)
            /\ UNCHANGED sound
       ELSE Plays(c, sound) /\ UNCHANGED stack
    /\ UNCHANGED <<music, effects, bgm, ends>>

PlayEffect(c) ==
    /\ c.kind = "effect"
    /\ Plays(c, sound)
    /\ UNCHANGED <<music, effects, bgm, stack, ends>>

PlayBGM(c) ==
    /\ c.kind = "bgm"
    /\ Plays(c, StopSounds({bgm}))
    /\ bgm' = 0
    /\ UNCHANGED <<music, effects, stack, ends>>

PauseAllMusic ==
    /\ stack' = Entered("pause", "music", Keys(music), 0)
    /\ UNCHANGED <<calls, pc, sound, music, effects, bgm, ends>>
ResumeAllMusic ==
    /\ stack' = Entered("resume", "music", Keys(music), 0)
    /\ UNCHANGED <<calls, pc, sound, music, effects, bgm, ends>>
StopAllMusic ==
    /\ stack' = Entered("end", "music", Keys(music), 0)
    /\ UNCHANGED <<calls, pc, sound, music, effects, bgm, ends>>
StopAllEffects ==
    /\ stack' = Entered("end", "effect", Keys(effects), 0)
    /\ UNCHANGED <<calls, pc, sound, music, effects, bgm, ends>>

PauseBGM ==
    /\ sound' = PauseSounds({bgm})
    /\ UNCHANGED <<calls, pc, music, effects, bgm, stack, ends>>
ResumeBGM ==
    /\ sound' = ResumeSounds({bgm})
    /\ UNCHANGED <<calls, pc, music, effects, bgm, stack, ends>>
StopBGM ==
    /\ sound' = StopSounds({bgm})
    /\ bgm' = 0
    /\ UNCHANGED <<calls, pc, music, effects, stack, ends>>

\* stopAll; bgmAudioID stays.
StopAll ==
    /\ use.mayStopAll
    /\ music' = <<>> /\ effects' = <<>>
    /\ sound' = StopSounds(Sounds)
    /\ UNCHANGED <<calls, pc, bgm, stack, ends>>

-----------------------------------------------------------------------------
(* The manager's loops, from one call back to the next; no other code runs in *)
(* between.                                                                  *)

\* The engine is told first (62, 69, 76, 107).
Told(op, s) == CASE op = "end" -> StopSounds({s})
                 [] op = "pause" -> PauseSounds({s})
                 [] op = "resume" -> ResumeSounds({s})

CallsBack ==
    /\ InLoop /\ NextIndex # 0 /\ calls[NextKey].options
    /\ sound' = Told(Head(stack).op, NextKey)
    /\ stack' = Replaced([Head(stack) EXCEPT
                              !.at = IF Head(stack).op = "end" THEN "first" ELSE "last",
                              !.s = NextKey, !.rest = @ \ {NextKey}])
    /\ UNCHANGED <<calls, pc, music, effects, bgm, ends>>

\* At a sound without options the access to a call back of undefined raises (63,
\* 70, 77, 108), through everything that has not returned yet.
Raises ==
    /\ InLoop /\ NextIndex # 0 /\ ~calls[NextKey].options
    /\ sound' = Told(Head(stack).op, NextKey)
    /\ stack' = <<>>
    /\ pc' = [s \in Sounds |-> IF pc[s] = "stopping" THEN "raised" ELSE pc[s]]
    /\ UNCHANGED <<calls, music, effects, bgm, ends>>

\* No key is left; playMusic plays.
LoopEnds ==
    /\ InLoop /\ NextIndex = 0
    /\ stack' = Tail(stack)
    /\ LET s == Head(stack).call
       IN  IF s = 0 THEN UNCHANGED <<pc, sound>>
           ELSE /\ pc' = [pc EXCEPT ![s] = Begun(calls[s])]
                /\ sound' = Begins(sound, s, calls[s])
    /\ UNCHANGED <<calls, music, effects, bgm, ends>>

\* onStop, onComplete or onError returns, and onEnd is called.
FirstReturns ==
    /\ stack # <<>> /\ Head(stack).at = "first"
    /\ stack' = Replaced([Head(stack) EXCEPT !.at = "last"])
    /\ ends' = [ends EXCEPT ![Head(stack).s] = IF @ < 2 THEN @ + 1 ELSE @]
    /\ UNCHANGED <<calls, pc, sound, music, effects, bgm>>

\* onEnd, onPause or onResume returns; only now is the sound that ended deleted.
LastReturns ==
    /\ stack # <<>> /\ Head(stack).at = "last"
    /\ LET f == Head(stack)
       IN  /\ stack' = Replaced([f EXCEPT !.at = "next"])
           /\ music' = IF f.op = "end" /\ f.map = "music" THEN Deleted(music, f.s)
                       ELSE music
           /\ effects' = IF f.op = "end" /\ f.map = "effect" THEN Deleted(effects, f.s)
                         ELSE effects
    /\ UNCHANGED <<calls, pc, sound, bgm, ends>>

-----------------------------------------------------------------------------
(* The engine and the promises: nothing of the manager is on the stack then. *)

\* A sound is over, and its call backs are called.
Reporting(map, s) ==
    <<[op |-> "end", map |-> map, rest |-> {}, at |-> "first", s |-> s, call |-> 0]>>

LoadEnds(s) ==
    /\ stack = <<>> /\ pc[s] = "loading"
    /\ \E answer \in {"loaded"} \cup (IF use.mayFail THEN {"failed"} ELSE {}) :
           pc' = [pc EXCEPT ![s] = answer]
    /\ UNCHANGED <<calls, sound, music, effects, bgm, stack, ends>>

\* then: the clip is played (183).
ClipPlays(s) ==
    /\ stack = <<>> /\ pc[s] = "loaded"
    /\ pc' = [pc EXCEPT ![s] = "started"]
    /\ sound' = [sound EXCEPT ![s] = "playing"]
    /\ UNCHANGED <<calls, music, effects, bgm, stack, ends>>

Recorded(map, s) == Append(map, s)

\* then: the id of the sound is recorded.
Records(s) ==
    LET k == calls[s].kind
    IN  /\ stack = <<>> /\ pc[s] = "started"
        /\ pc' = [pc EXCEPT ![s] = "done"]
        /\ music' = IF k = "music" THEN Recorded(music, s) ELSE music
        /\ effects' = IF k = "effect" THEN Recorded(effects, s) ELSE effects
        /\ bgm' = IF k = "bgm" THEN s ELSE bgm
        /\ UNCHANGED <<calls, sound, stack, ends>>

\* catch: background music has no call backs (123-125).
ReportsFailure(s) ==
    /\ stack = <<>> /\ pc[s] = "failed"
    /\ pc' = [pc EXCEPT ![s] = "done"]
    /\ sound' = [sound EXCEPT ![s] = "over"]
    /\ stack' = IF calls[s].kind # "bgm" /\ calls[s].options
                THEN Reporting("none", s) ELSE stack
    /\ UNCHANGED <<calls, music, effects, bgm, ends>>

\* The finish call back of the engine, for a sound that does not loop.
SoundFinishes(s) ==
    /\ stack = <<>>
    /\ pc[s] = "done" /\ sound[s] = "playing"
    /\ ~calls[s].loop /\ calls[s].kind # "bgm"
    /\ sound' = [sound EXCEPT ![s] = "over"]
    /\ IF calls[s].options
       THEN stack' = Reporting(calls[s].kind, s) /\ UNCHANGED <<music, effects>>
       ELSE music' = Deleted(music, s) /\ effects' = Deleted(effects, s) /\ UNCHANGED stack
    /\ UNCHANGED <<calls, pc, bgm, ends>>

-----------------------------------------------------------------------------
Next ==
    /\ \/ /\ AppTurn
          /\ \/ \E c \in use.calls : PlayMusic(c) \/ PlayEffect(c) \/ PlayBGM(c)
             \/ PauseAllMusic \/ ResumeAllMusic \/ StopAllMusic \/ StopAllEffects
             \/ PauseBGM \/ ResumeBGM \/ StopBGM
             \/ StopAll
       \/ CallsBack \/ Raises \/ LoopEnds \/ FirstReturns \/ LastReturns
       \/ \E s \in Made : \/ LoadEnds(s) \/ ClipPlays(s) \/ Records(s)
                          \/ ReportsFailure(s) \/ SoundFinishes(s)
    /\ UNCHANGED use

Spec == Init /\ [][Next]_vars

-----------------------------------------------------------------------------
(* Properties. *)

\* Every music and effect that sounds can still be stopped, in every use: its id is
\* in its map from the moment the promise goes on (43, 88), through calls that
\* raise half way (74-81), finished sounds, a stopAll between two microtasks and
\* call backs that stop or play others.
SoundsAreTracked ==
    \A s \in Made : (Sounding(s) /\ pc[s] = "done") =>
        /\ calls[s].kind = "music" => s \in ToSet(music)
        /\ calls[s].kind = "effect" => s \in ToSet(effects)

\* onEnd is called at most once for a sound, though it may be stopped while it
\* loads, be over before its id is recorded, or stay in the map of a call that
\* raised (42-50, 74-81).
EndsOnce == \A s \in Made : ends[s] <= 1

\* In a use that calls in turns of its own, onEnd has been called, when the manager
\* has done, for every sound that has completed, failed or was stopped ("onComplete
\* || onError || onStop", line 7); call backs that call the manager are allowed for
\* where every call gives options, so that none raises.
EveryEndIsTold ==
    (use.settled /\ stack = <<>> /\ (use.nested => \A c \in use.calls : c.options)) =>
        \A s \in Made : (calls[s].kind # "bgm" /\ calls[s].options /\ sound[s] = "over")
                            => ends[s] > 0

\* onEnd tells the end of a sound: in every use not before the sound is over; where
\* it must, above; and once, unless a call back calls the manager while its sound
\* is still in the map (44-50, 74-81).
EndIsReported ==
    /\ \A s \in Made : ends[s] > 0 => sound[s] = "over"
    /\ EveryEndIsTold
    /\ ~use.nested => EndsOnce

\* It calls in turns of its own, and not from call backs.
Orderly == use.settled /\ ~use.nested

\* "By default stops the other music that has not finished" (line 36): no music
\* sounds on beside one that was asked for later; calls in turns of their own.
OneMusic ==
    Orderly => \A r, s \in OfKind("music") :
        (r < s /\ calls[s].stopOther) => ~(Sounding(r) /\ Sounding(s))

\* "Only one background music plays at a time" (line 115), whether it is paused,
\* stopped or replaced in between; calls in turns of their own.
OneBGM ==
    Orderly => \A r, s \in OfKind("bgm") : (Sounding(r) /\ Sounding(s)) => r = s

\* A call to play a sound plays it, or reports why not: it never raises.
CallsAreCarriedOut == \A s \in Made : pc[s] # "raised"

=============================================================================
