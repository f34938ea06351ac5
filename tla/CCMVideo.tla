------------------------------- MODULE CCMVideo -------------------------------
(***************************************************************************)
(* lib/CCMVideo/CCMVideo.ts: the states of the video component against the  *)
(* player it drives (impl: gfx.Video on devices, a <video> element in a    *)
(* browser), the calls of the application and the game's going to the      *)
(* background.  The player tells of its changes by events.                 *)
(*                                                                         *)
(* Left out: seek and sizes, the buffering flag that nothing reads, the    *)
(* textures, destruction, and listeners of the node events 'playing',      *)
(* 'paused' and 'stopped' that call the component while it is in the       *)
(* middle of the change they are told of.  The handlers in videoPlayerEvent *)
(* are told when a change is complete, and their calls are the             *)
(* application's; only 'ready' is told in the middle (432-434).            *)
(***************************************************************************)
EXTENDS Naturals, Sequences

CONSTANTS
    Setups,     \* the setups the component is used in
    MaxClips,   \* bound: sources set
    MaxEvents   \* bound: events on their way

\* native: CC_JSB, the player of a device, not of a browser; loop: the loop
\* property; late: events may be on their way while the application calls or the
\* game is hidden or shown.
Setup == [native : BOOLEAN, loop : BOOLEAN, late : BOOLEAN]

ASSUME SetupsAssumption == Setups \subseteq Setup
ASSUME BoundsAssumption == MaxClips \in Nat /\ MaxEvents \in Nat

VARIABLES
    setup,          \* one of Setups, for good
    currentState, targetState,
    loaded,         \* of the browser's player: it was ready for this source
    inBackground, lastPlayState,
    enabled,        \* the component is enabled: it listens to show and hide
    announcing,     \* in the middle of onReadyToPlay (432-434)
    player,         \* external: the state of the player
    events,         \* external: its events on their way, oldest first
    hidden,         \* external: the game is in the background
    clips,          \* how many sources were set
    asked           \* history: the last call for this source

states == <<currentState, targetState>>
background == <<inBackground, lastPlayState, hidden>>
dynamic == <<states, loaded, background, enabled, announcing, player, events, clips, asked>>
vars == <<setup, dynamic>>

VideoStates == {"ERROR", "IDLE", "PREPARING", "PREPARED", "PLAYING", "PAUSED",
                "COMPLETED"}
PlayerStates == {"empty", "loading", "ready", "playing", "paused", "ended",
                 "stopped", "broken"}
Events == {"ready", "completed", "error"}

TypeOK ==
    /\ setup \in Setups
    /\ currentState \in VideoStates /\ targetState \in VideoStates
    /\ loaded \in BOOLEAN
    /\ inBackground \in BOOLEAN /\ lastPlayState \in BOOLEAN /\ hidden \in BOOLEAN
    /\ enabled \in BOOLEAN /\ announcing \in BOOLEAN
    /\ player \in PlayerStates
    /\ events \in Seq(Events)
    /\ clips \in Nat
    /\ asked \in {"none", "play", "pause", "stop"}

Init ==
    /\ setup \in Setups
    /\ currentState = "IDLE" /\ targetState = "IDLE"
    /\ loaded = FALSE
    /\ inBackground = FALSE /\ lastPlayState = FALSE /\ hidden = FALSE
    /\ enabled = TRUE /\ announcing = FALSE
    /\ player = "empty" /\ events = <<>>
    /\ clips = 0
    /\ asked = "none"

-----------------------------------------------------------------------------
(* What the methods do to the states and to the player.  An operator named  *)
(* after a slip is the mutant of the definition below it.                   *)

IsPlaying == currentState = "PLAYING" \/ targetState = "PLAYING"
IsInPlaybackState == currentState \notin {"IDLE", "PREPARING", "ERROR"}

\* The player obeys a command it can: play and pause need a source it has read.
Command(p, result) == IF p \in {"empty", "loading", "broken"} THEN p ELSE result

\* A change asked for in a playback state is made, otherwise it is kept for the
\* time when the player is ready.
Moves(state, command) ==
    /\ currentState' = state
    /\ targetState' = state
    /\ player' = Command(player, command)
Keeps(state) ==
    /\ targetState' = state
    /\ UNCHANGED <<currentState, player>>

\* A completed video is played from its start (482-484), as play does anyway.
PlayEffect ==
    \/ IsInPlaybackState /\ currentState # "PLAYING" /\ Moves("PLAYING", "playing")
    \/ IsInPlaybackState /\ currentState = "PLAYING" /\ UNCHANGED <<states, player>>
    \/ ~IsInPlaybackState /\ Keeps("PLAYING")

ResumeEffect ==
    \/ IsInPlaybackState /\ currentState # "PLAYING" /\ Moves("PLAYING", "playing")
    \/ (~IsInPlaybackState \/ currentState = "PLAYING") /\ Keeps("PLAYING")

PauseForgetsTarget ==
    \/ IsInPlaybackState /\ currentState # "PAUSED" /\ Moves("PAUSED", "paused")
    \/ (~IsInPlaybackState \/ currentState = "PAUSED") /\ UNCHANGED <<states, player>>
PauseEffect ==
    \/ IsInPlaybackState /\ currentState # "PAUSED" /\ Moves("PAUSED", "paused")
    \/ (~IsInPlaybackState \/ currentState = "PAUSED") /\ Keeps("PAUSED")

StopEffect ==
    \/ IsInPlaybackState /\ Moves("IDLE", "stopped")
    \/ ~IsInPlaybackState /\ Keeps("IDLE")

-----------------------------------------------------------------------------
(* Calls of the application, in the foreground and between events or, while *)
(* 'ready' is announced, from its handler.                                  *)

InTime == setup.late \/ events = <<>>
AppTurn == ~hidden /\ InTime

\* The setter of clip: updateVideoSource.  The browser drops the events of the
\* source it gives up.
SetClip ==
    /\ AppTurn
    /\ clips < MaxClips
    /\ clips' = clips + 1
    /\ currentState' = "PREPARING" /\ targetState' = "PREPARING"
    /\ loaded' = FALSE
    /\ player' = "loading"
    /\ events' = IF setup.native THEN events ELSE <<>>
    /\ asked' = "none"
    /\ UNCHANGED <<background, enabled, announcing>>

Play ==
    /\ AppTurn
    /\ PlayEffect
    /\ asked' = "play"
    /\ UNCHANGED <<loaded, background, enabled, announcing, events, clips>>
Resume ==
    /\ AppTurn
    /\ ResumeEffect
    /\ asked' = "play"
    /\ UNCHANGED <<loaded, background, enabled, announcing, events, clips>>
Pause ==
    /\ AppTurn
    /\ PauseEffect
    /\ asked' = "pause"
    /\ UNCHANGED <<loaded, background, enabled, announcing, events, clips>>
Stop ==
    /\ AppTurn
    /\ StopEffect
    /\ asked' = "stop"
    /\ UNCHANGED <<loaded, background, enabled, announcing, events, clips>>

OnDisable ==
    /\ AppTurn
    /\ enabled
    /\ enabled' = FALSE
    /\ StopEffect
    /\ asked' = "stop"
    /\ UNCHANGED <<loaded, background, announcing, events, clips>>
OnEnable ==
    /\ AppTurn
    /\ ~enabled
    /\ enabled' = TRUE
    /\ UNCHANGED <<states, loaded, background, announcing, player, events, clips, asked>>

-----------------------------------------------------------------------------
(* The game goes to the background and comes back.  A component that is not *)
(* enabled does not hear of it.                                             *)

PauseWhenPlayingNow ==
    IF currentState = "PLAYING" THEN PauseEffect ELSE UNCHANGED <<states, player>>
PauseWhenPlaying == IF IsPlaying THEN PauseEffect ELSE UNCHANGED <<states, player>>

OnHide ==
    /\ InTime
    /\ ~hidden /\ ~announcing
    /\ hidden' = TRUE
    /\ IF enabled /\ ~inBackground
       THEN /\ inBackground' = TRUE
            /\ lastPlayState' = IsPlaying
            /\ PauseWhenPlaying
       ELSE UNCHANGED <<inBackground, lastPlayState, states, player>>
    /\ UNCHANGED <<loaded, enabled, announcing, events, clips, asked>>

OnShow ==
    /\ InTime
    /\ hidden /\ ~announcing
    /\ hidden' = FALSE
    /\ IF enabled /\ inBackground
       THEN /\ inBackground' = FALSE
            /\ IF lastPlayState THEN ResumeEffect ELSE UNCHANGED <<states, player>>
       ELSE UNCHANGED <<inBackground, states, player>>
    /\ UNCHANGED <<lastPlayState, loaded, enabled, announcing, events, clips, asked>>

-----------------------------------------------------------------------------
(* The player.  A browser's player tells more than once that it can play;  *)
(* nothing listens to its errors (306-321).                                *)

Tells(e) == Len(events) < MaxEvents /\ events' = Append(events, e)

PlayerIsReady ==
    /\ player = "loading" \/ (~setup.native /\ player \in {"ready", "playing", "paused", "stopped"})
    /\ player' = IF player = "loading" THEN "ready" ELSE player
    /\ Tells("ready")
    /\ UNCHANGED <<states, loaded, background, enabled, announcing, clips, asked>>
PlayerFails ==
    /\ player = "loading"
    /\ player' = "broken"
    /\ IF setup.native THEN Tells("error") ELSE UNCHANGED events
    /\ UNCHANGED <<states, loaded, background, enabled, announcing, clips, asked>>
PlayerEnds ==
    /\ player = "playing"
    /\ player' = "ended"
    /\ Tells("completed")
    /\ UNCHANGED <<states, loaded, background, enabled, announcing, clips, asked>>

-----------------------------------------------------------------------------
(* Its events arrive. *)

Arrives(e) ==
    /\ ~announcing
    /\ events # <<>> /\ Head(events) = e
    /\ events' = Tail(events)
    /\ UNCHANGED <<background, enabled, clips, asked>>

\* onCanPlay of a browser lets one event of each source through (309-318).
CanPlay == setup.native \/ (~loaded /\ currentState # "PLAYING")

\* onReadyToPlay as far as the handlers of 'ready'.
OnReadyToPlay ==
    /\ Arrives("ready")
    /\ IF CanPlay
       THEN /\ currentState' = "PREPARED" /\ announcing' = TRUE
            /\ loaded' = (loaded \/ ~setup.native)
       ELSE UNCHANGED <<currentState, announcing, loaded>>
    /\ UNCHANGED <<targetState, player>>

\* Line 434.
ReadyWithoutPlay ==
    /\ announcing
    /\ announcing' = FALSE
    /\ UNCHANGED <<states, player>>
    /\ UNCHANGED <<loaded, background, enabled, events, clips, asked>>
PlaysWhenAsked ==
    /\ announcing
    /\ announcing' = FALSE
    /\ IF targetState = "PLAYING" THEN PlayEffect ELSE UNCHANGED <<states, player>>
    /\ UNCHANGED <<loaded, background, enabled, events, clips, asked>>

CompletedKeepsTarget ==
    /\ Arrives("completed")
    /\ IF setup.loop
       THEN /\ player' = IF currentState = "PLAYING" THEN Command(player, "playing")
                         ELSE player
            /\ UNCHANGED states
       ELSE currentState' = "COMPLETED" /\ UNCHANGED <<targetState, player>>
    /\ UNCHANGED <<loaded, announcing>>
OnCompleted ==
    /\ Arrives("completed")
    /\ IF setup.loop
       THEN /\ player' = IF currentState = "PLAYING" THEN Command(player, "playing")
                         ELSE player
            /\ UNCHANGED states
       ELSE /\ currentState' = "COMPLETED" /\ targetState' = "COMPLETED"
            /\ UNCHANGED player
    /\ UNCHANGED <<loaded, announcing>>

OnError ==
    /\ Arrives("error")
    /\ currentState' = "ERROR" /\ targetState' = "ERROR"
    /\ UNCHANGED <<loaded, announcing, player>>

-----------------------------------------------------------------------------
Next ==
    /\ UNCHANGED setup
    /\ \/ SetClip \/ Play \/ Resume \/ Pause \/ Stop \/ OnDisable \/ OnEnable
       \/ OnHide \/ OnShow
       \/ PlayerIsReady \/ PlayerFails \/ PlayerEnds
       \/ OnReadyToPlay \/ PlaysWhenAsked \/ OnCompleted \/ OnError

\* A source is read or fails; its events arrive; onReadyToPlay goes on.
Fairness ==
    /\ WF_dynamic(PlayerIsReady) /\ WF_dynamic(PlayerFails)
    /\ WF_dynamic(OnReadyToPlay) /\ WF_dynamic(OnCompleted) /\ WF_dynamic(OnError)
    /\ WF_dynamic(PlaysWhenAsked)

Spec == Init /\ [][Next]_vars /\ Fairness

-----------------------------------------------------------------------------
(* Properties. *)

\* In a playback state nothing asked for is pending: play, resume and pause act
\* at once (481, 498, 514), and what was kept while the source was read is done
\* when it is ready (434), in whatever order events and calls come.
NothingIsPending ==
    ~announcing =>
        /\ currentState \in {"PLAYING", "PAUSED", "COMPLETED"} => targetState = currentState
        /\ currentState = "PREPARED" => targetState # "PLAYING"

\* When no event is on its way the component takes the player to be playing
\* exactly when it is (isPlaying, currentTime and the texture upload rely on it).
PlayerAgrees ==
    (~setup.late /\ events = <<>> /\ ~announcing) => (currentState = "PLAYING" <=> player = "playing")

\* The last call for a source is what the component is after, through its load,
\* its end, an error, and a time in the background (369-380).
AsAsked ==
    (/\ ~setup.late /\ events = <<>>
     /\ ~announcing /\ ~hidden
     /\ currentState \notin {"COMPLETED", "ERROR"}) =>
        /\ asked = "play" => targetState = "PLAYING"
        /\ asked = "pause" => targetState = "PAUSED"
        /\ asked = "stop" => targetState = "IDLE"

\* In the background no video plays that heard of it (375-380), one that became
\* ready there included.
BackgroundIsQuiet ==
    (~setup.late /\ hidden /\ enabled /\ inBackground) => player # "playing"

\* A source is announced as ready once: 'ready' never sets a video back that
\* plays, is paused or has ended (310), as long as the player of a device tells
\* of a source before it is given the next.
ReadyIsOnce ==
    [][(~announcing /\ announcing' /\ ~(setup.native /\ setup.late))
           => currentState = "PREPARING"]_vars

\* On a device a video that is asked for while its source is read plays, unless
\* something else is asked for or it fails (434, 493).
PlayIsHonoured ==
    (setup.native /\ currentState = "PREPARING" /\ targetState = "PLAYING")
        ~> (currentState \in {"PLAYING", "ERROR"} \/ targetState # "PLAYING")

=============================================================================
