---------------------------- MODULE CCMViews_proofs ----------------------------
(***************************************************************************)
(* The theorems about two components of the library that show things, and  *)
(* do not know of each other.                                              *)
(*                                                                         *)
(* CCMVideo, for every set of setups, number of sources and length of the  *)
(* event queue: the state and the target state of the component never      *)
(* disagree about what is pending, whatever order calls and events come    *)
(* in; and, when calls come between the events, the component and its      *)
(* player agree, what was asked for last is what it is after, and the      *)
(* background is quiet.                                                    *)
(*                                                                         *)
(* CCMCategoryView, for every content of the adapter, all sizes and every  *)
(* scroll, fling and jump: nothing is missing on the screen, what is shown *)
(* stale is to be bound, the windows are runs of neighbours that keep      *)
(* their books, nodes are used again, and the searches find what they      *)
(* look for.                                                               *)
(***************************************************************************)
EXTENDS CCMVideo, CCMCategoryView,
        FiniteSetTheorems, SequenceTheorems, WellFoundedInduction, TLAPS

-----------------------------------------------------------------------------
(* CCMVideo. *)

(***************************************************************************)
(* NothingIsPending says nothing while 'ready' is announced, so it is not  *)
(* inductive: a handler may play, pause or stop meanwhile.  Pending says   *)
(* what holds then as well: only PREPARED may have a target left to reach. *)
(***************************************************************************)
Pending ==
    /\ currentState \in {"PLAYING", "PAUSED", "COMPLETED"} => targetState = currentState
    /\ (currentState = "PREPARED" /\ ~announcing) => targetState # "PLAYING"

\* What a change that was asked for leaves behind: a state that is reached is
\* the target, and a target is kept only outside the playback states.
LEMMA EffectsSettle ==
    ASSUME Pending, PlayEffect \/ ResumeEffect \/ PauseEffect \/ StopEffect
    PROVE  /\ currentState' \in {"PLAYING", "PAUSED", "COMPLETED"}
                  => targetState' = currentState'
           /\ currentState' # "PREPARED"
<1> USE DEF Moves, Keeps, IsInPlaybackState, Pending
<1>1. CASE PlayEffect
  BY <1>1 DEF PlayEffect, states
<1>2. CASE ResumeEffect
  BY <1>2 DEF ResumeEffect
<1>3. CASE PauseEffect
  BY <1>3 DEF PauseEffect
<1>4. CASE StopEffect
  BY <1>4 DEF StopEffect
<1>5. QED
  BY <1>1, <1>2, <1>3, <1>4

\* Pending holds at first, and every step keeps it.
LEMMA PendingInductive ==
    /\ Init => Pending
    /\ Pending /\ [Next]_vars => Pending'
<1>1. Init => Pending
  BY DEF Init, Pending
<1>2. ASSUME Pending, [Next]_vars
      PROVE  Pending'
  <2>0. CASE UNCHANGED <<states, announcing>>
    BY <1>2, <2>0 DEF Pending, states
  <2>1. CASE SetClip
    BY <2>1 DEF SetClip, Pending
  <2>2. CASE PlayEffect \/ ResumeEffect \/ PauseEffect \/ StopEffect
    BY <1>2, <2>2, EffectsSettle DEF Pending
  <2>3. CASE Play \/ Resume \/ Pause \/ Stop \/ OnDisable
    BY <2>2, <2>3 DEF Play, Resume, Pause, Stop, OnDisable
  <2>4. CASE OnEnable
    BY <2>0, <2>4 DEF OnEnable
  <2>5. CASE OnHide
    BY <2>0, <2>2, <2>5 DEF OnHide, PauseWhenPlaying
  <2>6. CASE OnShow
    BY <2>0, <2>2, <2>6 DEF OnShow
  <2>7. CASE PlayerIsReady \/ PlayerFails \/ PlayerEnds
    BY <2>0, <2>7 DEF PlayerIsReady, PlayerFails, PlayerEnds
  <2>8. CASE OnReadyToPlay
    <3>1. CASE CanPlay
      BY <2>8, <3>1 DEF OnReadyToPlay, Pending
    <3>2. CASE ~CanPlay
      BY <2>0, <2>8, <3>2 DEF OnReadyToPlay, states
    <3>3. QED
      BY <3>1, <3>2
  <2>9. CASE PlaysWhenAsked
    <3>1. CASE targetState = "PLAYING"
      BY <2>2, <2>9, <3>1 DEF PlaysWhenAsked
    <3>2. CASE targetState # "PLAYING"
      BY <1>2, <2>9, <3>2 DEF PlaysWhenAsked, Pending, states
    <3>3. QED
      BY <3>1, <3>2
  <2>10. CASE OnCompleted
    BY <1>2, <2>10 DEF OnCompleted, Pending, states
  <2>11. CASE OnError
    BY <2>11 DEF OnError, Pending
  <2>12. CASE UNCHANGED vars
    BY <2>0, <2>12 DEF vars, dynamic
  <2>13. QED
    BY <1>2, <2>1, <2>3, <2>4, <2>5, <2>6, <2>7, <2>8, <2>9, <2>10, <2>11, <2>12
       DEF Next
<1>3. QED
  BY <1>1, <1>2

(***************************************************************************)
(* In a playback state nothing asked for is pending (updateVideoSource,    *)
(* play, resume, pause, stop and the handlers of the player's events): a   *)
(* video that was asked for while its source was read is never left        *)
(* prepared and silent once 'ready' has been told.                         *)
(***************************************************************************)
THEOREM SpecNothingIsPending == Spec => []NothingIsPending
<1>1. Pending => NothingIsPending
  BY DEF Pending, NothingIsPending
<1>2. QED
  BY <1>1, PendingInductive, PTL DEF Spec

-----------------------------------------------------------------------------
(* The states stay states and the player's events stay events. *)

StatesType == currentState \in VideoStates /\ targetState \in VideoStates
PlayerType == player \in PlayerStates

\* The states and the player stay what they are under every change asked for.
LEMMA EffectsType ==
    ASSUME StatesType, PlayerType, PlayEffect \/ ResumeEffect \/ PauseEffect \/ StopEffect
    PROVE  StatesType' /\ PlayerType'
<1> USE DEF Moves, Keeps, Command, StatesType, PlayerType, VideoStates, PlayerStates
<1>1. CASE PlayEffect
  BY <1>1 DEF PlayEffect, states
<1>2. CASE ResumeEffect
  BY <1>2 DEF ResumeEffect
<1>3. CASE PauseEffect
  BY <1>3 DEF PauseEffect
<1>4. CASE StopEffect
  BY <1>4 DEF StopEffect
<1>5. QED
  BY <1>1, <1>2, <1>3, <1>4

\* The player adds only events of its own to the queue, and an arrival takes one.
LEMMA QueueType ==
    ASSUME events \in Seq(Events)
    PROVE  /\ \A e \in Events : Tells(e) => events' \in Seq(Events)
           /\ \A e \in Events : Arrives(e) => events' \in Seq(Events)
BY DEF Tells, Arrives

\* The variables have their types at first and after every step.
LEMMA TypeInductive ==
    /\ Init => TypeOK
    /\ TypeOK /\ [Next]_vars => TypeOK'
<1>1. Init => TypeOK
  <2>1. ASSUME Init
        PROVE  TypeOK
    <3>1. events = <<>> /\ <<>> \in Seq(Events)
      BY <2>1 DEF Init
    <3>2. events \in Seq(Events)
      BY <3>1
    <3>3. QED
      BY <2>1, <3>2 DEF Init, TypeOK, VideoStates, PlayerStates
  <2>2. QED
    BY <2>1
<1>2. ASSUME TypeOK, [Next]_vars
      PROVE  TypeOK'
  <2>0. /\ "ready" \in Events /\ "completed" \in Events /\ "error" \in Events
        /\ events \in Seq(Events) /\ StatesType /\ PlayerType
    BY <1>2 DEF TypeOK, Events, StatesType, PlayerType
  <2> DEFINE Calls == PlayEffect \/ ResumeEffect \/ PauseEffect \/ StopEffect
  <2>1. Calls => StatesType' /\ PlayerType'
    BY <2>0, EffectsType
  <2>2. UNCHANGED <<states, player>> => StatesType' /\ PlayerType'
    BY <2>0 DEF StatesType, PlayerType, states
  <2> HIDE DEF Calls
  <2>3. CASE UNCHANGED setup /\ SetClip
    <3>1. <<>> \in Seq(Events)
      OBVIOUS
    <3>2. events' \in Seq(Events)
      BY <2>0, <2>3, <3>1 DEF SetClip
    <3>3. clips' \in Nat
      BY <1>2, <2>3 DEF SetClip, TypeOK
    <3>4. StatesType' /\ PlayerType'
      BY <2>3 DEF SetClip, StatesType, PlayerType, VideoStates, PlayerStates
    <3>5. QED
      BY <1>2, <2>3, <3>2, <3>3, <3>4 DEF SetClip, TypeOK, background, StatesType, PlayerType
  <2>4. CASE UNCHANGED setup /\ (Play \/ Resume \/ Pause \/ Stop \/ OnDisable)
    <3>1. StatesType' /\ PlayerType'
      BY <2>1, <2>4 DEF Play, Resume, Pause, Stop, OnDisable, Calls
    <3>2. QED
      BY <1>2, <2>4, <3>1 DEF TypeOK, Play, Resume, Pause, Stop, OnDisable, background,
         StatesType, PlayerType
  <2>5. CASE UNCHANGED setup /\ OnEnable
    BY <1>2, <2>5 DEF TypeOK, OnEnable, background, states
  <2>6. CASE UNCHANGED setup /\ OnHide
    <3>1. StatesType' /\ PlayerType'
      BY <2>1, <2>2, <2>6 DEF OnHide, PauseWhenPlaying, Calls
    <3>2. IsPlaying \in BOOLEAN
      BY DEF IsPlaying
    <3>3. QED
      BY <1>2, <2>6, <3>1, <3>2 DEF TypeOK, OnHide, StatesType, PlayerType
  <2>7. CASE UNCHANGED setup /\ OnShow
    <3>1. StatesType' /\ PlayerType'
      BY <2>1, <2>2, <2>7 DEF OnShow, Calls
    <3>2. QED
      BY <1>2, <2>7, <3>1 DEF TypeOK, OnShow, StatesType, PlayerType
  <2>8. CASE UNCHANGED setup /\ (PlayerIsReady \/ PlayerFails \/ PlayerEnds)
    <3>1. events' \in Seq(Events)
      BY <2>0, <2>8, QueueType DEF PlayerIsReady, PlayerFails, PlayerEnds
    <3>2. StatesType' /\ PlayerType'
      BY <2>0, <2>8 DEF StatesType, PlayerType, PlayerStates, states,
         PlayerIsReady, PlayerFails, PlayerEnds
    <3>3. QED
      BY <1>2, <2>8, <3>1, <3>2 DEF TypeOK, StatesType, PlayerType, background,
         PlayerIsReady, PlayerFails, PlayerEnds
  <2>9. CASE UNCHANGED setup /\ OnReadyToPlay
    <3>1. events' \in Seq(Events)
      BY <2>0, <2>9, QueueType DEF OnReadyToPlay
    <3>2. StatesType' /\ PlayerType' /\ loaded' \in BOOLEAN /\ announcing' \in BOOLEAN
      BY <1>2, <2>0, <2>9 DEF OnReadyToPlay, TypeOK, StatesType, PlayerType, VideoStates
    <3>3. QED
      BY <1>2, <2>9, <3>1, <3>2 DEF TypeOK, StatesType, PlayerType, background,
         OnReadyToPlay, Arrives
  <2>10. CASE UNCHANGED setup /\ PlaysWhenAsked
    <3>1. StatesType' /\ PlayerType'
      BY <2>1, <2>2, <2>10 DEF PlaysWhenAsked, Calls
    <3>2. QED
      BY <1>2, <2>10, <3>1 DEF TypeOK, PlaysWhenAsked, StatesType, PlayerType, background
  <2>11. CASE UNCHANGED setup /\ OnCompleted
    <3>1. events' \in Seq(Events)
      BY <2>0, <2>11, QueueType DEF OnCompleted
    <3>2. StatesType' /\ PlayerType'
      BY <2>0, <2>11 DEF OnCompleted, Command, StatesType, PlayerType, VideoStates,
         PlayerStates, states
    <3>3. QED
      BY <1>2, <2>11, <3>1, <3>2 DEF TypeOK, StatesType, PlayerType, background,
         OnCompleted, Arrives
  <2>12. CASE UNCHANGED setup /\ OnError
    <3>1. events' \in Seq(Events)
      BY <2>0, <2>12, QueueType DEF OnError
    <3>2. QED
      BY <1>2, <2>12, <3>1 DEF TypeOK, background, OnError, Arrives, VideoStates
  <2>13. CASE UNCHANGED vars
    BY <1>2, <2>13 DEF TypeOK, vars, dynamic, states, background
  <2>14. QED
    BY <1>2, <2>3, <2>4, <2>5, <2>6, <2>7, <2>8, <2>9, <2>10, <2>11, <2>12, <2>13
       DEF Next
<1>3. QED
  BY <1>1, <1>2

\* The state of the component, of the player and of its queue have their types
\* in every setup; no call leaves the states the component declares (State).
THEOREM SpecTypeOK == Spec => []TypeOK
BY TypeInductive, PTL DEF Spec

-----------------------------------------------------------------------------
(* What the component, the player and the events on their way agree on.     *)

\* Only an enabled component in a hidden game is in the background, and nothing is
\* to play there; what is to play was asked for, and so was what will again.
InBackground ==
    /\ inBackground => hidden /\ enabled
    /\ targetState = "PLAYING" => asked = "play" /\ ~inBackground
    /\ (inBackground /\ lastPlayState) => asked = "play"

\* In a browser, before a source is announced as ready nothing but its loading and
\* its being ready is heard of, and no event is an error.
BeforeReady ==
    ~setup.native =>
        /\ \A i \in 1 .. Len(events) : events[i] # "error"
        /\ ~loaded =>
              /\ player \in {"empty", "loading", "ready", "broken"}
              /\ \A i \in 1 .. Len(events) : events[i] = "ready"
              /\ \/ currentState = "PREPARING"
                 \/ currentState = "IDLE" /\ player = "empty" /\ events = <<>>

\* When calls come between the events: what each event on its way says of the
\* player and of the component, which has not heard of it.
OnItsWay ==
    \A i \in 1 .. Len(events) :
        /\ events[i] = "completed" =>
               i = Len(events) /\ player = "ended" /\ currentState = "PLAYING"
        /\ events[i] = "error" =>
               i = Len(events) /\ player = "broken" /\ currentState = "PREPARING"
        /\ events[i] = "ready" =>
               /\ player \notin {"empty", "loading", "broken"}
               /\ setup.native => i = Len(events) /\ currentState = "PREPARING"

\* Then the component plays when the player does, or has just ended, and is not
\* in a playback state when the player has no source it has read.
InStep ==
    /\ player = "playing" => currentState = "PLAYING"
    /\ currentState = "PLAYING" =>
           player = "playing" \/ \E i \in 1 .. Len(events) : events[i] = "completed"
    /\ player \in {"empty", "loading", "broken"} => ~IsInPlaybackState
    /\ player = "loading" => events = <<>> /\ currentState = "PREPARING"

\* And it is after what was asked for, or will be when the game is back.
Wanted ==
    currentState \notin {"COMPLETED", "ERROR"} =>
        /\ asked = "play" => IF inBackground THEN lastPlayState ELSE targetState = "PLAYING"
        /\ asked = "pause" => targetState = "PAUSED"
        /\ asked = "stop" => targetState = "IDLE"

VideoInv ==
    /\ TypeOK /\ Pending /\ InBackground /\ BeforeReady
    /\ ~setup.late => OnItsWay /\ InStep /\ Wanted

\* A step of the player tells one event more, the last; an arrival takes the first.
Appended(e) ==
    /\ Len(events') = Len(events) + 1
    /\ events'[Len(events) + 1] = e
    /\ \A i \in 1 .. Len(events) : events'[i] = events[i]
Taken(e) ==
    /\ Len(events) \in Nat \ {0} /\ Len(events') = Len(events) - 1
    /\ events[1] = e
    /\ \A i \in 1 .. Len(events') : events'[i] = events[i + 1]

\* What the queue is after an event is told, and after one arrives.
LEMMA QueueSteps ==
    ASSUME events \in Seq(Events)
    PROVE  /\ \A e \in Events : Tells(e) => Appended(e)
           /\ \A e \in Events : Arrives(e) => Taken(e)
<1>1. ASSUME NEW e \in Events, Tells(e)
      PROVE  Appended(e)
  BY <1>1 DEF Tells, Appended
<1>2. ASSUME NEW e \in Events, Arrives(e)
      PROVE  Taken(e)
  BY <1>2 DEF Arrives, Taken
<1>3. QED
  BY <1>1, <1>2

\* The state of the component and of its player at first.
LEMMA VideoInit == Init => VideoInv
<1>1. SUFFICES ASSUME Init PROVE VideoInv
  OBVIOUS
<1>2. TypeOK /\ Pending
  BY <1>1, TypeInductive, PendingInductive
<1>3. Len(events) = 0
  BY <1>1 DEF Init
<1>4. InBackground /\ BeforeReady /\ OnItsWay /\ InStep /\ Wanted
  BY <1>1, <1>3 DEF Init, InBackground, BeforeReady, OnItsWay, InStep, Wanted,
     IsInPlaybackState
<1>5. QED
  BY <1>2, <1>4 DEF VideoInv

\* The setup a component is used in is its setup for good.
LEMMA SetupStays ==
    [Next]_vars => setup' = setup
BY DEF Next, vars

\* Nothing plays on in the background but by a call made before.
LEMMA InBackgroundStep ==
    ASSUME TypeOK, Pending, InBackground, [Next]_vars
    PROVE  InBackground'
<1> USE DEF InBackground
<1>1. CASE SetClip
  BY <1>1 DEF SetClip, AppTurn, background
<1>2. CASE Play \/ Resume
  BY <1>2 DEF Play, Resume, AppTurn, background
<1>3. CASE Pause
  BY <1>3 DEF Pause, AppTurn, background, PauseEffect, Moves, Keeps
<1>4. CASE Stop \/ OnDisable
  BY <1>4 DEF Stop, OnDisable, AppTurn, background, StopEffect, Moves, Keeps
<1>5. CASE OnEnable
  BY <1>5 DEF OnEnable, AppTurn, background, states
<1>6. CASE OnHide
  <2>1. IsPlaying => targetState = "PLAYING"
    BY DEF Pending, IsPlaying
  <2>2. PauseWhenPlaying => targetState' # "PLAYING"
    BY <2>1 DEF PauseWhenPlaying, IsPlaying, PauseEffect, Moves, Keeps, states
  <2>3. QED
    BY <1>6, <2>1, <2>2 DEF OnHide, states
<1>7. CASE OnShow
  BY <1>7 DEF OnShow, states
<1>8. CASE PlayerIsReady \/ PlayerFails \/ PlayerEnds
  BY <1>8 DEF PlayerIsReady, PlayerFails, PlayerEnds, states, background
<1>9. CASE OnReadyToPlay
  BY <1>9 DEF OnReadyToPlay, Arrives, background
<1>10. CASE PlaysWhenAsked
  BY <1>10 DEF PlaysWhenAsked, PlayEffect, Moves, Keeps, states, background
<1>11. CASE OnCompleted
  BY <1>11 DEF OnCompleted, Arrives, states, background
<1>12. CASE OnError
  BY <1>12 DEF OnError, Arrives, background
<1>13. CASE UNCHANGED vars
  BY <1>13 DEF vars, dynamic, states, background
<1>14. QED
  BY <1>1, <1>2, <1>3, <1>4, <1>5, <1>6, <1>7, <1>8, <1>9, <1>10, <1>11, <1>12, <1>13
     DEF Next

\* In a browser a source that is not announced yet is only loaded and ready.
LEMMA BeforeReadyStep ==
    ASSUME TypeOK, Pending, BeforeReady, [Next]_vars
    PROVE  BeforeReady'
<1>1. setup' = setup
  BY SetupStays
<1>2. CASE setup.native
  BY <1>1, <1>2 DEF BeforeReady
<1>3. CASE ~setup.native
  <2>0. events \in Seq(Events) /\ Len(events) \in Nat /\ loaded \in BOOLEAN
    BY DEF TypeOK
  <2>e. "ready" \in Events /\ "completed" \in Events /\ "error" \in Events
    BY DEF Events
  <2> USE <1>1, <1>3 DEF BeforeReady
  <2> DEFINE Calls == PlayEffect \/ ResumeEffect \/ PauseEffect \/ StopEffect
  <2>1. ASSUME Calls \/ UNCHANGED <<states, player>>, loaded' = loaded, events' = events
        PROVE  BeforeReady'
    BY <2>1 DEF states, PlayEffect, ResumeEffect, PauseEffect, StopEffect,
       Moves, Keeps, Command, IsInPlaybackState
  <2> HIDE DEF Calls
  <2>2. CASE SetClip
    <3>1. Len(events') = 0
      BY <2>2 DEF SetClip
    <3>2. QED
      BY <2>2, <3>1 DEF SetClip
  <2>3. CASE Play \/ Resume \/ Pause \/ Stop \/ OnDisable
    BY <2>1, <2>3 DEF Play, Resume, Pause, Stop, OnDisable, Calls
  <2>4. CASE OnEnable
    BY <2>1, <2>4 DEF OnEnable
  <2>5. CASE OnHide
    BY <2>1, <2>5 DEF OnHide, PauseWhenPlaying, Calls, states
  <2>6. CASE OnShow
    BY <2>1, <2>6 DEF OnShow, Calls, states
  <2>7. CASE PlayerIsReady
    <3>1. Appended("ready")
      BY <2>0, <2>e, <2>7, QueueSteps DEF PlayerIsReady
    <3>2. QED
      BY <2>0, <2>7, <3>1 DEF PlayerIsReady, Appended, states
  <2>8. CASE PlayerFails
    BY <2>8 DEF PlayerFails, states
  <2>9. CASE PlayerEnds
    <3>1. Appended("completed")
      BY <2>0, <2>e, <2>9, QueueSteps DEF PlayerEnds
    <3>2. QED
      BY <2>0, <2>9, <3>1 DEF PlayerEnds, Appended, states
  <2>10. CASE OnReadyToPlay
    <3>1. Taken("ready")
      BY <2>0, <2>e, <2>10, QueueSteps DEF OnReadyToPlay
    <3>2. CASE CanPlay
      <4>1. loaded' <=> TRUE
        BY <2>10, <3>2 DEF OnReadyToPlay
      <4>2. \A i \in 1 .. Len(events') : events'[i] # "error"
        BY <2>0, <3>1 DEF Taken
      <4>3. QED
        BY <4>1, <4>2
    <3>3. CASE ~CanPlay
      <4>1. loaded
        BY <2>0, <3>1, <3>3 DEF CanPlay, Taken
      <4>2. QED
        BY <2>0, <2>10, <3>1, <3>3, <4>1 DEF OnReadyToPlay, Taken
    <3>4. QED
      BY <3>2, <3>3
  <2>11. CASE PlaysWhenAsked
    BY <2>1, <2>11 DEF PlaysWhenAsked, Calls
  <2>12. CASE OnCompleted
    <3>1. Taken("completed")
      BY <2>0, <2>e, <2>12, QueueSteps DEF OnCompleted
    <3>2. loaded
      BY <2>0, <3>1 DEF Taken
    <3>3. QED
      BY <2>0, <2>12, <3>1, <3>2 DEF OnCompleted, Taken
  <2>13. CASE OnError
    <3>1. Taken("error")
      BY <2>0, <2>e, <2>13, QueueSteps DEF OnError
    <3>2. QED
      BY <2>0, <3>1 DEF Taken
  <2>14. CASE UNCHANGED vars
    BY <2>1, <2>14 DEF vars, dynamic
  <2>15. QED
    BY <2>2, <2>3, <2>4, <2>5, <2>6, <2>7, <2>8, <2>9, <2>10, <2>11, <2>12, <2>13, <2>14
       DEF Next
<1>4. QED
  BY <1>2, <1>3

\* A change asked for, with no end of the video on its way, keeps the component and
\* its player in step.
LEMMA EffectsAgree ==
    ASSUME events \in Seq(Events), OnItsWay, InStep,
           PlayEffect \/ ResumeEffect \/ PauseEffect \/ StopEffect
               \/ UNCHANGED <<states, player>>,
           setup' = setup, events' = events,
           \A i \in 1 .. Len(events) : events[i] # "completed"
    PROVE  OnItsWay' /\ InStep'
<1> USE DEF Moves, Keeps, Command, IsInPlaybackState
<1>1. currentState = "PREPARING" => currentState' = "PREPARING" /\ player' = player
  BY DEF PlayEffect, ResumeEffect, PauseEffect, StopEffect, states
<1>2. /\ player \in {"empty", "loading", "broken"} <=> player' \in {"empty", "loading", "broken"}
      /\ player = "loading" <=> player' = "loading"
      /\ player = "broken" <=> player' = "broken"
  BY DEF PlayEffect, ResumeEffect, PauseEffect, StopEffect, states
<1>3. OnItsWay'
  BY <1>1, <1>2 DEF OnItsWay
<1>4. InStep'
  <2>1. player' = "playing" <=> currentState' = "PLAYING"
    BY DEF PlayEffect, ResumeEffect, PauseEffect, StopEffect, states, InStep
  <2>2. player' \in {"empty", "loading", "broken"} => ~IsInPlaybackState'
    BY <1>2 DEF PlayEffect, ResumeEffect, PauseEffect, StopEffect, states, InStep
  <2>3. player' = "loading" => events' = <<>> /\ currentState' = "PREPARING"
    BY <1>1, <1>2 DEF InStep
  <2>4. QED
    BY <2>1, <2>2, <2>3 DEF InStep
<1>5. QED
  BY <1>3, <1>4

\* The component and its player stay in step when calls come between the events.
LEMMA InStepStep ==
    ASSUME TypeOK, Pending, BeforeReady, OnItsWay, InStep, ~setup.late, [Next]_vars
    PROVE  OnItsWay' /\ InStep'
<1>0. events \in Seq(Events) /\ Len(events) \in Nat /\ loaded \in BOOLEAN
  BY DEF TypeOK
<1>e. "ready" \in Events /\ "completed" \in Events /\ "error" \in Events
  BY DEF Events
<1>s. setup' = setup
  BY SetupStays
<1> DEFINE Calls == PlayEffect \/ ResumeEffect \/ PauseEffect \/ StopEffect
           Changes == Calls \/ UNCHANGED <<states, player>>
<1>c. ASSUME Changes, events' = events, \A i \in 1 .. Len(events) : events[i] # "completed"
      PROVE  OnItsWay' /\ InStep'
  BY <1>0, <1>c, <1>s, EffectsAgree
<1>i. ASSUME Changes, events' = events, InTime
      PROVE  OnItsWay' /\ InStep'
  <2>1. Len(events) = 0
    BY <1>0, <1>i DEF InTime
  <2>2. QED
    BY <1>c, <1>i, <2>1
<1> HIDE DEF Calls, Changes
<1>1. CASE SetClip
  <2>1. events' = <<>> /\ Len(events') = 0
    BY <1>1 DEF SetClip, AppTurn, InTime
  <2>2. QED
    BY <1>1, <2>1 DEF SetClip, OnItsWay, InStep, IsInPlaybackState
<1>2. CASE Play \/ Resume \/ Pause \/ Stop \/ OnDisable
  BY <1>i, <1>2 DEF Play, Resume, Pause, Stop, OnDisable, AppTurn, Calls, Changes
<1>3. CASE OnEnable
  BY <1>i, <1>3 DEF OnEnable, AppTurn, Changes
<1>4. CASE OnHide
  <2>1. Changes
    BY <1>4 DEF OnHide, PauseWhenPlaying, Calls, Changes
  <2>2. QED
    BY <1>i, <1>4, <2>1 DEF OnHide
<1>5. CASE OnShow
  <2>1. Changes
    BY <1>5 DEF OnShow, Calls, Changes
  <2>2. QED
    BY <1>i, <1>5, <2>1 DEF OnShow
<1>6. CASE PlayerIsReady
  <2>1. Appended("ready")
    BY <1>0, <1>e, <1>6, QueueSteps DEF PlayerIsReady
  <2>2. /\ \A i \in 1 .. Len(events) : events[i] # "completed" /\ events[i] # "error"
        /\ currentState' = currentState
        /\ player' \in {"ready", "playing", "paused", "stopped"}
        /\ \/ player = "loading" /\ player' = "ready"
           \/ player # "loading" /\ player' = player
        /\ setup.native => player = "loading"
    <3>1. /\ player \in {"loading", "ready", "playing", "paused", "stopped"}
          /\ setup.native => player = "loading"
      BY <1>6 DEF PlayerIsReady
    <3>2. \A i \in 1 .. Len(events) : events[i] # "completed" /\ events[i] # "error"
      BY <3>1 DEF OnItsWay
    <3>3. currentState' = currentState /\ player' = IF player = "loading" THEN "ready" ELSE player
      BY <1>6 DEF PlayerIsReady, states
    <3>4. \/ player = "loading" /\ player' = "ready"
          \/ player # "loading" /\ player' = player
      BY <3>3
    <3>5. player' \in {"ready", "playing", "paused", "stopped"}
      BY <3>1, <3>4
    <3>6. QED
      BY <3>1, <3>2, <3>3, <3>4, <3>5
  <2>3. player = "loading" => Len(events) = 0 /\ currentState = "PREPARING"
    BY DEF InStep
  <2>4. OnItsWay'
    BY <1>0, <1>s, <2>1, <2>2, <2>3 DEF OnItsWay, Appended
  <2>5. InStep'
    BY <1>0, <2>1, <2>2, <2>3 DEF InStep, IsInPlaybackState, Appended
  <2>6. QED
    BY <2>4, <2>5
<1>7. CASE PlayerFails
  <2>1. Len(events) = 0 /\ events = <<>> /\ currentState = "PREPARING"
    BY <1>0, <1>7 DEF PlayerFails, InStep
  <2>2. player' = "broken" /\ currentState' = "PREPARING"
    BY <1>7, <2>1 DEF PlayerFails, states
  <2>3. InStep'
    BY <2>2 DEF InStep, IsInPlaybackState
  <2>4. CASE setup.native
    <3>1. Appended("error")
      BY <1>0, <1>e, <1>7, <2>4, QueueSteps DEF PlayerFails
    <3>2. QED
      BY <1>0, <2>1, <2>2, <2>3, <3>1 DEF OnItsWay, Appended
  <2>5. CASE ~setup.native
    BY <1>7, <2>1, <2>3, <2>5 DEF PlayerFails, OnItsWay
  <2>6. QED
    BY <2>4, <2>5
<1>8. CASE PlayerEnds
  <2>1. Appended("completed")
    BY <1>0, <1>e, <1>8, QueueSteps DEF PlayerEnds
  <2>2. /\ currentState = "PLAYING" /\ currentState' = "PLAYING"
        /\ player = "playing" /\ player' = "ended"
    BY <1>8 DEF PlayerEnds, InStep, states
  <2>3. \A i \in 1 .. Len(events) :
            /\ events[i] # "completed" /\ events[i] # "error"
            /\ events[i] = "ready" => ~setup.native
    BY <2>2 DEF OnItsWay
  <2>4. OnItsWay'
    BY <1>0, <1>s, <2>1, <2>2, <2>3 DEF OnItsWay, Appended
  <2>5. \E i \in 1 .. Len(events') : events'[i] = "completed"
    BY <1>0, <2>1 DEF Appended
  <2>6. QED
    BY <2>2, <2>4, <2>5 DEF InStep
<1>9. CASE OnReadyToPlay
  <2>1. Taken("ready") /\ player' = player
    BY <1>0, <1>e, <1>9, QueueSteps DEF OnReadyToPlay
  <2>2. CASE CanPlay
    <3>1. currentState' = "PREPARED"
      BY <1>9, <2>2 DEF OnReadyToPlay
    <3>2. player \notin {"empty", "loading", "broken"}
      BY <2>1 DEF OnItsWay, Taken
    <3>3. currentState = "PREPARING"
      BY <1>0, <2>1, <2>2 DEF CanPlay, Taken, BeforeReady, OnItsWay
    <3>4. \A i \in 1 .. Len(events') : events'[i] = "ready" /\ ~setup.native
      BY <1>0, <2>1, <2>2, <3>3 DEF CanPlay, Taken, BeforeReady, OnItsWay
    <3>5. player # "playing"
      BY <3>3 DEF InStep
    <3>6. QED
      BY <1>s, <2>1, <3>1, <3>2, <3>4, <3>5 DEF OnItsWay, InStep
  <2>3. CASE ~CanPlay
    <3>1. currentState' = currentState
      BY <1>9, <2>3 DEF OnReadyToPlay
    <3>2. OnItsWay'
      BY <1>0, <1>s, <2>1, <3>1 DEF OnItsWay, Taken
    <3>3. ASSUME NEW i \in 1 .. Len(events), events[i] = "completed"
          PROVE  \E j \in 1 .. Len(events') : events'[j] = "completed"
      <4>1. i - 1 \in 1 .. Len(events') /\ events'[i - 1] = events[i]
        BY <1>0, <2>1, <3>3 DEF Taken
      <4>2. QED
        BY <3>3, <4>1
    <3>4. player # "loading"
      BY <2>1 DEF OnItsWay, Taken
    <3>5. InStep'
      BY <2>1, <3>1, <3>3, <3>4 DEF InStep, IsInPlaybackState
    <3>6. QED
      BY <3>2, <3>5
  <2>4. QED
    BY <2>2, <2>3
<1>10. CASE PlaysWhenAsked
  <2>1. CASE currentState = "PLAYING"
    <3>1. UNCHANGED <<states, player, events>>
      BY <1>10, <2>1 DEF PlaysWhenAsked, PlayEffect, IsInPlaybackState, states
    <3>2. QED
      BY <1>s, <3>1 DEF OnItsWay, InStep, IsInPlaybackState, states
  <2>2. CASE currentState # "PLAYING"
    <3>1. \A i \in 1 .. Len(events) : events[i] # "completed"
      BY <2>2 DEF OnItsWay
    <3>2. Changes /\ events' = events
      BY <1>10 DEF PlaysWhenAsked, Calls, Changes
    <3>3. QED
      BY <1>c, <3>1, <3>2
  <2>3. QED
    BY <2>1, <2>2
<1>11. CASE OnCompleted
  <2>1. Taken("completed")
    BY <1>0, <1>e, <1>11, QueueSteps DEF OnCompleted
  <2>2. /\ Len(events') = 0
        /\ player = "ended" /\ currentState = "PLAYING"
    BY <1>0, <2>1 DEF Taken, OnItsWay
  <2>3. \/ player' = "playing" /\ currentState' = "PLAYING"
        \/ player' = "ended" /\ currentState' = "COMPLETED"
    BY <1>11, <2>2 DEF OnCompleted, Command, states
  <2>4. QED
    BY <2>2, <2>3 DEF OnItsWay, InStep
<1>12. CASE OnError
  <2>1. Taken("error")
    BY <1>0, <1>e, <1>12, QueueSteps DEF OnError
  <2>2. Len(events') = 0 /\ player = "broken"
    BY <1>0, <2>1 DEF Taken, OnItsWay
  <2>3. player' = "broken" /\ currentState' = "ERROR"
    BY <1>12, <2>2 DEF OnError
  <2>4. QED
    BY <2>2, <2>3 DEF OnItsWay, InStep, IsInPlaybackState
<1>13. CASE UNCHANGED vars
  BY <1>s, <1>13 DEF vars, dynamic, states, OnItsWay, InStep, IsInPlaybackState
<1>14. QED
  BY <1>1, <1>2, <1>3, <1>4, <1>5, <1>6, <1>7, <1>8, <1>9, <1>10, <1>11, <1>12, <1>13
     DEF Next

\* What was asked for last stays what the component is after.
LEMMA WantedStep ==
    ASSUME TypeOK, Pending, InBackground, BeforeReady, OnItsWay, InStep, Wanted,
           ~setup.late, [Next]_vars
    PROVE  Wanted'
<1>0. events \in Seq(Events) /\ Len(events) \in Nat /\ loaded \in BOOLEAN
  BY DEF TypeOK
<1> USE DEF Wanted
<1>1. CASE SetClip
  BY <1>1 DEF SetClip
<1>2. CASE Play \/ Resume
  BY <1>2 DEF Play, Resume, AppTurn, background, PlayEffect, ResumeEffect, Moves, Keeps,
     states, InBackground, Pending
<1>3. CASE Pause
  BY <1>3 DEF Pause, PauseEffect, Moves, Keeps
<1>4. CASE Stop \/ OnDisable
  BY <1>4 DEF Stop, OnDisable, StopEffect, Moves, Keeps
<1>5. CASE OnEnable
  BY <1>5 DEF OnEnable, background, states
<1>6. CASE OnHide
  <2>1. ~inBackground /\ asked' = asked
    BY <1>6 DEF OnHide, InBackground
  <2>2. CASE enabled /\ IsPlaying
    <3>1. inBackground' /\ lastPlayState' /\ PauseEffect
      BY <1>6, <2>1, <2>2 DEF OnHide, PauseWhenPlaying
    <3>2. targetState = "PLAYING" /\ targetState' = "PAUSED"
      BY <2>2, <3>1 DEF Pending, IsPlaying, PauseEffect, Moves, Keeps
    <3>3. asked = "play"
      BY <3>2 DEF InBackground
    <3>4. QED
      BY <2>1, <3>1, <3>3
  <2>3. CASE enabled /\ ~IsPlaying
    <3>1. UNCHANGED states
      BY <1>6, <2>1, <2>3 DEF OnHide, PauseWhenPlaying
    <3>2. QED
      BY <2>1, <2>3, <3>1 DEF IsPlaying, states
  <2>4. CASE ~enabled
    BY <1>6, <2>1, <2>4 DEF OnHide, states
  <2>5. QED
    BY <2>2, <2>3, <2>4
<1>7. CASE OnShow
  <2>1. asked' = asked
    BY <1>7 DEF OnShow
  <2>2. CASE inBackground /\ lastPlayState
    <3>1. asked = "play" /\ enabled
      BY <2>2 DEF InBackground
    <3>2. targetState' = "PLAYING" /\ ~inBackground'
      BY <1>7, <2>2, <3>1 DEF OnShow, ResumeEffect, Moves, Keeps
    <3>3. QED
      BY <2>1, <3>1, <3>2
  <2>3. CASE inBackground /\ ~lastPlayState
    <3>1. UNCHANGED states /\ ~inBackground'
      BY <1>7, <2>3 DEF OnShow, InBackground
    <3>2. QED
      BY <2>1, <2>3, <3>1 DEF states
  <2>4. CASE ~inBackground
    BY <1>7, <2>1, <2>4 DEF OnShow, states
  <2>5. QED
    BY <2>2, <2>3, <2>4
<1>8. CASE PlayerIsReady \/ PlayerFails \/ PlayerEnds
  BY <1>8 DEF PlayerIsReady, PlayerFails, PlayerEnds, states, background
<1>9. CASE OnReadyToPlay
  <2>1. CASE CanPlay
    <3>1. Taken("ready")
      BY <1>0, <1>9, QueueSteps DEF OnReadyToPlay, Events
    <3>2. currentState = "PREPARING"
      BY <1>0, <2>1, <3>1 DEF CanPlay, Taken, BeforeReady, OnItsWay
    <3>3. QED
      BY <1>9, <3>2 DEF OnReadyToPlay, Arrives, background
  <2>2. CASE ~CanPlay
    BY <1>9, <2>2 DEF OnReadyToPlay, Arrives, background
  <2>3. QED
    BY <2>1, <2>2
<1>10. CASE PlaysWhenAsked
  BY <1>10 DEF PlaysWhenAsked, PlayEffect, Moves, Keeps, IsInPlaybackState, states,
     background, Pending
<1>11. CASE OnCompleted
  BY <1>11 DEF OnCompleted, Arrives, states, background
<1>12. CASE OnError
  BY <1>12 DEF OnError
<1>13. CASE UNCHANGED vars
  BY <1>13 DEF vars, dynamic, states, background
<1>14. QED
  BY <1>1, <1>2, <1>3, <1>4, <1>5, <1>6, <1>7, <1>8, <1>9, <1>10, <1>11, <1>12, <1>13
     DEF Next

\* What the component, its player and the events on their way agree on holds in
\* every state: whatever order calls and events come in for the first two parts,
\* when calls come between the events for the others.
THEOREM VideoInvariant == Spec => []VideoInv
<1>1. VideoInv /\ [Next]_vars => VideoInv'
  <2>1. SUFFICES ASSUME VideoInv, [Next]_vars PROVE VideoInv'
    OBVIOUS
  <2>2. TypeOK /\ Pending /\ InBackground /\ BeforeReady
    BY <2>1 DEF VideoInv
  <2>3. (TypeOK /\ Pending /\ InBackground /\ BeforeReady)'
    BY <2>1, <2>2, TypeInductive, PendingInductive, InBackgroundStep, BeforeReadyStep
  <2>4. ASSUME ~setup.late
        PROVE  (OnItsWay /\ InStep /\ Wanted)'
    <3>1. OnItsWay /\ InStep /\ Wanted
      BY <2>1, <2>4 DEF VideoInv
    <3>2. QED
      BY <2>1, <2>2, <2>4, <3>1, InStepStep, WantedStep
  <2>5. setup' = setup
    BY <2>1, SetupStays
  <2>6. QED
    BY <2>3, <2>4, <2>5 DEF VideoInv
<1>2. QED
  BY <1>1, VideoInit, PTL DEF Spec

\* The last call for a source is what the component is after, through its load, its
\* end, an error and a time in the background (onHide and onShow), when calls come
\* between the player's events.
THEOREM AlwaysAsAsked == Spec => []AsAsked
<1>1. VideoInv => AsAsked
  <2>1. SUFFICES ASSUME VideoInv PROVE AsAsked
    OBVIOUS
  <2>2. (~setup.late => Wanted) /\ InBackground
    BY <2>1 DEF VideoInv
  <2>3. QED
    BY <2>2 DEF AsAsked, Wanted, InBackground
<1>2. QED
  BY <1>1, VideoInvariant, PTL

\* In the background no video plays that heard of it, one that became ready there
\* included (onHide keeps what is to play in lastPlayState, and line 434 finds
\* nothing to play).
THEOREM BackgroundAlwaysQuiet == Spec => []BackgroundIsQuiet
<1>1. VideoInv => BackgroundIsQuiet
  <2>1. SUFFICES ASSUME VideoInv PROVE BackgroundIsQuiet
    OBVIOUS
  <2>2. (~setup.late => InStep) /\ InBackground /\ Pending
    BY <2>1 DEF VideoInv
  <2>3. QED
    BY <2>2 DEF BackgroundIsQuiet, InStep, InBackground, Pending
<1>2. QED
  BY <1>1, VideoInvariant, PTL

\* When no event is on its way the component takes the player to be playing exactly
\* when it is.
THEOREM PlayerAlwaysAgrees == Spec => []PlayerAgrees
<1>1. VideoInv => PlayerAgrees
  <2>1. SUFFICES ASSUME VideoInv, ~setup.late, events = <<>>
        PROVE  currentState = "PLAYING" <=> player = "playing"
    BY DEF PlayerAgrees
  <2>2. InStep
    BY <2>1 DEF VideoInv
  <2>3. Len(events) = 0
    BY <2>1
  <2>4. QED
    BY <2>2, <2>3 DEF InStep
<1>2. QED
  BY <1>1, VideoInvariant, PTL

\* A source is announced as ready once: 'ready' comes only while the source is read
\* (onCanPlay), so it never sets back a video that plays, is paused or has ended.
THEOREM ReadyAlwaysOnce == Spec => ReadyIsOnce
<1>1. VideoInv /\ [Next]_vars =>
        [(~announcing /\ announcing' /\ ~(setup.native /\ setup.late))
             => currentState = "PREPARING"]_vars
  <2>1. SUFFICES ASSUME VideoInv, Next, ~announcing, announcing',
                        ~(setup.native /\ setup.late)
                 PROVE  currentState = "PREPARING"
    OBVIOUS
  <2>2. TypeOK /\ BeforeReady /\ (~setup.late => OnItsWay)
    BY <2>1 DEF VideoInv
  <2>3. OnReadyToPlay /\ CanPlay
    BY <2>1, <2>2 DEF TypeOK, Next, SetClip, Play, Resume, Pause, Stop, OnDisable, OnEnable,
       OnHide, OnShow, PlayerIsReady, PlayerFails, PlayerEnds, OnReadyToPlay,
       PlaysWhenAsked, OnCompleted, OnError
  <2>4. events \in Seq(Events) /\ Len(events) \in Nat /\ loaded \in BOOLEAN
    BY <2>2 DEF TypeOK
  <2>5. Taken("ready")
    BY <2>3, <2>4, QueueSteps DEF OnReadyToPlay, Events
  <2>6. CASE setup.native
    BY <2>1, <2>2, <2>4, <2>5, <2>6 DEF Taken, OnItsWay
  <2>7. CASE ~setup.native
    BY <2>2, <2>3, <2>4, <2>5, <2>7 DEF CanPlay, Taken, BeforeReady
  <2>8. QED
    BY <2>6, <2>7
<1>2. QED
  BY <1>1, VideoInvariant, PTL DEF Spec, ReadyIsOnce

-----------------------------------------------------------------------------
(***************************************************************************)
(* CCMCategoryView.  First what the recursive functions of the model       *)
(* compute, by induction on the rounds: the searches and the measurement.  *)
(* Then what each part of layoutItems does to a window, then what the work *)
(* on both windows does to the layout, and last the invariant of the view. *)
(***************************************************************************)

(* Induction up to a bound, and functions defined by it. *)

\* What holds at 0 and goes on from one to the next holds up to n.
LEMMA InductionTo ==
    ASSUME NEW n \in Nat, NEW T, 0 \in T,
           \A k \in 1 .. n : k - 1 \in T => k \in T
    PROVE  0 .. n \subseteq T
<1>1. SUFFICES ASSUME 0 .. n \ T # {}
               PROVE  FALSE
  OBVIOUS
<1> DEFINE S == 0 .. n \ T
<1>2. S \in SUBSET Nat /\ S # {}
  BY <1>1
<1>3. \E x \in S : \A y \in S : ~(<<y, x>> \in OpToRel(<, Nat))
  <2> HIDE DEF S
  <2>1. QED
    BY <1>2, NatLessThanWellFounded, WFMin
<1>4. PICK x \in S : \A y \in S : ~(<<y, x>> \in OpToRel(<, Nat))
  BY <1>3
<1>5. x # 0 /\ x \in 1 .. n /\ x - 1 \in 0 .. n /\ x - 1 < x
  OBVIOUS
<1>6. <<x - 1, x>> \in OpToRel(<, Nat)
  BY <1>5 DEF OpToRel
<1>7. x - 1 \notin S
  BY <1>4, <1>6
<1>8. x \in T
  BY <1>5, <1>7
<1>9. QED
  BY <1>8

\* g goes n steps by step, and is where F says after each.
Steps(g, n, step) == \A k \in 1 .. n : g[k] = step[<<k, g[k - 1]>>]
Within(g, n, F) == \A k \in 0 .. n : g[k] \in F[k]

\* A value can be stepped n times; F says where it is after each step.
LEMMA Iterates ==
    ASSUME NEW n \in Nat, NEW U, NEW F \in [0 .. n -> SUBSET U],
           NEW x \in F[0], NEW step \in [(1 .. n) \X U -> U],
           \A k \in 1 .. n : \A p \in F[k - 1] : step[<<k, p>>] \in F[k]
    PROVE  \E g \in [0 .. n -> U] : g[0] = x /\ Steps(g, n, step) /\ Within(g, n, F)
<1> DEFINE Goes(g, m) == g[0] = x /\ Steps(g, m, step) /\ Within(g, m, F)
           T == {m \in 0 .. n : \E g \in [0 .. m -> U] : Goes(g, m)}
<1> USE DEF Steps, Within
<1>1. 0 \in T
  <2>1. x \in U
    OBVIOUS
  <2> DEFINE h == [i \in 0 .. 0 |-> x]
  <2>2. h \in [0 .. 0 -> U] /\ h[0] = x
    BY <2>1
  <2> HIDE DEF h
  <2>3. Goes(h, 0)
    BY <2>2
  <2>4. QED
    BY <2>2, <2>3
<1>2. ASSUME NEW m \in 1 .. n, m - 1 \in T
      PROVE  m \in T
  <2>1. PICK g \in [0 .. m - 1 -> U] : Goes(g, m - 1)
    BY <1>2
  <2> DEFINE h == [i \in 0 .. m |-> IF i = m THEN step[<<m, g[m - 1]>>] ELSE g[i]]
  <2>2. m - 1 \in 0 .. m - 1 /\ g[m - 1] \in F[m - 1] /\ g[m - 1] \in U
    BY <2>1
  <2>3. step[<<m, g[m - 1]>>] \in F[m] /\ step[<<m, g[m - 1]>>] \in U
    BY <2>2
  <2>4. /\ h \in [0 .. m -> U] /\ h[m] = step[<<m, g[m - 1]>>]
        /\ \A i \in 0 .. m - 1 : h[i] = g[i]
    BY <2>1, <2>3
  <2> HIDE DEF h
  <2>5. \A k \in 1 .. m : h[k] = step[<<k, h[k - 1]>>]
    <3> TAKE k \in 1 .. m
    <3>1. CASE k = m
      <4>1. h[m - 1] = g[m - 1]
        BY <2>2, <2>4
      <4>2. QED
        BY <2>4, <3>1, <4>1
    <3>2. CASE k # m
      <4>1. k \in 1 .. m - 1 /\ k - 1 \in 0 .. m - 1 /\ k \in 0 .. m - 1
        BY <3>2
      <4>2. QED
        BY <2>1, <2>4, <4>1
    <3>3. QED
      BY <3>1, <3>2
  <2>6. \A k \in 0 .. m : h[k] \in F[k]
    <3> TAKE k \in 0 .. m
    <3>1. CASE k = m
      BY <2>3, <2>4, <3>1
    <3>2. CASE k # m
      <4>1. k \in 0 .. m - 1
        BY <3>2
      <4>2. QED
        BY <2>1, <2>4, <4>1
    <3>3. QED
      BY <3>1, <3>2
  <2>7. h[0] = x
    BY <2>1, <2>4
  <2>8. QED
    BY <2>4, <2>5, <2>6, <2>7
<1>3. n \in T
  <2> HIDE DEF T
  <2>1. 0 .. n \subseteq T
    BY <1>1, <1>2, InductionTo
  <2>2. QED
    BY <2>1
<1>4. QED
  BY <1>3

-----------------------------------------------------------------------------
(* The binary search. *)

Ways == {"up", "down", "here"}
\* Up from an index is up from all above it, down from all below it.
Sorted(go) ==
    \A i, j \in 1 .. Len(go) : i <= j =>
        /\ go[i] = "up" => go[j] = "up"
        /\ go[j] = "down" => go[i] = "down"

\* What holds of the search after some rounds: below l all go down, above h all go
\* up; and it has found its index, or less is left with every round, and when
\* nothing is left it has just probed an end of it.
Place(n) == [l : 1 .. n + 1, h : 0 .. n, m : 1 .. n]
Searches(go, p, rounds) ==
    /\ \A j \in 1 .. Len(go) : /\ j < p.l => go[j] = "down"
                               /\ j > p.h => go[j] = "up"
    /\ p.l <= p.h + 1
    /\ \/ p.l <= p.h /\ p.m = (p.l + p.h) \div 2 /\ go[p.m] = "here"
       \/ p.h - p.l + 1 <= Len(go) - rounds /\ (p.l > p.h => p.m \in {p.h, p.l})

\* A round of it.
LEMMA SearchGoesOn ==
    ASSUME NEW go \in Seq(Ways), Sorted(go), NEW p \in Place(Len(go)), NEW k \in 1 .. Len(go),
           Searches(go, p, k - 1)
    PROVE  Probed(p, go) \in Place(Len(go)) /\ Searches(go, Probed(p, go), k)
<1> DEFINE n == Len(go)
           m == (p.l + p.h) \div 2
           q == Probed(p, go)
<1>1. /\ n \in Nat /\ p.l \in 1 .. n + 1 /\ p.h \in 0 .. n /\ p.m \in 1 .. n
      /\ \A i \in 1 .. n : go[i] \in Ways
  BY DEF Place
<1>2. CASE p.l > p.h
  <2>1. q = p
    BY <1>2 DEF Probed
  <2>2. p.h - p.l + 1 <= n - k /\ p.m \in {p.h, p.l}
    BY <1>1, <1>2 DEF Searches
  <2>3. QED
    BY <1>1, <1>2, <2>1, <2>2 DEF Searches
<1>3. CASE p.l <= p.h
  <2>1. m \in p.l .. p.h /\ m \in 1 .. n
    BY <1>1, <1>3
  <2>2. \/ p.m = m /\ go[m] = "here"
        \/ p.h - p.l + 1 <= n - (k - 1)
    BY <1>1, <1>3 DEF Searches
  <2>3. q = [l |-> IF go[m] = "down" THEN m + 1 ELSE p.l,
             h |-> IF go[m] = "up" THEN m - 1 ELSE p.h,
             m |-> m]
    BY <1>1, <1>3 DEF Probed
  <2>4. q \in Place(n)
    <3> HIDE DEF m, q
    <3>1. /\ (IF go[m] = "down" THEN m + 1 ELSE p.l) \in 1 .. n + 1
          /\ (IF go[m] = "up" THEN m - 1 ELSE p.h) \in 0 .. n
      BY <1>1, <2>1
    <3>2. QED
      BY <2>1, <2>3, <3>1 DEF Place
  <2>5. \A j \in 1 .. n : (j < p.l => go[j] = "down") /\ (j > p.h => go[j] = "up")
    BY DEF Searches
  <2>6. go[m] = "here" => m = (p.l + p.h) \div 2
    OBVIOUS
  <2> HIDE DEF m, q, n
  <2>7. CASE go[m] = "down"
    <3>1. q.l = m + 1 /\ q.h = p.h /\ q.m = m
      BY <2>3, <2>7
    <3>2. \A j \in 1 .. n : j < q.l => go[j] = "down"
      BY <1>1, <2>1, <2>7, <3>1 DEF Sorted, n
    <3>3. q.h - q.l + 1 <= n - k /\ q.l <= q.h + 1 /\ (q.l > q.h => q.m = q.h)
      BY SMTT(30), <1>1, <2>1, <2>2, <2>7, <3>1
    <3>4. QED
      BY <2>4, <2>5, <3>1, <3>2, <3>3 DEF Searches, n, q
  <2>8. CASE go[m] = "up"
    <3>1. q.l = p.l /\ q.h = m - 1 /\ q.m = m
      BY <2>3, <2>8
    <3>2. \A j \in 1 .. n : j > q.h => go[j] = "up"
      BY <1>1, <2>1, <2>8, <3>1 DEF Sorted, n
    <3>3. q.h - q.l + 1 <= n - k /\ q.l <= q.h + 1 /\ (q.l > q.h => q.m = q.l)
      BY SMTT(30), <1>1, <2>1, <2>2, <2>8, <3>1
    <3>4. QED
      BY <2>4, <2>5, <3>1, <3>2, <3>3 DEF Searches, n, q
  <2>9. CASE go[m] = "here"
    <3>1. q.l = p.l /\ q.h = p.h /\ q.m = m
      BY <2>3, <2>9
    <3>2. q.l <= q.h /\ q.m = (q.l + q.h) \div 2 /\ go[q.m] = "here" /\ q.l <= q.h + 1
      BY <1>1, <1>3, <2>6, <2>9, <3>1
    <3>3. QED
      BY <2>4, <2>5, <3>1, <3>2 DEF Searches, n, q
  <2>10. QED
    BY <1>1, <2>1, <2>7, <2>8, <2>9 DEF Ways
<1>4. QED
  BY <1>1, <1>2, <1>3

\* The search among at least one: it ends where it goes neither up nor down, or
\* between one from which all go down and one from which all go up.
LEMMA BinarySearchFinds ==
    ASSUME NEW go \in Seq(Ways), Sorted(go), go # <<>>
    PROVE  LET r == BinarySearch(go)
           IN  /\ r \in 1 .. Len(go)
               /\ \/ go[r] = "here"
                  \/ go[r] = "down" /\ (r < Len(go) => go[r + 1] = "up")
                  \/ go[r] = "up" /\ (r > 1 => go[r - 1] = "down")
<1> DEFINE n == Len(go)
           after == CHOOSE after : after =
               [rounds \in 0 .. n |->
                   IF rounds = 0 THEN [l |-> 1, h |-> n, m |-> 1]
                   ELSE Probed(after[rounds - 1], go)]
           U == Place(n)
           F == [k \in 0 .. n |-> {p \in U : Searches(go, p, k)}]
           step == [kp \in (1 .. n) \X U |-> IF Probed(kp[2], go) \in U THEN Probed(kp[2], go) ELSE kp[2]]
           start == [l |-> 1, h |-> n, m |-> 1]
<1>1. n \in Nat /\ n >= 1
  OBVIOUS
<1>2. start \in F[0]
  <2>1. start \in U
    BY <1>1 DEF Place
  <2>2. Searches(go, start, 0)
    BY <1>1 DEF Searches
  <2>3. QED
    BY <1>1, <2>1, <2>2
<1>3. F \in [0 .. n -> SUBSET U] /\ step \in [(1 .. n) \X U -> U]
  OBVIOUS
<1>4. \A k \in 1 .. n : \A p \in F[k - 1] : Probed(p, go) \in F[k]
  <2> TAKE k \in 1 .. n
  <2> TAKE p \in F[k - 1]
  <2>1. k - 1 \in 0 .. n /\ k \in 0 .. n
    BY <1>1
  <2>2. p \in U /\ Searches(go, p, k - 1)
    BY <2>1
  <2>3. Probed(p, go) \in U /\ Searches(go, Probed(p, go), k)
    BY <2>2, SearchGoesOn
  <2>4. QED
    BY <2>1, <2>3
<1>5. \A k \in 1 .. n : \A p \in F[k - 1] : p \in U /\ Probed(p, go) \in U
  <2>1. \A k \in 1 .. n : k - 1 \in 0 .. n /\ F[k - 1] \subseteq U /\ k \in 0 .. n /\ F[k] \subseteq U
    BY <1>1
  <2>2. QED
    BY <1>4, <2>1
<1>6. \A k \in 1 .. n : \A p \in F[k - 1] : step[<<k, p>>] = Probed(p, go)
  BY <1>5
<1> HIDE DEF F, step, U, n, start
<1>7. \E g \in [0 .. n -> U] : g[0] = start /\ Steps(g, n, step) /\ Within(g, n, F)
  <2>1. \A k \in 1 .. n : \A p \in F[k - 1] : step[<<k, p>>] \in F[k]
    BY <1>4, <1>6
  <2> HIDE DEF after
  <2>2. QED
    BY <1>1, <1>2, <1>3, <2>1, Iterates
<1>8. PICK g \in [0 .. n -> U] :
              g[0] = start /\ Steps(g, n, step) /\ Within(g, n, F)
  BY <1>7
<1>9. g = [rounds \in 0 .. n |-> IF rounds = 0 THEN start ELSE Probed(g[rounds - 1], go)]
  <2>1. \A k \in 0 .. n : g[k] = IF k = 0 THEN start ELSE Probed(g[k - 1], go)
    <3> TAKE k \in 0 .. n
    <3>1. CASE k = 0
      BY <1>8, <3>1
    <3>2. CASE k # 0
      <4>1. k \in 1 .. n /\ k - 1 \in 0 .. n
        BY <1>1, <3>2
      <4>2. QED
        BY <1>6, <1>8, <3>2, <4>1 DEF Steps, Within
    <3>3. QED
      BY <3>1, <3>2
  <2>2. QED
    BY <2>1
<1>10. after = [rounds \in 0 .. n |-> IF rounds = 0 THEN start ELSE Probed(after[rounds - 1], go)]
  BY <1>9 DEF start
<1>11. BinarySearch(go) = after[n].m
  BY DEF BinarySearch, n
<1>12. after[n] \in F[n]
  <2> DEFINE T == {k \in 0 .. n : after[k] \in F[k]}
  <2> HIDE DEF after
  <2>1. 0 \in T
    BY <1>1, <1>2, <1>10
  <2>2. ASSUME NEW k \in 1 .. n, k - 1 \in T
        PROVE  k \in T
    <3>1. k \in 0 .. n /\ k # 0 /\ after[k - 1] \in F[k - 1]
      BY <1>1, <2>2
    <3>2. after[k] = Probed(after[k - 1], go)
      BY <1>10, <3>1
    <3>3. QED
      BY <1>4, <3>1, <3>2
  <2>3. 0 .. n \subseteq T
    <3> HIDE DEF T
    <3>1. QED
      BY <1>1, <2>1, <2>2, InductionTo
  <2>4. QED
    BY <1>1, <2>3
<1>13. PICK p \in Place(n) : p = after[n] /\ Searches(go, p, n)
  <2> HIDE DEF after
  <2>1. QED
    BY <1>1, <1>12 DEF F, U
<1>14. /\ p.l \in 1 .. n + 1 /\ p.h \in 0 .. n /\ p.m \in 1 .. n
  BY DEF Place
<1>15. /\ \A j \in 1 .. n : (j < p.l => go[j] = "down") /\ (j > p.h => go[j] = "up")
       /\ \/ go[p.m] = "here"
          \/ p.l = p.h + 1 /\ p.m \in {p.h, p.l}
  <2> HIDE DEF after
  <2>1. QED
    BY <1>1, <1>13, <1>14 DEF Searches, n
<1>16. BinarySearch(go) = p.m
  BY <1>11, <1>13
<1>17. CASE go[p.m] = "here"
  BY <1>14, <1>16, <1>17 DEF n
<1>18. CASE p.l = p.h + 1 /\ p.m = p.h
  <2>1. go[p.m] = "down" /\ (p.m < n => p.m + 1 \in 1 .. n /\ go[p.m + 1] = "up")
    BY <1>1, <1>14, <1>15, <1>18
  <2>2. QED
    BY <1>14, <1>16, <2>1 DEF n
<1>19. CASE p.l = p.h + 1 /\ p.m = p.l
  <2>1. go[p.m] = "up" /\ (p.m > 1 => p.m - 1 \in 1 .. n /\ go[p.m - 1] = "down")
    BY <1>1, <1>14, <1>15, <1>19
  <2>2. QED
    BY <1>14, <1>16, <2>1 DEF n
<1>20. QED
  BY <1>15, <1>17, <1>18, <1>19

\* The search among none.
LEMMA BinarySearchOfNone ==
    BinarySearch(<<>>) = 1
<1> DEFINE after == CHOOSE after : after =
               [rounds \in 0 .. 0 |->
                   IF rounds = 0 THEN [l |-> 1, h |-> 0, m |-> 1]
                   ELSE Probed(after[rounds - 1], <<>>)]
<1>1. Len(<<>>) = 0
  OBVIOUS
<1>2. BinarySearch(<<>>) = after[0].m
  BY <1>1 DEF BinarySearch
<1>3. [rounds \in 0 .. 0 |-> [l |-> 1, h |-> 0, m |-> 1]]
         = [rounds \in 0 .. 0 |->
                   IF rounds = 0 THEN [l |-> 1, h |-> 0, m |-> 1]
                   ELSE Probed([r \in 0 .. 0 |-> [l |-> 1, h |-> 0, m |-> 1]][rounds - 1], <<>>)]
  OBVIOUS
<1>4. after = [rounds \in 0 .. 0 |->
                   IF rounds = 0 THEN [l |-> 1, h |-> 0, m |-> 1]
                   ELSE Probed(after[rounds - 1], <<>>)]
  BY <1>3
<1>5. after[0] = [l |-> 1, h |-> 0, m |-> 1]
  <2> HIDE DEF after
  <2>1. QED
    BY <1>4
<1>6. QED
  BY <1>2, <1>5

-----------------------------------------------------------------------------
(* Measuring. *)

ViewItem == [type : Types, top : Nat, height : Nat \ {0}, invisible : BOOLEAN, end : Nat]
Measurement == [items : Seq(ViewItem), categories : Seq(ViewItem), containers : Seq(ViewItem),
                used : Nat]

\* The later in a list, the lower it begins and ends.
Ordered(list) ==
    \A i, j \in DOMAIN list : i <= j =>
        /\ list[i].top <= list[j].top
        /\ list[i].top + list[i].height <= list[j].top + list[j].height
Over(list, y) == \A i \in DOMAIN list : list[i].top + list[i].height <= y
Under(list, y) == \A i \in DOMAIN list : list[i].top >= y
OfType(list, S) == \A i \in DOMAIN list : list[i].type \in S
\* Where a category ends the next begins.
Chained(list, y) ==
    \A k \in DOMAIN list : /\ list[k].top <= list[k].end
                           /\ list[k].end = IF k = Len(list) THEN y ELSE list[k + 1].top

\* What was measured lies one below the other, and above what is used.
Stacked == {m \in Measurement :
    /\ Ordered(m.items) /\ Over(m.items, m.used)
    /\ Ordered(m.containers) /\ Over(m.containers, m.used)
    /\ Ordered(m.categories) /\ Over(m.categories, m.used)
    /\ Chained(m.categories, m.used)
    /\ OfType(m.items, Types \ {"CONTAINER"}) /\ OfType(m.containers, {"CONTAINER"})}

\* The sizes of a view.
LEMMA Sizes ==
    /\ Columns \in Nat \ {0} /\ ItemHeight \in Nat \ {0} /\ CategoryHeight \in Nat \ {0}
    /\ HeaderHeight \in Nat \ {0}
    /\ Spacing \in Nat /\ Padding \in Nat /\ ViewHeight \in Nat /\ WinHeight \in Nat
    /\ RowHeight \in Nat /\ ItemHeight <= RowHeight
BY SizesAssumption DEF RowHeight

\* View makes view items.
LEMMA ViewIsItem ==
    ASSUME NEW type \in Types, NEW top \in Nat, NEW height \in Nat \ {0},
           NEW invisible \in BOOLEAN, NEW end \in Nat
    PROVE  /\ View(type, top, height, invisible, end) \in ViewItem
           /\ View(type, top, height, invisible, end).type = type
           /\ View(type, top, height, invisible, end).top = top
           /\ View(type, top, height, invisible, end).height = height
           /\ View(type, top, height, invisible, end).end = end
BY DEF View, ViewItem

\* What a view item is made of.
LEMMA ItemFields ==
    ASSUME NEW v \in ViewItem
    PROVE  /\ v.type \in Types /\ v.top \in Nat /\ v.height \in Nat /\ v.height > 0
           /\ v.invisible \in BOOLEAN /\ v.end \in Nat
BY DEF ViewItem

\* Products grow with a factor.
LEMMA TimesGrows ==
    ASSUME NEW a \in Nat, NEW b \in Nat, NEW c \in Nat, a <= b
    PROVE  a * c \in Nat /\ a * c <= b * c
<1>1. PICK d \in Nat : b = a + d
  <2>1. b - a \in Nat /\ b = a + (b - a)
    OBVIOUS
  <2>2. QED
    BY <2>1
<1>2. b * c = a * c + d * c
  BY <1>1
<1>3. d * c \in Nat /\ a * c \in Nat
  OBVIOUS
<1>4. QED
  BY <1>2, <1>3

\* The row of the k-th item of a category.
LEMMA RowOf ==
    ASSUME NEW r \in Nat, NEW j \in 1 .. r * Columns
    PROVE  (j - 1) \div Columns \in 0 .. r - 1
<1>1. Columns \in Nat \ {0} /\ r * Columns \in Nat
  BY Sizes
<1> DEFINE q == (j - 1) \div Columns
<1>2. q \in Nat /\ q * Columns <= j - 1
  BY <1>1
<1>3. q < r
  <2>1. SUFFICES ASSUME r <= q PROVE FALSE
    BY <1>2
  <2>2. r * Columns <= q * Columns
    BY <1>1, <1>2, <2>1, TimesGrows
  <2>3. QED
    BY <1>1, <1>2, <2>2
<1>4. QED
  BY <1>2, <1>3

\* A later item is in no earlier row.
LEMMA RowsGrow ==
    ASSUME NEW i \in Nat, NEW j \in Nat, i <= j
    PROVE  i \div Columns <= j \div Columns
<1>1. Columns \in Nat \ {0}
  BY Sizes
<1> DEFINE p == i \div Columns
           q == j \div Columns
<1>2. /\ p \in Nat /\ p * Columns <= i
      /\ q \in Nat /\ j < q * Columns + Columns
  BY <1>1
<1>3. SUFFICES ASSUME q + 1 <= p PROVE FALSE
  BY <1>2
<1> HIDE DEF p, q
<1>4. (q + 1) * Columns <= p * Columns
  BY <1>1, <1>2, <1>3, TimesGrows
<1>5. (q + 1) * Columns = q * Columns + Columns
  BY <1>1, <1>2
<1>6. q * Columns \in Nat /\ p * Columns \in Nat
  BY <1>1, <1>2
<1>7. QED
  BY <1>1, <1>2, <1>4, <1>5, <1>6

\* Views of one height whose distances from top grow.
LEMMA DistancesOrder ==
    ASSUME NEW n \in Nat, NEW top \in Nat, NEW h \in Nat, NEW b \in Nat,
           NEW list, DOMAIN list = 1 .. n,
           NEW a \in [1 .. n -> Nat], \A i, j \in 1 .. n : i <= j => a[i] <= a[j],
           \A k \in 1 .. n : a[k] + h <= b,
           \A k \in 1 .. n : list[k].top = top + a[k] /\ list[k].height = h
    PROVE  Ordered(list) /\ Over(list, top + b) /\ Under(list, top)
<1>1. \A k \in 1 .. n : a[k] \in Nat
  OBVIOUS
<1>2. Ordered(list)
  <2>1. SUFFICES ASSUME NEW i \in 1 .. n, NEW j \in 1 .. n, i <= j
                 PROVE  /\ list[i].top <= list[j].top
                        /\ list[i].top + list[i].height <= list[j].top + list[j].height
    BY DEF Ordered
  <2>2. a[i] <= a[j] /\ a[i] \in Nat /\ a[j] \in Nat
    BY <1>1, <2>1
  <2>3. /\ list[i].top = top + a[i] /\ list[i].height = h
        /\ list[j].top = top + a[j] /\ list[j].height = h
    OBVIOUS
  <2>4. top + a[i] <= top + a[j] /\ top + a[i] + h <= top + a[j] + h
    BY SMTT(30), <2>2
  <2>5. QED
    BY <2>3, <2>4
<1>3. Over(list, top + b)
  <2>1. SUFFICES ASSUME NEW i \in 1 .. n
                 PROVE  list[i].top + list[i].height <= top + b
    BY DEF Over
  <2>2. QED
    BY <1>1
<1>4. Under(list, top)
  BY <1>1 DEF Under
<1>5. QED
  BY <1>2, <1>3, <1>4

\* Rows one below the other from top on; row[k] is the row of the k-th view.
Rising(row) == \A i, j \in DOMAIN row : i <= j => row[i] <= row[j]
EndOf(top, r) == top + r * RowHeight
Lines(type, top, row, invisible, end) ==
    [k \in DOMAIN row |-> View(type, top + row[k] * RowHeight, ItemHeight, invisible[k], end)]
\* Views that are laid in rows are in order.
LEMMA RowsAreOrdered ==
    ASSUME NEW n \in Nat, NEW r \in Nat, NEW top \in Nat, NEW type \in Types,
           NEW row \in [1 .. n -> 0 .. r - 1], Rising(row),
           NEW invisible \in [1 .. n -> BOOLEAN]
    PROVE  LET end == EndOf(top, r)
               list == Lines(type, top, row, invisible, end)
           IN  /\ list \in Seq(ViewItem) /\ Len(list) = n
               /\ Ordered(list) /\ Over(list, end) /\ Under(list, top)
               /\ OfType(list, {type})
<1> USE Sizes
<1> DEFINE end == EndOf(top, r)
           list == Lines(type, top, row, invisible, end)
<1> USE DEF EndOf
<1>1. list = [k \in 1 .. n |-> View(type, top + row[k] * RowHeight, ItemHeight, invisible[k], end)]
  BY DEF Lines
<1>2. \A k \in 1 .. n : /\ row[k] \in Nat /\ row[k] + 1 <= r
                        /\ row[k] * RowHeight \in Nat
                        /\ row[k] * RowHeight + RowHeight <= r * RowHeight
  <2> TAKE k \in 1 .. n
  <2>1. row[k] \in Nat /\ row[k] + 1 \in Nat /\ row[k] + 1 <= r
    OBVIOUS
  <2> DEFINE a == row[k]
             h == RowHeight
  <2> HIDE DEF a, h
  <2>2. a \in Nat /\ a + 1 \in Nat /\ a + 1 <= r /\ a <= a + 1 /\ h \in Nat
    BY <2>1 DEF a, h
  <2>3. a * h \in Nat /\ (a + 1) * h <= r * h
    BY <2>2, TimesGrows
  <2>4. (a + 1) * h = a * h + h
    BY <2>2
  <2>5. a * h + h <= r * h
    BY <2>3, <2>4
  <2>6. QED
    BY <2>2, <2>3, <2>5 DEF a, h
<1>3. ASSUME NEW k \in 1 .. n
      PROVE  /\ list[k] \in ViewItem
             /\ list[k].top = top + row[k] * RowHeight
             /\ list[k].height = ItemHeight
             /\ list[k].type = type
  <2> DEFINE a == row[k] * RowHeight
             b == invisible[k]
  <2>1. list[k] = View(type, top + a, ItemHeight, b, end)
    BY <1>1
  <2>2. a \in Nat /\ b \in BOOLEAN /\ end \in Nat
    <3>1. r * RowHeight \in Nat
      OBVIOUS
    <3>2. QED
      BY SMTT(30), <1>2, <3>1
  <2> HIDE DEF a, b, list, end
  <2>3. top + a \in Nat /\ ItemHeight \in Nat \ {0}
    BY <2>2
  <2> DEFINE v == View(type, top + a, ItemHeight, b, end)
  <2>4. v \in ViewItem /\ v.type = type /\ v.top = top + a /\ v.height = ItemHeight
    BY <2>2, <2>3, ViewIsItem
  <2>5. list[k] = v
    BY <2>1
  <2> HIDE DEF v
  <2>6. QED
    BY <2>4, <2>5 DEF a
<1>4. list \in Seq(ViewItem) /\ Len(list) = n /\ DOMAIN list = 1 .. n
  BY <1>1, <1>3
<1> DEFINE a == [k \in 1 .. n |-> row[k] * RowHeight]
           b == r * RowHeight
<1>5. /\ \A k \in 1 .. n : a[k] \in Nat /\ a[k] + RowHeight <= b /\ b \in Nat
      /\ \A i, j \in 1 .. n : i <= j => a[i] <= a[j]
  <2>1. ASSUME NEW i \in 1 .. n, NEW j \in 1 .. n, i <= j
        PROVE  row[i] * RowHeight <= row[j] * RowHeight
    <3>1. row[i] \in Nat /\ row[j] \in Nat /\ row[i] <= row[j] /\ RowHeight \in Nat
      BY <1>2, <2>1 DEF Rising
    <3>2. QED
      BY <3>1, TimesGrows
  <2>2. b \in Nat
    OBVIOUS
  <2>3. QED
    BY <1>2, <2>1, <2>2
<1>6. \A k \in 1 .. n : list[k].top = top + a[k] /\ list[k].height = ItemHeight
  BY <1>3
<1>7. end = top + b
  OBVIOUS
<1>8. a \in [1 .. n -> Nat] /\ b \in Nat
  BY <1>5
<1> HIDE DEF a, b, list, end
<1>9. \A k \in 1 .. n : a[k] + ItemHeight <= b
  <2> TAKE k \in 1 .. n
  <2>1. a[k] \in Nat /\ a[k] + RowHeight <= b
    BY <1>5
  <2>2. QED
    BY <1>8, <2>1
<1>10. Ordered(list) /\ Over(list, end) /\ Under(list, top)
  <2>1. ItemHeight \in Nat
    OBVIOUS
  <2>2. Ordered(list) /\ Over(list, top + b) /\ Under(list, top)
    BY <1>4, <1>5, <1>6, <1>8, <1>9, <2>1, DistancesOrder
  <2>3. QED
    BY <1>7, <2>2
<1>11. QED
  BY <1>3, <1>4, <1>10 DEF list, end, OfType

\* A list below y may follow one that ends above y.
LEMMA ListsJoin ==
    ASSUME NEW s \in Seq(ViewItem), NEW t \in Seq(ViewItem), NEW y \in Nat, NEW z \in Nat,
           y <= z, Ordered(s), Ordered(t), Over(s, y), Under(t, y), Over(t, z)
    PROVE  s \o t \in Seq(ViewItem) /\ Ordered(s \o t) /\ Over(s \o t, z)
<1> DEFINE u == s \o t
<1>1. /\ u \in Seq(ViewItem) /\ Len(u) = Len(s) + Len(t)
      /\ Len(s) \in Nat /\ Len(t) \in Nat
      /\ DOMAIN s = 1 .. Len(s) /\ DOMAIN t = 1 .. Len(t) /\ DOMAIN u = 1 .. Len(u)
  OBVIOUS
<1>2. \A i \in 1 .. Len(u) : \/ i \in 1 .. Len(s) /\ u[i] = s[i]
                             \/ i > Len(s) /\ i - Len(s) \in 1 .. Len(t) /\ u[i] = t[i - Len(s)]
  OBVIOUS
<1> HIDE DEF u
<1>3. \A i \in 1 .. Len(u) : u[i].top \in Nat /\ u[i].height \in Nat /\ u[i].height > 0
  <2>1. \A i \in 1 .. Len(u) : u[i] \in ViewItem
    BY <1>1
  <2>2. QED
    BY <2>1, ItemFields
<1>4. Over(u, z)
  BY <1>1, <1>2, <1>3 DEF Over
<1>5. Ordered(u)
  <2>1. SUFFICES ASSUME NEW i \in 1 .. Len(u), NEW j \in 1 .. Len(u), i <= j
                 PROVE  /\ u[i].top <= u[j].top
                        /\ u[i].top + u[i].height <= u[j].top + u[j].height
    BY <1>1 DEF Ordered
  <2>2. CASE j \in 1 .. Len(s) /\ u[j] = s[j]
    <3>1. i \in 1 .. Len(s) /\ u[i] = s[i]
      BY <1>1, <1>2, <2>1, <2>2
    <3>2. QED
      BY <1>1, <2>1, <2>2, <3>1 DEF Ordered
  <2>3. CASE /\ i \in 1 .. Len(s) /\ u[i] = s[i]
             /\ j > Len(s) /\ j - Len(s) \in 1 .. Len(t) /\ u[j] = t[j - Len(s)]
    <3>1. u[i].top + u[i].height <= y /\ y <= u[j].top
      BY <1>1, <2>3 DEF Over, Under
    <3>2. /\ u[i].top \in Nat /\ u[i].height \in Nat
          /\ u[j].top \in Nat /\ u[j].height \in Nat
      BY <1>3
    <3> DEFINE a == u[i].top
               b == u[i].height
               c == u[j].top
               d == u[j].height
    <3>3. a + b <= y /\ y <= c /\ a \in Nat /\ b \in Nat /\ c \in Nat /\ d \in Nat
      BY <3>1, <3>2
    <3> HIDE DEF a, b, c, d
    <3>4. a <= c /\ a + b <= c + d
      BY <3>3
    <3>5. QED
      BY <3>4 DEF a, b, c, d
  <2>4. CASE /\ i > Len(s) /\ i - Len(s) \in 1 .. Len(t) /\ u[i] = t[i - Len(s)]
             /\ j > Len(s) /\ j - Len(s) \in 1 .. Len(t) /\ u[j] = t[j - Len(s)]
    <3>1. i - Len(s) <= j - Len(s)
      BY <1>1, <2>1
    <3>2. QED
      BY <1>1, <2>4, <3>1 DEF Ordered
  <2>5. QED
    BY <1>1, <1>2, <2>1, <2>2, <2>3, <2>4
<1>6. QED
  BY <1>1, <1>4, <1>5 DEF u

\* What is measured before the first category.
LEMMA HeaderIsStacked ==
    ASSUME NEW a \in Adapter
    PROVE  MeasuredHeader(a) \in Stacked
<1> USE Sizes
<1> DEFINE hdr == View("HEADER", Padding, HeaderHeight, FALSE, Padding + HeaderHeight)
<1>1. /\ hdr \in ViewItem /\ hdr.type = "HEADER" /\ hdr.top = Padding
      /\ hdr.height = HeaderHeight /\ hdr.end = Padding + HeaderHeight
  BY DEF View, ViewItem, Types
<1> DEFINE m == MeasuredHeader(a)
<1>2. CASE a.header
  <2>1. m = [items |-> <<hdr>>, categories |-> <<hdr>>, containers |-> <<>>,
             used |-> Padding + HeaderHeight]
    BY <1>2 DEF MeasuredHeader
  <2> HIDE DEF hdr
  <2>2. /\ m.items = <<hdr>> /\ m.categories = <<hdr>> /\ m.containers = <<>>
        /\ m.used = Padding + HeaderHeight /\ m \in Measurement
    BY <1>1, <2>1 DEF Measurement
  <2> HIDE DEF m
  <2>3. Ordered(m.items) /\ Over(m.items, m.used)
    BY <1>1, <2>2 DEF Ordered, Over
  <2>4. Ordered(m.containers) /\ Over(m.containers, m.used)
    BY <2>2 DEF Ordered, Over
  <2>5. Chained(m.categories, m.used) /\ m.categories = m.items
    BY <1>1, <2>2 DEF Chained
  <2>6. QED
    BY <1>1, <2>2, <2>3, <2>4, <2>5 DEF Stacked, OfType, Types, m
<1>3. CASE ~a.header
  <2>1. m = [items |-> <<>>, categories |-> <<>>, containers |-> <<>>, used |-> Padding]
    BY <1>3 DEF MeasuredHeader
  <2>2. m \in Measurement
    BY <2>1 DEF Measurement
  <2>3. /\ Ordered(<<>>) /\ Over(<<>>, Padding) /\ Chained(<<>>, Padding)
        /\ \A S : OfType(<<>>, S)
    BY DEF Ordered, Over, Chained, OfType
  <2>4. QED
    BY <2>1, <2>2, <2>3 DEF Stacked
<1>4. QED
  BY <1>2, <1>3

\* A category is stacked below what was measured before.
LEMMA CategoryIsStacked ==
    ASSUME NEW m \in Stacked, NEW n \in Nat
    PROVE  MeasuredCategory(m, n) \in Stacked
<1> USE Sizes
<1> DEFINE r == Rows(n)
           top == m.used + CategoryHeight
           end == top + r * RowHeight
           heading == View("CATEGORY", m.used, CategoryHeight, FALSE, end)
           cells == [k \in 1 .. r * Columns |->
                       View("ITEM", top + ((k - 1) \div Columns) * RowHeight, ItemHeight, k > n, end)]
           rows == [k \in 1 .. r |->
                       View("CONTAINER", top + (k - 1) * RowHeight, ItemHeight, FALSE, end)]
           q == MeasuredCategory(m, n)
<1>1. q = [items |-> Append(m.items, heading) \o cells, categories |-> Append(m.categories, heading),
           containers |-> m.containers \o rows, used |-> end]
  BY DEF MeasuredCategory
<1>2. /\ m.items \in Seq(ViewItem) /\ m.categories \in Seq(ViewItem)
      /\ m.containers \in Seq(ViewItem) /\ m.used \in Nat
      /\ Ordered(m.items) /\ Over(m.items, m.used)
      /\ Ordered(m.containers) /\ Over(m.containers, m.used)
      /\ Ordered(m.categories) /\ Over(m.categories, m.used)
      /\ Chained(m.categories, m.used)
      /\ OfType(m.items, Types \ {"CONTAINER"}) /\ OfType(m.containers, {"CONTAINER"})
  BY DEF Stacked, Measurement
<1>3. r \in Nat
  BY DEF Rows
<1>4. top \in Nat /\ end \in Nat /\ top <= end /\ m.used <= top /\ end = top + r * RowHeight
  <2>1. r * RowHeight \in Nat
    BY <1>3, TimesGrows
  <2>2. QED
    BY <1>2, <2>1
<1>5. /\ heading \in ViewItem /\ heading.type = "CATEGORY" /\ heading.top = m.used
      /\ heading.height = CategoryHeight /\ heading.end = end
  <2> HIDE DEF end
  <2>1. QED
    BY <1>2, <1>4 DEF View, ViewItem, Types
<1>6. /\ cells \in Seq(ViewItem) /\ Len(cells) = r * Columns
      /\ Ordered(cells) /\ Over(cells, end) /\ Under(cells, top)
      /\ OfType(cells, {"ITEM"})
  <2> DEFINE N == r * Columns
             row == [k \in 1 .. N |-> (k - 1) \div Columns]
             invisible == [k \in 1 .. N |-> k > n]
             list == Lines("ITEM", top, row, invisible, EndOf(top, r))
  <2>1. N \in Nat
    BY <1>3, TimesGrows
  <2>2. row \in [1 .. N -> 0 .. r - 1]
    BY <1>3, RowOf
  <2>3. Rising(row)
    <3> SUFFICES ASSUME NEW i \in 1 .. N, NEW j \in 1 .. N, i <= j
                 PROVE  row[i] <= row[j]
      BY DEF Rising
    <3>1. i - 1 \in Nat /\ j - 1 \in Nat /\ i - 1 <= j - 1
      BY <2>1
    <3>2. (i - 1) \div Columns <= (j - 1) \div Columns
      BY <3>1, RowsGrow
    <3>3. QED
      BY <3>2
  <2>4. invisible \in [1 .. N -> BOOLEAN]
    OBVIOUS
  <2>5. list = cells
    BY DEF Lines, EndOf
  <2>6. "ITEM" \in Types
    BY DEF Types
  <2>7. end = EndOf(top, r)
    BY DEF EndOf
  <2> HIDE DEF N, row, invisible, r, top, end, cells
  <2>8. /\ list \in Seq(ViewItem) /\ Len(list) = N
        /\ Ordered(list) /\ Over(list, EndOf(top, r)) /\ Under(list, top)
        /\ OfType(list, {"ITEM"})
    BY <1>3, <1>4, <2>1, <2>2, <2>3, <2>4, <2>6, RowsAreOrdered
  <2>9. QED
    BY <2>7, <2>5, <2>8 DEF N
<1>7. /\ rows \in Seq(ViewItem) /\ Len(rows) = r
      /\ Ordered(rows) /\ Over(rows, end) /\ Under(rows, top)
      /\ OfType(rows, {"CONTAINER"})
  <2> DEFINE row == [k \in 1 .. r |-> k - 1]
             invisible == [k \in 1 .. r |-> FALSE]
             list == Lines("CONTAINER", top, row, invisible, EndOf(top, r))
  <2>1. row \in [1 .. r -> 0 .. r - 1] /\ invisible \in [1 .. r -> BOOLEAN]
    BY <1>3
  <2>2. Rising(row)
    BY <1>3 DEF Rising
  <2>3. list = rows
    BY DEF Lines, EndOf
  <2>4. "CONTAINER" \in Types
    BY DEF Types
  <2>5. end = EndOf(top, r)
    BY DEF EndOf
  <2> HIDE DEF row, invisible, r, top, end, rows
  <2>6. /\ list \in Seq(ViewItem) /\ Len(list) = r
        /\ Ordered(list) /\ Over(list, EndOf(top, r)) /\ Under(list, top)
        /\ OfType(list, {"CONTAINER"})
    BY <1>3, <1>4, <2>1, <2>2, <2>4, RowsAreOrdered
  <2>7. QED
    BY <2>5, <2>3, <2>6
<1> HIDE DEF r, top, end, heading, cells, rows
<1>8. ASSUME NEW s \in Seq(ViewItem), Ordered(s), Over(s, m.used)
      PROVE  /\ Append(s, heading) \in Seq(ViewItem)
             /\ Ordered(Append(s, heading)) /\ Over(Append(s, heading), top)
  <2> DEFINE t == <<heading>>
  <2>1. t \in Seq(ViewItem) /\ Append(s, heading) = s \o t
    BY <1>5
  <2>2. Ordered(t) /\ Under(t, m.used) /\ Over(t, top)
    BY <1>2, <1>5 DEF Ordered, Under, Over, top
  <2> HIDE DEF t
  <2>3. s \o t \in Seq(ViewItem) /\ Ordered(s \o t) /\ Over(s \o t, top)
    BY <1>2, <1>4, <1>8, <2>1, <2>2, ListsJoin
  <2>4. QED
    BY <2>1, <2>3
<1>9. /\ q.items \in Seq(ViewItem) /\ Ordered(q.items) /\ Over(q.items, end)
  <2> DEFINE s == Append(m.items, heading)
  <2>1. q.items = s \o cells
    BY <1>1
  <2>2. s \in Seq(ViewItem) /\ Ordered(s) /\ Over(s, top)
    BY <1>2, <1>8
  <2> HIDE DEF s, q
  <2>3. s \o cells \in Seq(ViewItem) /\ Ordered(s \o cells) /\ Over(s \o cells, end)
    BY <1>4, <1>6, <2>2, ListsJoin
  <2>4. QED
    BY <2>1, <2>3
<1>10. OfType(q.items, Types \ {"CONTAINER"})
  <2> DEFINE s == Append(m.items, heading)
  <2>1. OfType(s, Types \ {"CONTAINER"})
    BY <1>2, <1>5 DEF OfType, Types
  <2>2. q.items = s \o cells
    BY <1>1
  <2>3. s \in Seq(ViewItem)
    BY <1>2, <1>8
  <2> HIDE DEF s
  <2>4. QED
    BY <1>6, <2>1, <2>2, <2>3 DEF OfType, Types
<1>11. /\ q.containers \in Seq(ViewItem) /\ Ordered(q.containers) /\ Over(q.containers, end)
  <2>1. Under(rows, m.used)
    <3>1. \A i \in DOMAIN rows : rows[i].top \in Nat /\ rows[i].top >= top
      BY <1>7, ItemFields DEF Under
    <3>2. QED
      BY <1>2, <1>4, <3>1 DEF Under
  <2>2. m.used <= end
    BY <1>2, <1>4
  <2>3. QED
    BY SMTT(30), <1>1, <1>2, <1>4, <1>7, <2>1, <2>2, ListsJoin
<1>12. OfType(q.containers, {"CONTAINER"})
  <2> DEFINE s == m.containers
  <2>1. s \in Seq(ViewItem) /\ OfType(s, {"CONTAINER"}) /\ q.containers = s \o rows
    BY <1>1, <1>2
  <2> HIDE DEF s, q
  <2>2. QED
    BY <1>7, <2>1 DEF OfType
<1>13. q.categories \in Seq(ViewItem) /\ Chained(q.categories, end)
  <2> DEFINE c == m.categories
  <2>1. /\ q.categories = Append(c, heading) /\ c \in Seq(ViewItem)
        /\ q.categories \in Seq(ViewItem)
    BY <1>1, <1>2, <1>5
  <2>2. \A k \in DOMAIN c : /\ c[k].top <= c[k].end
                            /\ c[k].end = IF k = Len(c) THEN heading.top ELSE c[k + 1].top
    BY <1>2, <1>5 DEF Chained
  <2>3. heading.top <= heading.end /\ heading.end = end
    BY <1>2, <1>4, <1>5
  <2> DEFINE d == Append(c, heading)
  <2> HIDE DEF c
  <2>4. /\ DOMAIN c = 1 .. Len(c) /\ Len(c) \in Nat
        /\ DOMAIN d = 1 .. Len(c) + 1 /\ Len(d) = Len(c) + 1
        /\ \A k \in 1 .. Len(c) : d[k] = c[k]
        /\ d[Len(c) + 1] = heading
    BY <2>1
  <2> HIDE DEF d
  <2>5. ASSUME NEW k \in DOMAIN d
        PROVE  d[k].top <= d[k].end /\ d[k].end = IF k = Len(d) THEN end ELSE d[k + 1].top
    <3>1. CASE k = Len(c) + 1
      BY <2>3, <2>4, <3>1
    <3>2. CASE k = Len(c)
      <4>1. k \in 1 .. Len(c)
        BY <2>4, <3>2
      <4>2. k \in DOMAIN c /\ d[k] = c[k]
        BY <2>4, <4>1
      <4>3. k # Len(d)
        <5>1. Len(d) = Len(c) + 1 /\ Len(c) \in Nat
          BY <2>4
        <5>2. QED
          BY <3>2, <5>1
      <4>4. d[k + 1] = heading
        BY <2>4, <3>2
      <4>5. c[k].top <= c[k].end /\ c[k].end = heading.top
        BY <2>2, <3>2, <4>2
      <4>6. QED
        BY <4>2, <4>3, <4>4, <4>5
    <3>3. CASE k < Len(c)
      BY <2>2, <2>4, <3>3
    <3>4. QED
      BY <2>4, <3>1, <3>2, <3>3
  <2>6. Chained(d, end)
    BY <2>5 DEF Chained
  <2>7. QED
    BY <2>1, <2>6 DEF d
<1>14. q.used = end /\ q \in Measurement
  BY <1>1, <1>4, <1>9, <1>11, <1>13 DEF Measurement
<1>15. Ordered(q.categories) /\ Over(q.categories, end)
  <2> DEFINE s == Append(m.categories, heading)
  <2>1. s \in Seq(ViewItem) /\ Ordered(s) /\ Over(s, top) /\ q.categories = s
    BY <1>1, <1>2, <1>8
  <2> HIDE DEF s, q
  <2>2. \A i \in DOMAIN s : s[i].top + s[i].height \in Nat
    BY <2>1, ItemFields
  <2>3. Over(s, end)
    BY <1>4, <2>1, <2>2 DEF Over
  <2>4. QED
    BY <2>1, <2>3
<1> HIDE DEF q
<1>16. QED
  BY <1>9, <1>10, <1>11, <1>12, <1>13, <1>14, <1>15 DEF Stacked, q

\* Measuring an adapter, category by category.
LEMMA MeasuredIsStacked ==
    ASSUME NEW a \in Adapter
    PROVE  Measured(a) \in Stacked
<1> DEFINE n == Len(a.counts)
           upTo == CHOOSE upTo : upTo =
               [c \in 0 .. n |->
                   IF c = 0 THEN MeasuredHeader(a)
                   ELSE MeasuredCategory(upTo[c - 1], a.counts[c])]
           start == MeasuredHeader(a)
           F == [c \in 0 .. n |-> Stacked]
           step == [cm \in (1 .. n) \X Stacked |-> MeasuredCategory(cm[2], a.counts[cm[1]])]
<1>1. n \in Nat /\ \A c \in 1 .. n : a.counts[c] \in Nat
  BY DEF Adapter
<1>2. start \in Stacked
  BY HeaderIsStacked
<1>3. \A c \in 1 .. n : \A m \in Stacked : MeasuredCategory(m, a.counts[c]) \in Stacked
  BY <1>1, CategoryIsStacked
<1>4. /\ F \in [0 .. n -> SUBSET Stacked] /\ start \in F[0]
      /\ step \in [(1 .. n) \X Stacked -> Stacked]
      /\ \A c \in 1 .. n : \A m \in Stacked : step[<<c, m>>] = MeasuredCategory(m, a.counts[c])
  BY <1>1, <1>2, <1>3
<1>5. \A c \in 1 .. n : \A m \in F[c - 1] : step[<<c, m>>] \in F[c]
  <2>1. \A c \in 1 .. n : F[c - 1] = Stacked /\ F[c] = Stacked
    BY <1>1
  <2> HIDE DEF F, step
  <2>2. QED
    BY <1>3, <1>4, <2>1
<1> HIDE DEF F, step, start, n
<1>6. PICK g \in [0 .. n -> Stacked] : g[0] = start /\ Steps(g, n, step) /\ Within(g, n, F)
  <2> HIDE DEF upTo
  <2>1. QED
    BY <1>1, <1>4, <1>5, Iterates
<1>7. g = [c \in 0 .. n |-> IF c = 0 THEN start ELSE MeasuredCategory(g[c - 1], a.counts[c])]
  <2>1. \A c \in 0 .. n : g[c] = IF c = 0 THEN start ELSE MeasuredCategory(g[c - 1], a.counts[c])
    <3> TAKE c \in 0 .. n
    <3>1. CASE c = 0
      BY <1>6, <3>1
    <3>2. CASE c # 0
      <4>1. c \in 1 .. n /\ c - 1 \in 0 .. n
        BY <1>1, <3>2
      <4>2. g[c] = step[<<c, g[c - 1]>>] /\ g[c - 1] \in Stacked
        BY <1>6, <4>1 DEF Steps
      <4>3. QED
        BY <1>4, <3>2, <4>1, <4>2
    <3>3. QED
      BY <3>1, <3>2
  <2>2. QED
    BY <2>1
<1>8. upTo = [c \in 0 .. n |-> IF c = 0 THEN start ELSE MeasuredCategory(upTo[c - 1], a.counts[c])]
  BY <1>7 DEF start
<1>9. Measured(a) = upTo[n]
  BY DEF Measured, n
<1>10. upTo[n] \in Stacked
  <2> DEFINE T == {c \in 0 .. n : upTo[c] \in Stacked}
  <2> HIDE DEF upTo
  <2>1. 0 \in T
    BY <1>1, <1>2, <1>8
  <2>2. ASSUME NEW c \in 1 .. n, c - 1 \in T
        PROVE  c \in T
    <3>1. c \in 0 .. n /\ c # 0 /\ upTo[c - 1] \in Stacked
      BY <1>1, <2>2
    <3>2. upTo[c] = MeasuredCategory(upTo[c - 1], a.counts[c])
      BY <1>8, <3>1
    <3>3. QED
      BY <1>3, <3>1, <3>2
  <2>3. 0 .. n \subseteq T
    <3> HIDE DEF T
    <3>1. QED
      BY <1>1, <2>1, <2>2, InductionTo
  <2>4. QED
    BY <1>1, <2>3
<1>11. QED
  BY <1>9, <1>10

\* The lists of the adapter that is shown.
LEMMA ListsAreStacked ==
    ASSUME adapter \in Adapters
    PROVE  /\ MeasuredOf[adapter] \in Stacked
           /\ ListOf("items") = MeasuredOf[adapter].items
           /\ ListOf("containers") = MeasuredOf[adapter].containers
           /\ ListOf("items") \in Seq(ViewItem) /\ Ordered(ListOf("items"))
           /\ ListOf("containers") \in Seq(ViewItem) /\ Ordered(ListOf("containers"))
           /\ OfType(ListOf("items"), Types \ {"CONTAINER"})
           /\ OfType(ListOf("containers"), {"CONTAINER"})
           /\ Categories \in Seq(ViewItem) /\ Ordered(Categories)
           /\ Chained(Categories, MeasuredOf[adapter].used)
<1>1. MeasuredOf[adapter] \in Stacked
  BY AdaptersAssumption, MeasuredIsStacked DEF MeasuredOf
<1> DEFINE m == MeasuredOf[adapter]
<1> HIDE DEF m
<1>2. m \in Stacked /\ m = MeasuredOf[adapter]
  BY <1>1 DEF m
<1>3. ListOf("items") = m.items /\ ListOf("containers") = m.containers /\ Categories = m.categories
  BY <1>2 DEF ListOf, Categories
<1>4. QED
  BY <1>2, <1>3 DEF Stacked, Measurement

-----------------------------------------------------------------------------
(* What the searches find. *)

LEMMA GoingWays ==
    ASSUME NEW up \in BOOLEAN, NEW down \in BOOLEAN
    PROVE  /\ Going(up, down) \in Ways
           /\ Going(up, down) = "up" <=> up
           /\ Going(up, down) = "down" <=> ~up /\ down
           /\ Going(up, down) = "here" <=> ~up /\ ~down
BY DEF Going, Ways

\* How far a view is from the screen, as a number.
LEMMA Distances ==
    ASSUME NEW v \in ViewItem, NEW o \in Int
    PROVE  /\ Above(v, o) \in Int /\ Above(v, o) = o - (v.top + v.height)
           /\ Below(v, o) \in Int /\ Below(v, o) = v.top - (o + WinHeight)
BY ItemFields, Sizes DEF Above, Below

\* Along an ordered list the distance above the screen shrinks, that below grows.
LEMMA DistancesGrow ==
    ASSUME NEW list \in Seq(ViewItem), Ordered(list), NEW o \in Int,
           NEW i \in 1 .. Len(list), NEW j \in 1 .. Len(list), i <= j
    PROVE  Above(list[i], o) >= Above(list[j], o) /\ Below(list[i], o) <= Below(list[j], o)
<1> DEFINE v == list[i]
           w == list[j]
<1>1. v \in ViewItem /\ w \in ViewItem
  OBVIOUS
<1>2. v.top <= w.top /\ v.top + v.height <= w.top + w.height
  BY DEF Ordered
<1> HIDE DEF v, w
<1>3. /\ v.top \in Nat /\ v.height \in Nat /\ w.top \in Nat /\ w.height \in Nat
      /\ WinHeight \in Nat
  BY <1>1, ItemFields, Sizes
<1>4. Above(v, o) >= Above(w, o) /\ Below(v, o) <= Below(w, o)
  BY <1>2, <1>3 DEF Above, Below
<1>5. QED
  BY <1>4 DEF v, w

\* The search for the first visible index: what comes before lies wholly above the
\* screen, and what it finds is within an item's height above it, or the next or
\* none is on it.
LEMMA FirstVisibleFound ==
    ASSUME NEW list \in Seq(ViewItem), Ordered(list), NEW o \in Int
    PROVE  LET r == FirstVisibleIndex(list, o)
           IN  /\ list = <<>> => r = 1
               /\ list # <<>> => r \in 1 .. Len(list)
               /\ \A i \in 1 .. Len(list) : i < r => Above(list[i], o) >= 0
               /\ r < Len(list) => Above(list[r + 1], o) <= ItemHeight
<1> DEFINE n == Len(list)
           go == [m \in 1 .. n |-> Going(Above(list[m], o) < 0, Above(list[m], o) > ItemHeight)]
           r == FirstVisibleIndex(list, o)
<1>1. r = BinarySearch(go) /\ n \in Nat /\ DOMAIN list = 1 .. n
  BY DEF FirstVisibleIndex
<1>2. CASE list = <<>>
  <2>1. n = 0 /\ go = <<>>
    BY <1>2
  <2>2. r = 1
    BY <1>1, <2>1, BinarySearchOfNone
  <2> HIDE DEF n, r
  <2>3. QED
    BY <1>2, <2>1, <2>2 DEF n, r
<1>3. CASE list # <<>>
  <2>1. n >= 1
    BY <1>1, <1>3
  <2> HIDE DEF r
  <2>2. ASSUME NEW m \in 1 .. n
        PROVE  /\ Above(list[m], o) \in Int /\ go[m] \in Ways
               /\ go[m] = "up" <=> Above(list[m], o) < 0
               /\ go[m] = "down" <=> Above(list[m], o) > ItemHeight
               /\ go[m] = "here" <=> Above(list[m], o) \in 0 .. ItemHeight
    <3> DEFINE a == Above(list[m], o)
    <3>1. a \in Int /\ ItemHeight \in Nat
      <4>1. list[m] \in ViewItem
        OBVIOUS
      <4>2. QED
        BY <4>1, Distances, Sizes
    <3>2. go[m] = Going(a < 0, a > ItemHeight)
      OBVIOUS
    <3> HIDE DEF a
    <3>3. (a < 0) \in BOOLEAN /\ (a > ItemHeight) \in BOOLEAN
      OBVIOUS
    <3>4. /\ go[m] \in Ways
          /\ go[m] = "up" <=> a < 0
          /\ go[m] = "down" <=> ~(a < 0) /\ a > ItemHeight
          /\ go[m] = "here" <=> ~(a < 0) /\ ~(a > ItemHeight)
      BY <3>2, <3>3, GoingWays
    <3>5. QED
      BY <3>1, <3>4 DEF a
  <2>3. go \in Seq(Ways) /\ Len(go) = n /\ go # <<>>
    BY <1>1, <2>1, <2>2
  <2> HIDE DEF go
  <2>4. Sorted(go)
    <3> SUFFICES ASSUME NEW i \in 1 .. n, NEW j \in 1 .. n, i <= j
                 PROVE  (go[i] = "up" => go[j] = "up") /\ (go[j] = "down" => go[i] = "down")
      BY <2>3 DEF Sorted
    <3>1. Above(list[i], o) >= Above(list[j], o)
      BY DistancesGrow
    <3>2. QED
      BY <2>2, <3>1, Sizes
  <2>5. /\ r \in 1 .. n
        /\ \/ go[r] = "here"
           \/ go[r] = "down" /\ (r < n => go[r + 1] = "up")
           \/ go[r] = "up" /\ (r > 1 => go[r - 1] = "down")
    BY <1>1, <2>3, <2>4, BinarySearchFinds
  <2>6. ASSUME NEW i \in 1 .. n, i < r
        PROVE  Above(list[i], o) >= 0
    <3>1. CASE go[r] = "here" \/ go[r] = "down"
      <4>1. Above(list[i], o) >= Above(list[r], o)
        BY <2>5, <2>6, DistancesGrow
      <4>2. Above(list[r], o) >= 0
        BY <2>2, <2>5, <3>1, Sizes
      <4>3. QED
        BY <2>2, <2>5, <4>1, <4>2
    <3>2. CASE go[r] = "up" /\ go[r - 1] = "down"
      <4>1. r - 1 \in 1 .. n /\ i <= r - 1
        BY <1>1, <2>5, <2>6
      <4>2. Above(list[i], o) >= Above(list[r - 1], o)
        BY <4>1, DistancesGrow
      <4>3. Above(list[r - 1], o) > ItemHeight
        BY <2>2, <3>2, <4>1
      <4>4. QED
        BY <2>2, <4>1, <4>2, <4>3, Sizes
    <3>3. QED
      BY <2>5, <2>6, <3>1, <3>2
  <2>7. ASSUME r < n
        PROVE  Above(list[r + 1], o) <= ItemHeight
    <3>1. r + 1 \in 1 .. n /\ r <= r + 1 /\ Above(list[r], o) >= Above(list[r + 1], o)
      BY <1>1, <2>5, <2>7, DistancesGrow
    <3>2. CASE go[r] = "here" \/ go[r] = "up"
      <4>1. Above(list[r], o) <= ItemHeight
        BY <2>2, <2>5, <3>2, Sizes
      <4>2. QED
        BY <2>2, <2>5, <3>1, <4>1, Sizes
    <3>3. CASE go[r + 1] = "up"
      BY <2>2, <3>1, <3>3, Sizes
    <3>4. QED
      BY <2>5, <2>7, <3>2, <3>3
  <2>8. QED
    BY <1>3, <2>5, <2>6, <2>7 DEF r
<1>4. QED
  BY <1>2, <1>3

\* The search for the category on the middle of the view.
LEMMA FocusFound ==
    ASSUME NEW list \in Seq(ViewItem), Ordered(list), NEW used, Chained(list, used),
           list # <<>>, NEW y \in Int
    PROVE  Covers(list, FocusCategoryIndex(list, y), y)
<1> DEFINE n == Len(list)
           go == [m \in 1 .. n |-> Going(y < list[m].top, y >= list[m].end)]
           r == FocusCategoryIndex(list, y)
<1>1. r = BinarySearch(go) /\ n \in Nat /\ n >= 1 /\ DOMAIN list = 1 .. n
  BY DEF FocusCategoryIndex
<1> HIDE DEF r
<1>2. ASSUME NEW m \in 1 .. n
      PROVE  /\ list[m].top \in Nat /\ list[m].end \in Nat /\ list[m].top <= list[m].end
             /\ m < n => list[m].end = list[m + 1].top
             /\ go[m] \in Ways
             /\ go[m] = "up" <=> y < list[m].top
             /\ go[m] = "down" <=> y >= list[m].end
             /\ go[m] = "here" <=> list[m].top <= y /\ y < list[m].end
  <2> DEFINE a == list[m].top
             b == list[m].end
  <2>1. a \in Nat /\ b \in Nat
    <3>1. list[m] \in ViewItem
      OBVIOUS
    <3>2. QED
      BY <3>1, ItemFields
  <2>2. a <= b /\ (m < n => b = list[m + 1].top)
    BY <1>1 DEF Chained
  <2>3. go[m] = Going(y < a, y >= b)
    OBVIOUS
  <2> HIDE DEF a, b
  <2>4. (y < a) \in BOOLEAN /\ (y >= b) \in BOOLEAN
    OBVIOUS
  <2>5. /\ go[m] \in Ways
        /\ go[m] = "up" <=> y < a
        /\ go[m] = "down" <=> ~(y < a) /\ y >= b
        /\ go[m] = "here" <=> ~(y < a) /\ ~(y >= b)
    BY <2>3, <2>4, GoingWays
  <2>6. /\ y < a <=> ~(y >= a)
        /\ ~(y < a) /\ y >= b <=> y >= b
        /\ ~(y < a) /\ ~(y >= b) <=> a <= y /\ y < b
    BY <2>1, <2>2
  <2>7. QED
    BY <2>1, <2>2, <2>5, <2>6 DEF a, b
<1>3. go \in Seq(Ways) /\ Len(go) = n /\ go # <<>>
  BY <1>1, <1>2
<1> HIDE DEF go
<1>4. ASSUME NEW i \in 1 .. n, NEW j \in 1 .. n, i < j
      PROVE  list[i].end <= list[j].top
  <2>1. i < n /\ i + 1 \in 1 .. n /\ i + 1 <= j
    BY <1>1, <1>4
  <2>2. list[i + 1].top <= list[j].top
    BY <1>1, <2>1 DEF Ordered
  <2>3. QED
    BY <1>2, <2>1, <2>2
<1>5. Sorted(go)
  <2> SUFFICES ASSUME NEW i \in 1 .. n, NEW j \in 1 .. n, i <= j
               PROVE  (go[i] = "up" => go[j] = "up") /\ (go[j] = "down" => go[i] = "down")
    BY <1>3 DEF Sorted
  <2>1. CASE i = j
    BY <2>1
  <2>2. CASE i < j
    <3>1. list[i].end <= list[j].top
      BY <1>4, <2>2
    <3>2. /\ list[i].top <= list[i].end /\ list[j].top <= list[j].end
          /\ list[i].top \in Nat /\ list[i].end \in Nat
          /\ list[j].top \in Nat /\ list[j].end \in Nat
      BY <1>2
    <3>3. y < list[i].top => y < list[j].top
      BY <3>1, <3>2
    <3>4. y >= list[j].end => y >= list[i].end
      BY <3>1, <3>2
    <3>5. QED
      BY <1>2, <3>3, <3>4
  <2>3. QED
    BY <1>1, <2>1, <2>2
<1>6. /\ r \in 1 .. n
      /\ \/ go[r] = "here"
         \/ go[r] = "down" /\ (r < n => go[r + 1] = "up")
         \/ go[r] = "up" /\ (r > 1 => go[r - 1] = "down")
  BY <1>1, <1>3, <1>5, BinarySearchFinds
<1>7. CASE go[r] = "here"
  BY <1>1, <1>2, <1>6, <1>7 DEF Covers, r
<1>8. CASE go[r] = "down" /\ (r < n => go[r + 1] = "up")
  <2>1. y >= list[r].end /\ list[r].top <= list[r].end
    BY <1>2, <1>6, <1>8
  <2>2. list[r].top <= y
    BY <1>2, <1>6, <2>1
  <2>3. r = n
    <3> SUFFICES ASSUME r < n PROVE FALSE
      BY <1>1, <1>6
    <3>1. r + 1 \in 1 .. n /\ go[r + 1] = "up"
      BY <1>1, <1>6, <1>8
    <3>2. y < list[r + 1].top /\ list[r + 1].top \in Nat
      BY <1>2, <3>1
    <3>3. list[r].end = list[r + 1].top
      BY <1>2, <1>6
    <3>4. QED
      BY <2>1, <3>2, <3>3
  <2>4. QED
    BY <1>1, <1>6, <2>2, <2>3 DEF Covers, r
<1>9. CASE go[r] = "up" /\ (r > 1 => go[r - 1] = "down")
  <2>1. y < list[r].top /\ list[r].top <= list[r].end
    BY <1>2, <1>6, <1>9
  <2>2. y < list[r].end
    BY <1>2, <1>6, <2>1
  <2>3. r = 1
    <3> SUFFICES ASSUME r > 1 PROVE FALSE
      BY <1>1, <1>6
    <3>1. r - 1 \in 1 .. n /\ go[r - 1] = "down" /\ r - 1 < n
      BY <1>1, <1>6, <1>9
    <3>2. y >= list[r - 1].end
      BY <1>2, <3>1
    <3>3. list[r - 1].end = list[r - 1 + 1].top /\ r - 1 + 1 = r
      BY <1>1, <1>2, <1>6, <3>1
    <3>4. list[r].top \in Nat
      BY <1>2, <1>6
    <3>5. QED
      BY <2>1, <3>2, <3>3, <3>4
  <2>4. QED
    BY <1>1, <1>6, <2>2, <2>3 DEF Covers, r
<1>10. QED
  BY <1>6, <1>7, <1>8, <1>9

-----------------------------------------------------------------------------
(* Runs of neighbours. *)

LEMMA MinOf ==
    ASSUME NEW n \in Nat, NEW S \in SUBSET (0 .. n), S # {}
    PROVE  Min(S) \in S /\ \A x \in S : Min(S) <= x
<1>1. S \in SUBSET Nat
  OBVIOUS
<1>2. \E x \in S : \A y \in S : ~(<<y, x>> \in OpToRel(<, Nat))
  BY <1>1, NatLessThanWellFounded, WFMin
<1>3. PICK x \in S : \A y \in S : ~(<<y, x>> \in OpToRel(<, Nat))
  BY <1>2
<1>4. \A y \in S : x <= y
  <2> TAKE y \in S
  <2>1. x \in Nat /\ y \in Nat
    BY <1>1
  <2>2. ~(y < x)
    BY <1>3, <2>1 DEF OpToRel
  <2>3. QED
    BY <2>1, <2>2
<1>5. QED
  BY <1>4 DEF Min

\* The largest of some indices.
LEMMA MaxOf ==
    ASSUME NEW n \in Nat, NEW S \in SUBSET (0 .. n), S # {}
    PROVE  Max(S) \in S /\ \A x \in S : x <= Max(S)
<1> DEFINE T == {n - x : x \in S}
<1>1. T \in SUBSET (0 .. n) /\ T # {}
  <2>1. \A x \in S : n - x \in 0 .. n
    OBVIOUS
  <2>2. QED
    BY <2>1
<1>2. PICK m \in T : \A y \in T : m <= y
  <2> HIDE DEF T
  <2>1. QED
    BY <1>1, MinOf
<1>3. PICK x \in S : m = n - x
  OBVIOUS
<1>4. \A y \in S : x >= y
  <2> TAKE y \in S
  <2>1. n - x <= n - y
    BY <1>2, <1>3
  <2>2. x \in Nat /\ y \in Nat
    OBVIOUS
  <2>3. QED
    BY <2>1, <2>2
<1>5. Max(S) \in S /\ \A y \in S : Max(S) >= y
  BY <1>4 DEF Max
<1>6. QED
  BY <1>5

\* LastNear goes on as far as the views are not far below, FirstNear as far as they
\* are not far above.
LEMMA LastNearEnds ==
    ASSUME NEW list \in Seq(ViewItem), NEW i \in 1 .. Len(list) + 1, NEW o \in Int
    PROVE  LET r == LastNear(list, i, o)
           IN  /\ r \in i - 1 .. Len(list)
               /\ \A k \in i .. r : Below(list[k], o) < ItemHeight
               /\ r < Len(list) => ~(Below(list[r + 1], o) < ItemHeight)
<1> DEFINE n == Len(list)
           near == {k \in i .. n : \A j \in i .. k : Below(list[j], o) < ItemHeight}
           S == {i - 1} \cup near
           r == LastNear(list, i, o)
<1>1. n \in Nat /\ i \in 1 .. n + 1
  OBVIOUS
<1>2. S \in SUBSET (0 .. n) /\ S # {} /\ r = Max(S)
  BY <1>1 DEF LastNear
<1>3. r \in S /\ \A x \in S : x <= r
  <2> HIDE DEF S, r
  <2>1. QED
    BY <1>1, <1>2, MaxOf
<1> HIDE DEF r
<1>4. r \in i - 1 .. n
  BY <1>1, <1>3
<1>5. \A k \in i .. r : Below(list[k], o) < ItemHeight
  <2>1. CASE r = i - 1
    BY <1>1, <2>1
  <2>2. CASE r \in near
    BY <2>2
  <2>3. QED
    BY <1>3, <2>1, <2>2
<1>6. ASSUME r < n, Below(list[r + 1], o) < ItemHeight
      PROVE  FALSE
  <2>1. r + 1 \in i .. n
    BY <1>1, <1>4, <1>6
  <2>2. \A j \in i .. r + 1 : Below(list[j], o) < ItemHeight
    <3> TAKE j \in i .. r + 1
    <3>1. j = r + 1 \/ j \in i .. r
      BY <1>1, <1>4
    <3>2. QED
      BY <1>5, <1>6, <3>1
  <2>3. r + 1 \in S
    BY <2>1, <2>2
  <2>4. QED
    BY <1>1, <1>3, <1>4, <2>3
<1>7. QED
  BY <1>4, <1>5, <1>6 DEF r

\* The same from an index up.
LEMMA FirstNearEnds ==
    ASSUME NEW list \in Seq(ViewItem), NEW i \in 0 .. Len(list), NEW o \in Int
    PROVE  LET r == FirstNear(list, i, o)
           IN  /\ r \in 1 .. i + 1
               /\ \A k \in r .. i : Above(list[k], o) < ItemHeight
               /\ r > 1 => ~(Above(list[r - 1], o) < ItemHeight)
<1> DEFINE near == {k \in 1 .. i : \A j \in k .. i : Above(list[j], o) < ItemHeight}
           S == {i + 1} \cup near
           r == FirstNear(list, i, o)
<1>1. i \in Nat
  OBVIOUS
<1>2. S \in SUBSET (0 .. i + 1) /\ S # {} /\ r = Min(S) /\ i + 1 \in Nat
  BY <1>1 DEF FirstNear
<1>3. r \in S /\ \A x \in S : r <= x
  <2> HIDE DEF S, r
  <2>1. QED
    BY <1>1, <1>2, MinOf
<1> HIDE DEF r
<1>4. r \in 1 .. i + 1
  BY <1>1, <1>3
<1>5. \A k \in r .. i : Above(list[k], o) < ItemHeight
  <2>1. CASE r = i + 1
    BY <1>1, <2>1
  <2>2. CASE r \in near
    BY <2>2
  <2>3. QED
    BY <1>3, <2>1, <2>2
<1>6. ASSUME r > 1, Above(list[r - 1], o) < ItemHeight
      PROVE  FALSE
  <2>1. r - 1 \in 1 .. i
    BY <1>1, <1>4, <1>6
  <2>2. \A j \in r - 1 .. i : Above(list[j], o) < ItemHeight
    <3> TAKE j \in r - 1 .. i
    <3>1. j = r - 1 \/ j \in r .. i
      BY <1>1, <1>4
    <3>2. QED
      BY <1>5, <1>6, <3>1
  <2>3. r - 1 \in S
    BY <2>1, <2>2
  <2>4. QED
    BY <1>1, <1>3, <1>4, <2>3
<1>7. QED
  BY <1>4, <1>5, <1>6 DEF r

\* The run of neighbours from a to b.
LEMMA IntervalIs ==
    ASSUME NEW a \in Nat, NEW b \in Nat, a <= b + 1
    PROVE  /\ Interval(a, b) \in Seq(Nat) /\ Len(Interval(a, b)) = b - a + 1
           /\ \A k \in 1 .. b - a + 1 : Interval(a, b)[k] = a + k - 1
           /\ ToSet(Interval(a, b)) = a .. b
           /\ Interval(a, b) = <<>> <=> a = b + 1
           /\ a <= b => Head(Interval(a, b)) = a /\ Last(Interval(a, b)) = b
<1> DEFINE s == Interval(a, b)
           n == b - a + 1
<1>1. n \in Nat /\ s = [k \in 1 .. n |-> a + k - 1]
  BY DEF Interval
<1>2. \A k \in 1 .. n : a + k - 1 \in Nat
  BY <1>1
<1> HIDE DEF s
<1>3. s \in Seq(Nat) /\ Len(s) = n /\ DOMAIN s = 1 .. n /\ \A k \in 1 .. n : s[k] = a + k - 1
  BY <1>1, <1>2
<1>4. ToSet(s) = a .. b
  <2>1. ToSet(s) = {s[k] : k \in 1 .. n}
    BY <1>3 DEF ToSet
  <2>2. ASSUME NEW i \in a .. b
        PROVE  i \in ToSet(s)
    <3>1. i - a + 1 \in 1 .. n /\ s[i - a + 1] = i
      BY <1>1, <1>3
    <3>2. QED
      BY <2>1, <3>1
  <2>3. ASSUME NEW k \in 1 .. n
        PROVE  s[k] \in a .. b
    BY <1>1, <1>3
  <2>4. QED
    BY <2>1, <2>2, <2>3
<1>5. s = <<>> <=> a = b + 1
  BY <1>1, <1>3
<1>6. ASSUME a <= b
      PROVE  Head(s) = a /\ Last(s) = b
  <2>1. 1 \in 1 .. n /\ n \in 1 .. n /\ s # <<>>
    BY <1>1, <1>3, <1>6
  <2>2. s[1] = a /\ s[n] = b
    BY <1>1, <1>3, <2>1
  <2>3. QED
    BY <1>3, <2>1, <2>2 DEF Last
<1>7. QED
  BY <1>3, <1>4, <1>5, <1>6 DEF s

\* The same sequences.
LEMMA IntervalCut ==
    ASSUME NEW a \in Nat, NEW b \in Nat, a <= b + 1
    PROVE  /\ \A m \in 0 .. b - a + 1 :
                 SubSeq(Interval(a, b), m + 1, Len(Interval(a, b))) = Interval(a + m, b)
           /\ \A m \in 1 .. b - a + 1 :
                 SubSeq(Interval(a, b), 1, m - 1) = Interval(a, a + m - 2)

<1> DEFINE s == Interval(a, b)
           n == b - a + 1
<1>1. /\ n \in Nat /\ s \in Seq(Nat) /\ Len(s) = n
      /\ \A k \in 1 .. n : s[k] = a + k - 1
  BY IntervalIs
<1> HIDE DEF s, n
<1>2. ASSUME NEW m \in 0 .. n
      PROVE  SubSeq(s, m + 1, n) = Interval(a + m, b)
  <2> DEFINE t == SubSeq(s, m + 1, n)
             u == [k \in 1 .. n - m |-> a + m + k - 1]
  <2>1. t = [k \in 1 .. n - m |-> s[k + m]]
    <3>1. n - (m + 1) + 1 = n - m /\ \A k \in 1 .. n - m : k + (m + 1) - 1 = k + m
      BY <1>1
    <3>2. t = [k \in 1 .. n - (m + 1) + 1 |-> s[k + (m + 1) - 1]]
      BY <1>1
    <3>3. QED
      BY <3>1, <3>2
  <2>2. \A k \in 1 .. n - m : k + m \in 1 .. n /\ s[k + m] = a + m + k - 1
    BY <1>1
  <2>3. t = u
    BY <2>1, <2>2
  <2>4. b - (a + m) + 1 = n - m
    BY <1>1 DEF n
  <2>5. Interval(a + m, b) = u
    BY <2>4 DEF Interval
  <2>6. QED
    BY <2>3, <2>5
<1>3. ASSUME NEW m \in 1 .. n
      PROVE  SubSeq(s, 1, m - 1) = Interval(a, a + m - 2)
  <2> DEFINE u == [k \in 1 .. m - 1 |-> a + k - 1]
  <2>1. SubSeq(s, 1, m - 1) = [k \in 1 .. m - 1 |-> s[k]]
    <3>1. m - 1 - 1 + 1 = m - 1 /\ \A k \in 1 .. m - 1 : k + 1 - 1 = k
      BY <1>1
    <3>2. SubSeq(s, 1, m - 1) = [k \in 1 .. m - 1 - 1 + 1 |-> s[k + 1 - 1]]
      BY <1>1
    <3>3. QED
      BY <3>1, <3>2
  <2>2. \A k \in 1 .. m - 1 : s[k] = a + k - 1
    BY <1>1
  <2>3. SubSeq(s, 1, m - 1) = u
    BY <2>1, <2>2
  <2>4. a + m - 2 - a + 1 = m - 1
    BY <1>1
  <2>5. Interval(a, a + m - 2) = u
    BY <2>4 DEF Interval
  <2>6. QED
    BY <2>3, <2>5
<1>4. QED
  BY <1>1, <1>2, <1>3 DEF s, n

\* Runs of neighbours that meet are one.
LEMMA IntervalsJoin ==
    ASSUME NEW a \in Nat, NEW b \in Nat, NEW c \in Nat, a <= b + 1, b <= c
    PROVE  Interval(a, b) \o Interval(b + 1, c) = Interval(a, c)
<1> DEFINE s == Interval(a, b)
           t == Interval(b + 1, c)
           u == Interval(a, c)
           m == b - a + 1
           n == c - a + 1
<1>1. s \in Seq(Nat) /\ Len(s) = m /\ \A k \in 1 .. m : s[k] = a + k - 1
  BY IntervalIs
<1>2. u \in Seq(Nat) /\ Len(u) = n /\ \A k \in 1 .. n : u[k] = a + k - 1
  <2>1. a <= c + 1
    OBVIOUS
  <2>2. QED
    BY <2>1, IntervalIs
<1>3. t \in Seq(Nat) /\ Len(t) = c - b /\ \A k \in 1 .. c - b : t[k] = b + k
  <2>1. b + 1 \in Nat /\ b + 1 <= c + 1 /\ c - (b + 1) + 1 = c - b
    OBVIOUS
  <2>2. /\ t \in Seq(Nat) /\ Len(t) = c - (b + 1) + 1
        /\ \A k \in 1 .. c - (b + 1) + 1 : t[k] = b + 1 + k - 1
    <3> HIDE DEF t
    <3>1. QED
      BY <2>1, IntervalIs DEF t
  <2>3. \A k \in 1 .. c - b : b + 1 + k - 1 = b + k
    OBVIOUS
  <2> HIDE DEF t
  <2>4. QED
    BY <2>1, <2>2, <2>3
<1>4. /\ m \in Nat /\ n \in Nat /\ n - m = c - b /\ m + (c - b) = n
      /\ \A k \in 1 .. n : k > m => k - m \in 1 .. c - b /\ b + (k - m) = a + k - 1
  OBVIOUS
<1> HIDE DEF s, t, u, m, n
<1>5. s \o t \in Seq(Nat) /\ Len(s \o t) = n
  BY <1>1, <1>3, <1>4
<1>6. \A k \in 1 .. n : (s \o t)[k] = u[k]
  <2> TAKE k \in 1 .. n
  <2>1. CASE k <= m
    <3>1. (s \o t)[k] = s[k] /\ k \in 1 .. m
      BY <1>1, <1>3, <1>4, <2>1
    <3>2. QED
      BY <1>1, <1>2, <3>1
  <2>2. CASE k > m
    <3>1. k - m \in 1 .. c - b /\ (s \o t)[k] = t[k - m]
      BY <1>1, <1>3, <1>4, <2>2
    <3>2. t[k - m] = b + (k - m)
      BY <1>3, <3>1
    <3>3. QED
      BY <1>2, <1>4, <2>2, <3>1, <3>2
  <2>3. m \in Nat /\ k \in Int
    BY <1>4
  <2>4. k <= m \/ k > m
    BY <2>3
  <2>5. QED
    BY <2>1, <2>2, <2>4
<1>7. s \o t = u
  <2> DEFINE st == s \o t
  <2>1. st \in Seq(Nat) /\ u \in Seq(Nat) /\ Len(st) = Len(u)
    BY <1>2, <1>5
  <2>2. \A k \in 1 .. Len(st) : st[k] = u[k]
    BY <1>5, <1>6
  <2> HIDE DEF st
  <2>3. QED
    BY <2>1, <2>2, SeqEqual DEF st
<1>8. QED
  BY <1>7 DEF s, t, u

-----------------------------------------------------------------------------
(* Counting, and the dirty items. *)

LEMMA CountIs ==
    ASSUME NEW list, NEW I, IsFiniteSet(I), NEW t
    PROVE  CountOf(list, I, t) \in Nat
<1>1. IsFiniteSet({i \in I : list[i].type = t})
  BY FS_Subset
<1>2. QED
  BY <1>1, FS_CardinalityType DEF CountOf

\* Disjoint sets are counted apart.
LEMMA CountJoins ==
    ASSUME NEW list, NEW I, IsFiniteSet(I), NEW J, IsFiniteSet(J), NEW t, I \cap J = {}
    PROVE  CountOf(list, I \cup J, t) = CountOf(list, I, t) + CountOf(list, J, t)
<1> DEFINE of(K) == {i \in K : list[i].type = t}
           K == of(I)
           L == of(J)
<1>1. IsFiniteSet(K) /\ IsFiniteSet(L)
  BY FS_Subset
<1>2. of(I \cup J) = K \cup L
  OBVIOUS
<1>3. Cardinality(K \cap L) = 0
  <2>1. K \cap L = {}
    OBVIOUS
  <2>2. QED
    BY <2>1, FS_EmptySet
<1>4. /\ CountOf(list, I, t) = Cardinality(K) /\ CountOf(list, J, t) = Cardinality(L)
      /\ CountOf(list, I \cup J, t) = Cardinality(K \cup L)
  BY <1>2 DEF CountOf
<1> HIDE DEF K, L
<1>5. Cardinality(K) \in Nat /\ Cardinality(L) \in Nat
  BY <1>1, FS_CardinalityType
<1>6. Cardinality(K \cup L) = Cardinality(K) + Cardinality(L) - Cardinality(K \cap L)
  BY <1>1, FS_Union
<1>7. QED
  BY <1>3, <1>4, <1>5, <1>6

\* More indices, more of a type.
LEMMA CountGrows ==
    ASSUME NEW list, NEW J, IsFiniteSet(J), NEW I, I \subseteq J, NEW t
    PROVE  CountOf(list, I, t) <= CountOf(list, J, t)
<1> DEFINE K == {i \in I : list[i].type = t}
           L == {i \in J : list[i].type = t}
<1>1. IsFiniteSet(L)
  BY FS_Subset
<1>2. K \in SUBSET L
  OBVIOUS
<1> HIDE DEF K, L
<1>3. Cardinality(K) <= Cardinality(L)
  BY <1>1, <1>2, FS_Subset
<1>4. QED
  BY <1>3 DEF CountOf, K, L

\* Sets of indices are finite.
LEMMA FiniteIn ==
    ASSUME NEW n \in Nat, NEW I, I \subseteq 1 .. n
    PROVE  IsFiniteSet(I)
<1>1. IsFiniteSet(1 .. n)
  BY FS_Interval
<1>2. QED
  BY <1>1, FS_Subset

\* Indices without one of a type.
LEMMA CountOfNone ==
    ASSUME NEW list, NEW I, NEW t, \A i \in I : list[i].type # t
    PROVE  CountOf(list, I, t) = 0
<1>1. {i \in I : list[i].type = t} = {}
  OBVIOUS
<1>2. QED
  BY <1>1, FS_EmptySet DEF CountOf

\* The indices in a set can be counted in ascending order.
LEMMA PlacesCount ==
    ASSUME NEW n \in Nat, NEW I \in SUBSET (1 .. n)
    PROVE  /\ Cardinality(I) \in Nat
           /\ \A k \in 1 .. Cardinality(I) :
                 \E i \in I : Cardinality({j \in I : j <= i}) = k
           /\ \A i \in I : Cardinality({j \in I : j <= i}) \in 1 .. Cardinality(I)
           /\ \A i, m \in I :
                 Cardinality({j \in I : j <= i}) = Cardinality({j \in I : j <= m})
                     => i = m
<1> DEFINE below(i) == {j \in I : j <= i}
           rank == [i \in I |-> Cardinality(below(i))]
           last == Cardinality(I)
<1>1. IsFiniteSet(I) /\ last \in Nat
  <2>1. IsFiniteSet(1 .. n)
    BY FS_Interval
  <2>2. QED
    BY <2>1, FS_Subset, FS_CardinalityType
<1>2. ASSUME NEW i \in I
      PROVE  /\ IsFiniteSet(below(i)) /\ Cardinality(below(i)) \in Nat
             /\ Cardinality(below(i)) <= last /\ Cardinality(below(i)) >= 1
  <2>1. below(i) \in SUBSET I /\ {i} \in SUBSET below(i)
    OBVIOUS
  <2>2. IsFiniteSet(below(i)) /\ Cardinality(below(i)) <= last
    BY <1>1, <2>1, FS_Subset
  <2>3. Cardinality({i}) = 1
    BY FS_Singleton
  <2>4. Cardinality({i}) <= Cardinality(below(i))
    BY <2>1, <2>2, FS_Subset
  <2>5. QED
    BY <2>2, <2>3, <2>4, FS_CardinalityType
<1>3. rank \in Injection(I, 1 .. last)
  <2>1. rank \in [I -> 1 .. last]
    <3> HIDE DEF below, last
    <3>1. \A i \in I : Cardinality(below(i)) \in 1 .. last
      BY <1>1, <1>2
    <3>2. QED
      BY <3>1
  <2>2. ASSUME NEW i \in I, NEW j \in I, i < j
        PROVE  rank[i] # rank[j]
    <3>1. \A m \in I : m \in Nat
      OBVIOUS
    <3>2. below(i) \in SUBSET below(j) /\ j \in below(j) /\ j \notin below(i)
      <4>1. \A m \in I : m <= i => m <= j
        BY <2>2, <3>1
      <4>2. j <= j /\ ~(j <= i)
        BY <2>2, <3>1
      <4>3. QED
        BY <4>1, <4>2
    <3>3. Cardinality(below(i)) # Cardinality(below(j))
      BY <1>2, <3>2, FS_Subset
    <3>4. QED
      BY <3>3
  <2>3. ASSUME NEW i \in I, NEW j \in I, rank[i] = rank[j]
        PROVE  i = j
    <3>1. i \in Nat /\ j \in Nat
      OBVIOUS
    <3>2. ~(i < j) /\ ~(j < i)
      BY <2>2, <2>3
    <3>3. QED
      BY <3>1, <3>2
  <2>4. QED
    BY <2>1, <2>3 DEF Injection, IsInjective
<1>4. rank \in Surjection(I, 1 .. last)
  <2>1. IsFiniteSet(1 .. last) /\ Cardinality(1 .. last) = last
    BY <1>1, FS_Interval
  <2>2. QED
    BY <1>1, <1>3, <2>1, FS_Injection
<1>5. ASSUME NEW k \in 1 .. last
      PROVE  \E i \in I : Cardinality(below(i)) = k
  <2>1. \E i \in I : rank[i] = k
    BY <1>4 DEF Surjection
  <2>2. QED
    BY <2>1
<1>6. ASSUME NEW i \in I
      PROVE  Cardinality(below(i)) \in 1 .. last
  <2> HIDE DEF below, last
  <2>1. QED
    BY <1>1, <1>2
<1>7. ASSUME NEW i \in I, NEW m \in I, Cardinality(below(i)) = Cardinality(below(m))
      PROVE  i = m
  <2>1. rank[i] = rank[m]
    BY <1>7
  <2>2. QED
    BY <1>3, <2>1 DEF Injection, IsInjective
<1>8. QED
  BY <1>1, <1>5, <1>6, <1>7

\* Ascending leaves no index out.
LEMMA AscendingHasAll ==
    ASSUME NEW n \in Nat, NEW I \in SUBSET (1 .. n)
    PROVE  Ascending(I) \in Seq(Nat) /\ ToSet(Ascending(I)) = I
<1> DEFINE rank(i) == Cardinality({j \in I : j <= i})
           last == Cardinality(I)
           s == Ascending(I)
           pick(k) == CHOOSE i \in I : rank(i) = k
<1>1. last \in Nat
  <2>1. IsFiniteSet(I)
    <3>1. IsFiniteSet(1 .. n)
      BY FS_Interval
    <3>2. QED
      BY <3>1, FS_Subset
  <2>2. QED
    BY <2>1, FS_CardinalityType
<1>2. s = [k \in 1 .. last |-> pick(k)]
  BY DEF Ascending
<1>3. /\ \A k \in 1 .. last : \E i \in I : rank(i) = k
      /\ \A i \in I : rank(i) \in 1 .. last
      /\ \A i, m \in I : rank(i) = rank(m) => i = m
  BY PlacesCount
<1>4. \A k \in 1 .. last : pick(k) \in I /\ rank(pick(k)) = k
  <2> HIDE DEF rank, last
  <2> TAKE k \in 1 .. last
  <2>1. \E i \in I : rank(i) = k
    BY <1>3
  <2>2. QED
    BY <2>1
<1>5. \A i \in I : pick(rank(i)) = i
  <2> TAKE i \in I
  <2>1. pick(rank(i)) \in I /\ rank(pick(rank(i))) = rank(i)
    <3>1. rank(i) \in 1 .. last
      BY <1>3
    <3> HIDE DEF pick, rank
    <3>2. QED
      BY <1>4, <3>1
  <2> HIDE DEF pick, rank
  <2>2. QED
    BY <1>3, <2>1
<1>6. I \subseteq Nat
  OBVIOUS
<1> HIDE DEF pick, rank, s
<1>7. s \in Seq(Nat) /\ Len(s) = last /\ DOMAIN s = 1 .. last
  <2>1. \A k \in 1 .. last : pick(k) \in Nat
    BY <1>4, <1>6
  <2> HIDE DEF last
  <2>2. QED
    BY <1>1, <1>2, <2>1
<1>8. ToSet(s) = {pick(k) : k \in 1 .. last}
  BY <1>2, <1>7 DEF ToSet
<1>9. ToSet(s) \subseteq I
  BY <1>4, <1>8
<1>10. I \subseteq ToSet(s)
  <2> SUFFICES ASSUME NEW i \in I
               PROVE  i \in ToSet(s)
    OBVIOUS
  <2>1. rank(i) \in 1 .. last /\ pick(rank(i)) = i
    BY <1>3, <1>5
  <2>2. QED
    BY <1>8, <2>1
<1>11. QED
  BY <1>7, <1>9, <1>10 DEF s

\* A reversed list has the same elements.
LEMMA SetOfReverse ==
    ASSUME NEW s \in Seq(Nat)
    PROVE  Reverse(s) \in Seq(Nat) /\ ToSet(Reverse(s)) = ToSet(s)
<1> DEFINE n == Len(s)
           r == Reverse(s)
<1>1. n \in Nat /\ r = [i \in 1 .. n |-> s[n - i + 1]]
  BY DEF Reverse
<1>2. \A i \in 1 .. n : n - i + 1 \in 1 .. n /\ n - (n - i + 1) + 1 = i
  BY <1>1
<1>3. \A i \in 1 .. n : s[n - i + 1] \in Nat
  BY <1>2
<1>4. r \in Seq(Nat) /\ Len(r) = n /\ DOMAIN r = 1 .. n /\ DOMAIN s = 1 .. n
  BY <1>1, <1>3
<1> HIDE DEF r, n
<1>5. ToSet(r) = {s[n - i + 1] : i \in 1 .. n} /\ ToSet(s) = {s[i] : i \in 1 .. n}
  BY <1>1, <1>4 DEF ToSet
<1>6. ASSUME NEW i \in 1 .. n
      PROVE  s[i] \in ToSet(r) /\ s[n - i + 1] \in ToSet(s)
  <2>1. s[n - (n - i + 1) + 1] = s[i]
    BY <1>2
  <2>2. QED
    BY <1>2, <1>5, <2>1
<1>7. ToSet(r) \subseteq ToSet(s)
  BY <1>5, <1>6
<1>8. ToSet(s) \subseteq ToSet(r)
  BY <1>5, <1>6
<1>9. QED
  BY <1>4, <1>7, <1>8 DEF r

\* Joined lists have the elements of both.
LEMMA SetOfConcat ==
    ASSUME NEW s \in Seq(Nat), NEW t \in Seq(Nat)
    PROVE  s \o t \in Seq(Nat) /\ ToSet(s \o t) = ToSet(s) \cup ToSet(t)
<1> DEFINE m == Len(s)
           n == Len(t)
           u == s \o t
<1>1. /\ m \in Nat /\ n \in Nat /\ u \in Seq(Nat) /\ Len(u) = m + n
      /\ \A i \in 1 .. m + n : u[i] = IF i <= m THEN s[i] ELSE t[i - m]
  OBVIOUS
<1>2. DOMAIN s = 1 .. m /\ DOMAIN t = 1 .. n /\ DOMAIN u = 1 .. m + n
  BY <1>1
<1> HIDE DEF u, m, n
<1>3. /\ ToSet(s) = {s[i] : i \in 1 .. m} /\ ToSet(t) = {t[i] : i \in 1 .. n}
      /\ ToSet(u) = {u[i] : i \in 1 .. m + n}
  BY <1>2 DEF ToSet
<1>4. \A i \in 1 .. m : i \in 1 .. m + n /\ u[i] = s[i]
  BY <1>1
<1>5. \A i \in 1 .. n : i + m \in 1 .. m + n /\ u[i + m] = t[i]
  <2> TAKE i \in 1 .. n
  <2>1. i + m \in 1 .. m + n /\ ~(i + m <= m) /\ i + m - m = i
    BY <1>1
  <2>2. QED
    BY <1>1, <2>1
<1>6. \A i \in 1 .. m + n : \/ i \in 1 .. m /\ u[i] = s[i]
                            \/ i - m \in 1 .. n /\ u[i] = t[i - m]
  <2> TAKE i \in 1 .. m + n
  <2>1. u[i] = IF i <= m THEN s[i] ELSE t[i - m]
    BY <1>1
  <2>2. CASE i <= m
    <3>1. i \in 1 .. m
      BY <1>1, <2>2
    <3>2. QED
      BY <2>1, <2>2, <3>1
  <2>3. CASE ~(i <= m)
    <3>1. i - m \in 1 .. n
      BY <1>1, <2>3
    <3>2. QED
      BY <2>1, <2>3, <3>1
  <2>4. QED
    BY <2>2, <2>3
<1>7. QED
  <2>1. ToSet(u) \subseteq ToSet(s) \cup ToSet(t)
    BY <1>3, <1>6
  <2>2. ToSet(s) \subseteq ToSet(u)
    BY <1>3, <1>4
  <2>3. ToSet(t) \subseteq ToSet(u)
    BY <1>3, <1>5
  <2>4. QED
    BY <1>1, <2>1, <2>2, <2>3 DEF u

-----------------------------------------------------------------------------
(* What the work on a window keeps. *)

NodesOf == UNION {[D -> BOOLEAN] : D \in SUBSET Nat}
Pool == [Types -> Nat]
Work == [visible : Seq(Nat), nodes : NodesOf, dirtyItems : Seq(Nat), free : Pool, made : Pool]

\* What was made waits in the pool or is a node of the window.
Balanced(list, w, S) ==
    \A t \in S : w.made[t] = w.free[t] + CountOf(list, DOMAIN w.nodes, t)
Bounded(list, w, S) ==
    \A t \in S : (\E i \in DOMAIN list : list[i].type = t) =>
                    \E i \in DOMAIN list : w.made[t] <= Near(list, i, t)
\* A node that is not bound is none of a container, and is to be bound if it is seen.
Stale(list, w) ==
    \A i \in DOMAIN w.nodes :
        ~w.nodes[i] => /\ list[i].type # "CONTAINER"
                       /\ ~list[i].invisible => i \in ToSet(w.dirtyItems)

\* A list with views of the types S, in order.
Listed(list, S) == list \in Seq(ViewItem) /\ Ordered(list) /\ S \subseteq Types /\ OfType(list, S)
Good(list, w, S) ==
    /\ w \in Work /\ DOMAIN w.nodes \subseteq 1 .. Len(list)
    /\ Balanced(list, w, S) /\ Bounded(list, w, S) /\ Stale(list, w)
\* The window is a run of neighbours.
Runs(list, w, a, b) ==
    /\ a \in 1 .. Len(list) + 1 /\ b \in 0 .. Len(list) /\ a <= b + 1
    /\ w.visible = Interval(a, b) /\ DOMAIN w.nodes = a .. b
\* The work from w to v leaves the nodes of other lists, and dirty items, alone.
Follows(w, v, S) ==
    /\ \A t \in Types \ S : v.free[t] = w.free[t] /\ v.made[t] = w.made[t]
    /\ ToSet(w.dirtyItems) \subseteq ToSet(v.dirtyItems)

\* One piece of work after another.
LEMMA FollowsOn ==
    ASSUME NEW u, NEW v, NEW w, NEW S, Follows(u, v, S), Follows(v, w, S)
    PROVE  Follows(u, w, S)
BY DEF Follows

\* No work at all.
LEMMA FollowsSelf ==
    ASSUME NEW w, NEW S
    PROVE  Follows(w, w, S)
BY DEF Follows

\* The nodes of a window, as functions.
LEMMA NodesAre ==
    /\ \A f \in NodesOf : DOMAIN f \in SUBSET Nat /\ f \in [DOMAIN f -> BOOLEAN]
    /\ \A D \in SUBSET Nat : \A f \in [D -> BOOLEAN] : f \in NodesOf /\ DOMAIN f = D
BY DEF NodesOf

\* The fields of the record that is worked on.
LEMMA WorkIs ==
    ASSUME NEW w \in Work
    PROVE  /\ w = [visible |-> w.visible, nodes |-> w.nodes, dirtyItems |-> w.dirtyItems,
                   free |-> w.free, made |-> w.made]
           /\ w.visible \in Seq(Nat) /\ w.dirtyItems \in Seq(Nat)
           /\ w.nodes \in NodesOf /\ w.free \in Pool /\ w.made \in Pool
BY DEF Work

\* That record with other nodes and another pool.
LEMMA WorkWith ==
    ASSUME NEW w \in Work, NEW x, NEW y
    PROVE  [w EXCEPT !.nodes = x, !.free = y]
               = [visible |-> w.visible, nodes |-> x, dirtyItems |-> w.dirtyItems,
                  free |-> y, made |-> w.made]
<1>1. w \in [visible : {w.visible}, nodes : {w.nodes}, dirtyItems : {w.dirtyItems},
             free : {w.free}, made : {w.made}]
  BY DEF Work
<1> DEFINE s == [w EXCEPT !.nodes = x]
<1>2. s \in [visible : {w.visible}, nodes : {x}, dirtyItems : {w.dirtyItems},
             free : {w.free}, made : {w.made}]
  BY <1>1
<1>3. [w EXCEPT !.nodes = x, !.free = y] = [s EXCEPT !.free = y]
  OBVIOUS
<1> HIDE DEF s
<1>4. QED
  BY <1>2, <1>3

\* Nodes go back to the pool.
LEMMA RecyclesKeeps ==
    ASSUME NEW list, NEW S, Listed(list, S), NEW w, Good(list, w, S),
           NEW I \in SUBSET DOMAIN w.nodes, NEW u \in Seq(Nat)
    PROVE  LET v == [Recycles(list, w, I) EXCEPT !.visible = u]
           IN  /\ Good(list, v, S) /\ Follows(w, v, S)
               /\ v.visible = u /\ DOMAIN v.nodes = DOMAIN w.nodes \ I
               /\ v.made = w.made /\ v.dirtyItems = w.dirtyItems
<1> DEFINE v == [Recycles(list, w, I) EXCEPT !.visible = u]
           D == DOMAIN w.nodes
           nodes2 == [i \in D \ I |-> w.nodes[i]]
           free2 == [t \in Types |-> w.free[t] + CountOf(list, I, t)]
<1>1. /\ w \in Work /\ D \in SUBSET (1 .. Len(list)) /\ I \in SUBSET D /\ Len(list) \in Nat
      /\ I \in SUBSET (1 .. Len(list)) /\ D \ I \in SUBSET (1 .. Len(list))
  BY DEF Good, Listed
<1>2. v = [visible |-> u, nodes |-> nodes2, dirtyItems |-> w.dirtyItems,
           free |-> free2, made |-> w.made]
  <2>1. Recycles(list, w, I)
            = [visible |-> w.visible, nodes |-> nodes2, dirtyItems |-> w.dirtyItems,
               free |-> free2, made |-> w.made]
    <3>1. Recycles(list, w, I) = [w EXCEPT !.nodes = nodes2, !.free = free2]
      BY DEF Recycles
    <3> HIDE DEF nodes2, free2
    <3>2. QED
      BY <1>1, <3>1, WorkWith
  <2> HIDE DEF nodes2, free2
  <2>2. QED
    BY <2>1
<1>3. D \in SUBSET Nat /\ w.nodes \in [D -> BOOLEAN]
  BY <1>1, WorkIs, NodesAre
<1>4. nodes2 \in [D \ I -> BOOLEAN] /\ \A i \in D \ I : nodes2[i] = w.nodes[i]
  BY <1>3
<1> HIDE DEF v, D
<1>5. \A t \in Types : /\ CountOf(list, I, t) \in Nat /\ CountOf(list, D \ I, t) \in Nat
                       /\ CountOf(list, D, t) = CountOf(list, I, t) + CountOf(list, D \ I, t)
  <2> TAKE t \in Types
  <2> DEFINE J == D \ I
             n == Len(list)
  <2>1. I \cap J = {} /\ I \cup J = D /\ n \in Nat /\ I \subseteq 1 .. n /\ J \subseteq 1 .. n
    BY <1>1
  <2> HIDE DEF J, n
  <2>2. IsFiniteSet(I) /\ IsFiniteSet(J)
    BY <2>1, FiniteIn
  <2>3. CountOf(list, I \cup J, t) = CountOf(list, I, t) + CountOf(list, J, t)
    BY <2>1, <2>2, CountJoins
  <2>4. CountOf(list, I, t) \in Nat /\ CountOf(list, J, t) \in Nat
    BY <2>2, CountIs
  <2>5. QED
    BY <2>1, <2>3, <2>4 DEF J
<1>6. /\ w.free \in [Types -> Nat] /\ w.made \in [Types -> Nat]
      /\ w.dirtyItems \in Seq(Nat)
  BY <1>1, WorkIs DEF Pool
<1>7. free2 \in Pool /\ \A t \in Types : free2[t] = w.free[t] + CountOf(list, I, t)
  BY <1>5, <1>6 DEF Pool
<1> HIDE DEF nodes2, free2
<1>8. /\ v.visible = u /\ v.nodes = nodes2 /\ v.dirtyItems = w.dirtyItems
      /\ v.free = free2 /\ v.made = w.made /\ DOMAIN v.nodes = D \ I
  BY <1>2, <1>4
<1>9. v \in Work
  <2>1. D \ I \in SUBSET Nat
    BY <1>3
  <2>2. nodes2 \in NodesOf
    BY <1>4, <2>1, NodesAre
  <2>3. w.made \in Pool
    BY <1>6 DEF Pool
  <2>4. QED
    BY <1>2, <1>6, <1>7, <2>2, <2>3 DEF Work
<1>10. Balanced(list, v, S)
  <2> SUFFICES ASSUME NEW t \in S
               PROVE  v.made[t] = v.free[t] + CountOf(list, DOMAIN v.nodes, t)
    BY DEF Balanced
  <2>1. t \in Types
    BY DEF Listed
  <2>2. w.made[t] = w.free[t] + CountOf(list, D, t)
    BY DEF Good, Balanced, D
  <2>3. w.free[t] \in Nat
    BY <1>6, <2>1
  <2>4. QED
    <3> DEFINE m == CountOf(list, I, t)
               n == CountOf(list, D \ I, t)
               f == w.free[t]
    <3>1. /\ m \in Nat /\ n \in Nat /\ f \in Nat /\ CountOf(list, D, t) = m + n
          /\ v.free[t] = f + m /\ v.made[t] = f + CountOf(list, D, t)
          /\ CountOf(list, DOMAIN v.nodes, t) = n
      BY <1>5, <1>7, <1>8, <2>1, <2>2, <2>3
    <3> HIDE DEF m, n, f
    <3>2. QED
      BY <3>1
<1>11. Bounded(list, v, S)
  BY <1>8 DEF Good, Bounded
<1>12. Stale(list, v)
  <2> SUFFICES ASSUME NEW i \in D \ I, ~v.nodes[i]
               PROVE  /\ list[i].type # "CONTAINER"
                      /\ ~list[i].invisible => i \in ToSet(v.dirtyItems)
    BY <1>8 DEF Stale
  <2>1. ~w.nodes[i]
    BY <1>4, <1>8
  <2>2. QED
    BY <1>8, <2>1 DEF Good, Stale, D
<1>13. Follows(w, v, S)
  <2>1. ASSUME NEW t \in Types \ S
        PROVE  v.free[t] = w.free[t]
    <3>1. \A i \in I : list[i].type # t
      <4>1. DOMAIN list = 1 .. Len(list)
        BY DEF Listed
      <4>2. QED
        BY <1>1, <4>1 DEF Listed, OfType
    <3>2. CountOf(list, I, t) = 0
      BY <3>1, CountOfNone
    <3>3. QED
      BY <1>6, <1>7, <1>8, <3>2
  <2>2. QED
    BY <1>8, <2>1 DEF Follows
<1>14. Good(list, v, S)
  BY <1>1, <1>8, <1>9, <1>10, <1>11, <1>12 DEF Good
<1>15. QED
  BY <1>8, <1>13, <1>14 DEF v, D

\* The same with more nodes made.
LEMMA WorkWithMade ==
    ASSUME NEW w \in Work, NEW x, NEW y, NEW z
    PROVE  [w EXCEPT !.nodes = x, !.free = y, !.made = z]
               = [visible |-> w.visible, nodes |-> x, dirtyItems |-> w.dirtyItems,
                  free |-> y, made |-> z]
<1> DEFINE s == [w EXCEPT !.nodes = x, !.free = y]
<1>1. s = [visible |-> w.visible, nodes |-> x, dirtyItems |-> w.dirtyItems,
           free |-> y, made |-> w.made]
  BY WorkWith
<1>2. [w EXCEPT !.nodes = x, !.free = y, !.made = z] = [s EXCEPT !.made = z]
  OBVIOUS
<1> HIDE DEF s
<1>3. s \in [visible : {w.visible}, nodes : {x}, dirtyItems : {w.dirtyItems},
             free : {y}, made : {w.made}]
  BY <1>1
<1>4. QED
  BY <1>2, <1>3

\* The same with other visible and dirty items.
LEMMA WorkTo ==
    ASSUME NEW r \in Work, NEW u, NEW k
    PROVE  /\ [r EXCEPT !.visible = u]
                  = [visible |-> u, nodes |-> r.nodes, dirtyItems |-> r.dirtyItems,
                     free |-> r.free, made |-> r.made]
           /\ [r EXCEPT !.visible = u, !.dirtyItems = k]
                  = [visible |-> u, nodes |-> r.nodes, dirtyItems |-> k,
                     free |-> r.free, made |-> r.made]
<1> DEFINE s == [r EXCEPT !.visible = u]
<1>1. r \in [visible : {r.visible}, nodes : {r.nodes}, dirtyItems : {r.dirtyItems},
             free : {r.free}, made : {r.made}]
  BY DEF Work
<1>2. s = [visible |-> u, nodes |-> r.nodes, dirtyItems |-> r.dirtyItems,
           free |-> r.free, made |-> r.made]
  BY <1>1
<1>3. s \in [visible : {u}, nodes : {r.nodes}, dirtyItems : {r.dirtyItems},
             free : {r.free}, made : {r.made}]
  BY <1>2
<1>4. [r EXCEPT !.visible = u, !.dirtyItems = k] = [s EXCEPT !.dirtyItems = k]
  OBVIOUS
<1> HIDE DEF s
<1>5. [s EXCEPT !.dirtyItems = k]
          = [visible |-> u, nodes |-> r.nodes, dirtyItems |-> k,
             free |-> r.free, made |-> r.made]
  BY <1>3
<1>6. QED
  BY <1>2, <1>4, <1>5 DEF s

\* The views K lie, from f on, within reach of a screen there.
Reached(list, K, f) ==
    /\ f \in DOMAIN list
    /\ LET next == list[IF f < Len(list) THEN f + 1 ELSE f]
       IN  \A j \in K : /\ j \in f .. Len(list)
                        /\ list[j].top < next.top + next.height + WinHeight + 2 * ItemHeight

\* Near counts all views within reach.
LEMMA NearHas ==
    ASSUME NEW list \in Seq(ViewItem), NEW K, NEW f, Reached(list, K, f), NEW t
    PROVE  CountOf(list, K, t) <= Near(list, f, t)
<1> DEFINE next == list[IF f < Len(list) THEN f + 1 ELSE f]
           J == {j \in f .. Len(list) :
                    list[j].top < next.top + next.height + WinHeight + 2 * ItemHeight}
<1>1. K \subseteq J /\ Near(list, f, t) = CountOf(list, J, t)
  BY DEF Reached, Near
<1>2. f \in 1 .. Len(list) /\ Len(list) \in Nat
  BY DEF Reached
<1>3. J \subseteq 1 .. Len(list)
  BY <1>2
<1> HIDE DEF J
<1>4. IsFiniteSet(J)
  BY <1>2, <1>3, FiniteIn
<1>5. QED
  BY <1>1, <1>4, CountGrows

\* The views I can be laid out, and d is what is dirty then.
CanLayOut(list, w, I, bound, d) ==
    /\ I \subseteq 1 .. Len(list) /\ I \cap DOMAIN w.nodes = {}
    /\ I # {} => \E f : Reached(list, I \cup DOMAIN w.nodes, f)
    /\ ToSet(w.dirtyItems) \subseteq ToSet(d)
    /\ \A i \in I : bound \/ list[i].type \in {"HEADER", "CONTAINER"} \/ i \in ToSet(d)

Laid(list, w, I, bound, u, d) ==
    [LaysOut(list, w, I, bound) EXCEPT !.visible = u, !.dirtyItems = d]

\* Nodes are taken from the pool, or made when it has none.
LEMMA LaysOutKeeps ==
    ASSUME NEW list, NEW S, Listed(list, S), NEW w, Good(list, w, S),
           NEW u \in Seq(Nat), NEW d \in Seq(Nat),
           NEW I, NEW bound \in BOOLEAN, CanLayOut(list, w, I, bound, d)
    PROVE  LET v == Laid(list, w, I, bound, u, d)
           IN  /\ Good(list, v, S) /\ Follows(w, v, S)
               /\ v.visible = u /\ DOMAIN v.nodes = I \cup DOMAIN w.nodes
               /\ v.dirtyItems = d
               /\ LaysOut(list, w, I, bound) \in Work
               /\ LaysOut(list, w, I, bound).visible = w.visible
               /\ LaysOut(list, w, I, bound).dirtyItems = w.dirtyItems
<1> DEFINE v == Laid(list, w, I, bound, u, d)
           D == DOMAIN w.nodes
           lack(t) == CountOf(list, I, t) - w.free[t]
           nodes2 == [i \in I \cup D |->
                         IF i \in I THEN bound \/ list[i].type \in {"HEADER", "CONTAINER"}
                         ELSE w.nodes[i]]
           free2 == [t \in Types |-> IF lack(t) < 0 THEN -lack(t) ELSE 0]
           made2 == [t \in Types |-> IF lack(t) > 0 THEN w.made[t] + lack(t) ELSE w.made[t]]
<1>1. /\ I \subseteq 1 .. Len(list) /\ I \cap DOMAIN w.nodes = {}
      /\ I # {} => \E f : Reached(list, I \cup DOMAIN w.nodes, f)
      /\ ToSet(w.dirtyItems) \subseteq ToSet(d)
      /\ \A i \in I : bound \/ list[i].type \in {"HEADER", "CONTAINER"} \/ i \in ToSet(d)
  BY DEF CanLayOut
<1>2. /\ w \in Work /\ D \subseteq 1 .. Len(list) /\ Len(list) \in Nat
      /\ I \subseteq Nat /\ D \subseteq Nat /\ I \cap D = {} /\ I \subseteq 1 .. Len(list)
  BY <1>1 DEF Good, Listed
<1>3. LaysOut(list, w, I, bound) = [w EXCEPT !.nodes = nodes2, !.free = free2, !.made = made2]
  BY DEF LaysOut
<1>4. w.nodes \in [D -> BOOLEAN] /\ w.dirtyItems \in Seq(Nat)
  BY <1>2, WorkIs, NodesAre
<1>5. w.free \in [Types -> Nat] /\ w.made \in [Types -> Nat]
  BY <1>2, WorkIs DEF Pool
<1>6. /\ nodes2 \in [I \cup D -> BOOLEAN]
      /\ \A i \in I : nodes2[i] = (bound \/ list[i].type \in {"HEADER", "CONTAINER"})
      /\ \A i \in D : nodes2[i] = w.nodes[i]
  BY <1>2, <1>4
<1> HIDE DEF nodes2, free2, made2, D
<1> HIDE DEF v
<1>7. \A t : /\ CountOf(list, I, t) \in Nat /\ CountOf(list, D, t) \in Nat
             /\ CountOf(list, I \cup D, t) = CountOf(list, I, t) + CountOf(list, D, t)
  <2>1. IsFiniteSet(I) /\ IsFiniteSet(D)
    BY <1>2, FiniteIn
  <2>2. I \cap D = {}
    BY <1>2
  <2> TAKE t
  <2>3. CountOf(list, I, t) \in Nat /\ CountOf(list, D, t) \in Nat
    BY <2>1, CountIs
  <2>4. CountOf(list, I \cup D, t) = CountOf(list, I, t) + CountOf(list, D, t)
    BY <2>1, <2>2, CountJoins
  <2>5. QED
    BY <2>3, <2>4
<1>8. ASSUME NEW t \in Types
      PROVE  /\ free2[t] = IF lack(t) < 0 THEN -lack(t) ELSE 0
             /\ made2[t] = IF lack(t) > 0 THEN w.made[t] + lack(t) ELSE w.made[t]
             /\ lack(t) \in Int /\ free2[t] \in Nat /\ made2[t] \in Nat
  <2>1. w.free[t] \in Nat /\ w.made[t] \in Nat /\ CountOf(list, I, t) \in Nat
    BY <1>5, <1>7
  <2>2. /\ free2[t] = IF lack(t) < 0 THEN -lack(t) ELSE 0
        /\ made2[t] = IF lack(t) > 0 THEN w.made[t] + lack(t) ELSE w.made[t]
    BY DEF free2, made2
  <2>3. lack(t) \in Int
    BY <2>1
  <2> HIDE DEF lack
  <2>4. QED
    BY <2>1, <2>2, <2>3
<1>9. free2 \in Pool /\ made2 \in Pool /\ nodes2 \in NodesOf
  <2>1. \A t \in Types : free2[t] \in Nat /\ made2[t] \in Nat
    BY <1>8
  <2>2. free2 = [t \in Types |-> free2[t]] /\ made2 = [t \in Types |-> made2[t]]
    BY DEF free2, made2
  <2>3. I \cup D \in SUBSET Nat
    BY <1>2
  <2>4. nodes2 \in NodesOf
    BY <1>6, <2>3, NodesAre
  <2>5. QED
    BY <2>1, <2>2, <2>4 DEF Pool
<1>10. /\ LaysOut(list, w, I, bound) \in Work
       /\ LaysOut(list, w, I, bound).visible = w.visible
       /\ LaysOut(list, w, I, bound).dirtyItems = w.dirtyItems
  <2>1. LaysOut(list, w, I, bound)
            = [visible |-> w.visible, nodes |-> nodes2, dirtyItems |-> w.dirtyItems,
               free |-> free2, made |-> made2]
    BY <1>2, <1>3, WorkWithMade
  <2>2. QED
    BY <1>2, <1>9, <2>1, WorkIs DEF Work
<1>11. v = [visible |-> u, nodes |-> nodes2, dirtyItems |-> d, free |-> free2, made |-> made2]
  <2> DEFINE r == [visible |-> w.visible, nodes |-> nodes2, dirtyItems |-> w.dirtyItems,
                   free |-> free2, made |-> made2]
  <2>1. LaysOut(list, w, I, bound) = r
    BY <1>2, <1>3, WorkWithMade
  <2>2. r \in Work
    BY <1>2, <1>9, WorkIs DEF Work
  <2>3. r.nodes = nodes2 /\ r.free = free2 /\ r.made = made2
    OBVIOUS
  <2> HIDE DEF r
  <2>4. [r EXCEPT !.visible = u, !.dirtyItems = d]
            = [visible |-> u, nodes |-> r.nodes, dirtyItems |-> d,
               free |-> r.free, made |-> r.made]
    BY <2>2, WorkTo
  <2>5. v = [r EXCEPT !.visible = u, !.dirtyItems = d]
    BY <2>1 DEF v, Laid
  <2>6. QED
    BY <2>3, <2>4, <2>5
<1>12. /\ v.visible = u /\ v.nodes = nodes2 /\ v.dirtyItems = d
       /\ v.free = free2 /\ v.made = made2 /\ DOMAIN v.nodes = I \cup D
  BY <1>6, <1>11
<1>13. v \in Work
  BY <1>11, <1>9 DEF Work
<1>14. ASSUME NEW t \in S
       PROVE  /\ made2[t] = free2[t] + CountOf(list, I \cup D, t)
              /\ \/ made2[t] = w.made[t]
                 \/ I # {} /\ made2[t] = CountOf(list, I \cup D, t)
  <2> DEFINE c == CountOf(list, I, t)
             e == CountOf(list, D, t)
             f == w.free[t]
             m == w.made[t]
  <2>1. t \in Types
    BY DEF Listed
  <2>2. m = f + e
    BY DEF Good, Balanced, D
  <2>3. c \in Nat /\ e \in Nat /\ CountOf(list, I \cup D, t) = c + e /\ f \in Nat /\ m \in Nat
    BY <1>5, <1>7, <2>1
  <2>4. lack(t) = c - f
    OBVIOUS
  <2>5. /\ free2[t] = IF lack(t) < 0 THEN -lack(t) ELSE 0
        /\ made2[t] = IF lack(t) > 0 THEN m + lack(t) ELSE m
    BY <1>8, <2>1
  <2>6. I = {} => c = 0
    BY CountOfNone
  <2> DEFINE l == lack(t)
  <2>7. l = c - f
    BY <2>4
  <2>8. /\ free2[t] = IF l < 0 THEN -l ELSE 0
        /\ made2[t] = IF l > 0 THEN m + l ELSE m
    BY <2>5
  <2> HIDE DEF lack, l, c, e, f, m
  <2>9. /\ made2[t] = free2[t] + (c + e)
        /\ (made2[t] = m) \/ (c > 0 /\ made2[t] = c + e)
    BY <2>2, <2>3, <2>7, <2>8
  <2>10. c > 0 => I # {}
    BY <2>6
  <2>11. CASE made2[t] = m
    <3>1. made2[t] = free2[t] + CountOf(list, I \cup D, t)
      BY <2>3, <2>9
    <3>2. made2[t] = w.made[t]
      BY <2>11 DEF m
    <3>3. QED
      BY <3>1, <3>2
  <2>12. CASE c > 0 /\ made2[t] = c + e
    BY <2>3, <2>9, <2>10, <2>12
  <2>13. QED
    BY <2>9, <2>11, <2>12
<1>15. Balanced(list, v, S)
  BY <1>12, <1>14 DEF Balanced
<1>16. Bounded(list, v, S)
  <2> SUFFICES ASSUME NEW t \in S, \E i \in DOMAIN list : list[i].type = t
               PROVE  \E i \in DOMAIN list : v.made[t] <= Near(list, i, t)
    BY DEF Bounded
  <2>1. CASE made2[t] = w.made[t]
    <3>1. \E i \in DOMAIN list : w.made[t] <= Near(list, i, t)
      BY DEF Good, Bounded
    <3>2. QED
      BY <1>12, <2>1, <3>1
  <2>2. CASE I # {} /\ made2[t] = CountOf(list, I \cup D, t)
    <3>1. PICK f : Reached(list, I \cup D, f)
      BY <1>1, <2>2 DEF D
    <3>2. CountOf(list, I \cup D, t) <= Near(list, f, t)
      BY <3>1, NearHas DEF Listed
    <3>3. f \in DOMAIN list
      BY <3>1 DEF Reached
    <3>4. QED
      BY <1>12, <2>2, <3>2, <3>3
  <2>3. QED
    BY <1>14, <2>1, <2>2
<1>17. Stale(list, v)
  <2> SUFFICES ASSUME NEW i \in I \cup D, ~v.nodes[i]
               PROVE  /\ list[i].type # "CONTAINER"
                      /\ ~list[i].invisible => i \in ToSet(d)
    BY <1>12 DEF Stale
  <2>1. CASE i \in I
    BY <1>1, <1>6, <1>12, <2>1
  <2>2. CASE i \in D
    <3>1. ~w.nodes[i]
      BY <1>6, <1>12, <2>2
    <3>2. QED
      BY <1>1, <2>2, <3>1 DEF Good, Stale, D
  <2>3. QED
    BY <2>1, <2>2
<1>18. Follows(w, v, S)
  <2>1. ASSUME NEW t \in Types \ S
        PROVE  v.free[t] = w.free[t] /\ v.made[t] = w.made[t]
    <3>1. \A i \in I : list[i].type # t
      <4>1. DOMAIN list = 1 .. Len(list)
        BY DEF Listed
      <4>2. QED
        BY <1>2, <4>1 DEF Listed, OfType
    <3>2. CountOf(list, I, t) = 0
      BY <3>1, CountOfNone
    <3>3. w.free[t] \in Nat /\ lack(t) = 0 - w.free[t]
      BY <1>5, <3>2
    <3>4. /\ free2[t] = IF lack(t) < 0 THEN -lack(t) ELSE 0
          /\ made2[t] = IF lack(t) > 0 THEN w.made[t] + lack(t) ELSE w.made[t]
      BY <1>8
    <3> HIDE DEF lack
    <3>5. QED
      BY <1>12, <3>3, <3>4
  <2>2. QED
    BY <1>1, <1>12, <2>1 DEF Follows
<1>19. Good(list, v, S)
  <2>1. I \cup D \subseteq 1 .. Len(list)
    BY <1>2
  <2>2. QED
    BY <1>12, <1>15, <1>16, <1>17, <1>13, <2>1 DEF Good
<1>20. QED
  BY <1>12, <1>18, <1>19, <1>10 DEF v, D

\* The distances along a list.
LEMMA ListedHas ==
    ASSUME NEW list, NEW S, Listed(list, S), NEW o \in Int
    PROVE  /\ Len(list) \in Nat /\ DOMAIN list = 1 .. Len(list)
           /\ \A i \in 1 .. Len(list) : Above(list[i], o) \in Int /\ Below(list[i], o) \in Int
           /\ \A i, j \in 1 .. Len(list) :
                 i <= j => Above(list[i], o) >= Above(list[j], o) /\ Below(list[i], o) <= Below(list[j], o)
<1>1. list \in Seq(ViewItem) /\ Ordered(list)
  BY DEF Listed
<1>2. \A i \in 1 .. Len(list) : list[i] \in ViewItem
  BY <1>1
<1>3. Len(list) \in Nat /\ DOMAIN list = 1 .. Len(list)
  BY <1>1
<1>4. \A i \in 1 .. Len(list) : Above(list[i], o) \in Int /\ Below(list[i], o) \in Int
  BY <1>2, Distances
<1>5. \A i, j \in 1 .. Len(list) :
         i <= j => Above(list[i], o) >= Above(list[j], o) /\ Below(list[i], o) <= Below(list[j], o)
  BY <1>1, DistancesGrow
<1>6. QED
  BY <1>3, <1>4, <1>5

\* The places of a run in the window.
LEMMA RunIs ==
    ASSUME NEW list, NEW w, NEW a, NEW b, Runs(list, w, a, b), Len(list) \in Nat
    PROVE  /\ a \in Nat /\ b \in Nat /\ a <= b + 1 /\ a >= 1 /\ b <= Len(list)
           /\ w.visible = Interval(a, b) /\ DOMAIN w.nodes = a .. b
           /\ Len(w.visible) = b - a + 1 /\ DOMAIN w.visible = 1 .. b - a + 1
           /\ \A k \in 1 .. b - a + 1 : w.visible[k] = a + k - 1
<1>1. /\ a \in Nat /\ b \in Nat /\ a <= b + 1 /\ a >= 1 /\ b <= Len(list)
      /\ w.visible = Interval(a, b) /\ DOMAIN w.nodes = a .. b
  BY DEF Runs
<1>2. /\ Interval(a, b) \in Seq(Nat) /\ Len(Interval(a, b)) = b - a + 1
      /\ \A k \in 1 .. b - a + 1 : Interval(a, b)[k] = a + k - 1
  BY <1>1, IntervalIs
<1>3. QED
  BY <1>1, <1>2

\* What lies an item's height above the screen is recycled, and nothing else.
LEMMA FrontIsRecycled ==
    ASSUME NEW list, NEW S, Listed(list, S), NEW w, Good(list, w, S),
           NEW a, NEW b, Runs(list, w, a, b), NEW o \in Int
    PROVE  LET v == RecyclesFront(list, w, o)
           IN  /\ Good(list, v, S) /\ Follows(w, v, S)
               /\ \E c \in a .. b + 1 :
                     /\ Runs(list, v, c, b) /\ (v = w <=> c = a)
                     /\ \A i \in c .. b : Above(list[i], o) < ItemHeight
                     /\ c > a => Above(list[c - 1], o) >= ItemHeight
<1> DEFINE v == RecyclesFront(list, w, o)
           n == b - a + 1
           passed == {k \in DOMAIN w.visible :
                        \A j \in 1 .. k : Above(list[w.visible[j]], o) >= 0}
           far == {k \in passed : Above(list[w.visible[k]], o) >= ItemHeight}
           A(i) == Above(list[i], o)
<1>1. /\ Len(list) \in Nat
      /\ \A i \in 1 .. Len(list) : A(i) \in Int
      /\ \A i, j \in 1 .. Len(list) : i <= j => A(i) >= A(j)
  BY ListedHas
<1>2. /\ a \in Nat /\ b \in Nat /\ a <= b + 1 /\ a >= 1 /\ b <= Len(list)
      /\ w.visible = Interval(a, b) /\ DOMAIN w.nodes = a .. b
      /\ Len(w.visible) = n /\ DOMAIN w.visible = 1 .. n
      /\ \A k \in 1 .. n : w.visible[k] = a + k - 1
  BY <1>1, RunIs
<1>3. ItemHeight \in Nat /\ n \in Nat
  BY <1>2, Sizes
<1>4. \A k \in 1 .. n : a + k - 1 \in 1 .. Len(list) /\ a + k - 1 \in a .. b
  BY <1>2
<1>5. \A i \in a .. b : i - a + 1 \in 1 .. n /\ a + (i - a + 1) - 1 = i /\ i \in 1 .. Len(list)
  BY <1>2
<1>6. v = IF far = {} THEN w
          ELSE [Recycles(list, w, {w.visible[k] : k \in far})
                  EXCEPT !.visible = SubSeq(@, Max(far) + 1, Len(@))]
  BY DEF RecyclesFront
<1>7. far = {k \in 1 .. n : A(a + k - 1) >= ItemHeight}
  <2>1. \A k \in far : k \in 1 .. n /\ A(a + k - 1) >= ItemHeight
    BY <1>2
  <2>2. ASSUME NEW k \in 1 .. n, A(a + k - 1) >= ItemHeight
        PROVE  k \in far
    <3>1. ASSUME NEW j \in 1 .. k
          PROVE  A(w.visible[j]) >= 0
      <4>1. j \in 1 .. n /\ a + j - 1 <= a + k - 1
        BY <1>2
      <4>2. A(a + j - 1) >= A(a + k - 1)
        BY <1>1, <1>4, <4>1
      <4>3. A(a + j - 1) \in Int /\ A(a + k - 1) \in Int
        BY <1>1, <1>4, <4>1
      <4>4. w.visible[j] = a + j - 1
        BY <1>2, <4>1
      <4> HIDE DEF A
      <4>5. QED
        BY <1>3, <2>2, <4>2, <4>3, <4>4
    <3>2. w.visible[k] = a + k - 1
      BY <1>2
    <3>3. QED
      BY <1>2, <2>2, <3>1, <3>2
  <2>3. QED
    BY <2>1, <2>2
<1> HIDE DEF v, far, passed, n
<1>8. CASE far = {}
  <2>1. v = w
    BY <1>6, <1>8
  <2>2. \A i \in a .. b : A(i) < ItemHeight
    <3> TAKE i \in a .. b
    <3>1. i - a + 1 \notin far /\ i - a + 1 \in 1 .. n
      BY <1>5, <1>8
    <3>2. ~(A(a + (i - a + 1) - 1) >= ItemHeight)
      BY <1>7, <3>1
    <3>3. ~(A(i) >= ItemHeight) /\ A(i) \in Int
      BY <1>1, <1>5, <3>2
    <3> HIDE DEF A
    <3>4. QED
      BY <1>3, <3>3
  <2>3. a \in a .. b + 1 /\ ~(a > a)
    BY <1>2
  <2>4. QED
    BY <2>1, <2>2, <2>3, FollowsSelf DEF v
<1>9. CASE far # {}
  <2> DEFINE m == Max(far)
             c == a + m
             I == {w.visible[k] : k \in far}
             u == SubSeq(w.visible, m + 1, Len(w.visible))
  <2>1. m \in far /\ \A k \in far : k <= m
    <3>1. far \in SUBSET (0 .. n)
      BY <1>7
    <3>2. QED
      BY <1>3, <1>9, <3>1, MaxOf
  <2> HIDE DEF m
  <2>2. m \in 1 .. n /\ A(a + m - 1) >= ItemHeight /\ c \in Nat
    BY <1>2, <1>7, <2>1
  <2>3. I = a .. a + m - 1
    <3>1. ASSUME NEW k \in far
          PROVE  w.visible[k] \in a .. a + m - 1
      <4>1. k \in 1 .. n /\ k <= m
        BY <1>7, <2>1
      <4>2. w.visible[k] = a + k - 1
        BY <1>2, <4>1
      <4>3. a + k - 1 \in a .. a + m - 1
        BY <1>2, <2>2, <4>1
      <4>4. QED
        BY <4>2, <4>3
    <3>2. ASSUME NEW i \in a .. a + m - 1
          PROVE  i \in I
      <4> DEFINE k == i - a + 1
      <4>1. k \in 1 .. n /\ k <= m /\ a + k - 1 = i /\ i <= a + m - 1
        BY <1>2, <2>2
      <4> HIDE DEF k
      <4>2. A(i) >= A(a + m - 1)
        BY <1>1, <1>4, <2>2, <4>1
      <4>3. A(i) \in Int /\ A(a + m - 1) \in Int
        BY <1>1, <1>4, <2>2, <4>1
      <4>4. A(i) >= ItemHeight
        <5> HIDE DEF A
        <5>1. QED
          BY <1>3, <2>2, <4>2, <4>3
      <4>5. k \in far
        BY <1>7, <4>1, <4>4
      <4>6. w.visible[k] = i
        BY <1>2, <4>1
      <4>7. QED
        BY <4>5, <4>6
    <3>3. QED
      BY <3>1, <3>2
  <2>4. u = Interval(c, b) /\ u \in Seq(Nat)
    <3>1. c <= b + 1 /\ m \in 0 .. b - a + 1
      BY <1>2, <2>2 DEF n
    <3>2. u = Interval(c, b)
      BY ZenonT(30), <1>2, <3>1, IntervalCut
    <3>3. QED
      BY <1>2, <2>2, <3>1, <3>2, IntervalIs
  <2>5. v = [Recycles(list, w, I) EXCEPT !.visible = u]
    <3>1. Recycles(list, w, I).visible = w.visible
      BY WorkIs DEF Recycles, Good, Work
    <3>2. QED
      BY <1>6, <1>9, <3>1 DEF m
  <2> HIDE DEF I, u
  <2>6. I \in SUBSET DOMAIN w.nodes
    BY <1>2, <2>2, <2>3 DEF n
  <2>7. /\ Good(list, v, S) /\ Follows(w, v, S) /\ v.visible = u
        /\ DOMAIN v.nodes = DOMAIN w.nodes \ I
    BY <2>4, <2>5, <2>6, RecyclesKeeps
  <2>8. DOMAIN v.nodes = c .. b
    <3>1. (a .. b) \ (a .. a + m - 1) = c .. b
      BY <1>2, <2>2 DEF n
    <3>2. QED
      BY <1>2, <2>3, <2>7, <3>1
  <2>9. c \in a .. b + 1 /\ c > a /\ c \in 1 .. Len(list) + 1 /\ b \in 0 .. Len(list)
        /\ c <= b + 1 /\ c # a /\ c - 1 = a + m - 1
    BY <1>1, <1>2, <2>2 DEF n
  <2>10. Runs(list, v, c, b)
    BY <2>4, <2>7, <2>8, <2>9 DEF Runs
  <2>11. v # w
    <3>1. Len(u) = b - c + 1
      BY <1>2, <2>2, <2>4, <2>9, IntervalIs
    <3>2. Len(u) # Len(w.visible)
      BY <1>2, <2>2, <3>1 DEF n
    <3>3. QED
      BY <2>7, <3>2
  <2>12. \A i \in c .. b : A(i) < ItemHeight
    <3> TAKE i \in c .. b
    <3>1. i \in a .. b /\ ~(i - a + 1 <= m)
      BY <1>2, <2>2
    <3>2. i - a + 1 \notin far /\ i - a + 1 \in 1 .. n
      BY <1>5, <2>1, <3>1
    <3>3. ~(A(a + (i - a + 1) - 1) >= ItemHeight)
      BY <1>7, <3>2
    <3>4. ~(A(i) >= ItemHeight) /\ A(i) \in Int
      BY <1>1, <1>5, <3>1, <3>3
    <3> HIDE DEF A
    <3>5. QED
      BY <1>3, <3>4
  <2>13. A(c - 1) >= ItemHeight
    BY <2>2, <2>9
  <2> HIDE DEF c
  <2>14. QED
    BY <2>7, <2>9, <2>10, <2>11, <2>12, <2>13 DEF v
<1>10. QED
  BY <1>8, <1>9
\* v is what is left of the run w.
BackKept(list, w, v, a, b, o) ==
    \E d \in a - 1 .. b :
       /\ Runs(list, v, a, d) /\ (v = w <=> d = b)
       /\ \A i \in a .. d : Below(list[i], o) < ItemHeight
       /\ d < b => Below(list[d + 1], o) >= ItemHeight

\* What lies an item's height below the screen is recycled, and nothing else.
LEMMA BackIsRecycled ==
    ASSUME NEW list, NEW S, Listed(list, S), NEW w, Good(list, w, S),
           NEW a, NEW b, Runs(list, w, a, b), NEW o \in Int
    PROVE  LET v == RecyclesBack(list, w, o)
           IN  Good(list, v, S) /\ Follows(w, v, S) /\ BackKept(list, w, v, a, b, o)
<1> DEFINE v == RecyclesBack(list, w, o)
           n == b - a + 1
           passed == {k \in DOMAIN w.visible :
                        \A j \in k .. Len(w.visible) : Below(list[w.visible[j]], o) >= 0}
           far == {k \in passed : Below(list[w.visible[k]], o) >= ItemHeight}
           B(i) == Below(list[i], o)
<1>1. /\ Len(list) \in Nat
      /\ \A i \in 1 .. Len(list) : B(i) \in Int
      /\ \A i, j \in 1 .. Len(list) : i <= j => B(i) <= B(j)
  BY ListedHas
<1>2. /\ a \in Nat /\ b \in Nat /\ a <= b + 1 /\ a >= 1 /\ b <= Len(list)
      /\ w.visible = Interval(a, b) /\ DOMAIN w.nodes = a .. b
      /\ Len(w.visible) = n /\ DOMAIN w.visible = 1 .. n
      /\ \A k \in 1 .. n : w.visible[k] = a + k - 1
  BY <1>1, RunIs
<1>3. ItemHeight \in Nat /\ n \in Nat
  BY <1>2, Sizes
<1>4. \A k \in 1 .. n : a + k - 1 \in 1 .. Len(list) /\ a + k - 1 \in a .. b
  BY <1>2
<1>5. \A i \in a .. b : i - a + 1 \in 1 .. n /\ a + (i - a + 1) - 1 = i /\ i \in 1 .. Len(list)
  BY <1>2
<1>6. v = IF far = {} THEN w
          ELSE [Recycles(list, w, {w.visible[k] : k \in far})
                  EXCEPT !.visible = SubSeq(@, 1, Min(far) - 1)]
  BY DEF RecyclesBack
<1>7. far = {k \in 1 .. n : B(a + k - 1) >= ItemHeight}
  <2>1. \A k \in far : k \in 1 .. n /\ B(a + k - 1) >= ItemHeight
    BY <1>2
  <2>2. ASSUME NEW k \in 1 .. n, B(a + k - 1) >= ItemHeight
        PROVE  k \in far
    <3>1. ASSUME NEW j \in k .. n
          PROVE  B(w.visible[j]) >= 0
      <4>1. j \in 1 .. n /\ a + k - 1 <= a + j - 1
        BY <1>2
      <4>2. B(a + k - 1) <= B(a + j - 1)
        BY <1>1, <1>4, <4>1
      <4>3. B(a + j - 1) \in Int /\ B(a + k - 1) \in Int
        BY <1>1, <1>4, <4>1
      <4>4. w.visible[j] = a + j - 1
        BY <1>2, <4>1
      <4> HIDE DEF B
      <4>5. QED
        BY <1>3, <2>2, <4>2, <4>3, <4>4
    <3>2. w.visible[k] = a + k - 1
      BY <1>2
    <3>3. QED
      BY <1>2, <2>2, <3>1, <3>2
  <2>3. QED
    BY <2>1, <2>2
<1> HIDE DEF v, far, passed, n
<1>8. CASE far = {}
  <2>1. v = w
    BY <1>6, <1>8
  <2>2. \A i \in a .. b : B(i) < ItemHeight
    <3> TAKE i \in a .. b
    <3>1. i - a + 1 \notin far /\ i - a + 1 \in 1 .. n
      BY <1>5, <1>8
    <3>2. ~(B(a + (i - a + 1) - 1) >= ItemHeight)
      BY <1>7, <3>1
    <3>3. ~(B(i) >= ItemHeight) /\ B(i) \in Int
      BY <1>1, <1>5, <3>2
    <3> HIDE DEF B
    <3>4. QED
      BY <1>3, <3>3
  <2>3. b \in a - 1 .. b /\ ~(b < b)
    BY <1>2
  <2>4. QED
    BY <2>1, <2>2, <2>3, FollowsSelf DEF v, BackKept
<1>9. CASE far # {}
  <2> DEFINE m == Min(far)
             d == a + m - 2
             I == {w.visible[k] : k \in far}
             u == SubSeq(w.visible, 1, m - 1)
  <2>1. m \in far /\ \A k \in far : m <= k
    <3>1. far \in SUBSET (0 .. n)
      BY <1>7
    <3>2. QED
      BY <1>3, <1>9, <3>1, MinOf
  <2> HIDE DEF m
  <2>2. m \in 1 .. n /\ B(a + m - 1) >= ItemHeight /\ d \in Nat
    BY <1>2, <1>7, <2>1
  <2>3. I = a + m - 1 .. b
    <3>1. ASSUME NEW k \in far
          PROVE  w.visible[k] \in a + m - 1 .. b
      <4>1. k \in 1 .. n /\ m <= k
        BY <1>7, <2>1
      <4>2. w.visible[k] = a + k - 1
        BY <1>2, <4>1
      <4>3. a + k - 1 \in a + m - 1 .. b
        BY <1>2, <1>4, <2>2, <4>1
      <4>4. QED
        BY <4>2, <4>3
    <3>2. ASSUME NEW i \in a + m - 1 .. b
          PROVE  i \in I
      <4> DEFINE k == i - a + 1
      <4>1. k \in 1 .. n /\ m <= k /\ a + k - 1 = i /\ a + m - 1 <= i
        BY <1>2, <1>5, <2>2
      <4> HIDE DEF k
      <4>2. B(a + m - 1) <= B(i)
        BY <1>1, <1>4, <2>2, <4>1
      <4>3. B(i) \in Int /\ B(a + m - 1) \in Int
        BY <1>1, <1>4, <2>2, <4>1
      <4>4. B(i) >= ItemHeight
        <5> HIDE DEF B
        <5>1. QED
          BY <1>3, <2>2, <4>2, <4>3
      <4>5. k \in far
        BY <1>7, <4>1, <4>4
      <4>6. w.visible[k] = i
        BY <1>2, <4>1
      <4>7. QED
        BY <4>5, <4>6
    <3>3. QED
      BY <3>1, <3>2
  <2>4. u = Interval(a, d) /\ u \in Seq(Nat) /\ Len(u) = m - 1
    <3>1. m \in 1 .. b - a + 1 /\ a \in Nat /\ b \in Nat
      BY <1>2, <2>2 DEF n
    <3>2. a <= d + 1 /\ d - a + 1 = m - 1
      BY <3>1
    <3>3. u = Interval(a, d)
      BY ZenonT(30), <1>2, <3>1, IntervalCut
    <3>4. Interval(a, d) \in Seq(Nat) /\ Len(Interval(a, d)) = d - a + 1
      <4> HIDE DEF d
      <4>1. QED
        BY <2>2, <3>1, <3>2, IntervalIs
    <3>5. QED
      BY <3>2, <3>3, <3>4
  <2>5. v = [Recycles(list, w, I) EXCEPT !.visible = u]
    <3>1. Recycles(list, w, I).visible = w.visible
      BY WorkIs DEF Recycles, Good, Work
    <3>2. QED
      BY <1>6, <1>9, <3>1 DEF m
  <2> HIDE DEF I, u
  <2>6. I \in SUBSET DOMAIN w.nodes
    BY <1>2, <2>2, <2>3 DEF n
  <2>7. /\ Good(list, v, S) /\ Follows(w, v, S) /\ v.visible = u
        /\ DOMAIN v.nodes = DOMAIN w.nodes \ I
    BY <2>4, <2>5, <2>6, RecyclesKeeps
  <2>8. DOMAIN v.nodes = a .. d
    <3>1. (a .. b) \ (a + m - 1 .. b) = a .. d
      BY <1>2, <2>2 DEF n
    <3>2. QED
      BY <1>2, <2>3, <2>7, <3>1
  <2>9. d \in a - 1 .. b /\ d < b /\ d \in 0 .. Len(list) /\ a \in 1 .. Len(list) + 1
        /\ a <= d + 1 /\ d # b /\ d + 1 = a + m - 1
    BY <1>1, <1>2, <2>2 DEF n
  <2>10. Runs(list, v, a, d)
    BY <2>4, <2>7, <2>8, <2>9 DEF Runs
  <2>11. v # w
    <3>1. Len(u) # Len(w.visible)
      BY <1>2, <2>2, <2>4 DEF n
    <3>2. QED
      BY <2>7, <3>1
  <2>12. \A i \in a .. d : B(i) < ItemHeight
    <3> TAKE i \in a .. d
    <3>1. i \in a .. b /\ ~(m <= i - a + 1)
      BY <1>2, <2>2, <2>9
    <3>2. i - a + 1 \notin far /\ i - a + 1 \in 1 .. n
      BY <1>5, <2>1, <3>1
    <3>3. ~(B(a + (i - a + 1) - 1) >= ItemHeight)
      BY <1>7, <3>2
    <3>4. ~(B(i) >= ItemHeight) /\ B(i) \in Int
      BY <1>1, <1>5, <3>1, <3>3
    <3> HIDE DEF B
    <3>5. QED
      BY <1>3, <3>4
  <2>13. B(d + 1) >= ItemHeight
    BY <2>2, <2>9
  <2> HIDE DEF d
  <2>14. QED
    BY <2>7, <2>9, <2>10, <2>11, <2>12, <2>13 DEF v, BackKept
<1>10. QED
  BY <1>8, <1>9

-----------------------------------------------------------------------------
(* What is laid out. *)

\* What comes before f is above the screen, and what comes after e below it.
FrontDone(list, f, o) == \A i \in 1 .. Len(list) : i < f => Above(list[i], o) >= 0
BackDone(list, e, o) == \A i \in 1 .. Len(list) : i > e => Below(list[i], o) >= 0
Above1(list, f, o) == f > 1 => Above(list[f - 1], o) >= ItemHeight
Below1(list, e, o) == e < Len(list) => Below(list[e + 1], o) >= ItemHeight
AboveNear(list, a, b, o) == \A i \in a .. b : Above(list[i], o) < ItemHeight
BelowNear(list, a, b, o) == \A i \in a .. b : Below(list[i], o) < ItemHeight

\* If the view before the run is above the screen, all before it are.
LEMMA FrontIsDone ==
    ASSUME NEW list, NEW S, Listed(list, S), NEW o \in Int,
           NEW f \in 1 .. Len(list) + 1, Above1(list, f, o)
    PROVE  FrontDone(list, f, o)
<1> SUFFICES ASSUME NEW i \in 1 .. Len(list), i < f
             PROVE  Above(list[i], o) >= 0
  BY DEF FrontDone
<1>1. Len(list) \in Nat /\ ItemHeight \in Nat
  BY ListedHas, Sizes
<1>2. f > 1 /\ f - 1 \in 1 .. Len(list) /\ i <= f - 1
  BY <1>1
<1>3. Above(list[i], o) >= Above(list[f - 1], o)
  BY <1>2, ListedHas
<1>4. Above(list[f - 1], o) >= ItemHeight
  BY <1>2 DEF Above1
<1>5. Above(list[i], o) \in Int /\ Above(list[f - 1], o) \in Int
  BY <1>2, ListedHas
<1>6. QED
  BY <1>1, <1>3, <1>4, <1>5

\* If the view after the run is below the screen, all after it are.
LEMMA BackIsDone ==
    ASSUME NEW list, NEW S, Listed(list, S), NEW o \in Int,
           NEW e \in 0 .. Len(list), Below1(list, e, o)
    PROVE  BackDone(list, e, o)
<1> SUFFICES ASSUME NEW i \in 1 .. Len(list), i > e
             PROVE  Below(list[i], o) >= 0
  BY DEF BackDone
<1>1. Len(list) \in Nat /\ ItemHeight \in Nat
  BY ListedHas, Sizes
<1>2. e < Len(list) /\ e + 1 \in 1 .. Len(list) /\ e + 1 <= i
  BY <1>1
<1>3. Below(list[e + 1], o) <= Below(list[i], o)
  BY <1>2, ListedHas
<1>4. Below(list[e + 1], o) >= ItemHeight
  BY <1>2 DEF Below1
<1>5. Below(list[i], o) \in Int /\ Below(list[e + 1], o) \in Int
  BY <1>2, ListedHas
<1>6. QED
  BY <1>1, <1>3, <1>4, <1>5

\* Near views, from one whose next begins near the screen, are within reach of it.
LEMMA ReachesAll ==
    ASSUME NEW list, NEW S, Listed(list, S), NEW o \in Int,
           NEW f \in 1 .. Len(list), NEW e \in f .. Len(list),
           f < Len(list) => Above(list[f + 1], o) <= ItemHeight,
           Below(list[e], o) < ItemHeight
    PROVE  Reached(list, f .. e, f)
<1>1. list \in Seq(ViewItem) /\ Ordered(list) /\ Len(list) \in Nat /\ DOMAIN list = 1 .. Len(list)
  BY DEF Listed
<1> DEFINE next == list[IF f < Len(list) THEN f + 1 ELSE f]
           x == list[e]
<1>2. /\ ItemHeight \in Nat /\ WinHeight \in Nat
  BY Sizes
<1>3. x \in ViewItem /\ next \in ViewItem
  <2>1. e \in 1 .. Len(list) /\ (IF f < Len(list) THEN f + 1 ELSE f) \in 1 .. Len(list)
    BY <1>1
  <2>2. QED
    BY <1>1, <2>1
<1>4. x.top \in Nat /\ next.top \in Nat /\ next.height \in Nat /\ next.height > 0
  BY <1>3, ItemFields
<1>5. x.top < o + WinHeight + ItemHeight
  <2>1. Below(x, o) = x.top - (o + WinHeight) /\ Below(x, o) < ItemHeight
    BY <1>3, Distances
  <2> HIDE DEF x
  <2>2. QED
    BY <1>2, <1>4, <2>1
<1>6. x.top < next.top + next.height + WinHeight + 2 * ItemHeight
  <2>1. CASE f < Len(list)
    <3>1. Above(next, o) = o - (next.top + next.height) /\ Above(next, o) <= ItemHeight
      BY <1>3, <2>1, Distances
    <3> HIDE DEF x, next
    <3>2. QED
      BY SMTT(30), <1>2, <1>4, <1>5, <3>1
  <2>2. CASE ~(f < Len(list))
    <3>1. e = f /\ next = x
      BY <1>1, <2>2
    <3> HIDE DEF x, next
    <3>2. QED
      BY <1>2, <1>4, <3>1
  <2>3. QED
    BY <2>1, <2>2
<1>7. ASSUME NEW j \in f .. e
      PROVE  /\ j \in f .. Len(list)
             /\ list[j].top < next.top + next.height + WinHeight + 2 * ItemHeight
  <2>1. j \in 1 .. Len(list) /\ e \in 1 .. Len(list) /\ j <= e /\ j \in f .. Len(list)
    BY <1>1
  <2>2. list[j].top <= x.top
    BY <1>1, <2>1 DEF Ordered
  <2>3. list[j].top \in Nat
    BY <1>1, <2>1, ItemFields
  <2> DEFINE z == next.top + next.height + WinHeight + 2 * ItemHeight
             t == x.top
  <2>4. t < z /\ list[j].top <= t
    BY <1>6, <2>2
  <2>5. z \in Int
    BY SMTT(30), <1>2, <1>4
  <2>6. t \in Int
    BY <1>4
  <2> HIDE DEF z, t
  <2>7. list[j].top < z
    BY <2>3, <2>4, <2>5, <2>6
  <2>8. QED
    BY <2>1, <2>7 DEF z
<1>8. QED
  BY <1>1, <1>7 DEF Reached

\* The empty window.
LEMMA AfreshIsLaid ==
    ASSUME NEW list, NEW S, Listed(list, S), NEW w, Good(list, w, S),
           NEW a, NEW b, Runs(list, w, a, b), w.visible = <<>>, NEW o \in Int
    PROVE  LET v == LaysAfresh(list, w, o)
           IN  /\ Good(list, v, S) /\ Follows(w, v, S)
               /\ \E f, e : Runs(list, v, f, e) /\ FrontDone(list, f, o) /\ BackDone(list, e, o)
<1> DEFINE v == LaysAfresh(list, w, o)
           f == FirstVisibleIndex(list, o)
           e == LastNear(list, f, o)
           I == f .. e
           u == Interval(f, e)
<1>1. /\ list \in Seq(ViewItem) /\ Ordered(list)
      /\ Len(list) \in Nat /\ DOMAIN list = 1 .. Len(list) /\ ItemHeight \in Nat
      /\ \A i \in 1 .. Len(list) : Above(list[i], o) \in Int /\ Below(list[i], o) \in Int
  BY ListedHas, Sizes DEF Listed
<1>2. DOMAIN w.nodes = {} /\ w \in Work /\ w.dirtyItems \in Seq(Nat)
  <2>1. w \in Work
    BY DEF Good
  <2>2. a = b + 1
    <3>1. /\ a \in Nat /\ b \in Nat /\ a <= b + 1 /\ w.visible = Interval(a, b)
      BY <1>1, RunIs
    <3>2. Interval(a, b) = <<>> <=> a = b + 1
      BY <3>1, IntervalIs
    <3>3. QED
      BY <3>1, <3>2
  <2>3. DOMAIN w.nodes = a .. b /\ a \in Nat /\ b \in Nat
    BY <1>1, RunIs
  <2>4. QED
    BY <2>1, <2>2, <2>3, WorkIs
<1> DEFINE bound == TRUE
<1>3. v = [LaysOut(list, w, I, bound) EXCEPT !.visible = u]
  BY DEF LaysAfresh
<1> HIDE DEF v, f, e, u, bound
<1>4. /\ f \in 1 .. Len(list) + 1
      /\ FrontDone(list, f, o)
      /\ f < Len(list) => Above(list[f + 1], o) <= ItemHeight
  <2>1. /\ list = <<>> => f = 1
        /\ list # <<>> => f \in 1 .. Len(list)
        /\ FrontDone(list, f, o)
        /\ f < Len(list) => Above(list[f + 1], o) <= ItemHeight
    BY <1>1, FirstVisibleFound DEF f, FrontDone
  <2>2. QED
    BY <1>1, <2>1
<1>5. /\ e \in f - 1 .. Len(list)
      /\ BelowNear(list, f, e, o)
      /\ e < Len(list) => ~(Below(list[e + 1], o) < ItemHeight)
  BY <1>1, <1>4, LastNearEnds DEF e, BelowNear
<1>6. /\ f \in Nat /\ e \in Nat /\ f <= e + 1 /\ e \in 0 .. Len(list) /\ I \subseteq 1 .. Len(list)
      /\ I = {} \/ (f \in 1 .. Len(list) /\ e \in f .. Len(list) /\ e \in f .. e)
  BY <1>1, <1>4, <1>5
<1>7. u \in Seq(Nat)
  BY <1>6, IntervalIs DEF u
<1>8. I # {} => \E g : Reached(list, I \cup DOMAIN w.nodes, g)
  <2> SUFFICES ASSUME I # {}
               PROVE  Reached(list, I, f)
    BY <1>2
  <2>1. f \in 1 .. Len(list) /\ e \in f .. Len(list) /\ Below(list[e], o) < ItemHeight
    BY <1>5, <1>6 DEF BelowNear
  <2>2. QED
    BY <1>4, <2>1, ReachesAll
<1> DEFINE r == LaysOut(list, w, I, bound)
           d == w.dirtyItems
           x == Laid(list, w, I, bound, u, d)
<1>9. /\ Good(list, x, S) /\ Follows(w, x, S)
      /\ x.visible = u /\ DOMAIN x.nodes = I \cup DOMAIN w.nodes
      /\ r \in Work /\ r.dirtyItems = d
  <2>1. CanLayOut(list, w, I, bound, d) /\ bound \in BOOLEAN /\ d \in Seq(Nat)
    BY <1>2, <1>6, <1>8 DEF CanLayOut, bound
  <2>2. d = w.dirtyItems
    OBVIOUS
  <2> HIDE DEF I, d
  <2>3. QED
    BY <1>7, <2>1, <2>2, LaysOutKeeps
<1> HIDE DEF r, x, d
<1>10. v = x
  <2>1. r.dirtyItems = d
    BY <1>9
  <2>2. /\ [r EXCEPT !.visible = u]
               = [visible |-> u, nodes |-> r.nodes, dirtyItems |-> r.dirtyItems,
                  free |-> r.free, made |-> r.made]
        /\ [r EXCEPT !.visible = u, !.dirtyItems = d]
               = [visible |-> u, nodes |-> r.nodes, dirtyItems |-> d,
                  free |-> r.free, made |-> r.made]
    BY <1>9, WorkTo
  <2>3. QED
    BY <1>3, <1>9, <2>2 DEF r, x, Laid
<1>11. Runs(list, v, f, e)
  BY <1>2, <1>4, <1>6, <1>9, <1>10 DEF Runs, u
<1>12. BackDone(list, e, o)
  <2>1. Below1(list, e, o)
    <3> SUFFICES ASSUME e < Len(list)
                 PROVE  Below(list[e + 1], o) >= ItemHeight
      BY DEF Below1
    <3>1. Below(list[e + 1], o) \in Int /\ ~(Below(list[e + 1], o) < ItemHeight)
      BY <1>1, <1>5, <1>6
    <3>2. QED
      BY <1>1, <3>1
  <2>2. QED
    BY <1>6, <2>1, BackIsDone
<1>13. QED
  BY <1>4, <1>9, <1>10, <1>11, <1>12 DEF v

\* What a window is extended by becomes dirty, but for what is bound only once.
LEMMA DirtyHas ==
    ASSUME NEW list, NEW S, Listed(list, S), NEW dirty \in Seq(Nat),
           NEW I, I \subseteq 1 .. Len(list), NEW s,
           LET A == Ascending(ToBind(list, dirty, I)) IN s \in {A, Reverse(A)}
    PROVE  /\ dirty \o s \in Seq(Nat)
           /\ ToSet(dirty) \subseteq ToSet(dirty \o s)
           /\ \A i \in I : list[i].type \in {"HEADER", "CONTAINER"} \/ i \in ToSet(dirty \o s)
<1> DEFINE J == ToBind(list, dirty, I)
           A == Ascending(J)
<1>1. Len(list) \in Nat /\ DOMAIN list = 1 .. Len(list)
  BY DEF Listed
<1>2. J \in SUBSET (1 .. Len(list))
  BY DEF ToBind
<1>3. A \in Seq(Nat) /\ ToSet(A) = J
  BY <1>1, <1>2, AscendingHasAll
<1> HIDE DEF J, A
<1>4. s \in Seq(Nat) /\ ToSet(s) = J
  <2>1. Reverse(A) \in Seq(Nat) /\ ToSet(Reverse(A)) = J
    BY <1>3, SetOfReverse
  <2>2. s = A \/ s = Reverse(A)
    BY DEF A, J
  <2>3. QED
    BY <1>3, <2>1, <2>2
<1>5. dirty \o s \in Seq(Nat) /\ ToSet(dirty \o s) = ToSet(dirty) \cup J
  BY <1>4, SetOfConcat
<1>6. ASSUME NEW i \in I
      PROVE  list[i].type \in {"HEADER", "CONTAINER"} \/ i \in ToSet(dirty) \cup J
  <2>1. list[i].type \in Types
    <3>1. i \in 1 .. Len(list)
      OBVIOUS
    <3>2. list[i] \in ViewItem
      BY <3>1 DEF Listed
    <3>3. QED
      BY <3>2, ItemFields
  <2>2. list[i].type \in {"HEADER", "CONTAINER"} \/ list[i].type \in Mutable
    BY <2>1 DEF Types, Mutable
  <2>3. QED
    BY <2>2 DEF J, ToBind
<1>7. QED
  BY <1>5, <1>6

\* The window grows upwards.
LEMMA FrontIsExtended ==
    ASSUME NEW list, NEW S, Listed(list, S), NEW w, Good(list, w, S),
           NEW a, NEW b, Runs(list, w, a, b), a <= b, NEW o \in Int,
           AboveNear(list, a, b, o), BelowNear(list, a, b, o)
    PROVE  LET v == ExtendsFront(list, w, o)
           IN  /\ Good(list, v, S) /\ Follows(w, v, S)
               /\ \E f \in 1 .. a : /\ Runs(list, v, f, b) /\ FrontDone(list, f, o)
                                    /\ AboveNear(list, f, b, o)
<1> DEFINE v == ExtendsFront(list, w, o)
           old == Head(w.visible) - 1
           f == FirstNear(list, old, o)
           I == f .. old
           A == Reverse(Ascending(ToBind(list, w.dirtyItems, I)))
           u == Interval(f, old) \o w.visible
           d == w.dirtyItems \o A
           bound == FALSE
           r == LaysOut(list, w, I, bound)
           x == Laid(list, w, I, bound, u, d)
<1>1. /\ list \in Seq(ViewItem)
      /\ Len(list) \in Nat /\ DOMAIN list = 1 .. Len(list) /\ ItemHeight \in Nat
      /\ \A i \in 1 .. Len(list) : Above(list[i], o) \in Int /\ Below(list[i], o) \in Int
  BY ListedHas, Sizes DEF Listed
<1>2. /\ a \in Nat /\ b \in Nat /\ a >= 1 /\ b <= Len(list)
      /\ w.visible = Interval(a, b) /\ DOMAIN w.nodes = a .. b
  BY <1>1, RunIs
<1>3. w \in Work /\ w.dirtyItems \in Seq(Nat)
  BY WorkIs DEF Good
<1>4. old = a - 1
  <2>1. a <= b + 1
    BY <1>2
  <2>2. Head(w.visible) = a
    BY <1>2, <2>1, IntervalIs
  <2>3. QED
    BY <1>2, <2>2
<1>5. v = [r EXCEPT !.visible = Interval(f, old) \o r.visible,
                    !.dirtyItems = r.dirtyItems \o Reverse(Ascending(ToBind(list, r.dirtyItems, I)))]
  BY DEF ExtendsFront
<1> HIDE DEF v, old, f, I, A, u, d, bound, r, x
<1>6. /\ f \in 1 .. old + 1
      /\ AboveNear(list, f, old, o)
      /\ f > 1 => ~(Above(list[f - 1], o) < ItemHeight)
  <2>1. old \in 0 .. Len(list)
    BY <1>1, <1>2, <1>4
  <2>2. QED
    BY <1>1, <2>1, FirstNearEnds DEF f, AboveNear
<1>7. /\ f \in Nat /\ f \in 1 .. a /\ old \in Nat /\ f <= old + 1 /\ old <= b /\ old + 1 = a
      /\ f <= b + 1 /\ f \in 1 .. Len(list) + 1 /\ b \in 0 .. Len(list)
      /\ f \in 1 .. Len(list) /\ b \in f .. Len(list) /\ b \in a .. b
  BY <1>1, <1>2, <1>4, <1>6
<1>8. /\ I \subseteq 1 .. Len(list) /\ I \cap DOMAIN w.nodes = {} /\ I \cup DOMAIN w.nodes = f .. b
  BY <1>1, <1>2, <1>7 DEF I
<1>9. AboveNear(list, f, b, o)
  <2>1. ASSUME NEW i \in f .. b
        PROVE  Above(list[i], o) < ItemHeight
    <3>1. i \in f .. old \/ i \in a .. b
      BY <1>2, <1>7
    <3>2. QED
      BY <1>6, <3>1 DEF AboveNear
  <2>2. QED
    BY <2>1 DEF AboveNear
<1>10. Reached(list, f .. b, f)
  <2>1. ASSUME f < Len(list)
        PROVE  Above(list[f + 1], o) <= ItemHeight
    <3>1. f \in f .. b /\ f + 1 \in 1 .. Len(list) /\ f <= f + 1
      BY <1>1, <1>7, <2>1
    <3>2. Above(list[f], o) < ItemHeight /\ Above(list[f], o) >= Above(list[f + 1], o)
      BY <1>7, <1>9, <3>1, ListedHas DEF AboveNear
    <3>3. Above(list[f], o) \in Int /\ Above(list[f + 1], o) \in Int
      BY <1>1, <1>7, <3>1
    <3>4. QED
      BY <1>1, <3>2, <3>3
  <2>2. Below(list[b], o) < ItemHeight
    BY <1>7 DEF BelowNear
  <2>3. QED
    BY <1>7, <2>1, <2>2, ReachesAll
<1>11. u = Interval(f, b) /\ u \in Seq(Nat)
  <2>1. Interval(f, old) \o Interval(old + 1, b) = Interval(f, b)
    BY <1>2, <1>7, IntervalsJoin
  <2>2. Interval(f, b) \in Seq(Nat)
    BY <1>2, <1>7, IntervalIs
  <2>3. QED
    BY <1>2, <1>7, <2>1, <2>2 DEF u
<1>12. d \in Seq(Nat) /\ CanLayOut(list, w, I, bound, d) /\ bound \in BOOLEAN
  <2>1. /\ d \in Seq(Nat)
        /\ ToSet(w.dirtyItems) \subseteq ToSet(d)
        /\ \A i \in I : list[i].type \in {"HEADER", "CONTAINER"} \/ i \in ToSet(d)
    BY <1>3, <1>8, DirtyHas DEF d, A
  <2>2. QED
    BY <1>8, <1>10, <2>1 DEF CanLayOut, bound
<1>13. /\ Good(list, x, S) /\ Follows(w, x, S)
       /\ x.visible = u /\ DOMAIN x.nodes = I \cup DOMAIN w.nodes
       /\ r \in Work /\ r.visible = w.visible /\ r.dirtyItems = w.dirtyItems
  BY <1>11, <1>12, LaysOutKeeps DEF x, r
<1>14. v = x
  <2>1. v = [r EXCEPT !.visible = u, !.dirtyItems = d]
    BY <1>5, <1>13 DEF u, d, A
  <2>2. QED
    BY <2>1 DEF x, Laid, r
<1>15. Runs(list, v, f, b)
  BY <1>7, <1>8, <1>11, <1>13, <1>14 DEF Runs
<1>16. FrontDone(list, f, o)
  <2>1. Above1(list, f, o)
    <3> SUFFICES ASSUME f > 1
                 PROVE  Above(list[f - 1], o) >= ItemHeight
      BY DEF Above1
    <3>1. f - 1 \in 1 .. Len(list)
      BY <1>1, <1>7
    <3>2. Above(list[f - 1], o) \in Int /\ ~(Above(list[f - 1], o) < ItemHeight)
      BY <1>1, <1>6, <3>1
    <3>3. QED
      BY <1>1, <3>2
  <2>2. QED
    BY <1>7, <2>1, FrontIsDone
<1>17. QED
  BY <1>7, <1>9, <1>13, <1>14, <1>15, <1>16 DEF v

\* The window grows downwards.
LEMMA BackIsExtended ==
    ASSUME NEW list, NEW S, Listed(list, S), NEW w, Good(list, w, S),
           NEW a, NEW b, Runs(list, w, a, b), a <= b, NEW o \in Int,
           AboveNear(list, a, b, o), Below(list[b], o) < ItemHeight
    PROVE  LET v == ExtendsBack(list, w, o)
           IN  /\ Good(list, v, S) /\ Follows(w, v, S)
               /\ \E e \in b .. Len(list) : Runs(list, v, a, e) /\ BackDone(list, e, o)
<1> DEFINE v == ExtendsBack(list, w, o)
           old == Last(w.visible) + 1
           e == LastNear(list, old, o)
           I == old .. e
           A == Ascending(ToBind(list, w.dirtyItems, I))
           u == w.visible \o Interval(old, e)
           d == w.dirtyItems \o A
           bound == FALSE
           r == LaysOut(list, w, I, bound)
           x == Laid(list, w, I, bound, u, d)
<1>1. /\ list \in Seq(ViewItem)
      /\ Len(list) \in Nat /\ DOMAIN list = 1 .. Len(list) /\ ItemHeight \in Nat
      /\ \A i \in 1 .. Len(list) : Above(list[i], o) \in Int /\ Below(list[i], o) \in Int
  BY ListedHas, Sizes DEF Listed
<1>2. /\ a \in Nat /\ b \in Nat /\ a >= 1 /\ b <= Len(list)
      /\ w.visible = Interval(a, b) /\ DOMAIN w.nodes = a .. b
  BY <1>1, RunIs
<1>3. w \in Work /\ w.dirtyItems \in Seq(Nat)
  BY WorkIs DEF Good
<1>4. old = b + 1
  <2>1. a <= b + 1
    BY <1>2
  <2>2. Last(w.visible) = b
    BY <1>2, <2>1, IntervalIs
  <2>3. QED
    BY <1>2, <2>2
<1>5. v = [r EXCEPT !.visible = r.visible \o Interval(old, e),
                    !.dirtyItems = r.dirtyItems \o Ascending(ToBind(list, r.dirtyItems, I))]
  BY DEF ExtendsBack
<1> HIDE DEF v, old, e, I, A, u, d, bound, r, x
<1>6. /\ e \in old - 1 .. Len(list)
      /\ BelowNear(list, old, e, o)
      /\ e < Len(list) => ~(Below(list[e + 1], o) < ItemHeight)
  <2>1. old \in 1 .. Len(list) + 1
    BY <1>1, <1>2, <1>4
  <2>2. QED
    BY <1>1, <2>1, LastNearEnds DEF e, BelowNear
<1>7. /\ e \in Nat /\ e \in b .. Len(list) /\ b <= e /\ old = b + 1 /\ a <= e + 1
      /\ a \in 1 .. Len(list) + 1 /\ e \in 0 .. Len(list)
      /\ a \in 1 .. Len(list) /\ e \in a .. Len(list) /\ a \in a .. b
  BY <1>1, <1>2, <1>4, <1>6
<1>8. /\ I \subseteq 1 .. Len(list) /\ I \cap DOMAIN w.nodes = {} /\ I \cup DOMAIN w.nodes = a .. e
  <2>1. I = b + 1 .. e /\ DOMAIN w.nodes = a .. b
    BY <1>2, <1>7 DEF I
  <2>2. (b + 1 .. e) \cap (a .. b) = {} /\ b + 1 .. e \subseteq 1 .. Len(list)
    BY <1>1, <1>2, <1>7
  <2>3. (b + 1 .. e) \cup (a .. b) = a .. e
    BY <1>2, <1>7
  <2>4. QED
    BY <2>1, <2>2, <2>3
<1>9. Reached(list, a .. e, a)
  <2>1. ASSUME a < Len(list)
        PROVE  Above(list[a + 1], o) <= ItemHeight
    <3>1. a + 1 \in 1 .. Len(list) /\ a <= a + 1
      BY <1>1, <1>7, <2>1
    <3>2. Above(list[a], o) < ItemHeight /\ Above(list[a], o) >= Above(list[a + 1], o)
      BY <1>7, <3>1, ListedHas DEF AboveNear
    <3>3. Above(list[a], o) \in Int /\ Above(list[a + 1], o) \in Int
      BY <1>1, <1>7, <3>1
    <3>4. QED
      BY <1>1, <3>2, <3>3
  <2>2. Below(list[e], o) < ItemHeight
    <3>1. e = b \/ e \in old .. e
      BY <1>2, <1>7
    <3>2. QED
      BY <1>6, <3>1 DEF BelowNear
  <2>3. QED
    BY <1>7, <2>1, <2>2, ReachesAll
<1>10. u = Interval(a, e) /\ u \in Seq(Nat)
  <2>1. a <= b + 1
    BY <1>2
  <2>2. Interval(a, b) \o Interval(b + 1, e) = Interval(a, e)
    BY <1>2, <1>7, <2>1, IntervalsJoin
  <2>3. Interval(a, e) \in Seq(Nat)
    BY <1>2, <1>7, IntervalIs
  <2>4. QED
    BY <1>2, <1>7, <2>2, <2>3 DEF u
<1>11. d \in Seq(Nat) /\ CanLayOut(list, w, I, bound, d) /\ bound \in BOOLEAN
  <2>1. /\ d \in Seq(Nat)
        /\ ToSet(w.dirtyItems) \subseteq ToSet(d)
        /\ \A i \in I : list[i].type \in {"HEADER", "CONTAINER"} \/ i \in ToSet(d)
    BY <1>3, <1>8, DirtyHas DEF d, A
  <2>2. QED
    BY <1>8, <1>9, <2>1 DEF CanLayOut, bound
<1>12. /\ Good(list, x, S) /\ Follows(w, x, S)
       /\ x.visible = u /\ DOMAIN x.nodes = I \cup DOMAIN w.nodes
       /\ r \in Work /\ r.visible = w.visible /\ r.dirtyItems = w.dirtyItems
  BY <1>10, <1>11, LaysOutKeeps DEF x, r
<1>13. v = x
  <2>1. v = [r EXCEPT !.visible = u, !.dirtyItems = d]
    BY <1>5, <1>12 DEF u, d, A
  <2>2. QED
    BY <2>1 DEF x, Laid, r
<1>14. Runs(list, v, a, e)
  BY <1>7, <1>8, <1>10, <1>12, <1>13 DEF Runs
<1>15. BackDone(list, e, o)
  <2>1. Below1(list, e, o)
    <3> SUFFICES ASSUME e < Len(list)
                 PROVE  Below(list[e + 1], o) >= ItemHeight
      BY DEF Below1
    <3>1. e + 1 \in 1 .. Len(list)
      BY <1>1, <1>7
    <3>2. Below(list[e + 1], o) \in Int /\ ~(Below(list[e + 1], o) < ItemHeight)
      BY <1>1, <1>6, <3>1
    <3>3. QED
      BY <1>1, <3>2
  <2>2. QED
    BY <1>7, <2>1, BackIsDone
<1>16. QED
  BY <1>7, <1>12, <1>13, <1>14, <1>15 DEF v

\* The whole of layoutItems: from any run of neighbours to one that leaves nothing
\* out that is on the screen.
LEMMA AllIsLaid ==
    ASSUME NEW list, NEW S, Listed(list, S), NEW w, Good(list, w, S),
           NEW a, NEW b, Runs(list, w, a, b), NEW o \in Int
    PROVE  LET v == LaidOut(list, w, o)
           IN  /\ Good(list, v, S) /\ Follows(w, v, S)
               /\ \E f, e : Runs(list, v, f, e) /\ FrontDone(list, f, o) /\ BackDone(list, e, o)
<1> DEFINE v == LaidOut(list, w, o)
           front == RecyclesFront(list, w, o)
           kept == RecyclesBack(list, front, o)
           above == IF front = w THEN ExtendsFront(list, kept, o) ELSE kept
<1>1. v = IF kept.visible = <<>> THEN LaysAfresh(list, kept, o)
          ELSE IF kept = front THEN ExtendsBack(list, above, o) ELSE above
  BY DEF LaidOut
<1>2. /\ Good(list, front, S) /\ Follows(w, front, S)
      /\ \E c \in a .. b + 1 :
            /\ Runs(list, front, c, b) /\ (front = w <=> c = a)
            /\ \A i \in c .. b : Above(list[i], o) < ItemHeight
            /\ c > a => Above(list[c - 1], o) >= ItemHeight
  BY FrontIsRecycled
<1> HIDE DEF front
<1>3. PICK c \in a .. b + 1 :
            /\ Runs(list, front, c, b) /\ (front = w <=> c = a)
            /\ \A i \in c .. b : Above(list[i], o) < ItemHeight
            /\ c > a => Above(list[c - 1], o) >= ItemHeight
  BY <1>2
<1>4. /\ Good(list, kept, S) /\ Follows(front, kept, S)
      /\ BackKept(list, front, kept, c, b, o)
  <2>1. Good(list, front, S) /\ Runs(list, front, c, b)
    BY <1>2, <1>3
  <2> HIDE DEF kept
  <2>2. QED
    BY <2>1, BackIsRecycled DEF kept
<1> HIDE DEF kept
<1>5. PICK d \in c - 1 .. b :
            /\ Runs(list, kept, c, d) /\ (kept = front <=> d = b)
            /\ \A i \in c .. d : Below(list[i], o) < ItemHeight
            /\ d < b => Below(list[d + 1], o) >= ItemHeight
  BY <1>4 DEF BackKept
<1>6. Follows(w, kept, S) /\ Good(list, kept, S)
  BY <1>2, <1>4, FollowsOn
<1>7. /\ Len(list) \in Nat /\ a \in Nat /\ b \in Nat /\ c \in Nat /\ d \in Nat
      /\ a >= 1 /\ b <= Len(list) /\ c <= d + 1 /\ kept.visible = Interval(c, d)
  <2>1. Len(list) \in Nat
    BY ListedHas
  <2>2. /\ a \in Nat /\ b \in Nat /\ a >= 1 /\ b <= Len(list)
    BY <2>1, RunIs
  <2>3. c \in Nat /\ d \in Nat /\ c <= d + 1 /\ kept.visible = Interval(c, d)
    BY <1>5, <2>1, RunIs
  <2>4. QED
    BY <2>1, <2>2, <2>3
<1> HIDE DEF v, above
<1>8. CASE kept.visible = <<>>
  <2>1. v = LaysAfresh(list, kept, o)
    BY <1>1, <1>8
  <2>2. /\ Good(list, v, S) /\ Follows(kept, v, S)
        /\ \E f, e : Runs(list, v, f, e) /\ FrontDone(list, f, o) /\ BackDone(list, e, o)
    BY <1>5, <1>6, <1>8, <2>1, AfreshIsLaid
  <2>3. QED
    BY <1>6, <2>2, FollowsOn DEF v
<1>9. CASE kept.visible # <<>>
  <2>1. c <= d
    <3>1. c # d + 1
      BY <1>7, <1>9, IntervalIs
    <3>2. QED
      BY <1>7, <3>1
  <2>2. AboveNear(list, c, d, o) /\ BelowNear(list, c, d, o)
    <3>1. \A i \in c .. d : i \in c .. b
      BY <1>7
    <3>2. QED
      BY <1>3, <1>5, <3>1 DEF AboveNear, BelowNear
  <2>3. /\ Good(list, above, S) /\ Follows(kept, above, S)
        /\ \E f \in 1 .. c : /\ Runs(list, above, f, d) /\ FrontDone(list, f, o)
                             /\ AboveNear(list, f, d, o)
    <3>1. CASE front = w
      <4>1. above = ExtendsFront(list, kept, o)
        BY <3>1 DEF above
      <4>2. QED
        BY <1>5, <1>6, <2>1, <2>2, <4>1, FrontIsExtended
    <3>2. CASE front # w
      <4>1. above = kept
        BY <3>2 DEF above
      <4>2. c # a /\ c > a /\ c \in 1 .. c /\ c \in 1 .. Len(list) + 1
        BY <1>3, <1>7, <2>1, <3>2
      <4>3. FrontDone(list, c, o)
        BY <1>3, <4>2, FrontIsDone DEF Above1
      <4>4. QED
        BY <1>5, <1>6, <2>2, <4>1, <4>2, <4>3, FollowsSelf
    <3>3. QED
      BY <3>1, <3>2
  <2>4. PICK f \in 1 .. c : /\ Runs(list, above, f, d) /\ FrontDone(list, f, o)
                            /\ AboveNear(list, f, d, o)
    BY <2>3
  <2>5. Follows(w, above, S) /\ Good(list, above, S)
    BY <1>6, <2>3, FollowsOn
  <2>6. CASE kept = front
    <3>1. v = ExtendsBack(list, above, o)
      BY <1>1, <1>9, <2>6
    <3>2. f <= d /\ Below(list[d], o) < ItemHeight
      BY <1>5, <1>7, <2>1
    <3>3. /\ Good(list, v, S) /\ Follows(above, v, S)
          /\ \E e \in d .. Len(list) : Runs(list, v, f, e) /\ BackDone(list, e, o)
      BY <2>4, <2>5, <3>1, <3>2, BackIsExtended
    <3>4. Follows(w, v, S)
      BY <2>5, <3>3, FollowsOn
    <3>5. QED
      BY <2>4, <3>3, <3>4 DEF v
  <2>7. CASE kept # front
    <3>1. v = above
      BY <1>1, <1>9, <2>7
    <3>2. d # b /\ d < b /\ d \in 0 .. Len(list)
      BY <1>5, <1>7, <2>7
    <3>3. BackDone(list, d, o)
      BY <1>5, <3>2, BackIsDone DEF Below1
    <3>4. QED
      BY <2>4, <2>5, <3>1, <3>3 DEF v
  <2>8. QED
    BY <2>6, <2>7
<1>10. QED
  BY <1>8, <1>9

-----------------------------------------------------------------------------
(* The layout of the view. *)

ItemTypes == Types \ {"CONTAINER"}
ContainerTypes == {"CONTAINER"}
Windows == [visible : Seq(Nat), nodes : NodesOf]
Layouts == [items : Windows, containers : Windows, dirtyItems : Seq(Nat), free : Pool, made : Pool]

\* A window that is a run of neighbours and keeps its books.
Holds(list, w, S) == Good(list, w, S) /\ \E a, b : Runs(list, w, a, b)
\* A window that leaves nothing out that is on the screen.
Filled(list, w, o) == \E f, e : Runs(list, w, f, e) /\ FrontDone(list, f, o) /\ BackDone(list, e, o)

\* Both windows of a layout, with the lists of the measurement m.
Sound(m, l) ==
    /\ l \in Layouts
    /\ Holds(m.items, WorkOn(l, "items"), ItemTypes)
    /\ Holds(m.containers, WorkOn(l, "containers"), ContainerTypes)
FilledAt(m, l, o) ==
    /\ Filled(m.items, WorkOn(l, "items"), o)
    /\ HasContainer => Filled(m.containers, WorkOn(l, "containers"), o)
Spared(l) == ~HasContainer => l.containers = NoWindow

Put(l, name, w) ==
    [l EXCEPT ![name] = [visible |-> w.visible, nodes |-> w.nodes],
              !.dirtyItems = w.dirtyItems, !.free = w.free, !.made = w.made]

\* The lists of a measurement.
LEMMA StackedLists ==
    ASSUME NEW m \in Stacked
    PROVE  Listed(m.items, ItemTypes) /\ Listed(m.containers, ContainerTypes)
BY DEF Stacked, Measurement, Listed, ItemTypes, ContainerTypes, Types

\* The parts of the layout that are worked on.
LEMMA WorkOnIs ==
    ASSUME NEW l \in Layouts
    PROVE  /\ WorkOn(l, "items") \in Work /\ WorkOn(l, "containers") \in Work
           /\ WorkOn(l, "items").visible = l.items.visible
           /\ WorkOn(l, "items").nodes = l.items.nodes
           /\ WorkOn(l, "containers").visible = l.containers.visible
           /\ WorkOn(l, "containers").nodes = l.containers.nodes
           /\ \A name \in {"items", "containers"} :
                 /\ WorkOn(l, name).dirtyItems = l.dirtyItems
                 /\ WorkOn(l, name).free = l.free /\ WorkOn(l, name).made = l.made
<1>1. /\ l.items \in Windows /\ l.containers \in Windows /\ l.dirtyItems \in Seq(Nat)
      /\ l.free \in Pool /\ l.made \in Pool
  BY DEF Layouts
<1>2. /\ l.items.visible \in Seq(Nat) /\ l.items.nodes \in NodesOf
      /\ l.containers.visible \in Seq(Nat) /\ l.containers.nodes \in NodesOf
  BY <1>1 DEF Windows
<1>3. WorkOn(l, "items") = [visible |-> l.items.visible, nodes |-> l.items.nodes,
            dirtyItems |-> l.dirtyItems, free |-> l.free, made |-> l.made]
  BY DEF WorkOn
<1>4. WorkOn(l, "containers") = [visible |-> l.containers.visible, nodes |-> l.containers.nodes,
            dirtyItems |-> l.dirtyItems, free |-> l.free, made |-> l.made]
  BY DEF WorkOn
<1>5. QED
  BY <1>1, <1>2, <1>3, <1>4 DEF Work

\* The parts of a layout a window was put into.
LEMMA PutIs ==
    ASSUME NEW l \in Layouts, NEW w \in Work, NEW name \in {"items", "containers"}
    PROVE  LET p == Put(l, name, w)
           IN  /\ p \in Layouts
               /\ p[name] = [visible |-> w.visible, nodes |-> w.nodes]
               /\ \A other \in {"items", "containers"} \ {name} : p[other] = l[other]
               /\ p.dirtyItems = w.dirtyItems /\ p.free = w.free /\ p.made = w.made
<1> DEFINE win == [visible |-> w.visible, nodes |-> w.nodes]
           l1 == [l EXCEPT ![name] = win]
           l2 == [l1 EXCEPT !.dirtyItems = w.dirtyItems]
           l3 == [l2 EXCEPT !.free = w.free]
           l4 == [l3 EXCEPT !.made = w.made]
<1>1. win \in Windows /\ w.dirtyItems \in Seq(Nat) /\ w.free \in Pool /\ w.made \in Pool
  BY WorkIs DEF Windows
<1> HIDE DEF win
<1>2. /\ l1 \in Layouts /\ l1[name] = win
      /\ \A other \in {"items", "containers"} \ {name} : l1[other] = l[other]
  BY <1>1 DEF Layouts
<1> HIDE DEF l1
<1>3. /\ l2 \in Layouts /\ l2[name] = win /\ l2.dirtyItems = w.dirtyItems
      /\ \A other \in {"items", "containers"} \ {name} : l2[other] = l[other]
  BY <1>1, <1>2 DEF Layouts
<1> HIDE DEF l2
<1>4. /\ l3 \in Layouts /\ l3[name] = win /\ l3.dirtyItems = w.dirtyItems /\ l3.free = w.free
      /\ \A other \in {"items", "containers"} \ {name} : l3[other] = l[other]
  BY <1>1, <1>3 DEF Layouts
<1> HIDE DEF l3
<1>5. /\ l4 \in Layouts /\ l4[name] = win /\ l4.dirtyItems = w.dirtyItems /\ l4.free = w.free
      /\ l4.made = w.made
      /\ \A other \in {"items", "containers"} \ {name} : l4[other] = l[other]
  BY <1>1, <1>4 DEF Layouts
<1> HIDE DEF l4
<1>6. Put(l, name, w) = l4
  BY DEF Put, l4, l3, l2, l1, win
<1>7. QED
  BY <1>5, <1>6 DEF win

\* A window keeps its books when nothing of it changes and nothing dirty is forgotten.
LEMMA HoldsStill ==
    ASSUME NEW list, NEW S, Listed(list, S), NEW v, Holds(list, v, S),
           NEW w \in Work, w.visible = v.visible, w.nodes = v.nodes,
           \A t \in S : w.free[t] = v.free[t] /\ w.made[t] = v.made[t],
           S = {"CONTAINER"} \/ ToSet(v.dirtyItems) \subseteq ToSet(w.dirtyItems)
    PROVE  Holds(list, w, S)
<1>1. Balanced(list, w, S)
  BY DEF Holds, Good, Balanced
<1>2. Bounded(list, w, S)
  <2> SUFFICES ASSUME NEW t \in S, \E i \in DOMAIN list : list[i].type = t
               PROVE  \E i \in DOMAIN list : w.made[t] <= Near(list, i, t)
    BY DEF Bounded
  <2>1. \E i \in DOMAIN list : v.made[t] <= Near(list, i, t)
    BY DEF Holds, Good, Bounded
  <2>2. QED
    BY <2>1
<1>3. Stale(list, w)
  <2> SUFFICES ASSUME NEW i \in DOMAIN v.nodes, ~v.nodes[i]
               PROVE  /\ list[i].type # "CONTAINER"
                      /\ ~list[i].invisible => i \in ToSet(w.dirtyItems)
    BY DEF Stale
  <2>1. /\ list[i].type # "CONTAINER"
        /\ ~list[i].invisible => i \in ToSet(v.dirtyItems)
    BY DEF Holds, Good, Stale
  <2>2. CASE S = {"CONTAINER"}
    <3>1. i \in DOMAIN list
      BY DEF Holds, Good, Listed
    <3>2. list[i].type \in S
      BY <3>1 DEF Listed, OfType
    <3>3. QED
      BY <2>1, <2>2, <3>2
  <2>3. QED
    BY <2>1, <2>2
<1>4. Good(list, w, S)
  BY <1>1, <1>2, <1>3 DEF Holds, Good
<1>5. QED
  BY <1>4 DEF Holds, Runs

\* The items are worked on.
LEMMA PutsItems ==
    ASSUME NEW m \in Stacked, NEW l, Sound(m, l), Spared(l),
           NEW w, Holds(m.items, w, ItemTypes), Follows(WorkOn(l, "items"), w, ItemTypes)
    PROVE  LET p == Put(l, "items", w)
           IN  /\ Sound(m, p) /\ Spared(p)
               /\ \A o : Filled(m.items, w, o) => Filled(m.items, WorkOn(p, "items"), o)
<1> DEFINE p == Put(l, "items", w)
<1>1. l \in Layouts /\ w \in Work
  BY DEF Sound, Holds, Good
<1>2. /\ p \in Layouts /\ p.items = [visible |-> w.visible, nodes |-> w.nodes]
      /\ p.containers = l.containers
      /\ p.dirtyItems = w.dirtyItems /\ p.free = w.free /\ p.made = w.made
  BY <1>1, PutIs
<1> HIDE DEF p
<1> DEFINE x == WorkOn(p, "items")
           y == WorkOn(p, "containers")
<1>3. /\ x \in Work /\ x.visible = w.visible /\ x.nodes = w.nodes /\ x.dirtyItems = w.dirtyItems
      /\ x.free = w.free /\ x.made = w.made
      /\ y \in Work /\ y.visible = l.containers.visible /\ y.nodes = l.containers.nodes
      /\ y.dirtyItems = w.dirtyItems /\ y.free = w.free /\ y.made = w.made
  BY <1>2, WorkOnIs
<1> DEFINE k == WorkOn(l, "items")
           c == WorkOn(l, "containers")
<1>4. /\ c.visible = l.containers.visible /\ c.nodes = l.containers.nodes
      /\ k.dirtyItems = c.dirtyItems /\ k.free = c.free /\ k.made = c.made
  BY <1>1, WorkOnIs
<1>5. Holds(m.containers, c, ContainerTypes) /\ Follows(k, w, ItemTypes)
  BY DEF Sound
<1>6. Listed(m.items, ItemTypes) /\ Listed(m.containers, ContainerTypes)
  BY StackedLists
<1> HIDE DEF x, y, k, c
<1>7. Holds(m.items, x, ItemTypes)
  BY <1>3, <1>6, HoldsStill
<1>8. Holds(m.containers, y, ContainerTypes)
  <2>1. \A t \in ContainerTypes : y.free[t] = c.free[t] /\ y.made[t] = c.made[t]
    BY <1>3, <1>4, <1>5 DEF Follows, ItemTypes, ContainerTypes, Types
  <2>2. ContainerTypes = {"CONTAINER"}
    BY DEF ContainerTypes
  <2>3. y \in Work /\ y.visible = c.visible /\ y.nodes = c.nodes
    BY <1>3, <1>4
  <2> HIDE DEF ContainerTypes
  <2>4. QED
    BY <1>5, <1>6, <2>1, <2>2, <2>3, HoldsStill
<1>9. Spared(p)
  BY <1>2 DEF Spared
<1>10. \A o : Filled(m.items, w, o) => Filled(m.items, x, o)
  BY <1>3 DEF Filled, Runs
<1>11. QED
  BY <1>2, <1>7, <1>8, <1>9, <1>10 DEF Sound, p, x, y

\* The containers are worked on.
LEMMA PutsContainers ==
    ASSUME NEW m \in Stacked, NEW l, Sound(m, l), HasContainer,
           NEW w, Holds(m.containers, w, ContainerTypes),
           Follows(WorkOn(l, "containers"), w, ContainerTypes)
    PROVE  LET p == Put(l, "containers", w)
           IN  /\ Sound(m, p) /\ Spared(p)
               /\ \A o : (Filled(m.items, WorkOn(l, "items"), o) /\ Filled(m.containers, w, o))
                             => FilledAt(m, p, o)
<1> DEFINE p == Put(l, "containers", w)
<1>1. l \in Layouts /\ w \in Work
  BY DEF Sound, Holds, Good
<1>2. /\ p \in Layouts /\ p.containers = [visible |-> w.visible, nodes |-> w.nodes]
      /\ p.items = l.items
      /\ p.dirtyItems = w.dirtyItems /\ p.free = w.free /\ p.made = w.made
  BY <1>1, PutIs
<1> HIDE DEF p
<1> DEFINE x == WorkOn(p, "containers")
           y == WorkOn(p, "items")
<1>3. /\ x \in Work /\ x.visible = w.visible /\ x.nodes = w.nodes /\ x.dirtyItems = w.dirtyItems
      /\ x.free = w.free /\ x.made = w.made
      /\ y \in Work /\ y.visible = l.items.visible /\ y.nodes = l.items.nodes
      /\ y.dirtyItems = w.dirtyItems /\ y.free = w.free /\ y.made = w.made
  BY <1>2, WorkOnIs
<1> DEFINE k == WorkOn(l, "containers")
           c == WorkOn(l, "items")
<1>4. /\ c.visible = l.items.visible /\ c.nodes = l.items.nodes
      /\ k.dirtyItems = c.dirtyItems /\ k.free = c.free /\ k.made = c.made
  BY <1>1, WorkOnIs
<1>5. Holds(m.items, c, ItemTypes) /\ Follows(k, w, ContainerTypes)
  BY DEF Sound
<1>6. Listed(m.items, ItemTypes) /\ Listed(m.containers, ContainerTypes)
  BY StackedLists
<1> HIDE DEF x, y, k, c
<1>7. Holds(m.containers, x, ContainerTypes)
  BY <1>3, <1>6, HoldsStill
<1>8. Holds(m.items, y, ItemTypes)
  <2>1. /\ \A t \in ItemTypes : y.free[t] = c.free[t] /\ y.made[t] = c.made[t]
        /\ ToSet(c.dirtyItems) \subseteq ToSet(y.dirtyItems)
    BY <1>3, <1>4, <1>5 DEF Follows, ItemTypes, ContainerTypes, Types
  <2>2. y \in Work /\ y.visible = c.visible /\ y.nodes = c.nodes
    BY <1>3, <1>4
  <2> HIDE DEF ItemTypes
  <2>3. QED
    BY <1>5, <1>6, <2>1, <2>2, HoldsStill
<1>9. Spared(p)
  BY DEF Spared
<1>10. \A o : /\ Filled(m.items, c, o) => Filled(m.items, y, o)
              /\ Filled(m.containers, w, o) => Filled(m.containers, x, o)
  BY <1>3, <1>4 DEF Filled, Runs
<1>11. Sound(m, p)
  BY <1>2, <1>7, <1>8 DEF Sound, x, y
<1>12. ASSUME NEW o, Filled(m.items, c, o), Filled(m.containers, w, o)
       PROVE  FilledAt(m, p, o)
  BY <1>10, <1>12 DEF FilledAt, x, y
<1>13. QED
  BY <1>9, <1>11, <1>12 DEF p, c

\* Work on the items, then on the containers, keeps a layout sound.
LEMMA MovesIsSound ==
    ASSUME adapter \in Adapters, NEW m, m = MeasuredOf[adapter],
           NEW l, Sound(m, l), Spared(l), NEW o \in Int
    PROVE  LET v == MovesContent(l, o)
           IN  Sound(m, v) /\ FilledAt(m, v, o) /\ Spared(v)
<1> DEFINE k == WorkOn(l, "items")
           w == LaidOut(m.items, k, o)
           p == Put(l, "items", w)
           x == WorkOn(p, "containers")
           y == LaidOut(m.containers, x, o)
           q == Put(p, "containers", y)
<1>1. MovesContent(l, o) = IF HasContainer THEN q ELSE p
  <2>1. ListOf("items") = m.items /\ ListOf("containers") = m.containers
    BY ListsAreStacked
  <2>2. OnWindow(l, "items", LAMBDA v : LaidOut(ListOf("items"), v, o)) = p
    BY <2>1 DEF OnWindow, Put
  <2>3. OnWindow(p, "containers", LAMBDA v : LaidOut(ListOf("containers"), v, o)) = q
    BY ZenonT(30), <2>1 DEF OnWindow, Put
  <2> HIDE DEF p, q
  <2>4. QED
    BY <2>2, <2>3 DEF MovesContent, OnWindows
<1>2. m \in Stacked
  BY ListsAreStacked
<1>3. Listed(m.items, ItemTypes) /\ Listed(m.containers, ContainerTypes)
  BY <1>2, StackedLists
<1>4. Holds(m.items, w, ItemTypes) /\ Follows(k, w, ItemTypes) /\ Filled(m.items, w, o)
  <2>1. Good(m.items, k, ItemTypes) /\ \E a, b : Runs(m.items, k, a, b)
    BY DEF Sound, Holds
  <2> HIDE DEF k
  <2>2. /\ Good(m.items, w, ItemTypes) /\ Follows(k, w, ItemTypes)
        /\ \E f, e : Runs(m.items, w, f, e) /\ FrontDone(m.items, f, o) /\ BackDone(m.items, e, o)
    BY <1>3, <2>1, AllIsLaid
  <2>3. QED
    BY <2>2 DEF Holds, Filled
<1> HIDE DEF w
<1>5. /\ Sound(m, p) /\ Spared(p)
      /\ \A u : Filled(m.items, w, u) => Filled(m.items, WorkOn(p, "items"), u)
  BY <1>2, <1>4, PutsItems
<1> HIDE DEF k, p
<1>6. CASE ~HasContainer
  <2>1. FilledAt(m, p, o)
    BY <1>4, <1>5, <1>6 DEF FilledAt
  <2>2. QED
    BY <1>1, <1>5, <1>6, <2>1
<1>7. CASE HasContainer
  <2>1. Holds(m.containers, y, ContainerTypes) /\ Follows(x, y, ContainerTypes)
        /\ Filled(m.containers, y, o)
    <3>1. Good(m.containers, x, ContainerTypes) /\ \E a, b : Runs(m.containers, x, a, b)
      BY <1>5 DEF Sound, Holds
    <3> HIDE DEF x
    <3>2. /\ Good(m.containers, y, ContainerTypes) /\ Follows(x, y, ContainerTypes)
          /\ \E f, e : /\ Runs(m.containers, y, f, e)
                       /\ FrontDone(m.containers, f, o) /\ BackDone(m.containers, e, o)
      BY <1>3, <3>1, AllIsLaid
    <3>3. QED
      BY <3>2 DEF Holds, Filled
  <2> HIDE DEF y
  <2>2. /\ Sound(m, q) /\ Spared(q)
        /\ \A u : (Filled(m.items, WorkOn(p, "items"), u) /\ Filled(m.containers, y, u))
                      => FilledAt(m, q, u)
    BY <1>2, <1>5, <1>7, <2>1, PutsContainers
  <2> HIDE DEF q
  <2>3. FilledAt(m, q, o)
    BY <1>4, <1>5, <2>1, <2>2
  <2>4. QED
    BY <1>1, <1>7, <2>2, <2>3
<1>8. QED
  BY <1>6, <1>7

\* A window without nodes needs nothing to be bound.
LEMMA HoldsNothing ==
    ASSUME NEW list, NEW S, NEW v, Holds(list, v, S), DOMAIN v.nodes = {},
           NEW w \in Work, w.visible = v.visible, w.nodes = v.nodes,
           w.free = v.free, w.made = v.made
    PROVE  Holds(list, w, S)
BY DEF Holds, Good, Balanced, Bounded, Stale, Runs

\* A window all of whose nodes go back.
LEMMA AllIsRecycled ==
    ASSUME NEW list, NEW S, Listed(list, S), NEW w, Holds(list, w, S)
    PROVE  LET v == [Recycles(list, w, ToSet(w.visible)) EXCEPT !.visible = <<>>]
           IN  /\ Holds(list, v, S) /\ Follows(w, v, S)
               /\ DOMAIN v.nodes = {}
<1> DEFINE v == [Recycles(list, w, ToSet(w.visible)) EXCEPT !.visible = <<>>]
<1>1. Good(list, w, S) /\ \E a, b : Runs(list, w, a, b)
  BY DEF Holds
<1>2. PICK a, b : Runs(list, w, a, b)
  BY <1>1
<1>3. Len(list) \in Nat
  BY DEF Listed
<1>4. /\ a \in Nat /\ b \in Nat /\ a <= b + 1 /\ w.visible = Interval(a, b)
      /\ DOMAIN w.nodes = a .. b
  BY <1>2, <1>3, RunIs
<1>5. ToSet(w.visible) = a .. b
  BY <1>4, IntervalIs
<1>6. <<>> \in Seq(Nat) /\ ToSet(w.visible) \in SUBSET DOMAIN w.nodes
  BY <1>4, <1>5
<1>7. /\ Good(list, v, S) /\ Follows(w, v, S) /\ v.visible = <<>>
      /\ DOMAIN v.nodes = DOMAIN w.nodes \ ToSet(w.visible)
  <2> DEFINE none == <<>>
             I == ToSet(w.visible)
             u == [Recycles(list, w, I) EXCEPT !.visible = none]
  <2>1. none \in Seq(Nat) /\ I \in SUBSET DOMAIN w.nodes
    BY <1>6
  <2>2. u = v
    OBVIOUS
  <2> HIDE DEF none, I, v
  <2>3. /\ Good(list, u, S) /\ Follows(w, u, S) /\ u.visible = none
        /\ DOMAIN u.nodes = DOMAIN w.nodes \ I
    BY <1>1, <2>1, RecyclesKeeps
  <2> HIDE DEF u
  <2>4. QED
    BY <2>2, <2>3 DEF none, I
<1>8. DOMAIN v.nodes = {}
  BY <1>4, <1>5, <1>7
<1> HIDE DEF v
<1>9. Runs(list, v, 1, 0)
  <2>1. Interval(1, 0) = <<>>
    BY DEF Interval
  <2>2. 1 .. 0 = {}
    OBVIOUS
  <2>3. QED
    BY <1>3, <1>7, <1>8, <2>1, <2>2 DEF Runs
<1>10. Holds(list, v, S)
  BY <1>7, <1>9 DEF Holds
<1>11. QED
  BY <1>7, <1>8, <1>10 DEF v

\* resetLayout keeps a layout sound.
LEMMA ResetIsSound ==
    ASSUME adapter \in Adapters, NEW m, m = MeasuredOf[adapter],
           NEW l, Sound(m, l), Spared(l)
    PROVE  LET v == ResetLayout(l)
           IN  Sound(m, v) /\ Spared(v)
<1> DEFINE R(list, w) == [Recycles(list, w, ToSet(w.visible)) EXCEPT !.visible = <<>>]
           k == WorkOn(l, "items")
           w == R(m.items, k)
           p == Put(l, "items", w)
           x == WorkOn(p, "containers")
           y == R(m.containers, x)
           q == Put(p, "containers", y)
           r == IF HasContainer THEN q ELSE p
           v == [r EXCEPT !.dirtyItems = <<>>]
<1>1. ResetLayout(l) = v
  <2>1. ListOf("items") = m.items /\ ListOf("containers") = m.containers
    BY ListsAreStacked
  <2>2. OnWindow(l, "items", LAMBDA z : R(ListOf("items"), z)) = p
    BY <2>1 DEF OnWindow, Put
  <2>3. OnWindow(p, "containers", LAMBDA z : R(ListOf("containers"), z)) = q
    BY <2>1 DEF OnWindow, Put
  <2> HIDE DEF p, q
  <2>4. QED
    BY <2>2, <2>3 DEF ResetLayout, OnWindows
<1>2. m \in Stacked
  BY ListsAreStacked
<1>3. Listed(m.items, ItemTypes) /\ Listed(m.containers, ContainerTypes)
  BY <1>2, StackedLists
<1>4. Holds(m.items, w, ItemTypes) /\ Follows(k, w, ItemTypes) /\ DOMAIN w.nodes = {}
  <2>1. Holds(m.items, k, ItemTypes)
    BY DEF Sound
  <2> HIDE DEF k
  <2>2. QED
    BY <1>3, <2>1, AllIsRecycled
<1> HIDE DEF w, R
<1>5. l \in Layouts /\ w \in Work
  BY <1>4 DEF Sound, Holds, Good
<1>6. Sound(m, p) /\ Spared(p) /\ p.items.nodes = w.nodes
  <2>1. Sound(m, p) /\ Spared(p)
    BY <1>2, <1>4, PutsItems
  <2>2. p.items = [visible |-> w.visible, nodes |-> w.nodes]
    BY <1>5, PutIs
  <2>3. QED
    BY <2>1, <2>2
<1> HIDE DEF k, p
<1>7. /\ Sound(m, r) /\ Spared(r)
      /\ DOMAIN r.items.nodes = {} /\ DOMAIN r.containers.nodes = {}
  <2>1. CASE ~HasContainer
    <3>1. p.containers.nodes = <<>>
      BY <1>6, <2>1 DEF Spared, NoWindow
    <3>2. QED
      BY <1>4, <1>6, <2>1, <3>1
  <2>2. CASE HasContainer
    <3>1. Holds(m.containers, y, ContainerTypes) /\ Follows(x, y, ContainerTypes)
          /\ DOMAIN y.nodes = {}
      <4>1. Holds(m.containers, x, ContainerTypes)
        BY <1>6 DEF Sound
      <4> HIDE DEF x
      <4>2. QED
        BY <1>3, <4>1, AllIsRecycled DEF R
    <3> HIDE DEF y
    <3>2. Sound(m, q) /\ Spared(q)
      BY <1>2, <1>6, <2>2, <3>1, PutsContainers
    <3>3. p \in Layouts /\ y \in Work
      BY <1>6, <3>1 DEF Sound, Holds, Good
    <3>4. q.containers = [visible |-> y.visible, nodes |-> y.nodes] /\ q.items = p.items
      BY <3>3, PutIs
    <3>5. QED
      BY <1>4, <1>6, <2>2, <3>1, <3>2, <3>4
  <2>3. QED
    BY <2>1, <2>2
<1> HIDE DEF r
<1>8. r \in Layouts
  BY <1>7 DEF Sound
<1>9. /\ v \in Layouts /\ v.items = r.items /\ v.containers = r.containers
      /\ v.dirtyItems = <<>> /\ v.free = r.free /\ v.made = r.made
  <2> DEFINE none == <<>>
  <2>1. none \in Seq(Nat)
    OBVIOUS
  <2> HIDE DEF none
  <2> DEFINE z == [r EXCEPT !.dirtyItems = none]
  <2>2. /\ z \in Layouts /\ z.items = r.items /\ z.containers = r.containers
        /\ z.dirtyItems = none /\ z.free = r.free /\ z.made = r.made
    BY <1>8, <2>1 DEF Layouts
  <2>3. z = v
    BY DEF none
  <2> HIDE DEF z, v
  <2>4. QED
    BY <2>2, <2>3 DEF none
<1> HIDE DEF v
<1>10. Holds(m.items, WorkOn(v, "items"), ItemTypes)
  <2> DEFINE a == WorkOn(r, "items")
             b == WorkOn(v, "items")
  <2>1. /\ a.visible = r.items.visible /\ a.nodes = r.items.nodes /\ a.free = r.free
        /\ a.made = r.made
    BY <1>8, WorkOnIs
  <2>2. /\ b \in Work /\ b.visible = r.items.visible /\ b.nodes = r.items.nodes
        /\ b.free = r.free /\ b.made = r.made
    BY <1>9, WorkOnIs
  <2>3. Holds(m.items, a, ItemTypes)
    BY <1>7 DEF Sound
  <2> HIDE DEF a, b
  <2>4. Holds(m.items, b, ItemTypes)
    BY <1>7, <2>1, <2>2, <2>3, HoldsNothing
  <2>5. QED
    BY <2>4 DEF b
<1>11. Holds(m.containers, WorkOn(v, "containers"), ContainerTypes)
  <2> DEFINE a == WorkOn(r, "containers")
             b == WorkOn(v, "containers")
  <2>1. /\ a.visible = r.containers.visible /\ a.nodes = r.containers.nodes /\ a.free = r.free
        /\ a.made = r.made
    BY <1>8, WorkOnIs
  <2>2. /\ b \in Work /\ b.visible = r.containers.visible /\ b.nodes = r.containers.nodes
        /\ b.free = r.free /\ b.made = r.made
    BY <1>9, WorkOnIs
  <2>3. Holds(m.containers, a, ContainerTypes)
    BY <1>7 DEF Sound
  <2> HIDE DEF a, b
  <2>4. Holds(m.containers, b, ContainerTypes)
    BY <1>7, <2>1, <2>2, <2>3, HoldsNothing
  <2>5. QED
    BY <2>4 DEF b
<1>12. Sound(m, v)
  BY <1>9, <1>10, <1>11 DEF Sound
<1>13. Spared(v)
  BY <1>7, <1>9 DEF Spared
<1>14. QED
  BY <1>1, <1>12, <1>13

-----------------------------------------------------------------------------
(* The inductive invariant of the view. *)

NotStarted ==
    /\ ~canLayout /\ ~autoScrolling
    /\ items = NoWindow /\ containers = NoWindow /\ dirtyItems = <<>>
    /\ free = [t \in Types |-> 0] /\ made = [t \in Types |-> 0]
ViewInv ==
    /\ adapter \in Adapters \cup {NoAdapter}
    /\ canLayout \in BOOLEAN /\ autoScrolling \in BOOLEAN /\ offset \in Int
    /\ currentCategoryIndex \in Nat /\ targetCategoryIndex \in Nat
    /\ adapter = NoAdapter => NotStarted
    /\ adapter # NoAdapter =>
          /\ Sound(MeasuredOf[adapter], Layout) /\ Spared(Layout)
          /\ canLayout => FilledAt(MeasuredOf[adapter], Layout, offset)

\* The parts of the layout.
LEMMA LayoutIs ==
    /\ Layout.items = items /\ Layout.containers = containers
    /\ Layout.dirtyItems = dirtyItems /\ Layout.free = free /\ Layout.made = made
BY DEF Layout

\* The windows of a view that was never laid out; its header may have a node.
LEMMA NoneIsLaid ==
    ASSUME NEW list, NEW S, Listed(list, S), NEW w \in Work,
           w.visible = <<>>, w.nodes = <<>>,
           \A t \in S : w.made[t] = w.free[t] /\ w.made[t] \in 0 .. 1
    PROVE  Holds(list, w, S)
<1>1. DOMAIN w.nodes = {} /\ Len(list) \in Nat
  BY DEF Listed
<1>2. Balanced(list, w, S)
  <2> SUFFICES ASSUME NEW t \in S
               PROVE  w.made[t] = w.free[t] + CountOf(list, DOMAIN w.nodes, t)
    BY DEF Balanced
  <2>1. CountOf(list, DOMAIN w.nodes, t) = 0
    BY <1>1, CountOfNone
  <2>2. QED
    BY <2>1
<1>3. Bounded(list, w, S)
  <2> SUFFICES ASSUME NEW t \in S, NEW i \in DOMAIN list, list[i].type = t
               PROVE  w.made[t] <= Near(list, i, t)
    BY DEF Bounded
  <2>1. list \in Seq(ViewItem) /\ i \in 1 .. Len(list)
    BY DEF Listed
  <2>2. Reached(list, {i}, i)
    <3> DEFINE j == IF i < Len(list) THEN i + 1 ELSE i
    <3>1. j \in DOMAIN list /\ i <= j
      BY <1>1, <2>1
    <3> HIDE DEF j
    <3>2. list[i].top + list[i].height <= list[j].top + list[j].height
      BY <3>1 DEF Listed, Ordered
    <3>3. list[i] \in ViewItem /\ list[j] \in ViewItem
      BY <2>1, <3>1
    <3>4. /\ list[i].top \in Nat /\ list[i].height \in Nat /\ list[i].height > 0
          /\ list[j].top \in Nat /\ list[j].height \in Nat
      BY <3>3, ItemFields
    <3>5. list[i].top < list[j].top + list[j].height + WinHeight + 2 * ItemHeight
      <4> DEFINE p == list[i].top
                 q == list[i].height
                 r == list[j].top
                 s == list[j].height
      <4>1. p \in Nat /\ q \in Nat /\ q > 0 /\ r \in Nat /\ s \in Nat /\ p + q <= r + s
        BY <3>2, <3>4
      <4> HIDE DEF p, q, r, s
      <4>2. p < r + s + WinHeight + 2 * ItemHeight
        BY <4>1, Sizes
      <4>3. QED
        BY <4>2 DEF p, r, s
    <3>6. QED
      BY <1>1, <2>1, <3>5 DEF Reached, j
  <2>3. CountOf(list, {i}, t) <= Near(list, i, t)
    BY <2>1, <2>2, NearHas
  <2>4. CountOf(list, {i}, t) = 1
    <3>1. {k \in {i} : list[k].type = t} = {i}
      OBVIOUS
    <3>2. QED
      BY <3>1, FS_Singleton DEF CountOf
  <2>5. Near(list, i, t) \in Nat
    <3> DEFINE next == list[IF i < Len(list) THEN i + 1 ELSE i]
               J == {k \in i .. Len(list) :
                        list[k].top < next.top + next.height + WinHeight + 2 * ItemHeight}
    <3>1. Near(list, i, t) = CountOf(list, J, t)
      BY DEF Near
    <3>2. J \subseteq 1 .. Len(list)
      BY <1>1, <2>1
    <3> HIDE DEF J
    <3>3. IsFiniteSet(J)
      BY <1>1, <3>2, FiniteIn
    <3>4. QED
      BY <3>1, <3>3, CountIs
  <2>6. w.made[t] \in 0 .. 1
    OBVIOUS
  <2>7. QED
    BY <2>3, <2>4, <2>5, <2>6
<1>4. Stale(list, w)
  BY <1>1 DEF Stale
<1>5. Runs(list, w, 1, 0)
  <2>1. Interval(1, 0) = <<>>
    BY DEF Interval
  <2>2. 1 .. 0 = {}
    OBVIOUS
  <2>3. QED
    BY <1>1, <2>1, <2>2 DEF Runs
<1>6. QED
  BY <1>1, <1>2, <1>3, <1>4, <1>5 DEF Holds, Good

\* A view that gets its adapter.
LEMMA NewIsSound ==
    ASSUME NotStarted, NEW a \in Adapters, SetAdapter(a)
    PROVE  Sound(MeasuredOf[adapter'], Layout') /\ Spared(Layout') /\ ~canLayout'
<1> DEFINE l == Layout'
           m == MeasuredOf[adapter']
<1>1. adapter' \in Adapters
  BY DEF SetAdapter
<1>2. m \in Stacked
  BY <1>1, AdaptersAssumption, MeasuredIsStacked DEF MeasuredOf
<1>3. Listed(m.items, ItemTypes) /\ Listed(m.containers, ContainerTypes)
  BY <1>2, StackedLists
<1>4. /\ items' = NoWindow /\ containers' = NoWindow /\ dirtyItems' = <<>> /\ ~canLayout'
      /\ free' \in Pool /\ made' = free'
      /\ \A t \in Types : free'[t] \in 0 .. 1
  BY DEF NotStarted, SetAdapter, Pool, Types
<1>5. NoWindow \in Windows /\ NoWindow.visible = <<>> /\ NoWindow.nodes = <<>>
  <2>1. <<>> \in [{} -> BOOLEAN] /\ {} \in SUBSET Nat /\ <<>> \in Seq(Nat)
    OBVIOUS
  <2>2. <<>> \in NodesOf
    BY <2>1, NodesAre
  <2>3. QED
    BY <2>1, <2>2 DEF NoWindow, Windows
<1>6. /\ l.items = NoWindow /\ l.containers = NoWindow /\ l.dirtyItems = <<>>
      /\ l.free = free' /\ l.made = free'
  BY <1>4 DEF Layout
<1>7. l \in Layouts
  <2>1. dirtyItems' \in Seq(Nat) /\ items' \in Windows /\ containers' \in Windows
        /\ free' \in Pool /\ made' \in Pool
    BY <1>4, <1>5
  <2>2. QED
    BY <2>1 DEF Layout, Layouts
<1> HIDE DEF l, m
<1> DEFINE x == WorkOn(l, "items")
           y == WorkOn(l, "containers")
<1>8. /\ x \in Work /\ x.visible = <<>> /\ x.nodes = <<>> /\ x.free = free' /\ x.made = free'
      /\ y \in Work /\ y.visible = <<>> /\ y.nodes = <<>> /\ y.free = free' /\ y.made = free'
  BY <1>5, <1>6, <1>7, WorkOnIs
<1>9. /\ \A t \in ItemTypes : x.made[t] = x.free[t] /\ x.made[t] \in 0 .. 1
      /\ \A t \in ContainerTypes : y.made[t] = y.free[t] /\ y.made[t] \in 0 .. 1
  <2>1. ItemTypes \subseteq Types /\ ContainerTypes \subseteq Types
    BY DEF ItemTypes, ContainerTypes, Types
  <2>2. QED
    BY <1>4, <1>8, <2>1
<1> HIDE DEF x, y
<1>10. Holds(m.items, x, ItemTypes) /\ Holds(m.containers, y, ContainerTypes)
  BY <1>3, <1>8, <1>9, NoneIsLaid
<1>11. Sound(m, l)
  BY <1>7, <1>10 DEF Sound, x, y
<1>12. Spared(l)
  BY <1>6 DEF Spared
<1>13. QED
  BY <1>4, <1>11, <1>12 DEF l, m

\* The layout after a step.
LEMMA BecomesIs ==
    ASSUME NEW v \in Layouts, Becomes(v)
    PROVE  Layout' = v
<1>1. v = [items |-> v.items, containers |-> v.containers, dirtyItems |-> v.dirtyItems,
           free |-> v.free, made |-> v.made]
  BY DEF Layouts
<1> HIDE DEF Layouts
<1>2. QED
  BY <1>1 DEF Becomes, Layout

\* The content is moved.
LEMMA MovesTo ==
    ASSUME adapter \in Adapters, adapter' = adapter, canLayout' \in BOOLEAN,
           NEW l, Sound(MeasuredOf[adapter], l), Spared(l), NEW o \in Int, MoveContent(l, o)
    PROVE  /\ offset' = o
           /\ Sound(MeasuredOf[adapter'], Layout') /\ Spared(Layout')
           /\ canLayout' => FilledAt(MeasuredOf[adapter'], Layout', offset')
<1> DEFINE m == MeasuredOf[adapter]
           v == MovesContent(l, o)
<1>1. /\ m = MeasuredOf[adapter] /\ m = MeasuredOf[adapter'] /\ Sound(m, l)
      /\ offset' = o /\ Becomes(IF canLayout' THEN v ELSE l)
  BY DEF MoveContent
<1> HIDE DEF m
<1>2. Sound(m, v) /\ FilledAt(m, v, o) /\ Spared(v)
  BY <1>1, MovesIsSound
<1> HIDE DEF v
<1>3. v \in Layouts /\ l \in Layouts
  BY <1>1, <1>2 DEF Sound
<1>4. CASE canLayout'
  <2>1. Layout' = v
    BY <1>1, <1>3, <1>4, BecomesIs
  <2>2. QED
    BY <1>1, <1>2, <2>1
<1>5. CASE ~canLayout'
  <2>1. Layout' = l
    BY <1>1, <1>3, <1>5, BecomesIs
  <2>2. QED
    BY <1>1, <1>5, <2>1
<1>6. QED
  BY <1>4, <1>5

\* The search finds an index in every case.
LEMMA FocusIsIndex ==
    ASSUME adapter \in Adapters, NEW y \in Int
    PROVE  FocusCategoryIndex(Categories, y) \in Nat
<1> DEFINE list == Categories
<1>1. list \in Seq(ViewItem) /\ Ordered(list) /\ Chained(list, MeasuredOf[adapter].used)
  BY ListsAreStacked
<1> HIDE DEF list
<1>2. CASE list = <<>>
  <2>1. FocusCategoryIndex(list, y)
          = BinarySearch([k \in 1 .. Len(list) |-> Going(y < list[k].top, y >= list[k].end)])
    BY DEF FocusCategoryIndex
  <2>2. [k \in 1 .. Len(list) |-> Going(y < list[k].top, y >= list[k].end)] = <<>>
    BY <1>2
  <2>3. FocusCategoryIndex(list, y) = 1
    BY <2>1, <2>2, BinarySearchOfNone
  <2>4. QED
    BY <2>3 DEF list
<1>3. CASE list # <<>>
  <2>1. Covers(list, FocusCategoryIndex(list, y), y)
    BY <1>1, <1>3, FocusFound
  <2>2. FocusCategoryIndex(list, y) \in DOMAIN list
    BY <2>1 DEF Covers
  <2>3. QED
    BY <1>1, <2>2 DEF list
<1>4. QED
  BY <1>2, <1>3

\* The category in focus is an index.
LEMMA FocusStaysIndex ==
    ASSUME adapter \in Adapters, currentCategoryIndex \in Nat, NEW index, FocusCategory(index)
    PROVE  currentCategoryIndex' \in Nat
<1>1. Len(Categories) \in Nat
  BY ListsAreStacked
<1>2. QED
  BY <1>1 DEF FocusCategory

\* What is still in a list when its first element is taken.
LEMMA TailHas ==
    ASSUME NEW s \in Seq(Nat), s # <<>>
    PROVE  /\ Tail(s) \in Seq(Nat) /\ Head(s) \in Nat
           /\ \A i \in ToSet(s) : i # Head(s) => i \in ToSet(Tail(s))
<1>1. Tail(s) \in Seq(Nat) /\ Head(s) \in Nat /\ Len(s) \in Nat /\ Len(s) >= 1
      /\ Head(s) = s[1] /\ Len(Tail(s)) = Len(s) - 1
      /\ \A k \in 1 .. Len(s) - 1 : Tail(s)[k] = s[k + 1]
  OBVIOUS
<1>2. ASSUME NEW i \in ToSet(s), i # Head(s)
      PROVE  i \in ToSet(Tail(s))
  <2>1. PICK k \in 1 .. Len(s) : i = s[k]
    BY DEF ToSet
  <2>2. k - 1 \in 1 .. Len(Tail(s)) /\ Tail(s)[k - 1] = i
    <3>1. k # 1
      BY <1>1, <1>2, <2>1
    <3>2. k - 1 \in 1 .. Len(s) - 1 /\ (k - 1) + 1 = k
      BY <1>1, <3>1
    <3>3. QED
      BY <1>1, <2>1, <3>2
  <2>3. k - 1 \in DOMAIN Tail(s)
    BY <1>1, <2>2
  <2>4. QED
    BY <2>2, <2>3 DEF ToSet
<1>3. QED
  BY <1>1, <1>2

\* The oldest dirty item is bound.
LEMMA UpdateKeeps ==
    ASSUME ViewInv, Update
    PROVE  ViewInv'
<1> DEFINE m == MeasuredOf[adapter]
           l == Layout
           n == Layout'
           d == Head(dirtyItems)
<1>1. /\ adapter \in Adapters /\ adapter # NoAdapter
      /\ Sound(m, l) /\ Spared(l) /\ (canLayout => FilledAt(m, l, offset))
  BY DEF ViewInv, Update, NotStarted
<1>2. l.items = items /\ l.containers = containers /\ l.dirtyItems = dirtyItems
      /\ l.free = free /\ l.made = made
  BY LayoutIs
<1>3. /\ items \in Windows /\ containers \in Windows /\ dirtyItems \in Seq(Nat)
      /\ free \in Pool /\ made \in Pool /\ l \in Layouts
  <2>1. l \in Layouts
    BY <1>1 DEF Sound
  <2> HIDE DEF l
  <2>2. QED
    BY <1>2, <2>1 DEF Layouts
<1>4. /\ dirtyItems # <<>> /\ dirtyItems' = Tail(dirtyItems)
      /\ UNCHANGED <<adapter, canLayout, offset, autoScrolling, containers, free, made, focus>>
      /\ items' = IF d \in DOMAIN items.nodes /\ ~m.items[d].invisible
                  THEN [items EXCEPT !.nodes[d] = TRUE] ELSE items
  BY DEF Update, ListOf
<1>5. /\ dirtyItems' \in Seq(Nat)
      /\ \A i \in ToSet(dirtyItems) : i # d => i \in ToSet(dirtyItems')
  BY <1>3, <1>4, TailHas
<1>6. /\ items' \in Windows /\ items'.visible = items.visible
      /\ DOMAIN items'.nodes = DOMAIN items.nodes
      /\ \A i \in DOMAIN items.nodes :
            /\ items.nodes[i] => items'.nodes[i]
            /\ (i = d /\ ~m.items[d].invisible) => items'.nodes[i]
  <2>1. CASE ~(d \in DOMAIN items.nodes /\ ~m.items[d].invisible)
    BY <1>3, <1>4, <2>1
  <2>2. CASE d \in DOMAIN items.nodes /\ ~m.items[d].invisible
    <3> DEFINE f == items.nodes
               g == [f EXCEPT ![d] = TRUE]
    <3>1. f \in NodesOf /\ items.visible \in Seq(Nat)
          /\ items = [visible |-> items.visible, nodes |-> f]
      BY <1>3 DEF Windows
    <3>2. f \in [DOMAIN f -> BOOLEAN] /\ DOMAIN f \in SUBSET Nat
      BY <3>1, NodesAre
    <3> HIDE DEF f
    <3>3. g \in [DOMAIN f -> BOOLEAN] /\ \A i \in DOMAIN f : g[i] = IF i = d THEN TRUE ELSE f[i]
      BY <3>2
    <3>4. g \in NodesOf /\ DOMAIN g = DOMAIN f
      BY <3>2, <3>3, NodesAre
    <3>5. items' = [items EXCEPT !.nodes = g]
      BY <1>4, <2>2 DEF f
    <3> HIDE DEF g
    <3>6. items \in [visible : {items.visible}, nodes : {f}]
      BY <3>1
    <3>7. items' \in [visible : {items.visible}, nodes : {g}]
      BY <3>5, <3>6
    <3>8. items'.visible = items.visible /\ items'.nodes = g
      BY <3>7
    <3>9. items' \in Windows
      BY <3>1, <3>4, <3>7 DEF Windows
    <3>10. QED
      BY <3>3, <3>4, <3>8, <3>9 DEF f
  <2>3. QED
    BY <2>1, <2>2
<1>7. n.items = items' /\ n.containers = containers /\ n.dirtyItems = dirtyItems'
      /\ n.free = free /\ n.made = made /\ n \in Layouts
  <2>1. n = [items |-> items', containers |-> containers, dirtyItems |-> dirtyItems',
             free |-> free, made |-> made]
    BY <1>4 DEF Layout
  <2>2. QED
    BY <1>3, <1>5, <1>6, <2>1 DEF Layouts
<1>8. Listed(m.items, ItemTypes) /\ Listed(m.containers, ContainerTypes)
  BY <1>1, ListsAreStacked, StackedLists
<1> DEFINE x == WorkOn(l, "items")
           y == WorkOn(l, "containers")
           p == WorkOn(n, "items")
           q == WorkOn(n, "containers")
<1> HIDE DEF m, l, n
<1>9. /\ x.visible = items.visible /\ x.nodes = items.nodes /\ x.dirtyItems = dirtyItems
      /\ x.free = free /\ x.made = made
      /\ y.visible = containers.visible /\ y.nodes = containers.nodes
      /\ y.free = free /\ y.made = made
  BY <1>2, <1>3, WorkOnIs
<1>10. /\ p \in Work /\ p.visible = items.visible /\ p.nodes = items'.nodes
       /\ p.dirtyItems = dirtyItems' /\ p.free = free /\ p.made = made
       /\ q \in Work /\ q.visible = containers.visible /\ q.nodes = containers.nodes
       /\ q.free = free /\ q.made = made
  BY <1>6, <1>7, WorkOnIs
<1>11. Holds(m.items, x, ItemTypes) /\ Holds(m.containers, y, ContainerTypes)
  BY <1>1 DEF Sound
<1> HIDE DEF x, y, p, q, d
<1>12. Holds(m.items, p, ItemTypes)
  <2>1. DOMAIN p.nodes = DOMAIN x.nodes /\ p.made = x.made /\ p.free = x.free
        /\ p.visible = x.visible
    BY <1>6, <1>9, <1>10
  <2>2. Good(m.items, x, ItemTypes) /\ \E a, b : Runs(m.items, x, a, b)
    BY <1>11 DEF Holds
  <2>3. Balanced(m.items, p, ItemTypes) /\ Bounded(m.items, p, ItemTypes)
    BY <2>1, <2>2 DEF Good, Balanced, Bounded
  <2>4. Stale(m.items, p)
    <3> SUFFICES ASSUME NEW i \in DOMAIN p.nodes, ~p.nodes[i]
                 PROVE  /\ m.items[i].type # "CONTAINER"
                        /\ ~m.items[i].invisible => i \in ToSet(p.dirtyItems)
      BY DEF Stale
    <3>1. i \in DOMAIN x.nodes /\ ~x.nodes[i]
      BY <1>6, <1>9, <1>10, <2>1
    <3>2. /\ m.items[i].type # "CONTAINER"
          /\ ~m.items[i].invisible => i \in ToSet(x.dirtyItems)
      BY <2>2, <3>1 DEF Good, Stale
    <3>3. ~m.items[i].invisible => i # d
      BY <1>6, <1>9, <1>10, <3>1
    <3>4. QED
      BY <1>5, <1>9, <1>10, <3>2, <3>3
  <2>5. DOMAIN p.nodes \subseteq 1 .. Len(m.items)
    BY <2>1, <2>2 DEF Good
  <2>6. \E a, b : Runs(m.items, p, a, b)
    BY <2>1, <2>2 DEF Runs
  <2>7. QED
    BY <1>10, <2>3, <2>4, <2>5, <2>6 DEF Holds, Good
<1>13. Holds(m.containers, q, ContainerTypes)
  <2>1. q.visible = y.visible /\ q.nodes = y.nodes /\ q.free = y.free /\ q.made = y.made
    BY <1>9, <1>10
  <2>2. ContainerTypes = {"CONTAINER"}
    BY DEF ContainerTypes
  <2> HIDE DEF ContainerTypes
  <2>3. QED
    BY <1>8, <1>10, <1>11, <2>1, <2>2, HoldsStill
<1>14. Sound(m, n)
  BY <1>7, <1>12, <1>13 DEF Sound, p, q
<1>15. Spared(n)
  BY <1>1, <1>2, <1>7 DEF Spared
<1>16. canLayout => FilledAt(m, n, offset)
  <2>1. ASSUME NEW o, FilledAt(m, l, o)
        PROVE  FilledAt(m, n, o)
    <3>1. Filled(m.items, x, o) /\ (HasContainer => Filled(m.containers, y, o))
      BY <2>1 DEF FilledAt, x, y
    <3>2. Filled(m.items, p, o)
      BY <1>6, <1>9, <1>10, <3>1 DEF Filled, Runs
    <3>3. HasContainer => Filled(m.containers, q, o)
      BY <1>9, <1>10, <3>1 DEF Filled, Runs
    <3>4. QED
      BY <3>2, <3>3 DEF FilledAt, p, q
  <2>2. QED
    BY <1>1, <2>1
<1>17. /\ adapter' = adapter /\ canLayout' = canLayout /\ autoScrolling' = autoScrolling
       /\ offset' = offset /\ currentCategoryIndex' = currentCategoryIndex
       /\ targetCategoryIndex' = targetCategoryIndex
  BY <1>4 DEF focus
<1>18. m = MeasuredOf[adapter'] /\ n = Layout'
  BY <1>17 DEF m, n
<1>19. QED
  BY <1>1, <1>14, <1>15, <1>16, <1>17, <1>18 DEF ViewInv

\* The invariant holds at first.
LEMMA ViewInitInv ==
    ViewInit => ViewInv
<1> SUFFICES ASSUME ViewInit PROVE ViewInv
  OBVIOUS
<1>1. adapter = NoAdapter /\ NotStarted
  BY DEF ViewInit, NotStarted
<1>2. canLayout \in BOOLEAN /\ autoScrolling \in BOOLEAN
  BY DEF ViewInit
<1>3. offset \in Int /\ currentCategoryIndex \in Nat /\ targetCategoryIndex \in Nat
  BY DEF ViewInit
<1>4. QED
  BY <1>1, <1>2, <1>3 DEF ViewInv

\* A step that leaves the layout and its place alone.
LEMMA LayoutStays ==
    ASSUME ViewInv, UNCHANGED <<adapter, canLayout, offset, layout>>,
           adapter = NoAdapter => ~autoScrolling',
           autoScrolling' \in BOOLEAN,
           currentCategoryIndex' \in Nat, targetCategoryIndex' \in Nat
    PROVE  ViewInv'
<1>1. /\ adapter' = adapter /\ canLayout' = canLayout /\ offset' = offset
      /\ items' = items /\ containers' = containers /\ dirtyItems' = dirtyItems
      /\ free' = free /\ made' = made
  BY DEF layout
<1>2. Layout' = Layout
  BY <1>1 DEF Layout
<1>3. adapter = NoAdapter => NotStarted'
  BY <1>1 DEF ViewInv, NotStarted
<1> DEFINE m == MeasuredOf[adapter]
<1>4. adapter # NoAdapter =>
         /\ Sound(m, Layout) /\ Spared(Layout) /\ (canLayout => FilledAt(m, Layout, offset))
  BY DEF ViewInv
<1>5. m = MeasuredOf[adapter']
  BY <1>1
<1> HIDE DEF m
<1>6. adapter' # NoAdapter =>
         /\ Sound(m, Layout') /\ Spared(Layout') /\ (canLayout' => FilledAt(m, Layout', offset'))
  BY <1>1, <1>2, <1>4
<1>7. /\ adapter' \in Adapters \cup {NoAdapter} /\ canLayout' \in BOOLEAN /\ offset' \in Int
  BY <1>1 DEF ViewInv
<1>8. QED
  BY <1>1, <1>3, <1>5, <1>6, <1>7 DEF ViewInv

\* A step that moves the content.
LEMMA ContentMoves ==
    ASSUME ViewInv, adapter # NoAdapter, adapter' = adapter, canLayout' \in BOOLEAN,
           autoScrolling' \in BOOLEAN,
           NEW l, Sound(MeasuredOf[adapter], l), Spared(l), NEW o \in Int, MoveContent(l, o),
           currentCategoryIndex' \in Nat, targetCategoryIndex' \in Nat
    PROVE  ViewInv'
<1>1. adapter \in Adapters
  BY DEF ViewInv
<1>2. /\ offset' = o
      /\ Sound(MeasuredOf[adapter'], Layout') /\ Spared(Layout')
      /\ canLayout' => FilledAt(MeasuredOf[adapter'], Layout', offset')
  BY <1>1, MovesTo
<1>3. QED
  BY <1>1, <1>2 DEF ViewInv

\* Every action of the view keeps the invariant.
LEMMA ViewStepInv ==
    ASSUME ViewInv, ViewNext
    PROVE  ViewInv'
<1> DEFINE m == MeasuredOf[adapter]
<1>1. adapter # NoAdapter =>
         adapter \in Adapters /\ Sound(m, Layout) /\ Spared(Layout)
  BY DEF ViewInv
<1>2. /\ canLayout \in BOOLEAN /\ autoScrolling \in BOOLEAN /\ offset \in Int
      /\ currentCategoryIndex \in Nat /\ targetCategoryIndex \in Nat
  BY DEF ViewInv
<1>3. ViewHeight \div 2 \in Int
  BY Sizes
<1>4. ASSUME NEW a \in Adapters, SetAdapter(a)
      PROVE  ViewInv'
  <2>1. NotStarted /\ adapter' = a /\ a # NoAdapter
    BY <1>4, AdaptersAssumption DEF ViewInv, SetAdapter
  <2>2. Sound(MeasuredOf[adapter'], Layout') /\ Spared(Layout') /\ ~canLayout'
    BY <1>4, <2>1, NewIsSound
  <2>3. /\ canLayout' = canLayout /\ offset' = offset /\ autoScrolling' = autoScrolling
        /\ currentCategoryIndex' = currentCategoryIndex
        /\ targetCategoryIndex' = targetCategoryIndex
    BY <1>4 DEF SetAdapter, focus
  <2>4. QED
    BY <1>2, <2>1, <2>2, <2>3 DEF ViewInv
<1>5. CASE LayoutStarts
  <2>1. /\ adapter # NoAdapter /\ adapter' = adapter /\ canLayout' = TRUE
        /\ MoveContent(Layout, adapter.initialOffset)
        /\ FocusCategoryByOffset(adapter.initialOffset)
        /\ autoScrolling' = autoScrolling /\ targetCategoryIndex' = targetCategoryIndex
    BY <1>5 DEF LayoutStarts
  <2>2. adapter.initialOffset \in Int
    BY <1>1, <2>1, AdaptersAssumption DEF Adapter
  <2>3. currentCategoryIndex' \in Nat
    BY <1>1, <1>2, <2>1, FocusStaysIndex DEF FocusCategoryByOffset
  <2>4. QED
    BY <1>1, <1>2, <2>1, <2>2, <2>3, ContentMoves
<1>6. ASSUME NEW o \in Offsets, Scroll(o)
      PROVE  ViewInv'
  <2>1. /\ adapter # NoAdapter /\ adapter' = adapter /\ canLayout' = canLayout
        /\ MoveContent(Layout, o)
        /\ autoScrolling' = autoScrolling /\ targetCategoryIndex' = targetCategoryIndex
        /\ currentCategoryIndex' = currentCategoryIndex
    BY <1>6 DEF Scroll, focus
  <2>2. o \in Int
    BY ScrollAssumption
  <2>3. QED
    BY <1>1, <1>2, <2>1, <2>2, ContentMoves
<1>7. ASSUME NEW o \in Flings, StartAutoScroll(o)
      PROVE  ViewInv'
  <2>1. /\ adapter # NoAdapter /\ autoScrolling' = TRUE
        /\ targetCategoryIndex' = FocusCategoryIndex(Categories, o + ViewHeight \div 2)
        /\ UNCHANGED <<adapter, canLayout, offset, layout>>
        /\ currentCategoryIndex' = currentCategoryIndex
    BY <1>7 DEF StartAutoScroll
  <2>2. o + ViewHeight \div 2 \in Int
    BY <1>3, ScrollAssumption
  <2>3. targetCategoryIndex' \in Nat
    BY <1>1, <2>1, <2>2, FocusIsIndex
  <2>4. QED
    BY <1>2, <2>1, <2>3, LayoutStays
<1>8. ASSUME NEW index \in 1 .. (IF adapter = NoAdapter THEN 0 ELSE Len(Categories)),
             SetCategoryIndex(index)
      PROVE  ViewInv'
  <2>1. /\ adapter # NoAdapter /\ adapter' = adapter /\ canLayout' = canLayout
        /\ autoScrolling' = FALSE /\ currentCategoryIndex' = index
        /\ MoveContent(ResetLayout(Layout), Categories[index].top - Spacing)
        /\ targetCategoryIndex' = targetCategoryIndex
    BY <1>8 DEF SetCategoryIndex
  <2>2. Categories \in Seq(ViewItem)
    BY <1>1, <2>1, ListsAreStacked
  <2>3. index \in Nat /\ index \in 1 .. Len(Categories)
    BY <2>1, <2>2
  <2>4. Categories[index] \in ViewItem
    BY <2>2, <2>3
  <2>5. Categories[index].top - Spacing \in Int
    BY <2>4, ItemFields, Sizes
  <2>6. Sound(m, ResetLayout(Layout)) /\ Spared(ResetLayout(Layout))
    BY <1>1, <2>1, ResetIsSound
  <2>7. QED
    BY <1>2, <2>1, <2>3, <2>5, <2>6, ContentMoves
<1>9. CASE Press
  BY <1>2, <1>9, LayoutStays DEF Press
<1>10. CASE Release
  <2>1. currentCategoryIndex' \in Nat
    BY <1>1, <1>2, <1>10, FocusStaysIndex DEF Release, FocusCategoryByOffset
  <2>2. QED
    BY <1>2, <1>10, <2>1, LayoutStays DEF Release
<1>11. CASE AutoScrollEnds
  <2>1. adapter # NoAdapter
    BY <1>11 DEF AutoScrollEnds, ViewInv, NotStarted
  <2>2. currentCategoryIndex' \in Nat
    BY <1>1, <1>2, <1>11, <2>1, FocusStaysIndex DEF AutoScrollEnds
  <2>3. QED
    BY <1>2, <1>11, <2>2, LayoutStays DEF AutoScrollEnds
<1>12. CASE Update
  BY <1>12, UpdateKeeps
<1>13. QED
  BY <1>4, <1>5, <1>6, <1>7, <1>8, <1>9, <1>10, <1>11, <1>12 DEF ViewNext

\* So does what happens outside of the view.
LEMMA ViewStutterInv ==
    ASSUME ViewInv, UNCHANGED viewVars
    PROVE  ViewInv'
<1>1. /\ UNCHANGED <<adapter, canLayout, offset, layout>>
      /\ autoScrolling' = autoScrolling
      /\ currentCategoryIndex' = currentCategoryIndex
      /\ targetCategoryIndex' = targetCategoryIndex
  BY DEF viewVars, focus
<1>2. /\ autoScrolling \in BOOLEAN /\ currentCategoryIndex \in Nat /\ targetCategoryIndex \in Nat
      /\ (adapter = NoAdapter => ~autoScrolling)
  BY DEF ViewInv, NotStarted
<1>3. QED
  BY <1>1, <1>2, LayoutStays

\* The invariant of the view: what it measured is stacked, both windows are runs of
\* neighbours that keep their books, and once the layout has started they leave
\* nothing out that is on the screen.
LEMMA SpecViewInv ==
    ViewSpec => []ViewInv
<1>1. ViewInit => ViewInv
  BY ViewInitInv
<1>2. ViewInv /\ [ViewNext]_viewVars => ViewInv'
  BY ViewStepInv, ViewStutterInv
<1>3. QED
  BY <1>1, <1>2, PTL DEF ViewSpec

-----------------------------------------------------------------------------
(* What the view shows. *)

\* The windows of a view that has its adapter.
LEMMA WindowsAre ==
    ASSUME ViewInv, adapter # NoAdapter, NEW m, m = MeasuredOf[adapter]
    PROVE  /\ ListOf("items") = m.items /\ ListOf("containers") = m.containers
           /\ Listed(m.items, ItemTypes) /\ Listed(m.containers, ContainerTypes)
           /\ Holds(m.items, WorkOn(Layout, "items"), ItemTypes)
           /\ Holds(m.containers, WorkOn(Layout, "containers"), ContainerTypes)
           /\ WorkOn(Layout, "items").visible = items.visible
           /\ WorkOn(Layout, "items").nodes = items.nodes
           /\ WorkOn(Layout, "items").dirtyItems = dirtyItems
           /\ WorkOn(Layout, "items").made = made
           /\ WorkOn(Layout, "containers").visible = containers.visible
           /\ WorkOn(Layout, "containers").nodes = containers.nodes
           /\ WorkOn(Layout, "containers").made = made
           /\ Layout \in Layouts
<1>1. adapter \in Adapters /\ Sound(m, Layout)
  BY DEF ViewInv
<1>2. Layout \in Layouts
  BY <1>1 DEF Sound
<1>3. /\ ListOf("items") = m.items /\ ListOf("containers") = m.containers /\ m \in Stacked
  BY <1>1, ListsAreStacked
<1>4. QED
  BY <1>1, <1>2, <1>3, StackedLists, WorkOnIs, LayoutIs DEF Sound

\* A window that holds, in the terms of the properties.
LEMMA HoldsIsWindow ==
    ASSUME NEW list, NEW S, Listed(list, S), NEW w, Holds(list, w, S),
           NEW v, v.visible = w.visible, v.nodes = w.nodes
    PROVE  /\ IsWindow(v, list)
           /\ DOMAIN v.nodes = ToSet(v.visible)
           /\ \A k \in 1 .. Len(v.visible) - 1 : v.visible[k + 1] = v.visible[k] + 1
<1>1. Good(list, w, S) /\ \E a, b : Runs(list, w, a, b)
  BY DEF Holds
<1>2. PICK a, b : Runs(list, w, a, b)
  BY <1>1
<1>3. Len(list) \in Nat /\ DOMAIN list = 1 .. Len(list)
  BY DEF Listed
<1>4. /\ a \in Nat /\ b \in Nat /\ a <= b + 1 /\ a >= 1 /\ b <= Len(list)
      /\ w.visible = Interval(a, b) /\ DOMAIN w.nodes = a .. b
      /\ Len(w.visible) = b - a + 1
      /\ \A k \in 1 .. b - a + 1 : w.visible[k] = a + k - 1
  BY <1>2, <1>3, RunIs
<1>5. ToSet(w.visible) = a .. b
  <2>1. ToSet(Interval(a, b)) = a .. b
    BY <1>4, IntervalIs
  <2>2. QED
    BY <1>4, <2>1
<1>6. w.visible \in Seq(DOMAIN list)
  <2>1. w.visible = [k \in 1 .. b - a + 1 |-> a + k - 1]
    BY <1>4 DEF Interval
  <2>2. b - a + 1 \in Nat /\ \A k \in 1 .. b - a + 1 : a + k - 1 \in 1 .. Len(list)
    BY <1>3, <1>4
  <2>3. QED
    BY <1>3, <2>1, <2>2
<1>7. w.nodes \in [DOMAIN w.nodes -> BOOLEAN]
  <2>1. w \in Work
    BY <1>1 DEF Good
  <2>2. QED
    BY <2>1, WorkIs, NodesAre
<1>8. ASSUME NEW k \in 1 .. Len(w.visible) - 1
      PROVE  w.visible[k + 1] = w.visible[k] + 1
  <2>1. k \in 1 .. b - a + 1 /\ k + 1 \in 1 .. b - a + 1
    BY <1>4, <1>8
  <2>2. w.visible[k] = a + k - 1 /\ w.visible[k + 1] = a + (k + 1) - 1
    BY <1>4, <2>1
  <2>3. QED
    BY <1>4, <2>1, <2>2
<1>9. QED
  BY <1>4, <1>5, <1>6, <1>7, <1>8 DEF IsWindow

\* Every variable of the view has its type, and windows hold indices of their lists,
\* for every adapter and every offset it is scrolled to.
THEOREM SpecViewTypeOK ==
    ViewSpec => []ViewTypeOK
<1>1. ASSUME ViewInv
      PROVE  ViewTypeOK
  <2>1. CASE adapter = NoAdapter
    BY <1>1, <2>1 DEF ViewInv, NotStarted, ViewTypeOK
  <2>2. CASE adapter # NoAdapter
    <3>1. IsWindow(items, ListOf("items")) /\ IsWindow(containers, ListOf("containers"))
      BY <1>1, <2>2, WindowsAre, HoldsIsWindow
    <3>2. Layout \in Layouts
      BY <1>1, <2>2, WindowsAre
    <3>3. dirtyItems \in Seq(Nat) /\ free \in Pool /\ made \in Pool
      BY <3>2 DEF Layouts, Layout
    <3>4. QED
      BY <1>1, <3>1, <3>3 DEF ViewInv, ViewTypeOK, Pool
  <2>3. QED
    BY <2>1, <2>2
<1>2. QED
  BY <1>1, SpecViewInv, PTL

\* A window is a run of neighbours and exactly they have nodes: recycleItem and
\* layoutItem (451-500) neither forget nor repeat one, for every content and scroll.
THEOREM SpecNodesAreTheWindow ==
    ViewSpec => []NodesAreTheWindow
<1>1. ASSUME ViewInv
      PROVE  NodesAreTheWindow
  <2>1. CASE adapter = NoAdapter
    <3>1. items = NoWindow /\ containers = NoWindow
      BY <1>1, <2>1 DEF ViewInv, NotStarted
    <3>2. DOMAIN NoWindow.nodes = {} /\ NoWindow.visible = <<>>
      BY DEF NoWindow
    <3>3. ToSet(NoWindow.visible) = {} /\ 1 .. Len(NoWindow.visible) - 1 = {}
      BY <3>2 DEF ToSet
    <3>4. QED
      BY <3>1, <3>2, <3>3 DEF NodesAreTheWindow
  <2>2. CASE adapter # NoAdapter
    <3> SUFFICES ASSUME NEW w \in {items, containers}
                 PROVE  /\ DOMAIN w.nodes = ToSet(w.visible)
                        /\ \A k \in 1 .. Len(w.visible) - 1 : w.visible[k + 1] = w.visible[k] + 1
      BY DEF NodesAreTheWindow
    <3>1. QED
      BY <1>1, <2>2, WindowsAre, HoldsIsWindow
  <2>3. QED
    BY <2>1, <2>2
<1>2. QED
  BY <1>1, SpecViewInv, PTL

\* A node that shows what it showed before waits to be bound (596, 609), for every
\* content, and whatever scrolls, jumps and frames come in whatever order.
THEOREM SpecStaleIsDirty ==
    ViewSpec => []StaleIsDirty
<1>1. ASSUME ViewInv
      PROVE  StaleIsDirty
  <2>1. CASE adapter = NoAdapter
    <3>1. DOMAIN items.nodes = {}
      BY <1>1, <2>1 DEF ViewInv, NotStarted, NoWindow
    <3>2. QED
      BY <3>1 DEF StaleIsDirty
  <2>2. CASE adapter # NoAdapter
    <3> DEFINE m == MeasuredOf[adapter]
    <3>1. /\ ListOf("items") = m.items
          /\ Holds(m.items, WorkOn(Layout, "items"), ItemTypes)
          /\ WorkOn(Layout, "items").nodes = items.nodes
          /\ WorkOn(Layout, "items").dirtyItems = dirtyItems
      BY <1>1, <2>2, WindowsAre
    <3>2. Stale(m.items, WorkOn(Layout, "items"))
      BY <3>1 DEF Holds, Good
    <3>3. QED
      BY <3>1, <3>2 DEF Stale, StaleIsDirty
  <2>3. QED
    BY <2>1, <2>2
<1>2. QED
  BY <1>1, SpecViewInv, PTL

\* What is on the screen at o is in a window that leaves nothing out.
LEMMA FilledHas ==
    ASSUME NEW list, NEW S, Listed(list, S), NEW w, Filled(list, w, offset), offset \in Int
    PROVE  OnScreen(list) \subseteq ToSet(w.visible)
<1>1. PICK f, e : Runs(list, w, f, e) /\ FrontDone(list, f, offset) /\ BackDone(list, e, offset)
  BY DEF Filled
<1>2. /\ Len(list) \in Nat /\ DOMAIN list = 1 .. Len(list)
      /\ \A i \in 1 .. Len(list) : Above(list[i], offset) \in Int /\ Below(list[i], offset) \in Int
  BY ListedHas
<1>3. /\ f \in Nat /\ e \in Nat /\ f <= e + 1 /\ w.visible = Interval(f, e)
  BY <1>1, <1>2, RunIs
<1>4. ToSet(w.visible) = f .. e
  BY <1>3, IntervalIs
<1>5. ASSUME NEW i \in OnScreen(list)
      PROVE  i \in f .. e
  <2>1. i \in 1 .. Len(list) /\ Above(list[i], offset) < 0 /\ Below(list[i], offset) < 0
    BY <1>2 DEF OnScreen
  <2>2. ~(i < f)
    BY <1>1, <1>2, <2>1 DEF FrontDone
  <2>3. ~(i > e)
    BY <1>1, <1>2, <2>1 DEF BackDone
  <2>4. QED
    BY <1>2, <1>3, <2>1, <2>2, <2>3
<1>6. QED
  BY <1>4, <1>5

\* Once the layout has started nothing on the screen is left out (565-620): for every
\* content, every size of items, screen and spacing, and every scroll or jump, though the
\* search (507-521) may miss the first item of a row.
THEOREM SpecScreenIsFilled ==
    ViewSpec => []ScreenIsFilled
<1>1. ASSUME ViewInv
      PROVE  ScreenIsFilled
  <2> SUFFICES ASSUME canLayout
               PROVE  /\ OnScreen(ListOf("items")) \subseteq ToSet(items.visible)
                      /\ HasContainer =>
                            OnScreen(ListOf("containers")) \subseteq ToSet(containers.visible)
    BY DEF ScreenIsFilled
  <2> DEFINE m == MeasuredOf[adapter]
  <2>1. adapter # NoAdapter
    BY <1>1 DEF ViewInv, NotStarted
  <2>2. FilledAt(m, Layout, offset) /\ offset \in Int
    BY <1>1, <2>1 DEF ViewInv
  <2>3. /\ ListOf("items") = m.items /\ ListOf("containers") = m.containers
        /\ Listed(m.items, ItemTypes) /\ Listed(m.containers, ContainerTypes)
        /\ WorkOn(Layout, "items").visible = items.visible
        /\ WorkOn(Layout, "containers").visible = containers.visible
    BY <1>1, <2>1, WindowsAre
  <2> HIDE DEF m
  <2>4. OnScreen(m.items) \subseteq ToSet(items.visible)
    BY <2>2, <2>3, FilledHas DEF FilledAt
  <2>5. ASSUME HasContainer
        PROVE  OnScreen(m.containers) \subseteq ToSet(containers.visible)
    BY <2>2, <2>3, <2>5, FilledHas DEF FilledAt
  <2>6. QED
    BY <2>3, <2>4, <2>5
<1>2. QED
  BY <1>1, SpecViewInv, PTL

\* There are never more nodes of a type than lie within reach of some screen, for every
\* content: the pool (451-487) neither leaks nodes nor makes them while it has some.
THEOREM SpecNodesAreReused ==
    ViewSpec => []NodesAreReused
<1>1. ASSUME ViewInv
      PROVE  NodesAreReused
  <2> SUFFICES ASSUME adapter # NoAdapter, NEW name \in {"items", "containers"}, NEW t \in Types,
                      \E i \in DOMAIN ListOf(name) : ListOf(name)[i].type = t
               PROVE  \E i \in DOMAIN ListOf(name) : made[t] <= Near(ListOf(name), i, t)
    BY DEF NodesAreReused
  <2> DEFINE m == MeasuredOf[adapter]
             x == WorkOn(Layout, "items")
             y == WorkOn(Layout, "containers")
  <2>1. /\ ListOf("items") = m.items /\ ListOf("containers") = m.containers
        /\ Listed(m.items, ItemTypes) /\ Listed(m.containers, ContainerTypes)
        /\ Holds(m.items, x, ItemTypes) /\ Holds(m.containers, y, ContainerTypes)
        /\ x.made = made /\ y.made = made
    BY <1>1, WindowsAre
  <2>2. Bounded(m.items, x, ItemTypes) /\ Bounded(m.containers, y, ContainerTypes)
    BY <2>1 DEF Holds, Good
  <2> HIDE DEF m, x, y
  <2>3. CASE name = "items"
    <3>1. t \in ItemTypes
      BY <2>1, <2>3 DEF Listed, OfType
    <3>2. QED
      BY <2>1, <2>2, <2>3, <3>1 DEF Bounded
  <2>4. CASE name = "containers"
    <3>1. t \in ContainerTypes
      BY <2>1, <2>4 DEF Listed, OfType
    <3>2. QED
      BY <2>1, <2>2, <2>4, <3>1 DEF Bounded
  <2>5. QED
    BY <2>3, <2>4
<1>2. QED
  BY <1>1, SpecViewInv, PTL

\* After a touch or the start, the category in focus is the one on the middle of the
\* view: findFocusCategoryIndex (527-543) agrees with its definition for every list of
\* categories and every offset.
THEOREM SpecFocusIsMiddle ==
    ViewSpec => FocusIsMiddle
<1> DEFINE A == (Release \/ LayoutStarts) =>
                   (Categories # <<>> =>
                       Covers(Categories, currentCategoryIndex', offset' + ViewHeight \div 2))
<1>1. ASSUME ViewInv, Release \/ LayoutStarts, Categories # <<>>
      PROVE  Covers(Categories, currentCategoryIndex', offset' + ViewHeight \div 2)
  <2>1. adapter \in Adapters
    BY <1>1 DEF ViewInv, Release, LayoutStarts
  <2>2. offset' \in Int /\ FocusCategoryByOffset(offset')
    <3>1. CASE Release
      <4>1. offset' = offset /\ FocusCategoryByOffset(offset) /\ offset \in Int
        BY <1>1, <3>1 DEF Release, ViewInv
      <4>2. QED
        BY <4>1
    <3>2. CASE LayoutStarts
      <4>1. /\ offset' = adapter.initialOffset /\ FocusCategoryByOffset(adapter.initialOffset)
        BY <3>2 DEF LayoutStarts, MoveContent
      <4>2. adapter.initialOffset \in Int
        BY <2>1, AdaptersAssumption DEF Adapter
      <4>3. QED
        BY <4>1, <4>2
    <3>3. QED
      BY <1>1, <3>1, <3>2
  <2> DEFINE y == offset' + ViewHeight \div 2
             k == FocusCategoryIndex(Categories, y)
  <2>3. y \in Int
    BY <2>2, Sizes
  <2>4. /\ Categories \in Seq(ViewItem) /\ Ordered(Categories)
        /\ Chained(Categories, MeasuredOf[adapter].used)
    BY <2>1, ListsAreStacked
  <2>5. FocusCategory(k)
    BY <2>2 DEF FocusCategoryByOffset
  <2> HIDE DEF y
  <2>6. Covers(Categories, k, y)
    BY <1>1, <2>3, <2>4, FocusFound
  <2>7. k \in 1 .. Len(Categories) /\ Len(Categories) \in Nat
    BY <2>4, <2>6 DEF Covers
  <2> HIDE DEF k
  <2>8. currentCategoryIndex' = k
    BY <2>5, <2>7 DEF FocusCategory
  <2>9. QED
    BY <2>6, <2>8 DEF y
<1>2. ViewInv => A
  BY <1>1
<1> HIDE DEF A
<1>3. ViewSpec => [][A]_viewVars
  BY <1>2, SpecViewInv, PTL
<1>4. QED
  BY <1>3 DEF FocusIsMiddle, A

================================================================================
