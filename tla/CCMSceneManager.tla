--------------------------- MODULE CCMSceneManager ---------------------------
(***************************************************************************)
(* lib/CCMSceneManager/CCMSceneManager.ts: the back stack of scenes, the   *)
(* data handed from one scene to the next, the guard that lets one load    *)
(* through at a time and the timer that lifts it when the engine never     *)
(* answers.  A call the guard or an early return turns away (lines 90-93,  *)
(* 96-99, 121-124, 126-130) changes nothing and is no action here.         *)
(*                                                                         *)
(* cc.director is external: loadScene(name, onLaunched) answers whether it *)
(* took the request (line 174 uses it as a boolean) and calls onLaunched   *)
(* once the scene runs.  A load it took may also end without a call back,  *)
(* or stay in its slot for ever: the timer exists for that (line 263).     *)
(***************************************************************************)
EXTENDS Integers, Sequences, FiniteSetsExt

CONSTANTS
    Scenes,     \* scene names, the path already stripped (lines 104-105)
    Data,       \* values of options.data; NoData stands for undefined
    NoData,
    NoScene,    \* curSceneName before the first launch: undefined
    Timers,     \* identifiers setTimeout hands out
    NoTimer,    \* countDownTimer when it is null
    Slots,      \* loads the director carries at once (one slot in the engine)
    NoLoad,     \* an empty slot
    InitFirst,  \* the application calls init before it starts a scene
    MaxDepth    \* bound: no scene is started on a stack this deep

Modes == {"STANDARD", "SINGLE_TOP", "CLEAR_STACK", "TEMPORARY"}

ASSUME SentinelAssumption ==
    /\ NoScene \notin Scenes
    /\ NoTimer \notin Timers
    /\ NoData \in Data
    /\ NoLoad \notin [target : Scenes, mode : Modes \cup {"BACK"}, data : Data]
ASSUME TimersAssumption == Timers # {}
ASSUME SlotsAssumption == Slots # {}
ASSUME InitFirstAssumption == InitFirst \in BOOLEAN
ASSUME MaxDepthAssumption == MaxDepth \in Nat

VARIABLES
    sceneStack,     \* CCMScene[]: [sceneName, isTempScene], the last on top
    data,           \* what getSceneData answers
    curSceneName,
    isLoadingScene, \* the guard
    countDownTimer, \* handle of the last timer set
    timers,         \* external: timers set and neither fired nor cleared
    loads,          \* external: the loads the director has taken, by slot
    running,        \* external: the scene on screen
    launchData,     \* history: data of the request that launched running
    threw           \* history: a call back raised a TypeError

managerVars == <<sceneStack, data, curSceneName, isLoadingScene, countDownTimer>>
vars == <<managerVars, timers, loads, running, launchData, threw>>

Scene == [sceneName : Scenes, isTempScene : BOOLEAN]
Load == [target : Scenes, mode : Modes \cup {"BACK"}, data : Data]

TypeOK ==
    /\ sceneStack \in Seq(Scene)
    /\ data \in Data
    /\ curSceneName \in Scenes \cup {NoScene}
    /\ isLoadingScene \in BOOLEAN
    /\ countDownTimer \in Timers \cup {NoTimer}
    /\ timers \in SUBSET Timers
    /\ loads \in [Slots -> Load \cup {NoLoad}]
    /\ running \in Scenes
    /\ launchData \in Data
    /\ threw \in BOOLEAN

Init ==
    /\ sceneStack = <<>>
    /\ data = NoData
    /\ curSceneName = NoScene
    /\ isLoadingScene = FALSE
    /\ countDownTimer = NoTimer
    /\ timers = {}
    /\ loads = [l \in Slots |-> NoLoad]
    /\ running \in Scenes
    /\ launchData = NoData
    /\ threw = FALSE

-----------------------------------------------------------------------------
(* The stack.  An operator named after a slip (EntryBelowTop, ...) is the   *)
(* mutant of the definition that follows it.                                *)

Entry(name, temp) == [sceneName |-> name, isTempScene |-> temp]

\* How many entries a start leaves below the new one (handleStackByMode).
KeptByMode(stack, name, mode) ==
    CASE mode = "CLEAR_STACK" -> 0
      [] mode = "SINGLE_TOP" ->
            Min({i \in 1 .. Len(stack) : stack[i].sceneName = name}
                    \cup {Len(stack) + 1}) - 1
      [] OTHER -> Len(stack)

ClearStackPushesTemp(stack, name, mode) ==
    Append(SubSeq(stack, 1, KeptByMode(stack, name, mode)),
           Entry(name, mode \in {"TEMPORARY", "CLEAR_STACK"}))
HandleStackByMode(stack, name, mode) ==
    Append(SubSeq(stack, 1, KeptByMode(stack, name, mode)),
           Entry(name, mode = "TEMPORARY"))

\* The highest entry below the top that is not temporary, 0 when none is.
TopKept(stack) ==
    Max({i \in 1 .. Len(stack) - 1 : ~stack[i].isTempScene} \cup {0})

\* getBackSceneInfo: that entry, the bottom one when every one is temporary.
EntryBelowTop(stack) == stack[Len(stack) - 1]
BackSceneInfo(stack) == stack[Max({TopKept(stack), 1})]

\* handleBackSceneStack: pop, then pop while the top is temporary.  With no
\* other entry left, the stack ends empty and line 220 reads a property of
\* undefined: PopRaises.
PopOnlyTop(stack) == SubSeq(stack, 1, Len(stack) - 1)
HandleBackSceneStack(stack) == SubSeq(stack, 1, TopKept(stack))
PopRaises(stack) == TopKept(stack) = 0

-----------------------------------------------------------------------------
(* The timer of a load. *)

CancelCountDownTimer ==
    /\ timers' = timers \ {countDownTimer}
    /\ countDownTimer' = NoTimer

\* countDownLoadScene: clears the timer of an earlier load, then sets one.
SetWithoutCancel ==
    \E t \in Timers \ timers :
        /\ timers' = timers \cup {t}
        /\ countDownTimer' = t
CountDownLoadScene ==
    LET live == timers \ {countDownTimer}
    IN  \E t \in Timers \ live :
            /\ timers' = live \cup {t}
            /\ countDownTimer' = t

\* The call back of setTimeout.
TimeoutKeepsGuard(t) ==
    /\ t \in timers
    /\ timers' = timers \ {t, countDownTimer}
    /\ countDownTimer' = NoTimer
    /\ UNCHANGED <<sceneStack, data, curSceneName, isLoadingScene, loads,
                   running, launchData, threw>>
TimerFires(t) ==
    /\ t \in timers
    /\ timers' = timers \ {t, countDownTimer}
    /\ countDownTimer' = NoTimer
    /\ isLoadingScene' = FALSE
    /\ UNCHANGED <<sceneStack, data, curSceneName, loads, running, launchData,
                   threw>>

-----------------------------------------------------------------------------
(* The requests.  The director takes one into a free slot or refuses it: it *)
(* has none free, or does not know the scene.                               *)


\* doStartScene and doGoBackScene up to the answer of loadScene.
RequestLoad(name, mode, d) ==
    /\ data' = d
    /\ CountDownLoadScene
    /\ \/ \E l \in Slots :
            /\ loads[l] = NoLoad
            /\ loads' = [loads EXCEPT ![l] =
                            [target |-> name, mode |-> mode, data |-> d]]
            /\ isLoadingScene' = TRUE
       \/ /\ isLoadingScene' = FALSE
          /\ UNCHANGED loads
    /\ UNCHANGED <<sceneStack, curSceneName, running, launchData, threw>>

\* The application names the scene that was launched without the manager.
InitStack ==
    /\ sceneStack = <<>>
    /\ sceneStack' = <<Entry(running, FALSE)>>
    /\ UNCHANGED <<data, curSceneName, isLoadingScene, countDownTimer, timers,
                   loads, running, launchData, threw>>

StartScene(name, mode, d) ==
    /\ InitFirst => sceneStack # <<>>
    /\ Len(sceneStack) < MaxDepth
    /\ ~isLoadingScene
    /\ RequestLoad(name, mode, d)

BackScene(d) ==
    /\ ~isLoadingScene
    /\ Len(sceneStack) > 1
    /\ RequestLoad(BackSceneInfo(sceneStack).sceneName, "BACK", d)

-----------------------------------------------------------------------------
(* The director's answers. *)

\* What both call backs do besides the stack.
Launched(l) ==
    /\ isLoadingScene' = FALSE
    /\ CancelCountDownTimer
    /\ curSceneName' = loads[l].target
    /\ running' = loads[l].target
    /\ launchData' = loads[l].data
    /\ loads' = [loads EXCEPT ![l] = NoLoad]
    /\ UNCHANGED data

StartLaunched(l) ==
    /\ loads[l] # NoLoad
    /\ loads[l].mode # "BACK"
    /\ sceneStack' = HandleStackByMode(sceneStack, loads[l].target, loads[l].mode)
    /\ Launched(l)
    /\ UNCHANGED threw

BackLaunched(l) ==
    /\ loads[l] # NoLoad
    /\ loads[l].mode = "BACK"
    /\ sceneStack' = HandleBackSceneStack(sceneStack)
    /\ threw' = (threw \/ PopRaises(sceneStack))
    /\ Launched(l)

\* External: the load ends and its call back is never called.
LoadLost(l) ==
    /\ loads[l] # NoLoad
    /\ loads' = [loads EXCEPT ![l] = NoLoad]
    /\ UNCHANGED <<managerVars, timers, running, launchData, threw>>

-----------------------------------------------------------------------------
Next ==
    \/ InitStack
    \/ \E name \in Scenes, mode \in Modes, d \in Data : StartScene(name, mode, d)
    \/ \E d \in Data : BackScene(d)
    \/ \E l \in Slots : StartLaunched(l) \/ BackLaunched(l) \/ LoadLost(l)
    \/ \E t \in Timers : TimerFires(t)

\* setTimeout fires unless it is cleared.  The director owes no answer and
\* the application no call, so neither has fairness.
Spec == Init /\ [][Next]_vars /\ WF_vars(\E t \in Timers : TimerFires(t))

-----------------------------------------------------------------------------
(* Properties. *)

\* The top of the stack is the scene on screen, whatever calls were refused,
\* lost or timed out before: a call back works on the stack its request saw
\* (lines 173-183, 196-206).  Needs one slot.
TopIsRunning ==
    sceneStack # <<>> => sceneStack[Len(sceneStack)].sceneName = running

\* A back under way still loads the scene its call back will uncover: the
\* target was read from the stack at the request (line 132), the stack is
\* popped at the launch (lines 217-223).  Needs one slot.
BackTargetHolds ==
    \A l \in Slots :
        (loads[l] # NoLoad /\ loads[l].mode = "BACK") =>
            LET below == HandleBackSceneStack(sceneStack)
            IN  below # <<>> /\ below[Len(below)].sceneName = loads[l].target

\* With init called first and one slot, the bottom of the stack is never a
\* temporary scene, so handleBackSceneStack stops before the stack is empty
\* and its read of isTempScene (line 220) never raises.
HomeIsKept ==
    InitFirst => /\ ~threw
                 /\ sceneStack # <<>> => ~sceneStack[1].isTempScene

\* While the guard is up its own timer is running (line 265), so a load that
\* never answers cannot lock the manager.
LoadingHasTimer == isLoadingScene => countDownTimer \in timers

\* No timer but the tracked one is running: the timer of a refused, answered
\* or abandoned load never lifts the guard of a later one (lines 267, 275).
OnlyTrackedTimer == timers \subseteq {countDownTimer}

\* "prevents a load that hangs without a call back from stopping the manager
\* from starting another scene" (line 263).
GuardIsLifted == isLoadingScene ~> ~isLoadingScene

\* SINGLE_TOP (lines 239-250) leaves its scene on the stack exactly once, on
\* top, and every entry below it as it was.
SingleTopIsUnique ==
    [][\A l \in Slots :
         (loads[l] # NoLoad /\ loads[l].mode = "SINGLE_TOP" /\ StartLaunched(l)) =>
            /\ \A i \in 1 .. Len(sceneStack') - 1 :
                   /\ sceneStack'[i] = sceneStack[i]
                   /\ sceneStack'[i].sceneName # loads[l].target
            /\ \A i \in 1 .. Len(sceneStack) :
                   (\A j \in 1 .. i : sceneStack[j].sceneName # loads[l].target)
                       => i < Len(sceneStack')]_vars

\* getSceneData answers "the data the previous scene passed" (line 76): when
\* no load is under way, the data of the launch that brought up the scene.
DataIsOfLaunch == ~isLoadingScene => data = launchData

-----------------------------------------------------------------------------
(* The abstract specification. *)

Nav == INSTANCE SceneNavigation WITH history <- sceneStack, screen <- running

\* Every navigation the application sees is one step of SceneNavigation: a
\* request that is refused, lost or timed out changes neither the history nor
\* the screen, and a launch changes both at once (startScene and backScene,
\* lines 89-224).  Needs init first and one slot.
ImplementsNavigation == Nav!Spec

=============================================================================
