------------------------ MODULE CCMSceneManager_proofs ------------------------
(* What is proved of CCMSceneManager for every value of its constants. *)
EXTENDS CCMSceneManager, TLAPS, SequenceTheorems, WellFoundedInduction

-----------------------------------------------------------------------------
(* Bounded sets of integers have a largest and a smallest element. *)

\* A set of naturals has a smallest element.
LEMMA MinExists ==
    ASSUME NEW S \in SUBSET Nat, S # {}
    PROVE  Min(S) \in S /\ \A y \in S : Min(S) <= y
<1>1. \E x \in S : \A y \in S : ~(<<y, x>> \in OpToRel(<, Nat))
  BY NatLessThanWellFounded, WFMin
<1>2. ASSUME NEW x \in Nat, NEW y \in Nat, y < x
      PROVE  <<y, x>> \in OpToRel(<, Nat)
  BY <1>2 DEF OpToRel
<1>3. PICK x \in S : \A y \in S : ~(<<y, x>> \in OpToRel(<, Nat))
  BY <1>1
<1>4. \A y \in S : x <= y
  <2> TAKE y \in S
  <2>1. ~(y < x)
    BY <1>2, <1>3
  <2>2. QED
    BY <2>1
<1>5. QED
  BY <1>4 DEF Min

\* A bounded set of naturals has a largest element.
LEMMA MaxExists ==
    ASSUME NEW k \in Nat, NEW S \in SUBSET (0 .. k), S # {}
    PROVE  Max(S) \in S /\ \A y \in S : Max(S) >= y
<1> DEFINE T == {k - x : x \in S}
<1>1. T \in SUBSET Nat /\ T # {}
  <2>1. \A x \in S : x \in 0 .. k /\ k - x \in Nat
    OBVIOUS
  <2>2. QED
    BY <2>1
<1>2. PICK m \in T : \A y \in T : m <= y
  BY <1>1, MinExists
<1>3. PICK x \in S : m = k - x
  OBVIOUS
<1>4. \A y \in S : x >= y
  <2> TAKE y \in S
  <2>1. m <= k - y
    BY <1>2
  <2>2. QED
    BY <2>1, <1>3
<1>5. QED
  BY <1>4 DEF Max

-----------------------------------------------------------------------------
(* The operators on the stack. *)

\* TopKept is the place of an entry under the top that is not temporary, or 0.
LEMMA TopKeptProperties ==
    ASSUME NEW stack \in Seq(Scene)
    PROVE  /\ TopKept(stack) \in Nat
           /\ TopKept(stack) <= Len(stack)
           /\ TopKept(stack) > 0 =>
                /\ TopKept(stack) \in 1 .. Len(stack) - 1
                /\ ~stack[TopKept(stack)].isTempScene
           /\ \A i \in 1 .. Len(stack) - 1 :
                i > TopKept(stack) => stack[i].isTempScene
<1> DEFINE S == {i \in 1 .. Len(stack) - 1 : ~stack[i].isTempScene} \cup {0}
<1>1. S \in SUBSET (0 .. Len(stack)) /\ S # {} /\ Len(stack) \in Nat
  OBVIOUS
<1>2. Max(S) \in S /\ \A y \in S : Max(S) >= y
  BY <1>1, MaxExists
<1>3. TopKept(stack) = Max(S)
  BY DEF TopKept
<1> HIDE DEF S
<1>4. TopKept(stack) \in S /\ \A y \in S : TopKept(stack) >= y
  BY <1>2, <1>3
<1>5. QED
  <2>1. /\ TopKept(stack) \in 0 .. Len(stack)
        /\ TopKept(stack) > 0 => /\ TopKept(stack) \in 1 .. Len(stack) - 1
                                /\ ~stack[TopKept(stack)].isTempScene
    BY <1>1, <1>4 DEF S
  <2>2. ASSUME NEW i \in 1 .. Len(stack) - 1, i > TopKept(stack)
        PROVE  stack[i].isTempScene
    <3>1. i \notin S
      BY <1>4, <2>1, <2>2
    <3>2. QED
      BY <3>1 DEF S
  <2>3. QED
    BY <2>1, <2>2

\* BackSceneInfo is an entry of the stack, that at TopKept if there is one.
LEMMA BackSceneInfoProperties ==
    ASSUME NEW stack \in Seq(Scene), Len(stack) > 1
    PROVE  /\ BackSceneInfo(stack) \in Scene
           /\ TopKept(stack) > 0 => BackSceneInfo(stack) = stack[TopKept(stack)]
<1> DEFINE n == Max({TopKept(stack), 1})
<1>1. TopKept(stack) \in Nat /\ TopKept(stack) <= Len(stack)
  BY TopKeptProperties
<1>2. /\ Len(stack) \in Nat
      /\ {TopKept(stack), 1} \in SUBSET (0 .. Len(stack))
      /\ {TopKept(stack), 1} # {}
  BY <1>1
<1>3. n \in {TopKept(stack), 1} /\ \A y \in {TopKept(stack), 1} : n >= y
  BY <1>2, MaxExists
<1>4. n \in 1 .. Len(stack) /\ (TopKept(stack) > 0 => n = TopKept(stack))
  BY <1>1, <1>3
<1>5. BackSceneInfo(stack) = stack[n]
  BY DEF BackSceneInfo
<1>6. QED
  BY <1>4, <1>5

\* How many entries each launch mode keeps.
LEMMA KeptProperties ==
    ASSUME NEW stack \in Seq(Scene), NEW name \in Scenes, NEW mode \in Modes
    PROVE  /\ KeptByMode(stack, name, mode) \in 0 .. Len(stack)
           /\ mode = "CLEAR_STACK" => KeptByMode(stack, name, mode) = 0
           /\ mode \in {"STANDARD", "TEMPORARY"} =>
                KeptByMode(stack, name, mode) = Len(stack)
           /\ mode = "SINGLE_TOP" =>
                /\ \A i \in 1 .. KeptByMode(stack, name, mode) :
                        stack[i].sceneName # name
                /\ KeptByMode(stack, name, mode) < Len(stack) =>
                        stack[KeptByMode(stack, name, mode) + 1].sceneName = name
<1> DEFINE S == {i \in 1 .. Len(stack) : stack[i].sceneName = name}
                    \cup {Len(stack) + 1}
<1>1. CASE mode = "SINGLE_TOP"
  <2>1. S \in SUBSET Nat /\ S # {}
    OBVIOUS
  <2>2. Min(S) \in S /\ \A y \in S : Min(S) <= y
    BY <2>1, MinExists
  <2>3. KeptByMode(stack, name, mode) = Min(S) - 1
    BY <1>1 DEF KeptByMode
  <2> HIDE DEF S
  <2>4. PICK m \in S : m = Min(S)
    BY <2>2
  <2>5. /\ m \in 1 .. Len(stack) + 1
        /\ m <= Len(stack) => stack[m].sceneName = name
    BY <2>4 DEF S
  <2>6. \A i \in 1 .. m - 1 : stack[i].sceneName # name
    BY <2>2, <2>4, <2>5 DEF S
  <2>7. QED
    BY <1>1, <2>3, <2>4, <2>5, <2>6
<1>2. CASE mode # "SINGLE_TOP"
  BY <1>2 DEF KeptByMode, Modes
<1>3. QED
  BY <1>1, <1>2

\* A launch leaves the entries its mode keeps and puts the new one on top.
LEMMA StartStackProperties ==
    ASSUME NEW stack \in Seq(Scene), NEW name \in Scenes, NEW mode \in Modes
    PROVE  LET next == HandleStackByMode(stack, name, mode)
               n == KeptByMode(stack, name, mode)
           IN  /\ next \in Seq(Scene)
               /\ Len(next) = n + 1
               /\ next[n + 1] = Entry(name, mode = "TEMPORARY")
               /\ \A i \in 1 .. n : next[i] = stack[i]
<1> DEFINE n == KeptByMode(stack, name, mode)
           kept == SubSeq(stack, 1, n)
           top == Entry(name, mode = "TEMPORARY")
<1>1. n \in 0 .. Len(stack)
  BY KeptProperties
<1> HIDE DEF n
<1>2. /\ kept \in Seq(Scene)
      /\ Len(kept) = n
      /\ \A i \in 1 .. n : kept[i] = stack[i]
  BY <1>1
<1>3. top \in Scene
  BY DEF Entry, Scene
<1> HIDE DEF kept, top
<1>4. /\ Append(kept, top) \in Seq(Scene)
      /\ Len(Append(kept, top)) = n + 1
      /\ Append(kept, top)[n + 1] = top
      /\ \A i \in 1 .. n : Append(kept, top)[i] = stack[i]
  BY <1>1, <1>2, <1>3, AppendProperties
<1>5. HandleStackByMode(stack, name, mode) = Append(kept, top)
  BY DEF HandleStackByMode, kept, top, n
<1>6. QED
  BY <1>4, <1>5 DEF n, top

\* A back leaves the entries up to TopKept.
LEMMA BackStackProperties ==
    ASSUME NEW stack \in Seq(Scene)
    PROVE  LET next == HandleBackSceneStack(stack)
           IN  /\ next \in Seq(Scene)
               /\ Len(next) = TopKept(stack)
               /\ \A i \in 1 .. TopKept(stack) : next[i] = stack[i]
<1>1. TopKept(stack) \in 0 .. Len(stack)
  BY TopKeptProperties
<1>2. QED
  BY <1>1 DEF HandleBackSceneStack

-----------------------------------------------------------------------------
(* Types. *)

\* The variables have their types at first.
LEMMA TypeInit == Init => TypeOK
<1>1. <<>> \in Seq(Scene)
  OBVIOUS
<1>2. NoData \in Data
  BY SentinelAssumption DEF SentinelAssumption
<1>3. QED
  BY <1>1, <1>2 DEF Init, TypeOK

\* The variables keep their types.
LEMMA TypeStep == TypeOK /\ [Next]_vars => TypeOK'
<1> SUFFICES ASSUME TypeOK, [Next]_vars
             PROVE  TypeOK'
  OBVIOUS
<1>1. CASE InitStack
  BY <1>1 DEF TypeOK, InitStack, Entry, Scene
<1>2. ASSUME NEW name \in Scenes, NEW mode \in Modes \cup {"BACK"},
             NEW d \in Data, RequestLoad(name, mode, d)
      PROVE  TypeOK'
  <2>1. timers' \in SUBSET Timers /\ countDownTimer' \in Timers
    BY <1>2 DEF TypeOK, RequestLoad, CountDownLoadScene
  <2>2. [target |-> name, mode |-> mode, data |-> d] \in Load
    BY DEF Load
  <2>3. loads' \in [Slots -> Load \cup {NoLoad}] /\ isLoadingScene' \in BOOLEAN
    BY <1>2, <2>2 DEF TypeOK, RequestLoad
  <2>4. QED
    BY <1>2, <2>1, <2>3 DEF TypeOK, RequestLoad
<1>3. ASSUME NEW name \in Scenes, NEW mode \in Modes, NEW d \in Data,
             StartScene(name, mode, d)
      PROVE  TypeOK'
  BY <1>2, <1>3 DEF StartScene
<1>4. ASSUME NEW d \in Data, BackScene(d)
      PROVE  TypeOK'
  <2>1. BackSceneInfo(sceneStack) \in Scene
    BY <1>4, BackSceneInfoProperties DEF BackScene, TypeOK
  <2>2. BackSceneInfo(sceneStack).sceneName \in Scenes
    BY <2>1 DEF Scene
  <2>3. QED
    BY <1>2, <1>4, <2>2 DEF BackScene
<1>5. ASSUME NEW l \in Slots, loads[l] # NoLoad, Launched(l),
             sceneStack' \in Seq(Scene), threw' \in BOOLEAN
      PROVE  TypeOK'
  <2>1. loads[l] \in Load
    BY <1>5 DEF TypeOK
  <2>2. QED
    BY <1>5, <2>1 DEF TypeOK, Launched, CancelCountDownTimer, Load
<1>6. ASSUME NEW l \in Slots, StartLaunched(l)
      PROVE  TypeOK'
  <2>1. loads[l].target \in Scenes /\ loads[l].mode \in Modes
    BY <1>6 DEF TypeOK, StartLaunched, Load
  <2>2. sceneStack' \in Seq(Scene)
    BY <1>6, <2>1, StartStackProperties DEF TypeOK, StartLaunched
  <2>3. QED
    BY <1>5, <1>6, <2>2 DEF TypeOK, StartLaunched
<1>7. ASSUME NEW l \in Slots, BackLaunched(l)
      PROVE  TypeOK'
  <2>1. sceneStack' \in Seq(Scene)
    BY <1>7, BackStackProperties DEF TypeOK, BackLaunched
  <2>2. threw' \in BOOLEAN
    BY <1>7 DEF TypeOK, BackLaunched, PopRaises
  <2>3. QED
    BY <1>5, <1>7, <2>1, <2>2 DEF BackLaunched
<1>8. ASSUME NEW l \in Slots, LoadLost(l)
      PROVE  TypeOK'
  BY <1>8 DEF TypeOK, LoadLost, managerVars
<1>9. ASSUME NEW t \in Timers, TimerFires(t)
      PROVE  TypeOK'
  BY <1>9 DEF TypeOK, TimerFires
<1>10. CASE UNCHANGED vars
  BY <1>10 DEF TypeOK, vars, managerVars
<1>11. QED
  BY <1>1, <1>3, <1>4, <1>6, <1>7, <1>8, <1>9, <1>10 DEF Next

\* Every reachable state is of the types the fields declare: the stack stays
\* a sequence of entries whatever calls and answers interleave.
THEOREM TypeCorrect == Spec => []TypeOK
BY TypeInit, TypeStep, PTL DEF Spec

\* A launch in mode SINGLE_TOP (lines 239-250) leaves its scene on the stack once, on
\* top of what was below the first entry of it: of a load taken long ago as well, on
\* whatever the stack has become since, with and without init.
THEOREM SingleTopAlwaysUnique == Spec => SingleTopIsUnique
<1>1. TypeOK /\ [Next]_vars =>
        [\A l \in Slots :
           (loads[l] # NoLoad /\ loads[l].mode = "SINGLE_TOP" /\ StartLaunched(l)) =>
              /\ \A i \in 1 .. Len(sceneStack') - 1 :
                     /\ sceneStack'[i] = sceneStack[i]
                     /\ sceneStack'[i].sceneName # loads[l].target
              /\ \A i \in 1 .. Len(sceneStack) :
                     (\A j \in 1 .. i : sceneStack[j].sceneName # loads[l].target)
                         => i < Len(sceneStack')]_vars
  <2>1. SUFFICES ASSUME TypeOK, NEW l \in Slots, loads[l] # NoLoad,
                        loads[l].mode = "SINGLE_TOP", StartLaunched(l)
                 PROVE  /\ \A i \in 1 .. Len(sceneStack') - 1 :
                               /\ sceneStack'[i] = sceneStack[i]
                               /\ sceneStack'[i].sceneName # loads[l].target
                        /\ \A i \in 1 .. Len(sceneStack) :
                               (\A j \in 1 .. i : sceneStack[j].sceneName # loads[l].target)
                                   => i < Len(sceneStack')
    OBVIOUS
  <2> DEFINE name == loads[l].target
             n == KeptByMode(sceneStack, name, "SINGLE_TOP")
  <2>2. sceneStack \in Seq(Scene) /\ name \in Scenes /\ "SINGLE_TOP" \in Modes
    <3>1. loads[l] \in Load
      BY <2>1 DEF TypeOK
    <3>2. QED
      BY <2>1, <3>1 DEF TypeOK, Load, Modes
  <2>3. /\ n \in 0 .. Len(sceneStack)
        /\ \A i \in 1 .. n : sceneStack[i].sceneName # name
        /\ n < Len(sceneStack) => sceneStack[n + 1].sceneName = name
    BY <2>2, KeptProperties
  <2>4. sceneStack' = HandleStackByMode(sceneStack, name, "SINGLE_TOP")
    BY <2>1 DEF StartLaunched
  <2>5. Len(sceneStack') = n + 1 /\ \A i \in 1 .. n : sceneStack'[i] = sceneStack[i]
    BY <2>2, <2>4, StartStackProperties
  <2>6. Len(sceneStack) \in Nat
    BY <2>2
  <2>7. ASSUME NEW i \in 1 .. Len(sceneStack),
               \A j \in 1 .. i : sceneStack[j].sceneName # name
        PROVE  i <= n
    <3>1. CASE n + 1 <= i
      BY <2>3, <2>6, <2>7, <3>1
    <3>2. QED
      BY <2>3, <2>6, <3>1
  <2>8. QED
    BY <2>3, <2>5, <2>6, <2>7
<1>2. QED
  BY <1>1, TypeCorrect, PTL DEF Spec, SingleTopIsUnique

-----------------------------------------------------------------------------
(* The timer, whatever number of loads the director carries. *)

TimerInv == LoadingHasTimer /\ OnlyTrackedTimer

\* The guard never outlives its timer and no stray timer exists, for any
\* number of overlapping, refused, lost and late loads.
THEOREM TimerGuards == Spec => []TimerInv
<1>1. Init => TimerInv
  BY DEF Init, TimerInv, LoadingHasTimer, OnlyTrackedTimer
<1>2. TimerInv /\ [Next]_vars => TimerInv'
  <2> SUFFICES ASSUME TimerInv, [Next]_vars
               PROVE  TimerInv'
    OBVIOUS
  <2> USE DEF TimerInv, LoadingHasTimer, OnlyTrackedTimer
  <2>1. CASE InitStack
    BY <2>1 DEF InitStack
  <2>2. ASSUME NEW name, NEW mode, NEW d, RequestLoad(name, mode, d)
        PROVE  TimerInv'
    <3>1. PICK t \in Timers : /\ timers' = (timers \ {countDownTimer}) \cup {t}
                              /\ countDownTimer' = t
      BY <2>2 DEF RequestLoad, CountDownLoadScene
    <3>2. QED
      BY <3>1
  <2>3. ASSUME NEW name \in Scenes, NEW mode \in Modes, NEW d \in Data,
               StartScene(name, mode, d)
        PROVE  TimerInv'
    BY <2>2, <2>3 DEF StartScene
  <2>4. ASSUME NEW d \in Data, BackScene(d)
        PROVE  TimerInv'
    BY <2>2, <2>4 DEF BackScene
  <2>5. ASSUME NEW l \in Slots, StartLaunched(l) \/ BackLaunched(l)
        PROVE  TimerInv'
    BY <2>5 DEF StartLaunched, BackLaunched, Launched, CancelCountDownTimer
  <2>6. ASSUME NEW l \in Slots, LoadLost(l)
        PROVE  TimerInv'
    BY <2>6 DEF LoadLost, managerVars
  <2>7. ASSUME NEW t \in Timers, TimerFires(t)
        PROVE  TimerInv'
    BY <2>7 DEF TimerFires
  <2>8. CASE UNCHANGED vars
    BY <2>8 DEF vars, managerVars
  <2>9. QED
    BY <2>1, <2>3, <2>4, <2>5, <2>6, <2>7, <2>8 DEF Next
<1>3. QED
  BY <1>1, <1>2, PTL DEF Spec

\* No timer runs but the one the manager keeps and can cancel (countDownLoadScene,
\* cancelCountDownTimer): none is left to lift the guard of a later load early.
THEOREM OnlyTrackedTimerRuns == Spec => []OnlyTrackedTimer
<1>1. TimerInv => OnlyTrackedTimer
  BY DEF TimerInv
<1>2. QED
  BY <1>1, TimerGuards, PTL

-----------------------------------------------------------------------------
(* The history, when init comes first and the director carries one load.    *)

OneSlot == \A k, l \in Slots : k = l

\* Init is called before the first start, so no load is under way while the
\* stack is empty: a temporary scene is never launched to the bottom.
LoadsAfterInit == \A l \in Slots : loads[l] # NoLoad => sceneStack # <<>>

NavInv ==
    /\ TypeOK
    /\ TopIsRunning
    /\ BackTargetHolds
    /\ HomeIsKept
    /\ LoadsAfterInit

\* From a stack whose bottom is kept, a back lands on the entry it read.
LEMMA BackLandsOnTarget ==
    ASSUME NEW stack \in Seq(Scene), Len(stack) > 1, ~stack[1].isTempScene
    PROVE  /\ TopKept(stack) \in 1 .. Len(stack) - 1
           /\ HandleBackSceneStack(stack) \in Seq(Scene)
           /\ Len(HandleBackSceneStack(stack)) = TopKept(stack)
           /\ HandleBackSceneStack(stack)[TopKept(stack)] = BackSceneInfo(stack)
<1>1. TopKept(stack) > 0
  <2>1. 1 \in 1 .. Len(stack) - 1
    OBVIOUS
  <2>2. TopKept(stack) \in Nat
    BY TopKeptProperties
  <2>3. QED
    BY <2>1, <2>2, TopKeptProperties
<1>2. TopKept(stack) \in 1 .. Len(stack) - 1
  BY <1>1, TopKeptProperties
<1>3. QED
  BY <1>1, <1>2, BackStackProperties, BackSceneInfoProperties

\* The invariant of the navigation holds at first.
LEMMA NavInit == Init => NavInv
<1> SUFFICES ASSUME Init PROVE NavInv
  OBVIOUS
<1>1. TypeOK
  BY TypeInit
<1>2. QED
  BY <1>1 DEF Init, NavInv, TopIsRunning, BackTargetHolds, HomeIsKept,
              LoadsAfterInit

\* Every step keeps the invariant of the navigation, when init comes first and the
\* director carries one load.
LEMMA NavStep ==
    ASSUME InitFirst, OneSlot, NavInv, [Next]_vars
    PROVE  NavInv'
<1> USE DEF NavInv
<1>1. TypeOK'
  BY TypeStep
<1>2. CASE InitStack
  <2>1. \A l \in Slots : loads'[l] = NoLoad
    BY <1>2 DEF InitStack, LoadsAfterInit
  <2>2. QED
    BY <1>1, <1>2, <2>1
       DEF InitStack, TopIsRunning, BackTargetHolds, HomeIsKept, Entry,
           LoadsAfterInit
<1>3. ASSUME NEW name \in Scenes, NEW mode \in Modes, NEW d \in Data,
             StartScene(name, mode, d)
      PROVE  NavInv'
  <2>1. UNCHANGED <<sceneStack, running, threw>> /\ sceneStack # <<>>
    BY <1>3 DEF StartScene, RequestLoad
  <2>2. \A l \in Slots : \/ loads'[l] = loads[l]
                         \/ loads'[l].mode = mode
    BY <1>3 DEF StartScene, RequestLoad, TypeOK
  <2>3. mode # "BACK"
    BY DEF Modes
  <2>4. BackTargetHolds'
    BY <2>1, <2>2, <2>3 DEF BackTargetHolds
  <2>5. QED
    BY <1>1, <2>1, <2>4 DEF TopIsRunning, HomeIsKept, LoadsAfterInit
<1>4. ASSUME NEW d \in Data, BackScene(d)
      PROVE  NavInv'
  <2> DEFINE info == BackSceneInfo(sceneStack)
             below == HandleBackSceneStack(sceneStack)
  <2>1. sceneStack \in Seq(Scene) /\ Len(sceneStack) > 1
    BY <1>4 DEF BackScene, TypeOK
  <2>2. sceneStack # <<>> /\ ~sceneStack[1].isTempScene
    BY <2>1 DEF HomeIsKept
  <2>3. below # <<>> /\ below[Len(below)] = info
    BY <2>1, <2>2, BackLandsOnTarget
  <2>4. UNCHANGED <<sceneStack, running, threw>>
    BY <1>4 DEF BackScene, RequestLoad
  <2>5. \A l \in Slots : \/ loads'[l] = loads[l]
                         \/ loads'[l].target = info.sceneName
    BY <1>4 DEF BackScene, RequestLoad, TypeOK
  <2> HIDE DEF info, below
  <2>6. BackTargetHolds'
    BY <2>3, <2>4, <2>5 DEF BackTargetHolds, below
  <2>7. QED
    BY <1>1, <2>2, <2>4, <2>6 DEF TopIsRunning, HomeIsKept, LoadsAfterInit
<1>5. ASSUME NEW l \in Slots, loads[l] # NoLoad, Launched(l)
      PROVE  \A k \in Slots : loads'[k] = NoLoad
  BY <1>5 DEF Launched, OneSlot, TypeOK
<1>6. ASSUME NEW l \in Slots, StartLaunched(l)
      PROVE  NavInv'
  <2> DEFINE name == loads[l].target
             mode == loads[l].mode
             n == KeptByMode(sceneStack, name, mode)
  <2>1. sceneStack \in Seq(Scene) /\ name \in Scenes /\ mode \in Modes
    BY <1>6 DEF StartLaunched, TypeOK, Load
  <2>2. /\ n \in 0 .. Len(sceneStack)
        /\ mode = "TEMPORARY" => n = Len(sceneStack)
    BY <2>1, KeptProperties
  <2>3. /\ sceneStack' \in Seq(Scene)
        /\ Len(sceneStack') = n + 1
        /\ sceneStack'[n + 1] = Entry(name, mode = "TEMPORARY")
        /\ \A i \in 1 .. n : sceneStack'[i] = sceneStack[i]
    BY <1>6, <2>1, StartStackProperties DEF StartLaunched
  <2>4. running' = name /\ threw' = threw
    BY <1>6 DEF StartLaunched, Launched
  <2>5. \A k \in Slots : loads'[k] = NoLoad
    BY <1>5, <1>6 DEF StartLaunched
  <2>6. sceneStack # <<>> /\ ~sceneStack[1].isTempScene /\ ~threw
    BY <1>6 DEF StartLaunched, HomeIsKept, LoadsAfterInit
  <2> HIDE DEF name, mode, n
  <2>7. TopIsRunning'
    BY <2>2, <2>3, <2>4 DEF TopIsRunning, Entry
  <2>8. ~sceneStack'[1].isTempScene
    <3>1. CASE n = 0
      <4>1. Len(sceneStack) > 0
        BY <2>1, <2>6
      <4>2. mode # "TEMPORARY"
        BY <2>2, <3>1, <4>1
      <4>3. sceneStack'[1] = Entry(name, mode = "TEMPORARY")
        BY <2>3, <3>1
      <4>4. Entry(name, mode = "TEMPORARY").isTempScene = (mode = "TEMPORARY")
        BY Zenon DEF Entry
      <4>5. QED
        BY <4>2, <4>3, <4>4
    <3>2. CASE n > 0
      BY <2>2, <2>3, <2>6, <3>2
    <3>3. QED
      BY <2>2, <3>1, <3>2
  <2>9. QED
    BY <1>1, <2>4, <2>5, <2>6, <2>7, <2>8
       DEF HomeIsKept, BackTargetHolds, LoadsAfterInit
<1>7. ASSUME NEW l \in Slots, BackLaunched(l)
      PROVE  NavInv'
  <2> DEFINE n == TopKept(sceneStack)
  <2>1. sceneStack \in Seq(Scene) /\ n \in Nat
    BY TopKeptProperties DEF TypeOK
  <2>2. /\ sceneStack' \in Seq(Scene)
        /\ Len(sceneStack') = n
        /\ \A i \in 1 .. n : sceneStack'[i] = sceneStack[i]
    BY <1>7, <2>1, BackStackProperties DEF BackLaunched
  <2>3. sceneStack' # <<>> /\ sceneStack'[n].sceneName = loads[l].target
    <3>1. sceneStack' = HandleBackSceneStack(sceneStack)
      BY <1>7 DEF BackLaunched
    <3>2. /\ sceneStack' # <<>>
          /\ sceneStack'[Len(sceneStack')].sceneName = loads[l].target
      BY <1>7, <3>1 DEF BackLaunched, BackTargetHolds
    <3>3. QED
      BY <2>2, <3>2
  <2>4. running' = loads[l].target /\ threw' = (threw \/ n = 0)
    BY <1>7 DEF BackLaunched, Launched, PopRaises
  <2>5. \A k \in Slots : loads'[k] = NoLoad
    BY <1>5, <1>7 DEF BackLaunched
  <2> HIDE DEF n
  <2>6. n > 0
    BY <2>1, <2>2, <2>3
  <2>7. sceneStack'[1] = sceneStack[1] /\ sceneStack # <<>>
    BY <1>7, <2>1, <2>2, <2>6 DEF BackLaunched, LoadsAfterInit
  <2>8. HomeIsKept'
    <3>1. ~threw /\ ~sceneStack[1].isTempScene
      BY <2>7 DEF HomeIsKept
    <3>2. n # 0
      BY <2>1, <2>6
    <3>3. ~threw'
      BY <2>4, <3>1, <3>2
    <3>4. QED
      BY <2>7, <3>1, <3>3 DEF HomeIsKept
  <2>9. QED
    BY <1>1, <2>2, <2>3, <2>4, <2>5, <2>8
       DEF TopIsRunning, BackTargetHolds, LoadsAfterInit
<1>8. ASSUME NEW l \in Slots, LoadLost(l)
      PROVE  NavInv'
  <2>1. /\ UNCHANGED <<sceneStack, running, threw>>
        /\ \A k \in Slots : loads'[k] \in {loads[k], NoLoad}
    BY <1>8 DEF LoadLost, managerVars, TypeOK
  <2>2. QED
    BY <1>1, <2>1 DEF TopIsRunning, BackTargetHolds, HomeIsKept, LoadsAfterInit
<1>9. ASSUME NEW t \in Timers, TimerFires(t)
      PROVE  NavInv'
  BY <1>1, <1>9
     DEF TimerFires, TopIsRunning, BackTargetHolds, HomeIsKept, LoadsAfterInit
<1>10. CASE UNCHANGED vars
  BY <1>1, <1>10
     DEF vars, managerVars, TopIsRunning, BackTargetHolds, HomeIsKept,
         LoadsAfterInit
<1>11. QED
  BY <1>2, <1>3, <1>4, <1>6, <1>7, <1>8, <1>9, <1>10 DEF Next

\* The scene on screen is the top of the stack, whatever was refused, lost or
\* timed out on the way.
THEOREM TopAlwaysRunning ==
    ASSUME InitFirst, OneSlot PROVE Spec => []TopIsRunning
<1>1. NavInv => TopIsRunning
  BY DEF NavInv
<1>2. QED
  BY <1>1, NavInit, NavStep, PTL DEF Spec

\* The scene a back loads is the one its launch will find on top.
THEOREM BackTargetAlwaysHolds ==
    ASSUME InitFirst, OneSlot PROVE Spec => []BackTargetHolds
<1>1. NavInv => BackTargetHolds
  BY DEF NavInv
<1>2. QED
  BY <1>1, NavInit, NavStep, PTL DEF Spec

\* No call back ever runs the stack empty (line 220 never raises).
THEOREM HomeAlwaysKept ==
    ASSUME InitFirst, OneSlot PROVE Spec => []HomeIsKept
<1>1. NavInv => HomeIsKept
  BY DEF NavInv
<1>2. QED
  BY <1>1, NavInit, NavStep, PTL DEF Spec

-----------------------------------------------------------------------------
(* Refinement of SceneNavigation. *)

\* The call back of a launch is one step forward of the navigation.
LEMMA StartIsGo ==
    ASSUME NavInv, NEW l \in Slots, StartLaunched(l)
    PROVE  Nav!Go(loads[l].target) /\ loads[l].target \in Scenes
<1> DEFINE name == loads[l].target
           mode == loads[l].mode
           n == KeptByMode(sceneStack, name, mode)
<1>1. sceneStack \in Seq(Scene) /\ name \in Scenes /\ mode \in Modes
  BY DEF NavInv, StartLaunched, TypeOK, Load
<1>2. sceneStack # <<>>
  BY DEF NavInv, StartLaunched, LoadsAfterInit
<1>3. /\ sceneStack' = Append(SubSeq(sceneStack, 1, n),
                              Entry(name, mode = "TEMPORARY"))
      /\ running' = name
  BY DEF StartLaunched, Launched, HandleStackByMode
<1>4. /\ n \in 0 .. Len(sceneStack)
      /\ mode = "CLEAR_STACK" => n = 0
      /\ mode \in {"STANDARD", "TEMPORARY"} => n = Len(sceneStack)
      /\ mode = "SINGLE_TOP" =>
            /\ \A i \in 1 .. n : sceneStack[i].sceneName # name
            /\ n < Len(sceneStack) => sceneStack[n + 1].sceneName = name
  BY <1>1, KeptProperties
<1> HIDE DEF name, mode, n
<1>5. CASE mode = "TEMPORARY"
  <2>1. (mode = "TEMPORARY") = TRUE
    BY <1>5
  <2>2. Nav!Temporary(name)
    BY <1>3, <1>4, <1>5, <2>1
       DEF Nav!Temporary, Nav!VisitAbove, Nav!Depth, Entry
  <2>3. QED
    BY <1>1, <1>2, <2>2 DEF Nav!Go, name
<1>6. CASE mode # "TEMPORARY"
  <2>1. (mode = "TEMPORARY") = FALSE
    BY <1>6
  <2>2. Nav!VisitAbove(n, name, FALSE)
    BY <1>3, <2>1 DEF Nav!VisitAbove, Entry
  <2>3. CASE mode = "STANDARD"
    BY <1>1, <1>2, <1>4, <2>2, <2>3 DEF Nav!Go, Nav!Standard, Nav!Depth, name
  <2>4. CASE mode = "CLEAR_STACK"
    BY <1>1, <1>2, <1>4, <2>2, <2>4 DEF Nav!Go, Nav!ClearStack, name
  <2>5. CASE mode = "SINGLE_TOP"
    <3>1. Nav!SingleTop(name)
      BY <1>4, <2>2, <2>5 DEF Nav!SingleTop, Nav!Depth
    <3>2. QED
      BY <1>1, <1>2, <3>1 DEF Nav!Go, name
  <2>6. QED
    BY <1>1, <1>6, <2>3, <2>4, <2>5 DEF Modes
<1>7. QED
  BY <1>5, <1>6

\* The call back of a back is one step back of the navigation.
LEMMA BackIsBack ==
    ASSUME NavInv, NEW l \in Slots, BackLaunched(l)
    PROVE  Nav!Back
<1> DEFINE n == TopKept(sceneStack)
<1>1. sceneStack \in Seq(Scene)
  BY DEF NavInv, TypeOK
<1>2. /\ sceneStack' = HandleBackSceneStack(sceneStack)
      /\ sceneStack' = SubSeq(sceneStack, 1, n)
      /\ running' = loads[l].target
  BY DEF BackLaunched, Launched, HandleBackSceneStack
<1>3. /\ sceneStack' \in Seq(Scene)
      /\ Len(sceneStack') = n
      /\ \A i \in 1 .. n : sceneStack'[i] = sceneStack[i]
  BY <1>1, <1>2, BackStackProperties
<1>4. /\ sceneStack' # <<>>
      /\ sceneStack'[Len(sceneStack')].sceneName = loads[l].target
  BY <1>2 DEF NavInv, BackLaunched, BackTargetHolds
<1>5. /\ n \in Nat
      /\ n > 0 => /\ n \in 1 .. Len(sceneStack) - 1
                  /\ ~sceneStack[n].isTempScene
      /\ \A i \in 1 .. Len(sceneStack) - 1 :
            i > n => sceneStack[i].isTempScene
  BY <1>1, TopKeptProperties
<1> HIDE DEF n
<1>6. n > 0
  BY <1>3, <1>4, <1>5
<1>7. running' = sceneStack[n].sceneName
  BY <1>2, <1>3, <1>4, <1>5, <1>6
<1>8. \A i \in n + 1 .. Len(sceneStack) - 1 : sceneStack[i].isTempScene
  BY <1>1, <1>5
<1>9. QED
  BY <1>2, <1>5, <1>6, <1>7, <1>8 DEF Nav!Back, Nav!Depth

\* Every step is a step of the navigation or leaves it alone.
LEMMA NavigationStep ==
    ASSUME NavInv, [Next]_vars
    PROVE  [Nav!Next]_(Nav!nav)
<1>1. CASE InitStack
  BY <1>1 DEF InitStack, Entry, Nav!Next, Nav!Home
<1>2. ASSUME NEW name, NEW mode, NEW d, RequestLoad(name, mode, d)
      PROVE  UNCHANGED Nav!nav
  BY <1>2 DEF RequestLoad, Nav!nav
<1>3. ASSUME NEW name \in Scenes, NEW mode \in Modes, NEW d \in Data,
             StartScene(name, mode, d)
      PROVE  UNCHANGED Nav!nav
  BY <1>2, <1>3 DEF StartScene
<1>4. ASSUME NEW d \in Data, BackScene(d)
      PROVE  UNCHANGED Nav!nav
  BY <1>2, <1>4 DEF BackScene
<1>5. ASSUME NEW l \in Slots, StartLaunched(l)
      PROVE  Nav!Next
  BY <1>5, StartIsGo DEF Nav!Next
<1>6. ASSUME NEW l \in Slots, BackLaunched(l)
      PROVE  Nav!Next
  BY <1>6, BackIsBack DEF Nav!Next
<1>7. ASSUME NEW l \in Slots, LoadLost(l)
      PROVE  UNCHANGED Nav!nav
  BY <1>7 DEF LoadLost, managerVars, Nav!nav
<1>8. ASSUME NEW t \in Timers, TimerFires(t)
      PROVE  UNCHANGED Nav!nav
  BY <1>8 DEF TimerFires, Nav!nav
<1>9. CASE UNCHANGED vars
  BY <1>9 DEF vars, managerVars, Nav!nav
<1>10. QED
  BY <1>1, <1>3, <1>4, <1>5, <1>6, <1>7, <1>8, <1>9 DEF Next

\* The manager implements SceneNavigation: a launch is one navigation of the
\* history with the screen, everything else is invisible.
THEOREM Refinement ==
    ASSUME InitFirst, OneSlot PROVE Spec => ImplementsNavigation
<1>1. Init => Nav!Init
  BY DEF Init, Nav!Init
<1>2. QED
  BY <1>1, NavInit, NavStep, NavigationStep, PTL
     DEF Spec, ImplementsNavigation, Nav!Spec

=============================================================================
