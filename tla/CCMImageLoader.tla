--------------------------- MODULE CCMImageLoader ---------------------------
(***************************************************************************)
(* Images loaded from the network, by way of the native side on Android,   *)
(* or from the resources (CCMLoader/CCMImageLoader.ts), with a time-out, a *)
(* component they are for and a cache of textures (CCMImageCache.ts).      *)
(*                                                                         *)
(* The calls of @downloadFile are those of CCMBinding, next to which the   *)
(* game has calls of its own.  The reactions of promises run before        *)
(* anything else does, and are part of the step that settles them.         *)
(*                                                                         *)
(* An operator named after a slip is the mutant of the definition below it. *)
(***************************************************************************)
EXTENDS CCMBinding, Sequences, FiniteSets

CONSTANTS Loads,      \* the loads of images, each a call on Android
          Remote,     \* the http(s) urls
          Local,      \* the paths in resources
          NotImages,  \* the urls of something else
          Textures,   \* what the engine may create
          Targets,    \* components
          None,
          Scenarios,  \* platform, calls and urls of a game
          MaxScenes

Urls == Remote \cup Local
Games == Calls \ Loads

ASSUME LoadsAssumption == Loads \subseteq Calls
ASSUME ImagesAssumption == NotImages \subseteq Urls
ASSUME ScenariosAssumption ==
    \A s \in Scenarios : s \in [platform : {"android", "ios", "other"},
                                calls : SUBSET Calls, urls : SUBSET Urls]
ASSUME NoneAssumption == None \notin Textures \cup Targets \cup Urls
ASSUME OutcomesAssumption ==
    (Textures \cup {None}) \cap {"error", "timeout", "target"} = {}

VARIABLES
    scenario,   \* the game
    req,        \* url, target and autoRelease of each load
    stage,      \* "none", "download", "engine" or "over"
    outcome,    \* None, a texture or why there is none
    raceTimers, \* the loads whose time-out runs
    loadedRes, cachedFileNames,   \* CCMImageCache
    made,       \* the url each texture was created from
    valid,      \* the textures that are not destroyed
    setting,    \* setAutoReleaseRecursively, for each url
    keepers,    \* the urls whose last answered load asked not to release them
    alive,      \* the targets that are not destroyed
    scenes

engine == <<made, valid, setting, keepers>>
cache == <<loadedRes, cachedFileNames>>
imageVars == <<scenario, req, stage, outcome, raceTimers, cache, engine, alive, scenes>>
vars == <<bindingVars, imageVars>>

Init ==
    /\ BindingInit
    /\ scenario \in Scenarios /\ platform = scenario.platform
    /\ req = [l \in Loads |-> None] /\ stage = [l \in Loads |-> "none"]
    /\ outcome = [l \in Loads |-> None] /\ raceTimers = {}
    /\ loadedRes = <<>> /\ cachedFileNames = {}
    /\ made = [x \in Textures |-> None] /\ valid = {}
    /\ setting = [u \in Urls |-> None] /\ keepers = {}
    /\ alive = Targets /\ scenes = 0

-----------------------------------------------------------------------------
(* CCMImageCache.                                                          *)

Exists(x) == made[x] # None
IsValid(x) == x \in valid

Items(u) == {i \in 1 .. Len(loadedRes) : loadedRes[i].key = u}

\* The items at the places to keep, in their order (the filter of an array).
Filtered(places) ==
    LET Place(k) == CHOOSE i \in places : Cardinality({j \in places : j <= i}) = k IN
    [k \in 1 .. Cardinality(places) |-> loadedRes[Place(k)]]

\* getImage: the items whose texture was destroyed are dropped, and the last of
\* the key is the answer.
Trimmed == Filtered({i \in 1 .. Len(loadedRes) : IsValid(loadedRes[i].tex)})
GetStale(u) == IF Items(u) = {} THEN None ELSE loadedRes[CHOOSE i \in Items(u) : TRUE].tex
GetImage(u) ==
    LET found == {i \in Items(u) : IsValid(loadedRes[i].tex)} IN
    IF found = {} THEN None
    ELSE loadedRes[CHOOSE i \in found : \A j \in found : j <= i].tex

\* saveTextureToMem: a key that was saved before replaces its item.
SaveAlways(u, x) ==
    /\ cachedFileNames' = cachedFileNames \cup {u}
    /\ loadedRes' = Append(loadedRes, [tex |-> x, key |-> u])
SaveTexture(u, x) ==
    /\ cachedFileNames' = cachedFileNames \cup {u}
    /\ loadedRes' = Append(IF u \in cachedFileNames
                           THEN Filtered((1 .. Len(loadedRes)) \ Items(u))
                           ELSE loadedRes,
                           [tex |-> x, key |-> u])

SetAutoRelease(u, release) == setting' = [setting EXCEPT ![u] = release]

-----------------------------------------------------------------------------
(* loadWithTimeout.                                                        *)

TargetIsValid(l) == req[l].target = None \/ req[l].target \in alive

\* A load that failed, and one that was answered, unless it timed out before.
Rejected(l, why) == IF TargetIsValid(l) THEN why ELSE "target"
Fulfilled(l, x) ==
    IF ~TargetIsValid(l) THEN "target"
    ELSE IF req[l].url \in NotImages THEN "error" ELSE x

Race(l, result) ==
    /\ outcome' = [outcome EXCEPT ![l] = IF @ = None THEN result ELSE @]
    /\ raceTimers' = raceTimers \ {l}

Fails(l) ==
    /\ stage' = [stage EXCEPT ![l] = "over"]
    /\ Race(l, Rejected(l, "error"))
    /\ UNCHANGED <<scenario, req, cache, engine, alive, scenes>>

LoadTimesOut(l) ==
    /\ l \in raceTimers
    /\ Race(l, Rejected(l, "timeout"))
    /\ UNCHANGED <<bindingVars, scenario, req, stage, cache, engine, alive, scenes>>

-----------------------------------------------------------------------------
(* loadImg.                                                                *)

Request(l, r) ==
    /\ stage[l] = "none"
    /\ req' = [req EXCEPT ![l] = r]
    /\ loadedRes' = Trimmed
    /\ UNCHANGED <<scenario, cachedFileNames, engine, alive, scenes>>

\* The texture in the cache is the answer, whatever became of the target.
LoadCached(l, r) ==
    /\ Request(l, r)
    /\ GetImage(r.url) # None
    /\ stage' = [stage EXCEPT ![l] = "over"]
    /\ outcome' = [outcome EXCEPT ![l] = GetImage(r.url)]
    /\ UNCHANGED <<bindingVars, raceTimers>>

StartUntimed(l) == raceTimers' = raceTimers
StartTimer(l) == raceTimers' = raceTimers \cup {l}

\* The engine loads resources, and remote images outside of the devices.
LoadByEngine(l, r) ==
    /\ Request(l, r)
    /\ GetImage(r.url) = None
    /\ r.url \in Local \/ platform = "other"
    /\ stage' = [stage EXCEPT ![l] = "engine"]
    /\ StartTimer(l)
    /\ UNCHANGED <<bindingVars, outcome>>

\* The native side of Android downloads the image first, if it has the method.
LoadByNative(l, r) ==
    /\ Request(l, r)
    /\ GetImage(r.url) = None
    /\ r.url \in Remote /\ platform = "android"
    /\ \/ /\ CallTaken(l, Default)
          /\ stage' = [stage EXCEPT ![l] = "download"]
          /\ StartTimer(l)
          /\ UNCHANGED outcome
       \/ /\ CallRefused(l, Default)
          /\ stage' = [stage EXCEPT ![l] = "over"]
          /\ outcome' = [outcome EXCEPT ![l] =
                           IF r.target \in {None} \cup alive THEN "error" ELSE "target"]
          /\ UNCHANGED raceTimers

\* IOSImageLoader is not implemented.
LoadOnIOS(l, r) ==
    /\ Request(l, r)
    /\ GetImage(r.url) = None
    /\ r.url \in Remote /\ platform = "ios"
    /\ stage' = [stage EXCEPT ![l] = "over"]
    /\ outcome' = [outcome EXCEPT ![l] =
                     IF r.target \in {None} \cup alive THEN "error" ELSE "target"]
    /\ UNCHANGED <<bindingVars, raceTimers>>

\* The download ends: with the file, which the engine is to load, or without.
Downloaded(l) ==
    /\ stage[l] = "download"
    /\ \/ /\ NativeResult(l, "resolved")
          /\ stage' = [stage EXCEPT ![l] = "engine"]
          /\ UNCHANGED <<scenario, req, outcome, raceTimers, cache, engine, alive, scenes>>
       \/ (NativeResult(l, "rejected") \/ CallTimesOut(l)) /\ Fails(l)

\* The engine has the texture: the one it has loaded, or a new one.
Answers(l) ==
    LET u == req[l].url
        loaded == {x \in valid : made[x] = u} IN
    /\ stage[l] = "engine"
    /\ \E x \in loaded \cup {x \in Textures : ~Exists(x)} :
         /\ loaded # {} /\ platform # "android" => x \in loaded
         /\ made' = [made EXCEPT ![x] = u]
         /\ valid' = valid \cup {x}
         /\ SaveTexture(u, x)
         /\ Race(l, Fulfilled(l, x))
    /\ SetAutoRelease(u, req[l].autoRelease)
    /\ keepers' = IF req[l].autoRelease THEN keepers \ {u} ELSE keepers \cup {u}
    /\ stage' = [stage EXCEPT ![l] = "over"]
    /\ UNCHANGED <<bindingVars, scenario, req, alive, scenes>>

AnswersError(l) ==
    /\ stage[l] = "engine"
    /\ Fails(l)
    /\ UNCHANGED bindingVars

-----------------------------------------------------------------------------
(* The rest of the game.                                                   *)

\* A scene goes, and with it components and textures that may be released.
SceneChange ==
    /\ scenes < MaxScenes
    /\ scenes' = scenes + 1
    /\ \E gone \in SUBSET alive : alive' = alive \ gone
    /\ \E gone \in SUBSET {x \in valid : setting[made[x]] # FALSE} : valid' = valid \ gone
    /\ UNCHANGED <<bindingVars, scenario, req, stage, outcome, raceTimers, cache, made, setting,
                   keepers>>

\* A call of the game's own, and the native side's part of it.
GameCall(c) ==
    /\ \/ \E o \in Options : CallTaken(c, o) \/ CallRefused(c, o)
       \/ NativeProgress(c)
       \/ \E how \in {"resolved", "rejected"} : NativeResult(c, how)
    /\ UNCHANGED imageVars

GameCallTimesOut(c) == CallTimesOut(c) /\ UNCHANGED imageVars

\* A download that nobody waits for any more is answered, too.
LateResult(l) ==
    /\ stage[l] = "over"
    /\ \E how \in {"resolved", "rejected"} : NativeResult(l, how)
    /\ UNCHANGED imageVars

Requests == [url : scenario.urls, target : Targets \cup {None}, autoRelease : BOOLEAN]

LoadImg(l) ==
    l \in scenario.calls /\ \E r \in Requests :
      LoadCached(l, r) \/ LoadByEngine(l, r) \/ LoadByNative(l, r) \/ LoadOnIOS(l, r)

Next ==
    \/ \E l \in Loads :
         \/ LoadImg(l) \/ LoadTimesOut(l)
         \/ Downloaded(l) \/ Answers(l) \/ AnswersError(l) \/ LateResult(l)
    \/ SceneChange
    \/ \E c \in Games \cap scenario.calls : GameCall(c) \/ GameCallTimesOut(c)

\* Timers fire; neither the engine nor the native side has to answer.
Fairness ==
    /\ \A l \in Loads : /\ WF_vars(LoadTimesOut(l))
                        /\ WF_vars(CallTimesOut(l) /\ stage[l] = "download" /\ Fails(l))
    /\ \A c \in Games : WF_vars(GameCallTimesOut(c))

Spec == Init /\ [][Next]_vars /\ Fairness

-----------------------------------------------------------------------------
(* Properties.                                                             *)

\* The cache has one item for a url, however often it was loaded at once, late or
\* again.
CacheIsUnique ==
    \A i, j \in 1 .. Len(loadedRes) : loadedRes[i].key = loadedRes[j].key => i = j

\* A texture that is handed out is not destroyed and was made from the url; if it
\* was not in the cache, it is an image and the target is still there.
HandedOutIsUsable ==
    [][\A l \in Loads :
         outcome[l] = None /\ outcome'[l] \in Textures =>
           /\ outcome'[l] \in valid' /\ made'[outcome'[l]] = req'[l].url
           /\ stage[l] # "none" => TargetIsValid(l) /\ req[l].url \notin NotImages]_vars

\* What was last loaded not to be released is in the cache (autoRelease: with
\* false, the next load of the url uses the cache).
KeptIsCached == \A u \in keepers : \E i \in Items(u) : IsValid(loadedRes[i].tex)

\* Every load is answered within its time-out, and its timer stopped.
LoadsSettle ==
    \A l \in Loads : req[l] # None ~> outcome[l] # None /\ l \notin raceTimers
=============================================================================
