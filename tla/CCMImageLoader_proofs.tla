------------------------ MODULE CCMImageLoader_proofs ------------------------
(* The theorems about CCMImageLoader and the calls of CCMBinding it makes,   *)
(* for every set of calls, loads, textures and scenarios: a settled call     *)
(* hears of no more progress; the cache has one item for a url and keeps     *)
(* what was asked to stay; a texture that is handed out is usable.           *)
EXTENDS CCMImageLoader, FiniteSetTheorems, TLAPS

\* The steps of CCMImageLoader as the binding sees them.
BindingNext ==
    \E c \in Calls :
      \/ \E o \in Options : CallTaken(c, o) \/ CallRefused(c, o)
      \/ CallTimesOut(c)
      \/ NativeProgress(c)
      \/ \E how \in {"resolved", "rejected"} : NativeResult(c, how)

BindingType ==
    /\ promise \in [Calls -> {"none", "pending", "resolved", "rejected"}]
    /\ native \in [Calls -> {"idle", "running", "done"}]
    /\ heard \in [Calls -> Nat]

(***************************************************************************)
(* Whoever can still be told of progress is pending.  It is the call back  *)
(* for progress that stays behind on window: a refused call without        *)
(* hasCallback leaves it there with its promise rejected, which does no    *)
(* harm as the native side never ran it.                                   *)
(***************************************************************************)
ProgressIsWanted ==
    \A c \in Calls :
      native[c] = "running" =>
        /\ promise[c] # "none"
        /\ c \in progressCbs => promise[c] = "pending"

BindingInv == BindingType /\ ProgressIsWanted

\* No step of the image loader touches the calls but by way of callNativeMethod,
\* its timer and the native side's answers.
LEMMA StepsOfBinding == [Next]_vars => [BindingNext]_bindingVars
<1> SUFFICES ASSUME [Next]_vars
             PROVE  [BindingNext]_bindingVars
  OBVIOUS
<1> USE DEF BindingNext
<1>1. Loads \subseteq Calls /\ Games \subseteq Calls /\ Default \in Options
  BY LoadsAssumption DEF Games, Default, Options
<1>2. CASE UNCHANGED vars
  BY <1>2 DEF vars
<1>3. ASSUME NEW l \in Loads, LoadImg(l)
      PROVE  [BindingNext]_bindingVars
  <2>1. PICK r \in Requests :
          LoadCached(l, r) \/ LoadByEngine(l, r) \/ LoadByNative(l, r) \/ LoadOnIOS(l, r)
    BY <1>3 DEF LoadImg
  <2>2. CASE LoadByNative(l, r)
    BY <1>1, <2>2 DEF LoadByNative
  <2>3. CASE LoadCached(l, r) \/ LoadByEngine(l, r) \/ LoadOnIOS(l, r)
    BY <2>3 DEF LoadCached, LoadByEngine, LoadOnIOS
  <2>4. QED
    BY <2>1, <2>2, <2>3
<1>4. ASSUME NEW l \in Loads, LoadTimesOut(l) \/ Answers(l) \/ AnswersError(l)
      PROVE  [BindingNext]_bindingVars
  BY <1>4 DEF LoadTimesOut, Answers, AnswersError
<1>5. ASSUME NEW l \in Loads, Downloaded(l) \/ LateResult(l)
      PROVE  [BindingNext]_bindingVars
  BY <1>1, <1>5 DEF Downloaded, LateResult
<1>6. CASE SceneChange
  BY <1>6 DEF SceneChange
<1>7. ASSUME NEW c \in Games, GameCall(c) \/ GameCallTimesOut(c)
      PROVE  [BindingNext]_bindingVars
  BY <1>1, <1>7 DEF GameCall, GameCallTimesOut
<1>8. QED
  BY <1>2, <1>3, <1>4, <1>5, <1>6, <1>7 DEF Next

\* BindingInv holds at first.
LEMMA BindingInvInit == Init => BindingInv
BY DEF Init, BindingInit, BindingInv, BindingType, ProgressIsWanted

\* Every step of the binding keeps BindingInv, and lets only those hear of
\* progress who are pending.
LEMMA BindingInvStep ==
    ASSUME BindingInv, [BindingNext]_bindingVars
    PROVE  /\ BindingInv'
           /\ \A c \in Calls : heard'[c] # heard[c] => promise[c] = "pending"
<1> USE DEF BindingInv, BindingType, ProgressIsWanted
<1>1. CASE UNCHANGED bindingVars
  BY <1>1 DEF bindingVars, window
<1>2. ASSUME NEW c \in Calls, NEW o \in Options, CallTaken(c, o)
      PROVE  BindingInv' /\ heard' = heard
  BY <1>2 DEF CallTaken, Registered, window
<1>3. ASSUME NEW c \in Calls, NEW o \in Options, CallRefused(c, o)
      PROVE  BindingInv' /\ heard' = heard
  BY <1>3 DEF CallRefused, Registered, window
<1>4. ASSUME NEW c \in Calls, CallTimesOut(c)
      PROVE  BindingInv' /\ heard' = heard
  BY <1>4 DEF CallTimesOut, ClearCallback, Settle, window
<1>5. ASSUME NEW c \in Calls, NEW how \in {"resolved", "rejected"}, NativeResult(c, how)
      PROVE  BindingInv' /\ heard' = heard
  BY <1>5 DEF NativeResult, ClearCallback, Settle, window
<1>6. ASSUME NEW c \in Calls, NativeProgress(c)
      PROVE  /\ BindingInv'
             /\ \A d \in Calls : heard'[d] # heard[d] => promise[d] = "pending"
  BY <1>6 DEF NativeProgress, window
<1>7. QED
  BY <1>1, <1>2, <1>3, <1>4, <1>5, <1>6 DEF BindingNext, bindingVars

\* Every call that can be told of progress is pending (CCMBinding.ts: the answer and
\* the time-out take both functions from window at once).
THEOREM SpecBindingInv == Spec => []BindingInv
<1>1. BindingInv /\ [Next]_vars => BindingInv'
  BY StepsOfBinding, BindingInvStep
<1>2. QED
  BY <1>1, BindingInvInit, PTL DEF Spec

\* onProgress is not called any more when the promise is settled: what the native
\* side reports late, after its result or after the time-out, finds no function.
THEOREM SpecProgressInTime == Spec => ProgressInTime
<1>1. BindingInv /\ [Next]_vars =>
        [\A c \in Calls : heard'[c] # heard[c] => promise[c] = "pending"]_bindingVars
  BY StepsOfBinding, BindingInvStep
<1>2. QED
  BY <1>1, SpecBindingInv, PTL DEF Spec, ProgressInTime

-----------------------------------------------------------------------------
(* The cache, the textures in it and the loads that are not answered yet.    *)

Item == [tex : Textures, key : Urls]
LoadOf == [url : Urls, target : Targets \cup {None}, autoRelease : BOOLEAN]
Failures == {"error", "timeout", "target"}

ImageTypes ==
    /\ scenario \in Scenarios
    /\ stage \in [Loads -> {"none", "download", "engine", "over"}]
    /\ req \in [Loads -> LoadOf \cup {None}]
    /\ \A l \in Loads : stage[l] # "none" => req[l] \in LoadOf
    /\ outcome \in [Loads -> {None} \cup Textures \cup Failures]
    /\ raceTimers \subseteq Loads
    /\ loadedRes \in Seq(Item) /\ cachedFileNames \subseteq Urls
    /\ made \in [Textures -> Urls \cup {None}] /\ valid \subseteq Textures
    /\ setting \in [Urls -> BOOLEAN \cup {None}] /\ keepers \subseteq Urls

\* The item of a url has a texture made from the url, and its name is remembered:
\* the next texture for the url replaces it.
ItemsAreNamed ==
    \A i \in 1 .. Len(loadedRes) :
        /\ made[loadedRes[i].tex] = loadedRes[i].key
        /\ loadedRes[i].key \in cachedFileNames

\* The engine does not release on its own what was last asked to stay.
KeepersStay == \A u \in keepers : setting[u] = FALSE

\* A load is on its way exactly as long as its time-out runs, unless it timed out;
\* then it has an outcome.
WaitIsTimed ==
    \A l \in Loads :
        /\ l \in raceTimers => outcome[l] = None /\ stage[l] \in {"download", "engine"}
        /\ stage[l] # "none" /\ outcome[l] = None => l \in raceTimers
        /\ stage[l] = "none" => outcome[l] = None

ImageInv ==
    /\ ImageTypes /\ ItemsAreNamed /\ CacheIsUnique
    /\ KeepersStay /\ KeptIsCached /\ WaitIsTimed

\* The Places of Filtered are all there, each once.
LEMMA PlacesCount ==
    ASSUME NEW n \in Nat, NEW places \in SUBSET (1 .. n)
    PROVE  /\ Cardinality(places) \in Nat
           /\ \A k \in 1 .. Cardinality(places) :
                 \E i \in places : Cardinality({j \in places : j <= i}) = k
           /\ \A i \in places : Cardinality({j \in places : j <= i}) \in 1 .. Cardinality(places)
           /\ \A i, m \in places :
                 Cardinality({j \in places : j <= i}) = Cardinality({j \in places : j <= m})
                     => i = m
<1> DEFINE below(i) == {j \in places : j <= i}
           rank == [i \in places |-> Cardinality(below(i))]
           last == Cardinality(places)
<1>1. IsFiniteSet(places) /\ last \in Nat
  <2>1. IsFiniteSet(1 .. n)
    BY FS_Interval
  <2>2. QED
    BY <2>1, FS_Subset, FS_CardinalityType
<1>2. ASSUME NEW i \in places
      PROVE  /\ IsFiniteSet(below(i)) /\ Cardinality(below(i)) \in Nat
             /\ Cardinality(below(i)) <= last /\ Cardinality(below(i)) >= 1
  <2>1. below(i) \in SUBSET places /\ {i} \in SUBSET below(i)
    OBVIOUS
  <2>2. IsFiniteSet(below(i)) /\ Cardinality(below(i)) <= last
    BY <1>1, <2>1, FS_Subset
  <2>3. Cardinality({i}) = 1
    BY FS_Singleton
  <2>4. Cardinality({i}) <= Cardinality(below(i))
    BY <2>1, <2>2, FS_Subset
  <2>5. QED
    BY <2>2, <2>3, <2>4, FS_CardinalityType
<1>3. rank \in Injection(places, 1 .. last)
  <2>1. rank \in [places -> 1 .. last]
    <3> HIDE DEF below, last
    <3>1. \A i \in places : Cardinality(below(i)) \in 1 .. last
      BY <1>1, <1>2
    <3>2. QED
      BY <3>1
  <2>2. ASSUME NEW i \in places, NEW j \in places, i < j
        PROVE  rank[i] # rank[j]
    <3>0. \A m \in places : m \in Nat
      OBVIOUS
    <3>1. below(i) \in SUBSET below(j) /\ j \in below(j) /\ j \notin below(i)
      <4>1. \A m \in places : m <= i => m <= j
        BY <2>2, <3>0
      <4>2. j <= j /\ ~(j <= i)
        BY <2>2, <3>0
      <4>3. QED
        BY <4>1, <4>2
    <3>2. Cardinality(below(i)) # Cardinality(below(j))
      BY <1>2, <3>1, FS_Subset
    <3>3. QED
      BY <3>2
  <2>3. ASSUME NEW i \in places, NEW j \in places, rank[i] = rank[j]
        PROVE  i = j
    <3>1. i \in Nat /\ j \in Nat
      OBVIOUS
    <3>2. ~(i < j) /\ ~(j < i)
      BY <2>2, <2>3
    <3>3. QED
      BY <3>1, <3>2
  <2>4. QED
    BY <2>1, <2>3 DEF Injection, IsInjective
<1>4. rank \in Surjection(places, 1 .. last)
  <2>1. IsFiniteSet(1 .. last) /\ Cardinality(1 .. last) = last
    BY <1>1, FS_Interval
  <2>2. QED
    BY <1>1, <1>3, <2>1, FS_Injection
<1>5. ASSUME NEW k \in 1 .. last
      PROVE  \E i \in places : Cardinality(below(i)) = k
  <2>1. \E i \in places : rank[i] = k
    BY <1>4 DEF Surjection
  <2>2. QED
    BY <2>1
<1>6. ASSUME NEW i \in places
      PROVE  Cardinality(below(i)) \in 1 .. last
  <2> HIDE DEF below, last
  <2>1. QED
    BY <1>1, <1>2
<1>7. ASSUME NEW i \in places, NEW m \in places, Cardinality(below(i)) = Cardinality(below(m))
      PROVE  i = m
  <2>1. rank[i] = rank[m]
    BY <1>7
  <2>2. QED
    BY <1>3, <2>1 DEF Injection, IsInjective
<1>8. QED
  BY <1>1, <1>5, <1>6, <1>7

\* Filtered keeps the items at the places, each once and no others.
LEMMA FilteredItems ==
    ASSUME loadedRes \in Seq(Item), NEW places \in SUBSET (1 .. Len(loadedRes))
    PROVE  /\ Filtered(places) \in Seq(Item)
           /\ \A k \in 1 .. Len(Filtered(places)) :
                 \E i \in places : /\ Filtered(places)[k] = loadedRes[i]
                                   /\ Cardinality({j \in places : j <= i}) = k
           /\ \A i \in places :
                 \E k \in 1 .. Len(Filtered(places)) : Filtered(places)[k] = loadedRes[i]
<1> DEFINE rank(i) == Cardinality({j \in places : j <= i})
           last == Cardinality(places)
           Place(k) == CHOOSE i \in places : rank(i) = k
<1>1. Len(loadedRes) \in Nat
  OBVIOUS
<1>2. /\ last \in Nat
      /\ \A k \in 1 .. last : \E i \in places : rank(i) = k
      /\ \A i \in places : rank(i) \in 1 .. last
      /\ \A i, m \in places : rank(i) = rank(m) => i = m
  BY <1>1, PlacesCount
<1>3. Filtered(places) = [k \in 1 .. last |-> loadedRes[Place(k)]]
  BY DEF Filtered
<1> HIDE DEF rank, last
<1>4. \A k \in 1 .. last : Place(k) \in places /\ rank(Place(k)) = k
  BY <1>2
<1> HIDE DEF Place
<1>5. \A k \in 1 .. last : loadedRes[Place(k)] \in Item
  <2>1. \A i \in 1 .. Len(loadedRes) : loadedRes[i] \in Item
    OBVIOUS
  <2>2. QED
    BY <1>4, <2>1
<1>6. Filtered(places) \in Seq(Item) /\ Len(Filtered(places)) = last
  BY <1>2, <1>3, <1>5
<1>7. \A k \in 1 .. last : Filtered(places)[k] = loadedRes[Place(k)]
  BY <1>3
<1>8. \A k \in 1 .. last : \E i \in places : Filtered(places)[k] = loadedRes[i] /\ rank(i) = k
  BY <1>4, <1>7
<1>9. ASSUME NEW i \in places
      PROVE  \E k \in 1 .. last : Filtered(places)[k] = loadedRes[i]
  <2>1. rank(i) \in 1 .. last
    BY <1>2
  <2>2. Place(rank(i)) \in places /\ rank(Place(rank(i))) = rank(i)
    BY <1>4, <2>1
  <2>3. Place(rank(i)) = i
    BY <1>2, <2>2
  <2>4. QED
    BY <1>7, <2>1, <2>3
<1>10. QED
  BY <1>6, <1>8, <1>9 DEF rank

\* What a step does to the cache and the textures: a request trims it, an answer
\* saves to it, a scene goes, or nothing.
LEMMA CacheSteps ==
    ASSUME [Next]_vars
    PROVE  \/ loadedRes' = Trimmed /\ UNCHANGED <<cachedFileNames, engine>>
           \/ \E l \in Loads : Answers(l)
           \/ SceneChange
           \/ UNCHANGED <<cache, engine>>
<1>1. ASSUME NEW l \in Loads, LoadImg(l)
      PROVE  loadedRes' = Trimmed /\ UNCHANGED <<cachedFileNames, engine>>
  BY <1>1 DEF LoadImg, LoadCached, LoadByEngine, LoadByNative, LoadOnIOS, Request
<1>2. ASSUME NEW l \in Loads, LoadTimesOut(l) \/ Downloaded(l) \/ AnswersError(l) \/ LateResult(l)
      PROVE  UNCHANGED <<cache, engine>>
  BY <1>2 DEF LoadTimesOut, Downloaded, AnswersError, LateResult, Fails, imageVars
<1>3. ASSUME NEW c \in Games, GameCall(c) \/ GameCallTimesOut(c)
      PROVE  UNCHANGED <<cache, engine>>
  BY <1>3 DEF GameCall, GameCallTimesOut, imageVars
<1>4. CASE UNCHANGED vars
  BY <1>4 DEF vars, imageVars
<1>5. QED
  BY <1>1, <1>2, <1>3, <1>4 DEF Next

\* What the cache holds, as opposed to the loads.
CacheInv == ItemsAreNamed /\ CacheIsUnique /\ KeepersStay /\ KeptIsCached

\* Trimming leaves the items with a valid texture, each once.
LEMMA TrimmedItems ==
    ASSUME ImageTypes
    PROVE  /\ Trimmed \in Seq(Item)
           /\ \A k \in 1 .. Len(Trimmed) :
                 \E i \in 1 .. Len(loadedRes) :
                     Trimmed[k] = loadedRes[i] /\ IsValid(loadedRes[i].tex)
           /\ \A i \in 1 .. Len(loadedRes) :
                 IsValid(loadedRes[i].tex) =>
                     \E k \in 1 .. Len(Trimmed) : Trimmed[k] = loadedRes[i]
           /\ CacheIsUnique =>
                 \A k, m \in 1 .. Len(Trimmed) : Trimmed[k].key = Trimmed[m].key => k = m
<1> DEFINE places == {i \in 1 .. Len(loadedRes) : IsValid(loadedRes[i].tex)}
<1>1. loadedRes \in Seq(Item) /\ places \in SUBSET (1 .. Len(loadedRes))
  BY DEF ImageTypes
<1>2. Trimmed = Filtered(places)
  BY DEF Trimmed
<1>3. /\ Trimmed \in Seq(Item)
      /\ \A k \in 1 .. Len(Trimmed) :
            \E i \in places : /\ Trimmed[k] = loadedRes[i]
                              /\ Cardinality({j \in places : j <= i}) = k
      /\ \A i \in places : \E k \in 1 .. Len(Trimmed) : Trimmed[k] = loadedRes[i]
  BY <1>1, <1>2, FilteredItems
<1>4. ASSUME CacheIsUnique, NEW k \in 1 .. Len(Trimmed), NEW m \in 1 .. Len(Trimmed),
             Trimmed[k].key = Trimmed[m].key
      PROVE  k = m
  <2>1. PICK i \in places : Trimmed[k] = loadedRes[i] /\ Cardinality({j \in places : j <= i}) = k
    BY <1>3
  <2>2. PICK h \in places : Trimmed[m] = loadedRes[h] /\ Cardinality({j \in places : j <= h}) = m
    BY <1>3
  <2>3. i = h
    BY <1>1, <1>4, <2>1, <2>2 DEF CacheIsUnique
  <2>4. QED
    BY <2>1, <2>2, <2>3
<1>5. QED
  BY <1>3, <1>4

\* A request keeps the cache what it is.
LEMMA RequestKeepsCache ==
    ASSUME ImageTypes, CacheInv, loadedRes' = Trimmed, UNCHANGED <<cachedFileNames, engine>>
    PROVE  CacheInv'
<1>1. UNCHANGED <<cachedFileNames, made, valid, setting, keepers>>
  BY DEF engine
<1>2. ItemsAreNamed'
  BY <1>1, TrimmedItems DEF CacheInv, ItemsAreNamed
<1>3. CacheIsUnique'
  BY TrimmedItems DEF CacheInv, CacheIsUnique
<1>4. KeepersStay'
  BY <1>1 DEF CacheInv, KeepersStay
<1>5. KeptIsCached'
  <2>1. ASSUME NEW u \in keepers
        PROVE  \E k \in 1 .. Len(Trimmed) : Trimmed[k].key = u /\ Trimmed[k].tex \in valid
    <3>1. PICK i \in Items(u) : IsValid(loadedRes[i].tex)
      BY DEF CacheInv, KeptIsCached
    <3>2. i \in 1 .. Len(loadedRes) /\ loadedRes[i].key = u
      BY <3>1 DEF Items
    <3>3. PICK k \in 1 .. Len(Trimmed) : Trimmed[k] = loadedRes[i]
      BY <3>1, <3>2, TrimmedItems
    <3>4. QED
      BY <3>1, <3>2, <3>3 DEF IsValid
  <2>2. QED
    BY <1>1, <2>1 DEF KeptIsCached, Items, IsValid
<1>6. QED
  BY <1>2, <1>3, <1>4, <1>5 DEF CacheInv

\* Saving a texture leaves the items of other urls, each once, and puts that of the
\* url last.
LEMMA SavedItems ==
    ASSUME ImageTypes, CacheInv, NEW u \in Urls, NEW x \in Textures, SaveTexture(u, x)
    PROVE  /\ loadedRes' \in Seq(Item)
           /\ Len(loadedRes') \in Nat \ {0}
           /\ loadedRes'[Len(loadedRes')] = [tex |-> x, key |-> u]
           /\ \A k \in 1 .. Len(loadedRes') - 1 :
                 \E i \in 1 .. Len(loadedRes) :
                     loadedRes'[k] = loadedRes[i] /\ loadedRes[i].key # u
           /\ \A i \in 1 .. Len(loadedRes) :
                 loadedRes[i].key # u =>
                     \E k \in 1 .. Len(loadedRes') - 1 : loadedRes'[k] = loadedRes[i]
           /\ \A k, m \in 1 .. Len(loadedRes') - 1 :
                 loadedRes'[k].key = loadedRes'[m].key => k = m
<1> DEFINE places == (1 .. Len(loadedRes)) \ Items(u)
           kept == IF u \in cachedFileNames THEN Filtered(places) ELSE loadedRes
           new == [tex |-> x, key |-> u]
<1>1. /\ loadedRes \in Seq(Item) /\ places \in SUBSET (1 .. Len(loadedRes))
      /\ \A i \in 1 .. Len(loadedRes) : i \in places <=> loadedRes[i].key # u
      /\ \A i, j \in 1 .. Len(loadedRes) : loadedRes[i].key = loadedRes[j].key => i = j
      /\ new \in Item
  BY DEF ImageTypes, Items, Item, CacheInv, CacheIsUnique
<1>2. /\ kept \in Seq(Item)
      /\ \A k \in 1 .. Len(kept) : \E i \in places : kept[k] = loadedRes[i]
      /\ \A i \in places : \E k \in 1 .. Len(kept) : kept[k] = loadedRes[i]
      /\ \A k, m \in 1 .. Len(kept) : kept[k].key = kept[m].key => k = m
  <2>1. CASE u \in cachedFileNames
    <3>0. kept = Filtered(places)
      BY <2>1
    <3> HIDE DEF places, kept
    <3>1. /\ kept \in Seq(Item)
          /\ \A k \in 1 .. Len(kept) :
                \E i \in places : /\ kept[k] = loadedRes[i]
                                  /\ Cardinality({j \in places : j <= i}) = k
          /\ \A i \in places : \E k \in 1 .. Len(kept) : kept[k] = loadedRes[i]
      <4>1. places \in SUBSET (1 .. Len(loadedRes)) /\ loadedRes \in Seq(Item)
        BY <1>1
      <4>2. /\ Filtered(places) \in Seq(Item)
            /\ \A k \in 1 .. Len(Filtered(places)) :
                  \E i \in places : /\ Filtered(places)[k] = loadedRes[i]
                                    /\ Cardinality({j \in places : j <= i}) = k
            /\ \A i \in places :
                  \E k \in 1 .. Len(Filtered(places)) : Filtered(places)[k] = loadedRes[i]
        BY <4>1, FilteredItems
      <4>3. QED
        BY <3>0, <4>2
    <3>2. ASSUME NEW k \in 1 .. Len(kept), NEW m \in 1 .. Len(kept), kept[k].key = kept[m].key
          PROVE  k = m
      <4>1. PICK i \in places : kept[k] = loadedRes[i] /\ Cardinality({j \in places : j <= i}) = k
        BY <3>1
      <4>2. PICK h \in places : kept[m] = loadedRes[h] /\ Cardinality({j \in places : j <= h}) = m
        BY <3>1
      <4>3. i = h
        BY <1>1, <3>2, <4>1, <4>2
      <4>4. QED
        BY <4>1, <4>2, <4>3
    <3>3. QED
      BY <3>1, <3>2
  <2>2. CASE u \notin cachedFileNames
    <3>1. kept = loadedRes
      BY <2>2
    <3>2. \A i \in 1 .. Len(loadedRes) : i \in places
      BY <1>1, <2>2 DEF CacheInv, ItemsAreNamed
    <3> HIDE DEF places, kept
    <3>3. QED
      BY <1>1, <3>1, <3>2
  <2>3. QED
    BY <2>1, <2>2
<1>3. loadedRes' = Append(kept, new)
  BY DEF SaveTexture
<1> HIDE DEF places, kept, new
<1>4. /\ loadedRes' \in Seq(Item) /\ Len(kept) \in Nat /\ Len(loadedRes') = Len(kept) + 1
      /\ loadedRes'[Len(kept) + 1] = new
      /\ \A k \in 1 .. Len(kept) : loadedRes'[k] = kept[k]
  BY <1>1, <1>2, <1>3
<1>5. /\ Len(loadedRes') - 1 = Len(kept) /\ Len(loadedRes') \in Nat \ {0}
      /\ loadedRes'[Len(loadedRes')] = new
  BY <1>4
<1>6. \A k \in 1 .. Len(kept) :
          \E i \in 1 .. Len(loadedRes) : loadedRes'[k] = loadedRes[i] /\ loadedRes[i].key # u
  BY <1>1, <1>2, <1>4
<1>7. \A i \in 1 .. Len(loadedRes) :
          loadedRes[i].key # u => \E k \in 1 .. Len(kept) : loadedRes'[k] = loadedRes[i]
  BY <1>1, <1>2, <1>4
<1>8. \A k, m \in 1 .. Len(kept) : loadedRes'[k].key = loadedRes'[m].key => k = m
  BY <1>2, <1>4
<1>9. QED
  BY <1>4, <1>5, <1>6, <1>7, <1>8 DEF new

\* An answer keeps the cache what it is.
LEMMA AnswerKeepsCache ==
    ASSUME ImageTypes, CacheInv, NEW l \in Loads, Answers(l)
    PROVE  CacheInv'
<1> DEFINE u == req[l].url
<1>1. u \in Urls /\ req[l].autoRelease \in BOOLEAN
  BY DEF ImageTypes, Answers, LoadOf
<1>2. PICK x \in Textures : /\ made[x] \in {u, None}
                            /\ made' = [made EXCEPT ![x] = u]
                            /\ valid' = valid \cup {x}
                            /\ SaveTexture(u, x)
  BY DEF Answers, Exists, ImageTypes
<1>3. /\ setting' = [setting EXCEPT ![u] = req[l].autoRelease]
      /\ keepers' = IF req[l].autoRelease THEN keepers \ {u} ELSE keepers \cup {u}
      /\ cachedFileNames' = cachedFileNames \cup {u}
  BY <1>2 DEF Answers, SetAutoRelease, SaveTexture
<1>4. u # None /\ \A i \in 1 .. Len(loadedRes) : loadedRes[i] \in Item
  BY <1>1, NoneAssumption DEF ImageTypes, NoneAssumption
<1> DEFINE last == Len(loadedRes')
<1>5. /\ last \in Nat \ {0} /\ loadedRes'[last] = [tex |-> x, key |-> u]
      /\ \A k \in 1 .. last - 1 :
            \E i \in 1 .. Len(loadedRes) :
                loadedRes'[k] = loadedRes[i] /\ loadedRes[i].key # u
      /\ \A i \in 1 .. Len(loadedRes) :
            loadedRes[i].key # u => \E k \in 1 .. last - 1 : loadedRes'[k] = loadedRes[i]
      /\ \A k, m \in 1 .. last - 1 : loadedRes'[k].key = loadedRes'[m].key => k = m
  BY <1>1, <1>2, SavedItems
<1> HIDE DEF u, last
<1>6. \A y \in Textures : made[y] # None => made'[y] = made[y]
  BY <1>2 DEF ImageTypes
<1>7. ItemsAreNamed'
  <2>1. ASSUME NEW k \in 1 .. last
        PROVE  /\ made'[loadedRes'[k].tex] = loadedRes'[k].key
               /\ loadedRes'[k].key \in cachedFileNames'
    <3>1. CASE k = last
      BY <1>2, <1>3, <1>5, <3>1 DEF ImageTypes
    <3>2. CASE k # last
      <4>1. k \in 1 .. last - 1
        BY <1>5, <3>2
      <4>2. PICK i \in 1 .. Len(loadedRes) : loadedRes'[k] = loadedRes[i]
        BY <1>5, <4>1
      <4>3. /\ made[loadedRes[i].tex] = loadedRes[i].key
            /\ loadedRes[i].key \in cachedFileNames
            /\ loadedRes[i].key \in Urls /\ loadedRes[i].tex \in Textures
        BY <1>4, <4>2 DEF CacheInv, ItemsAreNamed, Item
      <4>4. loadedRes[i].key # None
        BY <4>3, NoneAssumption DEF NoneAssumption
      <4>5. QED
        BY <1>3, <1>6, <4>2, <4>3, <4>4
    <3>3. QED
      BY <3>1, <3>2
  <2>2. QED
    BY <2>1 DEF ItemsAreNamed, last
<1>8. CacheIsUnique'
  <2>1. ASSUME NEW k \in 1 .. last, NEW m \in 1 .. last, loadedRes'[k].key = loadedRes'[m].key
        PROVE  k = m
    <3>1. CASE k # last /\ m # last
      BY <1>5, <2>1, <3>1
    <3>2. CASE k = last /\ m # last
      <4>1. m \in 1 .. last - 1
        BY <1>5, <3>2
      <4>2. loadedRes'[m].key # u
        BY <1>5, <4>1
      <4>3. loadedRes'[k].key = u
        BY <1>5, <3>2
      <4>4. QED
        BY <2>1, <4>2, <4>3
    <3>3. CASE k # last /\ m = last
      <4>1. k \in 1 .. last - 1
        BY <1>5, <3>3
      <4>2. loadedRes'[k].key # u
        BY <1>5, <4>1
      <4>3. loadedRes'[m].key = u
        BY <1>5, <3>3
      <4>4. QED
        BY <2>1, <4>2, <4>3
    <3>4. QED
      BY <3>1, <3>2, <3>3
  <2>2. QED
    BY <2>1 DEF CacheIsUnique, last
<1>9. KeepersStay'
  BY <1>1, <1>3 DEF CacheInv, KeepersStay, ImageTypes
<1>10. KeptIsCached'
  <2>1. ASSUME NEW v \in keepers'
        PROVE  \E k \in 1 .. last : loadedRes'[k].key = v /\ loadedRes'[k].tex \in valid'
    <3>1. CASE v = u
      <4>1. last \in 1 .. last
        BY <1>5
      <4>2. QED
        BY <1>2, <1>5, <3>1, <4>1
    <3>2. CASE v # u
      <4>1. v \in keepers
        BY <1>3, <2>1, <3>2
      <4>2. PICK i \in Items(v) : IsValid(loadedRes[i].tex)
        BY <4>1 DEF CacheInv, KeptIsCached
      <4>3. i \in 1 .. Len(loadedRes) /\ loadedRes[i].key = v
        BY <4>2 DEF Items
      <4>4. PICK k \in 1 .. last - 1 : loadedRes'[k] = loadedRes[i]
        BY <1>5, <3>2, <4>3
      <4>5. k \in 1 .. last
        BY <1>5
      <4>6. QED
        BY <1>2, <4>2, <4>3, <4>4, <4>5 DEF IsValid
    <3>3. QED
      BY <3>1, <3>2
  <2>2. QED
    BY <2>1 DEF KeptIsCached, Items, IsValid, last
<1>11. QED
  BY <1>7, <1>8, <1>9, <1>10 DEF CacheInv

\* A scene that goes releases no texture that was asked to stay.
LEMMA SceneKeepsCache ==
    ASSUME ImageTypes, CacheInv, SceneChange
    PROVE  CacheInv'
<1>1. UNCHANGED <<cachedFileNames, loadedRes, made, setting, keepers>>
  BY DEF SceneChange, cache
<1>2. \A x \in valid : setting[made[x]] = FALSE => x \in valid'
  BY DEF SceneChange
<1>3. ItemsAreNamed' /\ CacheIsUnique' /\ KeepersStay'
  BY <1>1 DEF CacheInv, ItemsAreNamed, CacheIsUnique, KeepersStay
<1>4. ASSUME NEW u \in keepers
      PROVE  \E i \in Items(u) : loadedRes[i].tex \in valid'
  <2>1. PICK i \in Items(u) : IsValid(loadedRes[i].tex)
    BY DEF CacheInv, KeptIsCached
  <2>2. made[loadedRes[i].tex] = u
    BY <2>1 DEF Items, CacheInv, ItemsAreNamed
  <2>3. setting[u] = FALSE
    BY DEF CacheInv, KeepersStay
  <2>4. QED
    BY <1>2, <2>1, <2>2, <2>3 DEF IsValid
<1>5. KeptIsCached'
  BY <1>1, <1>4 DEF KeptIsCached, Items, IsValid
<1>6. QED
  BY <1>3, <1>5 DEF CacheInv

\* Every step keeps the cache what it is.
LEMMA CacheStep ==
    ASSUME ImageTypes, CacheInv, [Next]_vars
    PROVE  CacheInv'
<1>1. CASE UNCHANGED <<cache, engine>>
  BY <1>1 DEF cache, engine, CacheInv, ItemsAreNamed, CacheIsUnique, KeepersStay,
     KeptIsCached, Items, IsValid
<1>2. QED
  BY <1>1, CacheSteps, RequestKeepsCache, AnswerKeepsCache, SceneKeepsCache

\* The texture getImage finds is valid and was made from the url.
LEMMA FoundInCache ==
    ASSUME ImageTypes, CacheInv, NEW u \in Urls, GetImage(u) # None
    PROVE  GetImage(u) \in valid /\ made[GetImage(u)] = u
<1> DEFINE found == {i \in Items(u) : IsValid(loadedRes[i].tex)}
           best == CHOOSE i \in found : \A j \in found : j <= i
<1>1. /\ found # {}
      /\ GetImage(u) = loadedRes[best].tex
  BY DEF GetImage
<1>2. \A i \in found :
          /\ i \in 1 .. Len(loadedRes) /\ loadedRes[i].key = u
          /\ loadedRes[i].tex \in valid /\ made[loadedRes[i].tex] = u
  BY DEF Items, IsValid, CacheInv, ItemsAreNamed
<1>3. \A i, j \in found : i = j
  BY <1>2 DEF CacheInv, CacheIsUnique
<1>4. \A i \in found : i \in Nat
  BY <1>2
<1> HIDE DEF found
<1>5. \E i \in found : \A j \in found : j <= i
  <2>1. PICK i \in found : TRUE
    BY <1>1
  <2>2. \A j \in found : j <= i
    BY <1>3, <1>4, <2>1
  <2>3. QED
    BY <2>2
<1>6. best \in found
  BY <1>5
<1> HIDE DEF best
<1>7. QED
  BY <1>1, <1>2, <1>6

-----------------------------------------------------------------------------
(* The loads. *)

\* The outcomes of a race: failures are no textures, and only a load whose target
\* is there and whose url is an image gets the texture.
LEMMA Outcomes ==
    ASSUME NEW l \in Loads
    PROVE  /\ \A why \in Failures : Rejected(l, why) \in Failures
           /\ \A x \in Textures :
                 \/ Fulfilled(l, x) \in Failures
                 \/ /\ Fulfilled(l, x) = x
                    /\ TargetIsValid(l) /\ req[l].url \notin NotImages
           /\ Failures \cap Textures = {} /\ None \notin Textures \cup Failures
BY NoneAssumption, OutcomesAssumption
   DEF NoneAssumption, OutcomesAssumption, Rejected, Fulfilled, Failures

\* What a request leaves of the load.
Requested(l, r) ==
    /\ stage[l] = "none" /\ r \in LoadOf
    /\ req' = [req EXCEPT ![l] = r]
    /\ UNCHANGED <<made, valid>>
    /\ \/ /\ \E to \in {"download", "engine"} : stage' = [stage EXCEPT ![l] = to]
          /\ raceTimers' = raceTimers \cup {l} /\ outcome' = outcome
       \/ /\ stage' = [stage EXCEPT ![l] = "over"]
          /\ raceTimers' = raceTimers
          /\ \E why \in Failures : outcome' = [outcome EXCEPT ![l] = why]
       \/ /\ stage' = [stage EXCEPT ![l] = "over"]
          /\ raceTimers' = raceTimers
          /\ GetImage(r.url) # None
          /\ outcome' = [outcome EXCEPT ![l] = GetImage(r.url)]

\* What the end of a race leaves of the load.
Raced(l) ==
    /\ req' = req
    /\ \/ stage' = stage /\ l \in raceTimers
       \/ /\ stage[l] \in {"download", "engine"}
          /\ stage' = [stage EXCEPT ![l] = "over"]
    /\ \/ \E why \in Failures : Race(l, why)
       \/ Answers(l) /\ \E x \in Textures : Race(l, Fulfilled(l, x))

\* What a step does to the loads: one is requested, races to its end or goes on to
\* the engine, or nothing.
LEMMA LoadSteps ==
    ASSUME ImageTypes, [Next]_vars
    PROVE  \/ \E l \in Loads : \E r \in LoadOf : Requested(l, r)
           \/ \E l \in Loads : Raced(l)
           \/ \E l \in Loads : /\ stage[l] = "download"
                               /\ stage' = [stage EXCEPT ![l] = "engine"]
                               /\ UNCHANGED <<req, outcome, raceTimers>>
           \/ UNCHANGED <<req, stage, outcome, raceTimers>>
<1>0. "error" \in Failures /\ "timeout" \in Failures /\ "target" \in Failures
  BY DEF Failures
<1>1. ASSUME NEW l \in Loads, LoadImg(l)
      PROVE  \E r \in LoadOf : Requested(l, r)
  <2>1. PICK r \in Requests :
            LoadCached(l, r) \/ LoadByEngine(l, r) \/ LoadByNative(l, r) \/ LoadOnIOS(l, r)
    BY <1>1 DEF LoadImg
  <2>2. r \in LoadOf
    BY <2>1, ScenariosAssumption DEF ImageTypes, Requests, LoadOf, ScenariosAssumption
  <2>3. stage[l] = "none" /\ req' = [req EXCEPT ![l] = r] /\ UNCHANGED <<made, valid>>
    BY <2>1 DEF LoadCached, LoadByEngine, LoadByNative, LoadOnIOS, Request, engine
  <2>4. CASE LoadCached(l, r)
    BY <2>2, <2>3, <2>4 DEF LoadCached, Requested
  <2>5. CASE LoadByEngine(l, r)
    BY <2>2, <2>3, <2>5 DEF LoadByEngine, StartTimer, Requested
  <2>6. CASE LoadByNative(l, r)
    BY <1>0, <2>2, <2>3, <2>6 DEF LoadByNative, StartTimer, Requested
  <2>7. CASE LoadOnIOS(l, r)
    BY <1>0, <2>2, <2>3, <2>7 DEF LoadOnIOS, Requested
  <2>8. QED
    BY <2>1, <2>2, <2>4, <2>5, <2>6, <2>7
<1>2. ASSUME NEW l \in Loads, LoadTimesOut(l)
      PROVE  Raced(l)
  <2>1. Rejected(l, "timeout") \in Failures
    BY <1>0, Outcomes
  <2>2. QED
    BY <1>2, <2>1 DEF LoadTimesOut, Raced
<1>3. ASSUME NEW l \in Loads, stage[l] \in {"download", "engine"}, Fails(l)
      PROVE  Raced(l)
  <2>1. Rejected(l, "error") \in Failures
    BY <1>0, Outcomes
  <2>2. QED
    BY <1>3, <2>1 DEF Fails, Raced
<1>4. ASSUME NEW l \in Loads, Downloaded(l)
      PROVE  \/ Raced(l)
             \/ /\ stage[l] = "download" /\ stage' = [stage EXCEPT ![l] = "engine"]
                /\ UNCHANGED <<req, outcome, raceTimers>>
  BY <1>3, <1>4 DEF Downloaded
<1>5. ASSUME NEW l \in Loads, Answers(l)
      PROVE  Raced(l)
  <2>1. PICK x \in Textures : Race(l, Fulfilled(l, x))
    BY <1>5 DEF Answers, ImageTypes
  <2>2. /\ stage[l] \in {"download", "engine"} /\ req' = req
        /\ stage' = [stage EXCEPT ![l] = "over"]
    BY <1>5 DEF Answers
  <2>3. QED
    BY <1>5, <2>1, <2>2 DEF Raced
<1>6. ASSUME NEW l \in Loads, AnswersError(l)
      PROVE  Raced(l)
  BY <1>3, <1>6 DEF AnswersError
<1>7. ASSUME NEW l \in Loads, LateResult(l)
      PROVE  UNCHANGED <<req, stage, outcome, raceTimers>>
  BY <1>7 DEF LateResult, imageVars
<1>8. CASE SceneChange
  BY <1>8 DEF SceneChange
<1>9. ASSUME NEW c \in Games, GameCall(c) \/ GameCallTimesOut(c)
      PROVE  UNCHANGED <<req, stage, outcome, raceTimers>>
  BY <1>9 DEF GameCall, GameCallTimesOut, imageVars
<1>10. CASE UNCHANGED vars
  BY <1>10 DEF vars, imageVars
<1>11. QED
  BY <1>1, <1>2, <1>4, <1>5, <1>6, <1>7, <1>8, <1>9, <1>10 DEF Next

LoadTypes ==
    /\ stage \in [Loads -> {"none", "download", "engine", "over"}]
    /\ req \in [Loads -> LoadOf \cup {None}]
    /\ \A l \in Loads : stage[l] # "none" => req[l] \in LoadOf
    /\ outcome \in [Loads -> {None} \cup Textures \cup Failures]
    /\ raceTimers \subseteq Loads

\* The loads keep their types, and the time-out of a load runs as long as it is
\* waited for.
LEMMA LoadsStep ==
    ASSUME ImageTypes, CacheInv, WaitIsTimed, [Next]_vars
    PROVE  LoadTypes' /\ WaitIsTimed'
<1>0. LoadTypes
  BY DEF ImageTypes, LoadTypes
<1> USE DEF LoadTypes, WaitIsTimed
<1>1. ASSUME NEW l \in Loads, NEW r \in LoadOf, Requested(l, r)
      PROVE  LoadTypes' /\ WaitIsTimed'
  <2>1. stage[l] = "none" /\ outcome[l] = None /\ l \notin raceTimers
    BY <1>1 DEF Requested
  <2>2. req' = [req EXCEPT ![l] = r] /\ req' \in [Loads -> LoadOf \cup {None}] /\ req'[l] \in LoadOf
    BY <1>0, <1>1 DEF Requested
  <2>3. None \notin Textures \cup Failures
    BY Outcomes
  <2>4. CASE /\ \E to \in {"download", "engine"} : stage' = [stage EXCEPT ![l] = to]
             /\ raceTimers' = raceTimers \cup {l} /\ outcome' = outcome
    BY <1>0, <2>1, <2>2, <2>4
  <2>5. CASE /\ stage' = [stage EXCEPT ![l] = "over"]
             /\ raceTimers' = raceTimers
             /\ \E o \in Textures \cup Failures : outcome' = [outcome EXCEPT ![l] = o]
    BY <1>0, <2>1, <2>2, <2>3, <2>5
  <2>6. GetImage(r.url) # None => GetImage(r.url) \in Textures
    BY FoundInCache DEF LoadOf, ImageTypes
  <2>7. QED
    BY <1>1, <2>4, <2>5, <2>6 DEF Requested
<1>2. ASSUME NEW l \in Loads, Raced(l)
      PROVE  LoadTypes' /\ WaitIsTimed'
  <2>1. PICK result \in Textures \cup Failures : Race(l, result)
    BY <1>2, Outcomes DEF Raced
  <2>2. None \notin Textures \cup Failures
    BY Outcomes
  <2>3. /\ outcome' \in [Loads -> {None} \cup Textures \cup Failures]
        /\ outcome'[l] # None /\ raceTimers' = raceTimers \ {l}
        /\ \A k \in Loads \ {l} : outcome'[k] = outcome[k]
    BY <1>0, <2>1, <2>2 DEF Race
  <2>4. stage[l] # "none" /\ req' = req
    BY <1>2 DEF Raced
  <2>5. \/ stage' = stage
        \/ stage' = [stage EXCEPT ![l] = "over"]
    BY <1>2 DEF Raced
  <2>6. QED
    BY <1>0, <2>3, <2>4, <2>5
<1>3. ASSUME NEW l \in Loads, stage[l] = "download", stage' = [stage EXCEPT ![l] = "engine"],
             UNCHANGED <<req, outcome, raceTimers>>
      PROVE  LoadTypes' /\ WaitIsTimed'
  BY <1>0, <1>3
<1>4. CASE UNCHANGED <<req, stage, outcome, raceTimers>>
  BY <1>0, <1>4
<1>5. QED
  BY <1>1, <1>2, <1>3, <1>4, LoadSteps

\* The cache and the textures keep their types.
LEMMA ImageTypesStep ==
    ASSUME ImageTypes, CacheInv, WaitIsTimed, [Next]_vars
    PROVE  ImageTypes'
<1> DEFINE CacheTypes ==
        /\ loadedRes \in Seq(Item) /\ cachedFileNames \subseteq Urls
        /\ made \in [Textures -> Urls \cup {None}] /\ valid \subseteq Textures
        /\ setting \in [Urls -> BOOLEAN \cup {None}] /\ keepers \subseteq Urls
<1>1. LoadTypes'
  BY LoadsStep
<1>2. scenario' = scenario
  <2>1. ASSUME NEW l \in Loads, LoadImg(l) PROVE scenario' = scenario
    BY <2>1 DEF LoadImg, LoadCached, LoadByEngine, LoadByNative, LoadOnIOS, Request
  <2>2. ASSUME NEW l \in Loads, LoadTimesOut(l) \/ Downloaded(l) \/ AnswersError(l)
        PROVE  scenario' = scenario
    BY <2>2 DEF LoadTimesOut, Downloaded, AnswersError, Fails
  <2>3. ASSUME NEW l \in Loads, Answers(l) \/ LateResult(l) PROVE scenario' = scenario
    BY <2>3 DEF Answers, LateResult, imageVars
  <2>4. ASSUME NEW c \in Games, GameCall(c) \/ GameCallTimesOut(c)
        PROVE  scenario' = scenario
    BY <2>4 DEF GameCall, GameCallTimesOut, imageVars
  <2>5. CASE SceneChange \/ UNCHANGED vars
    BY <2>5 DEF SceneChange, vars, imageVars
  <2>6. QED
    BY <2>1, <2>2, <2>3, <2>4, <2>5 DEF Next
<1>3. CASE loadedRes' = Trimmed /\ UNCHANGED <<cachedFileNames, engine>>
  <2>1. CacheTypes'
    BY <1>3, TrimmedItems DEF ImageTypes, engine
  <2>2. QED
    BY <1>1, <1>2, <2>1 DEF ImageTypes, LoadTypes
<1>4. ASSUME NEW l \in Loads, Answers(l)
      PROVE  ImageTypes'
  <2> DEFINE u == req[l].url
  <2>1. u \in Urls /\ req[l].autoRelease \in BOOLEAN
    BY <1>4 DEF ImageTypes, Answers, LoadOf
  <2>2. PICK x \in Textures : /\ made' = [made EXCEPT ![x] = u]
                              /\ valid' = valid \cup {x}
                              /\ SaveTexture(u, x)
    BY <1>4 DEF Answers, ImageTypes
  <2>3. /\ setting' = [setting EXCEPT ![u] = req[l].autoRelease]
        /\ keepers' = IF req[l].autoRelease THEN keepers \ {u} ELSE keepers \cup {u}
        /\ cachedFileNames' = cachedFileNames \cup {u}
    BY <1>4, <2>2 DEF Answers, SetAutoRelease, SaveTexture
  <2>4. loadedRes' \in Seq(Item)
    BY <2>1, <2>2, SavedItems
  <2> HIDE DEF u
  <2>5. CacheTypes'
    BY <2>1, <2>2, <2>3, <2>4 DEF ImageTypes
  <2>6. QED
    BY <1>1, <1>2, <2>5 DEF ImageTypes, LoadTypes
<1>5. CASE SceneChange
  <2>1. CacheTypes'
    BY <1>5 DEF SceneChange, ImageTypes, cache
  <2>2. QED
    BY <1>1, <1>2, <2>1 DEF ImageTypes, LoadTypes
<1>6. CASE UNCHANGED <<cache, engine>>
  <2>1. CacheTypes'
    BY <1>6 DEF ImageTypes, cache, engine
  <2>2. QED
    BY <1>1, <1>2, <2>1 DEF ImageTypes, LoadTypes
<1>7. QED
  BY <1>3, <1>4, <1>5, <1>6, CacheSteps

\* At first no load is made, and the cache is empty.
LEMMA ImageInit == Init => ImageInv
<1>1. SUFFICES ASSUME Init PROVE ImageInv
  OBVIOUS
<1>2. <<>> \in Seq(Item) /\ loadedRes = <<>> /\ Len(loadedRes) = 0
  BY <1>1 DEF Init
<1>3. ImageTypes
  BY <1>1, <1>2 DEF Init, ImageTypes
<1>4. ItemsAreNamed /\ CacheIsUnique /\ KeepersStay /\ KeptIsCached /\ WaitIsTimed
  BY <1>1, <1>2 DEF Init, ItemsAreNamed, CacheIsUnique, KeepersStay, KeptIsCached, WaitIsTimed
<1>5. QED
  BY <1>3, <1>4 DEF ImageInv

\* The cache holds one item for a url, of a texture made from it, for every number
\* of loads at once, late or again (saveTextureToMem, trimCache); what was asked to
\* stay is in it, whatever scenes go; and a load that is waited for has its time-out
\* running (loadWithTimeout).
THEOREM ImageInvariant == Spec => []ImageInv
<1>1. ImageInv /\ [Next]_vars => ImageInv'
  <2>1. SUFFICES ASSUME ImageInv, [Next]_vars PROVE ImageInv'
    OBVIOUS
  <2>2. ImageTypes /\ CacheInv /\ WaitIsTimed
    BY <2>1 DEF ImageInv, CacheInv
  <2>3. ImageTypes' /\ CacheInv' /\ WaitIsTimed'
    BY <2>1, <2>2, ImageTypesStep, CacheStep, LoadsStep
  <2>4. QED
    BY <2>3 DEF ImageInv, CacheInv
<1>2. QED
  BY <1>1, ImageInit, PTL DEF Spec

\* The cache has one item for a url, however often it was loaded at once, late or
\* again (saveTextureToMem drops the item of a name it knows).
THEOREM CacheAlwaysUnique == Spec => []CacheIsUnique
<1>1. ImageInv => CacheIsUnique
  BY DEF ImageInv
<1>2. QED
  BY <1>1, ImageInvariant, PTL

\* What was last loaded not to be released is in the cache, and valid, through
\* every scene change (setAutoReleaseRecursively).
THEOREM KeptAlwaysCached == Spec => []KeptIsCached
<1>1. ImageInv => KeptIsCached
  BY DEF ImageInv
<1>2. QED
  BY <1>1, ImageInvariant, PTL

\* A texture that is handed out, by the cache or by the engine, is not destroyed and
\* was made from the url; from the engine only as an image and to a target that is
\* still there (loadWithTimeout checks both after the wait).
THEOREM HandedOutAlwaysUsable == Spec => HandedOutIsUsable
<1>1. ImageInv /\ [Next]_vars =>
        [\A l \in Loads :
           outcome[l] = None /\ outcome'[l] \in Textures =>
             /\ outcome'[l] \in valid' /\ made'[outcome'[l]] = req'[l].url
             /\ stage[l] # "none" => TargetIsValid(l) /\ req[l].url \notin NotImages]_vars
  <2>1. SUFFICES ASSUME ImageInv, [Next]_vars, NEW l \in Loads,
                        outcome[l] = None, outcome'[l] \in Textures
                 PROVE  /\ outcome'[l] \in valid' /\ made'[outcome'[l]] = req'[l].url
                        /\ stage[l] # "none" => TargetIsValid(l) /\ req[l].url \notin NotImages
    OBVIOUS
  <2>2. ImageTypes /\ CacheInv /\ outcome'[l] # outcome[l]
    BY <2>1, Outcomes DEF ImageInv, CacheInv
  <2> DEFINE Usable == /\ outcome'[l] \in valid' /\ made'[outcome'[l]] = req'[l].url
                       /\ stage[l] # "none" => TargetIsValid(l) /\ req[l].url \notin NotImages
  <2>3. Failures \cap Textures = {}
    BY <2>1, Outcomes
  <2>4. ASSUME NEW k \in Loads, NEW r \in LoadOf, Requested(k, r)
        PROVE  Usable
    <3>1. k = l /\ stage[l] = "none" /\ GetImage(r.url) # None /\ outcome'[l] = GetImage(r.url)
      BY <2>1, <2>2, <2>3, <2>4 DEF Requested, ImageTypes
    <3>2. req'[l] = r /\ r.url \in Urls
      BY <2>2, <2>4, <3>1 DEF Requested, ImageTypes, LoadOf
    <3>3. GetImage(r.url) \in valid /\ made[GetImage(r.url)] = r.url
      BY <2>2, <3>1, <3>2, FoundInCache
    <3>4. UNCHANGED <<made, valid>>
      BY <2>4 DEF Requested
    <3>5. QED
      BY <3>1, <3>2, <3>3, <3>4
  <2>5. ASSUME NEW k \in Loads, Raced(k)
        PROVE  Usable
    <3>1. k = l /\ req' = req
      BY <2>1, <2>2, <2>5 DEF Raced, Race, ImageTypes
    <3>2. ~ \E why \in Failures : Race(l, why)
      BY <2>1, <2>2, <2>3 DEF Race, ImageTypes
    <3>3. Answers(l)
      BY <2>5, <3>1, <3>2 DEF Raced
    <3>4. PICK x \in Textures : /\ made' = [made EXCEPT ![x] = req[l].url]
                                /\ valid' = valid \cup {x}
                                /\ Race(l, Fulfilled(l, x))
      BY <2>2, <3>3 DEF Answers, ImageTypes
    <3>5. outcome'[l] = Fulfilled(l, x)
      BY <2>1, <2>2, <3>4 DEF Race, ImageTypes
    <3>6. outcome'[l] = x /\ TargetIsValid(l) /\ req[l].url \notin NotImages
      BY <2>1, <2>3, <3>5, Outcomes
    <3>7. QED
      BY <2>2, <3>1, <3>4, <3>6 DEF ImageTypes
  <2>6. QED
    BY <2>1, <2>2, <2>4, <2>5, LoadSteps
<1>2. QED
  BY <1>1, ImageInvariant, PTL DEF Spec, HandedOutIsUsable


-----------------------------------------------------------------------------
(* The calls again: what they leave on window, and who takes it away.        *)

(***************************************************************************)
(* The functions of a call on window come and go together, and its timer   *)
(* runs as long as they are there.  They are there for a call that is      *)
(* pending if it waits for anything, and may stay behind a refused one     *)
(* that has no hasCallback, until the timer fires.                         *)
(***************************************************************************)
WindowIsTimed ==
    /\ callbacks \subseteq Calls /\ progressCbs = callbacks /\ timers = callbacks
    /\ \A c \in Calls :
        /\ promise[c] = "none" => native[c] = "idle" /\ c \notin callbacks
        /\ promise[c] = "pending" =>
             (c \in callbacks <=> opts[c].hasCallback \/ opts[c].onProgress)
        /\ promise[c] = "resolved" => c \notin callbacks
        /\ promise[c] = "rejected" /\ c \in callbacks =>
             platform = "android" /\ native[c] = "idle" /\ ~opts[c].hasCallback

(***************************************************************************)
(* A load's call is as far as the load: it has functions on window exactly *)
(* while its image is downloaded, so that a late answer finds none.        *)
(***************************************************************************)
DownloadIsCall ==
    \A l \in Loads :
        /\ stage[l] = "none" => promise[l] = "none"
        /\ stage[l] = "download" => promise[l] = "pending"
        /\ l \in callbacks <=> stage[l] = "download"

WindowInv ==
    /\ BindingType /\ opts \in [Calls -> Options]
    /\ WindowIsTimed

\* At first there is nothing on window.
LEMMA WindowInvInit == Init => WindowInv
BY DEF Init, BindingInit, WindowInv, BindingType, WindowIsTimed, Default, Options

\* What a step of the binding leaves of window.
LEMMA WindowInvStep ==
    ASSUME WindowInv, [BindingNext]_bindingVars
    PROVE  WindowInv'
<1> USE DEF WindowInv, BindingType, WindowIsTimed
<1>1. CASE UNCHANGED bindingVars
  BY <1>1 DEF bindingVars, window
<1>2. ASSUME NEW c \in Calls, NEW o \in Options, CallTaken(c, o)
      PROVE  WindowInv'
  <2>1. CASE o.hasCallback \/ o.onProgress
    BY <1>2, <2>1 DEF CallTaken, Registered
  <2>2. CASE ~(o.hasCallback \/ o.onProgress)
    BY <1>2, <2>2 DEF CallTaken, Registered, window
  <2>3. QED
    BY <2>1, <2>2
<1>3. ASSUME NEW c \in Calls, NEW o \in Options, CallRefused(c, o)
      PROVE  WindowInv'
  <2>1. CASE platform = "android" /\ ~o.hasCallback /\ o.onProgress
    BY <1>3, <2>1 DEF CallRefused, Registered
  <2>2. CASE ~(platform = "android" /\ ~o.hasCallback /\ o.onProgress)
    <3>1. UNCHANGED <<callbacks, progressCbs, timers>>
      BY <1>3, <2>2 DEF CallRefused, Registered, window
    <3>2. QED
      BY <1>3, <3>1 DEF CallRefused
  <2>3. QED
    BY <2>1, <2>2
<1>4. ASSUME NEW c \in Calls, CallTimesOut(c)
      PROVE  WindowInv'
  <2>1. ClearCallback(c) /\ Settle(c, "rejected") /\ UNCHANGED <<platform, opts, native, heard>>
    BY <1>4 DEF CallTimesOut
  <2>2. BindingType' /\ opts' \in [Calls -> Options]
    BY <2>1 DEF Settle
  <2>3. QED
    BY <2>1, <2>2 DEF ClearCallback, Settle
<1>5. ASSUME NEW c \in Calls, NEW how \in {"resolved", "rejected"}, NativeResult(c, how)
      PROVE  WindowInv'
  <2>1. CASE c \in callbacks
    <3>1. /\ ClearCallback(c) /\ Settle(c, how) /\ UNCHANGED <<platform, opts, heard>>
          /\ native' = [native EXCEPT ![c] = "done"]
      BY <1>5, <2>1 DEF NativeResult
    <3>2. BindingType' /\ opts' \in [Calls -> Options]
      BY <3>1 DEF Settle
    <3>3. promise[c] # "none"
      BY <2>1
    <3>4. QED
      BY <3>1, <3>2, <3>3 DEF ClearCallback, Settle
  <2>2. CASE c \notin callbacks
    BY <1>5, <2>2 DEF NativeResult, window
  <2>3. QED
    BY <2>1, <2>2
<1>6. ASSUME NEW c \in Calls, NativeProgress(c)
      PROVE  WindowInv'
  BY <1>6 DEF NativeProgress, window
<1>7. QED
  BY <1>1, <1>2, <1>3, <1>4, <1>5, <1>6 DEF BindingNext

\* Every function on window has its timer running, and a call that is waited for has
\* its functions there until the answer or the timer takes them away and settles it
\* (callNativeMethod, clearCallback): no order of answers, late answers and time-outs
\* leaves a call pending without a timer, or a function on window without one.
THEOREM WindowAlwaysTimed == Spec => []WindowIsTimed
<1>1. WindowInv /\ [Next]_vars => WindowInv'
  BY StepsOfBinding, WindowInvStep
<1>2. WindowInv => WindowIsTimed
  BY DEF WindowInv
<1>3. QED
  BY <1>1, <1>2, WindowInvInit, PTL DEF Spec

\* What a call of its own leaves of the other calls.
LEMMA OtherCalls ==
    ASSUME WindowInv, NEW c \in Calls, NEW d \in Calls \ {c},
           \/ \E o \in Options : CallTaken(c, o) \/ CallRefused(c, o)
           \/ CallTimesOut(c)
           \/ NativeProgress(c)
           \/ \E how \in {"resolved", "rejected"} : NativeResult(c, how)
    PROVE  promise'[d] = promise[d] /\ (d \in callbacks' <=> d \in callbacks)
BY DEF WindowInv, BindingType, WindowIsTimed, CallTaken, CallRefused, CallTimesOut,
       NativeProgress, NativeResult, Registered, ClearCallback, Settle, window

\* At first no load is made, and no call.
LEMMA DownloadIsCallInit == Init => DownloadIsCall
BY LoadsAssumption DEF Init, BindingInit, DownloadIsCall

\* A load and its call go on together.
LEMMA DownloadIsCallStep ==
    ASSUME ImageTypes, WindowInv, DownloadIsCall, [Next]_vars
    PROVE  DownloadIsCall'
<1> DEFINE Fits(l) == /\ stage[l] = "none" => promise[l] = "none"
                      /\ stage[l] = "download" => promise[l] = "pending"
                      /\ l \in callbacks <=> stage[l] = "download"
<1>0. /\ Loads \subseteq Calls /\ \A l \in Loads : Fits(l)
      /\ stage \in [Loads -> {"none", "download", "engine", "over"}]
  BY LoadsAssumption DEF DownloadIsCall, ImageTypes
<1>1. SUFFICES ASSUME NEW l \in Loads PROVE Fits(l)'
  BY DEF DownloadIsCall
<1>2. ASSUME UNCHANGED bindingVars,
             \/ UNCHANGED stage
             \/ \E m \in Loads : /\ stage[m] # "download"
                                 /\ \E to \in {"engine", "over"} : stage' = [stage EXCEPT ![m] = to]
      PROVE  Fits(l)'
  BY <1>0, <1>2 DEF bindingVars, window
<1>3. ASSUME UNCHANGED stage, NEW c \in Calls \ Loads,
             \/ \E o \in Options : CallTaken(c, o) \/ CallRefused(c, o)
             \/ CallTimesOut(c)
             \/ NativeProgress(c)
             \/ \E how \in {"resolved", "rejected"} : NativeResult(c, how)
      PROVE  Fits(l)'
  <2>1. promise'[l] = promise[l] /\ (l \in callbacks' <=> l \in callbacks)
    BY <1>0, <1>3, OtherCalls
  <2>2. QED
    BY <1>0, <1>3, <2>1
<1>4. ASSUME NEW m \in Loads, LoadByNative(m, req'[m])
      PROVE  Fits(l)'
  <2>1. Default \in Options /\ Default.hasCallback
    BY DEF Default, Options
  <2>2. CASE CallTaken(m, Default) /\ stage' = [stage EXCEPT ![m] = "download"]
    <3>1. CASE l = m
      BY <1>0, <2>1, <2>2, <3>1 DEF CallTaken, Registered, WindowInv, BindingType
    <3>2. CASE l # m
      <4>1. promise'[l] = promise[l] /\ (l \in callbacks' <=> l \in callbacks)
        BY <1>0, <2>1, <2>2, <3>2, OtherCalls
      <4>2. QED
        BY <1>0, <2>2, <3>2, <4>1
    <3>3. QED
      BY <3>1, <3>2
  <2>3. CASE CallRefused(m, Default) /\ stage' = [stage EXCEPT ![m] = "over"]
    <3>1. UNCHANGED callbacks
      BY <2>1, <2>3 DEF CallRefused, window
    <3>2. stage[m] = "none"
      BY <1>4 DEF LoadByNative, Request
    <3>3. CASE l = m
      BY <1>0, <2>3, <3>1, <3>2, <3>3
    <3>4. CASE l # m
      <4>1. promise'[l] = promise[l]
        BY <1>0, <2>1, <2>3, <3>4, OtherCalls
      <4>2. QED
        BY <1>0, <2>3, <3>1, <3>4, <4>1
    <3>5. QED
      BY <3>3, <3>4
  <2>4. QED
    BY <1>4, <2>2, <2>3 DEF LoadByNative
<1>5. ASSUME NEW m \in Loads, Downloaded(m)
      PROVE  Fits(l)'
  <2>1. stage[m] = "download" /\ m \in callbacks
    BY <1>0, <1>5 DEF Downloaded
  <2>2. /\ CallTimesOut(m) \/ \E how \in {"resolved", "rejected"} : NativeResult(m, how)
        /\ \E to \in {"engine", "over"} : stage' = [stage EXCEPT ![m] = to]
    BY <1>5 DEF Downloaded, Fails
  <2>3. m \notin callbacks'
    BY <2>1, <2>2 DEF CallTimesOut, NativeResult, ClearCallback
  <2>4. CASE l = m
    BY <1>0, <2>2, <2>3, <2>4
  <2>5. CASE l # m
    <3>1. promise'[l] = promise[l] /\ (l \in callbacks' <=> l \in callbacks)
      BY <1>0, <2>2, <2>5, OtherCalls
    <3>2. QED
      BY <1>0, <2>2, <2>5, <3>1
  <2>6. QED
    BY <2>4, <2>5
<1>6. ASSUME NEW m \in Loads, LateResult(m)
      PROVE  Fits(l)'
  <2>1. stage[m] = "over" /\ m \notin callbacks /\ UNCHANGED stage
    BY <1>0, <1>6 DEF LateResult, imageVars
  <2>2. UNCHANGED <<promise, callbacks>>
    BY <1>6, <2>1 DEF LateResult, NativeResult, window
  <2>3. QED
    BY <1>0, <2>1, <2>2
<1>7. ASSUME NEW m \in Loads, LoadImg(m)
      PROVE  Fits(l)'
  <2>1. PICK r \in Requests :
          LoadCached(m, r) \/ LoadByEngine(m, r) \/ LoadByNative(m, r) \/ LoadOnIOS(m, r)
    BY <1>7 DEF LoadImg
  <2>2. stage[m] = "none" /\ req' = [req EXCEPT ![m] = r]
    BY <2>1 DEF LoadCached, LoadByEngine, LoadByNative, LoadOnIOS, Request
  <2>3. req'[m] = r
    BY <2>2 DEF ImageTypes
  <2>4. CASE LoadByNative(m, r)
    BY <1>4, <2>3, <2>4
  <2>5. CASE LoadCached(m, r) \/ LoadByEngine(m, r) \/ LoadOnIOS(m, r)
    BY <1>2, <2>2, <2>5 DEF LoadCached, LoadByEngine, LoadOnIOS
  <2>6. QED
    BY <2>1, <2>4, <2>5
<1>8. ASSUME NEW m \in Loads, LoadTimesOut(m) \/ Answers(m) \/ AnswersError(m)
      PROVE  Fits(l)'
  BY <1>2, <1>8 DEF LoadTimesOut, Answers, AnswersError, Fails
<1>9. ASSUME NEW c \in Games, GameCall(c) \/ GameCallTimesOut(c)
      PROVE  Fits(l)'
  BY <1>3, <1>9 DEF GameCall, GameCallTimesOut, imageVars, Games
<1>10. CASE SceneChange \/ UNCHANGED vars
  BY <1>2, <1>10 DEF SceneChange, vars, imageVars
<1>11. QED
  BY <1>5, <1>6, <1>7, <1>8, <1>9, <1>10 DEF Next

\* A load that waits for its download has a pending call with its functions on window
\* and its timer running, and after the download, its failure or its time-out it has
\* none: a late answer of the native side finds nothing to call (downloadFile,
\* loadWithTimeout), and no name is used twice.
THEOREM DownloadAlwaysCall == Spec => []DownloadIsCall
<1>1. ImageInv /\ WindowInv /\ DownloadIsCall /\ [Next]_vars => WindowInv' /\ DownloadIsCall'
  BY StepsOfBinding, WindowInvStep, DownloadIsCallStep DEF ImageInv
<1>2. QED
  BY <1>1, ImageInvariant, WindowInvInit, DownloadIsCallInit, PTL DEF Spec

\* A load that is asked for and not answered has its time-out running, and a load that
\* is answered has none (loadWithTimeout races every load, and the race of a load is
\* decided once): what fairness of the timers then makes of every load is LoadsSettle.
THEOREM WaitAlwaysTimed == Spec => []WaitIsTimed
<1>1. ImageInv => WaitIsTimed
  BY DEF ImageInv
<1>2. QED
  BY <1>1, ImageInvariant, PTL
=============================================================================
