# cocomat in TLA+

cocomat is a component library for Cocos Creator 2.4 games (TypeScript, under
`coco-mat/lib`) with an editor plugin that installs it (`packages/cocomat`).
Most of it is glue to the engine. What it adds of its own are managers that keep
state across asynchronous calls: which scenes were visited, which popup is on
screen and who waits, which sounds play, what is cached and referenced, what a
native call still owes. JavaScript runs one call back at a time, so there are no
data races; the interleavings are those of call backs, promises (microtasks),
timers, animations and scene changes.

`ffmpeg` is a copy of FFmpeg 4.3, which `build_android.sh` and `build_ios.sh` in it
build for the native video player. It is most of the repository by size and
little of it by concern: parsers, arithmetic and tables. What a model checker
reaches in it are the threads its decoders run on and the buffers they share.

`packages/cocomat/coco-mat/lib` is a copy of the library; the models translate
`coco-mat/lib`. Line numbers below and in the modules are lines of the file the
module's header names.

## Components

| Component | State it keeps | Operations | Hard behaviour | What makes it correct |
|---|---|---|---|---|
| CCMSceneManager | stack of scenes, data for the next one, loading guard, timer | init, startScene (4 modes), backScene, launch call backs, time-out | a load that is refused, never answers, or answers after its time-out | the stack follows the screen; a back lands where it aimed; the guard is always lifted |
| CCMPopup | current request, waiting queue, suspended stack, `locked`, node and prefab caches | show, hide, next, suspend, recycle, load, release | show gives way at two awaits; hide and next are animations and timers; popups live in a scene | one popup at a time, order of the queue, nobody forgotten, references balanced |
| CCMAudioManager | playing music and effects with their call backs, id of the background music | play*, pause*, resume*, stop* | clips load asynchronously while others are started and stopped; call backs run before the entry is deleted, and may call the manager | one music unless asked otherwise; every sound can be stopped; each ends with one onEnd |
| CCMAssetManager, CCMResKeeper, CCMResUtil | reference counts, dependencies of the scene and of persistent nodes, assets of each keeper | onSceneChange, cacheAsset, releaseAsset, releaseAssets | counts over a shared dependency graph, taken and given back in different places | an asset in use is not released, one out of use is |
| CCMImageLoader, CCMImageCache | list of cached textures, known keys | loadImg, getImage, saveTextureToMem | time-out racing the load, target destroyed, texture destroyed under the cache | one answer per call; never a destroyed texture; one entry per key |
| CCMSpineLoader, CCMZipLoader | none shared | loadSpine, load, toSkeletonData | failures along promise chains | every failure reaches the caller |
| CCMBinding, CCMRouter | call backs on `window`, timers | callNativeMethod | answer, progress and time-out in any order | settled once, call backs deleted once |
| CCMVideo | current and target state, seek time, background flag | play, pause, resume, stop, clip, player events, onShow/onHide | events of the player cross calls | the player does what was last asked once it can |
| CCMCategoryView | items, visible window, node map, recycle pools, dirty items | setAdapter, scrolling, setCategoryIndex, update | nodes are recycled while binding is deferred | a node shows one item; the window is contiguous and bound |
| CCMPicker | current index, scheduled call back | setCurrentIndex, scrolling | fling, snap and call back overlap | the index reported is the one the wheel rests on |
| CCMToast, CCMBackBtn | one static node | show, dismiss, hide | asynchronous creation; node destroyed with its scene | a toast that is asked for is shown |
| CCMHanzi | character data, stroke counter, touch points | setter of char, touches | data of several characters under way | the strokes checked are those of the character shown |
| Editor plugin | directories of the project | install, restore, module exclusion | several file operations, one dialog | nothing is removed before it is confirmed |
| ffmpeg: frame threads | state of each context, its packet and frame, slots of the queue, who may use the accelerator | decode, receive, flush, free; the worker's loop; call backs, progress | five condition variables and five locks; a packet refers to the frames of others | frames in order, none lost; the client called only inside its calls; every call returns |
| ffmpeg: slice threads | job counters, progress of rows | execute, execute2, report and await progress, free | counters shared by threads, one condition for several rows | each job once, under distinct numbers; a row behind the row above; every call returns |
| ffmpeg: buffers and pools | reference counts, free list | get, ref, unref, make_writable, uninit | counts without a lock, a pool that ends while it is used | a writer is alone; blocks are in one place; the pool is freed once, last |
| ffmpeg: the rest | bit streams, files, filter graphs | - | one thread each | formats and numbers, out of a model checker's reach |
| CCMCapture, CCMFitWidget, CCMSDFLabel, CCMLog, CCMTraceTool, CCMUtils, CCMResLoader | none to speak of | - | - | - |

Who uses whom: the image loader uses CCMBinding (native download) and the image
cache, the spine loader the zip loader, the zip loader CCMBinding. Popups,
toasts and the back button put their nodes into the running scene and lose them
when the scene changes; the asset manager hooks every scene change; the scene
manager is the usual cause of one. A frame-threaded decoder takes its frames from
a buffer pool on several threads; a decoder has frame threads or slice threads,
not both.

## Modules

| Module | Models |
|---|---|
| `CCMSceneManager` | `CCMSceneManager/CCMSceneManager.ts` over the engine's director and `setTimeout` |
| `SceneNavigation` | abstract: a history of scenes and atomic navigation steps |
| `CCMSceneManager_proofs` | the theorems about `CCMSceneManager` |
| `CCMPopupManager` | `CCMPopup/CCMPopupManager.ts` and `CCMPopupBase.ts` over promises, animations, scheduled calls and scene changes |
| `CCMPopupManager_proofs` | the theorems about `CCMPopupManager` |
| `CCMAudioManager` | `CCMAudioManager/CCMAudioManager.ts` over loading clips and `cc.audioEngine` |
| `CCMAudioManager_proofs` | the theorems about `CCMAudioManager` |
| `CCMVideo` | `CCMVideo/CCMVideo.ts` over a device's or a browser's player |
| `CCMCategoryView` | `CCMCategoryView/CCMCategoryView.ts` over a scroll view |
| `CCMViews_proofs` | the theorems about `CCMVideo` and `CCMCategoryView` |
| `CCMBinding` | `CCMBinding/CCMBinding.ts` over a native side that answers once, late or never |
| `CCMImageLoader` | `CCMLoader/CCMImageLoader.ts` and `CCMImageCache.ts` on top of `CCMBinding`, over the engine's loader |
| `CCMImageLoader_proofs` | the theorems about the image cache, loads and native calls |
| `CCMHanzi` | `CCMHanzi/CCMHanziCharacter.ts` and `CCMHanziWriter.ts` |
| `FrameThreads` | `ffmpeg/libavcodec/pthread_frame.c` over any codec and client |
| `FrameThreads_proofs` | the theorems about `FrameThreads` |
| `SliceThreads` | `ffmpeg/libavutil/slicethread.c`, `libavcodec/pthread_slice.c` and the rows of `hevcdec.c` |
| `SliceThreads_proofs` | the theorems about `SliceThreads`, the refinement of `ForkJoin` among them |
| `ForkJoin` | abstract: what `execute` promises |
| `BufferPool` | `ffmpeg/libavutil/buffer.c` |
| `BufferPool_proofs` | the theorems about `BufferPool` |
| `MC...` | the instances of each for TLC: scenes, uses, setups, lists |

An operator whose comment calls it a mutant, or that is named after a slip
(`CompletedKeepsTarget`), is a broken variant of the definition below it. It is
not part of the specification; it shows which slip in the code a property would
catch.

### CCMSceneManager

The first five variables are the class's fields. `timers`, `loads` and `running` are the
outside world: timers not yet fired, loads the director has taken (by slot), the
scene on screen. `launchData` and `threw` only record history. Each request
(`StartScene`, `BackScene`) is one step, up to the answer of `loadScene`, because
the code runs it without giving way; each launch call back, the timer and a load
that is dropped without a call back are others. Nothing ties a call back to the
timer: a load may answer after its time-out, when other requests have been made.

Two constants carry assumptions about the surroundings. `InitFirst`: the
application calls `init` before it starts a scene, as the comment of `init` asks.
`Slots`: how many loads the director carries at once. Cocos Creator 2.4 carries
one and refuses others, so the properties about the stack are checked and proved
with one slot; the guard's properties hold for any number. Not modelled: the
director calling the launch call back with an error (the code ignores its
arguments and would treat it as a launch).

### CCMPopupManager

`show` is an async function. `pc[r]` says at which await the call for request
`r` stands, and each action runs from one await to the next. `next` runs in a
scheduled call back; its own `show` is part of the same step when it needs no
load. A microtask runs before the next event of the engine. In `suspend` the
code after the await (`_current = null`) and the rest of `show` are separated by
microtasks only, which `EngineTurn` says.

Nodes are numbered like the request that instantiated them. "limbo" is an active
node that has no parent: `next` makes a node active again without attaching it.

`use`, chosen at the start from `Uses` and kept, is how the application uses the
manager: which requests it makes and how many, what may fail, be released or be
loaded early, whether the scene may change. A use that is `settled` does what an
application does with the default times: it calls `show` in turns of its own, an
immediate request comes when the popup on screen is at rest, and the interval
(0.05 s) is shorter than an animation (0.3 s). The order of the queue and the
references of the cache hold in every use; the other properties are about settled
ones, and say so.

Not modelled: a second `hide()` on a popup that is already closing, `hide()` with
no popup (a TypeError at once), a `show` whose prefab lacks CCMPopupBase.

### CCMAudioManager

A call is identified with the sound it asks for, and `pc` says how far it has
come: it stops the other music, its clip loads, the promise is to go on, the sound
plays but its id is to be recorded. The state of each sound in the engine (`sound`)
is external. `ends` counts the calls of each `onEnd`, up to two.

The loops over a map (60-81, 105-112) run the application's call backs, and so do a
sound that finishes (44-50) and one that fails (51-57); the entry is deleted only
when the call backs have returned (49, 79, 94, 110). A call back may call the manager
again, so a loop is not one step. `stack` holds, innermost first, a `Frame` for each
that has not ended: the keys it has not come to, the call back it is in (`at`: `"first"`
for `onStop`, `onComplete` and `onError`, `"last"` for `onEnd`, `onPause` and `onResume`),
and the call that plays when it ends (42). The steps are the stretches of code from one
call back to the next: `CallsBack` (the engine is told, a call back is called),
`FirstReturns` (`onEnd` is called), `LastReturns` (the entry is deleted), `LoopEnds`
(`playMusic` goes on and plays). The application's operations are possible between
them, in a call back, and everything of the engine and the promises only when `stack`
is empty. The maps keep the order of JavaScript's, because `forEach` raises at the
first sound without options, after the engine was told of it and before it was told
of those behind: `Raises` leaves everything that has not returned.

As with popups, `use` is chosen at the start: the calls (by clip or url, with or
without options), whether clips fail to load and `stopAll` is called, whether it is
`settled`, that is, calls in turns of its own with no microtask pending, and whether
its call backs call the manager (`nested`). No end is told too early and every sound
is tracked in every use; that an end is told only once is claimed where call backs
leave the manager alone, and `MCAudioNested` shows why; the other properties are about
settled uses, and say so.

Not modelled: volumes, and call backs of the application that raise themselves.

### CCMVideo

The component's two states, its memory of the background, and what the browser's
wrapper remembers (`loaded`) are variables; so are, external, the state of the
player, the queue of its events on their way, and whether the game is hidden.
`setup` is chosen at the start and kept: a device's or a browser's player, with
or without loop, and whether events may be `late`, that is, on their way while the
application calls or the game is hidden or shown. One step is one call, event or
change of the background, except that `onReadyToPlay` tells its handlers between
its two halves (432, 434), and they may call the component: `announcing`.

Not modelled: seek, buffering, sizes, textures, destruction, and node listeners
that call back in the middle of play, pause or stop.

### CCMCategoryView

y grows downwards, indices start at 1. `Measured` is `measureContent` for an
adapter; the two searches are one recursive function with the comparisons of
each. A window (`items`, `containers`) is the sequence of visible indices with
the nodes they have; `nodes[i]` says whether the node was bound since it was
given to item i. What `layoutItems` does is built of operators on a record of one
window, the dirty items and the pool (`Recycles`, `LaysOut`, `ExtendsBack`), which
`LaidOut` puts together. The pool is a count by type, because a pooled node differs from
no other of its type, and `made` counts the nodes instantiated. A scroll event
recycles, extends, and recomputes the focus in one step, as the handler does; a
frame (`Update`) binds the oldest dirty item.

Not modelled: a second `setAdapter` (the items are replaced while the windows keep
their indices), horizontal positions, item scale, and `prepareBuffer`, which
nothing calls.

### CCMBinding and CCMImageLoader

`CCMBinding` has the binding's actions and no specification of its own: a call of
a native method is made by somebody. `CCMImageLoader` makes some of them, to
download images on Android, and the game makes others, with every combination of
options. `callbacks` and `progressCbs` are the functions on `window`, by call; a
native answer that finds none is lost.

The race of `loadWithTimeout` settles once: `outcome`. What the loser of the race
brings later (`Answers` after `LoadTimesOut`) still goes into the cache, as in
the code, where the cache's proxy is inside the race. The reactions of promises
that a step settles run before anything else and are part of the step. On
Android the engine makes a new texture from each downloaded file; elsewhere it
returns the one it has. `setting` is what `setAutoReleaseRecursively` was last told;
a scene change destroys any of the textures that it may, and any targets.
`Filtered` keeps the items of the cache at some places, in their order, as the
filters of `trimCache` and `saveTextureToMem` do; it is not recursive, so that the
proofs reach it.

Not modelled: the pixels of local images, the formatting of native arguments.

### CCMHanzi

Requests of character data are under way by number, because the data of one may
arrive after that of another. `touch` and `median` carry a stroke from the start of a
touch to its end. `Careful` is what a careful game would do: it changes the
character only when nothing is loading, drawn or touched. Not modelled: the
geometry of strokes, the grid, animations.

### FrameThreads

A wait is a membership of the condition's set of sleepers; a signal wakes one of
them, a broadcast all. Locks that are held across a wait are variables, with
their owner; a section that is left only by waiting or unlocking is one step.
What the codec does between `setup` calls is any order of what it may do: ask for a
format and buffers, finish its setup, report progress, await an earlier frame,
release buffers, fail. `setup` tells codecs and clients apart where
`pthread_frame.c` does. Each step is a stretch between two points at which another
thread can tell the difference; `made` keeps the codec from repeating itself.

`Init` includes every way in which the creation of the workers can end.

Not modelled: the copying of contexts field by field, failed allocations.

### SliceThreads and ForkJoin

A worker holds its own mutex except while it waits, so waking it is one step. The
two counters (`firstJob`, `currentJob`) are atomic, and taking a number from one is
a step. A picture of HEVC rows is a setup whose jobs are rows of `cols` columns, each of which
waits for the row above (`Shift` columns ahead) and tells the row below; a row in
`broken` gives up and lets the others pass. Under the refinement of `ForkJoin` a call
is on from `Execute` until the calling thread has seen `done` or was the last
itself, and `todo` are the jobs that have not returned.

### BufferPool

A step is an atomic operation or a section of the pool's mutex that another thread
cannot observe half way; the section that takes or gives back a block is two, so
that dropping the lock shows. The gap between taking a block and counting it
as a user of the pool (`got`) is the code's. A thread reads or writes a buffer as long as
it likes, holding a reference. Not modelled: `av_buffer_realloc`, read-only
buffers, buffers outside a pool.

## Runs

| Run | Checks | Shows |
|---|---|---|
| scene | where a back lands, the home scene, the one timer, the guard, refinement | requests in every mode, refused, lost, late and timed-out loads: the manager is an atomic navigation history |
| popup | one on screen, the current one displayed, the queue's order, nobody overtaken, everybody served, cached prefabs held | five requests in a settled use; two or three at any moment, with failures, early loads, a release and a scene change |
| popup_immediate | violation of `ImmediateGoesOn` | an immediate request over a loading popup raises |
| audio | one music, each end reported, every sound tracked | music given as clips and effects that load; calls from call backs; any interleaving with `stopAll`, calls that raise half way and calls from call backs |
| video | the two states, the last call, the background, play honoured | all eight setups |
| category | no gap on screen, stale items are dirty, nodes are reused | two lists, scrolls, jumps and flings |
| image_loader | one item for a url, what is handed out is usable, loads and calls settle, nothing stays on `window`, no progress after the end | time-outs, late, lost and refused answers, a scene change, on three platforms |
| hanzi_complete | violation of `CompleteIsAll` | a test completes before the last stroke |
| frame_threads | frames in order, none lost at the end, call backs inside calls, one user of the accelerator, every call returns, no deadlock | seven kinds of codec and client |
| slice_threads | distinct thread numbers, the wave front, refinement of `ForkJoin`, every call returns | independent jobs, rows, broken rows, workers that could not be created |
| slice_threads_broken | violation of `ExecuteReturns` | a lost wake-up behind a broken row |
| buffer_pool | blocks in one place, a writer alone, the pool outlives its use and is freed | get, share, copy, write, release, uninit, memory exhausted |

What a run restricts is in its uses or setups and its cfg. Configurations kept
beside the runs check more of the same instances, and show what happens outside the
restrictions:

| Configuration | Result |
|---|---|
| `MCSceneOverlap` | without `init` and with two loads at once the guard, the timer and SINGLE_TOP hold |
| `MCSceneData` | violates `DataIsOfLaunch`: a refused request replaces the running scene's data |
| `MCPopupMore` | `TypeOK`, `SuspendedAreIntact`, `WaitersAreServed` hold |
| `MCPopupTestPopup` | violates `CurrentIsDisplayed`: with the buttons of TestPopup.ts an immediate request takes over the node of the suspended popup |
| `MCPopupLoadFails` | violates `WaitersAreServed`: after a failed load (118-123) those who wait are served only by a later `show` |
| `MCPopupPreload` | violates `ReleasedIsFree`: two overlapping loads of one prefab take two references, one release gives back one |
| `MCPopupChangeScene` | violates `WaitersGetScreen`: a popup destroyed with its scene stays current, and later ones wait for ever |
| `MCAudioNested` | violates `EndsOnce`: a call back that calls `stopAllMusic` or `playMusic` finds its own sound still in the map, and `onEnd` is called twice |
| `MCAudioMusic` | violates `OneMusic`: two musics loading at once both play |
| `MCAudioBGM` | violates `OneBGM`: two background musics loading at once both play |
| `MCAudioBare` | violates `CallsAreCarriedOut`: after a music without options every later one raises |
| `MCAudioStopAll` | violates `EndIsReported`: `stopAll` clears the call backs without calling them |
| `MCCategoryMore` | `ViewTypeOK`, `NodesAreTheWindow`, `FocusIsMiddle`, `ItemsGetBound` hold |
| `MCHanziLate` | violates `ShownIsAsked`: the data of an earlier character replaces that of a later one |
| `MCBufferMore` | `CountersCount` holds |

They run as `tlc -config MCPopupLoadFails.cfg MCPopupManager`, and so on.
`TopIsRunning`, `LoadingHasTimer`, `SingleTopIsUnique`, `PlayerAgrees`, `ReadyIsOnce`,
`KeptIsCached`, `JoinIsComplete` and `OneBGM` for clips have no configuration any more:
they are theorems.

Bounds. Scenes: three names, so that SINGLE_TOP can cut in the middle, and a
stack of up to four entries, so that a back can skip two temporary ones and still
have one to land on and one below. Two timers are enough to leave one running
behind the tracked one. Popups: five requests allow one on screen, one suspended,
two waiting and one more that a suspended popup becomes when its node has gone
(`next` makes a new request of it); two paths let requests share a prefab or not.
Audio: four sounds of every kind that is told apart, so that a map of two or
three has a first, a middle and a last; three where calls come at any moment (`most`
of a use, `MaxSounds` of all), which is two in a map and one that is asked for
meanwhile. `MaxDepth` of two lets a call back's call run call backs of its own, which
is what it takes to find an entry that is about to be deleted. Video: three sources, so that a source can
be replaced before and after it was read; two events on their way, an old and a
new one. Category view: a list that is more than twice the screen's height, with a
row that is not full, an empty category and a heading at both ends of the screen;
offsets above, inside and far below the content, so that a jump may leave the
window entirely. `MaxDirty` bounds the items that are left unbound when the user
scrolls on: two suffice to drop, reorder or double one.
Images: up to three loads of one url overlap, so that one is cached, one is late
and one comes after both; two textures let the second replace the first, one
target is destroyed by one scene change. Hanzi: a character of one stroke and one of
three. Frame threads: two contexts and three packets, so that the ring goes round,
with a seek in between; the user's thread and each worker wait only for the
context they are at and the one before it. Slice threads:
three threads, two calls, so that what one leaves behind is seen by the next,
and four rows, one more than there are threads. The broken-row run
has four threads and six rows: two rows wait for one condition when they are
`thread_count` apart. Buffers: three threads and two blocks, so that one writes while one
copies and one gives back; four references, so that allocation fails.

Deadlock is checked where threads must not stop (`frame_threads`, `buffer_pool`),
and not where the system may come to rest: all requests the bound allows have been
made and served.

## Fairness

Scenes: only the timer, because `setTimeout` fires unless it is cleared. The
director owes no answer, the user no call. So `GuardIsLifted` shows that the
timer alone keeps the manager usable.

Popups: loads and animations end, scheduled calls fire, microtasks run, and the
user closes each popup in the end. Fairness is on each request's own step; nobody
owes a call of `show`. An animation of a node that is destroyed never ends: its
action is disabled, and fairness does not help, which is what
`MCPopupChangeScene` shows.

Audio: none; its properties are about what was done.

Video: a source is read or fails, and the player's events arrive. The calls, the
background and the end of a video are owed by nobody.

Category view: frames are drawn (`Update` runs in each, 619), while the user
scrolls on as he likes.

Images and native calls: timers fire. The engine and the native side owe no
answer.

Threads: the scheduler runs every thread that can run, and codec functions return;
the client owes no call. Wake-ups that no signal caused, which POSIX allows, are
left out: every wait is in a loop on its condition, and they could only help.
Buffers, besides: a thread that waits for the pool's mutex gets it in the end
(strong fairness of `Release`, which the mutex may disable for a while).

## Findings

* **Immediate over a loading popup** (`popup_immediate`): `suspend` calls
  `request.popup.hide` before `popup` is set, and raises; the immediate popup is
  never shown and the loading one is shown twice.
* **Lost wake-up in slice threads** (`slice_threads_broken`): rows `r` and
  `r + thread_count` wait for the same `progress_cond`, for different rows, and
  `ff_thread_report_progress2` signals one sleeper (pthread_slice.c:181). When a broken row
  has let rows pass, both may sleep, and the signal may wake the one that
  has to go on waiting: `execute2` never returns. A broadcast would do.
* **Test completed early** (`hanzi_complete`): `draw` lowers `_strokeNum` to the
  strokes of the character it draws (CCMHanziCharacter.ts:80-82); after a character
  with fewer strokes `onComplete` comes before the last stroke.

Seen besides, in the configurations above or while reading:

* `startScene` writes the data for the next scene before the director answers; if it
  refuses, the scene on screen reads them.
* An immediate request for the path of the suspended Frequent popup takes over its
  node (TestPopup.ts); when the suspended popup is shown again the node has no parent.
* A failed load leaves the popups that wait unserved until the next `show`; a scene
  change leaves them so for good; overlapping loads leave a reference behind.
* `playBGM` stops the one whose id it knows, and learns the new id when the clip has
  loaded: two calls that overlap both play. Music without options records `undefined`
  as its call backs; every later `playMusic` raises before it plays.
* The manager calls back before it deletes the entry: an `onComplete`, `onStop` or `onEnd`
  that calls `playMusic` (which stops other music by default) or `stopAllMusic` stops its
  own sound again and gets `onEnd` twice; an `onEnd` that always does so recurses until
  the stack is full.
* `stopAll` tells nobody, and does not reset `bgmAudioID`.
* A video stopped before its end is told goes to COMPLETED when the event arrives;
  `play` after `stop` waits for a 'ready' that does not come before the clip is set
  again.
* `initialOffset` of a category view's adapter is optional in its type and is used
  in arithmetic without a default (263).
* An image in the cache is handed out without a look at the target
  (CCMImageLoader.ts:78-81), unlike one that is loaded; and what was cached although it
  was not a texture, and rejected at first, is handed out the second time.
* `callNativeMethod` with neither a call back nor `onProgress` never settles when
  it succeeds.
* The data of an earlier character may arrive last and replace the later one's.
* A toast whose static node went with its scene is neither null nor valid: no
  later toast is shown (CCMToast.ts:24).
* `CCMAssetManager` never assigns `sceneDepends`, so what an old scene held is not
  given back; it uses the items of cc.loader 2.3, and nothing imports it.
* The plugin's `restore` removes the directories before it asks (main.js:19).

## Proofs

Eight modules, `..._proofs`, hold the theorems. TLC checked each invariant
on the instance of its run before it was proved (of the category view's, which
quantifies over unbounded sets, the parts that the run and `MCCategoryMore` list);
the theorems are for every
value of the constants that the modules' ASSUMEs admit: sentinels are not ordinary
values, bounds are numbers, uses, setups and scenarios are of their type, there is a
timer and a slot, loads are calls, outcomes are not textures, blocks, references and
threads are finite sets, there are at least two threads, adapters have their type, and
sizes of items are positive. Some theorems have a
hypothesis of their own. Each is named here and holds of the settled uses in the
module's run, and the configurations above show what fails without it.

`CCMSceneManager_proofs`, for every set of scenes, data, timers and every depth:

* `TypeCorrect`: `Spec => []TypeOK`.
* `SingleTopAlwaysUnique`: an action property, of a launch on whatever the stack has
  become since its request; with or without `init`, for any number of slots.
* `TimerGuards`, `OnlyTrackedTimerRuns`: `LoadingHasTimer` and `OnlyTrackedTimer`, inductive
  together as they stand. The two need each other: `cancelCountDownTimer` clears the
  tracked timer only, and that is all timers because no other runs.
* `TopAlwaysRunning`, `BackTargetAlwaysHolds`, `HomeAlwaysKept`, `Refinement`:
  assuming `InitFirst` and one slot. The inductive invariant `NavInv` joins the
  three invariants with `LoadsAfterInit` (a load under way implies that the
  stack is not empty). `BackTargetHolds` is what makes a launch
  preserve `TopIsRunning`: with one slot, no call back changes the stack between
  a back's request and its own call back, even when the guard was lifted by the
  timer in between. `HomeIsKept` makes sure that the pop ends at an entry.
* The arithmetic under these is in lemmas on `TopKept`, `KeptByMode` and the
  stacks they cut.

`CCMPopupManager_proofs`, for any number of requests, prefabs and kinds of calls:

* `KnownInvariant`, `QueueAlwaysInOrder`: in every use, whatever fails, is released or
  is destroyed with its scene. `KnownInv` says besides that the lists hold requests
  that were made and that cached prefabs are held. The order of the queue needs the
  place `insert` finds (lemmas on `InsertAt`) and that requests are numbered in the order of
  their calls; a suspended popup whose node has gone comes back as a request of its own.
* `SettledInvariant`: assuming `RegularUses`: a settled use in which nothing
  fails, is released or is loaded early, the scene does not change, and no immediate
  request is for a prefab that another call keeps with its node (`IsRegular`). Each
  of these is an `MCPopup...` configuration with a counterexample. `SettledInv` says at
  which await each show may stand and what `_current`, `locked`, the queue, the
  suspended stack and the nodes are then. Its parts need each other: `OneGoing` (one show
  goes on at a time) is kept because the others find `locked` or a current popup
  (`Displacing`, `CurrentPlace`), and `Waiting`, that somebody will call next(), is what
  hands over between them.
* `OneAlwaysOnScreen`, `CurrentAlwaysDisplayed`, `CachedAlwaysHeld`, `WaitersAlwaysServed`,
  `SuspendedAlwaysIntact`, `NobodyOvertakes` follow from it, under the same assumption. Of
  `CachedIsHeld` the first half, a reference on each cached prefab, is `KnownInv` and needs
  none.

`CCMAudioManager_proofs`, for any number of sounds and any calls:

* `AudioInvariant`, `SoundsAlwaysTracked`: in every use, call backs that call the manager
  to any depth included. `AudioInv` ties the place of a call to the state of its sound,
  a map to what it holds (recorded, of its kind, once) and a frame of the stack to what
  it has still to do (`FrameHolds`: the sound whose end it tells is over and was recorded
  in no other map; the call it is to play has not played). Without the place of the
  call a sound could be lost between the engine's start and the microtask that records
  it. `Keeps` and `FrameKept` carry the frames that wait over every step.
* `EndsAlwaysReported`: no end before the sound is over, in every use; at most one `onEnd`
  where call backs leave the manager alone, because a map then holds no sound whose end
  was told but the one whose `onEnd` runs (`TellsOnce`); one for each sound that is over,
  assuming that settled uses leave `stopAll` alone (`MCAudioStopAll`), because what is over
  was told or is about to be (`EndsMatch`).
* `MusicAlwaysAlone`, `BGMAlwaysAlone`: assuming that settled uses give that music as clips
  (`ClipsOnly`; `MCAudioMusic` and `MCAudioBGM` give urls). The first needs `MusicIsAwaited`:
  while a call stops the other music, what still sounds is what its loop is to come to.
  The second needs `BGMIsHeld`: the background music that sounds is the one whose id the
  manager has.

`CCMViews_proofs`. `CCMVideo`, for every set of setups, number of sources and events
on their way:

* `SpecNothingIsPending`: `NothingIsPending`. It is silent while 'ready' is being
  announced, when the handlers may call `play`, `pause` or `stop`, so it is not
  inductive. `Pending` drops that exception where it is not needed: PLAYING, PAUSED
  and COMPLETED are the target at all times, and only PREPARED may have a target
  left, until line 434 has run. One lemma (`EffectsSettle`) says what each change
  asked for leaves behind, and is used for calls, the background and line 434.
* `SpecTypeOK`: type correctness, with the player's state closed under commands and
  the queue of events under telling and arriving.
* `VideoInvariant`: what the component and the player agree on although the events
  between them are on their way. `OnItsWay` says what an event under way means (an
  end is the last event of a player that has ended, which the component believes to be
  playing), `InStep` what holds in spite of them, `Wanted` that what was asked for
  last is the target, or the remembered one while in the background. These hold when
  calls come between events (`~setup.late`); `InBackground` and `BeforeReady` always.
* `AlwaysAsAsked`, `BackgroundAlwaysQuiet`, `PlayerAlwaysAgrees`, `ReadyAlwaysOnce` follow.

`CCMCategoryView`, in the same module, for every adapter, all sizes of items, screen and
spacing, and every scroll, fling and jump:

* What the two recursive functions of the model compute for every input.
  `MeasuredIsStacked`: what is measured is in order from top to bottom, by its ends as
  well, and every category ends where the next begins. `BinarySearchFinds`: over a
  sorted sequence the search ends at an index from which it goes neither way, or on one
  side of the place where `down` turns into `up`. Both are by induction along the
  natural numbers (`InductionTo`, from the library's well-founded induction on sets),
  with the function taken apart by `Iterates`.
* What each part of `layoutItems` does to one window. `Good` says that the books are kept:
  what was made of a type waits in the pool or is a node of the window (`Balanced`),
  there are never more than some screen needs (`Bounded`), and a node that is not bound
  waits to be (`Stale`); `Runs`, that the window is a run of neighbours from a to b.
  Recycling, extending and laying afresh keep both, and `FrontDone` and `BackDone` say what
  is then left out at the ends.
* `ViewInv`, the inductive invariant: both windows of a view that has an adapter are good
  runs (`Sound`), and once the layout has started each leaves nothing out that is on the
  screen (`FilledAt`). A window that lost items at one end need not be extended there,
  because what lies beyond the last item it kept is off the screen already; and what
  a search that ends in the middle of a row leaves out lies wholly above the screen.
* `SpecScreenIsFilled`, `SpecStaleIsDirty`, `SpecNodesAreReused`, `SpecNodesAreTheWindow`,
  `SpecViewTypeOK`, and the action property `SpecFocusIsMiddle` follow.

`CCMImageLoader_proofs`, for every set of calls, loads, urls, textures, targets and
scenarios:

* `SpecProgressInTime`: `ProgressInTime`. The inductive invariant,
  `ProgressIsWanted` (`SpecBindingInv`), says that whoever the native side still works
  for was taken on, and is pending if its `onProgress` is on `window`. Both parts
  are needed: a refused call leaves functions behind with its promise
  rejected, and only because the native side never ran it does nobody call them.
  `StepsOfBinding` reduces the loader's steps to the binding's own.
* `ImageInvariant`: an item's texture was made from the item's url, one item for a
  url, what was last asked to stay is not released by the engine and is in the
  cache, and a load is waited for exactly as long as its time-out runs. The lemmas say
  what `Filtered` leaves of a sequence.
* `CacheAlwaysUnique`, `KeptAlwaysCached`, and `HandedOutAlwaysUsable`, the action property: the
  check of the texture before it is handed out from the cache and the check of target
  and type after the wait do it together with the names of the items.
* `WindowAlwaysTimed`: the two functions of a call on `window` and its time-out come and
  go together, a pending call that waits for something has them, and who is not
  pending has none, but for a refused call without `hasCallback`. `DownloadAlwaysCall`: the
  call of a load has functions there exactly while it downloads. `WaitAlwaysTimed`: a
  load is undecided exactly as long as its time-out runs. With timers that fire these
  three are what `CallsSettle`, `NothingStays` and `LoadsSettle` come from.

`FrameThreads_proofs`, for any number of threads at least two, packets and seeks, and
every kind of codec and client:

* `LocksAgree`: `LockInv`, who may be where. `Mutexes` ties each mutex to the place of its
  owner, `Phases` the state of a context to the place of its worker, `SetupInCall` a
  context that asks for something to the user's thread in `submit_packet`, `ParkedSoFar` what
  `park_frame_worker_threads` has done, `Serialized` the accelerator's two locks to the flags
  of the contexts.
* `CallbacksAlwaysInsideCall`, `AcceleratorAlwaysExclusive` follow from it.
* `RingInOrder`: `RingInv`, on top of `LockInv`: the contexts that wait to be collected
  are among the `Filled` places from `next_finished` on, in the order of their packets,
  and the frames owed to the client are in them. A distance around the ring (`Behind`) states it without
  a case for each place at which the ring begins again.
* `FramesAlwaysInOrder`, an action property, and `DrainAlwaysComplete` follow from both.
* `NobodyWaitsInVain`: in every state of a call the guard of the next step of the client's
  thread or of a worker holds (`UserCan`, `WorkerCan`). It is what `CallReturns` needs of the
  five conditions and the locks. `WakeInv`, on top of the other two, says who sleeps on
  which condition and that what he waits for has not happened (`InputSleepers`,
  `ProgressSleepers`, `OutputSleepers`). One signal is enough because
  nobody else sleeps there; on the condition of progress, shared by answers, set-ups
  and frames, that is so because the one packet being submitted has the last number
  and a codec awaits only frames with lower ones (`Numbered`). `LocksHeld`,
  `AsyncHeld` and `Stages` say from where to where the locks are held. Then the
  worker with the earliest packet can go on, unless another worker has the accelerator
  while the first one's set-up is open. Set-ups follow each other (`SetupInTurn`), so
  that packet is the newest as well as the earliest; the other worker has no earlier frame
  to await, and goes on. With no worker at a packet the client's thread can go on.

`SliceThreads_proofs`, for any number of threads at least two, jobs, rows, columns
and calls:

* `PoolInvariant`: the counters as cardinalities. As long as a call is on, `first_job` and the
  participants that have not asked for a number make up the active threads, and
  `current_job` beyond `nb_jobs` counts the participants that have ended; hence one of them,
  and one only, finds itself the last.
* `NumbersAlwaysDistinct`, `JoinAlwaysComplete`, and `PoolImplementsForkJoin`, step by step:
  the return of a call is one of `ForkJoin` because `CurrentCounts` leaves no job to be run.
* `WavefrontAlwaysAhead`: `RowInv` adds what each row has reported: what it has decoded, and
  `Shift` more at its end. `progress_cond` does not occur: who is woken in vain tests
  again, so a lost wake-up (see Findings) costs liveness and not this.
* `NeverAllWait`: unless a row can be broken (`Whole`), in every state of a call of `execute`
  or `free` the guard of some thread's next step holds (`MainCan`, `ThreadCan`). This is
  what `ExecuteReturns` needs of the locks and conditions, and what the finding refutes for
  broken rows. While workers are woken, waited for or freed it follows from
  `LastReports` and `FreeWakes`. Among threads that decode rows: no row is
  done before those above it (`RowsInOrder`), so those in hand span fewer than there are
  threads, which is how many conditions there are, and no two threads sleep on one
  (`SameCondition`, `RowsInHand`, `OneSleeper`). A signal then wakes the thread it is meant
  for, and who sleeps is in a row whose predecessor is not yet far enough
  (`SleepersWait`). So the thread with the least row in hand can go on.

`BufferPool_proofs`, for any finite sets of blocks, references and threads:

* `BufferInvariant`: `refcount` is the number of references, `users` the number of the owner's
  handle, the buffers counted and the threads that return one, and each block is in
  one place. A buffer that was taken and is not counted yet (`got`) is out of the
  count, and the handle that its thread still has keeps the pool.
* `WriterAlwaysAlone`: whoever found the count at one holds that one reference, and
  nobody can copy a reference he has not (`Holding`). `PoolAlwaysOutlivesUse`,
  `BlocksAlwaysOnce`: from the count of users and from `OnePlace`.
* `CountersAlwaysCount`: `CountersCount`, the equation of both counters; the buffers in
  use that are not counted are as many as the threads at `got`, each of which has one.

Only model-checked:

* The liveness properties `GuardIsLifted`, `WaitersGetScreen`, `PlayIsHonoured`,
  `ItemsGetBound`, `LoadsSettle`, `CallsSettle`, `NothingStays`, `CallReturns`,
  `ExecuteReturns` and `PoolIsFreed`, and the absence of deadlock: liveness and ENABLED
  are out of the prover's reach. Of some the part that is safety is proved: `TimerGuards`
  (`GuardIsLifted`), `WaitersAlwaysServed` (`WaitersGetScreen`), `WindowAlwaysTimed` and
  `WaitAlwaysTimed`, `SpecStaleIsDirty` (`ItemsGetBound`), `NeverAllWait` (`ExecuteReturns`),
  `NobodyWaitsInVain` (`CallReturns`).
* The type invariants of the components
  whose invariants above contain the types they need.
* The three violations and the configurations that show one are TLC's
  counterexamples.

## Not modelled

* `CCMAssetManager` and its keepers: the code is written for an engine it does not
  run on and nothing reaches it; what is left is a set of assets per keeper.
* `CCMPicker`, `CCMToast`, `CCMBackBtn`: one value and one call back each.
* `CCMSpineLoader`, `CCMZipLoader`, `CCMResLoader`: promise chains without state of
  their own.
* Layout, materials, capture, logging, tracing, the editor plugin: no state, or
  files.
* The rest of ffmpeg: single-threaded transformations of bit streams and files.
  Their correctness is that of numbers over long inputs. They are most of the
  repository's lines, so the models stand for a small share of these.

## Plan

Done: the scene manager with its abstract history; the popup and the audio
manager; the video; the category view; native calls and the image loader;
characters; the threads and buffers of the decoders, with the abstract fork and
join. Proved: every safety property that a run checks and that is expected to
hold, and what some liveness properties rest on.

Further models: popups composed with the scene manager, so that a scene change
is a launch rather than an action of its own; a second adapter of the category
view; frame threads over the buffer pool.
