--------------------------- MODULE CCMPopupManager ---------------------------
(***************************************************************************)
(* lib/CCMPopup: the popup manager (CCMPopupManager.ts) over the animations *)
(* of its popups (CCMPopupBase.ts).  show() is an async function: it runs  *)
(* in one piece up to an await and goes on in a later microtask, and other *)
(* calls, animations and loads get in between.  pc[r] says where the show  *)
(* of request r stands:                                                    *)
(*    queued      in the waiting queue                                     *)
(*    suspending  awaits the hide animation of the popup it displaces      *)
(*    hidden      that animation has ended, suspend() is to go on (262)    *)
(*    resuming    suspend() has returned, show is to go on (102)           *)
(*    yielded     as resuming, but suspend() found nothing to hide (253)   *)
(*    loading     awaits the prefab (114)                                  *)
(*    loaded, failed  the load has ended, show is to go on (116)           *)
(*    done        its popup was shown, or the prefab did not load          *)
(*    stuck       it raised, or awaits what cannot come: it never goes on  *)
(*                                                                         *)
(* A request and the popup node instantiated for it have the same number.  *)
(* A node is shown or hidden (active or not, in the scene), detached       *)
(* (inactive, without parent), limbo (active, without parent: on no        *)
(* screen) or dead (destroyed).                                            *)
(***************************************************************************)
EXTENDS Naturals, SequencesExt

CONSTANTS
    Paths,          \* prefab paths
    Uses,           \* the ways in which applications use the manager
    MaxRequests     \* bound: request objects made

CacheModes == {"Once", "Normal", "Frequent"}
Call == [path : Paths, mode : CacheModes, priority : Nat, immediately : BOOLEAN]

Use == [calls : SUBSET Call,        \* the requests made, after parseParams
        mayFail : SUBSET Paths,     \* the paths whose load may end with an error
        mayRelease : SUBSET Paths,  \* the paths release() is called on
        settled : BOOLEAN,          \* calls at rest and the default times: see
                                    \* AppTurn, AnimationEnds and ShowImmediately
        requests : 0 .. MaxRequests,    \* bound of this use
        preloads : Nat,     \* bound: calls of load() under way on a path
        scenes : Nat]       \* bound: scene changes

ASSUME UsesAssumption == \A u \in Uses : u \in Use
ASSUME BoundAssumption == MaxRequests \in Nat

VARIABLES
    use,        \* the way this application uses the manager
    requests,   \* the requests made, in the order of the calls
    pc,
    popup,      \* CCMPopupRequest.popup and .node: a node, 0 for undefined
    current, queue, suspended, locked,
    scheduled,  \* finish call backs that wait for the interval to pass (153)
    due,        \* finish call backs that are to call next() (155)
    node,       \* the state of each popup node
    finisher,   \* whose finishCallback (144-157) a node's popup holds
    closing,    \* nodes in a hide animation that is not a suspension
    waiters,    \* the shows that await the suspending hide of a node
    nodeCache, prefabCache,
    refs,       \* references the manager holds on each prefab (316, 342)
    preloads,   \* application calls of load() that await the engine
    scenes      \* scene changes so far

shows == <<requests, pc, popup>>
lists == <<current, queue, suspended, locked>>
intervals == <<scheduled, due>>
nodes == <<node, finisher, closing, waiters>>
caches == <<nodeCache, prefabCache, refs>>
state == <<shows, lists, intervals, nodes, caches, preloads, scenes>>
vars == <<use, state>>

Requests == 1 .. MaxRequests
Made == 1 .. Len(requests)
NodeStates == {"none", "shown", "hidden", "detached", "limbo", "dead"}
ShowStates == {"none", "queued", "suspending", "hidden", "resuming", "yielded",
               "loading", "loaded", "failed", "done", "stuck"}

TypeOK ==
    /\ use \in Uses
    /\ requests \in Seq(Call) /\ Len(requests) <= MaxRequests
    /\ pc \in [Requests -> ShowStates]
    /\ popup \in [Requests -> Requests \cup {0}]
    /\ current \in Requests \cup {0}
    /\ queue \in Seq(Requests) /\ suspended \in Seq(Requests)
    /\ locked \in BOOLEAN
    /\ scheduled \in Nat /\ due \in Nat
    /\ node \in [Requests -> NodeStates]
    /\ finisher \in [Requests -> Requests \cup {0}]
    /\ closing \in SUBSET Requests
    /\ waiters \in [Requests -> SUBSET Requests]
    /\ nodeCache \in [Paths -> Requests \cup {0}]
    /\ prefabCache \in SUBSET Paths
    /\ refs \in [Paths -> Nat]
    /\ preloads \in [Paths -> Nat]
    /\ scenes \in Nat

Init ==
    /\ use \in Uses
    /\ requests = <<>>
    /\ pc = [r \in Requests |-> "none"]
    /\ popup = [r \in Requests |-> 0]
    /\ current = 0 /\ queue = <<>> /\ suspended = <<>>
    /\ locked = FALSE
    /\ scheduled = 0 /\ due = 0
    /\ node = [n \in Requests |-> "none"]
    /\ finisher = [n \in Requests |-> 0]
    /\ closing = {}
    /\ waiters = [n \in Requests |-> {}]
    /\ nodeCache = [p \in Paths |-> 0]
    /\ prefabCache = {}
    /\ refs = [p \in Paths |-> 0]
    /\ preloads = [p \in Paths |-> 0]
    /\ scenes = 0

-----------------------------------------------------------------------------
(* An operator named after a slip is the mutant of the definition below it. *)

\* cc.isValid(request.popup).
HasPopup(r) == popup[r] # 0 /\ node[popup[r]] # "dead"

\* Its popup is on screen and no hide animation runs on it.
AtRest(r) ==
    /\ popup[r] # 0
    /\ node[popup[r]] = "shown"
    /\ popup[r] \notin closing
    /\ waiters[popup[r]] = {}

\* Microtasks run when the frame or the event handler in hand has ended.
Microtasks == due > 0 \/ \E r \in Requests :
    pc[r] \in {"hidden", "resuming", "yielded", "loaded", "failed"}

\* Between suspend() and the rest of show nothing but microtasks run.  Settled:
\* the application calls in turns of its own, not in a frame where an animation,
\* a load or an interval has ended, and once in a turn.
EngineTurn ==
    \A r \in Requests : pc[r] # "resuming" /\ (use.settled => pc[r] # "yielded")
AppTurn == EngineTurn /\ (use.settled => ~Microtasks)

\* Settled: the interval is shorter than an animation, as by default (0.05
\* and 0.3 seconds), so it has passed when a later animation ends.
AnimationEnds == EngineTurn /\ (use.settled => scheduled + due = 0)

\* Lines 136-159: x is the request in _current, which may not be r's own.
DisplaysWithoutParent(r, x, n) ==
    /\ popup' = [popup EXCEPT ![x] = n]
    /\ node' = [node EXCEPT ![n] = IF @ = "detached" THEN "limbo" ELSE "shown"]
    /\ finisher' = [finisher EXCEPT ![n] = r]
    /\ pc' = [pc EXCEPT ![r] = "done"]
Displays(r, x, n) ==
    /\ popup' = [popup EXCEPT ![x] = n]
    /\ node' = [node EXCEPT ![n] = "shown"]
    /\ finisher' = [finisher EXCEPT ![n] = r]
    /\ pc' = [pc EXCEPT ![r] = "done"]

\* getNodeFromCache, first half: the cached node, unless it was destroyed.
CachedNode(p) ==
    IF nodeCache[p] # 0 /\ node[nodeCache[p]] # "dead" THEN nodeCache[p] ELSE 0

\* Lines 101-159 up to the load.  A cached node stays in the cache while it
\* is on screen; a cached prefab holds a reference, so it is valid.
Begin(r, p) ==
    LET n == CachedNode(p)
    IN  /\ current' = r
        /\ nodeCache' = [nodeCache EXCEPT ![p] = n]
        /\ \/ n # 0 /\ Displays(r, r, n)
           \/ n = 0 /\ p \in prefabCache /\ Displays(r, r, r)
           \/ /\ n = 0 /\ p \notin prefabCache
              /\ pc' = [pc EXCEPT ![r] = "loading"]
              /\ UNCHANGED <<popup, node, finisher>>
        /\ UNCHANGED <<closing, waiters, prefabCache, refs>>

\* push: the array sort is stable, so r goes behind its equals.
PushedLast(q, r, c) == Append(q, r)
Pushed(q, r, c) ==
    LET ahead == {i \in 1 .. Len(q) : requests[q[i]].priority >= c.priority}
    IN  InsertAt(q, Cardinality(ahead) + 1, r)

\* suspend(), as far as its await, called for r.
SuspendWithoutHide(r) ==
    /\ suspended' = IF current = 0 THEN suspended ELSE Append(suspended, current)
    /\ pc' = [pc EXCEPT ![r] = "yielded"]
    /\ UNCHANGED waiters
Suspend(r) ==
    \/ /\ current = 0
       /\ pc' = [pc EXCEPT ![r] = "yielded"]
       /\ UNCHANGED <<suspended, waiters>>
    \/ /\ current # 0
       /\ suspended' = Append(suspended, current)
       /\ IF HasPopup(current)
          THEN /\ waiters' = [waiters EXCEPT ![popup[current]] = @ \cup {r}]
               /\ pc' = [pc EXCEPT ![r] = "suspending"]
          ELSE /\ pc' = [pc EXCEPT ![r] = "stuck"]
               /\ UNCHANGED waiters

-----------------------------------------------------------------------------
(* Calls of the application. *)

ShowAtOnce(c) ==
    /\ current = 0 /\ ~locked
    /\ Begin(Len(requests) + 1, c.path)
    /\ UNCHANGED <<queue, suspended, locked>>

ShowLater(c) ==
    LET r == Len(requests) + 1
    IN  /\ current # 0 \/ locked
        /\ ~c.immediately
        /\ queue' = Pushed(queue, r, c)
        /\ pc' = [pc EXCEPT ![r] = "queued"]
        /\ UNCHANGED <<popup, current, suspended, locked, nodes, caches>>

ShowImmediately(c) ==
    /\ current # 0 \/ locked
    /\ c.immediately
    /\ (use.settled /\ current # 0) => AtRest(current)
    /\ locked' = FALSE
    /\ Suspend(Len(requests) + 1)
    /\ UNCHANGED <<popup, current, queue, node, finisher, closing, caches>>

\* show.
Show(c) ==
    /\ AppTurn
    /\ Len(requests) < use.requests
    /\ requests' = Append(requests, c)
    /\ ShowAtOnce(c) \/ ShowLater(c) \/ ShowImmediately(c)
    /\ UNCHANGED <<intervals, preloads, scenes>>

\* hide of the manager or of the popup itself; the blocker swallows the touch
\* on a popup already in a hide animation (CCMPopupBase.ts:72-81).
Hide(n) ==
    /\ AppTurn
    /\ node[n] = "shown"
    /\ n \notin closing /\ waiters[n] = {}
    /\ closing' = closing \cup {n}
    /\ UNCHANGED <<shows, lists, intervals, node, finisher, waiters, caches,
                   preloads, scenes>>

\* load, called by the application to have the prefab in the cache early.
Preload(p) ==
    /\ AppTurn
    /\ p \notin prefabCache
    /\ preloads[p] < use.preloads
    /\ preloads' = [preloads EXCEPT ![p] = @ + 1]
    /\ UNCHANGED <<shows, lists, intervals, nodes, caches, scenes>>

\* release of a prefab; one that is not in the cache is left alone (340).
Released(p) == IF p \in prefabCache THEN [refs EXCEPT ![p] = @ - 1] ELSE refs

\* release, called by the application: the cached node is destroyed even when
\* it is on screen.
Release(p) ==
    /\ AppTurn
    /\ p \in use.mayRelease
    /\ nodeCache' = [nodeCache EXCEPT ![p] = 0]
    /\ node' = [n \in Requests |-> IF n = nodeCache[p] THEN "dead" ELSE node[n]]
    /\ prefabCache' = prefabCache \ {p}
    /\ refs' = Released(p)
    /\ UNCHANGED <<shows, lists, intervals, finisher, closing, waiters, preloads,
                   scenes>>

-----------------------------------------------------------------------------
(* What the engine calls back. *)

\* The call back of cc.resources.load (310-318).
CachedWithoutAddRef(p) ==
    /\ prefabCache' = prefabCache \cup {p}
    /\ UNCHANGED <<refs, nodeCache>>
PrefabLoads(p) ==
    /\ prefabCache' = prefabCache \cup {p}
    /\ refs' = [refs EXCEPT ![p] = @ + 1]
    /\ UNCHANGED nodeCache

LoadEnds(r) ==
    LET p == requests[r].path
    IN  /\ EngineTurn
        /\ pc[r] = "loading"
        /\ \/ PrefabLoads(p) /\ pc' = [pc EXCEPT ![r] = "loaded"]
           \/ /\ p \in use.mayFail
              /\ pc' = [pc EXCEPT ![r] = "failed"]
              /\ UNCHANGED caches
        /\ UNCHANGED <<requests, popup, lists, intervals, nodes, preloads, scenes>>

PreloadEnds(p) ==
    /\ EngineTurn
    /\ preloads[p] > 0
    /\ preloads' = [preloads EXCEPT ![p] = @ - 1]
    /\ PrefabLoads(p) \/ (p \in use.mayFail /\ UNCHANGED caches)
    /\ UNCHANGED <<shows, lists, intervals, nodes, scenes>>

\* recycle.
Recycle(p, n, mode) ==
    /\ node' = [node EXCEPT ![n] = IF mode = "Frequent" THEN "detached" ELSE "dead"]
    /\ nodeCache' = [nodeCache EXCEPT ![p] = IF mode = "Frequent" THEN n ELSE 0]
    /\ prefabCache' = IF mode = "Once" THEN prefabCache \ {p} ELSE prefabCache
    /\ refs' = IF mode = "Once" THEN Released(p) ELSE refs

\* Line 148: until next() runs, those who wait keep newcomers out.
LocksForQueue == queue # <<>>
Locks == suspended # <<>> \/ queue # <<>>

\* The end of a hide animation (CCMPopupBase.ts:90-101) and finishCallback.
\* The engine runs animations of active nodes of the scene only.
HideEnds(n) ==
    LET r == finisher[n]
    IN  /\ AnimationEnds
        /\ n \in closing /\ node[n] = "shown"
        /\ closing' = closing \ {n}
        /\ locked' = Locks
        /\ Recycle(requests[r].path, n, requests[r].mode)
        /\ current' = 0
        /\ scheduled' = scheduled + 1
        /\ UNCHANGED <<shows, queue, suspended, due, finisher, waiters, preloads,
                       scenes>>

SuspendingHideEnds(n, r) ==
    /\ AnimationEnds
    /\ r \in waiters[n] /\ node[n] = "shown"
    /\ node' = [node EXCEPT ![n] = "hidden"]
    /\ waiters' = [waiters EXCEPT ![n] = @ \ {r}]
    /\ pc' = [pc EXCEPT ![r] = "hidden"]
    /\ UNCHANGED <<requests, popup, lists, intervals, finisher, closing, caches,
                   preloads, scenes>>

\* scheduleOnce, at the interval's end.
IntervalEnds ==
    /\ EngineTurn
    /\ scheduled > 0
    /\ scheduled' = scheduled - 1
    /\ due' = due + 1
    /\ UNCHANGED <<shows, lists, nodes, caches, preloads, scenes>>

\* External: the nodes of the scene are destroyed, and what was scheduled on
\* its Canvas (153) with them.  Detached nodes belong to no scene.
ChangeScene ==
    /\ AppTurn
    /\ scenes < use.scenes
    /\ scenes' = scenes + 1
    /\ node' = [n \in Requests |->
                    IF node[n] \in {"shown", "hidden"} THEN "dead" ELSE node[n]]
    /\ scheduled' = 0
    /\ UNCHANGED <<shows, lists, due, finisher, closing, waiters, caches, preloads>>

-----------------------------------------------------------------------------
(* Microtasks. *)

\* The rest of suspend (262).
SuspendReturns(r) ==
    /\ pc[r] = "hidden"
    /\ current' = 0
    /\ pc' = [pc EXCEPT ![r] = "resuming"]
    /\ UNCHANGED <<requests, popup, queue, suspended, locked, intervals, nodes,
                   caches, preloads, scenes>>

\* show, after suspend has returned.
ShowResumes(r) ==
    /\ pc[r] \in {"yielded", "resuming"}
    /\ Begin(r, requests[r].path)
    /\ UNCHANGED <<requests, queue, suspended, locked, intervals, preloads, scenes>>

\* show, after the load.  Without a current request the write of line 136
\* raises; with another one the popup becomes that request's.
LoadReturns(r) ==
    /\ pc[r] = "loaded" /\ refs[requests[r].path] > 0
    /\ IF current = 0
       THEN pc' = [pc EXCEPT ![r] = "stuck"] /\ UNCHANGED <<popup, node, finisher>>
       ELSE Displays(r, current, r)
    /\ UNCHANGED <<requests, lists, intervals, closing, waiters, caches, preloads,
                   scenes>>

\* Lines 118-122: the prefab did not load, or was released meanwhile.
LoadFails(r) ==
    /\ pc[r] = "failed" \/ (pc[r] = "loaded" /\ refs[requests[r].path] = 0)
    /\ current' = 0
    /\ pc' = [pc EXCEPT ![r] = "done"]
    /\ UNCHANGED <<requests, popup, queue, suspended, locked, intervals, nodes,
                   caches, preloads, scenes>>

\* next.
NextForgetsSuspended ==
    /\ current # 0 \/ queue = <<>>
    /\ UNCHANGED <<shows, current, queue, suspended, locked, nodes, caches>>
NextIdle ==
    /\ current # 0 \/ (suspended = <<>> /\ queue = <<>>)
    /\ UNCHANGED <<shows, current, queue, suspended, locked, nodes, caches>>

\* Lines 220-226: the popup still exists.  Nothing gives it a parent again.
NextResumes ==
    /\ current = 0 /\ suspended # <<>>
    /\ LET r == Head(suspended)
       IN  /\ HasPopup(r)
           /\ current' = r
           /\ node' = [node EXCEPT ![popup[r]] =
                          IF @ \in {"detached", "limbo"} THEN "limbo" ELSE "shown"]
    /\ suspended' = Tail(suspended)
    /\ locked' = FALSE
    /\ UNCHANGED <<shows, queue, finisher, closing, waiters, caches>>

\* Line 228 for a suspended request: show makes a new request of it.
NextShowsAgain ==
    /\ current = 0 /\ suspended # <<>>
    /\ LET c == requests[Head(suspended)]
       IN  /\ ~HasPopup(Head(suspended))
           /\ Len(requests) < use.requests
           /\ requests' = Append(requests, c)
           /\ Begin(Len(requests) + 1, c.path)
    /\ suspended' = Tail(suspended)
    /\ locked' = FALSE
    /\ UNCHANGED queue

\* Line 228 for a waiting request, which has no popup yet.
NextShows ==
    /\ current = 0 /\ suspended = <<>> /\ queue # <<>>
    /\ Begin(Head(queue), requests[Head(queue)].path)
    /\ queue' = Tail(queue)
    /\ locked' = FALSE
    /\ UNCHANGED <<requests, suspended>>

NextRuns ==
    /\ due > 0
    /\ due' = due - 1
    /\ NextIdle \/ NextResumes \/ NextShowsAgain \/ NextShows
    /\ UNCHANGED <<scheduled, preloads, scenes>>

-----------------------------------------------------------------------------
Next ==
    /\ \/ \E c \in use.calls : Show(c)
       \/ \E n \in Requests : Hide(n) \/ HideEnds(n)
       \/ \E n, r \in Requests : SuspendingHideEnds(n, r)
       \/ \E p \in Paths : Preload(p) \/ PreloadEnds(p) \/ Release(p)
       \/ \E r \in Made : \/ LoadEnds(r) \/ SuspendReturns(r) \/ ShowResumes(r)
                          \/ LoadReturns(r) \/ LoadFails(r)
       \/ IntervalEnds \/ NextRuns
       \/ ChangeScene
    /\ UNCHANGED use

\* Microtasks run, scheduled calls fire, animations and loads end; the user
\* closes each popup in the end (Hide).  Nobody owes a call of show.  The use does
\* not change, so it is left out of the subscripts.
Fairness ==
    /\ WF_state(IntervalEnds) /\ WF_state(NextRuns)
    /\ \A r \in Requests :
        /\ WF_state(Hide(r)) /\ WF_state(HideEnds(r))
        /\ \A n \in Requests : WF_state(SuspendingHideEnds(n, r))
        /\ WF_state(r \in Made /\ LoadEnds(r))
        /\ WF_state(r \in Made /\ (SuspendReturns(r) \/ ShowResumes(r)
                                    \/ LoadReturns(r) \/ LoadFails(r)))

Spec == Init /\ [][Next]_vars /\ Fairness

-----------------------------------------------------------------------------
(* Properties. *)

\* At most one popup is on screen, and it is the current one's: the displaced
\* popup has gone before the displacing one comes (88-102, 144-155).  As in
\* the properties below, the calls are made while the popup on screen is at rest.
OneOnScreen ==
    use.settled => \A n \in Requests : node[n] = "shown" => current # 0 /\ popup[current] = n

\* The waiting queue is ordered by priority, and by the order of the calls
\* within one priority ("shown first", line 381).
QueueInOrder ==
    \A i, j \in 1 .. Len(queue) : i < j =>
        LET a == requests[queue[i]].priority
            b == requests[queue[j]].priority
        IN  a > b \/ (a = b /\ queue[i] < queue[j])

\* A request waits only while something is there that ends by calling next():
\* a current request, a next() on its way or a show about to go on.
WaitersAreServed ==
    (use.settled /\ (queue # <<>> \/ suspended # <<>>)) =>
        \/ current # 0
        \/ scheduled + due > 0
        \/ \E r \in Requests : pc[r] \in {"yielded", "resuming"}

\* A suspended popup waits off screen with its node intact, so next() can
\* show it without loading it again (219-226), and it waits once.
SuspendedAreIntact == use.settled =>
    /\ IsInjective(suspended)
    /\ \A i \in 1 .. Len(suspended) :
        LET n == popup[suspended[i]]
        IN  n # 0 /\ (node[n] = "hidden" \/ (node[n] = "shown" /\ waiters[n] # {}))

\* A cached prefab is held by a reference, so getNodeFromCache may use it
\* (189-193), whatever loads, failures and scene changes overlap; and where loads
\* do not overlap the manager holds one reference on each prefab of its cache and
\* none on any other, though popups of one prefab come and go in any mode and a
\* second one may have it released under the first (275-279, 315-316, 339-344).
CachedIsHeld ==
    /\ \A p \in prefabCache : refs[p] > 0
    /\ use.settled => \A p \in Paths : refs[p] = IF p \in prefabCache THEN 1 ELSE 0

\* Once: "destroys the node at once, the prefab is released with it" (line 6).
ReleasedIsFree == \A p \in Paths \ prefabCache : refs[p] = 0

\* "Shows the next suspended or waiting popup" (line 202): a current popup
\* that has its node is on a screen or leaving it.
CurrentIsDisplayed ==
    (use.settled /\ current # 0 /\ popup[current] # 0) => node[popup[current]] \in {"shown", "hidden"}

\* A request that is not immediate goes on screen past nobody who waits, the
\* time between two popups included: locked covers it (88, 148, 218).
NoOvertaking ==
    [][\A c \in use.calls :
         (use.settled /\ Show(c) /\ ~c.immediately /\ (queue # <<>> \/ suspended # <<>>)) =>
            queue' # queue]_vars

\* "Shown at once (suspends the popup being shown)" (line 383): no show of an
\* immediate request is given up or waits for what cannot come.
ImmediateGoesOn ==
    \A r \in Made : requests[r].immediately => pc[r] # "stuck"

\* Every request that waits is served, as long as users close popups.
WaitersGetScreen ==
    (use.settled /\ (queue # <<>> \/ suspended # <<>>)) ~> (queue = <<>> /\ suspended = <<>>)

=============================================================================
