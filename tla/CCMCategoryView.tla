---------------------------- MODULE CCMCategoryView ----------------------------
(***************************************************************************)
(* lib/CCMCategoryView/CCMCategoryView.ts: a scrolled list of categories,  *)
(* each a heading over a grid of items.  Only the items around the screen  *)
(* have nodes; nodes of others wait in a pool to be used again.  What a    *)
(* scroll brings in is laid out at once and bound to its data later, one   *)
(* item in each frame; what a jump brings in is bound at once.             *)
(*                                                                         *)
(* The y axis points down here: an item has the top it is laid at, and     *)
(* offset is the scroll offset.  Indices count from 1, and 0 is no index   *)
(* (-1).  Horizontal positions and scale are left out.  A node is known by *)
(* its item and by whether it was bound since it was given to it, a pooled *)
(* node by its type.  The adapter is set once.                             *)
(***************************************************************************)
EXTENDS Integers, SequencesExt

CONSTANTS
    Adapters,       \* the data sets the view may be given
    NoAdapter,
    Columns,        \* items in a row (390)
    ItemHeight, CategoryHeight, HeaderHeight, Spacing, Padding,
    ViewHeight,     \* height of the view's node
    WinHeight,      \* cc.winSize.height
    HasContainer,   \* rows have containers
    Offsets,        \* bound: where the user scrolls to
    Flings,         \* bound: where inertia brings the content
    MaxDirty        \* bound: dirty items left when the user scrolls on

\* header: there is header data; counts: the number of items of each category.
Adapter == [header : BOOLEAN, counts : Seq(Nat), initialOffset : Nat]

ASSUME AdaptersAssumption == Adapters \subseteq Adapter /\ NoAdapter \notin Adapters
ASSUME SizesAssumption ==
    /\ {Columns, ItemHeight, CategoryHeight, HeaderHeight} \subseteq Nat \ {0}
    /\ {Spacing, Padding, ViewHeight, WinHeight} \subseteq Nat
ASSUME ScrollAssumption == HasContainer \in BOOLEAN /\ Offsets \cup Flings \subseteq Int /\ MaxDirty \in Nat

VARIABLES
    adapter,
    canLayout,
    offset,             \* external: getCurrentOffset()
    autoScrolling,      \* external: the content goes on by itself
    items,              \* the window of items
    containers,         \* the window of containers
    dirtyItems,         \* items to bind, oldest first
    free,               \* the recycle pool: nodes of each type
    made,               \* history: nodes instantiated of each type
    currentCategoryIndex, targetCategoryIndex

layout == <<items, containers, dirtyItems, free, made>>
focus == <<currentCategoryIndex, targetCategoryIndex>>
viewVars == <<adapter, canLayout, offset, autoScrolling, layout, focus>>

-----------------------------------------------------------------------------
(* The contents of an adapter: measureContent. *)

Types == {"ITEM", "HEADER", "CATEGORY", "CONTAINER"}
\* A view item; end is where its category ends.
View(type, top, height, invisible, end) ==
    [type |-> type, top |-> top, height |-> height, invisible |-> invisible, end |-> end]

\* What is measured so far: the items, the headings among them, the containers of
\* the rows, and the height they use.
MeasuredHeader(a) ==
    LET header == IF a.header
                  THEN <<View("HEADER", Padding, HeaderHeight, FALSE, Padding + HeaderHeight)>>
                  ELSE <<>>
    IN  [items |-> header, categories |-> header, containers |-> <<>>,
         used |-> IF a.header THEN Padding + HeaderHeight ELSE Padding]

Rows(n) == (n + Columns - 1) \div Columns
RowHeight == ItemHeight + Spacing

\* A category of n items: its heading, the items, and the invisible ones that fill
\* its last row.
MeasuredCategory(m, n) ==
    LET top == m.used + CategoryHeight
        end == top + Rows(n) * RowHeight
        heading == View("CATEGORY", m.used, CategoryHeight, FALSE, end)
        InRow(type, row, invisible) ==
            View(type, top + row * RowHeight, ItemHeight, invisible, end)
    IN  [items |-> Append(m.items, heading)
                     \o [k \in 1 .. Rows(n) * Columns |->
                           InRow("ITEM", (k - 1) \div Columns, k > n)],
         categories |-> Append(m.categories, heading),
         containers |-> m.containers
                          \o [k \in 1 .. Rows(n) |-> InRow("CONTAINER", k - 1, FALSE)],
         used |-> end]

Measured(a) ==
    LET upTo[c \in 0 .. Len(a.counts)] ==
            IF c = 0 THEN MeasuredHeader(a)
            ELSE MeasuredCategory(upTo[c - 1], a.counts[c])
    IN  upTo[Len(a.counts)]

MeasuredOf == [a \in Adapters |-> Measured(a)]

\* How far a view lies above and below the screen; negative: not wholly.
Above(v, o) == o - (v.top + v.height)
Below(v, o) == v.top - (o + WinHeight)

-----------------------------------------------------------------------------
(* The binary search of findFirstVisibleIndex and findFocusCategoryIndex: it *)
(* ends with an index from which it goes neither up nor down, or the last    *)
(* probed.  go[m] says where the comparisons send it from index m.           *)

Going(up, down) == IF up THEN "up" ELSE IF down THEN "down" ELSE "here"

\* A round of the loop; one that has ended goes on without a change.
Probed(p, go) ==
    LET m == (p.l + p.h) \div 2
    IN  IF p.l > p.h THEN p
        ELSE [l |-> IF go[m] = "down" THEN m + 1 ELSE p.l,
              h |-> IF go[m] = "up" THEN m - 1 ELSE p.h,
              m |-> m]
BinarySearch(go) ==
    LET after[rounds \in 0 .. Len(go)] ==
            IF rounds = 0 THEN [l |-> 1, h |-> Len(go), m |-> 1]
            ELSE Probed(after[rounds - 1], go)
    IN  after[Len(go)].m

FirstVisibleIndex(list, o) ==
    BinarySearch([m \in 1 .. Len(list) |->
        Going(Above(list[m], o) < 0, Above(list[m], o) > ItemHeight)])

\* y is what lies on the middle of the view.
FocusCategoryIndex(list, y) ==
    BinarySearch([m \in 1 .. Len(list) |-> Going(y < list[m].top, y >= list[m].end)])

-----------------------------------------------------------------------------
(* A window is what has nodes of a list, of the items or the containers:    *)
(*    visible   indices into the list (visibleItems)                       *)
(*    nodes     a node for each of them (item4node): is it bound?          *)
(* The layout works on a record of the window, the dirty items and the pool. *)

NoWindow == [visible |-> <<>>, nodes |-> <<>>]

MutableItems == {"ITEM"}
Mutable == {"CATEGORY", "ITEM"}
Interval(a, b) == [k \in 1 .. b - a + 1 |-> a + k - 1]
CountOf(list, I, t) == Cardinality({i \in I : list[i].type = t})

\* recycleItem for the indices I.
RecyclesNothing(list, w, I) ==
    [w EXCEPT !.nodes = [i \in DOMAIN @ \ I |-> @[i]]]
Recycles(list, w, I) ==
    [w EXCEPT !.nodes = [i \in DOMAIN @ \ I |-> @[i]],
              !.free = [t \in Types |-> @[t] + CountOf(list, I, t)]]

\* layoutItem for the indices I: pooled nodes first, then new ones.  Headers are
\* bound when they are measured, containers never (559-561).
LaysOut(list, w, I, bound) ==
    LET lack(t) == CountOf(list, I, t) - w.free[t]
    IN  [w EXCEPT
           !.nodes = [i \in I \cup DOMAIN @ |->
                         IF i \in I THEN bound \/ list[i].type \in {"HEADER", "CONTAINER"}
                         ELSE @[i]],
           !.free = [t \in Types |-> IF lack(t) < 0 THEN -lack(t) ELSE 0],
           !.made = [t \in Types |-> IF lack(t) > 0 THEN @[t] + lack(t) ELSE @[t]]]

\* Those of the indices I that are to be bound and do not wait for it already.
ToBind(list, dirty, I) == {i \in I : list[i].type \in Mutable /\ i \notin ToSet(dirty)}
Ascending(I) ==
    [k \in 1 .. Cardinality(I) |-> CHOOSE i \in I : Cardinality({j \in I : j <= i}) = k]

\* The scan from the front ends at the first item that is not wholly above.
RecyclesFront(list, w, o) ==
    LET passed == {k \in DOMAIN w.visible :
                     \A j \in 1 .. k : Above(list[w.visible[j]], o) >= 0}
        far == {k \in passed : Above(list[w.visible[k]], o) >= ItemHeight}
    IN  IF far = {} THEN w
        ELSE [Recycles(list, w, {w.visible[k] : k \in far})
                EXCEPT !.visible = SubSeq(@, Max(far) + 1, Len(@))]
RecyclesBack(list, w, o) ==
    LET passed == {k \in DOMAIN w.visible :
                     \A j \in k .. Len(w.visible) : Below(list[w.visible[j]], o) >= 0}
        far == {k \in passed : Below(list[w.visible[k]], o) >= ItemHeight}
    IN  IF far = {} THEN w
        ELSE [Recycles(list, w, {w.visible[k] : k \in far})
                EXCEPT !.visible = SubSeq(@, 1, Min(far) - 1)]

\* The last index, from i on, of those not far below.
LastNear(list, i, o) ==
    LET near == {k \in i .. Len(list) : \A j \in i .. k : Below(list[j], o) < ItemHeight}
    IN  Max({i - 1} \cup near)
\* The first index, from i up, of those not far above.
FirstNear(list, i, o) ==
    LET near == {k \in 1 .. i : \A j \in k .. i : Above(list[j], o) < ItemHeight}
    IN  Min({i + 1} \cup near)

\* The window was empty: what is laid out is bound at once (577-587).
LaysAfresh(list, w, o) ==
    LET first == FirstVisibleIndex(list, o)
        last == LastNear(list, first, o)
    IN  [LaysOut(list, w, first .. last, TRUE) EXCEPT !.visible = Interval(first, last)]

ExtendsFront(list, w, o) ==
    LET old == Head(w.visible) - 1
        first == FirstNear(list, old, o)
    IN  [LaysOut(list, w, first .. old, FALSE) EXCEPT
           !.visible = Interval(first, old) \o @,
           !.dirtyItems = @ \o Reverse(Ascending(ToBind(list, @, first .. old)))]
ExtendsBack(list, w, o) ==
    LET old == Last(w.visible) + 1
        last == LastNear(list, old, o)
    IN  [LaysOut(list, w, old .. last, FALSE) EXCEPT
           !.visible = @ \o Interval(old, last),
           !.dirtyItems = @ \o Ascending(ToBind(list, @, old .. last))]

\* layoutItems: a window that lost items at an end is not extended there.
LaidOutWhereRecycled(list, w, o) ==
    LET front == RecyclesFront(list, w, o)
        kept == RecyclesBack(list, front, o)
        above == IF kept = front THEN ExtendsFront(list, kept, o) ELSE kept
    IN  IF kept.visible = <<>> THEN LaysAfresh(list, kept, o)
        ELSE IF front = w THEN ExtendsBack(list, above, o) ELSE above
LaidOut(list, w, o) ==
    LET front == RecyclesFront(list, w, o)
        kept == RecyclesBack(list, front, o)
        above == IF front = w THEN ExtendsFront(list, kept, o) ELSE kept
    IN  IF kept.visible = <<>> THEN LaysAfresh(list, kept, o)
        ELSE IF kept = front THEN ExtendsBack(list, above, o) ELSE above

-----------------------------------------------------------------------------
(* The layout of the view, as a record: what _moveContent and resetLayout    *)
(* do to it.                                                                *)

Layout == [items |-> items, containers |-> containers, dirtyItems |-> dirtyItems,
           free |-> free, made |-> made]

\* work is applied to the window called name, with the dirty items and the pool.
WorkOn(l, name) == [visible |-> l[name].visible, nodes |-> l[name].nodes,
                    dirtyItems |-> l.dirtyItems, free |-> l.free, made |-> l.made]
OnWindow(l, name, work(_)) ==
    LET w == work(WorkOn(l, name))
    IN  [l EXCEPT ![name] = [visible |-> w.visible, nodes |-> w.nodes],
                  !.dirtyItems = w.dirtyItems, !.free = w.free, !.made = w.made]

ListOf(name) == MeasuredOf[adapter][name]

\* fn is done for the items, then for the containers if there are any.
OnWindows(l, fn(_, _)) ==
    LET m == OnWindow(l, "items", LAMBDA w : fn(ListOf("items"), w))
    IN  IF HasContainer
        THEN OnWindow(m, "containers", LAMBDA w : fn(ListOf("containers"), w))
        ELSE m

\* layoutItems before the layout has started does nothing (570).
MovesContent(l, o) == OnWindows(l, LAMBDA list, w : LaidOut(list, w, o))

ResetLayout(l) ==
    [OnWindows(l, LAMBDA list, w :
         [Recycles(list, w, ToSet(w.visible)) EXCEPT !.visible = <<>>])
       EXCEPT !.dirtyItems = <<>>]

Becomes(l) ==
    /\ items' = l.items /\ containers' = l.containers
    /\ dirtyItems' = l.dirtyItems
    /\ free' = l.free /\ made' = l.made

MoveContent(l, o) ==
    /\ offset' = o
    /\ Becomes(IF canLayout' THEN MovesContent(l, o) ELSE l)

-----------------------------------------------------------------------------
ViewInit ==
    /\ adapter = NoAdapter /\ canLayout = FALSE
    /\ offset = 0 /\ autoScrolling = FALSE
    /\ items = NoWindow /\ containers = NoWindow
    /\ dirtyItems = <<>>
    /\ free = [t \in Types |-> 0] /\ made = [t \in Types |-> 0]
    /\ currentCategoryIndex = 1 /\ targetCategoryIndex = 0

Categories == MeasuredOf[adapter].categories

FocusCategory(index) ==
    currentCategoryIndex' =
        IF index \in 1 .. Len(Categories) + 1 THEN index ELSE currentCategoryIndex
FocusCategoryByOffset(o) ==
    FocusCategory(FocusCategoryIndex(Categories, o + ViewHeight \div 2))

\* The header's node is made and bound when its height is measured (374-377).
SetAdapter(a) ==
    /\ adapter = NoAdapter
    /\ adapter' = a
    /\ free' = [free EXCEPT !["HEADER"] = IF a.header THEN 1 ELSE 0]
    /\ made' = [made EXCEPT !["HEADER"] = IF a.header THEN 1 ELSE 0]
    /\ UNCHANGED <<canLayout, offset, autoScrolling, items, containers, dirtyItems, focus>>

\* The call scheduled by setAdapter (261-265).
LayoutStarts ==
    /\ adapter # NoAdapter /\ ~canLayout
    /\ canLayout' = TRUE
    /\ MoveContent(Layout, adapter.initialOffset)
    /\ FocusCategoryByOffset(adapter.initialOffset)
    /\ UNCHANGED <<adapter, autoScrolling, targetCategoryIndex>>

\* A touch, the wheel or inertia moves the content.
Scroll(o) ==
    /\ adapter # NoAdapter /\ o # offset
    /\ Len(dirtyItems) <= MaxDirty
    /\ UNCHANGED canLayout
    /\ MoveContent(Layout, o)
    /\ UNCHANGED <<adapter, autoScrolling, focus>>

SetCategoryIndex(index) ==
    /\ adapter # NoAdapter
    /\ index # currentCategoryIndex
    /\ currentCategoryIndex' = index
    /\ autoScrolling' = FALSE
    /\ UNCHANGED canLayout
    /\ MoveContent(ResetLayout(Layout), Categories[index].top - Spacing)
    /\ UNCHANGED <<adapter, targetCategoryIndex>>

Press ==
    /\ adapter # NoAdapter
    /\ targetCategoryIndex' = 0
    /\ autoScrolling' = FALSE
    /\ UNCHANGED <<adapter, canLayout, offset, layout, currentCategoryIndex>>

\* The touch ends and no inertia follows.
Release ==
    /\ adapter # NoAdapter /\ ~autoScrolling
    /\ FocusCategoryByOffset(offset)
    /\ UNCHANGED <<adapter, canLayout, offset, autoScrolling, layout, targetCategoryIndex>>

\* Inertia will bring the content to o.
StartAutoScroll(o) ==
    /\ adapter # NoAdapter
    /\ autoScrolling' = TRUE
    /\ targetCategoryIndex' = FocusCategoryIndex(Categories, o + ViewHeight \div 2)
    /\ UNCHANGED <<adapter, canLayout, offset, layout, currentCategoryIndex>>

\* 'scroll-ended-with-threshold'.
AutoScrollEnds ==
    /\ autoScrolling
    /\ autoScrolling' = FALSE
    /\ FocusCategory(targetCategoryIndex)
    /\ UNCHANGED <<adapter, canLayout, offset, layout, targetCategoryIndex>>

\* The frame's update: the oldest dirty item is bound if it still has a node.
Update ==
    /\ dirtyItems # <<>>
    /\ dirtyItems' = Tail(dirtyItems)
    /\ LET i == Head(dirtyItems)
       IN  items' = IF i \in DOMAIN items.nodes /\ ~ListOf("items")[i].invisible
                    THEN [items EXCEPT !.nodes[i] = TRUE] ELSE items
    /\ UNCHANGED <<adapter, canLayout, offset, autoScrolling, containers, free, made, focus>>

ViewNext ==
    \/ \E a \in Adapters : SetAdapter(a)
    \/ LayoutStarts
    \/ \E o \in Offsets : Scroll(o)
    \/ \E o \in Flings : StartAutoScroll(o)
    \/ \E index \in 1 .. (IF adapter = NoAdapter THEN 0 ELSE Len(Categories)) :
           SetCategoryIndex(index)
    \/ Press \/ Release \/ AutoScrollEnds
    \/ Update

\* The engine draws frames.
ViewSpec == ViewInit /\ [][ViewNext]_viewVars /\ WF_viewVars(Update)

-----------------------------------------------------------------------------
(* Properties. *)

IsWindow(w, list) ==
    /\ w.visible \in Seq(DOMAIN list)
    /\ w.nodes \in [DOMAIN w.nodes -> BOOLEAN]

ViewTypeOK ==
    /\ adapter \in Adapters \cup {NoAdapter}
    /\ {canLayout, autoScrolling} \subseteq BOOLEAN
    /\ offset \in Int
    /\ dirtyItems \in Seq(Nat)
    /\ free \in [Types -> Nat] /\ made \in [Types -> Nat]
    /\ currentCategoryIndex \in Nat /\ targetCategoryIndex \in Nat
    /\ adapter # NoAdapter =>
          /\ IsWindow(items, ListOf("items"))
          /\ IsWindow(containers, ListOf("containers"))

OnScreen(list) == {i \in DOMAIN list : Above(list[i], offset) < 0 /\ Below(list[i], offset) < 0}

\* Whatever is on the screen has been laid out: no scroll, jump or mix of both,
\* however far, leaves a gap, though a window that loses items at an end is not
\* extended there (589, 602) and starts where a search that may miss the first
\* item of a row puts it (507-521).
ScreenIsFilled ==
    canLayout =>
        /\ OnScreen(ListOf("items")) \subseteq ToSet(items.visible)
        /\ HasContainer => OnScreen(ListOf("containers")) \subseteq ToSet(containers.visible)

\* A window is a run of neighbours and exactly they have nodes: a node that
\* were recycled twice or never would be missing here (451-500).
NodesAreTheWindow ==
    \A w \in {items, containers} :
        /\ DOMAIN w.nodes = ToSet(w.visible)
        /\ \A k \in 1 .. Len(w.visible) - 1 : w.visible[k + 1] = w.visible[k] + 1

\* An item whose node shows what it showed before is to be bound (596, 609), also
\* after it was recycled, laid out again or jumped away from in the meantime.
StaleIsDirty ==
    \A i \in DOMAIN items.nodes :
        (~items.nodes[i] /\ ~ListOf("items")[i].invisible) => i \in ToSet(dirtyItems)

\* Nodes are used again: there are never more of a type than lie, from some item on,
\* within an item's height of a screen that starts within an item's height of the
\* next one, where the search may leave it (507-521), however long the list is and
\* the user scrolls.
Near(list, i, t) ==
    LET next == list[IF i < Len(list) THEN i + 1 ELSE i]
        reach == next.top + next.height + WinHeight + 2 * ItemHeight
    IN  CountOf(list, {j \in i .. Len(list) : list[j].top < reach}, t)
NodesAreReused ==
    adapter # NoAdapter =>
    \A name \in {"items", "containers"}, t \in Types :
        LET list == ListOf(name)
        IN  (\E i \in DOMAIN list : list[i].type = t) =>
                \E i \in DOMAIN list : made[t] <= Near(list, i, t)

\* The category in focus is the one on the middle of the view: the search agrees
\* with its definition for every offset, if there is a category (527-543).
Covers(list, k, y) ==
    /\ k \in DOMAIN list
    /\ k = 1 \/ list[k].top <= y
    /\ k = Len(list) \/ y < list[k].end
FocusIsMiddle ==
    [][(Release \/ LayoutStarts) =>
           (Categories # <<>> =>
               Covers(Categories, currentCategoryIndex', offset' + ViewHeight \div 2))]_viewVars

\* An item that is laid out shows its own data in the end, or leaves the screen,
\* however the user goes on scrolling: the oldest is bound first (620).
ItemsGetBound ==
    \A i \in UNION {DOMAIN MeasuredOf[a].items : a \in Adapters} :
        (/\ i \in DOMAIN items.nodes
         /\ ~items.nodes[i] /\ ~ListOf("items")[i].invisible)
            ~> (i \notin DOMAIN items.nodes \/ items.nodes[i])

=============================================================================
