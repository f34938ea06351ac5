---------------------- MODULE CCMPopupManager_proofs ----------------------
(***************************************************************************)
(* Proofs about CCMPopupManager.  In every use: the waiting queue is in    *)
(* order, and a prefab of the cache is held.  In settled uses in which     *)
(* nothing fails, is released or loaded early, no scene changes and no     *)
(* popup is shown immediately whose prefab is kept with its node: at most  *)
(* one popup is on screen, the current popup is displayed, suspended ones  *)
(* are intact, nobody is overtaken and who waits has someone to end it.    *)
(***************************************************************************)
EXTENDS CCMPopupManager, FiniteSetTheorems, NaturalsInduction,
        WellFoundedInduction, SequenceTheorems, TLAPS

-----------------------------------------------------------------------------
(* The constants and the requests. *)

\* A request and its node are a number from 1 on; 0 is none.
LEMMA Constants == MaxRequests \in Nat /\ Requests \subseteq Nat /\ 0 \notin Requests
BY BoundAssumption DEF BoundAssumption, Requests

\* A use is one of Uses.
LEMMA UseKnown ==
    ASSUME TypeOK
    PROVE  /\ use \in Uses /\ use.calls \subseteq Call
           /\ use.settled \in BOOLEAN /\ use.requests \in 0 .. MaxRequests
           /\ use.preloads \in Nat
BY UsesAssumption DEF UsesAssumption, TypeOK, Use

\* The requests made are the first ones.
LEMMA MadeKnown ==
    ASSUME TypeOK
    PROVE  /\ Made \subseteq Requests /\ Len(requests) \in Nat
           /\ Made = 1 .. Len(requests) /\ Len(requests) + 1 \notin Made
           /\ \A r \in Made : requests[r] \in Call
<1>1. requests \in Seq(Call) /\ Len(requests) \in Nat /\ Len(requests) <= MaxRequests
  BY DEF TypeOK
<1>. QED  BY <1>1, Constants DEF Made, Requests

\* What the requests are when one more is made.
LEMMA RequestMade ==
    ASSUME TypeOK, NEW c \in Call, Len(requests) < use.requests,
           requests' = Append(requests, c)
    PROVE  LET n == Len(requests) + 1
           IN  /\ n \in Requests /\ n \notin Made /\ Made' = Made \cup {n}
               /\ requests' \in Seq(Call) /\ Len(requests') <= MaxRequests
               /\ requests'[n] = c /\ \A r \in Made : requests'[r] = requests[r]
<1>1. requests \in Seq(Call) /\ Len(requests) \in Nat /\ MaxRequests \in Nat
      /\ Len(requests) < MaxRequests
  BY UseKnown, Constants DEF TypeOK
<1>2. /\ requests' \in Seq(Call) /\ Len(requests') = Len(requests) + 1
      /\ \A i \in 1 .. Len(requests) : requests'[i] = requests[i]
      /\ requests'[Len(requests) + 1] = c
  BY <1>1, AppendProperties
<1>. QED  BY <1>1, <1>2, Constants DEF Made, Requests

-----------------------------------------------------------------------------
(* The inductive invariant of every use. *)

\* The lists hold requests that were made, each as it was called for.
ListsKnown ==
    /\ \A i \in 1 .. Len(queue) : queue[i] \in Made
    /\ \A i \in 1 .. Len(suspended) : suspended[i] \in Made
    /\ current \in Made \cup {0}
    /\ \A r \in Made : requests[r] \in use.calls

\* A node that exists was displayed for a request; popups and cached nodes exist.
NodesKnown ==
    /\ \A n \in Requests : node[n] # "none" => finisher[n] \in Made
    /\ \A p \in Paths : nodeCache[p] # 0 => node[nodeCache[p]] # "none"
    /\ \A r \in Requests : popup[r] # 0 => node[popup[r]] # "none"

\* A cached prefab is held by a reference.
PrefabsHeld == \A p \in prefabCache : refs[p] > 0

KnownInv == TypeOK /\ ListsKnown /\ NodesKnown /\ PrefabsHeld /\ QueueInOrder

\* It holds at first: no request was made.
LEMMA KnownInit == Init => KnownInv
<1>. SUFFICES ASSUME Init PROVE KnownInv
  OBVIOUS
<1>1. TypeOK
  <2>1. /\ <<>> \in Seq(Call) /\ Len(<<>>) = 0 /\ 0 <= MaxRequests
        /\ <<>> \in Seq(Requests)
    BY Constants
  <2>2. /\ pc \in [Requests -> ShowStates] /\ node \in [Requests -> NodeStates]
        /\ popup \in [Requests -> Requests \cup {0}]
        /\ finisher \in [Requests -> Requests \cup {0}]
        /\ waiters \in [Requests -> SUBSET Requests]
    BY DEF Init, ShowStates, NodeStates
  <2>3. /\ nodeCache \in [Paths -> Requests \cup {0}]
        /\ refs \in [Paths -> Nat] /\ preloads \in [Paths -> Nat]
    BY DEF Init
  <2>. QED  BY <2>1, <2>2, <2>3 DEF Init, TypeOK
<1>2. Made = {}
  BY DEF Init, Made
<1>. QED  BY <1>1, <1>2, Constants DEF Init, KnownInv, ListsKnown, NodesKnown, PrefabsHeld,
             QueueInOrder

\* What show does from its last await on (101-159): the cached node or a new one
\* is displayed, or the prefab loads.
LEMMA BeginEffect ==
    ASSUME KnownInv, NEW r \in Requests, NEW p \in Paths, Begin(r, p)
    PROVE  /\ current' = r /\ UNCHANGED <<closing, waiters, prefabCache, refs>>
           /\ CachedNode(p) \in Requests \cup {0}
           /\ CachedNode(p) # 0 => nodeCache[p] = CachedNode(p) /\ node[CachedNode(p)] \notin {"none", "dead"}
           /\ nodeCache' = [nodeCache EXCEPT ![p] = CachedNode(p)]
           /\ nodeCache' \in [Paths -> Requests \cup {0}]
           /\ popup' \in [Requests -> Requests \cup {0}]
           /\ node' \in [Requests -> NodeStates]
           /\ finisher' \in [Requests -> Requests \cup {0}]
           /\ pc' \in [Requests -> ShowStates]
           /\ \A s \in Requests : s # r => pc'[s] = pc[s] /\ popup'[s] = popup[s]
           /\ \/ /\ CachedNode(p) = 0 /\ p \notin prefabCache
                 /\ pc'[r] = "loading"
                 /\ UNCHANGED <<popup, node, finisher>>
              \/ LET n == IF CachedNode(p) # 0 THEN CachedNode(p) ELSE r
                 IN  /\ pc'[r] = "done" /\ popup'[r] = n
                     /\ node'[n] = "shown" /\ finisher'[n] = r
                     /\ \A m \in Requests : m # n => node'[m] = node[m] /\ finisher'[m] = finisher[m]
<1>. DEFINE c == CachedNode(p)
<1>1. /\ pc \in [Requests -> ShowStates] /\ popup \in [Requests -> Requests \cup {0}]
      /\ node \in [Requests -> NodeStates] /\ finisher \in [Requests -> Requests \cup {0}]
      /\ nodeCache \in [Paths -> Requests \cup {0}]
  BY DEF KnownInv, TypeOK
<1>2. /\ c \in Requests \cup {0}
      /\ c # 0 => nodeCache[p] = c /\ node[c] \notin {"none", "dead"}
  BY <1>1 DEF CachedNode, KnownInv, NodesKnown
<1>3. /\ current' = r /\ UNCHANGED <<closing, waiters, prefabCache, refs>>
      /\ nodeCache' = [nodeCache EXCEPT ![p] = c]
  BY DEF Begin
<1>4. "shown" \in NodeStates /\ "done" \in ShowStates /\ "loading" \in ShowStates
  BY DEF NodeStates, ShowStates
<1>5. \/ c # 0 /\ Displays(r, r, c)
      \/ c = 0 /\ Displays(r, r, r)
      \/ /\ c = 0 /\ p \notin prefabCache
         /\ pc' = [pc EXCEPT ![r] = "loading"]
         /\ UNCHANGED <<popup, node, finisher>>
  BY DEF Begin
<1>. HIDE DEF c
<1>6. ASSUME NEW n \in Requests, Displays(r, r, n)
      PROVE  /\ popup' \in [Requests -> Requests \cup {0}]
             /\ node' \in [Requests -> NodeStates]
             /\ finisher' \in [Requests -> Requests \cup {0}]
             /\ pc' \in [Requests -> ShowStates]
             /\ \A s \in Requests : s # r => pc'[s] = pc[s] /\ popup'[s] = popup[s]
             /\ pc'[r] = "done" /\ popup'[r] = n
             /\ node'[n] = "shown" /\ finisher'[n] = r
             /\ \A m \in Requests : m # n => node'[m] = node[m] /\ finisher'[m] = finisher[m]
  BY <1>1, <1>4, <1>6 DEF Displays
<1>7. CASE c # 0 /\ Displays(r, r, c)
  BY <1>1, <1>2, <1>3, <1>6, <1>7 DEF c
<1>8. CASE c = 0 /\ Displays(r, r, r)
  BY <1>1, <1>2, <1>3, <1>6, <1>8 DEF c
<1>9. CASE /\ c = 0 /\ p \notin prefabCache
           /\ pc' = [pc EXCEPT ![r] = "loading"]
           /\ UNCHANGED <<popup, node, finisher>>
  BY <1>1, <1>2, <1>3, <1>4, <1>9 DEF c
<1>. QED  BY <1>5, <1>7, <1>8, <1>9

\* It keeps what is known of the nodes, when r is a request that was made.
LEMMA BeginKnown ==
    ASSUME KnownInv, NEW r \in Requests, NEW p \in Paths, Begin(r, p),
           Made \subseteq Made', r \in Made'
    PROVE  NodesKnown'
<1>. DEFINE c == CachedNode(p)  n == IF c # 0 THEN c ELSE r
<1>1. /\ c \in Requests \cup {0}
      /\ c # 0 => nodeCache[p] = c /\ node[c] # "none"
      /\ nodeCache' = [nodeCache EXCEPT ![p] = c]
      /\ \A s \in Requests : s # r => popup'[s] = popup[s]
      /\ \/ UNCHANGED <<popup, node, finisher>>
         \/ /\ popup'[r] = n /\ node'[n] = "shown" /\ finisher'[n] = r
            /\ \A m \in Requests : m # n => node'[m] = node[m] /\ finisher'[m] = finisher[m]
  BY BeginEffect
<1>2. /\ popup \in [Requests -> Requests \cup {0}] /\ nodeCache \in [Paths -> Requests \cup {0}]
      /\ NodesKnown
  BY DEF KnownInv, TypeOK
<1>. HIDE DEF c
<1>3. n \in Requests
  BY <1>1
<1>. HIDE DEF n
<1>4. \A m \in Requests : node[m] # "none" => node'[m] # "none"
  BY <1>1
<1>5. \A m \in Requests : node'[m] # "none" => finisher'[m] \in Made'
  BY <1>1, <1>2 DEF NodesKnown
<1>6. \A q \in Paths : nodeCache'[q] # 0 => node'[nodeCache'[q]] # "none"
  BY <1>1, <1>2, <1>4 DEF NodesKnown
<1>7. \A s \in Requests : popup'[s] # 0 => node'[popup'[s]] # "none"
  BY <1>1, <1>2, <1>3, <1>4 DEF NodesKnown
<1>. QED  BY <1>5, <1>6, <1>7 DEF NodesKnown

-----------------------------------------------------------------------------
(* The queue. *)

\* The order of the naturals as a relation.
Below == {p \in Nat \X Nat : p[1] < p[2]}

\* Every set of naturals that is not empty has a least element.
LEMMA Least ==
    ASSUME NEW S, S \subseteq Nat, S # {}
    PROVE  \E x \in S : \A y \in S : x <= y
<1>1. IsWellFoundedOn(Below, Nat)
  BY NatLessThanWellFounded DEF OpToRel, Below
<1>2. PICK x \in S : \A y \in S : <<y, x>> \notin Below
  BY <1>1, WFMin
<1>3. \A y \in S : x <= y
  <2>1. SUFFICES ASSUME NEW y \in S PROVE x <= y
    OBVIOUS
  <2>2. <<y, x>> \notin Below /\ x \in Nat /\ y \in Nat
    BY <1>2
  <2>. QED  BY <2>2 DEF Below
<1>. QED  BY <1>3

\* The sequence m is q with e at place k + 1, behind the first k.
HasInserted(m, q, e, k) ==
    /\ Len(m) = Len(q) + 1
    /\ m[k + 1] = e
    /\ \A i \in 1 .. k : m[i] = q[i]
    /\ \A i \in k + 2 .. Len(q) + 1 : m[i] = q[i - 1]

\* InsertAt puts the element at its place and moves the others behind it.
LEMMA Inserted ==
    ASSUME NEW S, NEW q \in Seq(S), NEW e \in S, NEW k \in 0 .. Len(q),
           NEW m, m = InsertAt(q, k + 1, e)
    PROVE  m \in Seq(S) /\ HasInserted(m, q, e, k)
<1>. DEFINE n == Len(q)  a == SubSeq(q, 1, k)  b == SubSeq(q, k + 1, n)
            ae == a \o <<e>>
<1>1. n \in Nat /\ k \in Nat /\ k <= n /\ \A i \in 1 .. n : q[i] \in S
  OBVIOUS
<1>2. m = ae \o b
  <2>1. (k + 1) - 1 = k
    BY <1>1
  <2>2. m = (SubSeq(q, 1, (k + 1) - 1) \o <<e>>) \o SubSeq(q, k + 1, n)
    BY DEF InsertAt
  <2>. QED  BY <2>1, <2>2
<1>3. a \in Seq(S) /\ Len(a) = k /\ \A i \in 1 .. k : a[i] = q[i]
  <2>1. 1 \in Int /\ k \in Int /\ \A i \in 1 .. k : q[i] \in S
    BY <1>1
  <2>2. /\ a \in Seq(S) /\ Len(a) = IF 1 <= k THEN k - 1 + 1 ELSE 0
        /\ \A i \in 1 .. k - 1 + 1 : a[i] = q[1 + i - 1]
    BY <2>1, SubSeqProperties
  <2>. HIDE DEF a
  <2>. QED  BY <1>1, <2>2
<1>4. b \in Seq(S) /\ Len(b) = n - k /\ \A i \in 1 .. n - k : b[i] = q[k + i]
  <2>1. k + 1 \in Int /\ n \in Int /\ \A i \in k + 1 .. n : q[i] \in S
    BY <1>1
  <2>2. /\ b \in Seq(S) /\ Len(b) = IF k + 1 <= n THEN n - (k + 1) + 1 ELSE 0
        /\ \A i \in 1 .. n - (k + 1) + 1 : b[i] = q[(k + 1) + i - 1]
    BY <2>1, SubSeqProperties
  <2>. HIDE DEF b, n
  <2>3. \A i \in 1 .. n - k : i \in 1 .. n - (k + 1) + 1 /\ (k + 1) + i - 1 = k + i
    BY <1>1
  <2>4. CASE k + 1 <= n
    BY <1>1, <2>2, <2>3, <2>4
  <2>5. CASE ~(k + 1 <= n)
    BY <1>1, <2>2, <2>3, <2>5
  <2>. QED  BY <2>4, <2>5
<1>. HIDE DEF a, b, n
<1>5. /\ <<e>> \in Seq(S) /\ Len(<<e>>) = 1 /\ <<e>>[1] = e
  OBVIOUS
<1>6. /\ ae \in Seq(S) /\ Len(ae) = k + 1 /\ ae[k + 1] = e
      /\ \A i \in 1 .. k : ae[i] = q[i]
  <2>1. /\ ae \in Seq(S) /\ Len(ae) = Len(a) + Len(<<e>>)
        /\ \A i \in 1 .. Len(a) + Len(<<e>>) :
               ae[i] = IF i <= Len(a) THEN a[i] ELSE <<e>>[i - Len(a)]
    BY <1>3, <1>5, ConcatProperties
  <2>2. ae[k + 1] = <<e>>[1]
    BY <1>1, <1>3, <1>5, <2>1
  <2>. QED  BY <1>1, <1>3, <1>5, <2>1, <2>2
<1>. HIDE DEF ae
<1>7. /\ m \in Seq(S) /\ Len(m) = Len(ae) + Len(b)
      /\ \A i \in 1 .. Len(ae) + Len(b) :
             m[i] = IF i <= Len(ae) THEN ae[i] ELSE b[i - Len(ae)]
  <2>1. /\ ae \o b \in Seq(S) /\ Len(ae \o b) = Len(ae) + Len(b)
        /\ \A i \in 1 .. Len(ae) + Len(b) :
               (ae \o b)[i] = IF i <= Len(ae) THEN ae[i] ELSE b[i - Len(ae)]
    BY <1>4, <1>6, ConcatProperties
  <2>. QED  BY <1>2, <2>1, Zenon
<1>8. Len(m) = n + 1 /\ Len(ae) + Len(b) = n + 1
  BY <1>1, <1>4, <1>6, <1>7
<1>9. m[k + 1] = e /\ \A i \in 1 .. k : m[i] = q[i]
  <2>1. \A i \in 1 .. k + 1 : i \in 1 .. Len(ae) + Len(b) /\ i <= Len(ae)
    BY <1>1, <1>6, <1>8
  <2>2. \A i \in 1 .. k + 1 : m[i] = ae[i]
    BY <1>7, <2>1
  <2>3. k + 1 \in 1 .. k + 1 /\ \A i \in 1 .. k : i \in 1 .. k + 1
    BY <1>1
  <2>. QED  BY <1>6, <2>2, <2>3
<1>10. ASSUME NEW i \in k + 2 .. n + 1 PROVE m[i] = q[i - 1]
  <2>1. i \in 1 .. n + 1 /\ ~(i <= k + 1) /\ i - (k + 1) \in 1 .. n - k
        /\ k + (i - (k + 1)) = i - 1
    BY <1>1
  <2>2. m[i] = b[i - (k + 1)]
    BY <1>6, <1>7, <1>8, <2>1
  <2>3. b[i - (k + 1)] = q[i - 1]
    BY <1>4, <2>1
  <2>. QED  BY <2>2, <2>3
<1>. QED  BY <1>7, <1>8, <1>9, <1>10 DEF n, HasInserted

\* In q the request r stands behind the first k of the queue, which are no less
\* urgent than c, and in front of the others, which are.
StandsBehind(q, r, c, k) ==
    /\ q[k + 1] = r
    /\ \A i \in 1 .. k :
           q[i] = queue[i] /\ requests[queue[i]].priority >= c.priority
    /\ \A i \in k + 2 .. Len(queue) + 1 :
           q[i] = queue[i - 1] /\ requests[queue[i - 1]].priority < c.priority

\* push puts a request behind those of its priority and in front of the others
\* (237-247): where the array was sorted the sort moves nothing else.
LEMMA PushedBehindEquals ==
    ASSUME KnownInv, NEW r \in Requests, NEW c \in Call, NEW q, q = Pushed(queue, r, c)
    PROVE  /\ q \in Seq(Requests) /\ Len(q) = Len(queue) + 1
           /\ \E k \in 0 .. Len(queue) : StandsBehind(q, r, c, k)
<1>. DEFINE n == Len(queue)
            prio(i) == requests[queue[i]].priority
            ahead == {i \in 1 .. n : prio(i) >= c.priority}
            behind == {i \in 1 .. n : prio(i) < c.priority}
<1>1. n \in Nat /\ queue \in Seq(Requests) /\ c.priority \in Nat
  BY DEF KnownInv, TypeOK, Call
<1>2. \A i \in 1 .. n : prio(i) \in Nat
  BY MadeKnown DEF KnownInv, ListsKnown, Call
<1>3. \A i, j \in 1 .. n : i < j => prio(i) >= prio(j)
  BY <1>2 DEF KnownInv, QueueInOrder
<1>. HIDE DEF n, prio
<1>4. \E k \in 0 .. n : /\ \A i \in 1 .. k : prio(i) >= c.priority
                        /\ \A i \in k + 1 .. n : prio(i) < c.priority
  <2>1. CASE behind = {}
    <3>1. \A i \in 1 .. n : prio(i) >= c.priority
      BY <1>1, <1>2, <2>1
    <3>2. n \in 0 .. n /\ \A i \in n + 1 .. n : FALSE
      BY <1>1
    <3>. QED  BY <3>1, <3>2
  <2>2. CASE behind # {}
    <3>1. behind \subseteq Nat
      BY <1>1
    <3>2. PICK b \in behind : \A y \in behind : b <= y
      <4>. HIDE DEF behind
      <4>. QED  BY <2>2, <3>1, Least
    <3>3. b \in 1 .. n /\ prio(b) < c.priority /\ b - 1 \in 0 .. n
      BY <1>1, <3>2
    <3>4. ASSUME NEW i \in 1 .. b - 1 PROVE prio(i) >= c.priority
      <4>1. i \in 1 .. n /\ ~(b <= i)
        BY <1>1, <3>3
      <4>2. i \notin behind
        BY <3>2, <4>1
      <4>. QED  BY <1>1, <1>2, <4>1, <4>2
    <3>5. ASSUME NEW i \in (b - 1) + 1 .. n PROVE prio(i) < c.priority
      <4>1. i \in 1 .. n /\ (i = b \/ b < i)
        BY <1>1, <3>3
      <4>. QED  BY <1>1, <1>2, <1>3, <3>3, <4>1
    <3>. QED  BY <3>3, <3>4, <3>5
  <2>. QED  BY <2>1, <2>2
<1>5. PICK k \in 0 .. n : /\ \A i \in 1 .. k : prio(i) >= c.priority
                          /\ \A i \in k + 1 .. n : prio(i) < c.priority
  BY <1>4
<1>6. ahead = 1 .. k
  <2>1. ASSUME NEW i \in 1 .. n PROVE i \in 1 .. k <=> prio(i) >= c.priority
    <3>1. i \in 1 .. k \/ i \in k + 1 .. n
      BY <1>1
    <3>2. prio(i) \in Nat
      BY <1>2
    <3>3. CASE i \in 1 .. k
      BY <3>3, <1>5
    <3>4. CASE i \in k + 1 .. n
      <4>1. i \notin 1 .. k
        BY <1>1, <3>4
      <4>2. prio(i) < c.priority
        BY <1>5, <3>4
      <4>. QED  BY <4>1, <4>2, <3>2, <1>1
    <3>. QED  BY <3>1, <3>3, <3>4
  <2>2. 1 .. k \subseteq 1 .. n
    BY <1>1
  <2>. QED  BY <2>1, <2>2
<1>7. Cardinality(ahead) = k
  <2>1. Cardinality(1 .. k) = k
    BY <1>1, FS_Interval
  <2>. QED  BY <2>1, <1>6
<1>8. q = InsertAt(queue, k + 1, r)
  BY <1>7 DEF Pushed, n, prio
<1>9. /\ q \in Seq(Requests) /\ Len(q) = n + 1
      /\ q[k + 1] = r
      /\ \A i \in 1 .. k : q[i] = queue[i]
      /\ \A i \in k + 2 .. n + 1 : q[i] = queue[i - 1]
  <2>1. queue \in Seq(Requests) /\ k \in 0 .. Len(queue)
    BY <1>1 DEF n
  <2>2. q \in Seq(Requests) /\ HasInserted(q, queue, r, k)
    BY <1>8, <2>1, Inserted
  <2>. QED  BY <2>2 DEF n, HasInserted
<1>10. \A i \in k + 2 .. n + 1 : i - 1 \in k + 1 .. n
  BY <1>1
<1>11. /\ \A i \in 1 .. k : q[i] = queue[i] /\ prio(i) >= c.priority
       /\ \A i \in k + 2 .. n + 1 : q[i] = queue[i - 1] /\ prio(i - 1) < c.priority
  BY <1>5, <1>9, <1>10
<1>12. StandsBehind(q, r, c, k)
  BY <1>9, <1>11 DEF n, prio, StandsBehind
<1>. QED  BY <1>9, <1>12 DEF n

\* So the queue stays in order.
LEMMA PushKeepsOrder ==
    ASSUME KnownInv, NEW c \in Call, Len(requests) < use.requests,
           requests' = Append(requests, c),
           queue' = Pushed(queue, Len(requests) + 1, c)
    PROVE  /\ queue' \in Seq(Requests)
           /\ \A i \in 1 .. Len(queue') : queue'[i] \in Made'
           /\ QueueInOrder'
           /\ \A i \in 1 .. Len(queue') :
                  queue'[i] = Len(requests) + 1 \/ \E j \in 1 .. Len(queue) : queue'[i] = queue[j]
           /\ queue' # queue
<1>. DEFINE r == Len(requests) + 1  n == Len(queue)
<1>1. /\ r \in Requests /\ r \notin Made /\ Made' = Made \cup {r}
      /\ requests'[r] = c /\ \A s \in Made : requests'[s] = requests[s]
  BY RequestMade DEF KnownInv
<1>2. /\ Made = 1 .. Len(requests) /\ Len(requests) \in Nat
      /\ \A s \in Made : requests[s] \in Call
  BY MadeKnown DEF KnownInv
<1>3. n \in Nat /\ \A i \in 1 .. n : queue[i] \in Made
  BY DEF KnownInv, TypeOK, ListsKnown
<1>4. queue' \in Seq(Requests) /\ Len(queue') = n + 1
  BY <1>1, PushedBehindEquals
<1>5. PICK k \in 0 .. n :
          /\ queue'[k + 1] = r
          /\ \A i \in 1 .. k :
                 queue'[i] = queue[i] /\ requests[queue[i]].priority >= c.priority
          /\ \A i \in k + 2 .. n + 1 :
                 queue'[i] = queue[i - 1] /\ requests[queue[i - 1]].priority < c.priority
  <2>1. \E k \in 0 .. n : StandsBehind(queue', r, c, k)
    BY <1>1, PushedBehindEquals
  <2>. QED  BY <2>1 DEF StandsBehind
<1>6. \A i \in 1 .. n : /\ requests'[queue[i]] = requests[queue[i]]
                        /\ requests[queue[i]].priority \in Nat
                        /\ queue[i] \in Nat /\ queue[i] < r
  BY <1>1, <1>2, <1>3 DEF Call
<1>7. c.priority \in Nat /\ r \in Nat
  BY <1>2 DEF Call
<1>8. \A i, j \in 1 .. n : i < j =>
          LET a == requests[queue[i]].priority
              b == requests[queue[j]].priority
          IN  a > b \/ (a = b /\ queue[i] < queue[j])
  BY DEF KnownInv, QueueInOrder
<1>. HIDE DEF n, r
<1>9. \A i \in 1 .. n + 1 : i \in 1 .. k \/ i = k + 1 \/ (i \in k + 2 .. n + 1 /\ i - 1 \in 1 .. n)
  BY <1>3
<1>10. 1 .. k \subseteq 1 .. n
  BY <1>3
<1>. DEFINE old(i) == requests[queue[i]].priority  new(i) == requests'[queue'[i]].priority
<1>16. \A i \in 1 .. k : new(i) = old(i) /\ queue'[i] = queue[i] /\ old(i) >= c.priority
  BY <1>5, <1>6, <1>10
<1>17. new(k + 1) = c.priority /\ queue'[k + 1] = r
  BY <1>1, <1>5 DEF r
<1>18. \A i \in k + 2 .. n + 1 :
           new(i) = old(i - 1) /\ queue'[i] = queue[i - 1] /\ old(i - 1) < c.priority
  <2>1. \A i \in k + 2 .. n + 1 : i - 1 \in 1 .. n
    BY <1>3
  <2>. QED  BY <2>1, <1>5, <1>6
<1>19. \A i \in 1 .. n : old(i) \in Nat /\ queue[i] \in Nat /\ queue[i] < r
  BY <1>6
<1>20. \A i, j \in 1 .. n : i < j => \/ old(i) > old(j)
                                     \/ old(i) = old(j) /\ queue[i] < queue[j]
  BY <1>8
<1>11. ASSUME NEW i \in 1 .. n + 1, NEW j \in 1 .. n + 1, i < j
       PROVE  new(i) > new(j) \/ (new(i) = new(j) /\ queue'[i] < queue'[j])
  <2>. HIDE DEF old, new
  <2>1. CASE i \in 1 .. k /\ j \in 1 .. k
    BY <2>1, <1>10, <1>11, <1>16, <1>20
  <2>2. CASE i \in 1 .. k /\ j = k + 1
    BY <2>2, <1>7, <1>10, <1>16, <1>17, <1>19
  <2>3. CASE i \in 1 .. k /\ j \in k + 2 .. n + 1
    <3>1. j - 1 \in 1 .. n
      BY <2>3, <1>3
    <3>. QED  BY <2>3, <3>1, <1>7, <1>10, <1>16, <1>18, <1>19
  <2>4. CASE i = k + 1 /\ j \in k + 2 .. n + 1
    <3>1. j - 1 \in 1 .. n
      BY <2>4, <1>3
    <3>. QED  BY <2>4, <3>1, <1>7, <1>17, <1>18, <1>19
  <2>5. CASE i \in k + 2 .. n + 1 /\ j \in k + 2 .. n + 1
    <3>1. i - 1 \in 1 .. n /\ j - 1 \in 1 .. n /\ i - 1 < j - 1
      BY <2>5, <1>3, <1>11
    <3>. QED  BY <2>5, <3>1, <1>18, <1>20
  <2>6. \/ i \in 1 .. k /\ (j \in 1 .. k \/ j = k + 1 \/ j \in k + 2 .. n + 1)
        \/ i = k + 1 /\ j \in k + 2 .. n + 1
        \/ i \in k + 2 .. n + 1 /\ j \in k + 2 .. n + 1
    BY <1>3, <1>11
  <2>. QED  BY <2>1, <2>2, <2>3, <2>4, <2>5, <2>6
<1>12. QueueInOrder'
  BY <1>4, <1>11 DEF QueueInOrder
<1>13. \A i \in 1 .. n + 1 : queue'[i] = r \/ \E j \in 1 .. n : queue'[i] = queue[j]
  BY <1>5, <1>9, <1>10
<1>14. \A i \in 1 .. n + 1 : queue'[i] \in Made'
  BY <1>1, <1>3, <1>13
<1>15. queue' # queue
  BY <1>3, <1>4 DEF n
<1>. QED  BY <1>4, <1>12, <1>13, <1>14, <1>15 DEF n, r

-----------------------------------------------------------------------------
(* The steps, in every use. *)

\* The queue stays in order while it holds the same requests.
LEMMA OrderStays ==
    ASSUME QueueInOrder, UNCHANGED queue,
           \A i \in 1 .. Len(queue) : requests'[queue[i]] = requests[queue[i]]
    PROVE  QueueInOrder'
<1>. SUFFICES ASSUME NEW i \in 1 .. Len(queue), NEW j \in 1 .. Len(queue), i < j
              PROVE  LET a == requests'[queue[i]].priority
                         b == requests'[queue[j]].priority
                     IN  a > b \/ (a = b /\ queue[i] < queue[j])
  BY DEF QueueInOrder
<1>1. requests'[queue[i]] = requests[queue[i]] /\ requests'[queue[j]] = requests[queue[j]]
  OBVIOUS
<1>. QED  BY <1>1 DEF QueueInOrder

\* Lists that are left alone, but for a current request that is given up.
LEMMA ListsKept ==
    ASSUME KnownInv, UNCHANGED <<use, requests, queue, suspended>>, current' \in {current, 0}
    PROVE  ListsKnown' /\ QueueInOrder' /\ Made' = Made
BY DEF KnownInv, ListsKnown, QueueInOrder, Made

\* Steps that show no popup and take none off the screen but by its end.
LEMMA QuietKnown ==
    ASSUME KnownInv, UNCHANGED use,
           \/ \E n \in Requests : Hide(n)
           \/ \E n, r \in Requests : SuspendingHideEnds(n, r)
           \/ \E r \in Made : SuspendReturns(r) \/ LoadFails(r)
           \/ IntervalEnds \/ ChangeScene
    PROVE  KnownInv'
<1>. USE DEF shows, lists, intervals, nodes, caches
<1>1. UNCHANGED <<requests, queue, suspended, popup, finisher, nodeCache, prefabCache, refs>>
      /\ current' \in {current, 0}
  BY DEF Hide, SuspendingHideEnds, SuspendReturns, LoadFails, IntervalEnds, ChangeScene
<1>2. ListsKnown' /\ QueueInOrder' /\ Made' = Made
  BY <1>1, ListsKept
<1>3. /\ {"hidden", "resuming", "done"} \subseteq ShowStates
      /\ {"hidden", "dead"} \subseteq NodeStates
      /\ Made \subseteq Requests
  BY MadeKnown DEF ShowStates, NodeStates, KnownInv
<1>4. pc' \in [Requests -> ShowStates]
  <2>1. pc \in [Requests -> ShowStates]
    BY DEF KnownInv, TypeOK
  <2>2. \/ UNCHANGED pc
        \/ \E r \in Requests, to \in {"hidden", "resuming", "done"} : pc' = [pc EXCEPT ![r] = to]
    BY <1>3 DEF Hide, SuspendingHideEnds, SuspendReturns, LoadFails, IntervalEnds, ChangeScene
  <2>. QED  BY <1>3, <2>1, <2>2
<1>5. /\ node' \in [Requests -> NodeStates]
      /\ \A n \in Requests : (node'[n] = "none") <=> (node[n] = "none")
  <2>1. \/ UNCHANGED node
        \/ ChangeScene
        \/ \E n, r \in Requests : SuspendingHideEnds(n, r)
    BY DEF Hide, SuspendReturns, LoadFails, IntervalEnds
  <2>2. CASE ChangeScene
    BY <2>2, <1>3 DEF ChangeScene, KnownInv, TypeOK
  <2>3. CASE \E n, r \in Requests : SuspendingHideEnds(n, r)
    BY <2>3, <1>3 DEF SuspendingHideEnds, KnownInv, TypeOK
  <2>. QED  BY <2>1, <2>2, <2>3 DEF KnownInv, TypeOK
<1>6. /\ closing' \in SUBSET Requests /\ waiters' \in [Requests -> SUBSET Requests]
      /\ scheduled' \in Nat /\ due' \in Nat /\ scenes' \in Nat
      /\ UNCHANGED <<preloads, locked>>
  <2>1. /\ closing \in SUBSET Requests /\ waiters \in [Requests -> SUBSET Requests]
        /\ scheduled \in Nat /\ due \in Nat /\ scenes \in Nat
    BY DEF KnownInv, TypeOK
  <2>2. CASE \E n \in Requests : Hide(n)
    BY <2>1, <2>2 DEF Hide
  <2>3. CASE \E n, r \in Requests : SuspendingHideEnds(n, r)
    BY <2>1, <2>3 DEF SuspendingHideEnds
  <2>4. CASE \E r \in Made : SuspendReturns(r) \/ LoadFails(r)
    BY <2>1, <2>4 DEF SuspendReturns, LoadFails
  <2>5. CASE IntervalEnds \/ ChangeScene
    BY <2>1, <2>5 DEF IntervalEnds, ChangeScene
  <2>. QED  BY <2>2, <2>3, <2>4, <2>5
<1>7. TypeOK'
  <2>1. current' \in Requests \cup {0}
    BY <1>1 DEF KnownInv, TypeOK
  <2>. QED  BY <1>1, <1>4, <1>5, <1>6, <2>1 DEF KnownInv, TypeOK
<1>8. NodesKnown'
  BY <1>1, <1>2, <1>5 DEF KnownInv, NodesKnown, TypeOK
<1>9. PrefabsHeld'
  BY <1>1 DEF KnownInv, PrefabsHeld
<1>. QED  BY <1>2, <1>7, <1>8, <1>9 DEF KnownInv

\* The loads and releases of prefabs: each cached prefab keeps its reference.
LEMMA PrefabKnown ==
    ASSUME KnownInv, UNCHANGED use,
           \/ \E p \in Paths : Preload(p) \/ PreloadEnds(p) \/ Release(p)
           \/ \E r \in Made : LoadEnds(r)
    PROVE  KnownInv'
<1>. USE DEF shows, lists, intervals, nodes, caches
<1>1. UNCHANGED <<requests, queue, suspended, current, locked, popup, finisher, closing,
                  waiters, scheduled, due, scenes>>
  BY DEF Preload, PreloadEnds, Release, LoadEnds
<1>2. ListsKnown' /\ QueueInOrder' /\ Made' = Made
  BY <1>1, ListsKept
<1>3. /\ {"loaded", "failed"} \subseteq ShowStates /\ "dead" \in NodeStates
      /\ Made \subseteq Requests
      /\ \A r \in Made : requests[r].path \in Paths
  BY MadeKnown DEF ShowStates, NodeStates, KnownInv, Call
<1>4. /\ prefabCache \in SUBSET Paths /\ refs \in [Paths -> Nat] /\ preloads \in [Paths -> Nat]
      /\ nodeCache \in [Paths -> Requests \cup {0}] /\ pc \in [Requests -> ShowStates]
      /\ node \in [Requests -> NodeStates]
      /\ \A p \in prefabCache : refs[p] > 0
  BY DEF KnownInv, TypeOK, PrefabsHeld
<1>5. ASSUME NEW p \in Paths, PrefabLoads(p)
      PROVE  /\ prefabCache' \in SUBSET Paths /\ refs' \in [Paths -> Nat]
             /\ \A q \in prefabCache' : refs'[q] > 0
  BY <1>4, <1>5 DEF PrefabLoads
<1>6. /\ prefabCache' \in SUBSET Paths /\ refs' \in [Paths -> Nat]
      /\ \A q \in prefabCache' : refs'[q] > 0
  <2>1. CASE \E p \in Paths : Preload(p)
    BY <2>1, <1>4 DEF Preload
  <2>2. CASE \E p \in Paths : PreloadEnds(p)
    BY <2>2, <1>4, <1>5 DEF PreloadEnds
  <2>3. CASE \E r \in Made : LoadEnds(r)
    BY <2>3, <1>3, <1>4, <1>5 DEF LoadEnds
  <2>4. CASE \E p \in Paths : Release(p)
    BY <2>4, <1>4 DEF Release, Released
  <2>. QED  BY <2>1, <2>2, <2>3, <2>4
<1>7. pc' \in [Requests -> ShowStates] /\ preloads' \in [Paths -> Nat]
  BY <1>3, <1>4 DEF Preload, PreloadEnds, Release, LoadEnds
<1>8. /\ node' \in [Requests -> NodeStates] /\ nodeCache' \in [Paths -> Requests \cup {0}]
      /\ \A n \in Requests : node[n] = "none" => node'[n] = "none" \/ \E p \in Paths : nodeCache[p] = n
      /\ \A n \in Requests : node[n] # "none" => node'[n] # "none"
      /\ \A p \in Paths : nodeCache'[p] \in {nodeCache[p], 0}
  <2>1. CASE UNCHANGED <<node, nodeCache>>
    BY <2>1, <1>4
  <2>2. CASE \E p \in Paths : Release(p)
    BY <2>2, <1>3, <1>4 DEF Release
  <2>. QED  BY <2>1, <2>2 DEF Preload, PreloadEnds, LoadEnds, PrefabLoads
<1>9. TypeOK'
  BY <1>1, <1>6, <1>7, <1>8 DEF KnownInv, TypeOK
<1>10. NodesKnown'
  <2>1. \A n \in Requests : node'[n] # "none" => finisher'[n] \in Made'
    <3>1. \A p \in Paths : nodeCache[p] # 0 => node[nodeCache[p]] # "none"
      BY DEF KnownInv, NodesKnown
    <3>2. \A n \in Requests : node[n] = "none" => node'[n] = "none"
      BY <3>1, <1>8, Constants
    <3>. QED  BY <3>2, <1>1, <1>2 DEF KnownInv, NodesKnown
  <2>2. \A p \in Paths : nodeCache'[p] # 0 => node'[nodeCache'[p]] # "none"
    BY <1>4, <1>8 DEF KnownInv, NodesKnown
  <2>3. \A r \in Requests : popup'[r] # 0 => node'[popup'[r]] # "none"
    BY <1>1, <1>8 DEF KnownInv, NodesKnown, TypeOK
  <2>. QED  BY <2>1, <2>2, <2>3 DEF NodesKnown
<1>. QED  BY <1>2, <1>6, <1>9, <1>10 DEF KnownInv, PrefabsHeld

\* finishCallback (144-157): the popup is recycled as its request asked for.
LEMMA HideEndsKnown ==
    ASSUME KnownInv, UNCHANGED use, NEW n \in Requests, HideEnds(n)
    PROVE  KnownInv'
<1>. USE DEF shows, lists, intervals, nodes, caches
<1>. DEFINE r == finisher[n]  p == requests[r].path  mode == requests[r].mode
<1>1. /\ UNCHANGED <<requests, pc, popup, queue, suspended, due, finisher, waiters,
                     preloads, scenes>>
      /\ current' = 0 /\ scheduled' = scheduled + 1 /\ closing' = closing \ {n}
      /\ locked' \in BOOLEAN /\ node[n] = "shown" /\ Recycle(p, n, mode)
  BY DEF HideEnds, Locks
<1>2. ListsKnown' /\ QueueInOrder' /\ Made' = Made
  BY <1>1, ListsKept
<1>3. r \in Made /\ p \in Paths
  BY <1>1, MadeKnown DEF KnownInv, NodesKnown, Call
<1>. HIDE DEF p, mode
<1>4. /\ prefabCache \in SUBSET Paths /\ refs \in [Paths -> Nat]
      /\ nodeCache \in [Paths -> Requests \cup {0}]
      /\ node \in [Requests -> NodeStates]
      /\ \A q \in prefabCache : refs[q] > 0
      /\ NodesKnown
  BY DEF KnownInv, TypeOK, PrefabsHeld
<1>5. /\ prefabCache' \in SUBSET Paths /\ refs' \in [Paths -> Nat]
      /\ \A q \in prefabCache' : refs'[q] > 0
  BY <1>1, <1>3, <1>4 DEF Recycle, Released
<1>6. /\ node' \in [Requests -> NodeStates] /\ nodeCache' \in [Paths -> Requests \cup {0}]
      /\ node'[n] # "none" /\ \A m \in Requests : m # n => node'[m] = node[m]
      /\ nodeCache'[p] \in {0, n} /\ \A q \in Paths : q # p => nodeCache'[q] = nodeCache[q]
  BY <1>1, <1>3, <1>4 DEF Recycle, NodeStates
<1>7. TypeOK'
  BY <1>1, <1>5, <1>6 DEF KnownInv, TypeOK
<1>8. NodesKnown'
  <2>1. \A m \in Requests : node'[m] # "none" => finisher'[m] \in Made'
    BY <1>1, <1>2, <1>4, <1>6 DEF NodesKnown
  <2>2. \A q \in Paths : nodeCache'[q] # 0 => node'[nodeCache'[q]] # "none"
    BY <1>3, <1>4, <1>6 DEF NodesKnown
  <2>3. \A s \in Requests : popup'[s] # 0 => node'[popup'[s]] # "none"
    BY <1>1, <1>4, <1>6 DEF NodesKnown, KnownInv, TypeOK
  <2>. QED  BY <2>1, <2>2, <2>3 DEF NodesKnown
<1>. QED  BY <1>2, <1>5, <1>7, <1>8 DEF KnownInv, PrefabsHeld

\* show after suspend, and after the load.
LEMMA ResumesKnown ==
    ASSUME KnownInv, UNCHANGED use, NEW r \in Made, ShowResumes(r)
    PROVE  KnownInv'
<1>1. /\ UNCHANGED <<requests, queue, suspended, locked, intervals, preloads, scenes>>
      /\ Begin(r, requests[r].path)
  BY DEF ShowResumes
<1>2. Made' = Made /\ Made \subseteq Requests /\ requests[r].path \in Paths
  BY <1>1, MadeKnown DEF Made, KnownInv, Call
<1>3. NodesKnown'
  BY <1>1, <1>2, BeginKnown
<1>4. /\ current' = r /\ UNCHANGED <<closing, waiters, prefabCache, refs>>
      /\ nodeCache' \in [Paths -> Requests \cup {0}]
      /\ popup' \in [Requests -> Requests \cup {0}]
      /\ node' \in [Requests -> NodeStates]
      /\ finisher' \in [Requests -> Requests \cup {0}]
      /\ pc' \in [Requests -> ShowStates]
  BY <1>1, <1>2, BeginEffect
<1>5. TypeOK'
  BY <1>1, <1>2, <1>4 DEF KnownInv, TypeOK, intervals
<1>6. ListsKnown' /\ QueueInOrder'
  BY <1>1, <1>2, <1>4 DEF KnownInv, ListsKnown, QueueInOrder
<1>. QED  BY <1>3, <1>4, <1>5, <1>6 DEF KnownInv, PrefabsHeld

\* A load that returns leaves the queue and the caches in order.
LEMMA LoadReturnsKnown ==
    ASSUME KnownInv, UNCHANGED use, NEW r \in Made, LoadReturns(r)
    PROVE  KnownInv'
<1>. USE DEF lists, intervals, caches
<1>1. UNCHANGED <<requests, lists, intervals, closing, waiters, caches, preloads, scenes>>
  BY DEF LoadReturns
<1>2. ListsKnown' /\ QueueInOrder' /\ Made' = Made
  BY <1>1, ListsKept
<1>3. Made \subseteq Requests /\ {"stuck", "done"} \subseteq ShowStates /\ "shown" \in NodeStates
  BY MadeKnown DEF KnownInv, ShowStates, NodeStates
<1>4. /\ pc \in [Requests -> ShowStates] /\ popup \in [Requests -> Requests \cup {0}]
      /\ node \in [Requests -> NodeStates] /\ finisher \in [Requests -> Requests \cup {0}]
      /\ nodeCache \in [Paths -> Requests \cup {0}] /\ current \in Requests \cup {0}
      /\ NodesKnown
  BY DEF KnownInv, TypeOK
<1>5. CASE current = 0
  <2>1. pc' = [pc EXCEPT ![r] = "stuck"] /\ UNCHANGED <<popup, node, finisher>>
    BY <1>5 DEF LoadReturns
  <2>2. TypeOK'
    BY <1>1, <1>3, <1>4, <2>1 DEF KnownInv, TypeOK
  <2>3. NodesKnown' /\ PrefabsHeld'
    BY <1>1, <1>2, <2>1 DEF KnownInv, NodesKnown, PrefabsHeld
  <2>. QED  BY <1>2, <2>2, <2>3 DEF KnownInv
<1>6. CASE current # 0
  <2>1. Displays(r, current, r)
    BY <1>6 DEF LoadReturns
  <2>2. /\ pc' \in [Requests -> ShowStates]
        /\ popup' \in [Requests -> Requests \cup {0}]
        /\ node' \in [Requests -> NodeStates] /\ finisher' \in [Requests -> Requests \cup {0}]
    BY <1>3, <1>4, <1>6, <2>1 DEF Displays
  <2>3. TypeOK'
    BY <1>1, <2>2 DEF KnownInv, TypeOK
  <2>4. /\ node'[r] = "shown" /\ finisher'[r] = r
        /\ \A m \in Requests : m # r => node'[m] = node[m] /\ finisher'[m] = finisher[m]
        /\ popup'[current] = r /\ \A s \in Requests : s # current => popup'[s] = popup[s]
    BY <1>3, <1>4, <1>6, <2>1 DEF Displays
  <2>5. NodesKnown'
    BY <1>1, <1>2, <1>3, <1>4, <2>4 DEF NodesKnown
  <2>6. PrefabsHeld'
    BY <1>1 DEF KnownInv, PrefabsHeld
  <2>. QED  BY <1>2, <2>3, <2>5, <2>6 DEF KnownInv
<1>. QED  BY <1>5, <1>6

\* A call of show: the request is displayed, loads, waits or displaces.
LEMMA ShowKnown ==
    ASSUME KnownInv, UNCHANGED use, NEW c \in use.calls, Show(c)
    PROVE  KnownInv'
<1>. USE DEF nodes, caches
<1>. DEFINE r == Len(requests) + 1
<1>1. /\ Len(requests) < use.requests /\ requests' = Append(requests, c)
      /\ UNCHANGED <<intervals, preloads, scenes>>
      /\ ShowAtOnce(c) \/ ShowLater(c) \/ ShowImmediately(c)
  BY DEF Show
<1>2. /\ r \in Requests /\ r \notin Made /\ Made' = Made \cup {r}
      /\ requests' \in Seq(Call) /\ Len(requests') <= MaxRequests
      /\ requests'[r] = c /\ \A s \in Made : requests'[s] = requests[s]
      /\ c \in Call
  BY <1>1, RequestMade, UseKnown DEF KnownInv
<1>3. c.path \in Paths /\ c.immediately \in BOOLEAN
  BY <1>2 DEF Call
<1>. HIDE DEF r
<1>4. \A s \in Made' : requests'[s] \in use'.calls
  BY <1>2 DEF KnownInv, ListsKnown
<1>5. /\ \A i \in 1 .. Len(queue) : queue[i] \in Made
      /\ \A i \in 1 .. Len(suspended) : suspended[i] \in Made
      /\ current \in Made \cup {0}
      /\ queue \in Seq(Requests) /\ suspended \in Seq(Requests)
      /\ pc \in [Requests -> ShowStates] /\ QueueInOrder
      /\ waiters \in [Requests -> SUBSET Requests]
  BY DEF KnownInv, ListsKnown, TypeOK
<1>6. UNCHANGED queue => QueueInOrder' /\ \A i \in 1 .. Len(queue') : queue'[i] \in Made'
  <2>. SUFFICES ASSUME UNCHANGED queue
                PROVE  QueueInOrder' /\ \A i \in 1 .. Len(queue) : queue[i] \in Made'
    OBVIOUS
  <2>. QED  BY <1>2, <1>5, OrderStays
<1>7. {"queued", "yielded", "suspending", "stuck"} \subseteq ShowStates
  BY DEF ShowStates
<1>8. CASE ShowAtOnce(c)
  <2>1. Begin(r, c.path) /\ UNCHANGED <<queue, suspended, locked>>
    BY <1>8 DEF ShowAtOnce, r
  <2>2. NodesKnown'
    BY <1>2, <1>3, <2>1, BeginKnown
  <2>3. /\ current' = r /\ UNCHANGED <<closing, waiters, prefabCache, refs>>
        /\ nodeCache' \in [Paths -> Requests \cup {0}]
        /\ popup' \in [Requests -> Requests \cup {0}]
        /\ node' \in [Requests -> NodeStates]
        /\ finisher' \in [Requests -> Requests \cup {0}]
        /\ pc' \in [Requests -> ShowStates]
    BY <1>2, <1>3, <2>1, BeginEffect
  <2>4. TypeOK'
    BY <1>1, <1>2, <2>1, <2>3 DEF KnownInv, TypeOK, intervals
  <2>5. ListsKnown'
    BY <1>2, <1>4, <1>5, <1>6, <2>1, <2>3 DEF ListsKnown
  <2>6. PrefabsHeld'
    BY <2>3 DEF KnownInv, PrefabsHeld
  <2>. QED  BY <1>6, <2>1, <2>2, <2>4, <2>5, <2>6 DEF KnownInv
<1>9. CASE ShowLater(c)
  <2>1. /\ queue' = Pushed(queue, r, c) /\ pc' = [pc EXCEPT ![r] = "queued"]
        /\ UNCHANGED <<popup, current, suspended, locked, nodes, caches>>
    BY <1>9 DEF ShowLater, r
  <2>2. /\ queue' \in Seq(Requests) /\ QueueInOrder'
        /\ \A i \in 1 .. Len(queue') : queue'[i] \in Made'
    BY <1>1, <1>2, <2>1, PushKeepsOrder DEF r
  <2>3. pc' \in [Requests -> ShowStates]
    BY <1>5, <1>7, <2>1
  <2>4. TypeOK'
    BY <1>1, <1>2, <2>1, <2>2, <2>3 DEF KnownInv, TypeOK, intervals
  <2>5. ListsKnown'
    BY <1>2, <1>4, <1>5, <2>1, <2>2 DEF ListsKnown
  <2>6. NodesKnown' /\ PrefabsHeld'
    BY <1>2, <2>1 DEF KnownInv, NodesKnown, PrefabsHeld
  <2>. QED  BY <2>2, <2>4, <2>5, <2>6 DEF KnownInv
<1>10. CASE ShowImmediately(c)
  <2>1. /\ locked' = FALSE /\ Suspend(r)
        /\ UNCHANGED <<popup, current, queue, node, finisher, closing, caches>>
    BY <1>10 DEF ShowImmediately, r
  <2>2. pc' \in [Requests -> ShowStates]
    BY <1>2, <1>5, <1>7, <2>1 DEF Suspend
  <2>3. waiters' \in [Requests -> SUBSET Requests]
    BY <1>2, <1>5, <2>1 DEF Suspend
  <2>4. /\ suspended' \in Seq(Requests)
        /\ \A i \in 1 .. Len(suspended') : suspended'[i] \in Made
    <3>1. CASE UNCHANGED suspended
      BY <3>1, <1>5
    <3>2. CASE current # 0 /\ suspended' = Append(suspended, current)
      <4>1. current \in Made /\ current \in Requests
        BY <3>2, <1>5 DEF KnownInv, TypeOK
      <4>2. /\ suspended' \in Seq(Requests) /\ Len(suspended') = Len(suspended) + 1
            /\ suspended'[Len(suspended) + 1] = current
            /\ \A i \in 1 .. Len(suspended) : suspended'[i] = suspended[i]
        BY <1>5, <3>2, <4>1, AppendProperties
      <4>3. Len(suspended) \in Nat
        BY <1>5
      <4>. QED  BY <4>1, <4>2, <4>3, <1>5
    <3>. QED  BY <2>1, <3>1, <3>2 DEF Suspend
  <2>5. TypeOK'
    BY <1>1, <1>2, <2>1, <2>2, <2>3, <2>4 DEF KnownInv, TypeOK, intervals
  <2>6. ListsKnown'
    BY <1>2, <1>4, <1>5, <1>6, <2>1, <2>4 DEF ListsKnown
  <2>7. NodesKnown' /\ PrefabsHeld'
    BY <1>2, <2>1 DEF KnownInv, NodesKnown, PrefabsHeld
  <2>. QED  BY <1>6, <2>1, <2>5, <2>6, <2>7 DEF KnownInv
<1>. QED  BY <1>1, <1>8, <1>9, <1>10

\* The tail of a list is the list without its head.
LEMMA TailOf ==
    ASSUME NEW S, NEW q \in Seq(S), q # <<>>
    PROVE  /\ Head(q) = q[1] /\ Tail(q) \in Seq(S) /\ Len(q) \in Nat /\ 1 \in 1 .. Len(q)
           /\ Len(Tail(q)) = Len(q) - 1
           /\ \A i \in 1 .. Len(q) - 1 : Tail(q)[i] = q[i + 1] /\ i + 1 \in 1 .. Len(q)
<1>1. /\ Head(q) \in S /\ Tail(q) \in Seq(S) /\ Len(Tail(q)) = Len(q) - 1
      /\ \A i \in 1 .. Len(Tail(q)) : Tail(q)[i] = q[i + 1]
  BY HeadTailProperties
<1>2. Len(q) \in Nat /\ Len(q) # 0 /\ Head(q) = q[1]
  BY EmptySeq
<1>. QED  BY <1>1, <1>2

\* next.
LEMMA NextRunsKnown ==
    ASSUME KnownInv, UNCHANGED use, NextRuns
    PROVE  KnownInv'
<1>. USE DEF shows, nodes, caches
<1>1. /\ due' = due - 1 /\ due' \in Nat /\ UNCHANGED <<scheduled, preloads, scenes>>
      /\ NextIdle \/ NextResumes \/ NextShowsAgain \/ NextShows
  BY DEF NextRuns, KnownInv, TypeOK
<1>2. /\ \A i \in 1 .. Len(queue) : queue[i] \in Made
      /\ \A i \in 1 .. Len(suspended) : suspended[i] \in Made
      /\ current \in Made \cup {0}
      /\ queue \in Seq(Requests) /\ suspended \in Seq(Requests)
      /\ Made \subseteq Requests /\ \A s \in Made : requests[s] \in Call /\ requests[s] \in use.calls
      /\ QueueInOrder
  BY MadeKnown DEF KnownInv, ListsKnown, TypeOK
<1>3. CASE NextIdle
  <2>1. UNCHANGED <<shows, current, queue, suspended, locked, nodes, caches>>
    BY <1>3 DEF NextIdle
  <2>2. ListsKnown' /\ QueueInOrder' /\ Made' = Made
    BY <2>1, ListsKept
  <2>3. TypeOK'
    BY <1>1, <2>1 DEF KnownInv, TypeOK
  <2>4. NodesKnown' /\ PrefabsHeld'
    BY <2>1, <2>2 DEF KnownInv, NodesKnown, PrefabsHeld
  <2>. QED  BY <2>2, <2>3, <2>4 DEF KnownInv
<1>4. CASE NextResumes
  <2>. DEFINE r == Head(suspended)
  <2>1. /\ suspended # <<>> /\ HasPopup(r) /\ current' = r
        /\ node' = [node EXCEPT ![popup[r]] =
                       IF @ \in {"detached", "limbo"} THEN "limbo" ELSE "shown"]
        /\ suspended' = Tail(suspended) /\ locked' = FALSE
        /\ UNCHANGED <<requests, pc, popup, queue, finisher, closing, waiters, caches>>
    BY <1>4 DEF NextResumes
  <2>2. /\ r = suspended[1] /\ 1 \in 1 .. Len(suspended) /\ suspended' \in Seq(Requests)
        /\ Len(suspended) \in Nat /\ Len(suspended') = Len(suspended) - 1
        /\ \A i \in 1 .. Len(suspended) - 1 :
               suspended'[i] = suspended[i + 1] /\ i + 1 \in 1 .. Len(suspended)
    BY <1>2, <2>1, TailOf
  <2>3. r \in Made /\ Made' = Made
    BY <1>2, <2>1, <2>2 DEF Made
  <2>. HIDE DEF r
  <2>4. ListsKnown' /\ QueueInOrder'
    <3>1. QueueInOrder'
      BY <1>2, <2>1, OrderStays
    <3>. QED  BY <1>2, <2>1, <2>2, <2>3, <3>1 DEF ListsKnown
  <2>5. /\ node' \in [Requests -> NodeStates] /\ popup[r] # 0 /\ popup[r] \in Requests
        /\ \A m \in Requests : node[m] # "none" <=> node'[m] # "none"
    <3>1. /\ node \in [Requests -> NodeStates] /\ popup[r] \in Requests \cup {0}
          /\ popup[r] # 0 /\ node[popup[r]] # "none" /\ {"limbo", "shown"} \subseteq NodeStates
      BY <1>2, <2>1, <2>3 DEF HasPopup, KnownInv, TypeOK, NodesKnown, NodeStates
    <3>. QED  BY <2>1, <3>1
  <2>6. TypeOK'
    BY <1>1, <1>2, <2>1, <2>2, <2>3, <2>5 DEF KnownInv, TypeOK
  <2>7. NodesKnown' /\ PrefabsHeld'
    BY <2>1, <2>3, <2>5 DEF KnownInv, NodesKnown, PrefabsHeld, TypeOK
  <2>. QED  BY <2>4, <2>6, <2>7 DEF KnownInv
<1>5. CASE NextShowsAgain
  <2>. DEFINE c == requests[Head(suspended)]  r == Len(requests) + 1
  <2>1. /\ suspended # <<>> /\ Len(requests) < use.requests
        /\ requests' = Append(requests, c) /\ Begin(r, c.path)
        /\ suspended' = Tail(suspended) /\ locked' = FALSE /\ UNCHANGED queue
    BY <1>5 DEF NextShowsAgain
  <2>2. /\ Head(suspended) = suspended[1] /\ 1 \in 1 .. Len(suspended)
        /\ suspended' \in Seq(Requests)
        /\ Len(suspended) \in Nat /\ Len(suspended') = Len(suspended) - 1
        /\ \A i \in 1 .. Len(suspended) - 1 :
               suspended'[i] = suspended[i + 1] /\ i + 1 \in 1 .. Len(suspended)
    BY <1>2, <2>1, TailOf
  <2>3. c \in Call /\ c \in use.calls /\ c.path \in Paths
    BY <1>2, <2>2 DEF Call
  <2>. HIDE DEF c
  <2>4. /\ r \in Requests /\ r \notin Made /\ Made' = Made \cup {r}
        /\ requests' \in Seq(Call) /\ Len(requests') <= MaxRequests
        /\ requests'[r] = c /\ \A s \in Made : requests'[s] = requests[s]
    BY <2>1, <2>3, RequestMade DEF KnownInv
  <2>. HIDE DEF r
  <2>5. NodesKnown'
    BY <2>1, <2>3, <2>4, BeginKnown
  <2>6. /\ current' = r /\ UNCHANGED <<closing, waiters, prefabCache, refs>>
        /\ nodeCache' \in [Paths -> Requests \cup {0}]
        /\ popup' \in [Requests -> Requests \cup {0}]
        /\ node' \in [Requests -> NodeStates]
        /\ finisher' \in [Requests -> Requests \cup {0}]
        /\ pc' \in [Requests -> ShowStates]
    BY <2>1, <2>3, <2>4, BeginEffect
  <2>7. TypeOK'
    BY <1>1, <1>2, <2>1, <2>2, <2>4, <2>6 DEF KnownInv, TypeOK
  <2>8. ListsKnown'
    BY <1>2, <2>1, <2>2, <2>3, <2>4, <2>6 DEF ListsKnown
  <2>10. QueueInOrder'
    <3>1. \A i \in 1 .. Len(queue) : requests'[queue[i]] = requests[queue[i]]
      BY <1>2, <2>4
    <3>2. UNCHANGED queue
      BY <2>1
    <3>. QED  BY <1>2, <3>1, <3>2, OrderStays
  <2>9. PrefabsHeld'
    BY <2>6 DEF KnownInv, PrefabsHeld
  <2>. QED  BY <2>5, <2>7, <2>8, <2>9, <2>10 DEF KnownInv
<1>6. CASE NextShows
  <2>. DEFINE r == Head(queue)
  <2>1. /\ queue # <<>> /\ Begin(r, requests[r].path)
        /\ queue' = Tail(queue) /\ locked' = FALSE /\ UNCHANGED <<requests, suspended>>
    BY <1>6 DEF NextShows
  <2>2. /\ r = queue[1] /\ 1 \in 1 .. Len(queue) /\ queue' \in Seq(Requests)
        /\ Len(queue) \in Nat /\ Len(queue') = Len(queue) - 1
        /\ \A i \in 1 .. Len(queue) - 1 :
               queue'[i] = queue[i + 1] /\ i + 1 \in 1 .. Len(queue)
    BY <1>2, <2>1, TailOf
  <2>3. r \in Made /\ r \in Requests /\ requests[r].path \in Paths /\ Made' = Made
    BY <1>2, <2>1, <2>2 DEF Call, Made
  <2>. HIDE DEF r
  <2>4. NodesKnown'
    BY <2>1, <2>3, BeginKnown
  <2>5. /\ current' = r /\ UNCHANGED <<closing, waiters, prefabCache, refs>>
        /\ nodeCache' \in [Paths -> Requests \cup {0}]
        /\ popup' \in [Requests -> Requests \cup {0}]
        /\ node' \in [Requests -> NodeStates]
        /\ finisher' \in [Requests -> Requests \cup {0}]
        /\ pc' \in [Requests -> ShowStates]
    BY <2>1, <2>3, BeginEffect
  <2>6. TypeOK'
    BY <1>1, <1>2, <2>1, <2>2, <2>3, <2>5 DEF KnownInv, TypeOK
  <2>7. ListsKnown'
    BY <1>2, <2>1, <2>2, <2>3, <2>5 DEF ListsKnown
  <2>8. QueueInOrder'
    <3>1. SUFFICES ASSUME NEW i \in 1 .. Len(queue) - 1, NEW j \in 1 .. Len(queue) - 1, i < j
                   PROVE  LET a == requests[queue[i + 1]].priority
                              b == requests[queue[j + 1]].priority
                          IN  a > b \/ (a = b /\ queue[i + 1] < queue[j + 1])
      BY <2>1, <2>2 DEF QueueInOrder
    <3>2. i + 1 < j + 1 /\ i + 1 \in 1 .. Len(queue) /\ j + 1 \in 1 .. Len(queue)
      BY <2>2, <3>1
    <3>. QED  BY <1>2, <3>2 DEF QueueInOrder
  <2>9. PrefabsHeld'
    BY <2>5 DEF KnownInv, PrefabsHeld
  <2>. QED  BY <2>4, <2>6, <2>7, <2>8, <2>9 DEF KnownInv
<1>. QED  BY <1>1, <1>3, <1>4, <1>5, <1>6

\* Every step keeps the invariant.
LEMMA KnownStep == KnownInv /\ [Next]_vars => KnownInv'
<1>. SUFFICES ASSUME KnownInv, [Next]_vars PROVE KnownInv'
  OBVIOUS
<1>1. CASE UNCHANGED vars
  <2>1. UNCHANGED <<use, requests, pc, popup, current, queue, suspended, locked, scheduled,
                    due, node, finisher, closing, waiters, nodeCache, prefabCache, refs,
                    preloads, scenes>>
    BY <1>1 DEF vars, state, shows, lists, intervals, nodes, caches
  <2>. QED  BY <2>1 DEF KnownInv, TypeOK, ListsKnown, NodesKnown, PrefabsHeld,
            QueueInOrder, Made
<1>2. CASE Next
  <2>1. UNCHANGED use
    BY <1>2 DEF Next
  <2>2. ASSUME NEW c \in use.calls, Show(c) PROVE KnownInv'
    BY <2>1, <2>2, ShowKnown
  <2>3. ASSUME NEW n \in Requests, HideEnds(n) PROVE KnownInv'
    BY <2>1, <2>3, HideEndsKnown
  <2>4. ASSUME NEW r \in Made, ShowResumes(r) \/ LoadReturns(r) PROVE KnownInv'
    BY <2>1, <2>4, ResumesKnown, LoadReturnsKnown
  <2>5. CASE NextRuns
    BY <2>1, <2>5, NextRunsKnown
  <2>6. CASE \/ \E n \in Requests : Hide(n)
             \/ \E n, r \in Requests : SuspendingHideEnds(n, r)
             \/ \E r \in Made : SuspendReturns(r) \/ LoadFails(r)
             \/ IntervalEnds \/ ChangeScene
    BY <2>1, <2>6, QuietKnown
  <2>7. CASE \/ \E p \in Paths : Preload(p) \/ PreloadEnds(p) \/ Release(p)
             \/ \E r \in Made : LoadEnds(r)
    BY <2>1, <2>7, PrefabKnown
  <2>. QED  BY <1>2, <2>2, <2>3, <2>4, <2>5, <2>6, <2>7 DEF Next
<1>. QED  BY <1>1, <1>2

\* The invariant holds in every use of the manager.
THEOREM KnownInvariant == Spec => []KnownInv
<1>. QED  BY KnownInit, KnownStep, PTL DEF Spec

\* In every use, failures, releases and scene changes included, the waiting queue
\* is ordered by priority and, within one priority, by the order of the calls.
THEOREM QueueAlwaysInOrder == Spec => []QueueInOrder
<1>1. KnownInv => QueueInOrder
  BY DEF KnownInv
<1>. QED  BY <1>1, KnownInvariant, PTL


-----------------------------------------------------------------------------
(* The inductive invariant of settled uses. *)

\* A settled use of which the properties speak: nothing fails, is released or is
\* loaded early, no scene changes, and no popup is shown immediately whose
\* prefab another call keeps with its node.
IsRegular(u) ==
    /\ u.mayFail = {} /\ u.mayRelease = {} /\ u.preloads = 0 /\ u.scenes = 0
    /\ \A c, d \in u.calls : (c.immediately /\ d.mode = "Frequent") => c.path # d.path

\* The show of r is past the queue and has not come to its end.
GoingStates == {"suspending", "hidden", "resuming", "yielded", "loading", "loaded"}
Going(r) == pc[r] \in GoingStates
IsSuspended(r) == \E i \in 1 .. Len(suspended) : suspended[i] = r

\* One show goes on at a time, and none has failed or got stuck.
OneGoing ==
    /\ \A r, s \in Requests : Going(r) /\ Going(s) => r = s
    /\ \A r \in Requests : pc[r] \notin {"failed", "stuck"}

\* A request has a popup when its show is done, and its node is not there before.
Unborn ==
    /\ \A r \in Requests : r \notin Made => pc[r] = "none"
    /\ \A r \in Requests : pc[r] # "done" => popup[r] = 0 /\ node[r] = "none"

\* An immediate request waits until the current popup is off the screen.
Displacing == \A r \in Requests :
    /\ pc[r] \in {"suspending", "hidden", "resuming", "yielded"} =>
           r \in Made /\ requests[r].immediately
    /\ pc[r] \in {"suspending", "hidden"} =>
           current # 0 /\ popup[current] # 0 /\ IsSuspended(current)
    /\ pc[r] = "suspending" =>
           node[popup[current]] = "shown" /\ waiters[popup[current]] = {r}
    /\ pc[r] = "hidden" => node[popup[current]] = "hidden"
    /\ pc[r] \in {"resuming", "yielded"} => current = 0
    /\ pc[r] \in {"hidden", "resuming"} => scheduled = 0 /\ due = 0
    /\ pc[r] = "yielded" => due = 0

\* The request whose prefab loads is the current one.
Loading == \A r \in Requests :
    /\ pc[r] \in {"loading", "loaded"} => r \in Made /\ current = r
    /\ pc[r] = "loading" => requests[r].path \notin prefabCache
    /\ pc[r] = "loaded" => requests[r].path \in prefabCache

\* The current popup loads, is on screen or leaves it for another one.
CurrentPlace == current # 0 =>
    /\ pc[current] \in {"loading", "loaded", "done"}
    /\ pc[current] = "done" =>
           /\ popup[current] # 0
           /\ \/ node[popup[current]] = "shown"
              \/ node[popup[current]] = "hidden" /\ \E r \in Requests : pc[r] = "hidden"

\* What is on screen is the current popup, what is hidden is suspended.
Screen == \A n \in Requests :
    /\ node[n] # "limbo"
    /\ node[n] = "shown" => current # 0 /\ popup[current] = n
    /\ node[n] = "hidden" => \E i \in 1 .. Len(suspended) : popup[suspended[i]] = n
    /\ n \in closing => node[n] = "shown" /\ waiters[n] = {}
    /\ \A r \in waiters[n] : pc[r] = "suspending" /\ node[n] = "shown"

\* Each suspended popup has a node of its own, hidden or about to be.
SuspendedPlace ==
    /\ \A i, j \in 1 .. Len(suspended) :
           popup[suspended[i]] = popup[suspended[j]] => i = j
    /\ \A i \in 1 .. Len(suspended) :
           /\ popup[suspended[i]] # 0
           /\ \/ node[popup[suspended[i]]] = "hidden"
              \/ /\ node[popup[suspended[i]]] = "shown"
                 /\ waiters[popup[suspended[i]]] # {}

\* While somebody waits and nothing is shown, newcomers are locked out, and a
\* call of next() or a show is on its way.
Waiting ==
    /\ \A i \in 1 .. Len(queue) : pc[queue[i]] = "queued"
    /\ scheduled + due <= 1
    /\ locked => queue # <<>> \/ suspended # <<>>
    /\ (queue # <<>> \/ suspended # <<>>) /\ current = 0 =>
           /\ locked \/ \E r \in Requests : Going(r)
           /\ scheduled + due = 1 \/ \E r \in Requests : pc[r] \in {"yielded", "resuming"}

\* Nodes are kept for Frequent calls; a cached prefab has one reference.
Caches ==
    /\ \A p \in Paths : nodeCache[p] # 0 =>
           \E d \in use.calls : d.path = p /\ d.mode = "Frequent"
    /\ \A p \in Paths : refs[p] = IF p \in prefabCache THEN 1 ELSE 0
    /\ \A p \in Paths : preloads[p] = 0

SettledInv ==
    /\ OneGoing /\ Unborn /\ Displacing /\ Loading /\ CurrentPlace
    /\ Screen /\ SuspendedPlace /\ Waiting /\ Caches

\* A state of a settled use: what is known in every use, and the invariant.
SettledState == KnownInv /\ SettledInv /\ use.settled /\ IsRegular(use)

\* The shapes of the variables that the steps change.
LEMMA Shapes ==
    ASSUME KnownInv
    PROVE  /\ pc \in [Requests -> ShowStates]
           /\ popup \in [Requests -> Requests \cup {0}]
           /\ node \in [Requests -> NodeStates]
           /\ waiters \in [Requests -> SUBSET Requests]
           /\ closing \in SUBSET Requests
           /\ current \in Requests \cup {0}
           /\ queue \in Seq(Requests) /\ suspended \in Seq(Requests)
           /\ Len(queue) \in Nat /\ Len(suspended) \in Nat
           /\ scheduled \in Nat /\ due \in Nat /\ locked \in BOOLEAN
           /\ refs \in [Paths -> Nat] /\ prefabCache \in SUBSET Paths
           /\ nodeCache \in [Paths -> Requests \cup {0}]
           /\ preloads \in [Paths -> Nat]
           /\ 0 \notin Requests /\ Made \subseteq Requests
           /\ \A r \in Made : requests[r] \in use.calls /\ requests[r] \in Call
<1>1. TypeOK /\ ListsKnown
  BY DEF KnownInv
<1>2. queue \in Seq(Requests) /\ suspended \in Seq(Requests)
  BY <1>1 DEF TypeOK
<1>3. Len(queue) \in Nat /\ Len(suspended) \in Nat
  BY <1>2
<1>4. /\ 0 \notin Requests /\ Made \subseteq Requests
      /\ \A r \in Made : requests[r] \in use.calls /\ requests[r] \in Call
  BY <1>1, Constants, MadeKnown DEF ListsKnown
<1>5. /\ pc \in [Requests -> ShowStates] /\ popup \in [Requests -> Requests \cup {0}]
      /\ node \in [Requests -> NodeStates] /\ waiters \in [Requests -> SUBSET Requests]
      /\ closing \in SUBSET Requests /\ current \in Requests \cup {0}
      /\ scheduled \in Nat /\ due \in Nat /\ locked \in BOOLEAN
  BY <1>1 DEF TypeOK
<1>6. /\ refs \in [Paths -> Nat] /\ prefabCache \in SUBSET Paths
      /\ nodeCache \in [Paths -> Requests \cup {0}] /\ preloads \in [Paths -> Nat]
  BY <1>1 DEF TypeOK
<1>. QED  BY <1>2, <1>3, <1>4, <1>5, <1>6

\* A step of the show of r, which is not in the queue, leaves the queue as it is.
LEMMA QueueStays ==
    ASSUME SettledState, NEW r, pc[r] # "queued", \A s \in Requests : s # r => pc'[s] = pc[s]
    PROVE  \A i \in 1 .. Len(queue) : pc'[queue[i]] = "queued"
<1>. SUFFICES ASSUME NEW i \in 1 .. Len(queue) PROVE pc'[queue[i]] = "queued"
  OBVIOUS
<1>1. queue[i] \in Requests
  BY Shapes DEF SettledState
<1>2. pc[queue[i]] = "queued"
  BY DEF SettledState, SettledInv, Waiting
<1>. QED  BY <1>1, <1>2

\* Without a current request, and no show about to go on, no show is going on.
LEMMA NobodyGoing ==
    ASSUME SettledState, current = 0, EngineTurn \/ due > 0
    PROVE  \A r \in Requests : ~Going(r)
BY Shapes DEF SettledState, SettledInv, Displacing, Loading, EngineTurn, Going, GoingStates

\* Nor while the current popup is on screen and nobody waits for it to go.
LEMMA NobodyDisplaces ==
    ASSUME SettledState, NEW n \in Requests, current # 0, popup[current] = n,
           node[n] = "shown", waiters[n] = {}
    PROVE  /\ \A r \in Requests : ~Going(r)
           /\ pc[current] = "done"
<1>1. pc[current] = "done"
  BY Shapes DEF SettledState, SettledInv, Unborn
<1>. QED  BY <1>1, Shapes DEF SettledState, SettledInv, Displacing, Loading, Going, GoingStates

\* Whenever a show goes on after its last await, the invariant is kept.
LEMMA BeginSettled ==
    ASSUME SettledState, NEW r \in Requests, NEW p \in Paths, Begin(r, p),
           current = 0, pc[r] # "done", \A s \in Requests : Going(s) => s = r,
           Made \subseteq Made', r \in Made', requests'[r].path = p,
           CachedNode(p) = 0 \/ suspended = <<>>,
           \A i \in 1 .. Len(queue') :
               queue'[i] # r /\ \E j \in 1 .. Len(queue) : queue'[i] = queue[j],
           UNCHANGED <<use, suspended, preloads>>,
           locked' => queue' # <<>> \/ suspended' # <<>>,
           scheduled' + due' <= 1
    PROVE  SettledInv'
<1>. DEFINE c == CachedNode(p)  n == IF c # 0 THEN c ELSE r
<1>1. /\ current' = r /\ UNCHANGED <<closing, waiters, prefabCache, refs>>
      /\ c \in Requests \cup {0}
      /\ c # 0 => nodeCache[p] = c /\ node[c] \notin {"none", "dead"}
      /\ nodeCache' = [nodeCache EXCEPT ![p] = c]
      /\ \A s \in Requests : s # r => pc'[s] = pc[s] /\ popup'[s] = popup[s]
      /\ \/ /\ c = 0 /\ p \notin prefabCache
            /\ pc'[r] = "loading"
            /\ UNCHANGED <<popup, node, finisher>>
         \/ /\ pc'[r] = "done" /\ popup'[r] = n /\ node'[n] = "shown"
            /\ \A m \in Requests : m # n => node'[m] = node[m]
  BY BeginEffect DEF SettledState
<1>2. /\ 0 \notin Requests /\ Made \subseteq Requests /\ suspended \in Seq(Requests)
      /\ nodeCache \in [Paths -> Requests \cup {0}]
      /\ popup \in [Requests -> Requests \cup {0}] /\ Len(suspended) \in Nat
  BY Shapes DEF SettledState
<1>3. /\ OneGoing /\ Unborn /\ Displacing /\ Loading
      /\ Screen /\ SuspendedPlace /\ Waiting /\ Caches
  BY DEF SettledState, SettledInv
<1>. HIDE DEF c
<1>4. n \in Requests /\ (n # r => c # 0 /\ n = c)
  BY <1>1
<1>5. popup[r] = 0 /\ node[r] = "none"
  BY <1>3 DEF Unborn
<1>6. node[n] = "none" => n = r
  BY <1>1, <1>4
<1>. HIDE DEF n
<1>7. OneGoing'
  BY <1>1, <1>3 DEF OneGoing, Going, GoingStates
<1>8. Unborn'
  BY <1>1, <1>3, <1>4, <1>6 DEF Unborn
<1>9. \A s \in Requests : pc'[s] \in GoingStates => s = r /\ pc'[s] = "loading"
  BY <1>1 DEF Going, GoingStates
<1>10. Displacing'
  BY <1>9 DEF Displacing, GoingStates
<1>11. Loading'
  BY <1>1, <1>9 DEF Loading, GoingStates
<1>12. CurrentPlace'
  BY <1>1, <1>2, <1>4 DEF CurrentPlace
<1>13. \A i \in 1 .. Len(suspended) :
          /\ suspended[i] \in Requests /\ suspended[i] # r
          /\ popup'[suspended[i]] = popup[suspended[i]]
          /\ popup[suspended[i]] \in Requests
          /\ node'[popup[suspended[i]]] = node[popup[suspended[i]]]
  <2>. SUFFICES ASSUME NEW i \in 1 .. Len(suspended)
                PROVE  /\ suspended[i] \in Requests /\ suspended[i] # r
                       /\ popup'[suspended[i]] = popup[suspended[i]]
                       /\ popup[suspended[i]] \in Requests
                       /\ node'[popup[suspended[i]]] = node[popup[suspended[i]]]
    OBVIOUS
  <2>1. suspended # <<>> /\ c = 0
    BY <1>2 DEF c
  <2>2. suspended[i] \in Requests /\ popup[suspended[i]] # 0
    BY <1>2, <1>3 DEF SuspendedPlace
  <2>3. node[popup[suspended[i]]] # "none"
    BY <1>3 DEF SuspendedPlace
  <2>. QED  BY <1>1, <1>2, <1>4, <1>5, <2>1, <2>2, <2>3
<1>14. SuspendedPlace'
  <2>1. UNCHANGED <<suspended, waiters>>
    BY <1>1
  <2>2. \A i, j \in 1 .. Len(suspended) :
           popup'[suspended[i]] = popup'[suspended[j]] => i = j
    BY <1>3, <1>13 DEF SuspendedPlace
  <2>. QED  BY <1>3, <1>13, <2>1, <2>2 DEF SuspendedPlace
<1>15. Screen'
  <2>. SUFFICES ASSUME NEW m \in Requests
                PROVE  /\ node'[m] # "limbo"
                       /\ node'[m] = "shown" => current' # 0 /\ popup'[current'] = m
                       /\ node'[m] = "hidden" =>
                              \E i \in 1 .. Len(suspended') : popup'[suspended'[i]] = m
                       /\ m \in closing' => node'[m] = "shown" /\ waiters'[m] = {}
                       /\ \A s \in waiters'[m] : pc'[s] = "suspending" /\ node'[m] = "shown"
    BY DEF Screen
  <2>1. m \notin closing /\ node[m] # "shown" /\ node[m] # "limbo"
    BY <1>3 DEF Screen
  <2>2. waiters[m] = {}
    <3>1. \A s \in waiters[m] : s \in Requests /\ pc[s] = "suspending"
      BY <1>3, Shapes DEF Screen, SettledState
    <3>. QED  BY <1>3, <3>1 DEF Displacing
  <2>3. m = n \/ node'[m] = node[m]
    BY <1>1
  <2>4. node'[m] = "shown" => current' # 0 /\ popup'[current'] = m
    BY <1>1, <1>2, <2>1, <2>3
  <2>5. node'[m] = "hidden" => node[m] = "hidden"
    BY <1>1, <2>3
  <2>6. node[m] = "hidden" => \E i \in 1 .. Len(suspended) : popup'[suspended[i]] = m
    BY <1>3, <1>13 DEF Screen
  <2>7. node'[m] # "limbo"
    BY <1>1, <2>1, <2>3
  <2>. QED  BY <1>1, <2>1, <2>2, <2>4, <2>5, <2>6, <2>7
<1>16. Waiting'
  <2>1. \A i \in 1 .. Len(queue') : pc'[queue'[i]] = "queued"
    <3>. SUFFICES ASSUME NEW i \in 1 .. Len(queue') PROVE pc'[queue'[i]] = "queued"
      OBVIOUS
    <3>1. PICK j \in 1 .. Len(queue) : queue'[i] = queue[j]
      OBVIOUS
    <3>2. queue[j] \in Requests /\ pc[queue[j]] = "queued"
      BY <1>3, Shapes DEF Waiting, SettledState
    <3>. QED  BY <1>1, <3>1, <3>2
  <2>. QED  BY <1>1, <1>2, <2>1 DEF Waiting
<1>17. Caches'
  BY <1>1, <1>2, <1>3 DEF Caches
<1>. QED  BY <1>7, <1>8, <1>10, <1>11, <1>12, <1>14, <1>15, <1>16, <1>17 DEF SettledInv

-----------------------------------------------------------------------------
(* The calls of the application, in settled uses. *)

\* What a new request is: not among the earlier ones, and not begun.
LEMMA NewRequest ==
    ASSUME SettledState, UNCHANGED use, NEW c \in use.calls, Show(c), NEW r, r = Len(requests) + 1
    PROVE  /\ r \in Requests /\ r \notin Made /\ Made' = Made \cup {r}
           /\ requests'[r] = c /\ \A s \in Made : requests'[s] = requests[s]
           /\ c \in Call /\ c.path \in Paths
           /\ pc[r] = "none" /\ popup[r] = 0 /\ node[r] = "none"
           /\ current # r
           /\ \A i \in 1 .. Len(queue) : queue[i] # r
           /\ \A i \in 1 .. Len(suspended) : suspended[i] # r
<1>1. TypeOK /\ ListsKnown /\ Unborn
  BY DEF SettledState, KnownInv, SettledInv
<1>2. c \in Call /\ c.path \in Paths
  BY <1>1, UseKnown DEF Call
<1>3. /\ r \in Requests /\ r \notin Made /\ Made' = Made \cup {r}
      /\ requests'[r] = c /\ \A s \in Made : requests'[s] = requests[s]
  BY <1>1, <1>2, RequestMade DEF Show
<1>. QED  BY <1>1, <1>2, <1>3, Constants DEF ListsKnown, Unborn

\* A request shown at once finds nobody waiting.
LEMMA NobodyWaits ==
    ASSUME SettledState, current = 0, ~locked, \A r \in Requests : ~Going(r)
    PROVE  queue = <<>> /\ suspended = <<>>
BY DEF SettledState, SettledInv, Waiting

\* A request shown at once goes through the await of show with nobody going.
LEMMA ShowAtOnceSettled ==
    ASSUME SettledState, UNCHANGED use, NEW c \in use.calls, Show(c), ShowAtOnce(c)
    PROVE  SettledInv'
<1>. DEFINE r == Len(requests) + 1
<1>1. /\ current = 0 /\ ~locked /\ Begin(r, c.path) /\ EngineTurn
      /\ UNCHANGED <<queue, suspended, locked, scheduled, due, preloads>>
  BY DEF Show, ShowAtOnce, AppTurn, intervals
<1>2. /\ r \in Requests /\ Made' = Made \cup {r} /\ requests'[r] = c
      /\ c.path \in Paths /\ pc[r] = "none"
  BY NewRequest
<1>. HIDE DEF r
<1>3. \A s \in Requests : ~Going(s)
  BY <1>1, NobodyGoing
<1>4. queue = <<>> /\ suspended = <<>>
  BY <1>1, <1>3, NobodyWaits
<1>5. Len(queue') = 0 /\ scheduled + due <= 1
  BY <1>1, <1>4 DEF SettledState, SettledInv, Waiting
<1>6. \A i \in 1 .. Len(queue') :
          queue'[i] # r /\ \E j \in 1 .. Len(queue) : queue'[i] = queue[j]
  BY <1>5
<1>. QED  BY <1>1, <1>2, <1>3, <1>4, <1>5, <1>6, BeginSettled

\* A request that waits leaves everything else as it is.
LEMMA ShowLaterSettled ==
    ASSUME SettledState, UNCHANGED use, NEW c \in use.calls, Show(c), ShowLater(c)
    PROVE  SettledInv' /\ queue' # queue
<1>. DEFINE r == Len(requests) + 1
<1>1. /\ current # 0 \/ locked
      /\ queue' = Pushed(queue, r, c)
      /\ pc' = [pc EXCEPT ![r] = "queued"]
      /\ UNCHANGED <<popup, current, suspended, locked, node, closing, waiters, nodeCache,
                     prefabCache, refs, scheduled, due, preloads>>
      /\ Len(requests) < use.requests /\ requests' = Append(requests, c)
  BY DEF Show, ShowLater, nodes, caches, intervals
<1>2. /\ r \in Requests /\ r \notin Made /\ Made' = Made \cup {r} /\ c \in Call
      /\ \A s \in Made : requests'[s] = requests[s]
      /\ pc[r] = "none" /\ popup[r] = 0 /\ node[r] = "none" /\ current # r
      /\ \A i \in 1 .. Len(queue) : queue[i] # r
  BY NewRequest
<1>3. /\ queue' # queue
      /\ \A i \in 1 .. Len(queue') :
             queue'[i] = r \/ \E j \in 1 .. Len(queue) : queue'[i] = queue[j]
  BY <1>1, <1>2, PushKeepsOrder DEF SettledState
<1>. HIDE DEF r
<1>4. /\ OneGoing /\ Unborn /\ Displacing /\ Loading /\ CurrentPlace
      /\ Screen /\ SuspendedPlace /\ Waiting /\ Caches
  BY DEF SettledState, SettledInv
<1>5. pc'[r] = "queued" /\ \A s \in Requests : s # r => pc'[s] = pc[s]
  BY <1>1, <1>2, Shapes DEF SettledState
<1>6. OneGoing' /\ Unborn'
  BY <1>1, <1>2, <1>4, <1>5 DEF OneGoing, Unborn, Going, GoingStates
<1>7. Displacing'
  <2>1. \A s \in Requests : pc'[s] \in {"suspending", "hidden", "resuming", "yielded"} =>
                                pc'[s] = pc[s]
    BY <1>5
  <2>2. \A s \in Made : s \in Made' /\ requests'[s].immediately = requests[s].immediately
    BY <1>2
  <2>3. IsSuspended(current)' <=> IsSuspended(current)
    BY <1>1 DEF IsSuspended
  <2>4. \A s \in Requests : pc'[s] \in {"suspending", "hidden", "resuming", "yielded"} =>
            s \in Made' /\ requests'[s].immediately
    BY <1>4, <2>1, <2>2 DEF Displacing
  <2>5. UNCHANGED <<popup, current, node, waiters, scheduled, due>>
    BY <1>1
  <2>. QED  BY <1>4, <2>1, <2>3, <2>4, <2>5 DEF Displacing
<1>8. Loading'
  BY <1>1, <1>2, <1>4, <1>5 DEF Loading
<1>9. CurrentPlace'
  BY <1>1, <1>2, <1>4, <1>5, Shapes DEF CurrentPlace, SettledState
<1>10. Screen'
  <2>1. \A n \in Requests : \A s \in waiters[n] : s # r /\ pc'[s] = "suspending"
    BY <1>2, <1>4, <1>5, Shapes DEF Screen, SettledState
  <2>. QED  BY <1>1, <1>4, <2>1 DEF Screen
<1>11. SuspendedPlace'
  BY <1>1, <1>4 DEF SuspendedPlace
<1>12. Waiting'
  <2>1. \A i \in 1 .. Len(queue') : pc'[queue'[i]] = "queued"
    <3>. SUFFICES ASSUME NEW i \in 1 .. Len(queue') PROVE pc'[queue'[i]] = "queued"
      OBVIOUS
    <3>1. CASE queue'[i] = r
      BY <1>5, <3>1
    <3>2. ASSUME NEW j \in 1 .. Len(queue), queue'[i] = queue[j] PROVE pc'[queue'[i]] = "queued"
      BY <1>2, <1>4, <1>5, <3>2, Shapes DEF Waiting, SettledState
    <3>. QED  BY <1>3, <3>1, <3>2
  <2>2. current = 0 => queue # <<>> \/ suspended # <<>>
    BY <1>1, <1>4 DEF Waiting
  <2>3. queue' # <<>>
    <3>1. queue = <<>> => queue' # <<>>
      BY <1>3
    <3>2. queue # <<>> => Len(queue') # 0
      BY <1>1, <1>2, PushedBehindEquals, Shapes DEF SettledState
    <3>. QED  BY <3>1, <3>2
  <2>4. \A s \in Requests : /\ Going(s) => Going(s)'
                            /\ pc[s] \in {"yielded", "resuming"} => pc'[s] = pc[s]
    BY <1>2, <1>5 DEF Going, GoingStates
  <2>5. scheduled' + due' <= 1 /\ (locked' => queue' # <<>> \/ suspended' # <<>>)
    BY <1>1, <1>4, <2>3 DEF Waiting
  <2>6. current' = 0 => /\ locked' \/ \E s \in Requests : Going(s)'
                        /\ scheduled' + due' = 1 \/ \E s \in Requests : pc'[s] \in {"yielded", "resuming"}
    BY <1>1, <1>4, <2>2, <2>4 DEF Waiting
  <2>. QED  BY <2>1, <2>5, <2>6 DEF Waiting, Going
<1>13. Caches'
  BY <1>1, <1>4 DEF Caches
<1>. QED  BY <1>3, <1>6, <1>7, <1>8, <1>9, <1>10, <1>11, <1>12, <1>13 DEF SettledInv

\* Without a current request, suspend finds nothing to hide.
LEMMA ShowYieldsSettled ==
    ASSUME SettledState, UNCHANGED use, NEW c \in use.calls, Show(c), ShowImmediately(c),
           current = 0
    PROVE  SettledInv'
<1>. DEFINE r == Len(requests) + 1
<1>1. /\ c.immediately /\ locked /\ locked' = FALSE /\ EngineTurn
      /\ UNCHANGED <<popup, current, queue, suspended, node, closing, waiters, nodeCache,
                     prefabCache, refs, scheduled, due, preloads>>
      /\ pc' = [pc EXCEPT ![r] = "yielded"]
      /\ due = 0
  BY Shapes DEF Show, ShowImmediately, Suspend, AppTurn, Microtasks, caches, intervals,
     SettledState
<1>2. /\ r \in Requests /\ r \notin Made /\ Made' = Made \cup {r} /\ requests'[r] = c
      /\ \A s \in Made : requests'[s] = requests[s]
      /\ pc[r] = "none" /\ popup[r] = 0 /\ node[r] = "none"
      /\ \A i \in 1 .. Len(queue) : queue[i] # r
  BY NewRequest
<1>. HIDE DEF r
<1>3. \A s \in Requests : ~Going(s)
  BY <1>1, NobodyGoing
<1>4. /\ OneGoing /\ Unborn /\ Displacing /\ Loading /\ CurrentPlace
      /\ Screen /\ SuspendedPlace /\ Waiting /\ Caches
  BY DEF SettledState, SettledInv
<1>5. pc'[r] = "yielded" /\ \A s \in Requests : s # r => pc'[s] = pc[s]
  BY <1>1, <1>2, Shapes DEF SettledState
<1>6. \A s \in Requests : pc'[s] \in GoingStates => s = r
  BY <1>3, <1>5 DEF Going
<1>7. OneGoing'
  BY <1>4, <1>5, <1>6 DEF OneGoing, Going
<1>8. Unborn'
  BY <1>1, <1>2, <1>4, <1>5 DEF Unborn
<1>9. Displacing'
  BY <1>1, <1>2, <1>5, <1>6 DEF Displacing, GoingStates
<1>10. Loading'
  BY <1>5, <1>6 DEF Loading, GoingStates
<1>11. CurrentPlace'
  BY <1>1 DEF CurrentPlace
<1>12. Screen'
  <2>1. \A n \in Requests : waiters[n] = {}
    <3>1. \A n \in Requests : \A s \in waiters[n] : s \in Requests /\ Going(s)
      BY <1>4, Shapes DEF Screen, SettledState, Going, GoingStates
    <3>. QED  BY <1>3, <3>1
  <2>. QED  BY <1>1, <1>4, <2>1 DEF Screen
<1>13. SuspendedPlace'
  BY <1>1, <1>4 DEF SuspendedPlace
<1>14. Waiting'
  <2>1. \A i \in 1 .. Len(queue) : pc'[queue[i]] = "queued"
    BY <1>2, <1>5, QueueStays
  <2>2. scheduled + due <= 1
    BY <1>4 DEF Waiting
  <2>3. r \in Requests /\ pc'[r] \in GoingStates /\ pc'[r] \in {"yielded", "resuming"}
    BY <1>2, <1>5 DEF GoingStates
  <2>4. /\ \E s \in Requests : pc'[s] \in GoingStates
        /\ \E s \in Requests : pc'[s] \in {"yielded", "resuming"}
    BY <2>3
  <2>. QED  BY <1>1, <2>1, <2>2, <2>4 DEF Waiting, Going
<1>15. Caches'
  BY <1>1, <1>4 DEF Caches
<1>. QED  BY <1>7, <1>8, <1>9, <1>10, <1>11, <1>12, <1>13, <1>14, <1>15 DEF SettledInv

\* The current popup, at rest, is suspended and begins to leave the screen.
LEMMA ShowDisplacesSettled ==
    ASSUME SettledState, UNCHANGED use, NEW c \in use.calls, Show(c), ShowImmediately(c),
           current # 0
    PROVE  SettledInv'
<1>. DEFINE r == Len(requests) + 1  n == popup[current]
<1>1. /\ c.immediately /\ AtRest(current) /\ locked' = FALSE /\ Suspend(r)
      /\ UNCHANGED <<popup, current, queue, node, closing, nodeCache,
                     prefabCache, refs, scheduled, due, preloads>>
  BY DEF Show, ShowImmediately, caches, intervals, SettledState
<1>2. /\ r \in Requests /\ r \notin Made /\ Made' = Made \cup {r} /\ requests'[r] = c
      /\ \A s \in Made : requests'[s] = requests[s]
      /\ pc[r] = "none" /\ popup[r] = 0 /\ node[r] = "none" /\ current # r
      /\ \A i \in 1 .. Len(queue) : queue[i] # r
      /\ \A i \in 1 .. Len(suspended) : suspended[i] # r
  BY NewRequest
<1>3. n \in Requests /\ node[n] = "shown" /\ n \notin closing /\ waiters[n] = {}
  BY <1>1, Shapes DEF AtRest, SettledState
<1>4. (\A s \in Requests : ~Going(s)) /\ pc[current] = "done"
  BY <1>3, NobodyDisplaces
<1>. HIDE DEF r
<1>5. /\ suspended' = Append(suspended, current)
      /\ waiters' = [waiters EXCEPT ![n] = @ \cup {r}]
      /\ pc' = [pc EXCEPT ![r] = "suspending"]
  <2>1. popup[current] # 0 /\ node[popup[current]] # "dead"
    BY <1>3, Constants
  <2>. QED  BY <1>1, <2>1 DEF Suspend, HasPopup
<1>. HIDE DEF n
<1>6. n = popup[current] /\ current \in Requests
  BY Shapes DEF n, SettledState
<1>7. /\ OneGoing /\ Unborn /\ Displacing /\ Loading /\ CurrentPlace
      /\ Screen /\ SuspendedPlace /\ Waiting /\ Caches
  BY DEF SettledState, SettledInv
<1>8. /\ pc'[r] = "suspending" /\ \A s \in Requests : s # r => pc'[s] = pc[s]
      /\ waiters'[n] = {r} /\ \A m \in Requests : m # n => waiters'[m] = waiters[m]
  BY <1>2, <1>3, <1>5, Shapes DEF SettledState
<1>9. /\ Len(suspended') = Len(suspended) + 1 /\ Len(suspended) \in Nat
      /\ \A i \in 1 .. Len(suspended) : suspended'[i] = suspended[i]
      /\ suspended'[Len(suspended) + 1] = current
  BY <1>5, <1>6, AppendProperties, Shapes DEF SettledState
<1>10. \A s \in Requests : pc'[s] \in GoingStates => s = r
  BY <1>4, <1>8 DEF Going
<1>11. \A m \in Requests : waiters[m] = {}
  <2>1. \A m \in Requests : \A s \in waiters[m] : s \in Requests /\ Going(s)
    BY <1>7, Shapes DEF Screen, SettledState, Going, GoingStates
  <2>. QED  BY <1>4, <2>1
<1>12. OneGoing'
  BY <1>7, <1>8, <1>10 DEF OneGoing, Going
<1>13. Unborn'
  BY <1>1, <1>2, <1>7, <1>8 DEF Unborn
<1>14. Displacing'
  <2>1. IsSuspended(current)'
    BY <1>1, <1>9 DEF IsSuspended
  <2>2. current' # 0 /\ popup'[current'] = n /\ n # 0
    BY <1>1, <1>3, <1>6, Constants
  <2>. QED  BY <1>1, <1>2, <1>3, <1>8, <1>10, <2>1, <2>2 DEF Displacing, GoingStates
<1>15. Loading'
  BY <1>8, <1>10 DEF Loading, GoingStates
<1>16. CurrentPlace'
  BY <1>1, <1>2, <1>3, <1>4, <1>6, <1>8, Constants DEF CurrentPlace
<1>17. \A i \in 1 .. Len(suspended) :
          /\ node[popup[suspended[i]]] = "hidden" /\ popup[suspended[i]] # 0
          /\ suspended[i] \in Requests
  BY <1>7, <1>11, Shapes DEF SuspendedPlace, SettledState
<1>18. SuspendedPlace'
  <2>1. \A i \in 1 .. Len(suspended') :
           \/ i \in 1 .. Len(suspended) /\ suspended'[i] = suspended[i]
           \/ i = Len(suspended) + 1 /\ suspended'[i] = current
    BY <1>9
  <2>2. \A i, j \in 1 .. Len(suspended') :
           popup[suspended'[i]] = popup[suspended'[j]] => i = j
    BY <1>3, <1>6, <1>7, <1>17, <2>1 DEF SuspendedPlace
  <2>3. \A i \in 1 .. Len(suspended') :
           /\ popup[suspended'[i]] # 0
           /\ \/ node[popup[suspended'[i]]] = "hidden"
              \/ /\ node[popup[suspended'[i]]] = "shown"
                 /\ waiters'[popup[suspended'[i]]] # {}
    BY <1>3, <1>6, <1>8, <1>17, <2>1, Constants
  <2>. QED  BY <1>1, <2>2, <2>3 DEF SuspendedPlace
<1>19. Screen'
  <2>. SUFFICES ASSUME NEW m \in Requests
                PROVE  /\ node'[m] # "limbo"
                       /\ node'[m] = "shown" => current' # 0 /\ popup'[current'] = m
                       /\ node'[m] = "hidden" =>
                              \E i \in 1 .. Len(suspended') : popup'[suspended'[i]] = m
                       /\ m \in closing' => node'[m] = "shown" /\ waiters'[m] = {}
                       /\ \A s \in waiters'[m] : pc'[s] = "suspending" /\ node'[m] = "shown"
    BY DEF Screen
  <2>1. node[m] = "hidden" => \E i \in 1 .. Len(suspended') : popup[suspended'[i]] = m
    BY <1>7, <1>9 DEF Screen
  <2>2. m \in closing => m # n /\ waiters'[m] = {}
    BY <1>3, <1>8, <1>11
  <2>3. \A s \in waiters'[m] : s = r /\ m = n
    BY <1>8, <1>11
  <2>. QED  BY <1>1, <1>3, <1>7, <1>8, <2>1, <2>2, <2>3 DEF Screen
<1>20. Waiting'
  <2>1. \A i \in 1 .. Len(queue) : pc'[queue[i]] = "queued"
    BY <1>2, <1>8, QueueStays
  <2>2. scheduled + due <= 1
    BY <1>7 DEF Waiting
  <2>. QED  BY <1>1, <2>1, <2>2 DEF Waiting
<1>21. Caches'
  BY <1>1, <1>7 DEF Caches
<1>. QED  BY <1>12, <1>13, <1>14, <1>15, <1>16, <1>18, <1>19, <1>20, <1>21 DEF SettledInv

\* hide only marks a popup on which nobody waits.
LEMMA HideSettled ==
    ASSUME SettledState, UNCHANGED use, NEW n \in Requests, Hide(n)
    PROVE  SettledInv'
<1>1. /\ node[n] = "shown" /\ waiters[n] = {} /\ closing' = closing \cup {n}
      /\ UNCHANGED <<requests, pc, popup, current, queue, suspended, locked, scheduled, due,
                     node, waiters, nodeCache, prefabCache, refs, preloads>>
  BY DEF Hide, shows, lists, intervals, caches
<1>2. /\ OneGoing /\ Unborn /\ Displacing /\ Loading /\ CurrentPlace
      /\ Screen /\ SuspendedPlace /\ Waiting /\ Caches
  BY DEF SettledState, SettledInv
<1>3. Made' = Made
  BY <1>1 DEF Made
<1>4. OneGoing' /\ Unborn' /\ Loading' /\ CurrentPlace'
  BY <1>1, <1>2, <1>3 DEF OneGoing, Unborn, Loading, CurrentPlace, Going
<1>5. Displacing'
  BY <1>1, <1>2, <1>3 DEF Displacing, IsSuspended
<1>6. SuspendedPlace' /\ Caches'
  BY <1>1, <1>2 DEF SuspendedPlace, Caches
<1>7. Waiting'
  BY <1>1, <1>2 DEF Waiting, Going
<1>8. Screen'
  BY <1>1, <1>2 DEF Screen
<1>. QED  BY <1>4, <1>5, <1>6, <1>7, <1>8 DEF SettledInv

-----------------------------------------------------------------------------
(* What the engine calls back, in settled uses. *)

\* The prefab that a show awaits was not in the cache, so it gets one reference.
LEMMA LoadEndsSettled ==
    ASSUME SettledState, UNCHANGED use, NEW r \in Made, LoadEnds(r)
    PROVE  SettledInv'
<1>. DEFINE p == requests[r].path
<1>1. /\ pc[r] = "loading" /\ pc' = [pc EXCEPT ![r] = "loaded"]
      /\ prefabCache' = prefabCache \cup {p}
      /\ refs' = [refs EXCEPT ![p] = @ + 1]
      /\ UNCHANGED <<requests, popup, current, queue, suspended, locked, scheduled, due,
                     node, closing, waiters, nodeCache, preloads>>
  BY DEF LoadEnds, PrefabLoads, SettledState, IsRegular, lists, intervals, nodes
<1>2. r \in Requests /\ p \in Paths /\ Made' = Made
  BY <1>1, Shapes DEF SettledState, Call, Made
<1>. HIDE DEF p
<1>3. /\ OneGoing /\ Unborn /\ Displacing /\ Loading /\ CurrentPlace
      /\ Screen /\ SuspendedPlace /\ Waiting /\ Caches
  BY DEF SettledState, SettledInv
<1>4. /\ pc'[r] = "loaded" /\ \A s \in Requests : s # r => pc'[s] = pc[s]
      /\ current = r /\ p \notin prefabCache
      /\ \A s \in Requests : s # r => ~Going(s)
  BY <1>1, <1>2, <1>3, Shapes DEF SettledState, Loading, p, OneGoing, Going, GoingStates
<1>5. \A s \in Requests : pc'[s] \in GoingStates => s = r
  BY <1>4 DEF Going
<1>6. OneGoing' /\ Unborn'
  BY <1>1, <1>2, <1>3, <1>4, <1>5 DEF OneGoing, Unborn, Going
<1>7. Displacing'
  BY <1>4, <1>5 DEF Displacing, GoingStates
<1>8. Loading'
  BY <1>1, <1>2, <1>4, <1>5 DEF Loading, GoingStates, p
<1>9. CurrentPlace'
  BY <1>1, <1>4 DEF CurrentPlace
<1>10. Screen'
  <2>1. \A m \in Requests : \A s \in waiters[m] : pc'[s] = "suspending"
    BY <1>1, <1>2, <1>3, <1>4, Shapes DEF Screen, SettledState
  <2>. QED  BY <1>1, <1>3, <2>1 DEF Screen
<1>11. SuspendedPlace'
  BY <1>1, <1>3 DEF SuspendedPlace
<1>12. Waiting'
  <2>1. \A i \in 1 .. Len(queue) : pc'[queue[i]] = "queued"
    BY <1>1, <1>4, QueueStays
  <2>2. current' # 0
    BY <1>1, <1>2, <1>4, Constants
  <2>. QED  BY <1>1, <1>3, <2>1, <2>2 DEF Waiting
<1>13. Caches'
  <2>1. refs[p] = 0
    BY <1>2, <1>3, <1>4 DEF Caches
  <2>2. \A q \in Paths : refs'[q] = IF q \in prefabCache' THEN 1 ELSE 0
    BY <1>1, <1>2, <1>3, <2>1, Shapes DEF Caches, SettledState
  <2>. QED  BY <1>1, <1>3, <2>2 DEF Caches
<1>. QED  BY <1>6, <1>7, <1>8, <1>9, <1>10, <1>11, <1>12, <1>13 DEF SettledInv

\* The interval's end moves a call of next() on its way; no show waits for it.
LEMMA IntervalSettled ==
    ASSUME SettledState, UNCHANGED use, IntervalEnds
    PROVE  SettledInv'
<1>1. /\ scheduled > 0 /\ scheduled' = scheduled - 1 /\ due' = due + 1 /\ EngineTurn
      /\ UNCHANGED <<requests, pc, popup, current, queue, suspended, locked, node, closing,
                     waiters, nodeCache, prefabCache, refs, preloads>>
  BY DEF IntervalEnds, shows, lists, nodes, caches
<1>2. scheduled \in Nat /\ due \in Nat /\ scheduled' + due' = scheduled + due
  BY <1>1, Shapes DEF SettledState
<1>3. /\ OneGoing /\ Unborn /\ Displacing /\ Loading /\ CurrentPlace
      /\ Screen /\ SuspendedPlace /\ Waiting /\ Caches
  BY DEF SettledState, SettledInv
<1>4. Made' = Made
  BY <1>1 DEF Made
<1>5. OneGoing' /\ Unborn' /\ Loading' /\ CurrentPlace'
  BY <1>1, <1>3, <1>4 DEF OneGoing, Unborn, Loading, CurrentPlace, Going
<1>6. \A r \in Requests : pc[r] \notin {"hidden", "resuming", "yielded"}
  BY <1>1, <1>2, <1>3 DEF Displacing, EngineTurn, SettledState
<1>7. Displacing'
  BY <1>1, <1>3, <1>4, <1>6 DEF Displacing, IsSuspended
<1>8. Waiting'
  BY <1>1, <1>2, <1>3 DEF Waiting, Going
<1>9. Screen' /\ SuspendedPlace' /\ Caches'
  BY <1>1, <1>3 DEF Screen, SuspendedPlace, Caches
<1>. QED  BY <1>5, <1>7, <1>8, <1>9 DEF SettledInv

\* The suspended popup is hidden, and the show that waited for it may go on.
LEMMA SuspendingHideEndsSettled ==
    ASSUME SettledState, UNCHANGED use, NEW n \in Requests, NEW r \in Requests,
           SuspendingHideEnds(n, r)
    PROVE  SettledInv'
<1>1. /\ r \in waiters[n] /\ node[n] = "shown"
      /\ node' = [node EXCEPT ![n] = "hidden"]
      /\ waiters' = [waiters EXCEPT ![n] = @ \ {r}]
      /\ pc' = [pc EXCEPT ![r] = "hidden"]
      /\ scheduled + due = 0
      /\ UNCHANGED <<requests, popup, current, queue, suspended, locked, scheduled, due,
                     closing, nodeCache, prefabCache, refs, preloads>>
  BY DEF SuspendingHideEnds, AnimationEnds, SettledState, lists, intervals, caches
<1>2. /\ OneGoing /\ Unborn /\ Displacing /\ Loading /\ CurrentPlace
      /\ Screen /\ SuspendedPlace /\ Waiting /\ Caches
  BY DEF SettledState, SettledInv
<1>3. Made' = Made
  BY <1>1 DEF Made
<1>4. /\ pc'[r] = "hidden" /\ \A s \in Requests : s # r => pc'[s] = pc[s]
      /\ node'[n] = "hidden" /\ \A m \in Requests : m # n => node'[m] = node[m] /\ waiters'[m] = waiters[m]
      /\ waiters'[n] = waiters[n] \ {r}
  BY <1>1, Shapes DEF SettledState
<1>5. /\ pc[r] = "suspending" /\ current # 0 /\ popup[current] = n /\ n # 0
      /\ waiters[n] = {r} /\ IsSuspended(current)
  BY <1>1, <1>2, Constants DEF Screen, Displacing
<1>6. \A s \in Requests : pc'[s] \in GoingStates => s = r
  BY <1>2, <1>4, <1>5 DEF OneGoing, Going, GoingStates
<1>7. waiters'[n] = {} /\ n \notin closing
  BY <1>2, <1>4, <1>5 DEF Screen
<1>8. PICK k \in 1 .. Len(suspended) : suspended[k] = current
  BY <1>5 DEF IsSuspended
<1>9. OneGoing'
  BY <1>2, <1>4, <1>6 DEF OneGoing, Going
<1>10. Unborn'
  <2>1. \A s \in Requests : pc'[s] # "done" => popup[s] = 0 /\ node[s] = "none"
    BY <1>2, <1>4, <1>5 DEF Unborn
  <2>2. pc'[n] = "done"
    BY <1>1, <1>2, <1>4, <1>5, <2>1 DEF Unborn
  <2>. QED  BY <1>1, <1>2, <1>3, <1>4, <1>5, <2>1, <2>2 DEF Unborn
<1>11. Displacing'
  <2>1. r \in Made /\ requests[r].immediately
    BY <1>2, <1>5 DEF Displacing
  <2>2. IsSuspended(current)'
    BY <1>1, <1>5 DEF IsSuspended
  <2>3. scheduled' = 0 /\ due' = 0
    BY <1>1, Shapes DEF SettledState
  <2>. QED  BY <1>1, <1>3, <1>4, <1>5, <1>6, <2>1, <2>2, <2>3 DEF Displacing, GoingStates
<1>12. Loading'
  BY <1>4, <1>6 DEF Loading, GoingStates
<1>13. CurrentPlace'
  <2>1. current \in Requests /\ current # r
    BY <1>2, <1>5, Shapes, Constants DEF SettledState, CurrentPlace
  <2>. QED  BY <1>1, <1>2, <1>4, <1>5, <2>1 DEF CurrentPlace
<1>14. Screen'
  <2>1. \A m \in Requests : waiters'[m] = {}
    <3>1. \A m \in Requests : \A s \in waiters[m] :
              s \in Requests /\ pc[s] = "suspending" /\ node[m] = "shown"
      BY <1>2, Shapes DEF Screen, SettledState
    <3>2. \A m \in Requests : waiters[m] # {} => m = n
      BY <1>2, <1>5, <3>1 DEF Screen
    <3>. QED  BY <1>4, <1>7, <3>2
  <2>2. popup[suspended[k]] = n
    BY <1>5, <1>8
  <2>. QED  BY <1>1, <1>2, <1>4, <1>7, <1>8, <2>1, <2>2 DEF Screen
<1>15. SuspendedPlace'
  <2>. SUFFICES ASSUME NEW i \in 1 .. Len(suspended)
                PROVE  /\ popup[suspended[i]] # 0
                       /\ \/ node'[popup[suspended[i]]] = "hidden"
                          \/ /\ node'[popup[suspended[i]]] = "shown"
                             /\ waiters'[popup[suspended[i]]] # {}
    BY <1>1, <1>2 DEF SuspendedPlace
  <2>1. popup[suspended[i]] \in Requests
    BY <1>2, Shapes DEF SuspendedPlace, SettledState
  <2>. QED  BY <1>2, <1>4, <2>1, Constants DEF SuspendedPlace
<1>16. Waiting'
  <2>1. \A i \in 1 .. Len(queue) : pc'[queue[i]] = "queued"
    BY <1>4, <1>5, QueueStays
  <2>2. scheduled' + due' <= 1
    BY <1>1
  <2>. QED  BY <1>1, <1>2, <1>5, <2>1, <2>2 DEF Waiting
<1>17. Caches'
  BY <1>1, <1>2 DEF Caches
<1>. QED  BY <1>9, <1>10, <1>11, <1>12, <1>13, <1>14, <1>15, <1>16, <1>17 DEF SettledInv

\* suspend returns: there is no current popup until show goes on.
LEMMA SuspendReturnsSettled ==
    ASSUME SettledState, UNCHANGED use, NEW r \in Made, SuspendReturns(r)
    PROVE  SettledInv'
<1>1. /\ pc[r] = "hidden" /\ current' = 0 /\ pc' = [pc EXCEPT ![r] = "resuming"]
      /\ UNCHANGED <<requests, popup, queue, suspended, locked, scheduled, due, node,
                     closing, waiters, nodeCache, prefabCache, refs, preloads>>
  BY DEF SuspendReturns, intervals, nodes, caches
<1>2. /\ OneGoing /\ Unborn /\ Displacing /\ Loading /\ CurrentPlace
      /\ Screen /\ SuspendedPlace /\ Waiting /\ Caches
  BY DEF SettledState, SettledInv
<1>3. Made' = Made /\ r \in Requests
  BY <1>1, Shapes DEF Made, SettledState
<1>4. /\ pc'[r] = "resuming" /\ \A s \in Requests : s # r => pc'[s] = pc[s]
      /\ current # 0 /\ popup[current] # 0 /\ node[popup[current]] = "hidden"
      /\ scheduled = 0 /\ due = 0 /\ requests[r].immediately
  BY <1>1, <1>2, <1>3, Shapes DEF SettledState, Displacing
<1>5. \A s \in Requests : pc'[s] \in GoingStates => s = r
  BY <1>1, <1>2, <1>3, <1>4 DEF OneGoing, Going, GoingStates
<1>6. OneGoing' /\ Unborn'
  BY <1>1, <1>2, <1>3, <1>4, <1>5 DEF OneGoing, Unborn, Going
<1>7. Displacing'
  BY <1>1, <1>3, <1>4, <1>5 DEF Displacing, GoingStates
<1>8. Loading'
  BY <1>4, <1>5 DEF Loading, GoingStates
<1>9. CurrentPlace'
  BY <1>1 DEF CurrentPlace
<1>10. Screen'
  <2>1. \A m \in Requests : node[m] # "shown"
    BY <1>2, <1>4 DEF Screen
  <2>2. \A m \in Requests : \A s \in waiters[m] : s \in Requests /\ Going(s) /\ pc[s] = "suspending"
    BY <1>2, Shapes DEF Screen, SettledState, Going, GoingStates
  <2>3. \A m \in Requests : \A s \in waiters[m] : FALSE
    BY <1>1, <1>2, <1>3, <2>2 DEF OneGoing, Going, GoingStates
  <2>. QED  BY <1>1, <1>2, <2>1, <2>3 DEF Screen
<1>11. SuspendedPlace'
  BY <1>1, <1>2 DEF SuspendedPlace
<1>12. Waiting'
  <2>1. \A i \in 1 .. Len(queue) : pc'[queue[i]] = "queued"
    BY <1>1, <1>4, QueueStays
  <2>2. /\ \E s \in Requests : pc'[s] \in GoingStates
        /\ \E s \in Requests : pc'[s] \in {"yielded", "resuming"}
    BY <1>3, <1>4 DEF GoingStates
  <2>. QED  BY <1>1, <1>2, <2>1, <2>2 DEF Waiting, Going
<1>13. Caches'
  BY <1>1, <1>2 DEF Caches
<1>. QED  BY <1>6, <1>7, <1>8, <1>9, <1>10, <1>11, <1>12, <1>13 DEF SettledInv

\* The references and the cached nodes after a popup was recycled.
LEMMA RecycleSettled ==
    ASSUME SettledState, UNCHANGED <<use, preloads>>, NEW n \in Requests, NEW d \in use.calls,
           d \in Call, Recycle(d.path, n, d.mode)
    PROVE  /\ Caches'
           /\ node'[n] \in {"detached", "dead"}
           /\ \A m \in Requests : m # n => node'[m] = node[m]
<1>1. /\ Caches /\ d.path \in Paths
      /\ node \in [Requests -> NodeStates]
      /\ refs \in [Paths -> Nat] /\ prefabCache \in SUBSET Paths
      /\ nodeCache \in [Paths -> Requests \cup {0}]
  BY Shapes DEF SettledState, SettledInv, Call
<1>2. \A p \in Paths : nodeCache'[p] # 0 => \E e \in use.calls : e.path = p /\ e.mode = "Frequent"
  <2>. SUFFICES ASSUME NEW p \in Paths, nodeCache'[p] # 0
                PROVE  \E e \in use.calls : e.path = p /\ e.mode = "Frequent"
    OBVIOUS
  <2>1. CASE p = d.path
    BY <1>1, <2>1 DEF Recycle
  <2>2. CASE p # d.path
    BY <1>1, <2>2 DEF Recycle, Caches
  <2>. QED  BY <2>1, <2>2
<1>3. \A p \in Paths : refs'[p] = IF p \in prefabCache' THEN 1 ELSE 0
  <2>. SUFFICES ASSUME NEW p \in Paths PROVE refs'[p] = IF p \in prefabCache' THEN 1 ELSE 0
    OBVIOUS
  <2>1. CASE d.mode # "Once"
    BY <1>1, <2>1 DEF Recycle, Caches
  <2>2. CASE d.mode = "Once"
    <3>1. refs' = Released(d.path) /\ prefabCache' = prefabCache \ {d.path}
      BY <2>2 DEF Recycle
    <3>2. CASE d.path \in prefabCache
      BY <1>1, <3>1, <3>2 DEF Released, Caches
    <3>3. CASE d.path \notin prefabCache
      BY <1>1, <3>1, <3>3 DEF Released, Caches
    <3>. QED  BY <3>2, <3>3
  <2>. QED  BY <2>1, <2>2
<1>. QED  BY <1>1, <1>2, <1>3 DEF Recycle, Caches

\* The current popup has left the screen; who waits gets a call of next().
LEMMA HideEndsSettled ==
    ASSUME SettledState, UNCHANGED use, NEW n \in Requests, HideEnds(n)
    PROVE  SettledInv'
<1>. DEFINE d == requests[finisher[n]]
<1>1. /\ n \in closing /\ node[n] = "shown" /\ closing' = closing \ {n}
      /\ locked' = Locks /\ current' = 0 /\ scheduled' = scheduled + 1
      /\ scheduled + due = 0
      /\ Recycle(d.path, n, d.mode)
      /\ UNCHANGED <<requests, pc, popup, queue, suspended, due, waiters, preloads>>
  BY DEF HideEnds, AnimationEnds, SettledState, shows
<1>2. d \in use.calls /\ d \in Call
  BY <1>1, Shapes DEF SettledState, KnownInv, NodesKnown
<1>. HIDE DEF d
<1>3. /\ Caches' /\ node'[n] \in {"detached", "dead"}
      /\ \A m \in Requests : m # n => node'[m] = node[m]
  BY <1>1, <1>2, RecycleSettled
<1>4. /\ OneGoing /\ Unborn /\ Displacing /\ Loading /\ CurrentPlace
      /\ Screen /\ SuspendedPlace /\ Waiting
  BY DEF SettledState, SettledInv
<1>5. current # 0 /\ popup[current] = n /\ waiters[n] = {}
  BY <1>1, <1>4 DEF Screen
<1>6. \A r \in Requests : ~Going(r)
  BY <1>1, <1>5, NobodyDisplaces
<1>7. Made' = Made
  BY <1>1 DEF Made
<1>8. OneGoing' /\ Unborn' /\ Displacing' /\ Loading' /\ CurrentPlace'
  <2>1. OneGoing'
    BY <1>1, <1>4 DEF OneGoing, Going
  <2>2. Unborn'
    BY <1>1, <1>3, <1>4, <1>7 DEF Unborn
  <2>3. Displacing' /\ Loading'
    BY <1>1, <1>6 DEF Displacing, Loading, Going, GoingStates
  <2>. QED  BY <1>1, <2>1, <2>2, <2>3 DEF CurrentPlace
<1>9. Screen'
  BY <1>1, <1>3, <1>4, <1>5 DEF Screen
<1>10. SuspendedPlace'
  <2>. SUFFICES ASSUME NEW i \in 1 .. Len(suspended)
                PROVE  /\ popup[suspended[i]] # 0
                       /\ \/ node'[popup[suspended[i]]] = "hidden"
                          \/ /\ node'[popup[suspended[i]]] = "shown"
                             /\ waiters[popup[suspended[i]]] # {}
    BY <1>1, <1>4 DEF SuspendedPlace
  <2>1. popup[suspended[i]] \in Requests
    BY <1>4, Shapes DEF SuspendedPlace, SettledState
  <2>2. popup[suspended[i]] # n
    BY <1>1, <1>4, <1>5 DEF SuspendedPlace
  <2>. QED  BY <1>3, <1>4, <2>1, <2>2 DEF SuspendedPlace
<1>11. Waiting'
  <2>1. scheduled' + due' = 1
    BY <1>1, Shapes DEF SettledState
  <2>2. locked' <=> queue' # <<>> \/ suspended' # <<>>
    BY <1>1 DEF Locks
  <2>3. \A i \in 1 .. Len(queue') : pc'[queue'[i]] = "queued"
    BY <1>1, <1>4 DEF Waiting
  <2>. QED  BY <1>1, <2>1, <2>2, <2>3 DEF Waiting
<1>. QED  BY <1>3, <1>8, <1>9, <1>10, <1>11 DEF SettledInv

-----------------------------------------------------------------------------
(* Microtasks, in settled uses. *)

\* An immediate show goes on: its prefab has no node in the cache.
LEMMA ShowResumesSettled ==
    ASSUME SettledState, UNCHANGED use, NEW r \in Made, ShowResumes(r)
    PROVE  SettledInv'
<1>. DEFINE p == requests[r].path
<1>1. /\ pc[r] \in {"yielded", "resuming"} /\ Begin(r, p)
      /\ UNCHANGED <<requests, queue, suspended, locked, scheduled, due, preloads>>
  BY DEF ShowResumes, intervals
<1>2. /\ r \in Requests /\ Made' = Made /\ requests[r] \in use.calls /\ p \in Paths
  BY <1>1, Shapes DEF SettledState, Made, Call
<1>3. OneGoing /\ Displacing /\ Waiting /\ Caches
  BY DEF SettledState, SettledInv
<1>4. current = 0 /\ requests[r].immediately
  BY <1>1, <1>2, <1>3 DEF Displacing
<1>5. \A s \in Requests : Going(s) => s = r
  BY <1>1, <1>2, <1>3 DEF OneGoing, Going, GoingStates
<1>6. CachedNode(p) = 0
  <2>1. ~ \E e \in use.calls : e.path = p /\ e.mode = "Frequent"
    BY <1>2, <1>4 DEF SettledState, IsRegular
  <2>. QED  BY <1>2, <1>3, <2>1 DEF Caches, CachedNode
<1>. HIDE DEF p
<1>7. \A i \in 1 .. Len(queue') :
          queue'[i] # r /\ \E j \in 1 .. Len(queue) : queue'[i] = queue[j]
  <2>1. UNCHANGED queue
    BY <1>1
  <2>2. \A i \in 1 .. Len(queue) : queue[i] # r
    BY <1>1, <1>3 DEF Waiting
  <2>. QED  BY <2>1, <2>2
<1>8. /\ pc[r] # "done" /\ requests'[r].path = p
      /\ scheduled' + due' <= 1
      /\ locked' => queue' # <<>> \/ suspended' # <<>>
  BY <1>1, <1>3 DEF Waiting, p
<1>. QED  BY <1>1, <1>2, <1>4, <1>5, <1>6, <1>7, <1>8, BeginSettled

\* The popup of the current request is displayed once its prefab has loaded.
LEMMA LoadReturnsSettled ==
    ASSUME SettledState, UNCHANGED use, NEW r \in Made, LoadReturns(r)
    PROVE  SettledInv'
<1>1. /\ pc[r] = "loaded"
      /\ UNCHANGED <<requests, current, queue, suspended, locked, scheduled, due, closing,
                     waiters, nodeCache, prefabCache, refs, preloads>>
  BY DEF LoadReturns, lists, intervals, caches
<1>2. /\ OneGoing /\ Unborn /\ Displacing /\ Loading /\ CurrentPlace
      /\ Screen /\ SuspendedPlace /\ Waiting /\ Caches
  BY DEF SettledState, SettledInv
<1>3. r \in Requests /\ Made' = Made /\ 0 \notin Requests
  BY <1>1, Shapes DEF SettledState, Made
<1>4. current = r /\ popup[r] = 0 /\ node[r] = "none"
  BY <1>1, <1>2, <1>3 DEF Loading, Unborn
<1>5. Displays(r, r, r)
  BY <1>3, <1>4 DEF LoadReturns
<1>6. /\ pc'[r] = "done" /\ popup'[r] = r /\ node'[r] = "shown"
      /\ \A s \in Requests : s # r => pc'[s] = pc[s] /\ popup'[s] = popup[s] /\ node'[s] = node[s]
  BY <1>3, <1>4, <1>5, Shapes DEF Displays, SettledState
<1>7. \A s \in Requests : pc'[s] \notin GoingStates
  BY <1>1, <1>2, <1>3, <1>6 DEF OneGoing, Going, GoingStates
<1>8. OneGoing'
  BY <1>2, <1>6, <1>7 DEF OneGoing, Going
<1>9. Unborn'
  BY <1>2, <1>3, <1>6 DEF Unborn
<1>10. Displacing' /\ Loading'
  BY <1>7 DEF Displacing, Loading, GoingStates
<1>11. CurrentPlace'
  BY <1>1, <1>3, <1>4, <1>6 DEF CurrentPlace
<1>12. \A i \in 1 .. Len(suspended) :
          /\ suspended[i] \in Requests /\ suspended[i] # r
          /\ popup[suspended[i]] \in Requests /\ popup[suspended[i]] # r
          /\ popup'[suspended[i]] = popup[suspended[i]]
          /\ node'[popup[suspended[i]]] = node[popup[suspended[i]]]
  <2>. SUFFICES ASSUME NEW i \in 1 .. Len(suspended)
                PROVE  /\ suspended[i] \in Requests /\ suspended[i] # r
                       /\ popup[suspended[i]] \in Requests /\ popup[suspended[i]] # r
                       /\ popup'[suspended[i]] = popup[suspended[i]]
                       /\ node'[popup[suspended[i]]] = node[popup[suspended[i]]]
    OBVIOUS
  <2>1. suspended[i] \in Requests /\ popup[suspended[i]] # 0
    BY <1>2, Shapes DEF SuspendedPlace, SettledState
  <2>2. suspended[i] # r /\ popup[suspended[i]] \in Requests
    BY <1>4, <2>1, Shapes DEF SettledState
  <2>3. node[popup[suspended[i]]] # "none"
    BY <1>2 DEF SuspendedPlace
  <2>. QED  BY <1>4, <1>6, <2>1, <2>2, <2>3
<1>13. SuspendedPlace'
  <2>1. \A i, j \in 1 .. Len(suspended) :
           popup'[suspended[i]] = popup'[suspended[j]] => i = j
    BY <1>2, <1>12 DEF SuspendedPlace
  <2>. QED  BY <1>1, <1>2, <1>12, <2>1 DEF SuspendedPlace
<1>14. Screen'
  <2>. SUFFICES ASSUME NEW m \in Requests
                PROVE  /\ node'[m] # "limbo"
                       /\ node'[m] = "shown" => current' # 0 /\ popup'[current'] = m
                       /\ node'[m] = "hidden" =>
                              \E i \in 1 .. Len(suspended') : popup'[suspended'[i]] = m
                       /\ m \in closing' => node'[m] = "shown" /\ waiters'[m] = {}
                       /\ \A s \in waiters'[m] : pc'[s] = "suspending" /\ node'[m] = "shown"
    BY DEF Screen
  <2>1. node[m] # "shown" /\ node[m] # "limbo"
    BY <1>2, <1>3, <1>4 DEF Screen
  <2>2. m \notin closing /\ \A s \in waiters[m] : FALSE
    BY <1>2, <2>1 DEF Screen
  <2>3. node[m] = "hidden" => \E i \in 1 .. Len(suspended) : popup'[suspended[i]] = m
    BY <1>2, <1>12 DEF Screen
  <2>. QED  BY <1>1, <1>3, <1>4, <1>6, <2>1, <2>2, <2>3
<1>15. Waiting'
  <2>1. \A i \in 1 .. Len(queue) : pc'[queue[i]] = "queued"
    BY <1>1, <1>6, QueueStays
  <2>2. current' # 0
    BY <1>1, <1>3, <1>4
  <2>. QED  BY <1>1, <1>2, <2>1, <2>2 DEF Waiting
<1>16. Caches'
  BY <1>1, <1>2 DEF Caches
<1>. QED  BY <1>8, <1>9, <1>10, <1>11, <1>13, <1>14, <1>15, <1>16 DEF SettledInv

\* next() with a current request, or with nobody waiting.
LEMMA NextIdleSettled ==
    ASSUME SettledState, UNCHANGED use, NextRuns, NextIdle
    PROVE  SettledInv'
<1>1. /\ due > 0 /\ due' = due - 1
      /\ current # 0 \/ (suspended = <<>> /\ queue = <<>>)
      /\ UNCHANGED <<requests, pc, popup, current, queue, suspended, locked, scheduled, node,
                     closing, waiters, nodeCache, prefabCache, refs, preloads>>
  BY DEF NextRuns, NextIdle, shows, nodes, caches
<1>2. scheduled \in Nat /\ due \in Nat
  BY Shapes DEF SettledState
<1>3. /\ OneGoing /\ Unborn /\ Displacing /\ Loading /\ CurrentPlace
      /\ Screen /\ SuspendedPlace /\ Waiting /\ Caches
  BY DEF SettledState, SettledInv
<1>4. Made' = Made
  BY <1>1 DEF Made
<1>5. OneGoing' /\ Unborn' /\ Loading' /\ CurrentPlace'
  BY <1>1, <1>3, <1>4 DEF OneGoing, Unborn, Loading, CurrentPlace, Going
<1>6. \A r \in Requests : pc[r] \notin {"hidden", "resuming", "yielded"}
  BY <1>1, <1>2, <1>3 DEF Displacing
<1>7. Displacing'
  BY <1>1, <1>3, <1>4, <1>6 DEF Displacing, IsSuspended
<1>8. Waiting'
  BY <1>1, <1>2, <1>3 DEF Waiting, Going
<1>9. Screen' /\ SuspendedPlace' /\ Caches'
  BY <1>1, <1>3 DEF Screen, SuspendedPlace, Caches
<1>. QED  BY <1>5, <1>7, <1>8, <1>9 DEF SettledInv

\* The popup that was suspended first is on screen again.
LEMMA NextResumesSettled ==
    ASSUME SettledState, UNCHANGED use, NextRuns, NextResumes
    PROVE  SettledInv'
<1>. DEFINE r == Head(suspended)  n == popup[r]
<1>1. /\ due > 0 /\ due' = due - 1 /\ current = 0 /\ suspended # <<>>
      /\ current' = r /\ suspended' = Tail(suspended) /\ locked' = FALSE
      /\ node' = [node EXCEPT ![n] = IF @ \in {"detached", "limbo"} THEN "limbo" ELSE "shown"]
      /\ UNCHANGED <<requests, pc, popup, queue, scheduled, closing, waiters, nodeCache,
                     prefabCache, refs, preloads>>
  BY DEF NextRuns, NextResumes, shows, caches
<1>2. /\ r = suspended[1] /\ 1 \in 1 .. Len(suspended)
      /\ Len(suspended) \in Nat /\ Len(suspended') = Len(suspended) - 1
      /\ \A i \in 1 .. Len(suspended) - 1 :
             suspended'[i] = suspended[i + 1] /\ i + 1 \in 1 .. Len(suspended)
  BY <1>1, TailOf, Shapes DEF SettledState
<1>3. /\ OneGoing /\ Unborn /\ Displacing /\ Loading /\ CurrentPlace
      /\ Screen /\ SuspendedPlace /\ Waiting /\ Caches
  BY DEF SettledState, SettledInv
<1>4. /\ \A s \in Requests : ~Going(s)
      /\ Made' = Made
  BY <1>1, NobodyGoing DEF Made
<1>5. /\ \A i \in 1 .. Len(suspended) :
             /\ suspended[i] \in Requests /\ popup[suspended[i]] \in Requests
             /\ node[popup[suspended[i]]] = "hidden"
  BY <1>1, <1>3, Shapes DEF SettledState, SuspendedPlace, Screen
<1>6. r \in Requests /\ n \in Requests /\ node[n] = "hidden" /\ n # 0 /\ r # 0
  BY <1>2, <1>5, Constants
<1>7. popup[r] = n
  OBVIOUS
<1>. HIDE DEF n, r
<1>8. /\ node'[n] = "shown" /\ \A m \in Requests : m # n => node'[m] = node[m]
  BY <1>1, <1>6, Shapes DEF SettledState
<1>9. \A i \in 1 .. Len(suspended') :
          /\ popup[suspended'[i]] \in Requests /\ popup[suspended'[i]] # n
          /\ node[popup[suspended'[i]]] = "hidden"
  <2>. SUFFICES ASSUME NEW i \in 1 .. Len(suspended')
                PROVE  /\ popup[suspended'[i]] \in Requests /\ popup[suspended'[i]] # n
                       /\ node[popup[suspended'[i]]] = "hidden"
    OBVIOUS
  <2>1. suspended'[i] = suspended[i + 1] /\ i + 1 \in 1 .. Len(suspended) /\ i + 1 # 1
    BY <1>2
  <2>. QED  BY <1>2, <1>3, <1>5, <1>7, <2>1 DEF SuspendedPlace
<1>10. pc[r] = "done"
  BY <1>3, <1>6, <1>7 DEF Unborn
<1>11. OneGoing'
  BY <1>1, <1>3 DEF OneGoing, Going
<1>12. Unborn'
  <2>1. pc[n] = "done"
    BY <1>3, <1>6 DEF Unborn
  <2>. QED  BY <1>1, <1>3, <1>4, <1>8, <2>1 DEF Unborn
<1>13. Displacing' /\ Loading'
  BY <1>1, <1>4 DEF Displacing, Loading, Going, GoingStates
<1>14. CurrentPlace'
  BY <1>1, <1>6, <1>7, <1>8, <1>10 DEF CurrentPlace
<1>15. SuspendedPlace'
  <2>1. \A i, j \in 1 .. Len(suspended') :
           popup[suspended'[i]] = popup[suspended'[j]] => i = j
    <3>. SUFFICES ASSUME NEW i \in 1 .. Len(suspended'), NEW j \in 1 .. Len(suspended'),
                         popup[suspended'[i]] = popup[suspended'[j]]
                  PROVE  i = j
      OBVIOUS
    <3>1. /\ suspended'[i] = suspended[i + 1] /\ i + 1 \in 1 .. Len(suspended)
          /\ suspended'[j] = suspended[j + 1] /\ j + 1 \in 1 .. Len(suspended)
      BY <1>2
    <3>2. i + 1 = j + 1
      BY <1>3, <3>1 DEF SuspendedPlace
    <3>. QED  BY <1>2, <3>2
  <2>. QED  BY <1>1, <1>6, <1>8, <1>9, <2>1, Constants DEF SuspendedPlace
<1>16. Screen'
  <2>. SUFFICES ASSUME NEW m \in Requests
                PROVE  /\ node'[m] # "limbo"
                       /\ node'[m] = "shown" => current' # 0 /\ popup'[current'] = m
                       /\ node'[m] = "hidden" =>
                              \E i \in 1 .. Len(suspended') : popup'[suspended'[i]] = m
                       /\ m \in closing' => node'[m] = "shown" /\ waiters'[m] = {}
                       /\ \A s \in waiters'[m] : pc'[s] = "suspending" /\ node'[m] = "shown"
    BY DEF Screen
  <2>1. node[m] # "shown" /\ node[m] # "limbo"
    BY <1>1, <1>3 DEF Screen
  <2>2. m \notin closing /\ \A s \in waiters[m] : FALSE
    BY <1>3, <2>1 DEF Screen
  <2>3. m # n /\ node[m] = "hidden" =>
            \E i \in 1 .. Len(suspended') : popup[suspended'[i]] = m
    <3>. SUFFICES ASSUME m # n, node[m] = "hidden"
                  PROVE  \E i \in 1 .. Len(suspended') : popup[suspended'[i]] = m
      OBVIOUS
    <3>1. PICK k \in 1 .. Len(suspended) : popup[suspended[k]] = m
      BY <1>3 DEF Screen
    <3>2. k # 1
      BY <1>2, <1>7, <3>1
    <3>3. k - 1 \in 1 .. Len(suspended') /\ suspended'[k - 1] = suspended[k]
      BY <1>2, <3>1, <3>2
    <3>. QED  BY <3>1, <3>3
  <2>4. m = n => node'[m] = "shown" /\ current' # 0 /\ popup'[current'] = m
    BY <1>1, <1>6, <1>7, <1>8
  <2>5. m # n => node'[m] = node[m]
    BY <1>8
  <2>. QED  BY <1>1, <2>1, <2>2, <2>3, <2>4, <2>5
<1>17. Waiting'
  <2>1. current' # 0 /\ locked' = FALSE
    BY <1>1, <1>6
  <2>2. scheduled' + due' <= 1
    BY <1>1, <1>3, Shapes DEF SettledState, Waiting
  <2>3. \A i \in 1 .. Len(queue') : pc'[queue'[i]] = "queued"
    BY <1>1, <1>3 DEF Waiting
  <2>. QED  BY <2>1, <2>2, <2>3 DEF Waiting
<1>18. Caches'
  BY <1>1, <1>3 DEF Caches
<1>. QED  BY <1>11, <1>12, <1>13, <1>14, <1>15, <1>16, <1>17, <1>18 DEF SettledInv

\* The first request of the queue is shown.
LEMMA NextShowsSettled ==
    ASSUME SettledState, UNCHANGED use, NextRuns, NextShows
    PROVE  SettledInv'
<1>. DEFINE r == Head(queue)  p == requests[r].path
<1>1. /\ due > 0 /\ due' = due - 1 /\ current = 0 /\ suspended = <<>> /\ queue # <<>>
      /\ Begin(r, p) /\ queue' = Tail(queue) /\ locked' = FALSE
      /\ UNCHANGED <<requests, suspended, scheduled, preloads>>
  BY DEF NextRuns, NextShows
<1>2. /\ r = queue[1] /\ 1 \in 1 .. Len(queue)
      /\ Len(queue) \in Nat /\ Len(queue') = Len(queue) - 1
      /\ \A i \in 1 .. Len(queue) - 1 :
             queue'[i] = queue[i + 1] /\ i + 1 \in 1 .. Len(queue)
  BY <1>1, TailOf, Shapes DEF SettledState
<1>3. /\ Waiting /\ QueueInOrder /\ ListsKnown
  BY DEF SettledState, SettledInv, KnownInv
<1>4. r \in Made /\ r \in Requests /\ p \in Paths /\ Made' = Made
  BY <1>1, <1>2, <1>3, Shapes DEF ListsKnown, Made, Call, SettledState
<1>5. \A s \in Requests : ~Going(s)
  BY <1>1, NobodyGoing
<1>6. pc[r] = "queued" /\ requests'[r].path = p
  BY <1>1, <1>2, <1>3 DEF Waiting
<1>. HIDE DEF r, p
<1>7. \A i \in 1 .. Len(queue') :
          queue'[i] # r /\ \E j \in 1 .. Len(queue) : queue'[i] = queue[j]
  <2>. SUFFICES ASSUME NEW i \in 1 .. Len(queue')
                PROVE  queue'[i] # r /\ \E j \in 1 .. Len(queue) : queue'[i] = queue[j]
    OBVIOUS
  <2>1. /\ queue'[i] = queue[i + 1] /\ i + 1 \in 1 .. Len(queue) /\ 1 < i + 1
        /\ 1 \in 1 .. Len(queue)
    BY <1>2
  <2>2. /\ queue[1] \in Nat /\ queue[i + 1] \in Nat
        /\ requests[queue[1]].priority \in Nat /\ requests[queue[i + 1]].priority \in Nat
    BY <1>3, <2>1, Shapes, Constants DEF ListsKnown, Call, SettledState
  <2>3. queue[1] # queue[i + 1]
    BY <1>3, <2>1, <2>2 DEF QueueInOrder
  <2>. QED  BY <1>2, <2>1, <2>3
<1>8. scheduled' + due' <= 1 /\ ~locked'
  BY <1>1, <1>3, Shapes DEF SettledState, Waiting
<1>. QED  BY <1>1, <1>4, <1>5, <1>6, <1>7, <1>8, BeginSettled

\* A suspended popup still has its node, so next() makes no new request of it.
LEMMA NextShowsAgainNever == SettledState => ~(NextRuns /\ NextShowsAgain)
<1>. SUFFICES ASSUME SettledState, NextRuns, NextShowsAgain PROVE FALSE
  OBVIOUS
<1>1. suspended # <<>> /\ ~HasPopup(Head(suspended)) /\ suspended \in Seq(Requests)
  BY Shapes DEF NextShowsAgain, SettledState
<1>2. Head(suspended) = suspended[1] /\ 1 \in 1 .. Len(suspended)
  BY <1>1, TailOf
<1>. QED  BY <1>1, <1>2 DEF SettledState, SettledInv, SuspendedPlace, HasPopup

\* Nothing fails, is released or loaded early, and the scene stays.
LEMMA NothingIrregular ==
    ASSUME SettledState
    PROVE  /\ \A r \in Made : ~LoadFails(r)
           /\ \A p \in Paths : ~Preload(p) /\ ~PreloadEnds(p) /\ ~Release(p)
           /\ ~ChangeScene
<1>1. \A r \in Made : ~LoadFails(r)
  <2>. SUFFICES ASSUME NEW r \in Made, LoadFails(r) PROVE FALSE
    OBVIOUS
  <2>1. r \in Requests /\ requests[r].path \in Paths
    BY Shapes DEF SettledState, Call
  <2>2. pc[r] = "loaded" /\ refs[requests[r].path] = 0
    BY <2>1 DEF LoadFails, SettledState, SettledInv, OneGoing
  <2>. QED  BY <2>1, <2>2 DEF SettledState, SettledInv, Loading, Caches
<1>2. \A p \in Paths : ~Preload(p) /\ ~PreloadEnds(p) /\ ~Release(p)
  BY DEF Preload, PreloadEnds, Release, SettledState, SettledInv, Caches, IsRegular
<1>3. ~ChangeScene
  BY DEF ChangeScene, SettledState, IsRegular, KnownInv, TypeOK
<1>. QED  BY <1>1, <1>2, <1>3

\* Every step of a settled use keeps the invariant.
LEMMA SettledStep == SettledState /\ [Next]_vars => SettledInv'
<1>. SUFFICES ASSUME SettledState, [Next]_vars PROVE SettledInv'
  OBVIOUS
<1>1. CASE UNCHANGED vars
  <2>1. UNCHANGED <<use, requests, pc, popup, current, queue, suspended, locked, scheduled,
                    due, node, closing, waiters, nodeCache, prefabCache, refs, preloads>>
    BY <1>1 DEF vars, state, shows, lists, intervals, nodes, caches
  <2>2. Made' = Made
    BY <2>1 DEF Made
  <2>3. /\ OneGoing /\ Unborn /\ Displacing /\ Loading /\ CurrentPlace
        /\ Screen /\ SuspendedPlace /\ Waiting /\ Caches
    BY DEF SettledState, SettledInv
  <2>4. OneGoing' /\ Unborn' /\ Loading' /\ CurrentPlace'
    BY <2>1, <2>2, <2>3 DEF OneGoing, Unborn, Loading, CurrentPlace, Going
  <2>5. Displacing'
    BY <2>1, <2>2, <2>3 DEF Displacing, IsSuspended
  <2>6. Screen' /\ SuspendedPlace' /\ Waiting' /\ Caches'
    BY <2>1, <2>3 DEF Screen, SuspendedPlace, Waiting, Caches, Going
  <2>. QED  BY <2>4, <2>5, <2>6 DEF SettledInv
<1>2. CASE Next
  <2>1. UNCHANGED use
    BY <1>2 DEF Next
  <2>2. ASSUME NEW c \in use.calls, Show(c) PROVE SettledInv'
    <3>1. ShowAtOnce(c) \/ ShowLater(c) \/ ShowImmediately(c)
      BY <2>2 DEF Show
    <3>. QED  BY <2>1, <2>2, <3>1, ShowAtOnceSettled, ShowLaterSettled, ShowYieldsSettled,
              ShowDisplacesSettled
  <2>3. ASSUME NEW n \in Requests, Hide(n) \/ HideEnds(n) PROVE SettledInv'
    BY <2>1, <2>3, HideSettled, HideEndsSettled
  <2>4. ASSUME NEW n \in Requests, NEW r \in Requests, SuspendingHideEnds(n, r)
        PROVE  SettledInv'
    BY <2>1, <2>4, SuspendingHideEndsSettled
  <2>5. ASSUME NEW r \in Made, LoadEnds(r) \/ SuspendReturns(r) \/ ShowResumes(r) \/ LoadReturns(r)
        PROVE  SettledInv'
    BY <2>1, <2>5, LoadEndsSettled, SuspendReturnsSettled, ShowResumesSettled,
       LoadReturnsSettled
  <2>6. CASE IntervalEnds
    BY <2>1, <2>6, IntervalSettled
  <2>7. CASE NextRuns
    <3>1. NextIdle \/ NextResumes \/ NextShowsAgain \/ NextShows
      BY <2>7 DEF NextRuns
    <3>. QED  BY <2>1, <2>7, <3>1, NextIdleSettled, NextResumesSettled, NextShowsSettled,
              NextShowsAgainNever
  <2>. QED  BY <1>2, <2>2, <2>3, <2>4, <2>5, <2>6, <2>7, NothingIrregular DEF Next
<1>. QED  BY <1>1, <1>2

-----------------------------------------------------------------------------
(* Theorems about settled uses. *)

\* Every settled use is regular.
RegularUses == \A u \in Uses : u.settled => IsRegular(u)

WhenSettled == use.settled => SettledInv

\* It holds at first: nothing goes on and nothing is cached.
LEMMA SettledInit == Init => WhenSettled
<1>. SUFFICES ASSUME Init PROVE SettledInv
  BY DEF WhenSettled
<1>1. /\ Len(queue) = 0 /\ Len(suspended) = 0 /\ queue = <<>> /\ suspended = <<>>
      /\ Made = {} /\ current = 0 /\ locked = FALSE /\ scheduled = 0 /\ due = 0
      /\ closing = {} /\ prefabCache = {}
  BY DEF Init, Made
<1>2. \A r \in Requests : /\ pc[r] = "none" /\ popup[r] = 0 /\ node[r] = "none"
                          /\ waiters[r] = {}
  BY DEF Init
<1>3. \A p \in Paths : nodeCache[p] = 0 /\ refs[p] = 0 /\ preloads[p] = 0
  BY DEF Init
<1>4. OneGoing /\ Unborn /\ Displacing /\ Loading
  BY <1>2 DEF OneGoing, Unborn, Displacing, Loading, Going, GoingStates
<1>5. CurrentPlace /\ Screen /\ SuspendedPlace /\ Waiting /\ Caches
  BY <1>1, <1>2, <1>3 DEF CurrentPlace, Screen, SuspendedPlace, Waiting, Caches
<1>. QED  BY <1>4, <1>5 DEF SettledInv

\* A regular settled use stays so.
LEMMA WhenSettledStep ==
    ASSUME RegularUses
    PROVE  KnownInv /\ WhenSettled /\ [Next]_vars => WhenSettled'
<1>. SUFFICES ASSUME KnownInv, WhenSettled, [Next]_vars, use'.settled PROVE SettledInv'
  BY DEF WhenSettled
<1>1. UNCHANGED use
  BY DEF Next, vars
<1>2. SettledState
  BY <1>1 DEF SettledState, WhenSettled, RegularUses, KnownInv, TypeOK
<1>. QED  BY <1>2, SettledStep

\* The invariant of settled uses holds in every one that is regular.
THEOREM SettledInvariant == ASSUME RegularUses PROVE Spec => []WhenSettled
<1>1. Init => WhenSettled
  BY SettledInit
<1>2. KnownInv /\ WhenSettled /\ [Next]_vars => WhenSettled'
  BY WhenSettledStep
<1>. QED  BY <1>1, <1>2, KnownInvariant, PTL DEF Spec

\* At most one popup is on screen, and it is the current one's.
THEOREM OneAlwaysOnScreen == ASSUME RegularUses PROVE Spec => []OneOnScreen
<1>1. WhenSettled => OneOnScreen
  BY DEF WhenSettled, OneOnScreen, SettledInv, Screen
<1>2. Spec => []WhenSettled
  BY SettledInvariant
<1>. QED  BY <1>1, <1>2, PTL

\* A current popup that has its node is on a screen or leaving it.
THEOREM CurrentAlwaysDisplayed == ASSUME RegularUses PROVE Spec => []CurrentIsDisplayed
<1>1. KnownInv /\ WhenSettled => CurrentIsDisplayed
  <2>. SUFFICES ASSUME KnownInv, SettledInv, current # 0, popup[current] # 0
                PROVE  node[popup[current]] \in {"shown", "hidden"}
    BY DEF WhenSettled, CurrentIsDisplayed
  <2>1. pc[current] = "done"
    BY Shapes DEF SettledInv, Unborn
  <2>. QED  BY <2>1 DEF SettledInv, CurrentPlace
<1>2. Spec => []WhenSettled
  BY SettledInvariant
<1>. QED  BY <1>1, <1>2, KnownInvariant, PTL

\* A cached prefab is held, by one reference where loads do not overlap.
THEOREM CachedAlwaysHeld == ASSUME RegularUses PROVE Spec => []CachedIsHeld
<1>1. KnownInv /\ WhenSettled => CachedIsHeld
  BY DEF KnownInv, WhenSettled, SettledInv, PrefabsHeld, Caches, CachedIsHeld
<1>2. Spec => []WhenSettled
  BY SettledInvariant
<1>. QED  BY <1>1, <1>2, KnownInvariant, PTL

\* Whoever waits is served by a call of next() or a show that comes.
THEOREM WaitersAlwaysServed == ASSUME RegularUses PROVE Spec => []WaitersAreServed
<1>1. KnownInv /\ WhenSettled => WaitersAreServed
  BY Shapes DEF WhenSettled, SettledInv, Waiting, WaitersAreServed
<1>2. Spec => []WhenSettled
  BY SettledInvariant
<1>. QED  BY <1>1, <1>2, KnownInvariant, PTL

\* A suspended popup waits off screen, once, with its node.
THEOREM SuspendedAlwaysIntact == ASSUME RegularUses PROVE Spec => []SuspendedAreIntact
<1>1. KnownInv /\ WhenSettled => SuspendedAreIntact
  <2>. SUFFICES ASSUME KnownInv, SettledInv
                PROVE  /\ IsInjective(suspended)
                       /\ \A i \in 1 .. Len(suspended) :
                              LET n == popup[suspended[i]]
                              IN  n # 0 /\ (node[n] = "hidden" \/ (node[n] = "shown" /\ waiters[n] # {}))
    BY DEF WhenSettled, SuspendedAreIntact
  <2>1. SuspendedPlace /\ DOMAIN suspended = 1 .. Len(suspended)
    BY Shapes DEF SettledInv
  <2>2. IsInjective(suspended)
    BY <2>1 DEF SuspendedPlace, IsInjective
  <2>. QED  BY <2>1, <2>2 DEF SuspendedPlace
<1>2. Spec => []WhenSettled
  BY SettledInvariant
<1>. QED  BY <1>1, <1>2, KnownInvariant, PTL

\* A request that is not immediate goes on screen past nobody who waits.
THEOREM NobodyOvertakes == ASSUME RegularUses PROVE Spec => NoOvertaking
<1>1. KnownInv /\ WhenSettled /\ [Next]_vars =>
          [\A c \in use.calls :
              (use.settled /\ Show(c) /\ ~c.immediately /\ (queue # <<>> \/ suspended # <<>>)) =>
                 queue' # queue]_vars
  <2>. SUFFICES ASSUME KnownInv, WhenSettled, [Next]_vars,
                       NEW c \in use.calls, vars' # vars, use.settled, Show(c),
                       ~c.immediately, queue # <<>> \/ suspended # <<>>
                PROVE  queue' # queue
    OBVIOUS
  <2>1. Next /\ UNCHANGED use
    BY DEF Next
  <2>2. SettledState
    BY DEF SettledState, WhenSettled, RegularUses, KnownInv, TypeOK
  <2>3. CASE ShowAtOnce(c)
    <3>1. current = 0 /\ ~locked /\ EngineTurn
      BY <2>3 DEF ShowAtOnce, Show, AppTurn
    <3>. QED  BY <2>2, <3>1, NobodyGoing, NobodyWaits
  <2>4. CASE ShowLater(c)
    BY <2>1, <2>2, <2>4, ShowLaterSettled
  <2>5. ~ShowImmediately(c)
    BY DEF ShowImmediately
  <2>. QED  BY <2>3, <2>4, <2>5 DEF Show
<1>2. Spec => []WhenSettled
  BY SettledInvariant
<1>. QED  BY <1>1, <1>2, KnownInvariant, PTL DEF Spec, NoOvertaking
=============================================================================
