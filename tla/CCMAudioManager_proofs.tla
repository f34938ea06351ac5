---------------------- MODULE CCMAudioManager_proofs ----------------------
(***************************************************************************)
(* Proofs about CCMAudioManager.  In every use, call backs that call the   *)
(* manager again included, every sound that was recorded and sounds can    *)
(* still be stopped, and no end is told before the sound is over.  Where   *)
(* call backs leave the manager alone an end is told at most once; without *)
(* stopAll every end is told; and, where they are given as clips by calls  *)
(* in turns of their own, one music and one background music sound.        *)
(***************************************************************************)
EXTENDS CCMAudioManager, NaturalsInduction, WellFoundedInduction,
        SequenceTheorems, TLAPS

-----------------------------------------------------------------------------
(* The maps. *)

\* The order of the naturals as a relation.
Below == {p \in Nat \X Nat : p[1] < p[2]}

\* Every set of naturals that is not empty has a least element.
LEMMA Least ==
    ASSUME NEW S, S \subseteq Nat, S # {}
    PROVE  Min(S) \in S /\ \A y \in S : Min(S) <= y
<1>1. IsWellFoundedOn(Below, Nat)
  BY NatLessThanWellFounded DEF OpToRel, Below
<1>2. PICK x \in S : \A y \in S : <<y, x>> \notin Below
  BY <1>1, WFMin
<1>3. \A y \in S : x <= y
  <2>1. SUFFICES ASSUME NEW y \in S PROVE x <= y
    OBVIOUS
  <2>2. <<y, x>> \notin Below /\ x \in Nat /\ y \in Nat
    BY <1>2
  <2>. QED  BY <2>2 DEF Below
<1>. QED  BY <1>3 DEF Min

\* No key is twice in a map.
NoRepeat(map) == \A i, j \in 1 .. Len(map) : map[i] = map[j] => i = j

\* A key is recorded behind the others (43).
LEMMA RecordedLast ==
    ASSUME NEW map \in Seq(Sounds), NoRepeat(map), NEW s \in Sounds, s \notin ToSet(map)
    PROVE  /\ Recorded(map, s) \in Seq(Sounds) /\ NoRepeat(Recorded(map, s))
           /\ ToSet(Recorded(map, s)) = ToSet(map) \cup {s}
<1>. DEFINE m == Recorded(map, s)
<1>1. m \in Seq(Sounds) /\ Len(m) = Len(map) + 1 /\ Len(map) \in Nat
      /\ m[Len(map) + 1] = s /\ \A i \in 1 .. Len(map) : m[i] = map[i]
  BY AppendProperties DEF Recorded
<1>2. DOMAIN m = 1 .. Len(map) + 1 /\ DOMAIN map = 1 .. Len(map)
  BY <1>1
<1>. HIDE DEF m
<1>3. \A i \in 1 .. Len(map) : map[i] # s
  BY <1>2 DEF ToSet
<1>4. NoRepeat(m)
  BY <1>1, <1>3 DEF NoRepeat
<1>5. ToSet(m) = ToSet(map) \cup {s}
  <2>1. \A i \in 1 .. Len(map) + 1 : i \in 1 .. Len(map) \/ i = Len(map) + 1
    BY <1>1
  <2>2. ToSet(m) \subseteq ToSet(map) \cup {s}
    BY <1>1, <1>2, <2>1 DEF ToSet
  <2>3. ToSet(map) \cup {s} \subseteq ToSet(m)
    BY <1>1, <1>2 DEF ToSet
  <2>. QED  BY <2>2, <2>3
<1>. QED  BY <1>1, <1>4, <1>5 DEF m

\* delete takes the one key out of the map, if it is there (49).
LEMMA DeletedKey ==
    ASSUME NEW map \in Seq(Sounds), NoRepeat(map), NEW s \in Sounds
    PROVE  /\ RemoveFirst(map, s) \in Seq(Sounds) /\ NoRepeat(RemoveFirst(map, s))
           /\ ToSet(RemoveFirst(map, s)) = ToSet(map) \ {s}
<1>. DEFINE n == Len(map)
<1>1. n \in Nat /\ DOMAIN map = 1 .. n
  OBVIOUS
<1>2. CASE ~\E i \in 1 .. n : map[i] = s
  BY <1>1, <1>2 DEF RemoveFirst, ToSet
<1>3. CASE \E i \in 1 .. n : map[i] = s
  <2>. DEFINE I == {i \in 1 .. n : map[i] = s}  k == SelectInSeq(map, LAMBDA v : v = s)
  <2>1. k = Min(I)
    BY <1>3 DEF SelectInSeq
  <2>2. Min(I) \in I
    <3>1. I \subseteq Nat /\ I # {}
      BY <1>3
    <3>. HIDE DEF I
    <3>. QED  BY <3>1, Least
  <2>3. k \in 1 .. n /\ map[k] = s
    BY <2>1, <2>2
  <2>. DEFINE p == SubSeq(map, 1, k - 1)  q == SubSeq(map, k + 1, n)  m == p \o q
  <2>4. RemoveFirst(map, s) = m
    BY <1>3 DEF RemoveFirst, RemoveAt
  <2>. HIDE DEF k
  <2>5. p \in Seq(Sounds) /\ Len(p) = k - 1 /\ \A i \in 1 .. k - 1 : p[i] = map[i]
    BY <2>3, <1>1, SubSeqProperties
  <2>6. q \in Seq(Sounds) /\ Len(q) = n - k /\ \A i \in 1 .. n - k : q[i] = map[k + i]
    <3>1. k + 1 \in Int /\ n \in Int /\ \A i \in k + 1 .. n : map[i] \in Sounds
      BY <2>3, <1>1
    <3>2. /\ q \in Seq(Sounds)
          /\ Len(q) = IF k + 1 <= n THEN n - (k + 1) + 1 ELSE 0
          /\ \A i \in 1 .. n - (k + 1) + 1 : q[i] = map[(k + 1) + i - 1]
      BY <3>1, SubSeqProperties
    <3>. HIDE DEF q
    <3>3. \A i \in 1 .. n - k : i \in 1 .. n - (k + 1) + 1 /\ (k + 1) + i - 1 = k + i
      BY <2>3, <1>1
    <3>4. Len(q) = n - k
      <4>1. k \in Nat /\ n \in Nat /\ k <= n
        BY <2>3, <1>1
      <4>. HIDE DEF n
      <4>2. CASE k + 1 <= n
        BY <3>2, <4>1, <4>2
      <4>3. CASE ~(k + 1 <= n)
        BY <3>2, <4>1, <4>3
      <4>. QED  BY <4>2, <4>3
    <3>5. \A i \in 1 .. n - k : q[i] = map[k + i]
      BY <3>2, <3>3
    <3>. QED  BY <3>2, <3>4, <3>5
  <2>. HIDE DEF p, q
  <2>7. m \in Seq(Sounds) /\ Len(m) = n - 1
        /\ \A i \in 1 .. n - 1 : m[i] = IF i < k THEN map[i] ELSE map[i + 1]
    <3>1. m \in Seq(Sounds) /\ Len(m) = Len(p) + Len(q)
          /\ \A i \in 1 .. Len(p) + Len(q) :
                 m[i] = IF i <= Len(p) THEN p[i] ELSE q[i - Len(p)]
      BY <2>5, <2>6, ConcatProperties
    <3>. HIDE DEF m
    <3>2. Len(m) = n - 1 /\ Len(p) + Len(q) = n - 1
      BY <2>3, <2>5, <2>6, <3>1, <1>1
    <3>3. ASSUME NEW i \in 1 .. n - 1
          PROVE  m[i] = IF i < k THEN map[i] ELSE map[i + 1]
      <4>1. CASE i < k
        BY <2>3, <2>5, <3>1, <3>2, <4>1, <1>1
      <4>2. CASE i >= k
        <5>1. i - (k - 1) \in 1 .. n - k /\ k + (i - (k - 1)) = i + 1
          BY <2>3, <4>2, <1>1
        <5>2. m[i] = q[i - (k - 1)]
          BY SMTT(30), <2>3, <2>5, <3>1, <3>2, <4>2
        <5>3. q[i - (k - 1)] = map[i + 1]
          BY <2>6, <5>1
        <5>4. ~(i < k)
          BY <2>3, <4>2
        <5>. QED  BY <5>2, <5>3, <5>4
      <4>. QED  BY <4>1, <4>2, <2>3
    <3>. QED  BY <3>1, <3>2, <3>3
  <2>. HIDE DEF m
  <2>8. NoRepeat(m)
    BY <2>3, <2>7, <1>1 DEF NoRepeat, n
  <2>9. DOMAIN m = 1 .. n - 1
    BY <2>7
  <2>10. \A i \in 1 .. n : i # k =>
             \E j \in 1 .. n - 1 : m[j] = map[i]
    <3>1. SUFFICES ASSUME NEW i \in 1 .. n, i # k
                   PROVE  \E j \in 1 .. n - 1 : m[j] = map[i]
      OBVIOUS
    <3>. DEFINE j == IF i < k THEN i ELSE i - 1
    <3>2. j \in 1 .. n - 1 /\ m[j] = map[i]
      BY <3>1, <2>3, <2>7, <1>1
    <3>. QED  BY <3>2
  <2>11. \A i \in 1 .. n - 1 : \E j \in 1 .. n : j # k /\ m[i] = map[j]
    <3>1. SUFFICES ASSUME NEW i \in 1 .. n - 1
                   PROVE  \E j \in 1 .. n : j # k /\ m[i] = map[j]
      OBVIOUS
    <3>. DEFINE j == IF i < k THEN i ELSE i + 1
    <3>2. j \in 1 .. n /\ j # k /\ m[i] = map[j]
      BY <2>3, <2>7, <1>1
    <3>. QED  BY <3>2
  <2>12. \A j \in 1 .. n : j # k => map[j] # s
    BY <2>3 DEF NoRepeat, n
  <2>13. ToSet(m) = ToSet(map) \ {s}
    <3>1. ToSet(m) \subseteq ToSet(map) \ {s}
      BY <2>9, <2>11, <2>12, <1>1 DEF ToSet
    <3>2. ToSet(map) \ {s} \subseteq ToSet(m)
      BY <2>9, <2>10, <2>3, <1>1 DEF ToSet
    <3>. QED  BY <3>1, <3>2
  <2>. QED  BY <2>4, <2>7, <2>8, <2>13
<1>. QED  BY <1>2, <1>3

\* The key a forEach comes to is the first of its map that it is still to come to;
\* there is none when all of those were deleted (60-81).
LEMMA NextFound ==
    ASSUME NEW map \in Seq(Sounds), NEW rest
    PROVE  LET i == SelectInSeq(map, LAMBDA k : k \in rest)
           IN  /\ i # 0 => map[i] \in ToSet(map) /\ map[i] \in rest
               /\ i = 0 => \A k \in ToSet(map) : k \notin rest
<1>. DEFINE i == SelectInSeq(map, LAMBDA k : k \in rest)
            I == {j \in 1 .. Len(map) : map[j] \in rest}
<1>1. i = IF I # {} THEN Min(I) ELSE 0
  BY DEF SelectInSeq
<1>2. I # {} => Min(I) \in I
  <2>1. I \subseteq Nat
    OBVIOUS
  <2>. HIDE DEF I
  <2>. QED  BY <2>1, Least
<1>3. ToSet(map) = {map[j] : j \in 1 .. Len(map)}
  BY DEF ToSet
<1>4. CASE I = {}
  <2>1. i = 0 /\ \A k \in ToSet(map) : k \notin rest
    BY <1>1, <1>3, <1>4
  <2>. QED  BY <2>1
<1>5. CASE I # {}
  <2>. HIDE DEF i
  <2>1. i \in I
    BY <1>1, <1>2, <1>5
  <2>2. i \in 1 .. Len(map) /\ map[i] \in rest
    BY <2>1
  <2>3. i # 0 /\ map[i] \in ToSet(map)
    BY <1>3, <2>2
  <2>. QED  BY <2>2, <2>3 DEF i
<1>. QED  BY <1>4, <1>5

-----------------------------------------------------------------------------
(* The stack. *)

\* No two frames wait to play the same call.
Apart(st) ==
    \A i, j \in 1 .. Len(st) : (st[i].call = st[j].call /\ st[i].call # 0) => i = j

\* Something is put on the stack.
LEMMA Pushed ==
    ASSUME NEW st \in Seq(Frame), NEW f \in Frame, Apart(st),
           f.call # 0 => \A g \in ToSet(st) : g.call # f.call
    PROVE  LET st2 == <<f>> \o st
           IN  /\ st2 \in Seq(Frame) /\ st2 # <<>> /\ Len(st2) = Len(st) + 1
               /\ Head(st2) = f /\ Tail(st2) = st
               /\ ToSet(st2) = {f} \cup ToSet(st) /\ Apart(st2)
<1>. DEFINE st2 == <<f>> \o st
<1>1. /\ st2 \in Seq(Frame) /\ Len(st2) = Len(st) + 1 /\ Len(st) \in Nat
      /\ st2[1] = f /\ \A i \in 2 .. Len(st) + 1 : st2[i] = st[i - 1]
  <2>1. <<f>> \in Seq(Frame) /\ Len(<<f>>) = 1 /\ <<f>>[1] = f
    OBVIOUS
  <2>2. /\ st2 \in Seq(Frame) /\ Len(st2) = Len(<<f>>) + Len(st)
        /\ \A i \in 1 .. Len(<<f>>) + Len(st) :
               st2[i] = IF i <= Len(<<f>>) THEN <<f>>[i] ELSE st[i - Len(<<f>>)]
    BY <2>1, ConcatProperties
  <2>. HIDE DEF st2
  <2>3. Len(st) \in Nat
    OBVIOUS
  <2>. QED  BY <2>1, <2>2, <2>3
<1>2. Head(st2) = f /\ Tail(st2) = st
  OBVIOUS
<1>. HIDE DEF st2
<1>3. ToSet(st2) = {st2[i] : i \in 1 .. Len(st) + 1} /\ ToSet(st) = {st[i] : i \in 1 .. Len(st)}
  <2>1. DOMAIN st2 = 1 .. Len(st) + 1 /\ DOMAIN st = 1 .. Len(st)
    BY <1>1
  <2>. QED  BY <2>1 DEF ToSet
<1>4. \A i \in 1 .. Len(st) : st2[i + 1] = st[i] /\ i + 1 \in 1 .. Len(st) + 1
  BY <1>1
<1>5. ToSet(st2) = {f} \cup ToSet(st)
  <2>1. \A i \in 1 .. Len(st) + 1 : i = 1 \/ (i - 1 \in 1 .. Len(st) /\ st2[i] = st[i - 1])
    BY <1>1
  <2>2. 1 \in 1 .. Len(st) + 1
    BY <1>1
  <2>3. ToSet(st2) \subseteq {f} \cup ToSet(st)
    BY <1>1, <1>3, <2>1
  <2>4. f \in ToSet(st2)
    BY <1>1, <1>3, <2>2
  <2>5. ToSet(st) \subseteq ToSet(st2)
    BY <1>3, <1>4
  <2>. QED  BY <2>3, <2>4, <2>5
<1>6. Apart(st2)
  <2>1. \A i \in 2 .. Len(st) + 1 : st2[i] \in ToSet(st)
    BY <1>1, <1>3
  <2>2. SUFFICES ASSUME NEW i \in 1 .. Len(st) + 1, NEW j \in 1 .. Len(st) + 1,
                        st2[i].call = st2[j].call, st2[i].call # 0
                 PROVE  i = j
    BY <1>1 DEF Apart
  <2>3. CASE i = 1
    <3>1. f.call # 0 /\ (j # 1 => st2[j].call # f.call)
      <4>1. st2[i] = f
        BY <1>1, <2>3
      <4>2. j # 1 => j \in 2 .. Len(st) + 1
        BY <1>1
      <4>. QED  BY <2>1, <2>2, <4>1, <4>2
    <3>. QED  BY <1>1, <2>2, <2>3, <3>1
  <2>4. CASE j = 1
    <3>1. f.call # 0 /\ (i # 1 => st2[i].call # f.call)
      <4>1. st2[j] = f
        BY <1>1, <2>4
      <4>2. i # 1 => i \in 2 .. Len(st) + 1
        BY <1>1
      <4>. QED  BY <2>1, <2>2, <4>1, <4>2
    <3>. QED  BY <1>1, <2>2, <2>4, <3>1
  <2>5. CASE i # 1 /\ j # 1
    <3>1. i - 1 \in 1 .. Len(st) /\ j - 1 \in 1 .. Len(st)
          /\ st2[i] = st[i - 1] /\ st2[j] = st[j - 1]
      BY <1>1, <2>5
    <3>2. i - 1 = j - 1
      BY <2>2, <3>1 DEF Apart
    <3>. QED  BY <3>1, <3>2
  <2>. QED  BY <2>3, <2>4, <2>5
<1>7. st2 # <<>>
  BY <1>1
<1>. QED  BY <1>1, <1>2, <1>5, <1>6, <1>7 DEF st2

\* The innermost is taken from the stack.
LEMMA Popped ==
    ASSUME NEW st \in Seq(Frame), st # <<>>, Apart(st)
    PROVE  /\ Head(st) \in Frame /\ Head(st) \in ToSet(st)
           /\ Tail(st) \in Seq(Frame) /\ Len(Tail(st)) = Len(st) - 1
           /\ ToSet(st) = {Head(st)} \cup ToSet(Tail(st)) /\ Apart(Tail(st))
           /\ Head(st).call # 0 => \A g \in ToSet(Tail(st)) : g.call # Head(st).call
<1>. DEFINE f == Head(st)  t == Tail(st)
<1>1. /\ Len(st) \in Nat /\ Len(st) >= 1 /\ f \in Frame /\ f = st[1]
      /\ t \in Seq(Frame) /\ Len(t) = Len(st) - 1
      /\ \A i \in 1 .. Len(st) - 1 : t[i] = st[i + 1]
  BY HeadTailProperties
<1>. HIDE DEF f, t
<1>2. ToSet(t) = {t[i] : i \in 1 .. Len(st) - 1} /\ ToSet(st) = {st[i] : i \in 1 .. Len(st)}
  BY <1>1 DEF ToSet
<1>3. \A i \in 1 .. Len(st) - 1 : i + 1 \in 1 .. Len(st) /\ i + 1 # 1
  BY <1>1
<1>4. \A i \in 1 .. Len(st) : i = 1 \/ (i - 1 \in 1 .. Len(st) - 1 /\ st[i] = t[i - 1])
  BY <1>1
<1>5. 1 \in 1 .. Len(st)
  BY <1>1
<1>6. ToSet(st) = {f} \cup ToSet(t)
  <2>1. ToSet(st) \subseteq {f} \cup ToSet(t)
    BY <1>1, <1>2, <1>4
  <2>2. {f} \cup ToSet(t) \subseteq ToSet(st)
    BY <1>1, <1>2, <1>3, <1>5
  <2>. QED  BY <2>1, <2>2
<1>7. Apart(t)
  <2>1. SUFFICES ASSUME NEW i \in 1 .. Len(st) - 1, NEW j \in 1 .. Len(st) - 1,
                        t[i].call = t[j].call, t[i].call # 0
                 PROVE  i = j
    BY <1>1 DEF Apart
  <2>2. i + 1 = j + 1
    BY <1>1, <1>3, <2>1 DEF Apart
  <2>. QED  BY <2>2
<1>8. f.call # 0 => \A g \in ToSet(t) : g.call # f.call
  BY <1>1, <1>2, <1>3, <1>5 DEF Apart
<1>. QED  BY <1>1, <1>6, <1>7, <1>8 DEF f, t

\* The innermost is replaced by what it goes on with.
LEMMA ReplacedTop ==
    ASSUME stack \in Seq(Frame), stack # <<>>, Apart(stack),
           NEW f \in Frame, f.call = Head(stack).call
    PROVE  /\ Replaced(f) \in Seq(Frame) /\ Len(Replaced(f)) = Len(stack)
           /\ ToSet(Replaced(f)) = {f} \cup ToSet(Tail(stack)) /\ Apart(Replaced(f))
<1>1. /\ Tail(stack) \in Seq(Frame) /\ Len(Tail(stack)) = Len(stack) - 1
      /\ Apart(Tail(stack)) /\ Len(stack) \in Nat
      /\ f.call # 0 => \A g \in ToSet(Tail(stack)) : g.call # f.call
  BY Popped
<1>2. /\ Replaced(f) \in Seq(Frame) /\ Len(Replaced(f)) = Len(Tail(stack)) + 1
      /\ ToSet(Replaced(f)) = {f} \cup ToSet(Tail(stack)) /\ Apart(Replaced(f))
  BY <1>1, Pushed DEF Replaced
<1>. QED  BY <1>1, <1>2

-----------------------------------------------------------------------------
(* The inductive invariant, for every use. *)

\* The keys of a map are sounds of its kind that were recorded, once each.
MapHolds(map, k) ==
    /\ NoRepeat(map)
    /\ \A s \in ToSet(map) : s \in Made /\ calls[s].kind = k /\ pc[s] = "done"
MapsHold == MapHolds(music, "music") /\ MapHolds(effects, "effect")

BGMHolds == bgm # 0 => bgm \in Made /\ calls[bgm].kind = "bgm" /\ pc[bgm] = "done"

\* What the state of a call says of its sound and of its end.
CallState(s) ==
    /\ s \in Made <=> pc[s] # "none"
    /\ pc[s] \in {"loading", "loaded", "failed"} => calls[s].byUrl
    /\ pc[s] \in {"none", "stopping", "loading", "loaded", "failed", "raised"} =>
           sound[s] = "silent"
    /\ pc[s] = "started" => sound[s] \in {"playing", "over"}
    /\ pc[s] = "done" => sound[s] # "silent"
    /\ pc[s] # "done" => ends[s] = 0
    /\ ends[s] > 0 => sound[s] = "over"
CallStates ==
    /\ \A s \in Made : calls[s] \in use.calls
    /\ \A s \in Sounds : CallState(s)

\* What the manager has still to do: the sound it tells the end of is over, and was
\* recorded in no other map; the call that is to play has not played.
FrameHolds(f) ==
    /\ f.at = "first" => f.op = "end"
    /\ f.at # "next" =>
           /\ f.s \in Made /\ pc[f.s] = "done"
           /\ f.op = "end" => sound[f.s] = "over"
           /\ f.map # "none" => calls[f.s].kind = f.map
           /\ f.map = "none" => f.s \notin ToSet(music) /\ f.s \notin ToSet(effects)
    /\ f.map = "none" => f.rest = {}
    /\ f.call # 0 => /\ f.call \in Made /\ pc[f.call] = "stopping"
                     /\ calls[f.call].kind = "music"
                     /\ f.op = "end" /\ f.map = "music"
StackHolds ==
    /\ \A f \in ToSet(stack) : FrameHolds(f)
    /\ Apart(stack)
    /\ ~use.nested => Len(stack) <= 1

\* Where no call back calls the manager, the sounds of the maps were not told of
\* their end, but the one whose onEnd runs.
InOnEnd(s) == \E f \in ToSet(stack) : f.op = "end" /\ f.at = "last" /\ f.s = s
TellsOnce ==
    ~use.nested =>
        /\ \A s \in Sounds : ends[s] <= 1
        /\ \A s \in ToSet(music) : ends[s] = 0 \/ InOnEnd(s)
        /\ \A s \in ToSet(effects) : ends[s] = 0 \/ InOnEnd(s)
        /\ \A f \in ToSet(stack) : f.at = "first" => ends[f.s] = 0

\* Only stopAll stops a sound that its promise has not recorded yet, and in a use
\* that calls in turns of its own no call comes there.
StartedPlays ==
    (Orderly \/ ~use.mayStopAll) =>
        \A s \in Made : pc[s] = "started" => sound[s] = "playing"

\* Without stopAll every sound that is over was told of its end, or is about to be;
\* what raises in a call back would break that.
TellsAll == ~use.mayStopAll /\ (use.nested => \A c \in use.calls : c.options)
ToBeTold(s) == \E f \in ToSet(stack) : f.at = "first" /\ f.s = s
EndsMatch ==
    TellsAll => \A s \in Made :
        (calls[s].kind # "bgm" /\ calls[s].options /\ sound[s] = "over") =>
            ends[s] > 0 \/ ToBeTold(s)

AudioInv ==
    /\ TypeOK
    /\ MapsHold /\ BGMHolds
    /\ CallStates /\ StackHolds
    /\ SoundsAreTracked
    /\ TellsOnce /\ StartedPlays /\ EndsMatch

\* A sound is a number from 1 on; 0 is none.
LEMMA Constants == MaxSounds \in Nat /\ Sounds \subseteq Nat /\ 0 \notin Sounds
BY BoundAssumption DEF BoundAssumption, Sounds

\* A use is one of Uses.
LEMMA UseKnown ==
    ASSUME TypeOK
    PROVE  /\ use.calls \subseteq Call
           /\ use.mayFail \in BOOLEAN /\ use.mayStopAll \in BOOLEAN
           /\ use.settled \in BOOLEAN /\ use.nested \in BOOLEAN
           /\ use.most \in Nat /\ use.most <= MaxSounds
BY UsesAssumption, Constants DEF UsesAssumption, TypeOK, Use

\* The calls made are the first of the sounds.
LEMMA MadeKnown ==
    ASSUME TypeOK
    PROVE  /\ Made \subseteq Sounds /\ Len(calls) \in Nat
           /\ \A s \in Made : calls[s] \in Call
BY Constants DEF TypeOK, Made, Sounds

\* It holds at first: no call was made.
LEMMA AudioInit == Init => AudioInv
<1>. SUFFICES ASSUME Init PROVE AudioInv
  OBVIOUS
<1>1. TypeOK
  BY Constants DEF Init, TypeOK
<1>2. /\ Made = {} /\ ToSet(music) = {} /\ ToSet(effects) = {} /\ ToSet(stack) = {}
      /\ NoRepeat(music) /\ NoRepeat(effects) /\ Apart(stack) /\ Len(stack) <= 1
  BY DEF Init, Made, ToSet, NoRepeat, Apart
<1>3. CallStates
  BY <1>2, Constants DEF Init, CallStates, CallState
<1>. QED  BY <1>1, <1>2, <1>3 DEF Init, AudioInv, MapsHold, MapHolds, BGMHolds, StackHolds,
             SoundsAreTracked, TellsOnce, StartedPlays, EndsMatch

-----------------------------------------------------------------------------
(* What waits on the stack is not disturbed. *)

\* What was done stays so: a sound that is over, a call that was recorded, a key that
\* was deleted.
Keeps ==
    /\ Made \subseteq Made'
    /\ \A s \in Made :
           /\ calls'[s] = calls[s]
           /\ pc[s] = "done" => /\ pc'[s] = "done"
                                /\ s \notin ToSet(music) => s \notin ToSet(music')
                                /\ s \notin ToSet(effects) => s \notin ToSet(effects')
           /\ sound[s] = "over" => sound'[s] = "over"

\* So a frame still holds, if the call it waits to play still waits.
LEMMA FrameKept ==
    ASSUME Keeps, NEW f \in Frame, FrameHolds(f), f.call # 0 => pc'[f.call] = "stopping"
    PROVE  FrameHolds(f)'
BY DEF Keeps, FrameHolds

\* On the stack st a loop over a map is new, that has nothing to tell yet.
Enters(st, op, map, rest, n) ==
    /\ st \in Seq(Frame) /\ Apart(st) /\ (~use.nested => Len(st) <= 1)
    /\ \E f \in Frame : /\ f.at = "next" /\ f.op = op /\ f.map = map /\ f.call = n
                        /\ f.rest = rest
                        /\ ToSet(st) = {f} \cup ToSet(stack)

\* It is, when the manager is called.
LEMMA EnteredFrame ==
    ASSUME AudioInv, AppTurn, NEW op \in {"end", "pause", "resume"},
           NEW map \in {"music", "effect"}, NEW rest \in SUBSET Sounds,
           NEW n \in Sounds \cup {0}, n \notin Made
    PROVE  Enters(Entered(op, map, rest, n), op, map, rest, n)
<1>. DEFINE f == [op |-> op, map |-> map, rest |-> rest, at |-> "next", s |-> 0, call |-> n]
            st == <<f>> \o stack
<1>1. f \in Frame /\ st = Entered(op, map, rest, n)
  BY DEF Frame, Entered
<1>2. /\ f.at = "next" /\ f.op = op /\ f.map = map /\ f.call = n /\ f.rest = rest
  OBVIOUS
<1>. HIDE DEF f
<1>3. stack \in Seq(Frame) /\ Apart(stack)
  BY DEF AudioInv, TypeOK, StackHolds
<1>4. \A g \in ToSet(stack) : g.call # 0 => g.call \in Made
  BY DEF AudioInv, StackHolds, FrameHolds
<1>5. f.call # 0 => \A g \in ToSet(stack) : g.call # f.call
  BY <1>2, <1>4
<1>6. /\ st \in Seq(Frame) /\ Apart(st) /\ Len(st) = Len(stack) + 1
      /\ ToSet(st) = {f} \cup ToSet(stack)
  BY <1>1, <1>3, <1>5, Pushed
<1>7. ~use.nested => Len(st) <= 1
  <2>1. ~use.nested => stack = <<>>
    BY DEF AppTurn
  <2>2. stack = <<>> => Len(stack) = 0
    OBVIOUS
  <2>. HIDE DEF st
  <2>. QED  BY <1>6, <2>1, <2>2
<1>8. Enters(st, op, map, rest, n)
  <2>. HIDE DEF st
  <2>. QED  BY <1>1, <1>2, <1>6, <1>7 DEF Enters
<1>. QED  BY <1>1, <1>8

\* One of the loops over a map is entered by itself.
LEMMA EnterStep ==
    ASSUME AudioInv, UNCHANGED use, AppTurn,
           PauseAllMusic \/ ResumeAllMusic \/ StopAllMusic \/ StopAllEffects
    PROVE  AudioInv'
<1>1. UNCHANGED <<calls, pc, sound, music, effects, bgm, ends>>
  BY DEF PauseAllMusic, ResumeAllMusic, StopAllMusic, StopAllEffects
<1>2. Keys(music) \in SUBSET Sounds /\ Keys(effects) \in SUBSET Sounds
  BY DEF AudioInv, TypeOK, Keys, ToSet
<1>3. PICK op \in {"end", "pause", "resume"}, map \in {"music", "effect"},
           rest \in SUBSET Sounds : stack' = Entered(op, map, rest, 0)
  BY <1>2 DEF PauseAllMusic, ResumeAllMusic, StopAllMusic, StopAllEffects
<1>4. Made' = Made /\ Made \subseteq Sounds
  BY <1>1, MadeKnown DEF Made, AudioInv
<1>5. Enters(stack', op, map, rest, 0)
  <2>1. 0 \in Sounds \cup {0} /\ 0 \notin Made
    BY <1>4, Constants
  <2>. QED  BY <1>3, <2>1, EnteredFrame
<1>6. PICK f \in Frame : /\ f.at = "next" /\ f.map \in {"music", "effect"} /\ f.call = 0
                         /\ ToSet(stack') = {f} \cup ToSet(stack)
  BY <1>5 DEF Enters
<1>7. TypeOK'
  BY <1>1, <1>5 DEF AudioInv, TypeOK, Enters
<1>8. MapsHold' /\ BGMHolds'
  BY <1>1, <1>4 DEF AudioInv, MapsHold, MapHolds, BGMHolds
<1>9. CallStates'
  BY <1>1, <1>4 DEF AudioInv, CallStates, CallState
<1>10. StackHolds'
  <2>1. FrameHolds(f)'
    BY <1>6 DEF FrameHolds
  <2>2. \A g \in ToSet(stack) : FrameHolds(g)'
    BY <1>1, <1>4 DEF AudioInv, StackHolds, FrameHolds
  <2>. QED  BY <1>1, <1>5, <1>6, <2>1, <2>2 DEF StackHolds, Enters
<1>11. SoundsAreTracked'
  BY <1>1, <1>4 DEF AudioInv, SoundsAreTracked, Sounding
<1>12. TellsOnce'
  BY <1>1, <1>6 DEF AudioInv, TellsOnce, InOnEnd
<1>13. StartedPlays' /\ EndsMatch'
  BY <1>1, <1>4, <1>6 DEF AudioInv, StartedPlays, Orderly, EndsMatch, TellsAll, ToBeTold
<1>. QED  BY <1>7, <1>8, <1>9, <1>10, <1>11, <1>12, <1>13 DEF AudioInv

-----------------------------------------------------------------------------
(* Background music, and the calls that play. *)

\* The sounds are snd: only the held background music may differ, and is not silent.
Hushed(snd) ==
    /\ snd \in [Sounds -> {"silent", "playing", "paused", "over"}]
    /\ \A s \in Sounds :
           /\ s # bgm => snd[s] = sound[s]
           /\ s = bgm => snd[s] # "silent" /\ pc[s] = "done" /\ calls[s].kind = "bgm"
           /\ sound[s] = "over" => snd[s] = "over"

\* With nothing done to it it is so, and after each thing that is done to it.
LEMMA BGMHushed ==
    ASSUME AudioInv
    PROVE  /\ Hushed(sound) /\ Hushed(StopSounds({bgm}))
           /\ Hushed(PauseSounds({bgm})) /\ Hushed(ResumeSounds({bgm}))
<1>1. sound \in [Sounds -> {"silent", "playing", "paused", "over"}]
  BY DEF AudioInv, TypeOK
<1>2. \A s \in Sounds : s = bgm => /\ sound[s] # "silent" /\ pc[s] = "done"
                                  /\ calls[s].kind = "bgm"
  BY Constants DEF AudioInv, BGMHolds, CallStates, CallState
<1>3. Hushed(sound)
  BY <1>1, <1>2 DEF Hushed
<1>4. Hushed(StopSounds({bgm}))
  BY <1>1, <1>2 DEF Hushed, StopSounds, Sounding
<1>5. Hushed(PauseSounds({bgm}))
  BY <1>1, <1>2 DEF Hushed, PauseSounds
<1>6. Hushed(ResumeSounds({bgm}))
  BY <1>1, <1>2 DEF Hushed, ResumeSounds
<1>. QED  BY <1>3, <1>4, <1>5, <1>6

\* The invariant after a call that only pauses, resumes or stops it.
LEMMA AfterHush ==
    ASSUME AudioInv, UNCHANGED <<use, calls, pc, music, effects, stack, ends>>,
           bgm' \in {bgm, 0}, Hushed(sound')
    PROVE  AudioInv'
<1>1. /\ Made' = Made /\ Made \subseteq Sounds
      /\ \A s \in Made : calls[s].kind # "bgm" => sound'[s] = sound[s]
      /\ \A s \in Sounds : pc[s] # "done" => sound'[s] = sound[s]
  BY MadeKnown DEF Made, AudioInv, Hushed
<1>2. TypeOK'
  BY DEF AudioInv, TypeOK, Hushed
<1>3. MapsHold' /\ BGMHolds'
  BY <1>1 DEF AudioInv, MapsHold, MapHolds, BGMHolds
<1>4. CallStates'
  BY <1>1 DEF AudioInv, CallStates, CallState, Hushed
<1>5. StackHolds'
  <2>1. Keeps
    BY <1>1 DEF Keeps, Hushed
  <2>2. \A f \in ToSet(stack) : f \in Frame
    BY DEF AudioInv, TypeOK, ToSet
  <2>3. \A f \in ToSet(stack) : f.call # 0 => pc'[f.call] = "stopping"
    BY DEF AudioInv, StackHolds, FrameHolds
  <2>4. \A f \in ToSet(stack) : FrameHolds(f)'
    BY <2>1, <2>2, <2>3, FrameKept DEF AudioInv, StackHolds
  <2>. QED  BY <2>4 DEF AudioInv, StackHolds
<1>6. SoundsAreTracked'
  BY <1>1 DEF AudioInv, SoundsAreTracked, Sounding
<1>7. TellsOnce'
  BY DEF AudioInv, TellsOnce, InOnEnd
<1>8. StartedPlays'
  BY <1>1 DEF AudioInv, StartedPlays, Orderly
<1>9. EndsMatch'
  BY <1>1 DEF AudioInv, EndsMatch, TellsAll, ToBeTold
<1>. QED  BY <1>2, <1>3, <1>4, <1>5, <1>6, <1>7, <1>8, <1>9 DEF AudioInv

\* So does a call about the background music that plays nothing.
LEMMA BGMStep ==
    ASSUME AudioInv, UNCHANGED use, PauseBGM \/ ResumeBGM \/ StopBGM
    PROVE  AudioInv'
BY BGMHushed, AfterHush DEF PauseBGM, ResumeBGM, StopBGM

\* A call is made: what the calls are then.
LEMMA CallMade ==
    ASSUME TypeOK, NEW c \in use.calls, Len(calls) < use.most,
           calls' = Append(calls, c)
    PROVE  LET n == Len(calls) + 1
           IN  /\ n \in Sounds /\ n \notin Made /\ Made' = Made \cup {n}
               /\ calls' \in Seq(Call) /\ Len(calls') <= MaxSounds
               /\ calls'[n] = c /\ \A s \in Made : calls'[s] = calls[s]
<1>1. /\ calls \in Seq(Call) /\ c \in Call /\ Len(calls) \in Nat
      /\ use.most \in Nat /\ use.most <= MaxSounds
  BY UseKnown DEF TypeOK
<1>2. /\ calls' \in Seq(Call) /\ Len(calls') = Len(calls) + 1
      /\ \A i \in 1 .. Len(calls) : calls'[i] = calls[i]
      /\ calls'[Len(calls) + 1] = c
  BY <1>1, AppendProperties
<1>. QED  BY <1>1, <1>2, Constants DEF Made, Sounds

\* The invariant after a call that plays (c by clip or by url), or that is to stop
\* the other music first.
LEMMA AfterPlay ==
    ASSUME AudioInv, UNCHANGED <<use, music, effects, ends>>, AppTurn,
           NEW c \in use.calls, NEW p \in {"stopping", "loading", "started"}, NEW snd,
           Called(c, p), p = "loading" => c.byUrl, p = "stopping" => c.kind = "music",
           bgm' \in {bgm, 0}, Hushed(snd),
           sound' = [snd EXCEPT ![Len(calls) + 1] = IF p = "started" THEN "playing" ELSE @],
           \/ stack' = stack
           \/ p = "stopping" /\ stack' = Entered("end", "music", Keys(music), Len(calls) + 1)
    PROVE  AudioInv'
<1>. DEFINE n == Len(calls) + 1
<1>1. /\ n \in Sounds /\ n \notin Made /\ Made' = Made \cup {n}
      /\ calls' \in Seq(Call) /\ Len(calls') <= MaxSounds
      /\ calls'[n] = c /\ \A s \in Made : calls'[s] = calls[s]
      /\ pc' = [pc EXCEPT ![n] = p]
  BY CallMade DEF AudioInv, Called
<1>2. Made \subseteq Sounds /\ \A s \in Made : s # n
  BY <1>1, MadeKnown DEF AudioInv
<1>3. /\ pc \in [Sounds -> {"none", "stopping", "loading", "loaded", "failed",
                          "started", "done", "raised"}]
      /\ snd \in [Sounds -> {"silent", "playing", "paused", "over"}]
  BY DEF AudioInv, TypeOK, Hushed
<1>4. pc[n] = "none" /\ snd[n] = "silent" /\ ends[n] = 0
  BY <1>1 DEF AudioInv, CallStates, CallState, Hushed
<1>. HIDE DEF n
<1>5. /\ \A s \in Sounds : s # n => pc'[s] = pc[s] /\ sound'[s] = snd[s]
      /\ pc'[n] = p /\ sound'[n] = IF p = "started" THEN "playing" ELSE "silent"
      /\ pc' \in [Sounds -> {"none", "stopping", "loading", "loaded", "failed",
                           "started", "done", "raised"}]
      /\ sound' \in [Sounds -> {"silent", "playing", "paused", "over"}]
  BY SMTT(30), <1>1, <1>3, <1>4 DEF n
<1>6. /\ \A s \in Made : calls[s].kind # "bgm" => snd[s] = sound[s]
      /\ \A s \in Sounds : pc[s] # "done" => snd[s] = sound[s]
      /\ \A s \in Sounds : sound[s] = "over" => snd[s] = "over"
      /\ \A s \in Sounds : s = bgm => snd[s] # "silent"
      /\ \A s \in Sounds : s # bgm => snd[s] = sound[s]
  BY <1>2 DEF Hushed
<1>7. \/ stack' = stack
      \/ p = "stopping" /\ Enters(stack', "end", "music", Keys(music), n)
  <2>1. Keys(music) \in SUBSET Sounds
    BY DEF AudioInv, TypeOK, Keys, ToSet
  <2>2. Enters(Entered("end", "music", Keys(music), n), "end", "music", Keys(music), n)
    BY <1>1, <2>1, EnteredFrame
  <2>. QED  BY <2>2 DEF n
<1>8. /\ stack' \in Seq(Frame) /\ Apart(stack') /\ (~use.nested => Len(stack') <= 1)
      /\ ToSet(stack) \subseteq ToSet(stack')
      /\ \A f \in ToSet(stack') : f \in ToSet(stack) \/
             /\ f.at = "next" /\ f.op = "end" /\ f.map = "music" /\ f.call = n
             /\ p = "stopping"
  BY <1>7 DEF AudioInv, TypeOK, StackHolds, Enters
<1>9. TypeOK'
  BY <1>1, <1>5, <1>8 DEF AudioInv, TypeOK
<1>10. MapsHold' /\ BGMHolds'
  BY <1>1, <1>2, <1>5 DEF AudioInv, MapsHold, MapHolds, BGMHolds
<1>11. CallStates'
  <2>1. \A s \in Made' : calls'[s] \in use'.calls
    BY <1>1 DEF AudioInv, CallStates
  <2>2. ASSUME NEW s \in Sounds PROVE CallState(s)'
    <3>1. CASE s = n
      BY <3>1, <1>1, <1>4, <1>5 DEF CallState
    <3>2. CASE s # n
      <4>1. /\ pc'[s] = pc[s] /\ sound'[s] = snd[s] /\ (s \in Made' <=> s \in Made)
            /\ ends'[s] = ends[s] /\ (s \in Made => calls'[s] = calls[s])
        BY <3>2, <1>1, <1>5
      <4>2. CallState(s)
        BY DEF AudioInv, CallStates
      <4>3. /\ sound[s] = "over" => snd[s] = "over"
            /\ pc[s] # "done" => snd[s] = sound[s]
            /\ sound[s] # "silent" => snd[s] # "silent"
        BY <1>6
      <4>. QED  BY <4>1, <4>2, <4>3 DEF CallState
    <3>. QED  BY <3>1, <3>2
  <2>. QED  BY <2>1, <2>2 DEF CallStates
<1>12. StackHolds'
  <2>1. Keeps
    BY <1>1, <1>2, <1>5, <1>6 DEF Keeps
  <2>2. ASSUME NEW f \in ToSet(stack) PROVE FrameHolds(f)'
    <3>1. f \in Frame /\ FrameHolds(f)
      BY DEF AudioInv, TypeOK, StackHolds, ToSet
    <3>2. f.call # 0 => pc'[f.call] = "stopping"
      BY <1>2, <1>5, <3>1 DEF FrameHolds
    <3>. QED  BY <2>1, <3>1, <3>2, FrameKept
  <2>3. ASSUME NEW f, f.at = "next" /\ f.op = "end" /\ f.map = "music" /\ f.call = n,
               p = "stopping"
        PROVE  FrameHolds(f)'
    BY <2>3, <1>1, <1>5 DEF FrameHolds
  <2>. QED  BY <1>8, <2>2, <2>3 DEF StackHolds
<1>13. SoundsAreTracked'
  BY <1>1, <1>2, <1>5, <1>6 DEF AudioInv, SoundsAreTracked, Sounding
<1>14. TellsOnce'
  BY <1>8 DEF AudioInv, TellsOnce, InOnEnd
<1>15. StartedPlays'
  BY <1>1, <1>2, <1>5, <1>6 DEF AudioInv, StartedPlays, Orderly
<1>16. EndsMatch'
  BY <1>1, <1>2, <1>5, <1>6, <1>8 DEF AudioInv, EndsMatch, TellsAll, ToBeTold
<1>. QED  BY <1>9, <1>10, <1>11, <1>12, <1>13, <1>14, <1>15, <1>16 DEF AudioInv

\* The calls of the application that play a sound.
LEMMA PlayStep ==
    ASSUME AudioInv, UNCHANGED use, AppTurn, NEW c \in use.calls,
           PlayMusic(c) \/ PlayEffect(c) \/ PlayBGM(c)
    PROVE  AudioInv'
<1>1. /\ Hushed(sound) /\ Hushed(StopSounds({bgm}))
      /\ sound \in [Sounds -> {"silent", "playing", "paused", "over"}]
  BY BGMHushed DEF AudioInv, TypeOK
<1>2. /\ Begun(c) \in {"stopping", "loading", "started"} /\ Begun(c) # "stopping"
      /\ Begun(c) = "loading" => c.byUrl
      /\ \A snd : Begins(snd, Len(calls) + 1, c) =
             [snd EXCEPT ![Len(calls) + 1] = IF Begun(c) = "started" THEN "playing" ELSE @]
  BY DEF Begun, Begins
<1>3. CASE PlayMusic(c) /\ c.stopOther
  <2>1. sound' = [sound EXCEPT ![Len(calls) + 1] = IF "stopping" = "started" THEN "playing" ELSE @]
    BY <1>1, <1>3 DEF PlayMusic
  <2>2. c.kind = "music"
    BY <1>3 DEF PlayMusic
  <2>. QED  BY <1>1, <1>3, <2>1, <2>2, AfterPlay DEF PlayMusic
<1>4. CASE PlayMusic(c) /\ ~c.stopOther
  BY <1>1, <1>2, <1>4, AfterPlay DEF PlayMusic, Plays
<1>5. CASE PlayEffect(c)
  BY <1>1, <1>2, <1>5, AfterPlay DEF PlayEffect, Plays
<1>6. CASE PlayBGM(c)
  BY <1>1, <1>2, <1>6, AfterPlay DEF PlayBGM, Plays
<1>. QED  BY <1>3, <1>4, <1>5, <1>6

\* stopAll, which stops what still is to be recorded too: AppTurn keeps it from
\* coming there in a use that calls in turns of its own.
LEMMA StopAllStep ==
    ASSUME AudioInv, UNCHANGED use, AppTurn, StopAll
    PROVE  AudioInv'
<1>1. /\ \A s \in Sounds : sound'[s] = IF Sounding(s) THEN "over" ELSE sound[s]
      /\ sound' \in [Sounds -> {"silent", "playing", "paused", "over"}]
      /\ UNCHANGED <<calls, pc, bgm, stack, ends>> /\ music' = <<>> /\ effects' = <<>>
  BY DEF StopAll, StopSounds, AudioInv, TypeOK
<1>2. Made \subseteq Sounds /\ Made' = Made
  BY <1>1, MadeKnown DEF Made, AudioInv
<1>3. ToSet(music') = {} /\ ToSet(effects') = {} /\ NoRepeat(music') /\ NoRepeat(effects')
  BY <1>1 DEF ToSet, NoRepeat
<1>4. TypeOK'
  BY <1>1 DEF AudioInv, TypeOK
<1>5. MapsHold' /\ BGMHolds'
  BY <1>1, <1>2, <1>3 DEF AudioInv, MapsHold, MapHolds, BGMHolds
<1>6. CallStates'
  BY <1>1, <1>2 DEF AudioInv, CallStates, CallState, Sounding
<1>7. StackHolds'
  <2>1. Keeps
    BY <1>1, <1>2, <1>3 DEF Keeps, Sounding
  <2>2. ASSUME NEW f \in ToSet(stack) PROVE FrameHolds(f)'
    <3>1. f \in Frame /\ FrameHolds(f)
      BY DEF AudioInv, TypeOK, StackHolds, ToSet
    <3>. QED  BY <1>1, <2>1, <3>1, FrameKept DEF FrameHolds
  <2>. QED  BY <1>1, <2>2 DEF AudioInv, StackHolds
<1>8. SoundsAreTracked'
  BY <1>1, <1>2 DEF SoundsAreTracked, Sounding
<1>9. TellsOnce'
  BY <1>1, <1>3 DEF AudioInv, TellsOnce
<1>10. StartedPlays'
  <2>1. use.mayStopAll
    BY DEF StopAll
  <2>2. CASE Orderly
    <3>1. \A s \in Made : pc[s] # "started"
      <4>1. stack = <<>>
        BY <2>2 DEF AppTurn, Orderly
      <4>. QED  BY <2>2, <4>1 DEF AppTurn, Orderly, Microtasks
    <3>. QED  BY <1>1, <1>2, <3>1 DEF StartedPlays
  <2>3. CASE ~Orderly
    BY <2>1, <2>3 DEF StartedPlays, Orderly
  <2>. QED  BY <2>2, <2>3
<1>11. EndsMatch'
  BY DEF EndsMatch, TellsAll, StopAll
<1>. QED  BY <1>4, <1>5, <1>6, <1>7, <1>8, <1>9, <1>10, <1>11 DEF AudioInv

-----------------------------------------------------------------------------
(* The loops of the manager. *)

\* What is on the stack when the innermost goes on.
LEMMA TopKnown ==
    ASSUME AudioInv, stack # <<>>
    PROVE  /\ Head(stack) \in Frame /\ FrameHolds(Head(stack))
           /\ Tail(stack) \in Seq(Frame) /\ Apart(Tail(stack)) /\ Len(stack) \in Nat
           /\ Len(Tail(stack)) = Len(stack) - 1 /\ stack \in Seq(Frame) /\ Apart(stack)
           /\ ToSet(stack) = {Head(stack)} \cup ToSet(Tail(stack))
           /\ \A f \in ToSet(Tail(stack)) :
                  /\ f \in Frame /\ FrameHolds(f)
                  /\ f.call # 0 => f.call # Head(stack).call
           /\ ~use.nested => Len(stack) = 1 /\ ToSet(Tail(stack)) = {}
<1>1. /\ stack \in Seq(Frame) /\ Apart(stack)
      /\ \A f \in ToSet(stack) : FrameHolds(f)
      /\ ~use.nested => Len(stack) <= 1
  BY DEF AudioInv, TypeOK, StackHolds
<1>2. /\ Head(stack) \in Frame /\ Head(stack) \in ToSet(stack)
      /\ Tail(stack) \in Seq(Frame) /\ Len(Tail(stack)) = Len(stack) - 1
      /\ ToSet(stack) = {Head(stack)} \cup ToSet(Tail(stack)) /\ Apart(Tail(stack))
      /\ Head(stack).call # 0 => \A g \in ToSet(Tail(stack)) : g.call # Head(stack).call
  BY <1>1, Popped
<1>3. \A f \in ToSet(Tail(stack)) : f \in Frame
  BY <1>2 DEF ToSet
<1>4. Len(stack) \in Nat /\ Len(stack) >= 1
  BY <1>1, HeadTailProperties
<1>5. ~use.nested => Len(stack) = 1 /\ ToSet(Tail(stack)) = {}
  <2>1. DOMAIN Tail(stack) = 1 .. Len(stack) - 1
    BY <1>2
  <2>2. ~use.nested => Len(stack) = 1
    <3>1. Len(stack) <= 1 => Len(stack) = 1
      BY <1>4
    <3>. QED  BY <1>1, <3>1
  <2>3. Len(stack) = 1 => DOMAIN Tail(stack) = {}
    BY <2>1
  <2>4. DOMAIN Tail(stack) = {} => ToSet(Tail(stack)) = {}
    BY DEF ToSet
  <2>. QED  BY <2>2, <2>3, <2>4
<1>. QED  BY <1>1, <1>2, <1>3, <1>4, <1>5

\* The key the loop comes to is one of its map, recorded before and of its kind.
LEMMA KeyKnown ==
    ASSUME AudioInv, InLoop, NextIndex # 0
    PROVE  /\ NextKey \in Made /\ NextKey \in Sounds /\ pc[NextKey] = "done"
           /\ NextKey \in Head(stack).rest
           /\ Head(stack).map \in {"music", "effect"}
           /\ calls[NextKey].kind = Head(stack).map
           /\ NextKey \in ToSet(music) \/ NextKey \in ToSet(effects)
<1>. DEFINE f == Head(stack)  m == MapOf(f.map)
<1>1. f \in Frame /\ FrameHolds(f)
  BY TopKnown DEF InLoop
<1>2. music \in Seq(Sounds) /\ effects \in Seq(Sounds) /\ m \in Seq(Sounds)
  BY DEF AudioInv, TypeOK, MapOf
<1>3. NextKey \in ToSet(m) /\ NextKey \in f.rest
  BY <1>2, NextFound DEF NextIndex, NextKey
<1>4. f.map \in {"music", "effect"}
  BY <1>1, <1>3 DEF Frame, FrameHolds
<1>5. m = IF f.map = "music" THEN music ELSE effects
  BY DEF MapOf
<1>6. NextKey \in ToSet(music) \/ NextKey \in ToSet(effects)
  BY <1>3, <1>5
<1>7. NextKey \in Made /\ pc[NextKey] = "done" /\ calls[NextKey].kind = f.map
  BY <1>3, <1>4, <1>5 DEF AudioInv, MapsHold, MapHolds
<1>8. Made \subseteq Sounds
  BY MadeKnown DEF AudioInv
<1>. QED  BY <1>3, <1>4, <1>6, <1>7, <1>8

\* The engine is told of it: where the loop stops sounds it is over.
LEMMA ToldKey ==
    ASSUME AudioInv, InLoop, NextIndex # 0, sound' = Told(Head(stack).op, NextKey)
    PROVE  /\ sound' \in [Sounds -> {"silent", "playing", "paused", "over"}]
           /\ \A s \in Sounds : /\ s # NextKey => sound'[s] = sound[s]
                                /\ sound[s] = "over" => sound'[s] = "over"
                                /\ Sounding(s)' => Sounding(s)
           /\ sound'[NextKey] # "silent"
           /\ Head(stack).op = "end" => sound'[NextKey] = "over"
           /\ Head(stack).op # "end" => (sound'[NextKey] = "over" <=> sound[NextKey] = "over")
<1>. DEFINE op == Head(stack).op
<1>1. /\ sound \in [Sounds -> {"silent", "playing", "paused", "over"}]
      /\ op \in {"end", "pause", "resume"}
  BY TopKnown DEF InLoop, AudioInv, TypeOK, Frame
<1>2. NextKey \in Sounds /\ sound[NextKey] # "silent"
  BY KeyKnown DEF AudioInv, CallStates, CallState
<1>. HIDE DEF op
<1>3. sound' = Told(op, NextKey)
  BY DEF op
<1>4. CASE op = "end"
  <2>1. sound' = StopSounds({NextKey})
    BY <1>3, <1>4 DEF Told
  <2>. QED  BY <1>1, <1>2, <1>4, <2>1 DEF StopSounds, Sounding, op
<1>5. CASE op = "pause"
  <2>1. sound' = PauseSounds({NextKey})
    BY <1>3, <1>5 DEF Told
  <2>. QED  BY <1>1, <1>2, <1>5, <2>1 DEF PauseSounds, Sounding, op
<1>6. CASE op = "resume"
  <2>1. sound' = ResumeSounds({NextKey})
    BY <1>3, <1>6 DEF Told
  <2>. QED  BY <1>1, <1>2, <1>6, <2>1 DEF ResumeSounds, Sounding, op
<1>. QED  BY <1>1, <1>4, <1>5, <1>6

\* What a loop that has told the engine leaves as it was.
LEMMA AfterTold ==
    ASSUME AudioInv, InLoop, NextIndex # 0, sound' = Told(Head(stack).op, NextKey),
           UNCHANGED <<use, calls, music, effects, bgm, ends>>,
           \A s \in Sounds : pc'[s] = pc[s] \/ (pc[s] = "stopping" /\ pc'[s] = "raised")
    PROVE  MapsHold' /\ BGMHolds' /\ CallStates' /\ SoundsAreTracked' /\ StartedPlays' /\ Keeps
<1>1. /\ sound' \in [Sounds -> {"silent", "playing", "paused", "over"}]
      /\ \A s \in Sounds : /\ s # NextKey => sound'[s] = sound[s]
                           /\ sound[s] = "over" => sound'[s] = "over"
                           /\ Sounding(s)' => Sounding(s)
      /\ sound'[NextKey] # "silent"
  BY ToldKey
<1>2. NextKey \in Sounds /\ pc[NextKey] = "done"
  BY KeyKnown
<1>3. Made' = Made /\ Made \subseteq Sounds
  BY MadeKnown DEF Made, AudioInv
<1>4. MapsHold' /\ BGMHolds'
  BY <1>3 DEF AudioInv, MapsHold, MapHolds, BGMHolds
<1>5. CallStates'
  <2>1. ASSUME NEW s \in Sounds PROVE CallState(s)'
    <3>1. CallState(s)
      BY DEF AudioInv, CallStates
    <3>2. s = NextKey => pc'[s] = "done" /\ pc[s] = "done"
      BY <1>2
    <3>. QED  BY <1>1, <1>3, <3>1, <3>2 DEF CallState
  <2>. QED  BY <1>3, <2>1 DEF AudioInv, CallStates
<1>6. SoundsAreTracked'
  <2>1. \A s \in Made : pc'[s] = "done" => pc[s] = "done"
    BY <1>3
  <2>. QED  BY <1>1, <1>3, <2>1 DEF AudioInv, SoundsAreTracked
<1>7. StartedPlays'
  <2>1. \A s \in Made : pc'[s] = "started" => pc[s] = "started" /\ s # NextKey
    BY <1>2, <1>3
  <2>. QED  BY <1>1, <1>3, <2>1 DEF AudioInv, StartedPlays, Orderly
<1>8. Keeps
  BY <1>1, <1>3 DEF Keeps
<1>. QED  BY <1>4, <1>5, <1>6, <1>7, <1>8

\* A call back is called.
LEMMA CallsBackStep ==
    ASSUME AudioInv, UNCHANGED use, CallsBack
    PROVE  AudioInv'
<1>. DEFINE f == Head(stack)
            g == [f EXCEPT !.at = IF f.op = "end" THEN "first" ELSE "last",
                           !.s = NextKey, !.rest = @ \ {NextKey}]
<1>1. /\ InLoop /\ NextIndex # 0 /\ f.at = "next" /\ stack # <<>>
      /\ sound' = Told(f.op, NextKey) /\ stack' = Replaced(g)
      /\ UNCHANGED <<use, calls, pc, music, effects, bgm, ends>>
  BY DEF CallsBack, InLoop
<1>2. MapsHold' /\ BGMHolds' /\ CallStates' /\ SoundsAreTracked' /\ StartedPlays' /\ Keeps
  <2>1. \A s \in Sounds : pc'[s] = pc[s]
    BY <1>1
  <2>. QED  BY <1>1, <2>1, AfterTold
<1>3. /\ NextKey \in Made /\ NextKey \in Sounds /\ pc[NextKey] = "done"
      /\ f.map \in {"music", "effect"} /\ calls[NextKey].kind = f.map
      /\ NextKey \in ToSet(music) \/ NextKey \in ToSet(effects)
  BY <1>1, KeyKnown
<1>4. /\ sound' \in [Sounds -> {"silent", "playing", "paused", "over"}]
      /\ \A s \in Sounds : s # NextKey => sound'[s] = sound[s]
      /\ f.op = "end" => sound'[NextKey] = "over"
      /\ f.op # "end" => (sound'[NextKey] = "over" <=> sound[NextKey] = "over")
  BY <1>1, ToldKey
<1>5. /\ f \in Frame /\ FrameHolds(f) /\ stack \in Seq(Frame) /\ Apart(stack)
      /\ ToSet(stack) = {f} \cup ToSet(Tail(stack))
      /\ \A h \in ToSet(Tail(stack)) : h \in Frame /\ FrameHolds(h)
      /\ (~use.nested => Len(stack) = 1 /\ ToSet(Tail(stack)) = {})
  BY <1>1, TopKnown
<1>6. /\ g \in Frame /\ g.call = f.call /\ g.op = f.op /\ g.map = f.map /\ g.s = NextKey
      /\ g.at = IF f.op = "end" THEN "first" ELSE "last"
  BY <1>3, <1>5 DEF Frame
<1>. HIDE DEF f, g
<1>7. /\ stack' \in Seq(Frame) /\ Len(stack') = Len(stack) /\ Apart(stack')
      /\ ToSet(stack') = {g} \cup ToSet(Tail(stack))
  BY <1>1, <1>5, <1>6, ReplacedTop DEF f
<1>8. TypeOK'
  BY <1>1, <1>4, <1>7 DEF AudioInv, TypeOK
<1>9. StackHolds'
  <2>1. ASSUME NEW h, h = g PROVE FrameHolds(h)'
    <3>1. h.s \in Made' /\ pc'[h.s] = "done" /\ calls'[h.s].kind = h.map /\ h.map # "none"
          /\ (h.op = "end" => sound'[h.s] = "over")
      BY <1>1, <1>3, <1>4, <1>6, <2>1 DEF Made
    <3>2. h.call # 0 => /\ h.call \in Made' /\ pc'[h.call] = "stopping"
                        /\ calls'[h.call].kind = "music"
                        /\ h.op = "end" /\ h.map = "music"
      BY <1>1, <1>5, <1>6, <2>1 DEF FrameHolds, Made
    <3>3. h.at = "first" => h.op = "end"
      BY <1>6, <2>1
    <3>. QED  BY <3>1, <3>2, <3>3 DEF FrameHolds
  <2>2. \A h \in ToSet(Tail(stack)) : FrameHolds(h)'
    <3>1. \A h \in ToSet(Tail(stack)) : h.call # 0 => pc'[h.call] = "stopping"
      BY <1>1, <1>5 DEF FrameHolds
    <3>. QED  BY <1>2, <1>5, <3>1, FrameKept
  <2>. QED  BY <1>1, <1>5, <1>7, <2>1, <2>2 DEF StackHolds
<1>10. TellsOnce'
  <2>1. SUFFICES ASSUME ~use.nested PROVE TellsOnce'
    BY <1>1 DEF TellsOnce
  <2>2. ToSet(stack) = {f} /\ ToSet(stack') = {g}
    BY <1>5, <1>7, <2>1
  <2>3. \A s \in ToSet(music) : ends[s] = 0
    BY <1>1, <2>1, <2>2 DEF AudioInv, TellsOnce, InOnEnd, f
  <2>4. \A s \in ToSet(effects) : ends[s] = 0
    BY <1>1, <2>1, <2>2 DEF AudioInv, TellsOnce, InOnEnd, f
  <2>5. ends[NextKey] = 0
    BY <1>3, <2>3, <2>4
  <2>. QED  BY <1>1, <1>6, <2>1, <2>2, <2>3, <2>4, <2>5 DEF AudioInv, TellsOnce
<1>11. EndsMatch'
  <2>1. SUFFICES ASSUME TellsAll, NEW s \in Made, calls[s].kind # "bgm", calls[s].options,
                        sound'[s] = "over"
                 PROVE  ends[s] > 0 \/ ToBeTold(s)'
    BY <1>1 DEF EndsMatch, TellsAll, Made
  <2>2. CASE s = NextKey /\ f.op = "end"
    BY <1>6, <1>7, <2>2 DEF ToBeTold
  <2>3. CASE s # NextKey \/ f.op # "end"
    <3>1. sound[s] = "over"
      BY <1>4, <2>1, <2>3, MadeKnown DEF AudioInv
    <3>2. ends[s] > 0 \/ ToBeTold(s)
      BY <2>1, <3>1 DEF AudioInv, EndsMatch
    <3>3. ToBeTold(s) => ToBeTold(s)'
      BY <1>1, <1>5, <1>7 DEF ToBeTold, f
    <3>. QED  BY <3>2, <3>3
  <2>. QED  BY <2>2, <2>3
<1>. QED  BY <1>2, <1>8, <1>9, <1>10, <1>11 DEF AudioInv

\* A loop raises: everything that has not returned is left.
LEMMA RaisesStep ==
    ASSUME AudioInv, UNCHANGED use, Raises
    PROVE  AudioInv'
<1>. DEFINE f == Head(stack)
<1>1. /\ InLoop /\ NextIndex # 0 /\ ~calls[NextKey].options /\ f.at = "next" /\ stack # <<>>
      /\ sound' = Told(f.op, NextKey) /\ stack' = <<>>
      /\ pc' = [s \in Sounds |-> IF pc[s] = "stopping" THEN "raised" ELSE pc[s]]
      /\ UNCHANGED <<use, calls, music, effects, bgm, ends>>
  BY DEF Raises, InLoop
<1>2. /\ \A s \in Sounds : pc'[s] = pc[s] \/ (pc[s] = "stopping" /\ pc'[s] = "raised")
      /\ pc' \in [Sounds -> {"none", "stopping", "loading", "loaded", "failed",
                           "started", "done", "raised"}]
  <2>. DEFINE P == {"none", "stopping", "loading", "loaded", "failed", "started", "done",
                    "raised"}
  <2>1. pc \in [Sounds -> P]
    BY DEF AudioInv, TypeOK
  <2>2. \A s \in Sounds : pc'[s] = IF pc[s] = "stopping" THEN "raised" ELSE pc[s]
    BY <1>1
  <2>3. \A s \in Sounds : (IF pc[s] = "stopping" THEN "raised" ELSE pc[s]) \in P
    BY <2>1
  <2>. HIDE DEF P
  <2>4. pc' \in [Sounds -> P]
    BY <1>1, <2>3
  <2>. QED  BY <2>2, <2>4 DEF P
<1>3. MapsHold' /\ BGMHolds' /\ CallStates' /\ SoundsAreTracked' /\ StartedPlays'
  BY <1>1, <1>2, AfterTold
<1>4. /\ sound' \in [Sounds -> {"silent", "playing", "paused", "over"}]
      /\ \A s \in Sounds : s # NextKey => sound'[s] = sound[s]
  BY <1>1, ToldKey
<1>5. /\ ToSet(stack) = {f} \cup ToSet(Tail(stack))
      /\ (~use.nested => ToSet(Tail(stack)) = {})
  BY <1>1, TopKnown
<1>. HIDE DEF f
<1>6. stack' \in Seq(Frame) /\ ToSet(stack') = {} /\ Apart(stack') /\ Len(stack') <= 1
  BY <1>1 DEF ToSet, Apart
<1>7. TypeOK'
  BY <1>1, <1>2, <1>4, <1>6 DEF AudioInv, TypeOK
<1>8. StackHolds'
  BY <1>6 DEF StackHolds
<1>9. TellsOnce'
  <2>1. SUFFICES ASSUME ~use.nested PROVE TellsOnce'
    BY <1>1 DEF TellsOnce
  <2>2. \A s : ~InOnEnd(s)
    BY <1>1, <1>5, <2>1 DEF InOnEnd
  <2>. QED  BY <1>1, <1>6, <2>1, <2>2 DEF AudioInv, TellsOnce
<1>10. EndsMatch'
  <2>1. SUFFICES ASSUME TellsAll, NEW s \in Made, calls[s].kind # "bgm", calls[s].options,
                        sound'[s] = "over"
                 PROVE  ends[s] > 0
    BY <1>1 DEF EndsMatch, TellsAll, Made
  <2>2. ~use.nested
    <3>1. NextKey \in Made
      BY <1>1, KeyKnown
    <3>. QED  BY <1>1, <2>1, <3>1 DEF TellsAll, AudioInv, CallStates
  <2>3. ~ToBeTold(s)
    BY <1>1, <1>5, <2>2 DEF ToBeTold
  <2>4. sound[s] = "over"
    BY <1>1, <1>4, <2>1, MadeKnown DEF AudioInv
  <2>. QED  BY <2>1, <2>3, <2>4 DEF AudioInv, EndsMatch
<1>. QED  BY <1>3, <1>7, <1>8, <1>9, <1>10 DEF AudioInv

\* A loop ends, and playMusic may play then.
LEMMA LoopEndsStep ==
    ASSUME AudioInv, UNCHANGED use, LoopEnds
    PROVE  AudioInv'
<1>. DEFINE f == Head(stack)  n == f.call  t == Tail(stack)
<1>1. /\ stack # <<>> /\ f.at = "next" /\ stack' = t
      /\ UNCHANGED <<use, calls, music, effects, bgm, ends>>
      /\ IF n = 0 THEN UNCHANGED <<pc, sound>>
         ELSE /\ pc' = [pc EXCEPT ![n] = Begun(calls[n])]
              /\ sound' = Begins(sound, n, calls[n])
  BY DEF LoopEnds, InLoop
<1>2. /\ f \in Frame /\ FrameHolds(f) /\ t \in Seq(Frame) /\ Apart(t)
      /\ Len(t) = Len(stack) - 1 /\ Len(stack) \in Nat
      /\ ToSet(stack) = {f} \cup ToSet(t)
      /\ \A h \in ToSet(t) : h \in Frame /\ FrameHolds(h) /\ (h.call # 0 => h.call # n)
      /\ ~use.nested => Len(stack) = 1 /\ ToSet(t) = {}
  BY <1>1, TopKnown
<1>. HIDE DEF f, n, t
<1>3. /\ Made' = Made /\ Made \subseteq Sounds
      /\ pc \in [Sounds -> {"none", "stopping", "loading", "loaded", "failed",
                          "started", "done", "raised"}]
      /\ sound \in [Sounds -> {"silent", "playing", "paused", "over"}]
  BY <1>1, MadeKnown DEF Made, AudioInv, TypeOK
<1>4. n # 0 => n \in Made /\ n \in Sounds /\ pc[n] = "stopping" /\ sound[n] = "silent"
               /\ ends[n] = 0
  BY <1>2, <1>3 DEF FrameHolds, AudioInv, CallStates, CallState, n
<1>5. /\ \A s \in Sounds : s # n => pc'[s] = pc[s] /\ sound'[s] = sound[s]
      /\ pc' \in [Sounds -> {"none", "stopping", "loading", "loaded", "failed",
                           "started", "done", "raised"}]
      /\ sound' \in [Sounds -> {"silent", "playing", "paused", "over"}]
      /\ n # 0 => \/ pc'[n] = "loading" /\ sound'[n] = "silent" /\ calls[n].byUrl
                  \/ pc'[n] = "started" /\ sound'[n] = "playing"
  <2>1. CASE n = 0
    BY <1>1, <1>3, <2>1
  <2>2. CASE n # 0 /\ calls[n].byUrl
    BY <1>1, <1>3, <1>4, <2>2 DEF Begun, Begins
  <2>3. CASE n # 0 /\ ~calls[n].byUrl
    BY <1>1, <1>3, <1>4, <2>3 DEF Begun, Begins
  <2>. QED  BY <2>1, <2>2, <2>3
<1>6. \A s \in Made : pc[s] = "done" => s # n /\ pc'[s] = "done" /\ sound'[s] = sound[s]
  BY <1>3, <1>4, <1>5, Constants
<1>7. TypeOK'
  BY <1>1, <1>2, <1>5 DEF AudioInv, TypeOK
<1>8. MapsHold' /\ BGMHolds'
  BY <1>1, <1>3, <1>6 DEF AudioInv, MapsHold, MapHolds, BGMHolds
<1>9. CallStates'
  <2>1. ASSUME NEW s \in Sounds PROVE CallState(s)'
    <3>1. CallState(s)
      BY DEF AudioInv, CallStates
    <3>2. CASE s = n
      BY <1>1, <1>3, <1>4, <1>5, <3>1, <3>2, Constants DEF CallState
    <3>3. CASE s # n
      BY <1>1, <1>3, <1>5, <3>1, <3>3 DEF CallState
    <3>. QED  BY <3>2, <3>3
  <2>. QED  BY <1>1, <1>3, <2>1 DEF AudioInv, CallStates
<1>10. StackHolds'
  <2>1. Keeps
    <3>1. \A s \in Made : sound[s] = "over" => sound'[s] = "over"
      BY <1>3, <1>4, <1>5, Constants
    <3>. QED  BY <1>1, <1>3, <1>6, <3>1 DEF Keeps
  <2>2. ASSUME NEW h \in ToSet(t) PROVE FrameHolds(h)'
    <3>1. h.call # 0 => pc'[h.call] = "stopping"
      BY <1>2, <1>3, <1>5 DEF FrameHolds
    <3>. QED  BY <1>2, <2>1, <3>1, FrameKept
  <2>3. ~use.nested => Len(t) <= 1
    <3>1. Len(stack) = 1 => Len(t) <= 1
      BY <1>2
    <3>. QED  BY <1>2, <3>1
  <2>. QED  BY <1>1, <1>2, <2>2, <2>3 DEF StackHolds
<1>11. SoundsAreTracked'
  <2>1. \A s \in Made : pc'[s] = "done" => pc[s] = "done"
    BY <1>3, <1>4, <1>5, Constants
  <2>. QED  BY <1>1, <1>3, <1>6, <2>1 DEF AudioInv, SoundsAreTracked, Sounding
<1>12. TellsOnce'
  <2>1. \A s : InOnEnd(s) => InOnEnd(s)'
    BY <1>1, <1>2 DEF InOnEnd
  <2>. QED  BY <1>1, <1>2, <2>1 DEF AudioInv, TellsOnce
<1>13. StartedPlays'
  <2>1. \A s \in Made : pc'[s] = "started" => (s = n /\ sound'[s] = "playing")
                                             \/ (pc[s] = "started" /\ sound'[s] = sound[s])
    BY <1>3, <1>4, <1>5, Constants
  <2>. QED  BY <1>1, <1>3, <2>1 DEF AudioInv, StartedPlays, Orderly
<1>14. EndsMatch'
  <2>1. \A s : ToBeTold(s) => ToBeTold(s)'
    BY <1>1, <1>2 DEF ToBeTold
  <2>2. \A s \in Made : sound'[s] = "over" => sound[s] = "over"
    BY <1>3, <1>4, <1>5, Constants
  <2>. QED  BY <1>1, <1>3, <2>1, <2>2 DEF AudioInv, EndsMatch, TellsAll
<1>. QED  BY <1>7, <1>8, <1>9, <1>10, <1>11, <1>12, <1>13, <1>14 DEF AudioInv

\* onEnd is called.
LEMMA FirstStep ==
    ASSUME AudioInv, UNCHANGED use, FirstReturns
    PROVE  AudioInv'
<1>. DEFINE f == Head(stack)  g == [f EXCEPT !.at = "last"]
<1>1. /\ stack # <<>> /\ f.at = "first" /\ stack' = Replaced(g)
      /\ ends' = [ends EXCEPT ![f.s] = IF @ < 2 THEN @ + 1 ELSE @]
      /\ UNCHANGED <<use, calls, pc, sound, music, effects, bgm>>
  BY DEF FirstReturns
<1>2. /\ f \in Frame /\ FrameHolds(f) /\ stack \in Seq(Frame) /\ Apart(stack)
      /\ ToSet(stack) = {f} \cup ToSet(Tail(stack))
      /\ \A h \in ToSet(Tail(stack)) : h \in Frame /\ FrameHolds(h)
      /\ ~use.nested => Len(stack) = 1 /\ ToSet(Tail(stack)) = {}
  BY <1>1, TopKnown
<1>3. /\ g \in Frame /\ g.call = f.call /\ g.op = f.op /\ g.map = f.map /\ g.s = f.s
      /\ g.at = "last" /\ g.rest = f.rest
  BY <1>2 DEF Frame
<1>. HIDE DEF f, g
<1>4. /\ stack' \in Seq(Frame) /\ Len(stack') = Len(stack) /\ Apart(stack')
      /\ ToSet(stack') = {g} \cup ToSet(Tail(stack))
  BY <1>1, <1>2, <1>3, ReplacedTop DEF f
<1>5. /\ Made' = Made /\ Made \subseteq Sounds
      /\ ends \in [Sounds -> 0 .. 2]
  BY <1>1, MadeKnown DEF Made, AudioInv, TypeOK
<1>6. /\ f.s \in Made /\ f.s \in Sounds /\ pc[f.s] = "done" /\ sound[f.s] = "over"
      /\ f.op = "end"
  BY <1>1, <1>2, <1>5 DEF FrameHolds
<1>7. /\ ends' \in [Sounds -> 0 .. 2] /\ ends'[f.s] > 0
      /\ ends[f.s] = 0 => ends'[f.s] = 1
      /\ \A s \in Sounds : s # f.s => ends'[s] = ends[s]
  BY <1>1, <1>5, <1>6
<1>8. TypeOK'
  BY <1>1, <1>4, <1>7 DEF AudioInv, TypeOK
<1>9. MapsHold' /\ BGMHolds' /\ SoundsAreTracked' /\ StartedPlays'
  BY <1>1, <1>5 DEF AudioInv, MapsHold, MapHolds, BGMHolds, SoundsAreTracked, Sounding,
     StartedPlays, Orderly
<1>10. CallStates'
  <2>1. ASSUME NEW s \in Sounds PROVE CallState(s)'
    <3>1. CallState(s)
      BY DEF AudioInv, CallStates
    <3>2. CASE s = f.s
      BY <1>1, <1>5, <1>6, <1>7, <3>1, <3>2 DEF CallState
    <3>3. CASE s # f.s
      BY <1>1, <1>5, <1>7, <3>1, <3>3 DEF CallState
    <3>. QED  BY <3>2, <3>3
  <2>. QED  BY <1>1, <1>5, <2>1 DEF AudioInv, CallStates
<1>11. StackHolds'
  <2>1. ASSUME NEW h \in ToSet(Tail(stack)) PROVE FrameHolds(h)'
    <3>1. FrameHolds(h)
      BY <1>2
    <3>. QED  BY <1>1, <1>5, <3>1 DEF FrameHolds
  <2>2. ASSUME NEW h, h = g PROVE FrameHolds(h)'
    BY <1>1, <1>2, <1>3, <1>5, <1>6, <2>2 DEF FrameHolds
  <2>3. ~use'.nested => Len(stack') <= 1
    <3>1. ~use.nested => Len(stack') = 1
      BY <1>2, <1>4
    <3>2. Len(stack') = 1 => Len(stack') <= 1
      OBVIOUS
    <3>. QED  BY <1>1, <3>1, <3>2
  <2>. QED  BY <1>4, <2>1, <2>2, <2>3 DEF StackHolds
<1>12. TellsOnce'
  <2>1. SUFFICES ASSUME ~use.nested PROVE TellsOnce'
    BY <1>1 DEF TellsOnce
  <2>2. ToSet(stack) = {f} /\ ToSet(stack') = {g}
    BY <1>2, <1>4, <2>1
  <2>3. /\ \A s \in Sounds : ends[s] <= 1
        /\ \A s \in ToSet(music) : ends[s] = 0 \/ InOnEnd(s)
        /\ \A s \in ToSet(effects) : ends[s] = 0 \/ InOnEnd(s)
        /\ ends[f.s] = 0
    BY <1>1, <2>1, <2>2 DEF AudioInv, TellsOnce
  <2>4. \A s : ~InOnEnd(s)
    BY <1>1, <2>2 DEF InOnEnd
  <2>5. \A s : s = f.s => InOnEnd(s)'
    BY <1>3, <1>6, <2>2 DEF InOnEnd
  <2>6. \A s \in Sounds : ends'[s] <= 1 /\ (s # f.s => ends'[s] = ends[s])
    <3>1. ends'[f.s] <= 1
      BY <1>7, <2>3
    <3>. QED  BY <1>7, <2>3, <3>1
  <2>7. ToSet(music) \subseteq Sounds /\ ToSet(effects) \subseteq Sounds
    BY DEF AudioInv, TypeOK, ToSet
  <2>8. /\ \A s \in ToSet(music) : ends'[s] = 0 \/ InOnEnd(s)'
        /\ \A s \in ToSet(effects) : ends'[s] = 0 \/ InOnEnd(s)'
    BY <2>3, <2>4, <2>5, <2>6, <2>7
  <2>9. \A h \in ToSet(stack') : h.at # "first"
    BY <1>3, <2>2
  <2>. QED  BY <1>1, <2>6, <2>8, <2>9 DEF TellsOnce
<1>13. EndsMatch'
  <2>1. ASSUME NEW s \in Made, ends[s] > 0 \/ ToBeTold(s)
        PROVE  ends'[s] > 0 \/ ToBeTold(s)'
    <3>1. CASE s = f.s
      BY <1>7, <3>1
    <3>2. CASE s # f.s
      <4>1. ends'[s] = ends[s]
        BY <1>5, <1>7, <3>2
      <4>2. ToBeTold(s) => ToBeTold(s)'
        BY <1>2, <1>4, <3>2 DEF ToBeTold
      <4>. QED  BY <2>1, <4>1, <4>2
    <3>. QED  BY <3>1, <3>2
  <2>. QED  BY <1>1, <1>5, <2>1 DEF AudioInv, EndsMatch, TellsAll
<1>. QED  BY <1>8, <1>9, <1>10, <1>11, <1>12, <1>13 DEF AudioInv

\* The sound that ended is deleted, or the loop goes on without.
LEMMA LastStep ==
    ASSUME AudioInv, UNCHANGED use, LastReturns
    PROVE  AudioInv'
<1>. DEFINE f == Head(stack)  g == [f EXCEPT !.at = "next"]
<1>1. /\ stack # <<>> /\ f.at = "last" /\ stack' = Replaced(g)
      /\ music' = IF f.op = "end" /\ f.map = "music" THEN Deleted(music, f.s) ELSE music
      /\ effects' = IF f.op = "end" /\ f.map = "effect" THEN Deleted(effects, f.s)
                    ELSE effects
      /\ UNCHANGED <<use, calls, pc, sound, bgm, ends>>
  BY DEF LastReturns
<1>2. /\ f \in Frame /\ FrameHolds(f) /\ stack \in Seq(Frame) /\ Apart(stack)
      /\ ToSet(stack) = {f} \cup ToSet(Tail(stack))
      /\ \A h \in ToSet(Tail(stack)) : h \in Frame /\ FrameHolds(h)
      /\ ~use.nested => Len(stack) = 1 /\ ToSet(Tail(stack)) = {}
  BY <1>1, TopKnown
<1>3. /\ g \in Frame /\ g.call = f.call /\ g.op = f.op /\ g.map = f.map /\ g.s = f.s
      /\ g.at = "next" /\ g.rest = f.rest
  BY <1>2 DEF Frame
<1>. HIDE DEF f, g
<1>4. /\ stack' \in Seq(Frame) /\ Len(stack') = Len(stack) /\ Apart(stack')
      /\ ToSet(stack') = {g} \cup ToSet(Tail(stack))
  BY <1>1, <1>2, <1>3, ReplacedTop DEF f
<1>5. /\ Made' = Made /\ Made \subseteq Sounds
      /\ music \in Seq(Sounds) /\ effects \in Seq(Sounds)
      /\ MapHolds(music, "music") /\ MapHolds(effects, "effect")
      /\ NoRepeat(music) /\ NoRepeat(effects)
  BY <1>1, MadeKnown DEF Made, AudioInv, TypeOK, MapsHold, MapHolds
<1>6. /\ f.s \in Made /\ f.s \in Sounds /\ pc[f.s] = "done"
      /\ f.op = "end" => sound[f.s] = "over"
      /\ f.map # "none" => calls[f.s].kind = f.map
      /\ f.map = "none" => f.s \notin ToSet(music) /\ f.s \notin ToSet(effects)
      /\ f.map \in {"music", "effect", "none"}
  BY <1>1, <1>2, <1>5 DEF FrameHolds, Frame
<1>7. /\ music' \in Seq(Sounds) /\ NoRepeat(music')
      /\ ToSet(music') = IF f.op = "end" /\ f.map = "music" THEN ToSet(music) \ {f.s}
                         ELSE ToSet(music)
  BY <1>1, <1>5, <1>6, DeletedKey DEF Deleted
<1>8. /\ effects' \in Seq(Sounds) /\ NoRepeat(effects')
      /\ ToSet(effects') = IF f.op = "end" /\ f.map = "effect" THEN ToSet(effects) \ {f.s}
                           ELSE ToSet(effects)
  BY <1>1, <1>5, <1>6, DeletedKey DEF Deleted
<1>9. TypeOK'
  BY <1>1, <1>4, <1>7, <1>8 DEF AudioInv, TypeOK
<1>10. MapsHold' /\ BGMHolds'
  BY <1>1, <1>5, <1>7, <1>8 DEF AudioInv, MapsHold, MapHolds, BGMHolds
<1>11. CallStates' /\ StartedPlays'
  BY <1>1, <1>5 DEF AudioInv, CallStates, CallState, StartedPlays, Orderly
<1>12. StackHolds'
  <2>1. Keeps
    BY <1>1, <1>5, <1>7, <1>8 DEF Keeps
  <2>2. ASSUME NEW h \in ToSet(Tail(stack)) PROVE FrameHolds(h)'
    <3>1. h.call # 0 => pc'[h.call] = "stopping"
      BY <1>1, <1>2 DEF FrameHolds
    <3>. QED  BY <1>2, <2>1, <3>1, FrameKept
  <2>3. ASSUME NEW h, h = g PROVE FrameHolds(h)'
    BY <1>1, <1>2, <1>3, <1>5, <2>3 DEF FrameHolds
  <2>4. ~use'.nested => Len(stack') <= 1
    <3>1. ~use.nested => Len(stack') = 1
      BY <1>2, <1>4
    <3>2. Len(stack') = 1 => Len(stack') <= 1
      OBVIOUS
    <3>. QED  BY <1>1, <3>1, <3>2
  <2>. QED  BY <1>4, <2>2, <2>3, <2>4 DEF StackHolds
<1>13. SoundsAreTracked'
  <2>1. ASSUME NEW s \in Made, Sounding(s), pc[s] = "done"
        PROVE  /\ calls[s].kind = "music" => s \in ToSet(music')
               /\ calls[s].kind = "effect" => s \in ToSet(effects')
    <3>1. /\ calls[s].kind = "music" => s \in ToSet(music)
          /\ calls[s].kind = "effect" => s \in ToSet(effects)
      BY <2>1 DEF AudioInv, SoundsAreTracked
    <3>2. f.op = "end" => s # f.s
      BY <1>6, <2>1 DEF Sounding
    <3>. QED  BY <1>7, <1>8, <3>1, <3>2
  <2>2. \A s \in Made : Sounding(s)' => Sounding(s)
    BY <1>1 DEF Sounding
  <2>. QED  BY <1>1, <1>5, <2>1, <2>2 DEF SoundsAreTracked
<1>14. TellsOnce'
  <2>1. SUFFICES ASSUME ~use.nested PROVE TellsOnce'
    BY <1>1 DEF TellsOnce
  <2>2. ToSet(stack) = {f} /\ ToSet(stack') = {g}
    BY <1>2, <1>4, <2>1
  <2>3. /\ \A s \in Sounds : ends[s] <= 1
        /\ \A s \in ToSet(music) : ends[s] = 0 \/ InOnEnd(s)
        /\ \A s \in ToSet(effects) : ends[s] = 0 \/ InOnEnd(s)
    BY <2>1 DEF AudioInv, TellsOnce
  <2>4. \A s : InOnEnd(s) => f.op = "end" /\ s = f.s
    BY <2>2 DEF InOnEnd
  <2>5. f.op = "end" => f.s \notin ToSet(music') /\ f.s \notin ToSet(effects')
    <3>1. f.s \in ToSet(music) => calls[f.s].kind = "music"
      BY <1>5 DEF MapHolds
    <3>2. f.s \in ToSet(effects) => calls[f.s].kind = "effect"
      BY <1>5 DEF MapHolds
    <3>. QED  BY <1>6, <1>7, <1>8, <3>1, <3>2
  <2>6. /\ \A s \in ToSet(music') : ends[s] = 0
        /\ \A s \in ToSet(effects') : ends[s] = 0
    BY <1>7, <1>8, <2>3, <2>4, <2>5
  <2>7. \A h \in ToSet(stack') : h.at # "first"
    BY <1>3, <2>2
  <2>. QED  BY <1>1, <2>3, <2>6, <2>7 DEF TellsOnce
<1>15. EndsMatch'
  <2>1. \A s : ToBeTold(s) => ToBeTold(s)'
    BY <1>1, <1>2, <1>4 DEF ToBeTold
  <2>. QED  BY <1>1, <1>5, <2>1 DEF AudioInv, EndsMatch, TellsAll
<1>. QED  BY <1>9, <1>10, <1>11, <1>12, <1>13, <1>14, <1>15 DEF AudioInv

-----------------------------------------------------------------------------
(* The engine and the promises: the stack is empty. *)

\* Then there is nothing on it, and what is put there is alone.
LEMMA EmptyStack ==
    ASSUME AudioInv, stack = <<>>
    PROVE  /\ ToSet(stack) = {} /\ Apart(stack)
           /\ \A s : ~InOnEnd(s) /\ ~ToBeTold(s)
<1>1. ToSet(stack) = {}
  BY DEF ToSet
<1>. QED  BY <1>1 DEF AudioInv, StackHolds, InOnEnd, ToBeTold

\* On the stack st only the end of s is to be told.
Reports(st, map, s) ==
    /\ st \in Seq(Frame) /\ Apart(st) /\ Len(st) = 1
    /\ \E f \in Frame : /\ f.at = "first" /\ f.op = "end" /\ f.map = map /\ f.s = s
                        /\ f.rest = {} /\ f.call = 0
                        /\ ToSet(st) = {f}

\* It is, when a sound has finished or failed.
LEMMA ReportingStack ==
    ASSUME NEW map \in {"music", "effect", "none"}, NEW s \in Sounds
    PROVE  Reports(Reporting(map, s), map, s)
<1>. DEFINE f == [op |-> "end", map |-> map, rest |-> {}, at |-> "first", s |-> s, call |-> 0]
<1>1. f \in Frame /\ Reporting(map, s) = <<f>>
  BY DEF Frame, Reporting
<1>2. f.at = "first" /\ f.op = "end" /\ f.map = map /\ f.s = s /\ f.rest = {} /\ f.call = 0
  OBVIOUS
<1>. HIDE DEF f
<1>3. <<f>> \in Seq(Frame) /\ Len(<<f>>) = 1 /\ ToSet(<<f>>) = {f} /\ Apart(<<f>>)
  BY <1>1 DEF ToSet, Apart
<1>. QED  BY <1>1, <1>2, <1>3 DEF Reports

\* A load that ends, and a clip that is played then, disturb no other sound.
LEMMA LoadStep ==
    ASSUME AudioInv, UNCHANGED use, NEW s \in Made, LoadEnds(s) \/ ClipPlays(s)
    PROVE  AudioInv'
<1>1. /\ Made \subseteq Sounds /\ s \in Sounds
      /\ pc \in [Sounds -> {"none", "stopping", "loading", "loaded", "failed",
                          "started", "done", "raised"}]
      /\ sound \in [Sounds -> {"silent", "playing", "paused", "over"}]
  BY MadeKnown DEF AudioInv, TypeOK
<1>2. /\ pc[s] \in {"loading", "loaded"} /\ stack = <<>>
      /\ \/ pc'[s] \in {"loaded", "failed"} /\ sound'[s] = "silent"
         \/ pc'[s] = "started" /\ sound'[s] = "playing"
      /\ \A t \in Sounds : t # s => pc'[t] = pc[t] /\ sound'[t] = sound[t]
      /\ pc' \in [Sounds -> {"none", "stopping", "loading", "loaded", "failed",
                           "started", "done", "raised"}]
      /\ sound' \in [Sounds -> {"silent", "playing", "paused", "over"}]
      /\ UNCHANGED <<use, calls, music, effects, bgm, stack, ends>>
  <2>1. CASE LoadEnds(s)
    <3>1. sound[s] = "silent"
      BY <1>1, <2>1 DEF AudioInv, CallStates, CallState, LoadEnds
    <3>. QED  BY <1>1, <2>1, <3>1 DEF LoadEnds
  <2>2. CASE ClipPlays(s)
    BY <1>1, <2>2 DEF ClipPlays
  <2>. QED  BY <2>1, <2>2
<1>3. Made' = Made
  BY <1>2 DEF Made
<1>4. TypeOK'
  BY <1>2 DEF AudioInv, TypeOK
<1>5. MapsHold' /\ BGMHolds'
  <2>1. \A t \in Made : pc[t] = "done" => pc'[t] = "done"
    BY <1>1, <1>2
  <2>. QED  BY <1>2, <1>3, <2>1 DEF AudioInv, MapsHold, MapHolds, BGMHolds
<1>6. CallStates'
  <2>1. ASSUME NEW t \in Sounds PROVE CallState(t)'
    <3>1. CallState(t)
      BY DEF AudioInv, CallStates
    <3>2. CASE t = s
      BY <1>1, <1>2, <1>3, <3>1, <3>2 DEF CallState
    <3>3. CASE t # s
      BY <1>2, <1>3, <3>1, <3>3 DEF CallState
    <3>. QED  BY <3>2, <3>3
  <2>. QED  BY <1>2, <1>3, <2>1 DEF AudioInv, CallStates
<1>7. StackHolds'
  BY <1>2, EmptyStack DEF AudioInv, StackHolds
<1>8. SoundsAreTracked'
  <2>1. \A t \in Made : pc'[t] = "done" => pc[t] = "done" /\ sound'[t] = sound[t]
    BY <1>1, <1>2
  <2>. QED  BY <1>2, <1>3, <2>1 DEF AudioInv, SoundsAreTracked, Sounding
<1>9. TellsOnce'
  BY <1>2, EmptyStack DEF AudioInv, TellsOnce
<1>10. StartedPlays'
  <2>1. \A t \in Made : pc'[t] = "started" =>
            (sound'[t] = "playing" \/ (pc[t] = "started" /\ sound'[t] = sound[t]))
    BY <1>1, <1>2
  <2>. QED  BY <1>2, <1>3, <2>1 DEF AudioInv, StartedPlays, Orderly
<1>11. EndsMatch'
  <2>1. \A t \in Made : sound'[t] = "over" => sound[t] = "over"
    BY <1>1, <1>2
  <2>. QED  BY <1>2, <1>3, <2>1, EmptyStack DEF AudioInv, EndsMatch, TellsAll
<1>. QED  BY <1>4, <1>5, <1>6, <1>7, <1>8, <1>9, <1>10, <1>11 DEF AudioInv

\* A sound whose load failed is over and is to be told of it.
LEMMA FailureStep ==
    ASSUME AudioInv, UNCHANGED use, NEW s \in Made, ReportsFailure(s)
    PROVE  AudioInv'
<1>1. /\ Made \subseteq Sounds /\ s \in Sounds
      /\ pc \in [Sounds -> {"none", "stopping", "loading", "loaded", "failed",
                          "started", "done", "raised"}]
      /\ sound \in [Sounds -> {"silent", "playing", "paused", "over"}]
  BY MadeKnown DEF AudioInv, TypeOK
<1>2. /\ pc[s] = "failed" /\ pc'[s] = "done" /\ sound'[s] = "over" /\ stack = <<>>
      /\ \A t \in Sounds : t # s => pc'[t] = pc[t] /\ sound'[t] = sound[t]
      /\ pc' \in [Sounds -> {"none", "stopping", "loading", "loaded", "failed",
                           "started", "done", "raised"}]
      /\ sound' \in [Sounds -> {"silent", "playing", "paused", "over"}]
      /\ UNCHANGED <<use, calls, music, effects, bgm, ends>>
  BY <1>1 DEF ReportsFailure
<1>3. ends[s] = 0 /\ s \notin ToSet(music) /\ s \notin ToSet(effects)
  BY <1>1, <1>2 DEF AudioInv, CallStates, CallState, MapsHold, MapHolds
<1>4. Made' = Made
  BY <1>2 DEF Made
<1>5. /\ stack' \in Seq(Frame) /\ Apart(stack') /\ Len(stack') <= 1
      /\ \A f \in ToSet(stack') :
             f.at = "first" /\ f.op = "end" /\ f.map = "none" /\ f.s = s /\ f.rest = {}
             /\ f.call = 0
      /\ calls[s].kind # "bgm" /\ calls[s].options => ToBeTold(s)'
  <2>1. CASE calls[s].kind # "bgm" /\ calls[s].options
    <3>1. stack' = Reporting("none", s)
      BY <2>1 DEF ReportsFailure
    <3>2. Reports(stack', "none", s)
      BY <1>1, <3>1, ReportingStack
    <3>3. PICK f \in Frame : /\ f.at = "first" /\ f.op = "end" /\ f.map = "none" /\ f.s = s
                             /\ f.rest = {} /\ f.call = 0
                             /\ ToSet(stack') = {f}
      BY <3>2 DEF Reports
    <3>4. stack' \in Seq(Frame) /\ Apart(stack') /\ Len(stack') <= 1
      <4>1. Len(stack') = 1 => Len(stack') <= 1
        OBVIOUS
      <4>. QED  BY <3>2, <4>1 DEF Reports
    <3>. QED  BY <3>3, <3>4 DEF ToBeTold
  <2>2. CASE ~(calls[s].kind # "bgm" /\ calls[s].options)
    <3>1. stack' = stack /\ Len(stack) = 0
      BY <1>2, <2>2 DEF ReportsFailure
    <3>. QED  BY <1>2, <2>2, <3>1, EmptyStack DEF AudioInv, TypeOK
  <2>. QED  BY <2>1, <2>2
<1>6. TypeOK'
  BY <1>2, <1>5 DEF AudioInv, TypeOK
<1>7. MapsHold' /\ BGMHolds'
  <2>1. \A t \in Made : pc[t] = "done" => pc'[t] = "done"
    BY <1>1, <1>2
  <2>. QED  BY <1>2, <1>4, <2>1 DEF AudioInv, MapsHold, MapHolds, BGMHolds
<1>8. CallStates'
  <2>1. ASSUME NEW t \in Sounds PROVE CallState(t)'
    <3>1. CallState(t)
      BY DEF AudioInv, CallStates
    <3>2. CASE t = s
      BY <1>2, <1>3, <1>4, <3>1, <3>2 DEF CallState
    <3>3. CASE t # s
      BY <1>2, <1>4, <3>1, <3>3 DEF CallState
    <3>. QED  BY <3>2, <3>3
  <2>. QED  BY <1>2, <1>4, <2>1 DEF AudioInv, CallStates
<1>9. StackHolds'
  <2>1. \A f \in ToSet(stack') : FrameHolds(f)'
    BY <1>2, <1>3, <1>4, <1>5 DEF FrameHolds
  <2>. QED  BY <1>5, <2>1 DEF StackHolds
<1>10. SoundsAreTracked'
  <2>1. \A t \in Made : Sounding(t)' => t # s /\ Sounding(t) /\ pc'[t] = pc[t]
    BY <1>1, <1>2 DEF Sounding
  <2>. QED  BY <1>2, <1>4, <2>1 DEF AudioInv, SoundsAreTracked
<1>11. TellsOnce'
  <2>1. SUFFICES ASSUME ~use.nested PROVE TellsOnce'
    BY <1>2 DEF TellsOnce
  <2>2. /\ \A t \in Sounds : ends[t] <= 1
        /\ \A t \in ToSet(music) : ends[t] = 0
        /\ \A t \in ToSet(effects) : ends[t] = 0
    BY <1>2, <2>1, EmptyStack DEF AudioInv, TellsOnce
  <2>. QED  BY <1>2, <1>3, <1>5, <2>2 DEF TellsOnce
<1>12. StartedPlays'
  <2>1. \A t \in Made : pc'[t] = "started" => pc[t] = "started" /\ sound'[t] = sound[t]
    BY <1>1, <1>2
  <2>. QED  BY <1>2, <1>4, <2>1 DEF AudioInv, StartedPlays, Orderly
<1>13. EndsMatch'
  <2>1. \A t \in Made : t # s => (sound'[t] = "over" => sound[t] = "over")
    BY <1>1, <1>2
  <2>2. \A t : ~ToBeTold(t)
    BY <1>2, EmptyStack
  <2>. QED  BY <1>2, <1>4, <1>5, <2>1, <2>2 DEF AudioInv, EndsMatch, TellsAll
<1>. QED  BY <1>6, <1>7, <1>8, <1>9, <1>10, <1>11, <1>12, <1>13 DEF AudioInv

\* The promise of a sound that plays records it in the map of its kind, where it was
\* not before.
LEMMA RecordStep ==
    ASSUME AudioInv, UNCHANGED use, NEW s \in Made, Records(s)
    PROVE  AudioInv'
<1>. DEFINE k == calls[s].kind
<1>1. /\ Made \subseteq Sounds /\ Made' = Made /\ s \in Sounds
      /\ pc \in [Sounds -> {"none", "stopping", "loading", "loaded", "failed",
                          "started", "done", "raised"}]
      /\ music \in Seq(Sounds) /\ effects \in Seq(Sounds)
      /\ MapHolds(music, "music") /\ MapHolds(effects, "effect") /\ BGMHolds
      /\ k \in {"music", "effect", "bgm"}
  BY MadeKnown DEF AudioInv, Records, Made, TypeOK, Call, Kinds, MapsHold
<1>2. pc[s] = "started" /\ ends[s] = 0 /\ sound[s] \in {"playing", "over"} /\ stack = <<>>
  BY <1>1 DEF AudioInv, CallStates, CallState, Records
<1>3. /\ pc'[s] = "done" /\ \A t \in Sounds : t # s => pc'[t] = pc[t]
      /\ pc' \in [Sounds -> {"none", "stopping", "loading", "loaded", "failed",
                           "started", "done", "raised"}]
      /\ music' = IF k = "music" THEN Recorded(music, s) ELSE music
      /\ effects' = IF k = "effect" THEN Recorded(effects, s) ELSE effects
      /\ bgm' = IF k = "bgm" THEN s ELSE bgm
      /\ UNCHANGED <<use, calls, sound, stack, ends>>
  BY <1>1 DEF Records
<1>4. s \notin ToSet(music) /\ s \notin ToSet(effects)
  BY <1>1, <1>2 DEF MapHolds
<1>5. /\ Recorded(music, s) \in Seq(Sounds) /\ NoRepeat(Recorded(music, s))
      /\ ToSet(Recorded(music, s)) = ToSet(music) \cup {s}
  BY <1>1, <1>4, RecordedLast DEF MapHolds
<1>6. /\ Recorded(effects, s) \in Seq(Sounds) /\ NoRepeat(Recorded(effects, s))
      /\ ToSet(Recorded(effects, s)) = ToSet(effects) \cup {s}
  BY <1>1, <1>4, RecordedLast DEF MapHolds
<1>7. /\ music' \in Seq(Sounds) /\ NoRepeat(music')
      /\ ToSet(music') = ToSet(music) \cup (IF k = "music" THEN {s} ELSE {})
      /\ effects' \in Seq(Sounds) /\ NoRepeat(effects')
      /\ ToSet(effects') = ToSet(effects) \cup (IF k = "effect" THEN {s} ELSE {})
  BY <1>1, <1>3, <1>5, <1>6 DEF MapHolds
<1>. HIDE DEF k
<1>8. TypeOK'
  BY <1>1, <1>3, <1>7 DEF AudioInv, TypeOK
<1>9. MapsHold'
  BY <1>1, <1>2, <1>3, <1>7 DEF MapsHold, MapHolds, k
<1>10. BGMHolds'
  BY <1>1, <1>3 DEF BGMHolds, k
<1>11. CallStates'
  <2>1. ASSUME NEW t \in Sounds PROVE CallState(t)'
    <3>1. CallState(t)
      BY DEF AudioInv, CallStates
    <3>2. CASE t = s
      BY <1>1, <1>2, <1>3, <3>1, <3>2 DEF CallState
    <3>3. CASE t # s
      BY <1>1, <1>3, <3>1, <3>3 DEF CallState
    <3>. QED  BY <3>2, <3>3
  <2>. QED  BY <1>1, <1>3, <2>1 DEF AudioInv, CallStates
<1>12. StackHolds'
  BY <1>2, <1>3, EmptyStack DEF AudioInv, StackHolds
<1>13. SoundsAreTracked'
  BY <1>1, <1>3, <1>7 DEF AudioInv, SoundsAreTracked, Sounding, k
<1>14. TellsOnce'
  <2>1. SUFFICES ASSUME ~use.nested PROVE TellsOnce'
    BY <1>3 DEF TellsOnce
  <2>2. /\ \A t \in Sounds : ends[t] <= 1
        /\ \A t \in ToSet(music) : ends[t] = 0
        /\ \A t \in ToSet(effects) : ends[t] = 0
        /\ ToSet(stack) = {}
    BY <1>2, <2>1, EmptyStack DEF AudioInv, TellsOnce
  <2>3. /\ \A t \in ToSet(music') : ends[t] = 0
        /\ \A t \in ToSet(effects') : ends[t] = 0
    BY <1>2, <1>7, <2>2
  <2>. QED  BY <1>3, <2>2, <2>3 DEF TellsOnce
<1>15. StartedPlays'
  BY <1>1, <1>3 DEF AudioInv, StartedPlays, Orderly
<1>16. EndsMatch'
  BY <1>1, <1>3 DEF AudioInv, EndsMatch, TellsAll, ToBeTold
<1>. QED  BY <1>8, <1>9, <1>10, <1>11, <1>12, <1>13, <1>14, <1>15, <1>16 DEF AudioInv


\* A sound that finishes was recorded; what has no call backs is deleted at once.
LEMMA FinishStep ==
    ASSUME AudioInv, UNCHANGED use, NEW s \in Made, SoundFinishes(s)
    PROVE  AudioInv'
<1>1. /\ Made \subseteq Sounds /\ Made' = Made /\ s \in Sounds
      /\ sound \in [Sounds -> {"silent", "playing", "paused", "over"}]
      /\ music \in Seq(Sounds) /\ effects \in Seq(Sounds)
      /\ MapHolds(music, "music") /\ MapHolds(effects, "effect") /\ BGMHolds
      /\ calls[s].kind \in {"music", "effect"}
  BY MadeKnown DEF AudioInv, SoundFinishes, Made, TypeOK, Call, Kinds, MapsHold
<1>2. /\ pc[s] = "done" /\ sound[s] = "playing" /\ sound'[s] = "over" /\ stack = <<>>
      /\ \A t \in Sounds : t # s => sound'[t] = sound[t]
      /\ sound' \in [Sounds -> {"silent", "playing", "paused", "over"}]
      /\ UNCHANGED <<use, calls, pc, bgm, ends>>
  BY <1>1 DEF SoundFinishes
<1>3. ends[s] = 0 /\ (s \in ToSet(music) \/ s \in ToSet(effects))
  <2>1. s \in ToSet(music) \/ s \in ToSet(effects)
    BY <1>1, <1>2 DEF AudioInv, SoundsAreTracked, Sounding
  <2>2. ends[s] \in 0 .. 2 /\ ~(ends[s] > 0)
    BY <1>1, <1>2 DEF AudioInv, TypeOK, CallStates, CallState
  <2>. QED  BY <2>1, <2>2
<1>4. /\ stack' \in Seq(Frame) /\ Apart(stack') /\ Len(stack') <= 1
      /\ \A f \in ToSet(stack') :
             f.at = "first" /\ f.op = "end" /\ f.map = calls[s].kind /\ f.s = s /\ f.rest = {}
             /\ f.call = 0
      /\ calls[s].options => ToBeTold(s)'
      /\ calls[s].options => UNCHANGED <<music, effects>>
  <2>1. CASE calls[s].options
    <3>1. stack' = Reporting(calls[s].kind, s) /\ UNCHANGED <<music, effects>>
      BY <2>1 DEF SoundFinishes
    <3>2. Reports(stack', calls[s].kind, s)
      BY <1>1, <3>1, ReportingStack
    <3>3. PICK f \in Frame : /\ f.at = "first" /\ f.op = "end" /\ f.map = calls[s].kind
                             /\ f.s = s /\ f.rest = {} /\ f.call = 0
                             /\ ToSet(stack') = {f}
      BY <3>2 DEF Reports
    <3>4. stack' \in Seq(Frame) /\ Apart(stack') /\ Len(stack') <= 1
      <4>1. Len(stack') = 1 => Len(stack') <= 1
        OBVIOUS
      <4>. QED  BY <3>2, <4>1 DEF Reports
    <3>. QED  BY <3>1, <3>3, <3>4 DEF ToBeTold
  <2>2. CASE ~calls[s].options
    <3>1. stack' = stack /\ Len(stack) = 0
      BY <1>2, <2>2 DEF SoundFinishes
    <3>. QED  BY <1>2, <2>2, <3>1, EmptyStack DEF AudioInv, TypeOK
  <2>. QED  BY <2>1, <2>2
<1>5. /\ music' \in Seq(Sounds) /\ NoRepeat(music')
      /\ effects' \in Seq(Sounds) /\ NoRepeat(effects')
      /\ ToSet(music') \subseteq ToSet(music) /\ ToSet(music) \subseteq ToSet(music') \cup {s}
      /\ ToSet(effects') \subseteq ToSet(effects)
      /\ ToSet(effects) \subseteq ToSet(effects') \cup {s}
  <2>1. CASE calls[s].options
    BY <1>1, <1>4, <2>1 DEF MapHolds
  <2>2. CASE ~calls[s].options
    <3>1. music' = RemoveFirst(music, s) /\ effects' = RemoveFirst(effects, s)
      BY <2>2 DEF SoundFinishes, Deleted
    <3>2. /\ music' \in Seq(Sounds) /\ NoRepeat(music')
          /\ ToSet(music') = ToSet(music) \ {s}
      BY <1>1, <3>1, DeletedKey DEF MapHolds
    <3>3. /\ effects' \in Seq(Sounds) /\ NoRepeat(effects')
          /\ ToSet(effects') = ToSet(effects) \ {s}
      BY <1>1, <3>1, DeletedKey DEF MapHolds
    <3>. QED  BY <3>2, <3>3
  <2>. QED  BY <2>1, <2>2
<1>6. TypeOK'
  BY <1>2, <1>4, <1>5 DEF AudioInv, TypeOK
<1>7. MapsHold' /\ BGMHolds'
  BY <1>1, <1>2, <1>5 DEF MapsHold, MapHolds, BGMHolds
<1>8. CallStates'
  <2>1. ASSUME NEW t \in Sounds PROVE CallState(t)'
    <3>1. CallState(t)
      BY DEF AudioInv, CallStates
    <3>2. CASE t = s
      BY <1>1, <1>2, <1>3, <3>1, <3>2 DEF CallState
    <3>3. CASE t # s
      BY <1>1, <1>2, <3>1, <3>3 DEF CallState
    <3>. QED  BY <3>2, <3>3
  <2>. QED  BY <1>1, <1>2, <2>1 DEF AudioInv, CallStates
<1>9. StackHolds'
  <2>1. \A f \in ToSet(stack') : FrameHolds(f)'
    BY <1>1, <1>2, <1>4 DEF FrameHolds
  <2>. QED  BY <1>4, <2>1 DEF StackHolds
<1>10. SoundsAreTracked'
  <2>1. \A t \in Made : Sounding(t)' => t # s /\ Sounding(t)
    BY <1>1, <1>2 DEF Sounding
  <2>. QED  BY <1>1, <1>2, <1>5, <2>1 DEF AudioInv, SoundsAreTracked
<1>11. TellsOnce'
  <2>1. SUFFICES ASSUME ~use.nested PROVE TellsOnce'
    BY <1>2 DEF TellsOnce
  <2>2. /\ \A t \in Sounds : ends[t] <= 1
        /\ \A t \in ToSet(music) : ends[t] = 0
        /\ \A t \in ToSet(effects) : ends[t] = 0
    BY <1>2, <2>1, EmptyStack DEF AudioInv, TellsOnce
  <2>. QED  BY <1>2, <1>3, <1>4, <1>5, <2>2 DEF TellsOnce
<1>12. StartedPlays'
  BY <1>1, <1>2 DEF AudioInv, StartedPlays, Orderly
<1>13. EndsMatch'
  <2>1. \A t \in Made : t # s => (sound'[t] = "over" => sound[t] = "over")
    BY <1>1, <1>2
  <2>2. \A t : ~ToBeTold(t)
    BY <1>2, EmptyStack
  <2>. QED  BY <1>1, <1>2, <1>4, <2>1, <2>2 DEF AudioInv, EndsMatch, TellsAll
<1>. QED  BY <1>6, <1>7, <1>8, <1>9, <1>10, <1>11, <1>12, <1>13 DEF AudioInv

-----------------------------------------------------------------------------
(* Every step keeps the invariant. *)

LEMMA AudioStep == AudioInv /\ [Next]_vars => AudioInv'
<1>. SUFFICES ASSUME AudioInv, [Next]_vars PROVE AudioInv'
  OBVIOUS
<1>1. CASE UNCHANGED vars
  <2>1. Hushed(sound)
    BY BGMHushed
  <2>2. Hushed(sound')
    BY <1>1, <2>1 DEF vars
  <2>. QED  BY <1>1, <2>2, AfterHush DEF vars
<1>2. ASSUME NEW c \in use.calls, UNCHANGED use, AppTurn,
             PlayMusic(c) \/ PlayEffect(c) \/ PlayBGM(c)
      PROVE  AudioInv'
  BY <1>2, PlayStep
<1>3. ASSUME UNCHANGED use, AppTurn,
             PauseAllMusic \/ ResumeAllMusic \/ StopAllMusic \/ StopAllEffects
      PROVE  AudioInv'
  BY <1>3, EnterStep
<1>4. ASSUME UNCHANGED use, AppTurn, PauseBGM \/ ResumeBGM \/ StopBGM
      PROVE  AudioInv'
  BY <1>4, BGMStep
<1>5. ASSUME UNCHANGED use, AppTurn, StopAll
      PROVE  AudioInv'
  BY <1>5, StopAllStep
<1>6. ASSUME UNCHANGED use,
             CallsBack \/ Raises \/ LoopEnds \/ FirstReturns \/ LastReturns
      PROVE  AudioInv'
  BY <1>6, CallsBackStep, RaisesStep, LoopEndsStep, FirstStep, LastStep
<1>7. ASSUME NEW s \in Made, UNCHANGED use,
             \/ LoadEnds(s) \/ ClipPlays(s) \/ Records(s)
             \/ ReportsFailure(s) \/ SoundFinishes(s)
      PROVE  AudioInv'
  BY <1>7, LoadStep, RecordStep, FailureStep, FinishStep
<1>. QED  BY <1>1, <1>2, <1>3, <1>4, <1>5, <1>6, <1>7 DEF Next

\* The invariant holds in every use of the manager: a map holds sounds of its kind
\* that were recorded, once each, and, where no call back calls the manager, not
\* told of their end but for the one whose onEnd runs.
THEOREM AudioInvariant == Spec => []AudioInv
<1>. QED  BY AudioInit, AudioStep, PTL DEF Spec

\* In every use a music or an effect that sounds can still be stopped from the
\* moment its promise has gone on: stopAllMusic and stopAllEffects find it.
THEOREM SoundsAlwaysTracked == Spec => []SoundsAreTracked
<1>1. AudioInv => SoundsAreTracked
  BY DEF AudioInv
<1>. QED  BY <1>1, AudioInvariant, PTL

\* In every use onEnd is called for no sound before it is over; at most once, unless
\* call backs call the manager; and, where a use that calls in turns of its own
\* leaves stopAll alone, for every sound that is over.
THEOREM EndsAlwaysReported ==
    ASSUME \A u \in Uses : u.settled => ~u.mayStopAll
    PROVE  Spec => []EndIsReported
<1>1. AudioInv => EndIsReported
  <2>1. SUFFICES ASSUME AudioInv PROVE EndIsReported
    OBVIOUS
  <2>2. Made \subseteq Sounds /\ (use.settled => ~use.mayStopAll)
    BY <2>1, MadeKnown DEF AudioInv, TypeOK
  <2>3. \A s \in Made : ends[s] > 0 => sound[s] = "over"
    BY <2>1, <2>2 DEF AudioInv, CallStates, CallState
  <2>4. EveryEndIsTold
    <3>1. stack = <<>> => \A s : ~ToBeTold(s)
      BY <2>1, EmptyStack
    <3>. QED  BY <2>1, <2>2, <3>1 DEF AudioInv, EndsMatch, TellsAll, EveryEndIsTold
  <2>5. ~use.nested => EndsOnce
    BY <2>1, <2>2 DEF AudioInv, TellsOnce, EndsOnce
  <2>. QED  BY <2>3, <2>4, <2>5 DEF EndIsReported
<1>. QED  BY <1>1, AudioInvariant, PTL

-----------------------------------------------------------------------------
(* One music and one background music, given as clips, in turns of their own. *)

\* No step lets a sound sound that was not sounding, but the ones that play it: its
\* clip has loaded, or the loop of its call has stopped the other music.
LEMMA SoundsStayOver ==
    ASSUME AudioInv, [Next]_vars, NEW s \in Made
    PROVE  /\ s \in Made' /\ calls'[s] = calls[s]
           /\ Sounding(s)' => \/ Sounding(s) \/ pc[s] = "loaded"
                              \/ LoopEnds /\ s = Head(stack).call
<1>1. s \in Sounds /\ Made \subseteq Sounds /\ Len(calls) + 1 \notin Made
      /\ TypeOK /\ sound \in [Sounds -> {"silent", "playing", "paused", "over"}]
  <2>1. TypeOK
    BY DEF AudioInv
  <2>2. Made \subseteq Sounds /\ Len(calls) \in Nat
    BY <2>1, MadeKnown
  <2>3. Len(calls) + 1 \notin Made
    BY <2>2 DEF Made
  <2>. QED  BY <2>1, <2>2, <2>3 DEF TypeOK
<1>2. ASSUME NEW S PROVE StopSounds(S)[s] \in {"playing", "paused"} => Sounding(s)
  BY <1>1 DEF StopSounds, Sounding
<1>3. CASE UNCHANGED vars
  BY <1>3 DEF vars, Made, Sounding
<1>4. ASSUME NEW c \in use.calls, PlayMusic(c) \/ PlayEffect(c) \/ PlayBGM(c)
      PROVE  /\ s \in Made' /\ calls'[s] = calls[s]
             /\ Sounding(s)' => Sounding(s)
  <2>1. Len(calls) < use.most /\ calls' = Append(calls, c)
    BY <1>4 DEF PlayMusic, PlayEffect, PlayBGM, Plays, Called
  <2>2. s \in Made' /\ calls'[s] = calls[s]
    BY <1>1, <2>1, CallMade
  <2>3. s # Len(calls) + 1
    BY <1>1
  <2>4. sound'[s] = sound[s] \/ sound'[s] = StopSounds({bgm})[s]
    <3>1. CASE PlayMusic(c)
      <4>1. UNCHANGED sound \/ Plays(c, sound)
        BY <3>1 DEF PlayMusic
      <4>. QED  BY <4>1, <2>3, <1>1 DEF Plays, Begins
    <3>2. CASE PlayEffect(c)
      BY <3>2, <2>3, <1>1 DEF PlayEffect, Plays, Begins
    <3>3. CASE PlayBGM(c)
      BY <3>3, <2>3, <1>1 DEF PlayBGM, Plays, Begins, StopSounds
    <3>. QED  BY <1>4, <3>1, <3>2, <3>3
  <2>. QED  BY <2>2, <2>4, <1>2 DEF Sounding
<1>5. CASE PauseAllMusic \/ ResumeAllMusic \/ StopAllMusic \/ StopAllEffects
           \/ FirstReturns \/ LastReturns
  BY <1>5 DEF PauseAllMusic, ResumeAllMusic, StopAllMusic, StopAllEffects, FirstReturns,
     LastReturns, Sounding, Made
<1>6. CASE PauseBGM \/ ResumeBGM
  BY <1>6, <1>1 DEF PauseBGM, ResumeBGM, PauseSounds, ResumeSounds, Sounding, Made
<1>7. CASE StopBGM \/ StopAll
  BY <1>7, <1>2 DEF StopBGM, StopAll, Sounding, Made
<1>8. CASE CallsBack \/ Raises
  <2>1. /\ InLoop /\ NextIndex # 0 /\ sound' = Told(Head(stack).op, NextKey)
        /\ UNCHANGED calls
    BY <1>8 DEF CallsBack, Raises
  <2>2. Sounding(s)' => Sounding(s)
    BY <1>1, <2>1, ToldKey
  <2>. QED  BY <2>1, <2>2 DEF Made
<1>9. CASE LoopEnds
  BY <1>1, <1>9 DEF LoopEnds, Begins, Sounding, Made
<1>10. ASSUME NEW t \in Made,
              \/ LoadEnds(t) \/ ClipPlays(t) \/ Records(t)
              \/ ReportsFailure(t) \/ SoundFinishes(t)
       PROVE  /\ s \in Made' /\ calls'[s] = calls[s]
              /\ Sounding(s)' => Sounding(s) \/ pc[s] = "loaded"
  BY <1>10, <1>1 DEF LoadEnds, ClipPlays, Records, ReportsFailure, SoundFinishes, Sounding,
     Made
<1>. QED  BY <1>3, <1>4, <1>5, <1>6, <1>7, <1>8, <1>9, <1>10 DEF Next

\* A sound that was not there before was asked for in this step.
LEMMA SoundIsNew ==
    ASSUME AudioInv, [Next]_vars, NEW s \in Made', s \notin Made
    PROVE  /\ s = Len(calls) + 1 /\ s \in Sounds /\ AppTurn
           /\ \E c \in use.calls : /\ calls'[s] = c
                                   /\ PlayMusic(c) \/ PlayEffect(c) \/ PlayBGM(c)
<1>1. \/ UNCHANGED calls
      \/ AppTurn /\ \E c \in use.calls : PlayMusic(c) \/ PlayEffect(c) \/ PlayBGM(c)
  BY DEF Next, vars, PauseAllMusic, ResumeAllMusic, StopAllMusic, StopAllEffects,
         PauseBGM, ResumeBGM, StopBGM, StopAll, CallsBack, Raises, LoopEnds, FirstReturns,
         LastReturns, LoadEnds, ClipPlays, Records, ReportsFailure, SoundFinishes
<1>2. ~UNCHANGED calls
  BY DEF Made
<1>3. PICK c \in use.calls : AppTurn /\ (PlayMusic(c) \/ PlayEffect(c) \/ PlayBGM(c))
  BY <1>1, <1>2
<1>4. Len(calls) < use.most /\ calls' = Append(calls, c)
  BY <1>3 DEF PlayMusic, PlayEffect, PlayBGM, Plays, Called
<1>5. /\ Made' = Made \cup {Len(calls) + 1} /\ calls'[Len(calls) + 1] = c
      /\ Len(calls) + 1 \in Sounds
  BY <1>4, CallMade DEF AudioInv
<1>. QED  BY <1>3, <1>5

\* When the application calls in a turn of its own, every sound that sounds was
\* recorded.
LEMMA SettledTurn ==
    ASSUME AudioInv, AppTurn, Orderly, NEW s \in Made, Sounding(s)
    PROVE  stack = <<>> /\ pc[s] = "done"
<1>1. s \in Sounds /\ pc[s] \in {"none", "stopping", "loading", "loaded", "failed",
                                 "started", "done", "raised"}
  BY MadeKnown DEF AudioInv, TypeOK
<1>2. stack = <<>> /\ pc[s] \notin {"loaded", "failed", "started"}
  BY DEF AppTurn, Microtasks, Orderly
<1>3. pc[s] \notin {"none", "stopping", "loading", "raised"}
  BY <1>1 DEF AudioInv, CallStates, CallState, Sounding
<1>. QED  BY <1>1, <1>2, <1>3

\* Music given as a clip is never between the end of a load and its record.
LEMMA ClipsDoNotLoad ==
    ASSUME AudioInv, NEW s \in Made, ~calls[s].byUrl
    PROVE  pc[s] # "loaded"
BY MadeKnown DEF AudioInv, CallStates, CallState

\* What uses that call in turns of their own give as clips: the sounds of kind k.
ClipsOnly(k) == \A u \in Uses : u.settled => \A c \in u.calls : c.kind = k => ~c.byUrl

\* While a call stops the other music, what still sounds are keys that its loop is
\* to come to.
MusicIsAwaited ==
    Orderly => \A f \in ToSet(stack) : f.call # 0 =>
        \A r \in OfKind("music") : Sounding(r) => pc[r] = "done" /\ r \in f.rest

\* Its loop begins with every key, and what it comes to it stops.
LEMMA MusicAwaitedStep ==
    ASSUME AudioInv, MusicIsAwaited, [Next]_vars
    PROVE  MusicIsAwaited'
<1>. SUFFICES ASSUME Orderly', NEW f \in ToSet(stack'), f.call # 0,
                     NEW r \in Made', calls'[r].kind = "music", Sounding(r)'
              PROVE  pc'[r] = "done" /\ r \in f.rest
  BY DEF MusicIsAwaited, OfKind
<1>1. use' = use /\ Orderly /\ ~use.nested
  BY DEF Next, vars, Orderly
<1>2. stack # <<>> => /\ stack \in Seq(Frame) /\ Apart(stack)
                      /\ Head(stack) \in Frame /\ FrameHolds(Head(stack))
                      /\ ToSet(stack) = {Head(stack)} /\ ToSet(Tail(stack)) = {}
  BY <1>1, TopKnown
<1>3. CASE UNCHANGED <<calls, pc, sound, stack>>
  BY <1>1, <1>3 DEF MusicIsAwaited, OfKind, Made, Sounding
<1>4. ASSUME NEW c \in use.calls, AppTurn, PlayMusic(c), c.stopOther
      PROVE  pc'[r] = "done" /\ r \in f.rest
  <2>1. /\ Called(c, "stopping")
        /\ stack' = Entered("end", "music", Keys(music), Len(calls) + 1)
        /\ UNCHANGED sound
    BY <1>4 DEF PlayMusic
  <2>2. /\ Len(calls) + 1 \in Sounds /\ Len(calls) + 1 \notin Made
        /\ Made' = Made \cup {Len(calls) + 1} /\ \A s \in Made : calls'[s] = calls[s]
        /\ pc' = [pc EXCEPT ![Len(calls) + 1] = "stopping"]
    BY <1>4, <2>1, CallMade DEF Called, AudioInv
  <2>3. stack = <<>>
    BY <1>1, <1>4 DEF AppTurn
  <2>4. f.rest = Keys(music)
    <3>1. Keys(music) \in SUBSET Sounds
      BY DEF AudioInv, TypeOK, Keys, ToSet
    <3>2. Enters(stack', "end", "music", Keys(music), Len(calls) + 1)
      BY <1>4, <2>1, <2>2, <3>1, EnteredFrame
    <3>3. ToSet(stack) = {}
      BY <2>3, EmptyStack
    <3>. QED  BY <3>2, <3>3 DEF Enters
  <2>5. r \in Made
    <3>1. sound[Len(calls) + 1] = "silent"
      BY <2>2 DEF AudioInv, CallStates, CallState
    <3>. QED  BY <2>1, <2>2, <3>1 DEF Sounding
  <2>6. Sounding(r) /\ calls[r].kind = "music"
    BY <2>1, <2>2, <2>5 DEF Sounding
  <2>7. pc[r] = "done" /\ r \in Sounds
    BY <1>1, <1>4, <2>5, <2>6, SettledTurn, MadeKnown DEF AudioInv
  <2>8. r \in ToSet(music)
    BY <2>5, <2>6, <2>7 DEF AudioInv, SoundsAreTracked
  <2>9. pc'[r] = pc[r]
    BY <2>2, <2>5, <2>7 DEF AudioInv, TypeOK
  <2>. QED  BY <2>4, <2>7, <2>8, <2>9 DEF Keys
<1>5. CASE ToSet(stack') = {}
  BY <1>5
<1>6. ASSUME AppTurn, UNCHANGED stack PROVE FALSE
  <2>1. stack = <<>>
    BY <1>1, <1>6 DEF AppTurn
  <2>. QED  BY <1>6, <2>1, EmptyStack
<1>7. ASSUME AppTurn, PauseAllMusic \/ ResumeAllMusic \/ StopAllMusic \/ StopAllEffects
      PROVE  FALSE
  <2>1. Keys(music) \in SUBSET Sounds /\ Keys(effects) \in SUBSET Sounds
    BY DEF AudioInv, TypeOK, Keys, ToSet
  <2>2. PICK op \in {"end", "pause", "resume"}, map \in {"music", "effect"},
             rest \in SUBSET Sounds : stack' = Entered(op, map, rest, 0)
    BY <1>7, <2>1 DEF PauseAllMusic, ResumeAllMusic, StopAllMusic, StopAllEffects
  <2>3. 0 \in Sounds \cup {0} /\ 0 \notin Made
    BY Constants, MadeKnown DEF AudioInv
  <2>4. Enters(stack', op, map, rest, 0)
    BY <1>7, <2>2, <2>3, EnteredFrame
  <2>5. stack = <<>>
    BY <1>1, <1>7 DEF AppTurn
  <2>6. ToSet(stack) = {}
    BY <2>5, EmptyStack
  <2>. QED  BY <2>4, <2>6 DEF Enters
<1>8. ASSUME CallsBack PROVE pc'[r] = "done" /\ r \in f.rest
  <2>. DEFINE g == [Head(stack) EXCEPT
                        !.at = IF Head(stack).op = "end" THEN "first" ELSE "last",
                        !.s = NextKey, !.rest = @ \ {NextKey}]
  <2>1. /\ InLoop /\ NextIndex # 0 /\ stack # <<>> /\ stack' = Replaced(g)
        /\ sound' = Told(Head(stack).op, NextKey) /\ UNCHANGED <<calls, pc>>
    BY <1>8 DEF CallsBack, InLoop
  <2>2. NextKey \in Sounds
    BY <2>1, KeyKnown
  <2>3. g \in Frame /\ g.call = Head(stack).call /\ g.rest = Head(stack).rest \ {NextKey}
    BY <1>2, <2>1, <2>2 DEF Frame
  <2>. HIDE DEF g
  <2>4. ToSet(stack') = {g}
    BY <1>2, <2>1, <2>3, ReplacedTop
  <2>5. f.call = Head(stack).call /\ f.rest = Head(stack).rest \ {NextKey}
    BY <2>3, <2>4
  <2>6. Head(stack).op = "end"
    BY <1>2, <2>1, <2>5 DEF FrameHolds
  <2>7. r \in Made /\ r \in Sounds /\ calls[r].kind = "music"
    BY <2>1, MadeKnown DEF Made, AudioInv
  <2>8. Sounding(r) /\ r # NextKey
    BY <2>1, <2>6, <2>7, ToldKey DEF Sounding
  <2>9. Head(stack) \in ToSet(stack) /\ Head(stack).call # 0
    BY <1>2, <2>1, <2>5
  <2>10. pc[r] = "done" /\ r \in Head(stack).rest
    BY <1>1, <2>7, <2>8, <2>9 DEF MusicIsAwaited, OfKind
  <2>. QED  BY <2>1, <2>5, <2>8, <2>10
<1>9. ASSUME FirstReturns \/ LastReturns PROVE pc'[r] = "done" /\ r \in f.rest
  <2>1. PICK at \in {"next", "last"} :
            /\ stack # <<>> /\ stack' = Replaced([Head(stack) EXCEPT !.at = at])
            /\ UNCHANGED <<calls, pc, sound>>
    BY <1>9 DEF FirstReturns, LastReturns
  <2>. DEFINE g == [Head(stack) EXCEPT !.at = at]
  <2>2. g \in Frame /\ g.call = Head(stack).call /\ g.rest = Head(stack).rest
    BY <1>2, <2>1 DEF Frame
  <2>. HIDE DEF g
  <2>3. stack' = Replaced(g)
    BY <2>1 DEF g
  <2>4. ToSet(stack') = {g}
    BY <1>2, <2>1, <2>2, <2>3, ReplacedTop
  <2>5. f.call = Head(stack).call /\ f.rest = Head(stack).rest
    BY <2>2, <2>4
  <2>6. r \in Made /\ calls[r].kind = "music" /\ Sounding(r)
    BY <2>1 DEF Made, Sounding
  <2>7. Head(stack) \in ToSet(stack) /\ Head(stack).call # 0
    BY <1>2, <2>1, <2>5
  <2>8. pc[r] = "done" /\ r \in Head(stack).rest
    BY <1>1, <2>6, <2>7 DEF MusicIsAwaited, OfKind
  <2>. QED  BY <2>1, <2>5, <2>8
<1>10. ASSUME Raises \/ LoopEnds PROVE FALSE
  <2>1. stack # <<>> /\ (stack' = <<>> \/ stack' = Tail(stack))
    BY <1>10 DEF Raises, LoopEnds, InLoop
  <2>2. CASE stack' = <<>>
    BY <2>2 DEF ToSet
  <2>3. CASE stack' = Tail(stack)
    BY <1>2, <2>1, <2>3
  <2>. QED  BY <2>1, <2>2, <2>3
<1>11. ASSUME NEW t \in Made,
              \/ LoadEnds(t) \/ ClipPlays(t) \/ Records(t)
              \/ ReportsFailure(t) \/ SoundFinishes(t)
       PROVE  FALSE
  <2>1. stack = <<>> /\ t \in Sounds
    BY <1>11, MadeKnown DEF LoadEnds, ClipPlays, Records, ReportsFailure, SoundFinishes,
       AudioInv
  <2>2. \/ stack' = stack
        \/ stack' = Reporting("none", t)
        \/ stack' = Reporting(calls[t].kind, t) /\ calls[t].kind # "bgm"
    BY <1>11 DEF LoadEnds, ClipPlays, Records, ReportsFailure, SoundFinishes
  <2>3. ToSet(stack) = {}
    BY <2>1, EmptyStack
  <2>4. calls[t].kind \in {"music", "effect", "bgm"}
    BY MadeKnown DEF AudioInv, Call, Kinds
  <2>5. stack' = stack \/ \E map \in {"music", "effect", "none"} : stack' = Reporting(map, t)
    BY <2>2, <2>4
  <2>6. PICK map \in {"music", "effect", "none"} : stack' = Reporting(map, t)
    BY <2>3, <2>5
  <2>7. Reports(stack', map, t)
    BY <2>1, <2>6, ReportingStack
  <2>. QED  BY <2>7 DEF Reports
<1>12. ASSUME NEW c \in use.calls, AppTurn, PlayMusic(c) \/ PlayEffect(c) \/ PlayBGM(c)
       PROVE  pc'[r] = "done" /\ r \in f.rest
  <2>1. CASE PlayMusic(c) /\ c.stopOther
    BY <1>4, <1>12, <2>1
  <2>2. CASE (PlayMusic(c) /\ ~c.stopOther) \/ PlayEffect(c) \/ PlayBGM(c)
    BY <1>6, <1>12, <2>2 DEF PlayMusic, PlayEffect, PlayBGM
  <2>. QED  BY <1>12, <2>1, <2>2
<1>13. ASSUME AppTurn, PauseBGM \/ ResumeBGM \/ StopBGM \/ StopAll PROVE FALSE
  BY <1>6, <1>13 DEF PauseBGM, ResumeBGM, StopBGM, StopAll
<1>. QED  BY <1>3, <1>7, <1>8, <1>9, <1>10, <1>11, <1>12, <1>13 DEF Next, vars

\* A music that stops the other music comes to every music that sounds before it
\* plays itself, or it raises and does not play.
LEMMA OneMusicStep ==
    ASSUME ClipsOnly("music"), AudioInv, MusicIsAwaited, OneMusic, [Next]_vars
    PROVE  OneMusic'
<1>. SUFFICES ASSUME Orderly', NEW r \in Made', NEW s \in Made',
                     calls'[r].kind = "music", calls'[s].kind = "music",
                     r < s, calls'[s].stopOther, Sounding(r)', Sounding(s)'
              PROVE  FALSE
  BY DEF OneMusic, OfKind
<1>1. use' = use /\ use \in Uses /\ Made \subseteq Nat /\ Len(calls) \in Nat
      /\ Made = 1 .. Len(calls) /\ Orderly /\ use.settled
  BY MadeKnown, Constants DEF Next, vars, AudioInv, TypeOK, Made, Orderly
<1>2. ASSUME NEW t \in Made, calls[t].kind = "music", Sounding(t)'
      PROVE  Sounding(t) \/ (LoopEnds /\ t = Head(stack).call)
  <2>1. ~calls[t].byUrl
    BY <1>1, <1>2 DEF ClipsOnly, AudioInv, CallStates
  <2>. QED  BY <1>2, <2>1, ClipsDoNotLoad, SoundsStayOver
<1>3. ASSUME LoopEnds, NEW t \in Made, calls[t].kind = "music", Head(stack).call # 0
      PROVE  ~Sounding(t)
  <2>. DEFINE f == Head(stack)
  <2>1. stack # <<>> /\ InLoop /\ NextIndex = 0
    BY <1>3 DEF LoopEnds, InLoop
  <2>2. f \in ToSet(stack) /\ FrameHolds(f)
    BY <2>1, TopKnown
  <2>3. f.map = "music"
    BY <1>3, <2>2 DEF FrameHolds
  <2>4. \A k \in ToSet(music) : k \notin f.rest
    <3>1. music \in Seq(Sounds)
      BY DEF AudioInv, TypeOK
    <3>2. MapOf(f.map) = music
      BY <2>3 DEF MapOf
    <3>3. SelectInSeq(music, LAMBDA k : k \in f.rest) = 0
      BY <2>1, <3>2 DEF NextIndex
    <3>. QED  BY <3>1, <3>3, NextFound
  <2>5. SUFFICES ASSUME Sounding(t) PROVE FALSE
    OBVIOUS
  <2>6. pc[t] = "done" /\ t \in f.rest
    BY <1>1, <1>3, <2>2, <2>5 DEF MusicIsAwaited, OfKind
  <2>7. t \in ToSet(music)
    BY <1>3, <2>5, <2>6 DEF AudioInv, SoundsAreTracked
  <2>. QED  BY <2>4, <2>6, <2>7
<1>4. CASE r \in Made /\ s \in Made
  <2>1. /\ calls[r].kind = "music" /\ calls[s].kind = "music" /\ calls[s].stopOther
        /\ Sounding(r) \/ (LoopEnds /\ r = Head(stack).call)
        /\ Sounding(s) \/ (LoopEnds /\ s = Head(stack).call)
    BY <1>2, <1>4, SoundsStayOver
  <2>2. ~(Sounding(r) /\ Sounding(s))
    BY <1>1, <1>4, <2>1 DEF OneMusic, OfKind
  <2>3. r # 0 /\ s # 0 /\ r # s
    BY <1>1, <1>4
  <2>4. LoopEnds => Head(stack).call = 0 \/ (~Sounding(r) /\ ~Sounding(s))
    BY <1>3, <1>4, <2>1
  <2>. QED  BY <2>1, <2>2, <2>3, <2>4
<1>5. CASE r \notin Made
  BY <1>1, <1>5, SoundIsNew, SoundsStayOver DEF Made
<1>6. CASE r \in Made /\ s \notin Made
  <2>1. /\ s = Len(calls) + 1 /\ s \in Sounds /\ AppTurn
        /\ \E c \in use.calls : /\ calls'[s] = c
                                /\ PlayMusic(c) \/ PlayEffect(c) \/ PlayBGM(c)
    BY <1>6, SoundIsNew
  <2>2. PlayMusic(calls'[s])
    BY <2>1 DEF PlayEffect, PlayBGM
  <2>3. UNCHANGED sound
    BY <2>2 DEF PlayMusic
  <2>4. sound[s] = "silent"
    BY <1>6, <2>1 DEF AudioInv, CallStates, CallState
  <2>. QED  BY <2>3, <2>4 DEF Sounding
<1>. QED  BY <1>4, <1>5, <1>6

\* Music that stops the other music sounds alone, of the music asked for before
\* it, in every use that gives its music as clips in turns of its own.
THEOREM MusicAlwaysAlone ==
    ASSUME ClipsOnly("music")
    PROVE  Spec => []OneMusic
<1>1. Init => OneMusic /\ MusicIsAwaited
  BY DEF Init, OneMusic, MusicIsAwaited, OfKind, Made, ToSet
<1>2. AudioInv /\ MusicIsAwaited /\ OneMusic /\ [Next]_vars => OneMusic' /\ MusicIsAwaited'
  BY OneMusicStep, MusicAwaitedStep
<1>. QED  BY <1>1, <1>2, AudioInvariant, PTL DEF Spec

\* The background music that sounds and was recorded is the one that stopBGM and
\* pauseBGM reach.
BGMIsHeld ==
    Orderly => \A s \in OfKind("bgm") :
        (Sounding(s) /\ pc[s] = "done") => bgm = s

\* A background music begins to sound in the call that asks for it.
LEMMA BGMStaysOver ==
    ASSUME ClipsOnly("bgm"), AudioInv, [Next]_vars, Orderly, NEW t \in Made,
           calls[t].kind = "bgm", Sounding(t)'
    PROVE  Sounding(t)
<1>1. ~calls[t].byUrl
  BY DEF ClipsOnly, AudioInv, TypeOK, CallStates, Orderly
<1>2. ASSUME LoopEnds, t = Head(stack).call PROVE FALSE
  <2>1. stack # <<>>
    BY <1>2 DEF LoopEnds, InLoop
  <2>2. FrameHolds(Head(stack))
    BY <2>1, TopKnown
  <2>3. t # 0
    BY MadeKnown, Constants DEF AudioInv
  <2>. QED  BY <1>2, <2>2, <2>3 DEF FrameHolds
<1>. QED  BY <1>1, <1>2, ClipsDoNotLoad, SoundsStayOver

\* A new background music stops the one that is held.
LEMMA OneBGMStep ==
    ASSUME ClipsOnly("bgm"), AudioInv, OneBGM, BGMIsHeld, [Next]_vars
    PROVE  OneBGM'
<1>. SUFFICES ASSUME Orderly', NEW r \in Made', NEW s \in Made',
                     calls'[r].kind = "bgm", calls'[s].kind = "bgm",
                     r < s, Sounding(r)', Sounding(s)'
              PROVE  FALSE
  <2>1. Made' \subseteq Nat
    BY DEF Made
  <2>. QED  BY <2>1 DEF OneBGM, OfKind
<1>1. use' = use /\ Orderly /\ Made \subseteq Nat /\ Len(calls) \in Nat
      /\ Made = 1 .. Len(calls)
  BY MadeKnown, Constants DEF Next, vars, AudioInv, TypeOK, Made, Orderly
<1>2. CASE r \in Made /\ s \in Made
  BY <1>1, <1>2, BGMStaysOver, SoundsStayOver DEF OneBGM, OfKind
<1>3. CASE r \notin Made
  BY <1>1, <1>3, SoundIsNew, SoundsStayOver DEF Made
<1>4. CASE r \in Made /\ s \notin Made
  <2>1. /\ s = Len(calls) + 1 /\ s \in Sounds /\ AppTurn
        /\ \E c \in use.calls : /\ calls'[s] = c
                                /\ PlayMusic(c) \/ PlayEffect(c) \/ PlayBGM(c)
    BY <1>4, SoundIsNew
  <2>2. PlayBGM(calls'[s])
    BY <2>1 DEF PlayEffect, PlayMusic
  <2>3. calls[r].kind = "bgm" /\ Sounding(r)
    BY <1>1, <1>4, BGMStaysOver, SoundsStayOver
  <2>4. r = bgm /\ r \in Sounds
    BY <1>1, <1>4, <2>1, <2>3, SettledTurn, MadeKnown DEF AudioInv, BGMIsHeld, OfKind
  <2>5. s # r
    BY <1>4
  <2>6. sound'[r] = StopSounds({bgm})[r]
    BY <2>1, <2>2, <2>4, <2>5 DEF PlayBGM, Plays, Begins, StopSounds
  <2>7. StopSounds({bgm})[r] = "over"
    BY <2>3, <2>4 DEF StopSounds
  <2>. QED  BY <2>6, <2>7 DEF Sounding
<1>. QED  BY <1>2, <1>3, <1>4

\* Whatever plays, pauses, stops or records a sound, the held one is the one that
\* sounds.
LEMMA BGMHeldStep ==
    ASSUME ClipsOnly("bgm"), AudioInv, OneBGM, BGMIsHeld, [Next]_vars
    PROVE  BGMIsHeld'
<1>. SUFFICES ASSUME Orderly', NEW s \in Made', calls'[s].kind = "bgm",
                     Sounding(s)', pc'[s] = "done"
              PROVE  bgm' = s
  BY DEF BGMIsHeld, OfKind
<1>1. use' = use /\ Orderly /\ Made \subseteq Sounds
      /\ pc \in [Sounds -> {"none", "stopping", "loading", "loaded", "failed", "started",
                          "done", "raised"}]
  BY MadeKnown DEF Next, vars, AudioInv, TypeOK, Orderly
<1>2. s \in Made
  <2>1. SUFFICES ASSUME s \notin Made PROVE FALSE
    OBVIOUS
  <2>2. s = Len(calls) + 1 /\ s \in Sounds /\ PlayBGM(calls'[s])
    BY <2>1, SoundIsNew DEF PlayMusic, PlayEffect
  <2>3. pc'[s] \in {"loading", "started"}
    BY <1>1, <2>2 DEF PlayBGM, Plays, Called, Begun
  <2>. QED  BY <2>3
<1>3. calls[s].kind = "bgm" /\ Sounding(s) /\ s \in Sounds
  BY <1>1, <1>2, BGMStaysOver, SoundsStayOver
<1>4. ASSUME pc[s] = "done" PROVE bgm = s
  BY <1>1, <1>2, <1>3, <1>4 DEF BGMIsHeld, OfKind
<1>5. CASE UNCHANGED vars
  BY <1>4, <1>5 DEF vars
<1>6. ASSUME NEW c \in use.calls, AppTurn, PlayMusic(c) \/ PlayEffect(c) \/ PlayBGM(c)
      PROVE  bgm' = s
  <2>1. bgm = s
    BY <1>1, <1>2, <1>3, <1>4, <1>6, SettledTurn
  <2>2. CASE PlayBGM(c)
    <3>1. s # Len(calls) + 1
      BY <1>2, MadeKnown DEF Made, AudioInv
    <3>2. sound'[s] = "over"
      BY <1>3, <2>1, <2>2, <3>1 DEF PlayBGM, Plays, Begins, StopSounds
    <3>. QED  BY <3>2 DEF Sounding
  <2>. QED  BY <1>6, <2>1, <2>2 DEF PlayMusic, PlayEffect
<1>7. ASSUME AppTurn, \/ PauseAllMusic \/ ResumeAllMusic \/ StopAllMusic \/ StopAllEffects
                      \/ PauseBGM \/ ResumeBGM \/ StopBGM \/ StopAll
      PROVE  bgm' = s
  <2>1. bgm = s
    BY <1>1, <1>2, <1>3, <1>4, <1>7, SettledTurn
  <2>2. CASE StopBGM
    <3>1. sound'[s] = "over"
      BY <1>3, <2>1, <2>2 DEF StopBGM, StopSounds
    <3>. QED  BY <3>1 DEF Sounding
  <2>. QED  BY <1>7, <2>1, <2>2 DEF PauseAllMusic, ResumeAllMusic, StopAllMusic,
            StopAllEffects, PauseBGM, ResumeBGM, StopAll
<1>8. CASE CallsBack \/ FirstReturns \/ LastReturns
  <2>1. UNCHANGED <<pc, bgm>>
    BY <1>8 DEF CallsBack, FirstReturns, LastReturns
  <2>. QED  BY <1>4, <2>1
<1>9. CASE Raises
  <2>1. pc'[s] = IF pc[s] = "stopping" THEN "raised" ELSE pc[s]
    BY <1>3, <1>9 DEF Raises
  <2>2. bgm' = bgm
    BY <1>9 DEF Raises
  <2>. QED  BY <1>4, <2>1, <2>2
<1>10. CASE LoopEnds
  <2>1. pc[s] = "done"
    BY <1>1, <1>3, <1>10 DEF LoopEnds, Begun
  <2>2. bgm' = bgm
    BY <1>10 DEF LoopEnds
  <2>. QED  BY <1>4, <2>1, <2>2
<1>11. ASSUME NEW t \in Made, Records(t)
       PROVE  bgm' = s
  <2>1. CASE t = s
    BY <1>3, <1>11, <2>1 DEF Records
  <2>2. CASE t # s
    <3>1. bgm = s
      <4>1. pc[s] = "done"
        BY <1>1, <1>3, <1>11, <2>2 DEF Records
      <4>. QED  BY <1>4, <4>1
    <3>2. CASE calls[t].kind = "bgm"
      <4>1. Sounding(t)
        BY <1>1, <1>11 DEF AudioInv, StartedPlays, Sounding, Records
      <4>. QED  BY <1>1, <1>2, <1>3, <1>11, <2>2, <3>2, <4>1 DEF OneBGM, OfKind
    <3>3. CASE calls[t].kind # "bgm"
      BY <1>11, <3>1, <3>3 DEF Records
    <3>. QED  BY <3>2, <3>3
  <2>. QED  BY <2>1, <2>2
<1>12. ASSUME NEW t \in Made,
              LoadEnds(t) \/ ClipPlays(t) \/ ReportsFailure(t) \/ SoundFinishes(t)
       PROVE  bgm' = s
  <2>1. bgm' = bgm
    BY <1>12 DEF LoadEnds, ClipPlays, ReportsFailure, SoundFinishes
  <2>2. pc[s] = "done"
    <3>1. CASE LoadEnds(t)
      BY <1>1, <1>2, <3>1 DEF LoadEnds
    <3>2. CASE ClipPlays(t)
      BY <1>1, <1>2, <3>2 DEF ClipPlays
    <3>3. CASE ReportsFailure(t)
      <4>1. t # s
        BY <1>3, <3>3 DEF ReportsFailure, Sounding, AudioInv, CallStates, CallState
      <4>. QED  BY <1>1, <1>2, <3>3, <4>1 DEF ReportsFailure
    <3>4. CASE SoundFinishes(t)
      BY <3>4 DEF SoundFinishes
    <3>. QED  BY <1>12, <3>1, <3>2, <3>3, <3>4
  <2>. QED  BY <1>4, <2>1, <2>2
<1>. QED  BY <1>5, <1>6, <1>7, <1>8, <1>9, <1>10, <1>11, <1>12 DEF Next

\* One background music sounds at a time, in every use that gives it as clips in
\* turns of its own.
THEOREM BGMAlwaysAlone ==
    ASSUME ClipsOnly("bgm")
    PROVE  Spec => []OneBGM
<1>1. Init => OneBGM /\ BGMIsHeld
  BY DEF Init, OneBGM, BGMIsHeld, OfKind, Made
<1>2. AudioInv /\ OneBGM /\ BGMIsHeld /\ [Next]_vars => OneBGM' /\ BGMIsHeld'
  BY OneBGMStep, BGMHeldStep
<1>. QED  BY <1>1, <1>2, AudioInvariant, PTL DEF Spec

=============================================================================
