--------------------------- MODULE SceneNavigation ---------------------------
(***************************************************************************)
(* What lib/CCMSceneManager promises the application: a history of scenes  *)
(* with the one on screen on top, in which a navigation is a single step.  *)
(* Requests, the director, its failures and the timer are not visible.     *)
(***************************************************************************)
EXTENDS Naturals, Sequences

CONSTANT Scenes

VARIABLES
    history,    \* visits [sceneName, isTempScene], the current one last
    screen      \* the scene on screen

nav == <<history, screen>>

Visit == [sceneName : Scenes, isTempScene : BOOLEAN]
Depth == Len(history)
Visited(s) == \E i \in 1 .. Depth : history[i].sceneName = s

Init == history = <<>> /\ screen \in Scenes

\* The scene the game booted into becomes home.
Home ==
    /\ history = <<>>
    /\ history' = <<[sceneName |-> screen, isTempScene |-> FALSE]>>
    /\ UNCHANGED screen

\* A visit to s on top of the n oldest entries.
VisitAbove(n, s, temp) ==
    /\ history' = Append(SubSeq(history, 1, n), [sceneName |-> s, isTempScene |-> temp])
    /\ screen' = s

Standard(s) == VisitAbove(Depth, s, FALSE)
Temporary(s) == VisitAbove(Depth, s, TRUE)
ClearStack(s) == VisitAbove(0, s, FALSE)

\* Entries go until s is not among those left; as few of them as possible.
SingleTop(s) ==
    \E n \in 0 .. Depth :
        /\ \A i \in 1 .. n : history[i].sceneName # s
        /\ n < Depth => history[n + 1].sceneName = s
        /\ VisitAbove(n, s, FALSE)

Go(s) ==
    /\ history # <<>>
    /\ Standard(s) \/ Temporary(s) \/ ClearStack(s) \/ SingleTop(s)

\* Back to the nearest earlier visit that was not temporary.
Back ==
    \E n \in 1 .. Depth - 1 :
        /\ ~history[n].isTempScene
        /\ \A i \in n + 1 .. Depth - 1 : history[i].isTempScene
        /\ history' = SubSeq(history, 1, n)
        /\ screen' = history[n].sceneName

Next == Home \/ (\E s \in Scenes : Go(s)) \/ Back

Spec == Init /\ [][Next]_nav

=============================================================================
