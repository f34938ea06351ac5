------------------------------ MODULE CCMHanzi ------------------------------
(***************************************************************************)
(* A Chinese character that is loaded from the network and drawn stroke by *)
(* stroke (CCMHanzi/CCMHanziCharacter.ts), and the test in which the user  *)
(* writes it (CCMHanzi/CCMHanziWriter.ts): two components of one node.     *)
(***************************************************************************)
EXTENDS Integers, FiniteSets

CONSTANTS Chars, Strokes,   \* the characters, and how many strokes each has, at least one
          None,             \* no character
          MaxLoads,         \* bound: requests of character data
          Careful           \* the game waits: see the definition of Settled

VARIABLES
    char,        \* CCMHanziCharacter._char
    requests,    \* the XMLHttpRequests under way: number and character
    loads,       \* how many there have been
    charLoaded,
    shown,       \* the character whose _strokes and _medians there are
    charStroke,  \* CCMHanziCharacter._strokeNum
    callDraw,    \* there are calls of draw to make
    writing, strokeNum,   \* of CCMHanziWriter
    touch,       \* a finger is on the node
    median,      \* _checkMedianPoints: of which stroke of which character
    written,     \* the strokes of the data that were written correctly
    completed    \* onComplete was called for the data

character == <<char, requests, loads, charLoaded, shown, charStroke>>
vars == <<character, callDraw, writing, strokeNum, touch, median, written, completed>>

All(c) == 0 .. Strokes[c] - 1

Request(c) ==
    /\ char' = c
    /\ charLoaded' = FALSE
    /\ loads' = loads + 1
    /\ requests' = requests \cup {<<loads + 1, c>>}

\* After start, the character of the scene is loading.
Init ==
    /\ char \in Chars /\ charLoaded = FALSE /\ loads = 1 /\ requests = {<<1, char>>}
    /\ shown = None /\ charStroke = -1 /\ callDraw = FALSE
    /\ writing = TRUE /\ strokeNum = 0 /\ touch = FALSE /\ median = None
    /\ written = {} /\ completed = FALSE

\* What a careful game would do: change the character only when nothing is drawn or
\* loading, and let it be drawn before the user may write.
Settled == Careful => requests = {} /\ ~touch /\ ~callDraw

SetChar(c) ==
    /\ loads < MaxLoads /\ Settled
    /\ Request(c)
    /\ UNCHANGED <<shown, charStroke, callDraw, writing, strokeNum, touch, median,
                   written, completed>>

\* The data of a request arrives: setCharacterData, then onCharLoadComplete of the
\* writer.
Loaded(r) ==
    /\ requests' = requests \ {r}
    /\ shown' = r[2] /\ charLoaded' = TRUE /\ callDraw' = TRUE
    /\ strokeNum' = 0 /\ writing' = TRUE
    /\ written' = {} /\ completed' = FALSE
    /\ UNCHANGED <<char, loads, charStroke, touch, median>>

LoadFails(r) ==
    /\ requests' = requests \ {r}
    /\ UNCHANGED <<char, loads, charLoaded, shown, charStroke, callDraw, writing,
                   strokeNum, touch, median, written, completed>>

\* A frame: draw, if somebody called for it; it limits the strokes to draw.
Update ==
    /\ callDraw
    /\ callDraw' = FALSE
    /\ charStroke' = LET n == IF shown = None THEN 0 ELSE Strokes[shown] IN
                     IF charStroke = -1 \/ charStroke > n THEN n ELSE charStroke
    /\ UNCHANGED <<char, requests, loads, charLoaded, shown, writing, strokeNum, touch,
                   median, written, completed>>

\* The finger goes down; the stroke that is next is what it is checked against.
TouchStart ==
    /\ ~touch /\ Settled
    /\ touch' = TRUE
    /\ IF writing /\ charLoaded
       THEN median' = <<shown, strokeNum>> /\ callDraw' = TRUE
       ELSE UNCHANGED <<median, callDraw>>
    /\ UNCHANGED <<character, writing, strokeNum, written, completed>>

\* The finger goes up and nobody looks, or there is nothing to compare with: a
\* TypeError.
TouchIgnored ==
    /\ touch /\ (~writing \/ ~charLoaded \/ median = None)
    /\ touch' = FALSE
    /\ UNCHANGED <<character, callDraw, writing, strokeNum, median, written, completed>>

TouchMistake ==
    /\ touch /\ writing /\ charLoaded /\ median # None
    /\ touch' = FALSE /\ median' = None /\ callDraw' = TRUE
    /\ UNCHANGED <<character, writing, strokeNum, written, completed>>

\* What was drawn is the stroke it is checked against, which counts as the next.
TouchCorrect ==
    /\ touch /\ writing /\ charLoaded /\ median # None
    /\ touch' = FALSE /\ median' = None /\ callDraw' = TRUE
    /\ strokeNum' = strokeNum + 1
    /\ written' = IF median[1] = shown THEN written \cup {median[2]} ELSE written
    /\ IF strokeNum + 1 >= charStroke
       THEN completed' = TRUE /\ writing' = FALSE
       ELSE UNCHANGED <<completed, writing>>
    /\ UNCHANGED character

Next ==
    \/ \E c \in Chars : SetChar(c)
    \/ \E r \in requests : Loaded(r) \/ LoadFails(r)
    \/ Update
    \/ TouchStart \/ TouchIgnored \/ TouchMistake \/ TouchCorrect

Spec == Init /\ [][Next]_vars

-----------------------------------------------------------------------------
(* Properties.                                                             *)

\* onComplete ("called after the test was completed correctly") is called when
\* every stroke of the character has been written.
CompleteIsAll == completed => written = All(shown)

\* A character that is loaded is the one that was asked for last (charLoaded),
\* and not an earlier one whose data came late.
ShownIsAsked == charLoaded => shown = char
=============================================================================
