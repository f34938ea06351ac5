---------------------------- MODULE MCAudioManager ----------------------------
(* CCMAudioManager on small instances: the ways in which it is used. *)
EXTENDS CCMAudioManager

Sound(k, url, other, opts, loop) ==
    [kind |-> k, byUrl |-> url, stopOther |-> other, options |-> opts, loop |-> loop]

\* Music and background music by clip, effects by url, call backs everywhere;
\* music that stops the other music, and music that lets it play and loops.
ClipCalls ==
    {Sound("music", FALSE, TRUE, TRUE, FALSE), Sound("music", FALSE, FALSE, TRUE, TRUE),
     Sound("effect", TRUE, FALSE, TRUE, FALSE), Sound("bgm", FALSE, FALSE, TRUE, TRUE)}

\* Either way of each, with and without call backs.
AnyCalls ==
    {Sound("music", TRUE, TRUE, TRUE, FALSE), Sound("music", FALSE, TRUE, FALSE, FALSE),
     Sound("effect", FALSE, FALSE, FALSE, FALSE), Sound("effect", TRUE, FALSE, TRUE, TRUE),
     Sound("bgm", TRUE, FALSE, TRUE, TRUE)}

\* The calls of assets/scripts/CCMAudioManagerExample.ts:18-48.
ExampleCalls ==
    {Sound("music", TRUE, TRUE, TRUE, FALSE), Sound("effect", TRUE, FALSE, FALSE, FALSE),
     Sound("bgm", TRUE, FALSE, TRUE, TRUE)}

\* playMusic(clip), and playMusic(clip, {}).
BareMusicCalls ==
    {Sound("music", FALSE, TRUE, FALSE, FALSE), Sound("music", FALSE, TRUE, TRUE, FALSE)}

\* Music by url and by clip and effects, all with options.
NestedCalls ==
    {Sound("music", TRUE, TRUE, TRUE, FALSE), Sound("effect", FALSE, FALSE, TRUE, FALSE)}

Settled(C, fail, all) ==
    [calls |-> C, mayFail |-> fail, mayStopAll |-> all, settled |-> TRUE, nested |-> FALSE,
     most |-> MaxSounds]
AtAnyMoment(C, nest) ==
    [calls |-> C, mayFail |-> TRUE, mayStopAll |-> TRUE, settled |-> FALSE, nested |-> nest,
     most |-> MaxSounds - 1]

\* Clips in turns of their own; call backs that call the manager; everything at any
\* moment, and so from call backs.
InTurns == Settled(ClipCalls, TRUE, FALSE)
FromCallBacks == [Settled(NestedCalls, TRUE, FALSE) EXCEPT !.nested = TRUE]
Several == {InTurns, FromCallBacks, AtAnyMoment(AnyCalls, FALSE),
            AtAnyMoment(BareMusicCalls, TRUE)}

\* Further uses, each of which breaks a property.
Nested == {FromCallBacks}
Example == {Settled(ExampleCalls, FALSE, FALSE)}
ExampleStopAll == {Settled(ExampleCalls, FALSE, TRUE)}
BareMusic == {Settled(BareMusicCalls, FALSE, FALSE)}

=============================================================================
