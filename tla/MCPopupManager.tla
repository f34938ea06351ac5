---------------------------- MODULE MCPopupManager ----------------------------
(* CCMPopupManager on small instances: the ways in which it is used. *)
EXTENDS CCMPopupManager

CONSTANTS p1, p2

Request(p, m, prio, imm) ==
    [path |-> p, mode |-> m, priority |-> prio, immediately |-> imm]

\* Each cache mode, two priorities, and an immediate request for a prefab that
\* a waiting one needs as well.
MixedCalls ==
    {Request(p1, "Once", 0, FALSE), Request(p1, "Once", 0, TRUE),
     Request(p2, "Frequent", 1, FALSE)}

\* The three buttons of assets/scripts/CCMPopup/TestPopup.ts:97-142.
TestPopupCalls ==
    {Request(p1, "Frequent", 0, FALSE), Request(p1, "Frequent", 1, FALSE),
     Request(p1, "Frequent", 0, TRUE)}

\* Waiting requests only.
PlainCalls ==
    {Request(p1, "Normal", 0, FALSE), Request(p2, "Once", 1, FALSE)}

Settled(C, n) ==
    [calls |-> C, mayFail |-> {}, mayRelease |-> {}, settled |-> TRUE,
     requests |-> n, preloads |-> 0, scenes |-> 0]
AnyTime ==
    [calls |-> MixedCalls, mayFail |-> {p1}, mayRelease |-> {p2}, settled |-> FALSE,
     requests |-> 3, preloads |-> 0, scenes |-> 1]

\* Five requests while the popup on screen is at rest; three at any moment, with
\* failures, a release and a scene change; two with overlapping loads on top.
AllUses ==
    {Settled(MixedCalls, 5), AnyTime, [AnyTime EXCEPT !.requests = 2, !.preloads = 1]}

\* Further uses, each of which breaks a property.
Hurried == {[Settled(MixedCalls, 3) EXCEPT !.settled = FALSE]}
TestPopup == {Settled(TestPopupCalls, 4)}
Failing == {[Settled(PlainCalls, 3) EXCEPT !.mayFail = {p1}]}
Preloading == {[Settled(PlainCalls, 3) EXCEPT !.preloads = 1]}
Leaving == {[Settled(PlainCalls, 3) EXCEPT !.scenes = 1]}

=============================================================================
