---------------------------- MODULE MCImageLoader ---------------------------
EXTENDS CCMImageLoader

CONSTANTS l1, l2, l3, c1, u1, p1

Scenario(where, calls, urls) == [platform |-> where, calls |-> calls, urls |-> urls]

MCScenarios == {Scenario("android", {l1, l2}, {u1}), Scenario("android", {l1, c1}, {u1}),
                Scenario("ios", {l1, c1}, {u1, p1}), Scenario("other", {c1}, {}),
                Scenario("other", {l1, l2, l3}, {u1}), Scenario("other", {l1, l2}, {u1, p1})}
=============================================================================
