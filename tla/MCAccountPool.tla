---------------------------- MODULE MCAccountPool ----------------------------
(* Instances of AccountPool for TLC.                                       *)
EXTENDS AccountPool

Entry(e, o, p, w, ow) == [enabled |-> e, over |-> o, permit |-> p,
                          weight |-> w, overageWeight |-> ow]

Healthy  == Entry(TRUE, FALSE, FALSE, 0, 0)
Overage  == Entry(TRUE, TRUE, TRUE, 5, 5)
Blocked  == Entry(TRUE, TRUE, FALSE, 1, 1)
Disabled == Entry(FALSE, FALSE, FALSE, 1, 1)

CONSTANTS a1, a2, m1, m2

Order2 == <<a1, a2>>

Wants(m, ex) == [model |-> m, excl |-> ex]

\* A first attempt and a retry, and requests that exclude nothing.
RetryRequests == {Wants(m1, {}), Wants(AnyModel, {a1})}
PlainRequests == {Wants(AnyModel, {})}

\* Without a list, and with a list that lacks the model asked for.
Lists == {{}, {m2}}
NoLists == {{}}

SelectConf == {Healthy, Blocked}
WeightConf == {Healthy, Overage, Blocked, Disabled}
=============================================================================
