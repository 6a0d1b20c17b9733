---------------------------- MODULE MCAccountStore ----------------------------
(* Instances of AccountStore for TLC.                                      *)
EXTENDS AccountStore, TLC

CONSTANTS a1, a2

Account(e, b) == [enabled |-> e, ban |-> b, token |-> 0]

\* A healthy account, and one enabled by hand while its ban was kept.
Healthy  == Account(TRUE, "none")
Reopened == Account(TRUE, "auth")

HealthyStores == {[a \in Accounts |-> Healthy]}

\* One account is healthy, the others reopened or still to be added.
MixedStores == {f \in [Accounts -> {Healthy, Reopened, Absent}] :
                   Cardinality({a \in Accounts : f[a] = Healthy}) = 1}

AllKinds    == {"edit", "delete", "remove", "add", "serve"} \cup Refreshes
RemoveKinds == {"remove", "edit"}

Symmetry == Permutations(Sessions) \cup Permutations(Accounts)
===============================================================================
