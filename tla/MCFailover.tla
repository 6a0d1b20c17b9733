------------------------------ MODULE MCFailover ------------------------------
(* Instances of Failover for TLC.                                          *)
EXTENDS Failover, TLC

CONSTANTS a1, a2

Failure(s, f) == [settle |-> s, failover |-> f]

\* The failures a 429, a 402 with "overage", a 403 with a suspension notice,
\* a 401 and a connection error are classified as.
RateLimited  == Failure("rate", TRUE)
OverageError == Failure("overage", TRUE)
Suspended    == Failure("banned", TRUE)
Unauthorized == Failure("expired", TRUE)
NetworkError == Failure("other", FALSE)
ServerError  == Failure("other", TRUE)

RaceErrors  == {Unauthorized, RateLimited, OverageError, NetworkError}
FairErrors  == {Suspended, OverageError, ServerError}
AuthErrors  == {Unauthorized}

Account(e, b, p) == [enabled |-> e, ban |-> b, permit |-> p]

\* A healthy account, and one enabled by hand while its ban was kept.
Healthy  == Account(TRUE, "none", FALSE)
Reopened == Account(TRUE, "auth", FALSE)
Paying   == Account(TRUE, "none", TRUE)

MixedConfs   == {Healthy, Reopened}
PayingConfs  == {Paying}

Symmetry == Permutations(Reqs)
===============================================================================
