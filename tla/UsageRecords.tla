----------------------------- MODULE UsageRecords -----------------------------
(***************************************************************************)
(* The usage records of the server (proxy/handler_cybxai.go) and the way   *)
(* the requests of proxy/handler.go write them.  A request leaves a        *)
(* context under the account it starts with, moves the context to the      *)
(* account that answered, puts its record into the context it finds under  *)
(* that account, and stores the record of its own context when it ends.    *)
(* Contexts are found by account and not by request, so requests that      *)
(* share an account may find each other's.                                 *)
(*                                                                         *)
(* A record names the request it counts and the one whose body it carries. *)
(***************************************************************************)
EXTENDS Naturals, Sequences

CONSTANTS Requests, Accounts, None,
          MaxRecords    \* maxUsageRecords, 500 in the code

\* What the values of the constants have to be.
UsageRecordsAssumption ==
    /\ None \notin Requests \cup Accounts
    /\ None \notin [of : Requests, body : Requests \cup {None}]   \* nil is no record
    /\ MaxRecords \in Nat \ {0}

VARIABLES at,                  \* where each request is
          first, usedAccount,  \* the account it began with and the one that answered
          usageCtxByAccount,   \* account -> the request whose context it is, or None
          Pending,             \* the record in the context of a request, or None
          usageBuffer,         \* the records kept, the newest last
          log,                 \* every record ever stored
          shared               \* requests that met another one on an account

usageVars == <<at, first, usedAccount, usageCtxByAccount, Pending, usageBuffer, log, shared>>

requestVars == <<first, usedAccount, shared>>

Init ==
    /\ at = [r \in Requests |-> "idle"]
    /\ first = [r \in Requests |-> None] /\ usedAccount = first
    /\ usageCtxByAccount = [a \in Accounts |-> None]
    /\ Pending = [r \in Requests |-> None]
    /\ usageBuffer = <<>> /\ log = <<>> /\ shared = {}

Moved(r, s) == at' = [at EXCEPT ![r] = s]

\* Requests other than r that use account a now.
Company(r, a) == {o \in Requests \ {r} : /\ at[o] \notin {"idle", "ended", "lost"}
                                         /\ a \in {first[o], usedAccount[o]}}

Meet(r, a) == shared' = shared \cup Company(r, a) \cup
                        (IF Company(r, a) = {} THEN {} ELSE {r})

Newest(s) == IF Len(s) > MaxRecords THEN SubSeq(s, Len(s) - MaxRecords + 1, Len(s)) ELSE s

\* RecordUsage.
RecordUsage(rec) == usageBuffer' = Newest(Append(usageBuffer, rec)) /\ log' = Append(log, rec)

-----------------------------------------------------------------------------

\* A request begins on an account: setAccountUsageCtx.
Begin(r, a) ==
    /\ at[r] = "idle" /\ Moved(r, "calling")
    /\ first' = [first EXCEPT ![r] = a]
    /\ usageCtxByAccount' = [usageCtxByAccount EXCEPT ![a] = r]
    /\ Meet(r, a)
    /\ UNCHANGED <<usedAccount, Pending, usageBuffer, log>>

\* callKiroAPIWithAccountFailover answers from account b.
Succeed(r, b) ==
    /\ at[r] = "calling" /\ Moved(r, "answered")
    /\ usedAccount' = [usedAccount EXCEPT ![r] = b]
    /\ Meet(r, b)
    /\ UNCHANGED <<first, usageCtxByAccount, Pending, usageBuffer, log>>

\* No account answers: no record is made.
Failed(r) ==
    /\ at[r] = "calling" /\ Moved(r, "closing")
    /\ UNCHANGED <<requestVars, usageCtxByAccount, Pending, usageBuffer, log>>

\* Mutant of Rebound: the context stays under the account the request began with.
Rebound_Stays(r) == usageCtxByAccount

\* rebindAccountUsageCtx: whatever context the first account has moves.
Rebound(r) ==
    LET a == first[r]
        b == usedAccount[r]
    IN IF a = b \/ usageCtxByAccount[a] = None THEN usageCtxByAccount
       ELSE [usageCtxByAccount EXCEPT ![b] = usageCtxByAccount[a], ![a] = None]

Rebind(r) ==
    /\ at[r] = "answered" /\ Moved(r, "rebound")
    /\ usageCtxByAccount' = Rebound(r)
    /\ UNCHANGED <<requestVars, Pending, usageBuffer, log>>

\* recordUsageWithCtx: the record waits in the context found under the account,
\* in place of one that waited there, or is stored without a body.
Record(r) ==
    /\ at[r] = "rebound" /\ Moved(r, "closing")
    /\ LET c == usageCtxByAccount[usedAccount[r]]
       IN IF c = None
          THEN RecordUsage([of |-> r, body |-> None]) /\ UNCHANGED Pending
          ELSE /\ Pending' = [Pending EXCEPT ![c] = [of |-> r, body |-> c]]
               /\ UNCHANGED <<usageBuffer, log>>
    /\ UNCHANGED <<requestVars, usageCtxByAccount>>

\* flushUsageCtx, deferred: the record of the context is stored.
Flush(r) ==
    /\ at[r] = "closing" /\ Moved(r, "flushed")
    /\ IF Pending[r] # None THEN RecordUsage(Pending[r]) ELSE UNCHANGED <<usageBuffer, log>>
    /\ UNCHANGED <<requestVars, usageCtxByAccount, Pending>>

\* The end of flushUsageCtx, and clearUsageCtx.
Close(r) ==
    /\ at[r] = "flushed" /\ Moved(r, "ended")
    /\ Pending' = [Pending EXCEPT ![r] = None]
    /\ usageCtxByAccount' = [a \in Accounts |-> IF usageCtxByAccount[a] = r THEN None
                                                ELSE usageCtxByAccount[a]]
    /\ UNCHANGED <<requestVars, usageBuffer, log>>

\* clearUsageRecords.
Clear ==
    /\ usageBuffer # <<>> /\ usageBuffer' = <<>>
    /\ UNCHANGED <<at, requestVars, usageCtxByAccount, Pending, log>>

\* A restart: loadUsageBuffer reads what every change of the buffer has written;
\* requests under way and their contexts are gone.
Restart ==
    /\ \E r \in Requests : at[r] \notin {"idle", "ended", "lost"}
    /\ at' = [r \in Requests |-> IF at[r] \in {"idle", "ended"} THEN at[r] ELSE "lost"]
    /\ usageCtxByAccount' = [a \in Accounts |-> None]
    /\ Pending' = [r \in Requests |-> None]
    /\ UNCHANGED <<requestVars, usageBuffer, log>>

Next ==
    \/ \E r \in Requests : \/ \E a \in Accounts : Begin(r, a) \/ Succeed(r, a)
                           \/ Failed(r) \/ Rebind(r) \/ Record(r) \/ Flush(r) \/ Close(r)
    \/ Clear \/ Restart

Spec == Init /\ [][Next]_usageVars

-----------------------------------------------------------------------------

\* No request is counted twice, whatever contexts it meets; and a request that
\* was answered, and had its accounts to itself, is counted, with its own body.
UsageAccounted ==
    /\ \A i, j \in DOMAIN log : log[i].of = log[j].of => i = j
    /\ \A r \in Requests \ shared :
          at[r] = "ended" /\ usedAccount[r] # None
              => \E i \in DOMAIN log : log[i] = [of |-> r, body |-> r]

===============================================================================
