------------------------------- MODULE Failover -------------------------------
(***************************************************************************)
(* The account failover loop of proxy/handler.go and account_failover.go:  *)
(* each request selects an account, tries accounts one after another until *)
(* one answers, and settles every failure by cooling the account down or   *)
(* by writing a ban to the configuration and reloading the pool.  An       *)
(* administrator edits the configuration at the same time.                 *)
(*                                                                         *)
(* A selection is one step that returns one of the Choices of Selection:   *)
(* AccountPool is proved to implement that contract.  Every request asks   *)
(* for a model that all accounts serve.  A cooldown is the rank of the     *)
(* instant at which it ends, 0 when there is none; as the upstream chooses *)
(* Retry-After, a new cooldown may take any rank.                          *)
(***************************************************************************)
EXTENDS Selection, FiniteSets

CONSTANTS Reqs,       \* requests in flight
          Over,       \* accounts whose usage has reached its limit
          Errors,     \* failures of an account: [settle, failover] records
          Confs,      \* entries of accounts that a run starts from
          MaxRank,    \* cooldown ranks of the model
          MaxEdits    \* bound on administrator edits

Settles == {"overage", "quota", "rate", "banned", "expired", "other"}

\* BanStatus and BanReason: "auth" is a reason isAuthBanReason recognises.
Entry == [enabled: BOOLEAN, ban: {"none", "auth", "other"}, permit: BOOLEAN]

ASSUME FailoverAssumption ==
    /\ IsFiniteSet(Accounts)
    /\ Over \subseteq Accounts
    /\ Errors \subseteq [settle: Settles, failover: BOOLEAN]
    /\ Confs \subseteq Entry
    /\ MaxRank \in Nat \ {0} /\ MaxEdits \in Nat

VARIABLES conf,      \* config.Accounts
          pool,      \* the pool's copies; a disabled copy is no copy
          cooldown, errorCount,
          req,       \* what each request is doing
          admin,     \* the administrator's edit in progress
          off,       \* accounts whose disabling is complete, until re-enabled
          edits

poolVars == <<cooldown, errorCount>>
adminVars == <<admin, off, edits>>
vars == <<conf, pool, cooldown, errorCount, req, admin, off, edits>>

Absent == [enabled |-> FALSE, ban |-> "none", permit |-> FALSE]

Enabled(p) == {a \in Accounts : p[a].enabled}

Copied(c) == [a \in Accounts |-> IF c[a].enabled THEN c[a] ELSE Absent]

\* The copies that have slots: an enabled account over its limit that may not
\* go on has none.
MembersOf(p) == {[id |-> a, over |-> a \in Over, permit |-> p[a].permit] :
                    a \in {b \in Enabled(p) : b \notin Over \/ p[b].permit}}

Members == MembersOf(pool)

NoLists == [a \in Accounts |-> {}]

Excluding(S) == [model |-> AnyModel, excl |-> S, at |-> 0, allow |-> FALSE]

Pick(S) == Choices(Members, NoLists, cooldown, Excluding(S))

NoError == [settle |-> "other", failover |-> FALSE]

Fresh == [pc |-> "new", account |-> None, rec |-> Absent, tried |-> {},
          attempt |-> 0, budget |-> 0, started |-> FALSE, token |-> FALSE,
          err |-> NoError, sources |-> {}, steady |-> {}, calm |-> TRUE]

NoEdit == [id |-> None, disables |-> FALSE]

Init ==
    /\ conf \in [Accounts -> Confs]
    /\ pool = Copied(conf)
    /\ cooldown = [a \in Accounts |-> 0]
    /\ errorCount = [a \in Accounts |-> 0]
    /\ req = [p \in Reqs |-> Fresh]
    /\ admin = NoEdit /\ off = {} /\ edits = 0

-----------------------------------------------------------------------------
(* pool.Reload.  Every request remembers (for the properties only) which   *)
(* accounts it could have been given ever since it started, and whether    *)
(* an account has joined since or left before the attempts were counted.   *)

Watch(r, before, after) ==
    IF r.pc = "new" THEN r ELSE
    [r EXCEPT !.steady = @ \cap {s.id : s \in MembersOf(after)},
              !.calm = /\ @
                       /\ Enabled(after) \subseteq Enabled(before)
                       /\ r.pc = "count" => Enabled(after) = Enabled(before)]

\* next is what the requests become through the step that reloads.
Reload(next) ==
    /\ pool' = Copied(conf)
    /\ req' = [p \in Reqs |-> Watch(next[p], pool, pool')]

-----------------------------------------------------------------------------
(* The handler's first selection and the loop's attempts.                  *)

Arrive(p) ==
    /\ req[p].pc = "new"
    /\ \E a \in Pick({}) :
          IF a = None
          THEN req' = [req EXCEPT ![p].pc = "rejected"]
          ELSE req' = [req EXCEPT ![p].pc = "count", ![p].account = a,
                                  ![p].rec = pool[a],
                                  ![p].steady = {s.id : s \in Members}]
    /\ UNCHANGED <<conf, pool, poolVars, adminVars>>

\* Mutant of Count: only the accounts that are not cooling down count.
Count_Available == Cardinality({a \in Enabled(pool) : cooldown[a] = 0})

\* All enabled accounts count, those without a slot included.
Count == Cardinality(Enabled(pool))

CountAttempts(p) ==
    /\ req[p].pc = "count"
    /\ req' = [req EXCEPT ![p].pc = "attempt",
                          ![p].budget = IF Count < 1 THEN 1 ELSE Count]
    /\ UNCHANGED <<conf, pool, poolVars, adminVars>>

\* The initial account serves the first attempt; later ones select afresh.
Candidates(r) == IF r.account # None /\ r.account \notin r.tried
                 THEN {r.account} ELSE Pick(r.tried)

GiveUp(p) ==
    /\ req[p].pc = "attempt"
    /\ req[p].attempt >= req[p].budget \/ None \in Candidates(req[p])
    /\ req' = [req EXCEPT ![p].pc = "exhausted", ![p].account = None]
    /\ UNCHANGED <<conf, pool, poolVars, adminVars>>

\* Mutant of Attempt: an account is marked as tried before the check for nil.
Attempt_MarksNil(p) ==
    /\ req[p].pc = "attempt" /\ req[p].attempt < req[p].budget
    /\ \E a \in Candidates(req[p]) :
          req' = [req EXCEPT ![p].pc = IF a = None THEN "exhausted" ELSE "token",
                             ![p].account = a,
                             ![p].rec = IF a \in {None, req[p].account} THEN @ ELSE pool[a],
                             ![p].tried = @ \cup {a}, ![p].started = FALSE]
    /\ UNCHANGED <<conf, pool, poolVars, adminVars>>

Attempt(p) ==
    /\ req[p].pc = "attempt" /\ req[p].attempt < req[p].budget
    /\ \E a \in Candidates(req[p]) \ {None} :
          req' = [req EXCEPT ![p].pc = "token", ![p].account = a,
                             ![p].rec = IF a = req[p].account THEN @ ELSE pool[a],
                             ![p].tried = @ \cup {a}, ![p].started = FALSE]
    /\ UNCHANGED <<conf, pool, poolVars, adminVars>>

TokenValid(p) ==
    /\ req[p].pc = "token"
    /\ req' = [req EXCEPT ![p].pc = "call"]
    /\ UNCHANGED <<conf, pool, poolVars, adminVars>>

TokenFails(p, e) ==
    /\ req[p].pc = "token"
    /\ req' = [req EXCEPT ![p].pc = "settle", ![p].err = e, ![p].token = TRUE]
    /\ UNCHANGED <<conf, pool, poolVars, adminVars>>

-----------------------------------------------------------------------------
(* CallKiroAPI: it streams to the client while it runs, then ends.         *)

Emit(p) ==
    /\ req[p].pc = "call"
    /\ req' = [req EXCEPT ![p].started = TRUE, ![p].sources = @ \cup {req[p].account}]
    /\ UNCHANGED <<conf, pool, poolVars, adminVars>>

CallFails(p, e) ==
    /\ req[p].pc = "call"
    /\ req' = [req EXCEPT ![p].pc = "settle", ![p].err = e, ![p].token = FALSE]
    /\ UNCHANGED <<conf, pool, poolVars, adminVars>>

\* RecordSuccess, at the end of the handler.
CallSucceeds(p) ==
    /\ req[p].pc = "call"
    /\ cooldown' = [cooldown EXCEPT ![req[p].account] = 0]
    /\ errorCount' = [errorCount EXCEPT ![req[p].account] = 0]
    /\ req' = [req EXCEPT ![p].pc = "clear"]
    /\ UNCHANGED <<conf, pool, adminVars>>

\* clearAccountAuthBanOnSuccess: the record it writes back is the one the
\* pool held when the account was selected.
ClearBan(p) ==
    /\ req[p].pc = "clear"
    /\ IF req[p].rec.ban = "auth"
       THEN /\ conf' = [conf EXCEPT ![req[p].account] =
                           [req[p].rec EXCEPT !.enabled = TRUE, !.ban = "none"]]
            /\ req' = [req EXCEPT ![p].pc = "cleared"]
       ELSE /\ req' = [req EXCEPT ![p].pc = "answered"]
            /\ UNCHANGED conf
    /\ UNCHANGED <<pool, poolVars, adminVars>>

ClearReload(p) ==
    /\ req[p].pc = "cleared"
    /\ Reload([req EXCEPT ![p].pc = "answered"])
    /\ UNCHANGED <<conf, poolVars, adminVars>>

-----------------------------------------------------------------------------
(* handleAccountFailure: one case for each class of error message.         *)

Charge(a, ranks) ==
    /\ errorCount' = [errorCount EXCEPT ![a] = IF @ < 3 THEN @ + 1 ELSE 3]
    /\ \E n \in ranks : cooldown' = [cooldown EXCEPT ![a] = n]

\* RecordError(id, false) cools down from the third error in a row.
Plain(a) == IF errorCount[a] >= 2 THEN 1..MaxRank ELSE {cooldown[a]}

\* After the failure is settled: a token error goes on with the next account,
\* an error that reached the client or is no failover error goes back to it.
\* Mutant of Settled: what has been streamed already is forgotten.
Settled_Restart(r) ==
    IF r.token \/ r.err.failover
    THEN [r EXCEPT !.pc = "attempt", !.account = None, !.attempt = @ + 1]
    ELSE [r EXCEPT !.pc = "failed"]

\* Mutant of Settled: the same account is tried until its token is valid.
Settled_SameAgain(r) ==
    IF r.token THEN [r EXCEPT !.pc = "token"]
    ELSE IF r.err.failover /\ ~r.started
    THEN [r EXCEPT !.pc = "attempt", !.account = None, !.attempt = @ + 1]
    ELSE [r EXCEPT !.pc = "failed"]

Settled(r) ==
    IF r.token \/ (r.err.failover /\ ~r.started)
    THEN [r EXCEPT !.pc = "attempt", !.account = None, !.attempt = @ + 1]
    ELSE [r EXCEPT !.pc = "failed"]

\* RecordRateLimit, RecordError(id, true), RecordError(id, false).
SettleInPool(p) ==
    /\ req[p].pc = "settle" /\ req[p].err.settle \in {"rate", "quota", "other"}
    /\ Charge(req[p].account, IF req[p].err.settle = "other"
                              THEN Plain(req[p].account) ELSE 1..MaxRank)
    /\ req' = [req EXCEPT ![p] = Settled(@)]
    /\ UNCHANGED <<conf, pool, adminVars>>

\* disableAccountOverage: the upstream's overage status, when it can be
\* fetched, replaces the field in the configuration, and the pool reloads.
FetchOverage(p) ==
    /\ req[p].pc = "settle" /\ req[p].err.settle = "overage"
    /\ \/ \E allowed \in BOOLEAN :
             /\ conf' = [conf EXCEPT ![req[p].account].permit = allowed]
             /\ req' = [req EXCEPT ![p].pc = "snapshot"]
       \/ /\ req' = [req EXCEPT ![p].pc = "charge"]
          /\ UNCHANGED conf
    /\ UNCHANGED <<pool, poolVars, adminVars>>

SnapshotReload(p) ==
    /\ req[p].pc = "snapshot"
    /\ Reload([req EXCEPT ![p].pc = "charge"])
    /\ UNCHANGED <<conf, poolVars, adminVars>>

ChargeOverage(p) ==
    /\ req[p].pc = "charge"
    /\ Charge(req[p].account, Plain(req[p].account))
    /\ req' = [req EXCEPT ![p] = Settled(@)]
    /\ UNCHANGED <<conf, pool, adminVars>>

\* disableAccount: the whole record of the selected copy is written back.
Disable(p) ==
    /\ req[p].pc = "settle" /\ req[p].err.settle \in {"banned", "expired"}
    /\ conf' = [conf EXCEPT ![req[p].account] =
                   [req[p].rec EXCEPT !.enabled = FALSE,
                        !.ban = IF req[p].err.settle = "expired" THEN "auth" ELSE "other"]]
    /\ req' = [req EXCEPT ![p].pc = "disabled"]
    /\ UNCHANGED <<pool, poolVars, adminVars>>

\* Mutant of DisableReload: the ban is written but the pool is not reloaded.
DisableReload_Skipped(p) ==
    /\ req[p].pc = "disabled"
    /\ req' = [req EXCEPT ![p] = Settled(@)]
    /\ UNCHANGED <<conf, pool, poolVars, adminVars>>

DisableReload(p) ==
    /\ req[p].pc = "disabled"
    /\ Reload([req EXCEPT ![p] = Settled(@)])
    /\ UNCHANGED <<conf, poolVars, adminVars>>

-----------------------------------------------------------------------------
(* The administrator: an edit is written, then the pool is reloaded.  The  *)
(* enable actions also lift a ban; the PUT of an account does not.         *)

\* A cooldown runs out.
Expire(a) ==
    /\ cooldown[a] > 0
    /\ cooldown' = [cooldown EXCEPT ![a] = 0]
    /\ UNCHANGED <<conf, pool, errorCount, req, adminVars>>

Edit(a, e) ==
    /\ admin = NoEdit /\ edits < MaxEdits
    /\ conf' = [conf EXCEPT ![a] = e]
    /\ admin' = [id |-> a, disables |-> conf[a].enabled /\ ~e.enabled]
    /\ off' = IF e.enabled THEN off \ {a} ELSE off
    /\ edits' = edits + 1
    /\ UNCHANGED <<pool, poolVars, req>>

EditReload ==
    /\ admin # NoEdit
    /\ Reload(req)
    /\ off' = IF admin.disables THEN off \cup {admin.id} ELSE off
    /\ admin' = NoEdit
    /\ UNCHANGED <<conf, poolVars, edits>>

\* The edits: switch an account on, with or without its ban, or off, or
\* change whether it may go over its limit.
Edits(a) == {[conf[a] EXCEPT !.enabled = TRUE],
             [conf[a] EXCEPT !.enabled = TRUE, !.ban = "none"],
             [conf[a] EXCEPT !.enabled = FALSE],
             [conf[a] EXCEPT !.permit = ~@]} \ {conf[a]}

-----------------------------------------------------------------------------
Run(p) == \/ Arrive(p) \/ CountAttempts(p) \/ GiveUp(p) \/ Attempt(p)
          \/ TokenValid(p) \/ CallSucceeds(p) \/ ClearBan(p) \/ ClearReload(p)
          \/ \E e \in Errors : TokenFails(p, e) \/ CallFails(p, e)
          \/ SettleInPool(p) \/ FetchOverage(p) \/ SnapshotReload(p)
          \/ ChargeOverage(p) \/ Disable(p) \/ DisableReload(p)

Next == \/ \E p \in Reqs : Run(p) \/ Emit(p)
        \/ \E a \in Accounts : Expire(a) \/ \E e \in Edits(a) : Edit(a, e)
        \/ EditReload

Spec == Init /\ [][Next]_vars

\* The goroutine of a request runs, and a call to the upstream ends.
FairSpec == Spec /\ \A p \in Reqs : WF_vars(Run(p))

-----------------------------------------------------------------------------
Ended == {"rejected", "answered", "failed", "exhausted"}

\* Every variable keeps its type.
TypeOK ==
    /\ conf \in [Accounts -> Entry] /\ pool \in [Accounts -> Entry]
    /\ cooldown \in [Accounts -> 0..MaxRank]
    /\ errorCount \in [Accounts -> 0..3]
    /\ req \in [Reqs -> [pc: {"new", "count", "attempt", "token", "call", "settle",
                              "snapshot", "charge", "disabled", "clear", "cleared"}
                             \cup Ended,
                         account: Accounts \cup {None}, rec: Entry,
                         tried: SUBSET Accounts, attempt: Nat, budget: Nat,
                         started: BOOLEAN, token: BOOLEAN,
                         err: [settle: Settles, failover: BOOLEAN],
                         sources: SUBSET Accounts, steady: SUBSET Accounts,
                         calm: BOOLEAN]]
    /\ admin \in [id: Accounts \cup {None}, disables: BOOLEAN] /\ off \in SUBSET Accounts
    /\ edits \in 0..MaxEdits

\* The client never receives output of two accounts: once an account has
\* streamed anything the request ends with that account, whatever the error
\* (handler.go:1343-1347).
OneSource ==
    \A p \in Reqs : \E a \in Accounts \cup {None} :
        /\ req[p].sources \subseteq {a}
        /\ req[p].pc \in {"answered", "failed"} => req[p].account = a

\* A request gives up only after it has tried every account that was there
\* for it all along, provided that no account joined the pool meanwhile and
\* none left before the attempts were counted (handler.go:1309-1325).
GivesUpLast ==
    \A p \in Reqs : (req[p].pc = "exhausted" /\ req[p].calm)
                        => req[p].steady \subseteq req[p].tried

Pending == admin # NoEdit \/ \E p \in Reqs :
               req[p].pc \in {"snapshot", "disabled", "cleared"}

\* Whatever the order in which requests and the administrator write and
\* reload, once all have reloaded the pool holds the enabled accounts as the
\* configuration has them (account_failover.go:65-127).
PoolFollowsConfig == ~Pending => pool = Copied(conf)

\* "Disabled accounts will not be used for proxy requests until enabled
\* again": once the administrator's disabling is complete, no request selects
\* the account before an administrator enables it (account_failover.go:85-110).
DisabledNotUsed ==
    [][\A p \in Reqs : LET a == req'[p].account
                       IN  a \in {None, req[p].account} \/ a \notin off]_vars

\* Every request ends, whatever accounts fail, cool down or are edited.
EveryRequestEnds == \A p \in Reqs : req[p].pc # "new" ~> req[p].pc \in Ended
=============================================================================
