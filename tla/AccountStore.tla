----------------------------- MODULE AccountStore -----------------------------
(***************************************************************************)
(* The accounts of the configuration and everyone who writes them: edits,  *)
(* deletions and imports of the admin API, the refreshes of tokens and     *)
(* account information, and requests that refresh the token of the account *)
(* they were given.  Nearly all work on a copy taken earlier: some write   *)
(* the copy back whole, some write one field, and four deletions replace   *)
(* the list of accounts by a filtered copy, without cfgLock.  The pool     *)
(* holds another copy of each enabled account.                             *)
(*                                                                         *)
(* A token is its number: the identity provider (external) gives token t+1 *)
(* in exchange for t, once.  The usage figures of an account are left out, *)
(* and so is Save, which every write below ends with.                      *)
(***************************************************************************)
EXTENDS Naturals, FiniteSets

CONSTANTS Accounts,            \* account ids
          Sessions,            \* goroutines: one operation each
          Kinds,               \* the operations of this instance
          Absent,              \* no such account
          None,
          Suspends,            \* whether the upstream suspends accounts
          Initial,             \* configurations that a run starts from
          MaxTokens            \* bound on the tokens issued per account

VARIABLES store,     \* config.Accounts, by id
          pool,      \* the pool's copy of each enabled account
          issued,    \* the token the provider accepts
          lapsed,    \* access tokens below this number are (nearly) expired
          born,      \* ids that have ever been added
          work       \* what each session is doing

vars == <<store, pool, issued, lapsed, born, work>>
provider == <<issued, lapsed>>

Entry == [enabled: BOOLEAN, ban: {"none", "auth", "other"}, token: Nat]

\* The six refreshes: which accounts of their snapshot they take, when they
\* refresh a token, where they go on when that fails, whether they reload.
Plans == [background |-> [only |-> "enabled", when |-> "due", failed |-> "next", reload |-> TRUE],
          bulk       |-> [only |-> "unbanned", when |-> "always", failed |-> "next", reload |-> TRUE],
          batch      |-> [only |-> "any", when |-> "always", failed |-> "info", reload |-> TRUE],
          credits    |-> [only |-> "enabled", when |-> "never", failed |-> "next", reload |-> TRUE],
          check      |-> [only |-> "any", when |-> "always", failed |-> "next", reload |-> FALSE],
          single     |-> [only |-> "any", when |-> "due", failed |-> "next", reload |-> FALSE]]

Refreshes == DOMAIN Plans

Operations == Refreshes \cup {"edit", "delete", "remove", "add", "serve"}

ASSUME StoreAssumption ==
    /\ Kinds \subseteq Operations
    /\ None \notin Accounts \cup Operations /\ Absent \notin Entry
    /\ Suspends \in BOOLEAN
    /\ Initial \subseteq [Accounts -> {e \in Entry : e.token = 0} \cup {Absent}]
    /\ MaxTokens \in Nat

Present(f) == {a \in Accounts : f[a] # Absent}

Copied(s) == [a \in Accounts |->
                 IF a \in Present(s) /\ s[a].enabled THEN s[a] ELSE Absent]

Blank == [a \in Accounts |-> Absent]

NoWork == [pc |-> "new", kind |-> None, snap |-> Blank, todo |-> {}, at |-> None,
           token |-> 0, change |-> None, live |-> FALSE, again |-> FALSE]

Init == /\ store \in Initial
        /\ pool = Copied(store)
        /\ issued = [a \in Accounts |-> 0] /\ lapsed = [a \in Accounts |-> 0]
        /\ born = Present(store)
        /\ work = [s \in Sessions |-> NoWork]

\* UpdateAccount and the updates of one field leave a deleted account alone.
\* Mutant: the record is written whether or not the account is there.
Written_Always(a, e) == [store EXCEPT ![a] = e]

Written(a, e) == IF store[a] = Absent THEN store ELSE [store EXCEPT ![a] = e]

\* Mutant: a token is written for an account that is gone, too.
TokenWritten_Upsert(f, a, t) ==
    IF f[a] = Absent THEN [f EXCEPT ![a] = [token |-> t]] ELSE [f EXCEPT ![a].token = t]

TokenWritten(f, a, t) == IF f[a] = Absent THEN f ELSE [f EXCEPT ![a].token = t]

\* A request works on a pointer into the pool's slots, which Reload leaves
\* behind; the other sessions on the copy they took.
Mine(s) == IF work[s].live THEN pool[work[s].at] ELSE work[s].snap[work[s].at]

Detached(w) == IF w.live THEN [w EXCEPT !.snap[w.at] = pool[w.at], !.live = FALSE] ELSE w

\* Reload of the pool by session s, which goes on at next.
ReloadThen(s, next) ==
    /\ pool' = Copied(store)
    /\ work' = [r \in Sessions |-> [Detached(work[r]) EXCEPT !.pc = IF r = s THEN next ELSE @]]
    /\ UNCHANGED <<store, provider, born>>

-----------------------------------------------------------------------------
(* Edits: the whole record of the snapshot is written back.                *)

\* enable also lifts a ban, the PUT of an account does not; the PUT may also
\* leave alone what is modelled here.
Changed(e, change) ==
    CASE change = "enable"  -> [e EXCEPT !.enabled = TRUE, !.ban = "none"]
      [] change = "disable" -> [e EXCEPT !.enabled = FALSE]
      [] change = "reopen"  -> [e EXCEPT !.enabled = TRUE]
      [] change = "other"   -> e

BeginEdit(s) ==
    /\ "edit" \in Kinds /\ work[s].pc = "new"
    /\ \E T \in SUBSET Present(store) \ {{}},
          change \in {"enable", "disable", "reopen", "other"} :
          work' = [work EXCEPT ![s] = [NoWork EXCEPT !.pc = "write", !.kind = "edit",
                      !.snap = store, !.todo = T, !.change = change]]
    /\ UNCHANGED <<store, pool, provider, born>>

WriteEdit(s) ==
    /\ work[s].pc = "write"
    /\ \E a \in work[s].todo :
          /\ store' = Written(a, Changed(work[s].snap[a], work[s].change))
          /\ work' = [work EXCEPT ![s].todo = @ \ {a},
                                  ![s].pc = IF work[s].todo = {a} THEN "reload" ELSE @]
    /\ UNCHANGED <<pool, provider, born>>

\* Mutant of FinalReload: the pool is left as it is.
FinalReload_Skipped(s) ==
    /\ work[s].pc = "reload"
    /\ work' = [work EXCEPT ![s].pc = "done"]
    /\ UNCHANGED <<store, pool, provider, born>>

\* The reload that ends most operations.
FinalReload(s) == work[s].pc = "reload" /\ ReloadThen(s, "done")

-----------------------------------------------------------------------------
(* Deletions, under the lock and not, and additions.                       *)

BeginDelete(s) ==
    /\ "delete" \in Kinds /\ work[s].pc = "new"
    /\ \E T \in SUBSET Present(store) \ {{}} :
          work' = [work EXCEPT ![s] = [NoWork EXCEPT !.pc = "delete", !.kind = "delete",
                                                     !.todo = T]]
    /\ UNCHANGED <<store, pool, provider, born>>

DeleteAccount(s) ==
    /\ work[s].pc = "delete"
    /\ \E a \in work[s].todo :
          /\ store' = [store EXCEPT ![a] = Absent]
          /\ work' = [work EXCEPT ![s].todo = @ \ {a},
                                  ![s].pc = IF work[s].todo = {a} THEN "reload" ELSE @]
    /\ UNCHANGED <<pool, provider, born>>

\* deleteConnection removes one account of its copy; the three clean-ups the
\* exhausted, the expired or the banned ones.
BeginRemove(s) ==
    /\ "remove" \in Kinds /\ work[s].pc = "new"
    /\ \E T \in SUBSET Present(store) \ {{}} :
          work' = [work EXCEPT ![s] = [NoWork EXCEPT !.pc = "replace", !.kind = "remove",
                                                     !.snap = store, !.todo = T]]
    /\ UNCHANGED <<store, pool, provider, born>>

\* cfg.Accounts = keep
Replace(s) ==
    /\ work[s].pc = "replace"
    /\ store' = [a \in Accounts |-> IF a \in work[s].todo THEN Absent ELSE work[s].snap[a]]
    /\ work' = [work EXCEPT ![s].pc = "reload"]
    /\ UNCHANGED <<pool, provider, born>>

AddAccount(s) ==
    /\ "add" \in Kinds /\ work[s].pc = "new"
    /\ \E a \in Accounts \ born :
          /\ store' = [store EXCEPT ![a] = [enabled |-> TRUE, ban |-> "none", token |-> issued[a]]]
          /\ born' = born \cup {a}
    /\ work' = [work EXCEPT ![s].pc = "reload", ![s].kind = "add"]
    /\ UNCHANGED <<pool, provider>>

-----------------------------------------------------------------------------
(* The identity provider and the clock.                                    *)

\* Some session has a new token of the account that is not everywhere yet.
Refreshing(a) == \E s \in Sessions :
    work[s].at = a /\ work[s].pc \in {"granted", "pooled", "stored"}

\* An access token outlives the refresh that brought it.
Lapse(a) ==
    /\ ~Refreshing(a)
    /\ lapsed' = [lapsed EXCEPT ![a] = issued[a] + 1]
    /\ lapsed' # lapsed
    /\ UNCHANGED <<store, pool, issued, born, work>>

Due(a, t) == t < lapsed[a]

\* auth.RefreshToken on the session's copy of the account.
TokenGranted(s) ==
    LET a == work[s].at IN
    /\ work[s].pc = "ask" /\ Mine(s).token = issued[a] /\ issued[a] < MaxTokens
    /\ issued' = [issued EXCEPT ![a] = @ + 1]
    /\ work' = [work EXCEPT ![s].pc = "granted", ![s].token = issued[a] + 1]
    /\ UNCHANGED <<store, pool, lapsed, born>>

\* invalid_grant: the token was exchanged before.  A refresh moves on to what
\* its plan says; a request bans the account.
TokenRefused(s) ==
    /\ work[s].pc = "ask" /\ Mine(s).token # issued[work[s].at]
    /\ work' = [work EXCEPT ![s].pc = IF work[s].kind = "serve" THEN "refused"
                                      ELSE Plans[work[s].kind].failed]
    /\ UNCHANGED <<store, pool, provider, born>>

\* The provider cannot be reached: a request only counts the error.
TokenUnreachable(s) ==
    /\ work[s].pc = "ask"
    /\ work' = [work EXCEPT ![s].pc = IF work[s].kind = "serve" THEN "done"
                                      ELSE Plans[work[s].kind].failed]
    /\ UNCHANGED <<store, pool, provider, born>>

-----------------------------------------------------------------------------
(* The refreshes: for each account of the snapshot, its token, then its    *)
(* usage and ban.                                                          *)

Taken(k, e) == /\ Plans[k].only = "enabled" => e.enabled
               /\ Plans[k].only = "unbanned" => e.ban = "none"

BeginRefresh(s) ==
    /\ work[s].pc = "new"
    /\ \E k \in Kinds \cap Refreshes :
       \E T \in SUBSET {a \in Present(store) : Taken(k, store[a])} :
          /\ k \in {"check", "single"} => Cardinality(T) = 1
          /\ k \in {"background", "credits"} =>
                T = {a \in Present(store) : Taken(k, store[a])}
          /\ work' = [work EXCEPT ![s] = [NoWork EXCEPT !.pc = "next", !.kind = k,
                                                        !.snap = store, !.todo = T]]
    /\ UNCHANGED <<store, pool, provider, born>>

\* The batch refresh reads the accounts again for each id.
NextAccount(s) ==
    LET w == work[s] IN
    /\ w.pc = "next"
    /\ \/ \E a \in w.todo :
             LET e == IF w.kind = "batch" THEN store[a] ELSE w.snap[a]
                 asks == \/ Plans[w.kind].when = "always"
                         \/ Plans[w.kind].when = "due" /\ Due(a, e.token)
             IN  work' = [work EXCEPT ![s] = [w EXCEPT !.todo = @ \ {a}, !.at = a,
                             !.snap[a] = e,
                             !.pc = IF e = Absent THEN "next" ELSE IF asks THEN "ask" ELSE "info"]]
       \/ /\ w.todo = {}
          /\ work' = [work EXCEPT ![s].pc = IF Plans[w.kind].reload THEN "reload" ELSE "done"]
    /\ UNCHANGED <<store, pool, provider, born>>

\* Mutant of StoreToken: the token the account had is written again.
StoreToken_Old(s) ==
    LET a == work[s].at IN
    /\ work[s].pc = "granted" /\ work[s].kind # "serve"
    /\ store' = TokenWritten(store, a, work[s].snap[a].token)
    /\ work' = [work EXCEPT ![s].pc = "stored", ![s].snap[a].token = work[s].token]
    /\ UNCHANGED <<pool, provider, born>>

\* UpdateAccountToken, then UpdateToken of the pool.
StoreToken(s) ==
    LET a == work[s].at IN
    /\ work[s].pc = "granted" /\ work[s].kind # "serve"
    /\ store' = TokenWritten(store, a, work[s].token)
    /\ work' = [work EXCEPT ![s].pc = "stored", ![s].snap[a].token = work[s].token]
    /\ UNCHANGED <<pool, provider, born>>

\* Mutant of PoolToken: the pool is left to its next reload.
PoolToken_Skipped(s) ==
    /\ work[s].pc = "stored"
    /\ work' = [work EXCEPT ![s].pc = IF work[s].kind = "check" THEN "clear" ELSE "info"]
    /\ UNCHANGED <<store, pool, provider, born>>

PoolToken(s) ==
    /\ work[s].pc = "stored"
    /\ pool' = TokenWritten(pool, work[s].at, work[s].token)
    /\ work' = [work EXCEPT ![s].pc = IF work[s].kind = "check" THEN "clear" ELSE "info"]
    /\ UNCHANGED <<store, provider, born>>

\* clearAccountAuthBanOnSuccess: of a request that was answered, or a check.
Clear(s) ==
    LET a == work[s].at
        next == IF work[s].kind = "check" THEN "info" ELSE "done"
        e == [Mine(s) EXCEPT !.enabled = TRUE, !.ban = "none"]
    IN  /\ work[s].pc = "clear"
        /\ IF Mine(s).ban = "auth"
           THEN /\ store' = Written(a, e)
                /\ work' = [work EXCEPT ![s].pc = "cleared",
                               ![s].snap[a] = IF work[s].live THEN @ ELSE e]
                /\ pool' = IF work[s].live THEN [pool EXCEPT ![a] = e] ELSE pool
           ELSE /\ work' = [work EXCEPT ![s].pc = next]
                /\ UNCHANGED <<store, pool>>
        /\ UNCHANGED <<provider, born>>

ClearReload(s) ==
    work[s].pc = "cleared" /\ ReloadThen(s, IF work[s].kind = "check" THEN "info" ELSE "done")

\* RefreshAccountInfo succeeds: a ban in the copy is lifted in the whole
\* record, and the copy decides whether the account is enabled.
InfoFetched(s) ==
    LET a == work[s].at
        e == work[s].snap[a]
    IN  /\ work[s].pc = "info"
        /\ store' = IF e.ban = "none" THEN store ELSE Written(a, [e EXCEPT !.ban = "none"])
        /\ work' = [work EXCEPT ![s].pc = "next"]
        /\ UNCHANGED <<pool, provider, born>>

InfoSuspended(s) ==
    /\ Suspends /\ work[s].pc = "info"
    /\ store' = Written(work[s].at, [work[s].snap[work[s].at] EXCEPT
                                        !.enabled = FALSE, !.ban = "other"])
    /\ work' = [work EXCEPT ![s].pc = "next"]
    /\ UNCHANGED <<pool, provider, born>>

\* The refresh of one account tries once more with a new token.
InfoFails(s) ==
    /\ work[s].pc = "info"
    /\ \/ work' = [work EXCEPT ![s].pc = "next"]
       \/ /\ work[s].kind = "single" /\ ~work[s].again
          /\ work' = [work EXCEPT ![s].pc = "ask", ![s].again = TRUE]
    /\ UNCHANGED <<store, pool, provider, born>>

-----------------------------------------------------------------------------
(* Requests: ensureValidToken of the account the pool handed out.          *)

BeginServe(s) ==
    /\ "serve" \in Kinds /\ work[s].pc = "new"
    /\ \E a \in Present(pool) :
          work' = [work EXCEPT ![s] = [NoWork EXCEPT !.kind = "serve", !.at = a, !.live = TRUE,
                      !.pc = IF Due(a, pool[a].token) THEN "ask" ELSE "clear"]]
    /\ UNCHANGED <<store, pool, provider, born>>

\* The pool and the request's own copy first, the configuration second.
ServeToken(s) ==
    LET a == work[s].at IN
    /\ work[s].pc = "granted" /\ work[s].kind = "serve"
    /\ pool' = TokenWritten(pool, a, work[s].token)
    /\ work' = [work EXCEPT ![s].pc = "pooled",
                   ![s].snap = IF work[s].live THEN @ ELSE TokenWritten(@, a, work[s].token)]
    /\ UNCHANGED <<store, provider, born>>

ServeStore(s) ==
    /\ work[s].pc = "pooled"
    /\ store' = TokenWritten(store, work[s].at, work[s].token)
    /\ work' = [work EXCEPT ![s].pc = "clear"]
    /\ UNCHANGED <<pool, provider, born>>

\* disableAccount: "Authentication failed - token invalid or expired".
ServeBan(s) ==
    /\ work[s].pc = "refused"
    /\ store' = Written(work[s].at, [Mine(s) EXCEPT !.enabled = FALSE, !.ban = "auth"])
    /\ work' = [work EXCEPT ![s].pc = "reload"]
    /\ UNCHANGED <<pool, provider, born>>

-----------------------------------------------------------------------------
Operate(s) == \/ BeginEdit(s) \/ WriteEdit(s) \/ FinalReload(s)
              \/ BeginDelete(s) \/ DeleteAccount(s)
              \/ BeginRemove(s) \/ Replace(s)
              \/ AddAccount(s)

Refresh(s) == \/ BeginRefresh(s) \/ NextAccount(s) \/ StoreToken(s) \/ PoolToken(s)
              \/ Clear(s) \/ ClearReload(s)
              \/ InfoFetched(s) \/ InfoSuspended(s) \/ InfoFails(s)

Serve(s) == BeginServe(s) \/ ServeToken(s) \/ ServeStore(s) \/ ServeBan(s)

Provider(s) == TokenGranted(s) \/ TokenRefused(s) \/ TokenUnreachable(s)

Next == \/ \E s \in Sessions : Operate(s) \/ Refresh(s) \/ Serve(s) \/ Provider(s)
        \/ \E a \in Accounts : Lapse(a)

Spec == Init /\ [][Next]_vars

-----------------------------------------------------------------------------
Slot == Entry \cup {Absent}

\* Every variable keeps its type.
TypeOK ==
    /\ store \in [Accounts -> Slot] /\ pool \in [Accounts -> Slot]
    /\ issued \in [Accounts -> Nat] /\ lapsed \in [Accounts -> Nat]
    /\ born \in SUBSET Accounts
    /\ \A s \in Sessions :
          /\ work[s].pc \in {"new", "write", "reload", "done", "delete", "replace", "next",
                             "ask", "granted", "refused", "stored", "pooled", "clear",
                             "cleared", "info"}
          /\ work[s].kind \in Kinds \cup {None}
          /\ work[s].snap \in [Accounts -> Slot] /\ work[s].todo \in SUBSET Accounts
          /\ work[s].at \in Accounts \cup {None} /\ work[s].token \in Nat

Removing(a) == \E s \in Sessions : work[s].kind \in {"delete", "remove"} /\ a \in work[s].todo

\* The operations begun so far are among these.
Only(kinds) == \A s \in Sessions : work[s].kind \in kinds \cup {None}

AllBut(kinds) == Kinds \ kinds

\* Without the deletions that replace the list, an account that was deleted
\* never comes back, and one that is there goes only when somebody deletes
\* that account, although everybody else writes whole records and tokens from
\* copies taken before (config.go:240-336).
Membership ==
    [][Only(AllBut({"remove"})) =>
          \A a \in Accounts :
             /\ a \in born /\ store[a] = Absent => store'[a] = Absent
             /\ store[a] # Absent /\ store'[a] = Absent => Removing(a)]_vars

\* "This action cannot be undone": what Membership says of deletions, with
\* those that replace the list.
DeletedStaysDeleted ==
    [][\A a \in born : store[a] = Absent => store'[a] = Absent]_vars

\* Some session has exchanged the account's token and not written the new one.
InHand(a) == \E s \in Sessions : work[s].at = a /\ work[s].pc \in {"granted", "pooled"}

\* A ban is written, and lifted, with the whole record of an older copy.
NeverBanned(a) == /\ store[a] # Absent => store[a].ban = "none"
                  /\ \A s \in Sessions : LET e == work[s].snap[a]
                                         IN  e # Absent => e.ban = "none"

\* As long as everybody writes single fields, the token in the configuration
\* is one the provider still accepts, except while a refresh has the next one
\* in hand (handler.go:251-288).
TokenKept ==
    Only({"background", "bulk", "delete", "add"}) =>
        \A a \in Present(store) :
            NeverBanned(a) => InHand(a) \/ store[a].token = issued[a]

\* While only the timer refreshes tokens, the pool's copy of an account has
\* the token of the configuration, although pools are reloaded while tokens
\* are written to both (handler.go:251-288, 2118-2142).
PoolHasToken ==
    Only({"background", "delete", "add"}) =>
        \A a \in Present(store) \cap Present(pool) :
            NeverBanned(a) => Refreshing(a) \/ pool[a].token = store[a].token

Quiet == \A s \in Sessions : work[s].pc \in {"new", "done"}

\* Edits, deletions, additions, bans and refreshes each write the
\* configuration in several steps and reload when they are through, but for
\* the refresh and the check of one account: when all have, the pool holds
\* the enabled accounts, with their bans (account.go:40-60).
PoolFollowsStore ==
    Quiet /\ Only(AllBut({"single", "check"})) =>
        \A a \in Accounts : LET c == Copied(store)[a] IN
            /\ pool[a] = Absent <=> c = Absent
            /\ c # Absent => pool[a].ban = c.ban
===============================================================================
