--------------------------- MODULE Failover_proofs ---------------------------
(***************************************************************************)
(* Proofs about the failover loop, for every set of requests, accounts and *)
(* errors, and whatever the administrator edits meanwhile.                 *)
(***************************************************************************)
EXTENDS Failover, FiniteSetTheorems, TLAPS

Places == {"new", "count", "attempt", "token", "call", "settle", "snapshot", "charge",
           "disabled", "clear", "cleared"} \cup Ended

Request == [pc: Places, account: Accounts \cup {None}, rec: Entry, tried: SUBSET Accounts,
            attempt: Nat, budget: Nat, started: BOOLEAN, token: BOOLEAN,
            err: [settle: Settles, failover: BOOLEAN], sources: SUBSET Accounts,
            steady: SUBSET Accounts, calm: BOOLEAN]

\* The places at which a request has an account of its own.
Placed == Places \ {"new", "rejected", "attempt", "exhausted"}

Requests ==
    /\ req \in [Reqs -> Request]
    /\ \A p \in Reqs : req[p].pc \in Placed => req[p].account \in Accounts

Stores ==
    /\ conf \in [Accounts -> Entry] /\ pool \in [Accounts -> Entry]
    /\ cooldown \in [Accounts -> 0..MaxRank]
    /\ errorCount \in [Accounts -> 0..3]

AdminType ==
    /\ admin \in [id: Accounts \cup {None}, disables: BOOLEAN]
    /\ admin # NoEdit => admin.id \in Accounts
    /\ off \in SUBSET Accounts /\ edits \in 0..MaxEdits

Types == Requests /\ Stores /\ AdminType

-----------------------------------------------------------------------------
LEMMA CopiedType ==
    ASSUME NEW c \in [Accounts -> Entry]
    PROVE  Copied(c) \in [Accounts -> Entry]
BY DEF Copied, Absent, Entry

LEMMA InitTypes == Init => Types
<1> SUFFICES ASSUME Init PROVE Types
  OBVIOUS
<1>1. conf \in [Accounts -> Entry]
  BY FailoverAssumption DEF Init
<1>2. pool \in [Accounts -> Entry]
  BY <1>1, CopiedType DEF Init
<1>3. Fresh \in Request /\ Fresh.pc \notin Placed
  BY DEF Fresh, Request, Places, Placed, Absent, Entry, NoError, Settles
<1>4. Requests
  BY <1>3 DEF Init, Requests
<1> QED
  BY <1>1, <1>2, <1>4, FailoverAssumption DEF Init, Types, Stores, AdminType, NoEdit

\* The ids of the members are enabled accounts.
LEMMA MemberIds ==
    ASSUME NEW q \in [Accounts -> Entry]
    PROVE  {s.id : s \in MembersOf(q)} \subseteq Enabled(q) /\ Enabled(q) \subseteq Accounts
BY DEF MembersOf, Enabled

\* A selection returns an account that has slots and is not excluded, or nil if
\* there is none.
LEMMA Picked ==
    ASSUME Stores, NEW S, NEW a \in Pick(S)
    PROVE  /\ a \in Accounts \cup {None}
           /\ a # None => a \in {s.id : s \in Members} \ S
           /\ a = None => {s.id : s \in Members} \subseteq S
<1> DEFINE E == Eligible(Members, NoLists, Excluding(S))
<1>1. E = {s.id : s \in Members} \ S
  <2>1. ASSUME NEW s \in Members
        PROVE  Fits(s, NoLists, Excluding(S)) <=> s.id \notin S
    <3>1. PICK b \in {x \in Enabled(pool) : x \notin Over \/ pool[x].permit} :
             s = [id |-> b, over |-> b \in Over, permit |-> pool[b].permit]
      BY DEF Members, MembersOf
    <3>2. ~QuotaBlocked(s, FALSE)
      BY <3>1 DEF QuotaBlocked
    <3>3. HasModel(NoLists, s.id, AnyModel)
      BY DEF HasModel
    <3>4. /\ Excluding(S).excl = S /\ Excluding(S).allow = FALSE
          /\ Excluding(S).model = AnyModel
      BY DEF Excluding
    <3> QED
      BY <3>2, <3>3, <3>4 DEF Fits
  <2> QED
    BY <2>1 DEF Eligible
<1>2. {s.id : s \in Members} \subseteq Accounts
  BY MemberIds DEF Stores, Members
<1> HIDE DEF E
<1>3. a \in E \/ (a = None /\ E = {})
  BY DEF Pick, Choices, Earliest, E
<1> QED
  BY <1>1, <1>2, <1>3, SentinelAssumption

-----------------------------------------------------------------------------
(* The invariant.                                                          *)

\* What was streamed came from the account of the request; before an account
\* is called, nothing was.
Sound(r) ==
    /\ r.sources \subseteq (IF r.started THEN {r.account} ELSE {})
    /\ r.pc \in {"new", "count", "attempt", "token", "rejected", "exhausted"} => ~r.started
    /\ r.pc \in {"settle", "snapshot", "charge", "disabled"} => ~(r.token /\ r.started)

\* Each attempt tried an account of its own.
Counted(r) ==
    /\ r.pc \in {"new", "count"} => r.tried = {} /\ r.attempt = 0
    /\ r.pc = "attempt" => r.account \notin r.tried /\ Cardinality(r.tried) = r.attempt
    /\ r.pc \in {"token", "call", "settle", "snapshot", "charge", "disabled"}
          => Cardinality(r.tried) = r.attempt + 1

Slots(q) == {s.id : s \in MembersOf(q)}

Trying == {"attempt", "token", "call", "settle", "snapshot", "charge", "disabled"}

\* While no account has joined, the accounts tried and those that are there now
\* are of one set that the budget covers.
Covered(r, q) ==
    \E S \in SUBSET Accounts : /\ Cardinality(S) <= r.budget
                               /\ Enabled(q) \subseteq S
                               /\ r.tried \subseteq S
                               /\ r.account # None => r.account \in S

Watched(r, q) ==
    /\ r.pc \notin {"new", "rejected"} => r.steady \subseteq Slots(q)
    /\ r.pc = "count" /\ r.calm => r.account \in Enabled(q)
    /\ r.pc \in Trying /\ r.calm => Covered(r, q)
    /\ r.pc = "exhausted" /\ r.calm => r.steady \subseteq r.tried

Good(r, q) ==
    /\ r \in Request
    /\ r.pc \in Placed => r.account \in Accounts
    /\ Sound(r) /\ Counted(r) /\ Watched(r, q)

GoodRequests == req \in [Reqs -> Request] /\ \A p \in Reqs : Good(req[p], pool)

IInv == GoodRequests /\ Stores /\ AdminType /\ PoolFollowsConfig

-----------------------------------------------------------------------------
(* The requests.                                                           *)

\* One request changes.
LEMMA OneChanges ==
    ASSUME GoodRequests, NEW p \in Reqs, NEW n, Good(n, pool), pool' = pool,
           req' = [req EXCEPT ![p] = n]
    PROVE  GoodRequests'
<1>1. n \in Request
  BY DEF Good
<1>2. req' \in [Reqs -> Request]
  BY <1>1 DEF GoodRequests
<1>3. \A o \in Reqs : Good(req'[o], pool)
  BY DEF GoodRequests
<1>4. \A o \in Reqs : Good(req'[o], pool')
  BY <1>3
<1> QED
  BY <1>2, <1>4 DEF GoodRequests

\* What a request becomes when the pool is reloaded.
LEMMA WatchKeeps ==
    ASSUME NEW q \in [Accounts -> Entry], NEW q1 \in [Accounts -> Entry],
           NEW r, Good(r, q)
    PROVE  Good(Watch(r, q, q1), q1)
<1>1. CASE r.pc = "new"
  BY <1>1 DEF Watch, Good, Watched, Trying
<1>2. CASE r.pc # "new"
  <2> DEFINE n == Watch(r, q, q1)
  <2>1. n = [r EXCEPT !.steady = @ \cap Slots(q1),
                      !.calm = /\ @
                               /\ Enabled(q1) \subseteq Enabled(q)
                               /\ r.pc = "count" => Enabled(q1) = Enabled(q)]
    BY <1>2 DEF Watch, Slots
  <2>2. r \in Request
    BY DEF Good
  <2>3. /\ n.pc = r.pc /\ n.account = r.account /\ n.tried = r.tried /\ n.attempt = r.attempt
        /\ n.budget = r.budget /\ n.started = r.started /\ n.token = r.token
        /\ n.sources = r.sources /\ n.steady = r.steady \cap Slots(q1)
        /\ n.calm = (/\ r.calm /\ Enabled(q1) \subseteq Enabled(q)
                     /\ r.pc = "count" => Enabled(q1) = Enabled(q))
    BY <2>1, <2>2 DEF Request
  <2>4. n \in Request
    BY <2>1, <2>2 DEF Request
  <2> HIDE DEF n
  <2>5. Watched(n, q1)
    BY <2>3 DEF Good, Watched, Covered
  <2>6. Sound(n) /\ Counted(n) /\ (n.pc \in Placed => n.account \in Accounts)
    BY <2>3 DEF Good, Sound, Counted
  <2>7. Good(n, q1)
    BY <2>4, <2>5, <2>6 DEF Good
  <2> QED
    BY <2>7 DEF n
<1> QED
  BY <1>1, <1>2

LEMMA ReloadKeeps ==
    ASSUME Stores, NEW next \in [Reqs -> Request], \A p \in Reqs : Good(next[p], pool),
           Reload(next)
    PROVE  GoodRequests' /\ pool' \in [Accounts -> Entry] /\ pool' = Copied(conf)
<1>1. pool' = Copied(conf) /\ pool' \in [Accounts -> Entry]
  BY CopiedType DEF Reload, Stores
<1>2. \A p \in Reqs : Good(Watch(next[p], pool, pool'), pool')
  BY <1>1, WatchKeeps DEF Stores
<1>3. req' = [p \in Reqs |-> Watch(next[p], pool, pool')]
  BY DEF Reload
<1>4. \A p \in Reqs : Good(req'[p], pool') /\ req'[p] \in Request
  BY <1>2, <1>3 DEF Good
<1> QED
  BY <1>1, <1>3, <1>4 DEF GoodRequests

\* A step that only moves a request on to a call, an answer or a settlement.
LEMMA PcKeeps ==
    ASSUME NEW q, NEW r, Good(r, q), NEW pc \in Places,
           \/ r.pc = "token" /\ pc = "call"
           \/ r.pc = "call" /\ pc = "clear"
           \/ r.pc = "clear" /\ pc \in {"cleared", "answered"}
           \/ r.pc = "cleared" /\ pc = "answered"
           \/ r.pc = "settle" /\ pc \in {"snapshot", "charge", "disabled"}
           \/ r.pc = "snapshot" /\ pc = "charge"
    PROVE  Good([r EXCEPT !.pc = pc], q)
<1> DEFINE n == [r EXCEPT !.pc = pc]
<1>1. r \in Request
  BY DEF Good
<1>2. /\ n.pc = pc /\ n.account = r.account /\ n.tried = r.tried /\ n.attempt = r.attempt
      /\ n.budget = r.budget /\ n.started = r.started /\ n.token = r.token
      /\ n.sources = r.sources /\ n.steady = r.steady /\ n.calm = r.calm
  BY <1>1 DEF Request
<1>3. n \in Request
  BY <1>1 DEF Request
<1> HIDE DEF n
<1>4. r.account \in Accounts
  BY DEF Good, Placed, Places
<1>5. Watched(n, q)
  BY <1>2 DEF Good, Watched, Covered, Trying
<1>6. Sound(n) /\ Counted(n)
  BY <1>2 DEF Good, Sound, Counted
<1>7. Good(n, q)
  BY <1>2, <1>3, <1>4, <1>5, <1>6 DEF Good
<1> QED
  BY <1>7 DEF n

\* After a failure is settled.
LEMMA SettledKeeps ==
    ASSUME NEW q, NEW r, Good(r, q), r.pc \in {"settle", "charge", "disabled"}
    PROVE  Good(Settled(r), q)
<1> DEFINE n == Settled(r)
<1>1. r \in Request /\ r.account \in Accounts
  BY DEF Good, Placed, Places, Ended
<1>2. CASE r.token \/ (r.err.failover /\ ~r.started)
  <2>1. n = [r EXCEPT !.pc = "attempt", !.account = None, !.attempt = @ + 1]
    BY <1>2 DEF Settled
  <2>2. /\ n.pc = "attempt" /\ n.account = None /\ n.tried = r.tried
        /\ n.attempt = r.attempt + 1
        /\ n.budget = r.budget /\ n.started = r.started /\ n.token = r.token
        /\ n.sources = r.sources /\ n.steady = r.steady /\ n.calm = r.calm
    BY <1>1, <2>1 DEF Request
  <2>3. n \in Request
    <3>1. "attempt" \in Places /\ r.attempt + 1 \in Nat
      BY <1>1 DEF Places, Request
    <3> QED
      BY <1>1, <2>1, <3>1 DEF Request
  <2> HIDE DEF n
  <2>4. ~r.started
    BY <1>2 DEF Good, Sound
  <2>5. Sound(n)
    BY <2>2, <2>4 DEF Good, Sound
  <2>6. None \notin r.tried
    BY <1>1, SentinelAssumption DEF Request
  <2>7. Counted(n)
    BY <2>2, <2>6 DEF Good, Counted
  <2>8. Watched(n, q)
    BY <2>2 DEF Good, Watched, Covered, Trying
  <2>9. Good(n, q)
    BY <2>2, <2>3, <2>5, <2>7, <2>8 DEF Good, Placed
  <2> QED
    BY <2>9 DEF n
<1>3. CASE ~(r.token \/ (r.err.failover /\ ~r.started))
  <2>1. n = [r EXCEPT !.pc = "failed"]
    BY <1>3 DEF Settled
  <2>2. /\ n.pc = "failed" /\ n.account = r.account /\ n.started = r.started
        /\ n.sources = r.sources /\ n.steady = r.steady
    BY <1>1, <2>1 DEF Request
  <2>3. n \in Request
    <3>1. "failed" \in Places
      BY DEF Places, Ended
    <3> QED
      BY <1>1, <2>1, <3>1 DEF Request
  <2> HIDE DEF n
  <2>4. Good(n, q)
    BY <1>1, <2>2, <2>3 DEF Good, Sound, Counted, Watched, Trying
  <2> QED
    BY <2>4 DEF n
<1> QED
  BY <1>2, <1>3

-----------------------------------------------------------------------------
(* The steps of a request that leave the pool alone.                       *)

LEMMA InitGood == Init => GoodRequests
<1> SUFFICES ASSUME Init PROVE GoodRequests
  OBVIOUS
<1>1. Fresh \in Request /\ Fresh.pc = "new" /\ Fresh.tried = {} /\ Fresh.attempt = 0
      /\ Fresh.sources = {} /\ Fresh.started = FALSE
  BY DEF Fresh, Request, Places, Absent, Entry, NoError, Settles
<1>2. Good(Fresh, pool)
  BY <1>1 DEF Good, Sound, Counted, Watched, Trying, Placed
<1> QED
  BY <1>1, <1>2 DEF GoodRequests, Init

LEMMA SlotsOfPool ==
    ASSUME Stores
    PROVE  /\ Slots(pool) \subseteq Enabled(pool)
           /\ Enabled(pool) \subseteq Accounts
           /\ Slots(pool) = {s.id : s \in Members}
BY MemberIds DEF Stores, Slots, Members

LEMMA ArriveKeeps ==
    ASSUME GoodRequests, Stores, NEW p \in Reqs, Arrive(p)
    PROVE  GoodRequests'
<1>1. Good(req[p], pool) /\ req[p] \in Request /\ req[p].pc = "new" /\ pool' = pool
  BY DEF Arrive, Good, GoodRequests
<1>2. PICK a \in Pick({}) :
         IF a = None
         THEN req' = [req EXCEPT ![p].pc = "rejected"]
         ELSE req' = [req EXCEPT ![p].pc = "count", ![p].account = a,
                                 ![p].rec = pool[a],
                                 ![p].steady = {s.id : s \in Members}]
  BY DEF Arrive
<1>3. CASE a = None
  <2> DEFINE n == [req[p] EXCEPT !.pc = "rejected"]
  <2>1. req' = [req EXCEPT ![p] = n]
    BY <1>2, <1>3
  <2>2. n.pc = "rejected" /\ n.sources = req[p].sources /\ n.started = req[p].started
    BY <1>1 DEF Request
  <2>3. n \in Request
    <3>1. "rejected" \in Places
      BY DEF Places, Ended
    <3> QED
      BY <1>1, <3>1 DEF Request
  <2> HIDE DEF n
  <2>4. Good(n, pool)
    BY <1>1, <2>2, <2>3 DEF Good, Sound, Counted, Watched, Trying, Placed
  <2> QED
    BY <1>1, <2>1, <2>4, OneChanges
<1>4. CASE a # None
  <2> DEFINE n == [req[p] EXCEPT !.pc = "count", !.account = a, !.rec = pool[a],
                                 !.steady = {s.id : s \in Members}]
  <2>1. req' = [req EXCEPT ![p] = n]
    BY <1>2, <1>4
  <2>2. a \in Slots(pool) /\ a \in Accounts /\ a \in Enabled(pool)
    BY <1>4, Picked, SlotsOfPool
  <2>3. /\ n.pc = "count" /\ n.sources = req[p].sources /\ n.started = req[p].started
        /\ n.account = a /\ n.tried = req[p].tried /\ n.attempt = req[p].attempt
        /\ n.steady = Slots(pool)
    BY <1>1, SlotsOfPool DEF Request
  <2>4. n \in Request
    <3>1. "count" \in Places /\ pool[a] \in Entry
      BY <2>2 DEF Places, Stores
    <3>2. {s.id : s \in Members} \in SUBSET Accounts
      BY SlotsOfPool
    <3> QED
      BY <1>1, <2>2, <3>1, <3>2 DEF Request
  <2> HIDE DEF n
  <2>5. Sound(n) /\ Counted(n)
    BY <1>1, <2>3 DEF Good, Sound, Counted
  <2>6. Watched(n, pool)
    BY <2>2, <2>3 DEF Watched, Trying
  <2>7. Good(n, pool)
    BY <2>2, <2>3, <2>4, <2>5, <2>6 DEF Good
  <2> QED
    BY <1>1, <2>1, <2>7, OneChanges
<1> QED
  BY <1>3, <1>4

LEMMA CountKeeps ==
    ASSUME GoodRequests, Stores, NEW p \in Reqs, CountAttempts(p)
    PROVE  GoodRequests'
<1> DEFINE n == [req[p] EXCEPT !.pc = "attempt", !.budget = IF Count < 1 THEN 1 ELSE Count]
<1>1. Good(req[p], pool) /\ req[p] \in Request /\ req[p].pc = "count" /\ pool' = pool
      /\ req' = [req EXCEPT ![p] = n]
  BY DEF CountAttempts, Good, GoodRequests
<1>2. Enabled(pool) \subseteq Accounts /\ Count \in Nat
  <2>1. Enabled(pool) \subseteq Accounts
    BY SlotsOfPool
  <2>2. IsFiniteSet(Enabled(pool))
    BY <2>1, FS_Subset, FailoverAssumption
  <2> QED
    BY <2>1, <2>2, FS_CardinalityType DEF Count
<1>3. /\ n.pc = "attempt" /\ n.sources = req[p].sources /\ n.started = req[p].started
      /\ n.account = req[p].account /\ n.tried = req[p].tried
      /\ n.attempt = req[p].attempt /\ n.steady = req[p].steady /\ n.calm = req[p].calm
      /\ n.budget = (IF Count < 1 THEN 1 ELSE Count)
  BY <1>1 DEF Request
<1>4. n \in Request
  <2>1. "attempt" \in Places /\ (IF Count < 1 THEN 1 ELSE Count) \in Nat
    BY <1>2 DEF Places
  <2> QED
    BY <1>1, <2>1 DEF Request
<1> HIDE DEF n
<1>5. n.tried = {} /\ n.attempt = 0 /\ Cardinality({}) = 0
  BY <1>1, <1>3, FS_EmptySet DEF Good, Counted
<1>6. Sound(n) /\ Counted(n)
  BY <1>1, <1>3, <1>5 DEF Good, Sound, Counted
<1>7. n.calm => Covered(n, pool)
  <2> SUFFICES ASSUME n.calm PROVE Covered(n, pool)
    OBVIOUS
  <2>1. n.account \in Enabled(pool)
    BY <1>1, <1>3 DEF Good, Watched
  <2>2. Cardinality(Enabled(pool)) <= n.budget
    BY <1>2, <1>3 DEF Count
  <2> QED
    BY <1>2, <1>5, <2>1, <2>2 DEF Covered
<1>8. Watched(n, pool)
  BY <1>1, <1>3, <1>7 DEF Good, Watched, Trying
<1>9. Good(n, pool)
  BY <1>3, <1>4, <1>6, <1>8 DEF Good, Placed
<1> QED
  BY <1>1, <1>9, OneChanges

\* A set of accounts as large as one that contains it is that one.
LEMMA AllTried ==
    ASSUME NEW S \in SUBSET Accounts, NEW T \in SUBSET S, Cardinality(S) <= Cardinality(T)
    PROVE  T = S
<1>1. IsFiniteSet(S)
  BY FS_Subset, FailoverAssumption
<1>2. IsFiniteSet(T) /\ Cardinality(T) <= Cardinality(S)
      /\ (Cardinality(T) = Cardinality(S) => T = S)
  BY <1>1, FS_Subset
<1> QED
  BY <1>1, <1>2, FS_CardinalityType

LEMMA GiveUpKeeps ==
    ASSUME GoodRequests, Stores, NEW p \in Reqs, GiveUp(p)
    PROVE  GoodRequests'
<1> DEFINE n == [req[p] EXCEPT !.pc = "exhausted", !.account = None]
<1>1. Good(req[p], pool) /\ req[p] \in Request /\ req[p].pc = "attempt" /\ pool' = pool
      /\ req' = [req EXCEPT ![p] = n]
  BY DEF GiveUp, Good, GoodRequests
<1>2. /\ n.pc = "exhausted" /\ n.sources = req[p].sources /\ n.started = req[p].started
      /\ n.account = None /\ n.tried = req[p].tried
      /\ n.steady = req[p].steady /\ n.calm = req[p].calm
  BY <1>1 DEF Request
<1>3. n \in Request
  <2>1. "exhausted" \in Places
    BY DEF Places, Ended
  <2> QED
    BY <1>1, <2>1 DEF Request
<1> HIDE DEF n
<1>4. Sound(n) /\ Counted(n)
  BY <1>1, <1>2 DEF Good, Sound, Counted
<1>5. req[p].steady \subseteq Slots(pool) /\ Slots(pool) \subseteq Enabled(pool)
  BY <1>1, SlotsOfPool DEF Good, Watched
<1>6. n.calm => n.steady \subseteq n.tried
  <2> SUFFICES ASSUME n.calm PROVE req[p].steady \subseteq req[p].tried
    BY <1>2
  <2>1. CASE req[p].attempt >= req[p].budget
    <3>1. PICK S \in SUBSET Accounts : /\ Cardinality(S) <= req[p].budget
                                       /\ Enabled(pool) \subseteq S
                                       /\ req[p].tried \subseteq S
      BY <1>1, <1>2 DEF Good, Watched, Trying, Covered
    <3>2. Cardinality(req[p].tried) = req[p].attempt
      BY <1>1 DEF Good, Counted
    <3>3. Cardinality(S) \in Nat
      BY FS_Subset, FS_CardinalityType, FailoverAssumption
    <3>4. Cardinality(S) <= Cardinality(req[p].tried)
      <4>1. req[p].attempt \in Nat /\ req[p].budget \in Nat
        BY <1>1 DEF Request
      <4> QED
        BY <2>1, <3>1, <3>2, <3>3, <4>1
    <3>5. req[p].tried = S
      BY <3>1, <3>4, AllTried
    <3> QED
      BY <1>5, <3>1, <3>5
  <2>2. CASE None \in Candidates(req[p])
    <3>1. None \in Pick(req[p].tried)
      BY <2>2 DEF Candidates
    <3>2. Slots(pool) \subseteq req[p].tried
      BY <3>1, Picked, SlotsOfPool
    <3> QED
      BY <1>5, <3>2
  <2> QED
    BY <2>1, <2>2 DEF GiveUp
<1>7. Watched(n, pool)
  BY <1>2, <1>5, <1>6 DEF Watched, Trying
<1>8. Good(n, pool)
  BY <1>2, <1>3, <1>4, <1>7 DEF Good, Placed
<1> QED
  BY <1>1, <1>8, OneChanges

LEMMA AttemptKeeps ==
    ASSUME GoodRequests, Stores, NEW p \in Reqs, Attempt(p)
    PROVE  GoodRequests'
<1>1. PICK a \in Candidates(req[p]) \ {None} :
         req' = [req EXCEPT ![p].pc = "token", ![p].account = a,
                            ![p].rec = IF a = req[p].account THEN @ ELSE pool[a],
                            ![p].tried = @ \cup {a}, ![p].started = FALSE]
  BY DEF Attempt
<1> DEFINE n == [req[p] EXCEPT !.pc = "token", !.account = a,
                               !.rec = IF a = req[p].account THEN @ ELSE pool[a],
                               !.tried = @ \cup {a}, !.started = FALSE]
<1>2. Good(req[p], pool) /\ req[p] \in Request /\ req[p].pc = "attempt" /\ pool' = pool
      /\ req' = [req EXCEPT ![p] = n]
  <2>1. Good(req[p], pool) /\ req[p] \in Request
    BY DEF GoodRequests
  <2>2. req[p].pc = "attempt" /\ pool' = pool
    BY DEF Attempt
  <2>3. req' = [req EXCEPT ![p] = n]
    BY <1>1
  <2> QED
    BY <2>1, <2>2, <2>3
<1>3. /\ a \in Accounts /\ a \notin req[p].tried
      /\ a = req[p].account \/ a \in Slots(pool)
  <2>1. CASE req[p].account # None /\ req[p].account \notin req[p].tried
    BY <1>1, <1>2, <2>1 DEF Candidates, Request
  <2>2. CASE ~(req[p].account # None /\ req[p].account \notin req[p].tried)
    <3>1. a \in Pick(req[p].tried) /\ a # None
      BY <1>1, <2>2 DEF Candidates
    <3> QED
      BY <3>1, Picked, SlotsOfPool
  <2> QED
    BY <2>1, <2>2
<1>4. /\ n.pc = "token" /\ n.sources = req[p].sources /\ n.started = FALSE
      /\ n.account = a /\ n.tried = req[p].tried \cup {a}
      /\ n.attempt = req[p].attempt /\ n.budget = req[p].budget
      /\ n.steady = req[p].steady /\ n.calm = req[p].calm
  BY <1>2 DEF Request
<1>5. n \in Request
  <2>1. "token" \in Places /\ (IF a = req[p].account THEN req[p].rec ELSE pool[a]) \in Entry
    BY <1>2, <1>3 DEF Places, Request, Stores
  <2>2. req[p].tried \cup {a} \in SUBSET Accounts
    BY <1>2, <1>3 DEF Request
  <2> QED
    BY <1>2, <1>3, <2>1, <2>2 DEF Request
<1> HIDE DEF n
<1>6. ~req[p].started /\ req[p].sources = {}
  BY <1>2 DEF Good, Sound
<1>7. Cardinality(n.tried) = n.attempt + 1
  <2>1. Cardinality(req[p].tried) = req[p].attempt /\ IsFiniteSet(req[p].tried)
    BY <1>2, FS_Subset, FailoverAssumption DEF Good, Counted, Request
  <2>2. Cardinality(req[p].tried \cup {a}) = Cardinality(req[p].tried) + 1
    BY <1>3, <2>1, FS_AddElement
  <2> QED
    BY <1>4, <2>1, <2>2
<1>8. Sound(n) /\ Counted(n)
  BY <1>4, <1>6, <1>7 DEF Sound, Counted
<1>9. n.calm => Covered(n, pool)
  <2> SUFFICES ASSUME n.calm PROVE Covered(n, pool)
    OBVIOUS
  <2>1. PICK S \in SUBSET Accounts : /\ Cardinality(S) <= req[p].budget
                                     /\ Enabled(pool) \subseteq S
                                     /\ req[p].tried \subseteq S
                                     /\ req[p].account # None => req[p].account \in S
    BY <1>2, <1>4 DEF Good, Watched, Trying, Covered
  <2>2. a \in S
    BY <1>1, <1>3, <2>1, SlotsOfPool
  <2> QED
    BY <1>4, <2>1, <2>2 DEF Covered
<1>10. Watched(n, pool)
  BY <1>2, <1>4, <1>9 DEF Good, Watched, Trying
<1>11. Good(n, pool)
  BY <1>3, <1>4, <1>5, <1>8, <1>10 DEF Good
<1> QED
  BY <1>2, <1>11, OneChanges

\* A call streams to the client.
LEMMA EmitKeeps ==
    ASSUME GoodRequests, NEW p \in Reqs, Emit(p)
    PROVE  GoodRequests'
<1> DEFINE n == [req[p] EXCEPT !.started = TRUE, !.sources = @ \cup {req[p].account}]
<1>1. Good(req[p], pool) /\ req[p] \in Request /\ req[p].pc = "call" /\ pool' = pool
      /\ req' = [req EXCEPT ![p] = n]
  BY DEF Emit, Good, GoodRequests
<1>2. req[p].account \in Accounts
  BY <1>1 DEF Good, Placed, Places
<1>3. /\ n.pc = "call" /\ n.sources = req[p].sources \cup {req[p].account}
      /\ n.started = TRUE /\ n.account = req[p].account /\ n.tried = req[p].tried
      /\ n.attempt = req[p].attempt /\ n.budget = req[p].budget
      /\ n.steady = req[p].steady /\ n.calm = req[p].calm
  BY <1>1 DEF Request
<1>4. n \in Request
  <2>1. req[p].sources \cup {req[p].account} \in SUBSET Accounts
    BY <1>1, <1>2 DEF Request
  <2> QED
    BY <1>1, <2>1 DEF Request
<1> HIDE DEF n
<1>5. Sound(n) /\ Counted(n)
  BY <1>1, <1>3 DEF Good, Sound, Counted
<1>6. Watched(n, pool)
  BY <1>1, <1>3 DEF Good, Watched, Covered, Trying
<1>7. Good(n, pool)
  BY <1>2, <1>3, <1>4, <1>5, <1>6 DEF Good
<1> QED
  BY <1>1, <1>7, OneChanges

\* The token cannot be refreshed, or the call ends in an error.
LEMMA FailureKeeps ==
    ASSUME GoodRequests, NEW p \in Reqs, NEW e \in Errors,
           TokenFails(p, e) \/ CallFails(p, e)
    PROVE  GoodRequests'
<1>1. PICK t \in BOOLEAN :
         /\ req[p].pc = IF t THEN "token" ELSE "call"
         /\ req' = [req EXCEPT ![p] = [req[p] EXCEPT !.pc = "settle", !.err = e, !.token = t]]
         /\ pool' = pool
  BY DEF TokenFails, CallFails
<1> DEFINE n == [req[p] EXCEPT !.pc = "settle", !.err = e, !.token = t]
<1>2. Good(req[p], pool) /\ req[p] \in Request
  BY DEF Good, GoodRequests
<1>3. req[p].account \in Accounts
  BY <1>1, <1>2 DEF Good, Placed, Places
<1>4. /\ n.pc = "settle" /\ n.sources = req[p].sources /\ n.token = t
      /\ n.started = req[p].started /\ n.account = req[p].account
      /\ n.tried = req[p].tried
      /\ n.attempt = req[p].attempt /\ n.budget = req[p].budget
      /\ n.steady = req[p].steady /\ n.calm = req[p].calm
  BY <1>2 DEF Request
<1>5. n \in Request
  <2>1. "settle" \in Places /\ e \in [settle : Settles, failover : BOOLEAN]
    BY FailoverAssumption DEF Places
  <2> QED
    BY <1>2, <2>1 DEF Request
<1> HIDE DEF n
<1>6. Sound(n) /\ Counted(n)
  BY <1>1, <1>2, <1>4 DEF Good, Sound, Counted
<1>7. Watched(n, pool)
  BY <1>1, <1>2, <1>4 DEF Good, Watched, Covered, Trying
<1>8. Good(n, pool)
  BY <1>3, <1>4, <1>5, <1>6, <1>7 DEF Good
<1> QED
  BY <1>1, <1>8, OneChanges DEF n

\* The steps that only move the request on.
LEMMA MoveKeeps ==
    ASSUME GoodRequests, NEW p \in Reqs, NEW pc \in Places,
           \/ req[p].pc = "token" /\ pc = "call"
           \/ req[p].pc = "call" /\ pc = "clear"
           \/ req[p].pc = "clear" /\ pc \in {"cleared", "answered"}
           \/ req[p].pc = "settle" /\ pc \in {"snapshot", "charge", "disabled"},
           pool' = pool, req' = [req EXCEPT ![p].pc = pc]
    PROVE  GoodRequests'
<1> DEFINE n == [req[p] EXCEPT !.pc = pc]
<1>1. req' = [req EXCEPT ![p] = n] /\ Good(req[p], pool)
  BY DEF GoodRequests
<1>2. Good(n, pool)
  BY <1>1, PcKeeps
<1> QED
  BY <1>1, <1>2, OneChanges

\* The steps that settle a failure in the pool.
LEMMA SettleKeeps ==
    ASSUME GoodRequests, NEW p \in Reqs, SettleInPool(p) \/ ChargeOverage(p)
    PROVE  GoodRequests'
<1>1. /\ req[p].pc \in {"settle", "charge"} /\ pool' = pool
      /\ req' = [req EXCEPT ![p] = Settled(req[p])] /\ Good(req[p], pool)
  BY DEF SettleInPool, ChargeOverage, GoodRequests
<1>2. Good(Settled(req[p]), pool)
  BY <1>1, SettledKeeps
<1> QED
  BY <1>1, <1>2, OneChanges

\* The reloads: of a request, and of the administrator.
LEMMA ReloadStep ==
    ASSUME GoodRequests, Stores,
           EditReload \/ \E p \in Reqs : \/ ClearReload(p) \/ SnapshotReload(p)
                                         \/ DisableReload(p)
    PROVE  GoodRequests' /\ pool' \in [Accounts -> Entry] /\ pool' = Copied(conf)
<1>1. ASSUME NEW p \in Reqs, NEW n, Good(n, pool), Reload([req EXCEPT ![p] = n])
      PROVE  GoodRequests' /\ pool' \in [Accounts -> Entry] /\ pool' = Copied(conf)
  <2> DEFINE next == [req EXCEPT ![p] = n]
  <2>1. next \in [Reqs -> Request] /\ \A o \in Reqs : Good(next[o], pool)
    BY <1>1 DEF GoodRequests, Good
  <2> HIDE DEF next
  <2>2. Reload(next)
    BY <1>1 DEF next
  <2> QED
    BY <2>1, <2>2, ReloadKeeps
<1>2. CASE EditReload
  BY <1>2, ReloadKeeps DEF EditReload, GoodRequests
<1>3. ASSUME NEW p \in Reqs, ClearReload(p)
      PROVE  GoodRequests' /\ pool' \in [Accounts -> Entry] /\ pool' = Copied(conf)
  <2> DEFINE n == [req[p] EXCEPT !.pc = "answered"]
  <2>1. Reload([req EXCEPT ![p] = n]) /\ req[p].pc = "cleared" /\ Good(req[p], pool)
    BY <1>3 DEF ClearReload, GoodRequests
  <2>2. Good(n, pool)
    BY <2>1, PcKeeps DEF Places, Ended
  <2> QED
    BY <1>1, <2>1, <2>2
<1>4. ASSUME NEW p \in Reqs, SnapshotReload(p)
      PROVE  GoodRequests' /\ pool' \in [Accounts -> Entry] /\ pool' = Copied(conf)
  <2> DEFINE n == [req[p] EXCEPT !.pc = "charge"]
  <2>1. Reload([req EXCEPT ![p] = n]) /\ req[p].pc = "snapshot" /\ Good(req[p], pool)
    BY <1>4 DEF SnapshotReload, GoodRequests
  <2>2. Good(n, pool)
    BY <2>1, PcKeeps DEF Places, Ended
  <2> QED
    BY <1>1, <2>1, <2>2
<1>5. ASSUME NEW p \in Reqs, DisableReload(p)
      PROVE  GoodRequests' /\ pool' \in [Accounts -> Entry] /\ pool' = Copied(conf)
  <2>1. Reload([req EXCEPT ![p] = Settled(req[p])]) /\ req[p].pc = "disabled"
        /\ Good(req[p], pool)
    BY <1>5 DEF DisableReload, GoodRequests
  <2>2. Good(Settled(req[p]), pool)
    BY <2>1, SettledKeeps
  <2> QED
    BY <1>1, <2>1, <2>2
<1> QED
  BY <1>2, <1>3, <1>4, <1>5

LEMMA RequestsStep ==
    ASSUME GoodRequests, Stores, [Next]_vars
    PROVE  GoodRequests'
<1>1. ASSUME NEW p \in Reqs, Run(p) \/ Emit(p)
      PROVE  GoodRequests'
  <2>1. CASE Arrive(p) \/ CountAttempts(p) \/ GiveUp(p) \/ Attempt(p) \/ Emit(p)
    BY <2>1, ArriveKeeps, CountKeeps, GiveUpKeeps, AttemptKeeps, EmitKeeps
  <2>2. CASE \E e \in Errors : TokenFails(p, e) \/ CallFails(p, e)
    BY <2>2, FailureKeeps
  <2>3. CASE SettleInPool(p) \/ ChargeOverage(p)
    BY <2>3, SettleKeeps
  <2>4. CASE ClearReload(p) \/ SnapshotReload(p) \/ DisableReload(p)
    BY <2>4, ReloadStep
  <2>5. CASE TokenValid(p) \/ CallSucceeds(p) \/ ClearBan(p) \/ FetchOverage(p) \/ Disable(p)
    <3>1. {"call", "clear", "cleared", "answered", "snapshot", "charge", "disabled"}
             \subseteq Places
      BY DEF Places, Ended
    <3>2. CASE TokenValid(p)
      BY <3>1, <3>2, MoveKeeps DEF TokenValid
    <3>3. CASE CallSucceeds(p)
      BY <3>1, <3>3, MoveKeeps DEF CallSucceeds
    <3>4. CASE ClearBan(p)
      BY <3>1, <3>4, MoveKeeps DEF ClearBan
    <3>5. CASE FetchOverage(p)
      BY <3>1, <3>5, MoveKeeps DEF FetchOverage
    <3>6. CASE Disable(p)
      BY <3>1, <3>6, MoveKeeps DEF Disable
    <3> QED
      BY <2>5, <3>2, <3>3, <3>4, <3>5, <3>6
  <2> QED
    BY <1>1, <2>1, <2>2, <2>3, <2>4, <2>5 DEF Run
<1>2. CASE UNCHANGED <<req, pool>>
  BY <1>2 DEF GoodRequests
<1>3. ASSUME NEW a \in Accounts, Expire(a) \/ \E e \in Edits(a) : Edit(a, e)
      PROVE  UNCHANGED <<req, pool>>
  BY <1>3 DEF Expire, Edit
<1>4. CASE EditReload
  BY <1>4, ReloadStep
<1>5. CASE UNCHANGED vars
  BY <1>2, <1>5 DEF vars
<1> QED
  BY <1>1, <1>2, <1>3, <1>4, <1>5 DEF Next

-----------------------------------------------------------------------------
(* The configuration, the pool and the administrator.                      *)

\* A charge against an account keeps the types of the counters.
LEMMA ChargeType ==
    ASSUME Stores, NEW a \in Accounts, NEW ranks \in SUBSET (0..MaxRank), Charge(a, ranks)
    PROVE  cooldown' \in [Accounts -> 0..MaxRank] /\ errorCount' \in [Accounts -> 0..3]
<1>1. (IF errorCount[a] < 3 THEN errorCount[a] + 1 ELSE 3) \in 0..3
  BY DEF Stores
<1>2. errorCount' \in [Accounts -> 0..3]
  BY <1>1 DEF Charge, Stores
<1>3. cooldown' \in [Accounts -> 0..MaxRank]
  BY DEF Charge, Stores
<1> QED
  BY <1>2, <1>3

\* A request that has an account and its failure.
LEMMA Holder ==
    ASSUME GoodRequests, NEW p \in Reqs,
           req[p].pc \in {"call", "settle", "snapshot", "charge", "disabled", "clear", "cleared"}
    PROVE  req[p].account \in Accounts /\ req[p].rec \in Entry
<1>1. Good(req[p], pool)
  BY DEF GoodRequests
<1> QED
  BY <1>1 DEF Good, Placed, Places, Request

LEMMA StoresStep ==
    ASSUME GoodRequests, Stores, [Next]_vars
    PROVE  Stores'
<1>1. ASSUME NEW p \in Reqs, Run(p) \/ Emit(p)
      PROVE  Stores'
  <2>1. CASE UNCHANGED <<conf, pool, cooldown, errorCount>>
    BY <2>1 DEF Stores
  <2>2. CASE CallSucceeds(p)
    <3>1. req[p].account \in Accounts /\ 0 \in 0..MaxRank /\ 0 \in 0..3
      BY <2>2, Holder, FailoverAssumption DEF CallSucceeds
    <3> QED
      BY <2>2, <3>1 DEF CallSucceeds, Stores
  <2>3. CASE ClearBan(p)
    <3>1. req[p].account \in Accounts /\ req[p].rec \in Entry
      BY <2>3, Holder DEF ClearBan
    <3>2. [req[p].rec EXCEPT !.enabled = TRUE, !.ban = "none"] \in Entry
      BY <3>1 DEF Entry
    <3> QED
      BY <2>3, <3>1, <3>2 DEF ClearBan, Stores, poolVars
  <2>4. CASE SettleInPool(p)
    <3>1. req[p].account \in Accounts
      BY <2>4, Holder DEF SettleInPool
    <3>2. Plain(req[p].account) \in SUBSET (0..MaxRank) /\ 1..MaxRank \in SUBSET (0..MaxRank)
      BY <3>1, FailoverAssumption DEF Plain, Stores
    <3>3. cooldown' \in [Accounts -> 0..MaxRank] /\ errorCount' \in [Accounts -> 0..3]
      BY <2>4, <3>1, <3>2, ChargeType DEF SettleInPool
    <3> QED
      BY <2>4, <3>3 DEF SettleInPool, Stores
  <2>5. CASE FetchOverage(p)
    <3>1. req[p].account \in Accounts
      BY <2>5, Holder DEF FetchOverage
    <3>2. ASSUME NEW allowed \in BOOLEAN
          PROVE  [conf EXCEPT ![req[p].account].permit = allowed] \in [Accounts -> Entry]
      BY <3>1 DEF Stores, Entry
    <3> QED
      BY <2>5, <3>2 DEF FetchOverage, Stores, poolVars
  <2>6. CASE ChargeOverage(p)
    <3>1. req[p].account \in Accounts
      BY <2>6, Holder DEF ChargeOverage
    <3>2. Plain(req[p].account) \in SUBSET (0..MaxRank)
      BY <3>1, FailoverAssumption DEF Plain, Stores
    <3>3. cooldown' \in [Accounts -> 0..MaxRank] /\ errorCount' \in [Accounts -> 0..3]
      BY <2>6, <3>1, <3>2, ChargeType DEF ChargeOverage
    <3> QED
      BY <2>6, <3>3 DEF ChargeOverage, Stores
  <2>7. CASE Disable(p)
    <3>1. req[p].account \in Accounts /\ req[p].rec \in Entry
      BY <2>7, Holder DEF Disable
    <3>2. [req[p].rec EXCEPT !.enabled = FALSE,
              !.ban = IF req[p].err.settle = "expired" THEN "auth" ELSE "other"] \in Entry
      BY <3>1 DEF Entry
    <3> QED
      BY <2>7, <3>1, <3>2 DEF Disable, Stores, poolVars
  <2>8. CASE ClearReload(p) \/ SnapshotReload(p) \/ DisableReload(p)
    <3>1. pool' \in [Accounts -> Entry]
      BY <2>8, ReloadStep
    <3>2. UNCHANGED <<conf, cooldown, errorCount>>
      BY <2>8 DEF ClearReload, SnapshotReload, DisableReload, poolVars
    <3> QED
      BY <3>1, <3>2 DEF Stores
  <2>9. Arrive(p) \/ CountAttempts(p) \/ GiveUp(p) \/ Attempt(p) \/ TokenValid(p) \/ Emit(p)
        \/ (\E e \in Errors : TokenFails(p, e) \/ CallFails(p, e))
           => UNCHANGED <<conf, pool, cooldown, errorCount>>
    BY DEF Arrive, CountAttempts, GiveUp, Attempt, TokenValid, Emit, TokenFails, CallFails,
           poolVars
  <2> QED
    BY <1>1, <2>1, <2>2, <2>3, <2>4, <2>5, <2>6, <2>7, <2>8, <2>9 DEF Run
<1>2. ASSUME NEW a \in Accounts, Expire(a)
      PROVE  Stores'
  BY <1>2, FailoverAssumption DEF Expire, Stores
<1>3. ASSUME NEW a \in Accounts, NEW e \in Edits(a), Edit(a, e)
      PROVE  Stores'
  <2>1. conf[a] \in Entry /\ conf[a].permit \in BOOLEAN
    BY DEF Stores, Entry
  <2>2. e \in Entry
    BY <2>1 DEF Edits, Entry
  <2> QED
    BY <1>3, <2>2 DEF Edit, Stores, poolVars
<1>4. CASE EditReload
  <2>1. pool' \in [Accounts -> Entry]
    BY <1>4, ReloadStep
  <2> QED
    BY <1>4, <2>1 DEF EditReload, Stores, poolVars
<1>5. CASE UNCHANGED vars
  BY <1>5 DEF vars, Stores
<1> QED
  BY <1>1, <1>2, <1>3, <1>4, <1>5 DEF Next

\* Only the administrator's own steps change what the administrator does.
LEMMA AdminUnchanged ==
    ASSUME NEW p \in Reqs, Run(p) \/ Emit(p)
    PROVE  UNCHANGED <<admin, off, edits>>
<1>1. CASE \/ Arrive(p) \/ CountAttempts(p) \/ GiveUp(p) \/ Attempt(p) \/ TokenValid(p)
           \/ Emit(p) \/ \E e \in Errors : TokenFails(p, e) \/ CallFails(p, e)
  BY <1>1 DEF Arrive, CountAttempts, GiveUp, Attempt, TokenValid, Emit, TokenFails, CallFails,
              adminVars
<1>2. CASE \/ CallSucceeds(p) \/ ClearBan(p) \/ ClearReload(p) \/ SettleInPool(p)
           \/ FetchOverage(p) \/ SnapshotReload(p) \/ ChargeOverage(p) \/ Disable(p)
           \/ DisableReload(p)
  BY <1>2 DEF CallSucceeds, ClearBan, ClearReload, SettleInPool, FetchOverage, SnapshotReload,
              ChargeOverage, Disable, DisableReload, adminVars
<1> QED
  BY <1>1, <1>2 DEF Run

LEMMA AdminStep ==
    ASSUME Stores, AdminType, [Next]_vars
    PROVE  AdminType'
<1>1. ASSUME NEW a \in Accounts, NEW e \in Edits(a), Edit(a, e)
      PROVE  AdminType'
  <2>1. conf[a].enabled \in BOOLEAN /\ conf[a].permit \in BOOLEAN /\ conf[a] \in Entry
    BY DEF Stores, Entry
  <2>2. e \in Entry
    BY <2>1 DEF Edits, Entry
  <2>3. admin' \in [id : Accounts \cup {None}, disables : BOOLEAN] /\ admin'.id \in Accounts
    BY <1>1, <2>1, <2>2 DEF Edit, Entry
  <2>4. off' \in SUBSET Accounts /\ edits' \in 0..MaxEdits
    BY <1>1, FailoverAssumption DEF Edit, AdminType
  <2> QED
    BY <2>3, <2>4 DEF AdminType
<1>2. CASE EditReload
  <2>1. admin'= NoEdit /\ NoEdit \in [id : Accounts \cup {None}, disables : BOOLEAN]
    BY <1>2 DEF EditReload, NoEdit
  <2> QED
    BY <1>2, <2>1 DEF EditReload, AdminType
<1>3. CASE UNCHANGED <<admin, off, edits>>
  BY <1>3 DEF AdminType
<1>4. ASSUME NEW a \in Accounts, Expire(a)
      PROVE  UNCHANGED <<admin, off, edits>>
  BY <1>4 DEF Expire, adminVars
<1> QED
  BY <1>1, <1>2, <1>3, <1>4, AdminUnchanged DEF Next, vars

Reloading == {"snapshot", "disabled", "cleared"}

\* A request that is not about to reload the pool takes a step that leaves
\* the configuration and the pool alone.
LEMMA QuietStep ==
    ASSUME GoodRequests, PoolFollowsConfig, NEW p \in Reqs, NEW n,
           req[p].pc \notin Reloading, req' = [req EXCEPT ![p] = n],
           UNCHANGED <<conf, pool, admin>>
    PROVE  PoolFollowsConfig'
<1>1. \A o \in Reqs : req[o].pc \in Reloading => req'[o].pc \in Reloading
  BY DEF GoodRequests
<1>2. Pending => Pending'
  BY <1>1 DEF Pending, Reloading
<1> QED
  BY <1>2 DEF PoolFollowsConfig

\* A step that leaves the request about to reload the pool.
LEMMA WriteStep ==
    ASSUME NEW p \in Reqs, req'[p].pc \in Reloading
    PROVE  PoolFollowsConfig'
BY DEF PoolFollowsConfig, Pending, Reloading

LEMMA FollowsStep ==
    ASSUME GoodRequests, Stores, AdminType, PoolFollowsConfig, [Next]_vars
    PROVE  PoolFollowsConfig'
<1>1. ASSUME NEW p \in Reqs, Run(p) \/ Emit(p)
      PROVE  PoolFollowsConfig'
  <2> DEFINE Quiet == /\ req[p].pc \notin Reloading
                      /\ \E n : req' = [req EXCEPT ![p] = n]
                      /\ UNCHANGED <<conf, pool, admin>>
  <2>1. Quiet => PoolFollowsConfig'
    BY QuietStep
  <2>2. UNCHANGED admin
    BY <1>1, AdminUnchanged
  <2>3. req \in [Reqs -> Request]
    BY DEF GoodRequests
  <2>4. CASE Arrive(p)
    <3>1. \E n : req' = [req EXCEPT ![p] = n]
      <4>1. PICK a \in Pick({}) :
               IF a = None
               THEN req' = [req EXCEPT ![p].pc = "rejected"]
               ELSE req' = [req EXCEPT ![p].pc = "count", ![p].account = a,
                                       ![p].rec = pool[a],
                                       ![p].steady = {s.id : s \in Members}]
        BY <2>4 DEF Arrive
      <4> QED
        BY <4>1
    <3> QED
      BY <2>1, <2>2, <2>4, <3>1 DEF Arrive, Reloading
  <2>5. CASE CountAttempts(p) \/ GiveUp(p) \/ TokenValid(p) \/ Emit(p) \/ CallSucceeds(p)
    BY <2>1, <2>2, <2>5 DEF CountAttempts, GiveUp, TokenValid, Emit, CallSucceeds, Reloading
  <2>6. CASE Attempt(p)
    <3>1. \E n : req' = [req EXCEPT ![p] = n]
      BY <2>6 DEF Attempt
    <3> QED
      BY <2>1, <2>2, <2>6, <3>1 DEF Attempt, Reloading
  <2>7. CASE \E e \in Errors : TokenFails(p, e) \/ CallFails(p, e)
    BY <2>1, <2>2, <2>7 DEF TokenFails, CallFails, Reloading
  <2>8. CASE SettleInPool(p) \/ ChargeOverage(p)
    BY <2>1, <2>2, <2>8 DEF SettleInPool, ChargeOverage, Reloading
  <2>9. CASE ClearBan(p)
    <3>1. CASE req[p].rec.ban = "auth"
      <4>1. req'[p].pc = "cleared"
        BY <2>3, <2>9, <3>1 DEF ClearBan, Request
      <4> QED
        BY <4>1, WriteStep DEF Reloading
    <3>2. CASE req[p].rec.ban # "auth"
      BY <2>1, <2>2, <2>9, <3>2 DEF ClearBan, Reloading
    <3> QED
      BY <3>1, <3>2
  <2>10. CASE FetchOverage(p)
    <3>1. CASE req' = [req EXCEPT ![p].pc = "snapshot"]
      <4>1. req'[p].pc = "snapshot"
        BY <2>3, <3>1 DEF Request
      <4> QED
        BY <4>1, WriteStep DEF Reloading
    <3>2. CASE UNCHANGED conf /\ req' = [req EXCEPT ![p].pc = "charge"]
      BY <2>1, <2>2, <2>10, <3>2 DEF FetchOverage, Reloading
    <3> QED
      BY <2>10, <3>1, <3>2 DEF FetchOverage
  <2>11. CASE Disable(p)
    <3>1. req'[p].pc = "disabled"
      BY <2>3, <2>11 DEF Disable, Request
    <3> QED
      BY <3>1, WriteStep DEF Reloading
  <2>12. CASE ClearReload(p) \/ SnapshotReload(p) \/ DisableReload(p)
    <3>1. pool' = Copied(conf) /\ conf' = conf
      BY <2>12, ReloadStep DEF ClearReload, SnapshotReload, DisableReload
    <3> QED
      BY <3>1 DEF PoolFollowsConfig
  <2> QED
    BY <1>1, <2>4, <2>5, <2>6, <2>7, <2>8, <2>9, <2>10, <2>11, <2>12 DEF Run
<1>2. CASE UNCHANGED <<conf, pool, req, admin>>
  BY <1>2 DEF PoolFollowsConfig, Pending
<1>3. ASSUME NEW a \in Accounts, Expire(a)
      PROVE  UNCHANGED <<conf, pool, req, admin>>
  BY <1>3 DEF Expire, adminVars
<1>4. ASSUME NEW a \in Accounts, NEW e \in Edits(a), Edit(a, e)
      PROVE  PoolFollowsConfig'
  <2>1. admin'.id = a /\ a # None
    BY <1>4, SentinelAssumption DEF Edit
  <2>2. admin' # NoEdit
    BY <2>1 DEF NoEdit
  <2> QED
    BY <2>2 DEF PoolFollowsConfig, Pending, NoEdit
<1>5. CASE EditReload
  <2>1. pool' = Copied(conf) /\ conf' = conf
    BY <1>5, ReloadStep DEF EditReload
  <2> QED
    BY <2>1 DEF PoolFollowsConfig
<1>6. CASE UNCHANGED vars
  BY <1>2, <1>6 DEF vars
<1> QED
  BY <1>1, <1>2, <1>3, <1>4, <1>5, <1>6 DEF Next

-----------------------------------------------------------------------------
(* The theorems.                                                           *)

LEMMA Inductive == Spec => []IInv
<1>1. Init => IInv
  BY InitTypes, InitGood DEF IInv, Types, Init, PoolFollowsConfig
<1>2. IInv /\ [Next]_vars => IInv'
  BY RequestsStep, StoresStep, AdminStep, FollowsStep DEF IInv
<1> QED
  BY <1>1, <1>2, PTL DEF Spec

\* In every reachable state all variables have their types, for every set of
\* requests, accounts and errors.
THEOREM TypeCorrect == Spec => []TypeOK
<1>1. IInv => TypeOK
  BY DEF IInv, GoodRequests, Stores, AdminType, TypeOK, Request, Places
<1> QED
  BY <1>1, Inductive, PTL

\* A client never receives the output of two accounts: whatever fails and in
\* whatever order, no request goes on with another account once it has streamed
\* (handler.go:1343-1347).
THEOREM OutputOfOneAccount == Spec => []OneSource
<1>1. IInv => OneSource
  <2> SUFFICES ASSUME IInv, NEW p \in Reqs
               PROVE  \E a \in Accounts \cup {None} :
                         /\ req[p].sources \subseteq {a}
                         /\ req[p].pc \in {"answered", "failed"} => req[p].account = a
    BY DEF OneSource
  <2>1. Good(req[p], pool) /\ req[p].account \in Accounts \cup {None}
    BY DEF IInv, GoodRequests, Request
  <2>2. req[p].sources \subseteq {req[p].account}
    BY <2>1 DEF Good, Sound
  <2> QED
    BY <2>1, <2>2
<1> QED
  BY <1>1, Inductive, PTL

\* A request gives up only after it has tried every account that was there for
\* it all along: the number of attempts, counted once before the first, is
\* enough although accounts leave the pool meanwhile (handler.go:1309-1325).
THEOREM NoAccountLeftOut == Spec => []GivesUpLast
<1>1. IInv => GivesUpLast
  BY DEF IInv, GoodRequests, Good, Watched, GivesUpLast
<1> QED
  BY <1>1, Inductive, PTL

\* However the requests and the administrator interleave their writes and
\* reloads, the pool holds the enabled accounts of the configuration as soon as
\* none of them has a reload ahead (account_failover.go:65-127).
THEOREM ReloadsConverge == Spec => []PoolFollowsConfig
BY Inductive, PTL DEF IInv
=============================================================================
