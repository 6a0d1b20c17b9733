----------------------------- MODULE AccountPool -----------------------------
(***************************************************************************)
(* The account pool of pool/account.go: weighted slots rebuilt from the    *)
(* configuration, cooldowns and error counts written by the outcome of     *)
(* requests, and the concurrent weighted round robin that hands accounts   *)
(* out.  Selections hold the read lock of p.mu and share one atomic        *)
(* cursor, so their draws interleave; every other operation holds the      *)
(* write lock.  The configuration has a lock of its own and changes while  *)
(* the pool is being rebuilt or scanned.                                   *)
(***************************************************************************)
EXTENDS Selection, Integers, Sequences, FiniteSets

CONSTANTS Callers,       \* request goroutines that select accounts
          Order,         \* the accounts in the order of the configuration
          Requests,      \* what callers ask for: [model, excl] records
          ListChoices,   \* model lists the upstream may report
          Scale,         \* overageFrequencyScale, 10 in the code
          Hour, Minute,  \* the two cooldown lengths, in clock units
          CursorMod,     \* 2^64 in the code
          ConfChoices,   \* configurations of one account
          MaxTime, MaxErrs, MaxEdits   \* bounds of the model, not of the code

ASSUME PoolAssumption ==
    /\ IsFiniteSet(Accounts)
    /\ Order \in Seq(Accounts)
    /\ Requests \subseteq [model: Models \cup {AnyModel}, excl: SUBSET Accounts]
    /\ ListChoices \subseteq SUBSET Models
    /\ Scale \in Nat \ {0} /\ CursorMod \in Nat \ {0}
    /\ Minute \in Nat \ {0} /\ Hour \in Nat /\ Minute <= Hour
    /\ ConfChoices \subseteq [enabled: BOOLEAN, over: BOOLEAN, permit: BOOLEAN,
                              weight: Int, overageWeight: Int]
    /\ MaxTime \in Nat /\ MaxErrs \in Nat /\ MaxEdits \in Nat

\* The configuration lists every account once: ids are generated, and the import
\* skips those it knows.  (An id that the caller of POST /accounts chose is not
\* looked up; the model's entries by id leave that out.)
ASSUME OrderAssumption ==
    /\ Accounts = {Order[i] : i \in DOMAIN Order}
    /\ \A i, j \in DOMAIN Order : Order[i] = Order[j] => i = j

VARIABLES conf,          \* the account's entry in config.Accounts
          allowOver,     \* config.AllowOverUsage
          slots,         \* p.accounts
          totalAccounts,
          currentIndex,
          cooldowns,     \* 0 is an account without an entry
          errorCounts,
          modelLists,    \* {} is an account without a list
          reload,        \* the Reload in progress, if any
          calls,         \* the GetNextForModelExcluding of each caller
          now,
          edits          \* configuration changes so far (bound)

poolVars == <<slots, totalAccounts, cooldowns, errorCounts, modelLists>>
confVars == <<conf, allowOver, edits>>
vars == <<conf, allowOver, slots, totalAccounts, currentIndex, cooldowns,
          errorCounts, modelLists, reload, calls, now, edits>>

-----------------------------------------------------------------------------
AtLeastOne(w) == IF w < 1 THEN 1 ELSE w

\* Mutant of SlotCount: the upper clamp of effectiveOverageWeight is missing.
SlotCount_Unclamped(r, allow) ==
    IF ~r.over THEN AtLeastOne(r.weight) * Scale
    ELSE IF QuotaBlocked(r, allow) THEN 0 ELSE AtLeastOne(r.overageWeight)

\* The number of slots of an account: effectiveWeight scaled up, or, over its
\* usage limit, effectiveOverageWeight as it is, or none when it is blocked.
SlotCount(r, allow) ==
    IF ~r.over THEN AtLeastOne(r.weight) * Scale
    ELSE IF QuotaBlocked(r, allow) THEN 0
    ELSE IF AtLeastOne(r.overageWeight) > Scale THEN Scale
    ELSE AtLeastOne(r.overageWeight)

Copy(a, r) == [id |-> a, over |-> r.over, permit |-> r.permit]

Copies(a, r, allow) ==
    IF r.enabled THEN [j \in 1..SlotCount(r, allow) |-> Copy(a, r)] ELSE <<>>

Members == {slots[i] : i \in DOMAIN slots}

Slotted(a) == {i \in DOMAIN slots : slots[i].id = a}

NoQuery == [model |-> AnyModel, excl |-> {}, at |-> 0, allow |-> FALSE]
Idle == [pc |-> "idle", q |-> NoQuery, drawn |-> 0, seen |-> {}, res |-> None]
NoReload(c) == [st |-> "off", conf |-> c, allow |-> FALSE, k |-> 1, built |-> <<>>]

\* p.mu: selections share it, everything else owns it.
WriteLockFree == reload.st = "off"
\* Mutant of LockFree: writers do not wait for the selections in progress.
LockFree_NoReaders == WriteLockFree

LockFree == WriteLockFree /\ \A c \in Callers : calls[c].pc = "idle"

Init ==
    /\ conf \in [Accounts -> ConfChoices]
    /\ allowOver \in BOOLEAN
    /\ slots = <<>> /\ totalAccounts = 0 /\ currentIndex = 0
    /\ cooldowns = [a \in Accounts |-> 0]
    /\ errorCounts = [a \in Accounts |-> 0]
    /\ modelLists = [a \in Accounts |-> {}]
    /\ reload = [NoReload(conf) EXCEPT !.st = "policy"]
    /\ calls = [c \in Callers |-> Idle]
    /\ now = 1 /\ edits = 0

-----------------------------------------------------------------------------
(* Reload: the enabled accounts and the over-usage switch are two separate *)
(* reads of the configuration; the slots are appended account by account.  *)

ReloadBegin ==
    /\ LockFree
    /\ reload' = [NoReload(conf) EXCEPT !.st = "policy"]
    /\ UNCHANGED <<poolVars, confVars, currentIndex, calls, now>>

ReloadPolicy ==
    /\ reload.st = "policy"
    /\ reload' = [reload EXCEPT !.st = "append", !.allow = allowOver]
    /\ UNCHANGED <<poolVars, confVars, currentIndex, calls, now>>

ReloadAppend ==
    /\ reload.st = "append" /\ reload.k <= Len(Order)
    /\ LET a == Order[reload.k]
       IN  reload' = [reload EXCEPT
                        !.k = @ + 1,
                        !.built = @ \o Copies(a, reload.conf[a], reload.allow)]
    /\ UNCHANGED <<poolVars, confVars, currentIndex, calls, now>>

\* Mutant of ReloadCommit: only the accounts within their limit are counted.
ReloadCommit_WithinLimit ==
    /\ reload.st = "append" /\ reload.k > Len(Order)
    /\ slots' = reload.built
    /\ totalAccounts' = Cardinality({a \in Accounts :
                            reload.conf[a].enabled /\ ~reload.conf[a].over})
    /\ reload' = NoReload(conf)
    /\ UNCHANGED <<cooldowns, errorCounts, modelLists, confVars, currentIndex,
                   calls, now>>

ReloadCommit ==
    /\ reload.st = "append" /\ reload.k > Len(Order)
    /\ slots' = reload.built
    /\ totalAccounts' = Cardinality({a \in Accounts : reload.conf[a].enabled})
    /\ reload' = NoReload(conf)
    /\ UNCHANGED <<cooldowns, errorCounts, modelLists, confVars, currentIndex,
                   calls, now>>

SetModelList(a, ms) ==
    /\ LockFree
    /\ modelLists' = [modelLists EXCEPT ![a] = ms]
    /\ UNCHANGED <<slots, totalAccounts, cooldowns, errorCounts, confVars,
                   currentIndex, reload, calls, now>>

-----------------------------------------------------------------------------
(* GetNextForModelExcluding: at most n draws of the shared cursor, then a  *)
(* pass over all slots.                                                    *)

Begin(c, r) ==
    /\ WriteLockFree /\ calls[c].pc = "idle"
    /\ calls' = [calls EXCEPT ![c] =
          [Idle EXCEPT !.pc = "scan",
                       !.q = [model |-> r.model, excl |-> r.excl,
                              at |-> now, allow |-> allowOver]]]
    /\ UNCHANGED <<poolVars, confVars, currentIndex, reload, now>>

\* Mutants of NextIndex: the counter does not wrap; the counter is not advanced.
NextIndex_NoWrap == currentIndex + 1
NextIndex_Frozen == currentIndex

NextIndex == (currentIndex + 1) % CursorMod

Draw(c) ==
    LET call == calls[c]
        idx  == NextIndex
        s    == slots[(idx % Len(slots)) + 1]
        Skipped == s.id \in call.seen \cup call.q.excl
        Served  == /\ Fits(s, modelLists, call.q)
                   /\ ~Cooling(cooldowns, s.id, call.q)
    IN  /\ call.pc = "scan" /\ call.drawn < Len(slots)
        /\ currentIndex' = idx
        /\ \/ /\ Skipped
              /\ calls' = [calls EXCEPT ![c].drawn = @ + 1]
           \/ /\ ~Skipped /\ ~Served
              /\ calls' = [calls EXCEPT ![c].drawn = @ + 1,
                                        ![c].seen = @ \cup {s.id}]
           \/ /\ ~Skipped /\ Served
              /\ calls' = [calls EXCEPT ![c].pc = "done", ![c].res = s.id]
        /\ UNCHANGED <<poolVars, confVars, reload, now>>

\* The slots the second pass considers, and the one it settles on: the first
\* without a cooldown entry, or else the first of those that expire earliest.
Considered(q) == {i \in DOMAIN slots : Fits(slots[i], modelLists, q)}

\* Mutant of FallbackSlot: the first slot considered, whatever its cooldown.
FallbackSlot_First(q, i) == i \in Considered(q) /\ \A j \in Considered(q) : i <= j

FallbackSlot(q, i) ==
    LET F    == Considered(q)
        Open == {j \in F : cooldowns[slots[j].id] = 0}
        End(j) == cooldowns[slots[j].id]
    IN  IF Open # {} THEN i \in Open /\ \A j \in Open : i <= j
        ELSE /\ i \in F
             /\ \A j \in F : End(i) < End(j) \/ (End(i) = End(j) /\ i <= j)

Fallback(c) ==
    LET call == calls[c] IN
    /\ call.pc = "scan" /\ call.drawn >= Len(slots)
    /\ \/ /\ Considered(call.q) = {}
          /\ calls' = [calls EXCEPT ![c].pc = "done", ![c].res = None]
       \/ \E i \in DOMAIN slots :
             /\ FallbackSlot(call.q, i)
             /\ calls' = [calls EXCEPT ![c].pc = "done", ![c].res = slots[i].id]
    /\ UNCHANGED <<poolVars, confVars, currentIndex, reload, now>>

Return(c) ==
    /\ calls[c].pc = "done"
    /\ calls' = [calls EXCEPT ![c] = Idle]
    /\ UNCHANGED <<poolVars, confVars, currentIndex, reload, now>>

-----------------------------------------------------------------------------
(* The outcome of a request, reported by its goroutine.                    *)

RecordSuccess(a) ==
    /\ LockFree
    /\ cooldowns' = [cooldowns EXCEPT ![a] = 0]
    /\ errorCounts' = [errorCounts EXCEPT ![a] = 0]
    /\ UNCHANGED <<slots, totalAccounts, modelLists, confVars, currentIndex,
                   reload, calls, now>>

\* Mutant of RecordError: the third failure in a row does not count yet.
RecordError_OffByOne(a, isQuotaError) ==
    /\ LockFree /\ errorCounts[a] < MaxErrs
    /\ errorCounts' = [errorCounts EXCEPT ![a] = @ + 1]
    /\ cooldowns' = IF isQuotaError THEN [cooldowns EXCEPT ![a] = now + Hour]
                    ELSE IF errorCounts[a] >= 3
                         THEN [cooldowns EXCEPT ![a] = now + Minute]
                    ELSE cooldowns
    /\ UNCHANGED <<slots, totalAccounts, modelLists, confVars, currentIndex,
                   reload, calls, now>>

RecordError(a, isQuotaError) ==
    /\ LockFree /\ errorCounts[a] < MaxErrs
    /\ errorCounts' = [errorCounts EXCEPT ![a] = @ + 1]
    /\ cooldowns' = IF isQuotaError THEN [cooldowns EXCEPT ![a] = now + Hour]
                    ELSE IF errorCounts'[a] >= 3
                         THEN [cooldowns EXCEPT ![a] = now + Minute]
                    ELSE cooldowns
    /\ UNCHANGED <<slots, totalAccounts, modelLists, confVars, currentIndex,
                   reload, calls, now>>

\* Mutant of RecordRateLimit: the upstream's Retry-After is not capped.
RecordRateLimit_Uncapped(a, d) ==
    /\ LockFree /\ errorCounts[a] < MaxErrs
    /\ errorCounts' = [errorCounts EXCEPT ![a] = @ + 1]
    /\ cooldowns' = [cooldowns EXCEPT ![a] = now + IF d <= 0 THEN Minute ELSE d]
    /\ UNCHANGED <<slots, totalAccounts, modelLists, confVars, currentIndex,
                   reload, calls, now>>

RecordRateLimit(a, d) ==
    LET positive == IF d <= 0 THEN Minute ELSE d
        capped   == IF positive > Hour THEN Hour ELSE positive
    IN  /\ LockFree /\ errorCounts[a] < MaxErrs
        /\ errorCounts' = [errorCounts EXCEPT ![a] = @ + 1]
        /\ cooldowns' = [cooldowns EXCEPT ![a] = now + capped]
        /\ UNCHANGED <<slots, totalAccounts, modelLists, confVars, currentIndex,
                       reload, calls, now>>

-----------------------------------------------------------------------------
(* The configuration, edited through the admin API, and time.              *)

EditAccount(a, r) ==
    /\ edits < MaxEdits
    /\ conf' = [conf EXCEPT ![a] = r]
    /\ edits' = edits + 1
    /\ UNCHANGED <<allowOver, poolVars, currentIndex, reload, calls, now>>

UpdateAllowOverUsage ==
    /\ edits < MaxEdits
    /\ allowOver' = ~allowOver
    /\ edits' = edits + 1
    /\ UNCHANGED <<conf, poolVars, currentIndex, reload, calls, now>>

Tick ==
    /\ now < MaxTime
    /\ now' = now + 1
    /\ UNCHANGED <<poolVars, confVars, currentIndex, reload, calls>>

Count == IF totalAccounts > 0 THEN totalAccounts
         ELSE Cardinality({s.id : s \in Members})

-----------------------------------------------------------------------------
Select(c) == \/ \E r \in Requests : Begin(c, r)
             \/ Draw(c)
             \/ Fallback(c)
             \/ Return(c)

Reload == ReloadBegin \/ ReloadPolicy \/ ReloadAppend \/ ReloadCommit

Record == \E a \in Accounts :
             \/ RecordSuccess(a)
             \/ \E isQuotaError \in BOOLEAN : RecordError(a, isQuotaError)
             \/ \E d \in 1..(Hour + 1) : RecordRateLimit(a, d)
             \/ \E ms \in ListChoices : SetModelList(a, ms)

Configure == \/ \E a \in Accounts, r \in ConfChoices : EditAccount(a, r)
             \/ UpdateAllowOverUsage

Next == \/ \E c \in Callers : Select(c)
        \/ Reload
        \/ Record
        \/ Configure
        \/ Tick

Spec == Init /\ [][Next]_vars

\* A selection, once it has the read lock, runs to its end.
FairSpec == Spec /\ \A c \in Callers : WF_vars(Draw(c) \/ Fallback(c) \/ Return(c))

-----------------------------------------------------------------------------
ConfRecord == [enabled: BOOLEAN, over: BOOLEAN, permit: BOOLEAN,
               weight: Int, overageWeight: Int]

Call == [pc: {"idle", "scan", "done"}, q: Query, drawn: Nat,
         seen: SUBSET Accounts, res: Accounts \cup {None}]

\* Every variable keeps its type.
TypeOK ==
    /\ conf \in [Accounts -> ConfRecord]
    /\ allowOver \in BOOLEAN
    /\ slots \in Seq(Member)
    /\ totalAccounts \in Nat
    /\ currentIndex \in 0..(CursorMod - 1)
    /\ cooldowns \in [Accounts -> Nat]
    /\ errorCounts \in [Accounts -> Nat]
    /\ modelLists \in [Accounts -> SUBSET Models]
    /\ reload \in [st: {"off", "policy", "append"}, conf: [Accounts -> ConfRecord],
                   allow: BOOLEAN, k: Nat \ {0}, built: Seq(Member)]
    /\ calls \in [Callers -> Call]
    /\ now \in Nat /\ edits \in Nat

\* A finished selection returns one of the choices the contract allows for
\* the pool it was made from: with the draws of other selections in between,
\* a ready account is never passed over for a cooling one, nil is returned
\* only when nothing is eligible, and among cooling accounts the one that
\* recovers first wins (account.go:140-188).
AnswerAllowed ==
    \A c \in Callers : calls[c].pc = "done" =>
        calls[c].res \in Choices(Members, modelLists, cooldowns, calls[c].q)

\* Three failures in a row leave a cooldown entry behind, whatever the mix of
\* plain, quota and rate-limit errors, and only a success removes it
\* (account.go:202-234).
FailuresCool ==
    \A a \in Accounts : errorCounts[a] >= 3 => cooldowns[a] # 0

\* No cooldown reaches further than an hour ahead, whatever Retry-After the
\* upstream asked for (account.go:227-233).
CooldownCapped ==
    \A a \in Accounts : cooldowns[a] <= now + Hour

\* An account that runs on overage never has a larger share of the slots than
\* an account within its limit, whatever the configured weights
\* (account.go:47-56, 338-353).
OverageShare ==
    \A s, t \in Members : (s.over /\ ~t.over) =>
        Cardinality(Slotted(s.id)) <= Cardinality(Slotted(t.id))

\* The attempt budget that the failover loop takes from Count covers every
\* account the pool can hand out (account.go:250-262).
CountCoversMembers == Cardinality({s.id : s \in Members}) <= Count

\* The round robin is fair: while selections keep being made and none of
\* them excludes accounts any more, an account that stays slotted, eligible
\* and out of cooldown is handed out again and again, whatever the other
\* accounts and the other callers' draws do (account.go:140-164).
Steady(a) == /\ reload.st = "off"
             /\ modelLists[a] = {} /\ cooldowns[a] = 0
             /\ \E s \in Members : s.id = a /\ ~s.over
             /\ \A c \in Callers : calls[c].q.excl = {}

RoundRobin ==
    \A a \in Accounts :
        (<>[]Steady(a) /\ []<>(\E c \in Callers : calls[c].pc = "scan"))
            => []<>(\E c \in Callers : calls[c].pc = "done" /\ calls[c].res = a)

-----------------------------------------------------------------------------
(* The pool implements its contract.                                       *)

Asks == [c \in Callers |-> [st  |-> CASE calls[c].pc = "idle" -> "idle"
                                     [] calls[c].pc = "scan" -> "waiting"
                                     [] OTHER -> "answered",
                           q   |-> calls[c].q,
                           res |-> calls[c].res]]

Contract == INSTANCE PoolContract WITH
    members <- Members, lists <- modelLists, cooldown <- cooldowns, ask <- Asks

ContractSpec == Contract!Spec
=============================================================================
