-------------------------- MODULE AccountPool_proofs --------------------------
(***************************************************************************)
(* Proofs about the account pool, for every set of accounts, models and    *)
(* callers, every configuration and every value of the bounds.             *)
(***************************************************************************)
EXTENDS AccountPool, FiniteSetTheorems, SequenceTheorems, TLAPS

\* An account gets a natural number of slots (account.go:47-56).
LEMMA SlotCountNat ==
    ASSUME NEW r \in ConfRecord, NEW allow \in BOOLEAN
    PROVE  SlotCount(r, allow) \in Nat
BY PoolAssumption DEF ConfRecord, SlotCount, AtLeastOne

\* The slots an account adds are copies of it, possibly none.
LEMMA CopiesType ==
    ASSUME NEW a \in Accounts, NEW r \in ConfRecord, NEW allow \in BOOLEAN
    PROVE  Copies(a, r, allow) \in Seq(Member)
<1>1. Copy(a, r) \in Member
  BY DEF Copy, Member, ConfRecord
<1>2. CASE r.enabled
  <2> DEFINE n == SlotCount(r, allow)
  <2>1. n \in Nat
    BY SlotCountNat
  <2> HIDE DEF n
  <2>2. [j \in 1..n |-> Copy(a, r)] \in Seq(Member)
    BY <1>1, <2>1
  <2> QED
    BY <1>2, <2>2 DEF Copies, n
<1>3. CASE ~r.enabled
  BY <1>3 DEF Copies
<1> QED
  BY <1>2, <1>3

\* Counting a subset of the accounts gives a natural number.
LEMMA CountNat ==
    ASSUME NEW S, S \subseteq Accounts
    PROVE  Cardinality(S) \in Nat
BY PoolAssumption, FS_Subset, FS_CardinalityType

-----------------------------------------------------------------------------
LEMMA IdleType == Idle \in Call
<1>1. NoQuery \in Query
  BY DEF NoQuery, Query
<1> QED
  BY <1>1 DEF Idle, Call

ReloadRecord == [st: {"off", "policy", "append"}, conf: [Accounts -> ConfRecord],
                 allow: BOOLEAN, k: Nat \ {0}, built: Seq(Member)]

LEMMA NewReloadType ==
    ASSUME NEW c \in [Accounts -> ConfRecord]
    PROVE  /\ NoReload(c) \in ReloadRecord
           /\ [NoReload(c) EXCEPT !.st = "policy"] \in ReloadRecord
<1>1. <<>> \in Seq(Member)
  OBVIOUS
<1>2. NoReload(c) \in ReloadRecord
  BY <1>1 DEF NoReload, ReloadRecord
<1> QED
  BY <1>2 DEF ReloadRecord

LEMMA InitType == Init => TypeOK
<1> SUFFICES ASSUME Init
             PROVE  TypeOK
  OBVIOUS
<1>1. conf \in [Accounts -> ConfRecord]
  BY PoolAssumption DEF Init, ConfRecord
<1>2. reload \in ReloadRecord
  BY <1>1, NewReloadType DEF Init
<1>3. calls \in [Callers -> Call]
  BY IdleType DEF Init
<1>4. slots \in Seq(Member)
  BY DEF Init
<1>5. currentIndex \in 0..(CursorMod - 1)
  BY PoolAssumption DEF Init
<1>6. /\ cooldowns \in [Accounts -> Nat]
      /\ errorCounts \in [Accounts -> Nat]
      /\ modelLists \in [Accounts -> SUBSET Models]
  BY DEF Init
<1>7. allowOver \in BOOLEAN /\ totalAccounts \in Nat /\ now \in Nat /\ edits \in Nat
  BY DEF Init
<1> QED
  BY <1>1, <1>2, <1>3, <1>4, <1>5, <1>6, <1>7 DEF TypeOK, ReloadRecord

LEMMA ReloadType ==
    ASSUME TypeOK, Reload
    PROVE  TypeOK'
<1> USE DEF TypeOK, poolVars, confVars
<1>1. CASE ReloadBegin
  <2>1. reload' \in ReloadRecord
    BY <1>1, NewReloadType DEF ReloadBegin
  <2> QED
    BY <1>1, <2>1 DEF ReloadBegin, ReloadRecord
<1>2. CASE ReloadPolicy
  BY <1>2 DEF ReloadPolicy
<1>3. CASE ReloadAppend
  <2> DEFINE a == Order[reload.k]
             add == Copies(a, reload.conf[a], reload.allow)
  <2>1. a \in Accounts
    <3>1. reload.k \in Nat \ {0} /\ reload.k <= Len(Order)
      BY <1>3 DEF ReloadAppend
    <3>2. \A i \in 1..Len(Order) : Order[i] \in Accounts
      BY PoolAssumption
    <3>3. Len(Order) \in Nat
      BY PoolAssumption
    <3> QED
      BY <3>1, <3>2, <3>3
  <2>2. add \in Seq(Member)
    BY <2>1, CopiesType
  <2> HIDE DEF a, add
  <2>3. reload.built \o add \in Seq(Member)
    BY <2>2, ConcatProperties
  <2>4. reload' = [reload EXCEPT !.k = reload.k + 1, !.built = reload.built \o add]
    BY <1>3 DEF ReloadAppend, a, add
  <2> DEFINE longer == reload.built \o add
  <2> HIDE DEF longer
  <2>5. reload' = [reload EXCEPT !.k = reload.k + 1, !.built = longer]
    BY <2>4 DEF longer
  <2>6. longer \in Seq(Member)
    BY <2>3 DEF longer
  <2>7. reload \in ReloadRecord /\ reload.k + 1 \in Nat \ {0}
    BY DEF ReloadRecord
  <2>8. reload' \in ReloadRecord
    BY <2>5, <2>6, <2>7 DEF ReloadRecord
  <2> QED
    BY <1>3, <2>8 DEF ReloadAppend, ReloadRecord
<1>4. CASE ReloadCommit
  <2>1. totalAccounts' \in Nat
    BY <1>4, CountNat DEF ReloadCommit
  <2>2. reload' \in ReloadRecord
    BY <1>4, NewReloadType DEF ReloadCommit
  <2> QED
    BY <1>4, <2>1, <2>2 DEF ReloadCommit, ReloadRecord
<1> QED
  BY <1>1, <1>2, <1>3, <1>4 DEF Reload

\* A draw lands on a slot of the pool, wherever the cursor is.
LEMMA DrawnSlot ==
    ASSUME TypeOK, NEW c \in Callers, Draw(c)
    PROVE  /\ (NextIndex % Len(slots)) + 1 \in DOMAIN slots
           /\ slots[(NextIndex % Len(slots)) + 1] \in Members
           /\ slots[(NextIndex % Len(slots)) + 1] \in Member
<1>1. Len(slots) \in Nat /\ calls[c].drawn \in Nat
  BY DEF TypeOK, Call
<1>2. Len(slots) \in Nat \ {0}
  BY <1>1 DEF Draw
<1>3. NextIndex \in Nat
  BY PoolAssumption DEF NextIndex, TypeOK
<1>4. (NextIndex % Len(slots)) + 1 \in 1..Len(slots)
  BY <1>2, <1>3
<1> QED
  BY <1>4 DEF TypeOK, Members

\* What one step of the scan does to a call leaves it a call.
LEMMA CallUpdates ==
    ASSUME calls \in [Callers -> Call], NEW c \in Callers,
           \/ calls' = [calls EXCEPT ![c].drawn = @ + 1]
           \/ \E a \in Accounts : calls' = [calls EXCEPT ![c].drawn = @ + 1,
                                                        ![c].seen = @ \cup {a}]
           \/ \E a \in Accounts \cup {None} :
                 calls' = [calls EXCEPT ![c].pc = "done", ![c].res = a]
    PROVE  calls' \in [Callers -> Call]
<1>1. /\ calls[c] \in Call
      /\ calls[c].drawn + 1 \in Nat
      /\ \A a \in Accounts : calls[c].seen \cup {a} \in SUBSET Accounts
  BY DEF Call
<1>2. CASE calls' = [calls EXCEPT ![c].drawn = @ + 1]
  BY <1>1, <1>2 DEF Call
<1>3. ASSUME NEW a \in Accounts,
             calls' = [calls EXCEPT ![c].drawn = @ + 1, ![c].seen = @ \cup {a}]
      PROVE  calls' \in [Callers -> Call]
  BY <1>1, <1>3 DEF Call
<1>4. ASSUME NEW a \in Accounts \cup {None},
             calls' = [calls EXCEPT ![c].pc = "done", ![c].res = a]
      PROVE  calls' \in [Callers -> Call]
  BY <1>1, <1>4 DEF Call
<1> QED
  BY <1>2, <1>3, <1>4

LEMMA SelectType ==
    ASSUME TypeOK, NEW c \in Callers, Select(c)
    PROVE  TypeOK'
<1> USE DEF TypeOK, poolVars, confVars
<1>1. CASE \E r \in Requests : Begin(c, r)
  <2>1. PICK r \in Requests : Begin(c, r)
    BY <1>1
  <2> DEFINE query == [model |-> r.model, excl |-> r.excl, at |-> now,
                       allow |-> allowOver]
             started == [Idle EXCEPT !.pc = "scan", !.q = query]
  <2>2. query \in Query
    BY PoolAssumption DEF Query
  <2> HIDE DEF query
  <2>3. started \in Call
    BY <2>2, IdleType DEF Call
  <2>4. calls' = [calls EXCEPT ![c] = started]
    BY <2>1 DEF Begin, query
  <2>5. calls' \in [Callers -> Call]
    BY <2>3, <2>4
  <2> QED
    BY <2>1, <2>5 DEF Begin
<1>2. CASE Draw(c)
  <2>1. currentIndex' \in 0..(CursorMod - 1)
    <3>1. currentIndex + 1 \in Nat /\ CursorMod \in Nat \ {0}
      BY PoolAssumption
    <3>2. (currentIndex + 1) % CursorMod \in 0..(CursorMod - 1)
      BY <3>1
    <3> QED
      BY <1>2, <3>2 DEF Draw, NextIndex
  <2> DEFINE s == slots[(NextIndex % Len(slots)) + 1]
  <2>2. s.id \in Accounts
    BY <1>2, DrawnSlot DEF Member
  <2>3. \/ calls' = [calls EXCEPT ![c].drawn = @ + 1]
        \/ calls' = [calls EXCEPT ![c].drawn = @ + 1, ![c].seen = @ \cup {s.id}]
        \/ calls' = [calls EXCEPT ![c].pc = "done", ![c].res = s.id]
    BY <1>2 DEF Draw
  <2> HIDE DEF s
  <2>4. \/ calls' = [calls EXCEPT ![c].drawn = @ + 1]
        \/ \E a \in Accounts : calls' = [calls EXCEPT ![c].drawn = @ + 1,
                                                     ![c].seen = @ \cup {a}]
        \/ \E a \in Accounts \cup {None} :
              calls' = [calls EXCEPT ![c].pc = "done", ![c].res = a]
    BY <2>2, <2>3
  <2>5. calls' \in [Callers -> Call]
    BY <2>4, CallUpdates
  <2> QED
    BY <1>2, <2>1, <2>5 DEF Draw
<1>3. CASE Fallback(c)
  <2>1. \/ calls' = [calls EXCEPT ![c].pc = "done", ![c].res = None]
        \/ \E i \in DOMAIN slots :
              calls' = [calls EXCEPT ![c].pc = "done", ![c].res = slots[i].id]
    BY <1>3 DEF Fallback
  <2>2. \A i \in DOMAIN slots : slots[i].id \in Accounts
    <3>1. slots \in Seq(Member)
      OBVIOUS
    <3>2. \A i \in DOMAIN slots : slots[i] \in Member
      BY <3>1
    <3> QED
      BY <3>2 DEF Member
  <2>3. \E res \in Accounts \cup {None} :
           calls' = [calls EXCEPT ![c].pc = "done", ![c].res = res]
    BY <2>1, <2>2
  <2>4. calls' \in [Callers -> Call]
    BY <2>3, CallUpdates
  <2> QED
    BY <1>3, <2>4 DEF Fallback
<1>4. CASE Return(c)
  BY <1>4, IdleType DEF Return
<1> QED
  BY <1>1, <1>2, <1>3, <1>4 DEF Select

LEMMA RecordType ==
    ASSUME TypeOK, Record
    PROVE  TypeOK'
<1> USE DEF TypeOK, poolVars, confVars
<1>0. Minute \in Nat /\ Hour \in Nat /\ ListChoices \subseteq SUBSET Models
  BY PoolAssumption
<1>1. PICK a \in Accounts :
         \/ RecordSuccess(a)
         \/ \E isQuotaError \in BOOLEAN : RecordError(a, isQuotaError)
         \/ \E d \in 1..(Hour + 1) : RecordRateLimit(a, d)
         \/ \E ms \in ListChoices : SetModelList(a, ms)
  BY DEF Record
<1>2. CASE RecordSuccess(a)
  BY <1>2 DEF RecordSuccess
<1>3. CASE \E isQuotaError \in BOOLEAN : RecordError(a, isQuotaError)
  BY <1>0, <1>3 DEF RecordError
<1>4. CASE \E d \in 1..(Hour + 1) : RecordRateLimit(a, d)
  BY <1>0, <1>4 DEF RecordRateLimit
<1>5. CASE \E ms \in ListChoices : SetModelList(a, ms)
  BY <1>0, <1>5 DEF SetModelList
<1> QED
  BY <1>1, <1>2, <1>3, <1>4, <1>5

LEMMA ConfigureType ==
    ASSUME TypeOK, Configure
    PROVE  TypeOK'
<1> USE PoolAssumption DEF TypeOK, poolVars, confVars
<1>1. CASE \E a \in Accounts, r \in ConfChoices : EditAccount(a, r)
  <2>1. PICK a \in Accounts, r \in ConfChoices : EditAccount(a, r)
    BY <1>1
  <2>2. r \in ConfRecord
    BY DEF ConfRecord
  <2>3. conf' \in [Accounts -> ConfRecord] /\ edits' \in Nat
    BY <2>1, <2>2 DEF EditAccount
  <2> QED
    BY <2>1, <2>3 DEF EditAccount
<1>2. CASE UpdateAllowOverUsage
  BY <1>2 DEF UpdateAllowOverUsage
<1> QED
  BY <1>1, <1>2 DEF Configure

LEMMA NextType == TypeOK /\ [Next]_vars => TypeOK'
<1> SUFFICES ASSUME TypeOK, [Next]_vars
             PROVE  TypeOK'
  OBVIOUS
<1>1. CASE \E c \in Callers : Select(c)
  BY <1>1, SelectType
<1>2. CASE Reload
  BY <1>2, ReloadType
<1>3. CASE Record
  BY <1>3, RecordType
<1>4. CASE Configure
  BY <1>4, ConfigureType
<1>5. CASE Tick
  BY <1>5 DEF Tick, TypeOK, poolVars, confVars
<1>6. CASE UNCHANGED vars
  BY <1>6 DEF vars, TypeOK
<1> QED
  BY <1>1, <1>2, <1>3, <1>4, <1>5, <1>6 DEF Next

\* Every variable of the pool keeps its type.
THEOREM TypeCorrect == Spec => []TypeOK
<1>1. Init => TypeOK
  BY InitType
<1>2. TypeOK /\ [Next]_vars => TypeOK'
  BY NextType
<1> QED
  BY <1>1, <1>2, PTL DEF Spec

-----------------------------------------------------------------------------
(* The cooldowns.  Both invariants are inductive given the types: only the *)
(* recorders write cooldowns and errorCounts, and the clock only advances. *)

\* Both properties depend on three variables, so that every other step keeps
\* them.
LEMMA CooldownsFrame ==
    ASSUME FailuresCool, CooldownCapped, UNCHANGED <<cooldowns, errorCounts, now>>
    PROVE  FailuresCool' /\ CooldownCapped'
BY DEF FailuresCool, CooldownCapped

\* Every failure moves the cooldown of its account to an instant after now and
\* at most Hour ahead, unless it is one of the first two in a row.
LEMMA RecordKeepsCooldowns ==
    ASSUME TypeOK, FailuresCool, CooldownCapped, Record
    PROVE  FailuresCool' /\ CooldownCapped'
<1> USE PoolAssumption DEF FailuresCool, CooldownCapped
<1> /\ cooldowns \in [Accounts -> Nat] /\ errorCounts \in [Accounts -> Nat]
    /\ now \in Nat /\ Minute \in Nat \ {0} /\ Hour \in Nat \ {0} /\ Minute <= Hour
  BY DEF TypeOK
<1>1. PICK a \in Accounts :
         \/ RecordSuccess(a)
         \/ \E isQuotaError \in BOOLEAN : RecordError(a, isQuotaError)
         \/ \E d \in 1..(Hour + 1) : RecordRateLimit(a, d)
         \/ \E ms \in ListChoices : SetModelList(a, ms)
  BY DEF Record
<1>2. CASE RecordSuccess(a)
  BY <1>2 DEF RecordSuccess
<1>3. CASE \E isQuotaError \in BOOLEAN : RecordError(a, isQuotaError)
  BY <1>3 DEF RecordError
<1>4. CASE \E d \in 1..(Hour + 1) : RecordRateLimit(a, d)
  <2>1. PICK d \in 1..(Hour + 1) : RecordRateLimit(a, d)
    BY <1>4
  <2> DEFINE positive == IF d <= 0 THEN Minute ELSE d
             capped   == IF positive > Hour THEN Hour ELSE positive
  <2>2. capped \in 1..Hour /\ cooldowns' = [cooldowns EXCEPT ![a] = now + capped]
    BY <2>1 DEF RecordRateLimit
  <2> HIDE DEF capped
  <2> QED
    BY <2>1, <2>2 DEF RecordRateLimit
<1>5. CASE \E ms \in ListChoices : SetModelList(a, ms)
  BY <1>5, CooldownsFrame DEF SetModelList
<1> QED
  BY <1>1, <1>2, <1>3, <1>4, <1>5

LEMMA NextKeepsCooldowns ==
    ASSUME TypeOK, FailuresCool, CooldownCapped, [Next]_vars
    PROVE  FailuresCool' /\ CooldownCapped'
<1>1. CASE \E c \in Callers : Select(c)
  BY <1>1, CooldownsFrame DEF Select, Begin, Draw, Fallback, Return, poolVars
<1>2. CASE Reload
  BY <1>2, CooldownsFrame
     DEF Reload, ReloadBegin, ReloadPolicy, ReloadAppend, ReloadCommit, poolVars
<1>3. CASE Record
  BY <1>3, RecordKeepsCooldowns
<1>4. CASE Configure
  BY <1>4, CooldownsFrame DEF Configure, EditAccount, UpdateAllowOverUsage, poolVars
<1>5. CASE Tick
  BY <1>5, PoolAssumption
     DEF Tick, TypeOK, FailuresCool, CooldownCapped, poolVars
<1>6. CASE UNCHANGED vars
  BY <1>6, CooldownsFrame DEF vars
<1> QED
  BY <1>1, <1>2, <1>3, <1>4, <1>5, <1>6 DEF Next

LEMMA CooldownsHold == Spec => [](FailuresCool /\ CooldownCapped)
<1>1. Init => FailuresCool /\ CooldownCapped
  BY PoolAssumption DEF Init, FailuresCool, CooldownCapped
<1>2. TypeOK /\ FailuresCool /\ CooldownCapped /\ [Next]_vars
         => FailuresCool' /\ CooldownCapped'
  BY NextKeepsCooldowns
<1> QED
  BY <1>1, <1>2, TypeCorrect, PTL DEF Spec

\* An account that failed three times in a row always has a cooldown entry.
THEOREM ThreeFailuresCool == Spec => []FailuresCool
BY CooldownsHold, PTL

\* No cooldown ever reaches further ahead than an hour.
THEOREM CooldownsAreCapped == Spec => []CooldownCapped
BY CooldownsHold, PTL

-----------------------------------------------------------------------------
(* The answers.  A writer waits for every selection to return, so what a   *)
(* finished selection was chosen from is still what the pool holds; the    *)
(* proof is that each of the two ways to finish picks one of the Choices.  *)

\* While the pool is being rebuilt no selection is in progress.
ReloadAlone == ~WriteLockFree => \A c \in Callers : calls[c].pc = "idle"

\* The scan stops at a slot that is eligible and ready.
LEMMA ServedIsAChoice ==
    ASSUME NEW S \in SUBSET Member, NEW L, NEW cd, NEW q,
           NEW s \in S, Fits(s, L, q), ~Cooling(cd, s.id, q)
    PROVE  s.id \in Choices(S, L, cd, q)
BY DEF Choices, Eligible

\* When nothing fits there is no choice but nil.
LEMMA NothingIsAChoice ==
    ASSUME NEW S \in SUBSET Member, NEW L, NEW cd, NEW q,
           \A s \in S : ~Fits(s, L, q)
    PROVE  None \in Choices(S, L, cd, q)
BY DEF Choices, Eligible

\* A member that fits and whose cooldown ends no later than that of any other
\* one that fits is a choice, ready or not.
LEMMA EarliestIsAChoice ==
    ASSUME NEW S \in SUBSET Member, NEW L, NEW cd \in [Accounts -> Nat],
           NEW q \in Query, NEW s \in S, Fits(s, L, q),
           \A t \in S : Fits(t, L, q) => cd[s.id] <= cd[t.id]
    PROVE  s.id \in Choices(S, L, cd, q)
<1> DEFINE E == Eligible(S, L, q)
           R == {a \in E : ~Cooling(cd, a, q)}
<1>1. s.id \in E
  BY DEF Eligible
<1>2. E \subseteq Accounts
  BY DEF Eligible, Member
<1>3. \A a \in E : cd[s.id] <= cd[a]
  BY DEF Eligible
<1>4. q.at \in Nat
  BY DEF Query
<1> HIDE DEF E
<1>5. CASE R # {}
  <2>1. PICK a \in R : TRUE
    BY <1>5
  <2>2. s.id \in R
    BY <1>1, <1>2, <1>3, <1>4, <2>1 DEF Cooling
  <2> QED
    BY <2>2 DEF Choices, E
<1>6. CASE R = {}
  BY <1>1, <1>3, <1>6 DEF Choices, Earliest, E
<1> QED
  BY <1>5, <1>6

\* The second pass settles on the earliest slot among those it considered.
LEMMA FallbackIsEarliest ==
    ASSUME TypeOK, NEW q \in Query, NEW i \in DOMAIN slots, FallbackSlot(q, i)
    PROVE  /\ slots[i] \in Members
           /\ Fits(slots[i], modelLists, q)
           /\ \A t \in Members : Fits(t, modelLists, q)
                  => cooldowns[slots[i].id] <= cooldowns[t.id]
<1>1. /\ \A j \in DOMAIN slots : slots[j].id \in Accounts
      /\ \A j \in DOMAIN slots : j \in Nat
      /\ cooldowns \in [Accounts -> Nat]
  <2>1. slots \in Seq(Member) /\ cooldowns \in [Accounts -> Nat]
    BY DEF TypeOK
  <2>2. \A j \in DOMAIN slots : slots[j] \in Member /\ j \in Nat
    BY <2>1
  <2> QED
    BY <2>1, <2>2 DEF Member
<1>2. \A j \in DOMAIN slots : cooldowns[slots[j].id] \in Nat
  BY <1>1
<1>3. i \in Considered(q)
  BY DEF FallbackSlot
<1>4. \A j \in Considered(q) : cooldowns[slots[i].id] <= cooldowns[slots[j].id]
  BY <1>1, <1>2, <1>3 DEF FallbackSlot, Considered
<1> QED
  BY <1>3, <1>4 DEF Considered, Members

\* A selection finishes with one of the choices.
LEMMA FinishIsAChoice ==
    ASSUME TypeOK, NEW c \in Callers, Draw(c) \/ Fallback(c), calls'[c].pc = "done"
    PROVE  calls'[c].res \in Choices(Members, modelLists, cooldowns, calls[c].q)
<1>1. /\ Members \in SUBSET Member
      /\ cooldowns \in [Accounts -> Nat]
      /\ calls \in [Callers -> Call]
      /\ calls[c].q \in Query
  BY DEF TypeOK, Members, Call
<1>2. CASE Draw(c)
  <2> DEFINE s == slots[(NextIndex % Len(slots)) + 1]
  <2>1. s \in Members
    BY <1>2, DrawnSlot
  <2>2. /\ Fits(s, modelLists, calls[c].q)
        /\ ~Cooling(cooldowns, s.id, calls[c].q)
        /\ calls'[c].res = s.id
    BY <1>1, <1>2 DEF Draw, Call
  <2> HIDE DEF s
  <2> QED
    BY <1>1, <2>1, <2>2, ServedIsAChoice
<1>3. CASE Fallback(c)
  <2>1. CASE Considered(calls[c].q) = {} /\ calls'[c].res = None
    <3>1. \A s \in Members : ~Fits(s, modelLists, calls[c].q)
      BY <2>1 DEF Considered, Members
    <3> QED
      BY <1>1, <2>1, <3>1, NothingIsAChoice
  <2>2. ASSUME NEW i \in DOMAIN slots, FallbackSlot(calls[c].q, i),
               calls'[c].res = slots[i].id
        PROVE  calls'[c].res \in Choices(Members, modelLists, cooldowns, calls[c].q)
    BY <1>1, <2>2, FallbackIsEarliest, EarliestIsAChoice
  <2> QED
    BY <1>1, <1>3, <2>1, <2>2 DEF Fallback, Call
<1> QED
  BY <1>2, <1>3

\* What the answers are chosen from; only a writer changes it.
Chosen == <<slots, modelLists, cooldowns>>

LEMMA AnswersFrame ==
    ASSUME AnswerAllowed, ReloadAlone, UNCHANGED <<Chosen, calls, reload>>
    PROVE  AnswerAllowed' /\ ReloadAlone'
BY DEF AnswerAllowed, ReloadAlone, Chosen, Members, WriteLockFree

\* With every caller idle there is no answer to protect.
LEMMA IdleAnswers ==
    ASSUME \A c \in Callers : calls[c].pc = "idle", UNCHANGED calls
    PROVE  AnswerAllowed' /\ ReloadAlone'
BY DEF AnswerAllowed, ReloadAlone

\* A step of one caller leaves the calls of the others as they are.
LEMMA SelectKeepsAnswers ==
    ASSUME TypeOK, AnswerAllowed, ReloadAlone, NEW c \in Callers, Select(c)
    PROVE  AnswerAllowed' /\ ReloadAlone'
<1>1. /\ UNCHANGED <<Chosen, reload>>
      /\ calls \in [Callers -> Call]
      /\ \A d \in Callers \ {c} : calls'[d] = calls[d]
  BY DEF Select, Begin, Draw, Fallback, Return, Chosen, poolVars, TypeOK
<1>2. WriteLockFree
  BY DEF Select, Begin, Draw, Fallback, Return, ReloadAlone
<1>3. /\ calls'[c].q = calls[c].q \/ calls'[c].pc # "done"
      /\ calls'[c].pc = "done" => Draw(c) \/ Fallback(c)
  <2>1. CASE \E r \in Requests : Begin(c, r)
    <3>1. PICK r \in Requests : Begin(c, r)
      BY <2>1
    <3> DEFINE query == [model |-> r.model, excl |-> r.excl, at |-> now,
                         allow |-> allowOver]
    <3>2. calls'[c] = [Idle EXCEPT !.pc = "scan", !.q = query]
      BY <1>1, <3>1 DEF Begin
    <3> HIDE DEF query
    <3>3. calls'[c].pc = "scan"
      BY <3>2 DEF Idle
    <3> QED
      BY <3>3
  <2>2. CASE Draw(c)
    BY <1>1, <2>2 DEF Draw, Call
  <2>3. CASE Fallback(c)
    <3>1. PICK res : calls' = [calls EXCEPT ![c].pc = "done", ![c].res = res]
      BY <2>3 DEF Fallback
    <3> QED
      BY <1>1, <2>3, <3>1 DEF Call
  <2>4. CASE Return(c)
    BY <1>1, <2>4 DEF Return, Idle
  <2> QED
    BY <2>1, <2>2, <2>3, <2>4 DEF Select
<1>4. calls'[c].pc = "done" =>
         calls'[c].res \in Choices(Members, modelLists, cooldowns, calls'[c].q)
  BY <1>3, FinishIsAChoice
<1>5. /\ Members' = Members /\ modelLists' = modelLists /\ cooldowns' = cooldowns
      /\ WriteLockFree'
  BY <1>1, <1>2 DEF Chosen, Members, WriteLockFree
<1> QED
  BY <1>1, <1>4, <1>5 DEF AnswerAllowed, ReloadAlone

LEMMA NextKeepsAnswers ==
    ASSUME TypeOK, AnswerAllowed, ReloadAlone, [Next]_vars
    PROVE  AnswerAllowed' /\ ReloadAlone'
<1>1. CASE \E c \in Callers : Select(c)
  BY <1>1, SelectKeepsAnswers
<1>2. CASE Reload
  <2>1. \A c \in Callers : calls[c].pc = "idle"
    BY <1>2 DEF Reload, ReloadBegin, ReloadPolicy, ReloadAppend, ReloadCommit,
                LockFree, ReloadAlone, WriteLockFree
  <2>2. UNCHANGED calls
    BY <1>2 DEF Reload, ReloadBegin, ReloadPolicy, ReloadAppend, ReloadCommit
  <2> QED
    BY <2>1, <2>2, IdleAnswers
<1>3. CASE Record
  <2>1. LockFree /\ UNCHANGED calls
    BY <1>3 DEF Record, RecordSuccess, RecordError, RecordRateLimit, SetModelList
  <2> QED
    BY <2>1, IdleAnswers DEF LockFree
<1>4. CASE Configure
  BY <1>4, AnswersFrame
     DEF Configure, EditAccount, UpdateAllowOverUsage, Chosen, poolVars
<1>5. CASE Tick
  BY <1>5, AnswersFrame DEF Tick, Chosen, poolVars
<1>6. CASE UNCHANGED vars
  BY <1>6, AnswersFrame DEF vars, Chosen
<1> QED
  BY <1>1, <1>2, <1>3, <1>4, <1>5, <1>6 DEF Next

LEMMA AnswersHold == Spec => [](AnswerAllowed /\ ReloadAlone)
<1>1. Init => AnswerAllowed /\ ReloadAlone
  BY DEF Init, AnswerAllowed, ReloadAlone, Idle
<1>2. TypeOK /\ AnswerAllowed /\ ReloadAlone /\ [Next]_vars
         => AnswerAllowed' /\ ReloadAlone'
  BY NextKeepsAnswers
<1> QED
  BY <1>1, <1>2, TypeCorrect, PTL DEF Spec

\* Whatever the other callers draw meanwhile, a selection returns a ready
\* account if an eligible one is ready, otherwise the eligible account that
\* recovers first, and nil only when no account is eligible.
THEOREM AnswersAreAllowed == Spec => []AnswerAllowed
BY AnswersHold, PTL

-----------------------------------------------------------------------------
(* The refinement: a draw that is not served is a stutter of the contract, *)
(* the draw or the second pass that finishes is its Answer, and whatever   *)
(* owns the write lock is its Rewrite.                                     *)

\* The contract's copy of the vocabulary is the pool's.
LEMMA ContractTerms ==
    /\ Contract!Query = Query
    /\ Contract!Member = Member
    /\ \A S, L, cd, q : Contract!Choices(S, L, cd, q) = Choices(S, L, cd, q)
<1>1. Contract!Query = Query /\ Contract!Member = Member
  BY DEF Query, Member, Contract!Query, Contract!Member
<1>2. ASSUME NEW S, NEW L, NEW cd, NEW q
      PROVE  Contract!Eligible(S, L, q) = Eligible(S, L, q)
  BY DEF Eligible, Fits, HasModel, QuotaBlocked, Contract!Eligible,
         Contract!Fits, Contract!HasModel, Contract!QuotaBlocked
<1>3. ASSUME NEW S, NEW L, NEW cd, NEW q
      PROVE  Contract!Choices(S, L, cd, q) = Choices(S, L, cd, q)
  BY <1>2 DEF Choices, Cooling, Earliest, Contract!Choices, Contract!Cooling,
              Contract!Earliest
<1> QED
  BY <1>1, <1>3

AskState(pc) == CASE pc = "idle" -> "idle" [] pc = "scan" -> "waiting"
                  [] OTHER -> "answered"

AskOf(call) == [st |-> AskState(call.pc), q |-> call.q, res |-> call.res]

LEMMA AsksAre == Asks = [c \in Callers |-> AskOf(calls[c])]
BY DEF Asks, AskOf, AskState

\* A step that changes one call changes what that caller asks, and no more.
LEMMA AskStep ==
    ASSUME NEW c \in Callers, NEW new, calls \in [Callers -> Call],
           calls' = [calls EXCEPT ![c] = new]
    PROVE  Asks' = [Asks EXCEPT ![c] = AskOf(new)]
<1>1. Asks' = [d \in Callers |-> AskOf(calls'[d])]
  BY DEF Asks, AskOf, AskState
<1>2. \A d \in Callers : calls'[d] = IF d = c THEN new ELSE calls[d]
  OBVIOUS
<1> HIDE DEF AskOf
<1> QED
  BY <1>1, <1>2, AsksAre

LEMMA SameAsks ==
    ASSUME UNCHANGED calls
    PROVE  Asks' = Asks
BY DEF Asks

\* The contract's view of the step a caller takes.
LEMMA SelectAsks ==
    ASSUME TypeOK, NEW c \in Callers, Select(c)
    PROVE  /\ Asks' = [Asks EXCEPT ![c] = AskOf(calls'[c])]
           /\ Asks[c] = AskOf(calls[c])
           /\ Asks'[c] = AskOf(calls'[c])
           /\ UNCHANGED <<Members, modelLists, cooldowns, allowOver, now>>
<1>1. /\ calls \in [Callers -> Call]
      /\ calls' \in [Callers -> Call]
      /\ \A d \in Callers \ {c} : calls'[d] = calls[d]
      /\ UNCHANGED <<slots, modelLists, cooldowns, allowOver, now>>
  BY SelectType
     DEF Select, Begin, Draw, Fallback, Return, poolVars, confVars, TypeOK
<1>2. calls' = [calls EXCEPT ![c] = calls'[c]]
  BY <1>1
<1>3. Asks' = [Asks EXCEPT ![c] = AskOf(calls'[c])]
  BY <1>1, <1>2, AskStep
<1>4. /\ Asks[c] = AskOf(calls[c])
      /\ Asks'[c] = AskOf(calls'[c])
  BY <1>3, AsksAre
<1>5. Members' = Members
  BY <1>1 DEF Members
<1> QED
  BY <1>1, <1>3, <1>4, <1>5

LEMMA SelectRefines ==
    ASSUME TypeOK, NEW c \in Callers, Select(c)
    PROVE  Contract!Next \/ UNCHANGED Contract!vars
<1>1. /\ Asks' = [Asks EXCEPT ![c] = AskOf(calls'[c])]
      /\ Asks[c] = AskOf(calls[c])
      /\ Asks'[c] = AskOf(calls'[c])
      /\ UNCHANGED <<Members, modelLists, cooldowns, allowOver, now>>
  BY SelectAsks
<1>2. calls \in [Callers -> Call] /\ calls' \in [Callers -> Call]
  BY SelectType DEF TypeOK
<1>3. CASE \E r \in Requests : Begin(c, r)
  <2>1. PICK r \in Requests : Begin(c, r)
    BY <1>3
  <2> DEFINE query == [model |-> r.model, excl |-> r.excl, at |-> now,
                       allow |-> allowOver]
  <2>2. calls'[c] = [Idle EXCEPT !.pc = "scan", !.q = query] /\ calls[c].pc = "idle"
    BY <1>2, <2>1 DEF Begin
  <2>3. query.at = now /\ query.allow = allowOver
    OBVIOUS
  <2> HIDE DEF query
  <2>4. calls'[c].pc = "scan" /\ calls'[c].q = query
    BY <2>2 DEF Idle
  <2>5. calls'[c].q \in Query /\ calls'[c].res \in Accounts \cup {None}
    BY <1>2 DEF Call
  <2>6. /\ Asks[c].st = "idle"
        /\ Asks'[c].st = "waiting"
        /\ Asks'[c].q = query
        /\ Asks'[c] \in Contract!Ask
    BY <1>1, <2>2, <2>4, <2>5, ContractTerms DEF AskOf, AskState, Contract!Ask
  <2>7. Contract!Request(c)
    BY <1>1, <2>3, <2>6 DEF Contract!Request
  <2> QED
    BY <2>7 DEF Contract!Next
<1>4. CASE (Draw(c) \/ Fallback(c)) /\ calls'[c].pc = "done"
  <2>1. calls'[c].res \in Choices(Members, modelLists, cooldowns, calls[c].q)
    BY <1>4, FinishIsAChoice
  <2>2. calls[c].pc = "scan" /\ calls'[c].q = calls[c].q
    BY <1>2, <1>4 DEF Draw, Fallback, Call
  <2>3. /\ Asks[c].st = "waiting" /\ Asks[c].q = calls[c].q
        /\ AskOf(calls'[c]) = [st |-> "answered", q |-> Asks[c].q,
                               res |-> calls'[c].res]
    BY <1>1, <1>4, <2>2 DEF AskOf, AskState
  <2>4. Asks' = [Asks EXCEPT ![c] = [st |-> "answered", q |-> Asks[c].q,
                                    res |-> calls'[c].res]]
    BY <1>1, <2>3
  <2>5. Contract!Answer(c)
    BY <1>1, <2>1, <2>3, <2>4, ContractTerms DEF Contract!Answer
  <2> QED
    BY <2>5 DEF Contract!Next
<1>5. CASE (Draw(c) \/ Fallback(c)) /\ calls'[c].pc # "done"
  <2>1. /\ calls'[c].pc = calls[c].pc
        /\ calls'[c].q = calls[c].q
        /\ calls'[c].res = calls[c].res
    BY <1>2, <1>5 DEF Draw, Fallback, Call
  <2>2. AskOf(calls'[c]) = Asks[c]
    BY <1>1, <2>1 DEF AskOf
  <2>3. Asks' = Asks
    BY <1>1, <2>2, AsksAre
  <2> QED
    BY <1>1, <2>3 DEF Contract!vars
<1>6. CASE Return(c)
  <2>1. calls[c].pc = "done" /\ calls'[c] = Idle
    BY <1>2, <1>6 DEF Return
  <2>2. Asks[c].st = "answered" /\ AskOf(calls'[c]) = Contract!Idle
    BY <1>1, <2>1 DEF AskOf, AskState, Idle, NoQuery, Contract!Idle, Contract!NoQuery
  <2>3. Contract!Deliver(c)
    BY <1>1, <2>2 DEF Contract!Deliver
  <2> QED
    BY <2>3 DEF Contract!Next
<1> QED
  BY <1>3, <1>4, <1>5, <1>6 DEF Select

\* With every caller idle any well-typed change of the pool is a Rewrite.
LEMMA WriterRefines ==
    ASSUME TypeOK, TypeOK', \A c \in Callers : calls[c].pc = "idle",
           UNCHANGED <<calls, allowOver, now>>
    PROVE  Contract!Next
<1>1. \A c \in Callers : Asks[c].st = "idle"
  BY AsksAre DEF AskOf, AskState
<1>2. Members' \in SUBSET Member
  BY DEF TypeOK, Members
<1>3. Asks' = Asks
  BY SameAsks
<1>4. Contract!Rewrite
  BY <1>1, <1>2, <1>3, ContractTerms DEF Contract!Rewrite, TypeOK
<1> QED
  BY <1>4 DEF Contract!Next

LEMMA StepRefines ==
    ASSUME TypeOK, TypeOK', ReloadAlone, [Next]_vars
    PROVE  Contract!Next \/ UNCHANGED Contract!vars
<1>1. CASE \E c \in Callers : Select(c)
  BY <1>1, SelectRefines
<1>2. CASE Reload
  <2>1. \A c \in Callers : calls[c].pc = "idle"
    BY <1>2 DEF Reload, ReloadBegin, ReloadPolicy, ReloadAppend, ReloadCommit,
                LockFree, ReloadAlone, WriteLockFree
  <2>2. UNCHANGED <<calls, allowOver, now>>
    BY <1>2 DEF Reload, ReloadBegin, ReloadPolicy, ReloadAppend, ReloadCommit, confVars
  <2> QED
    BY <2>1, <2>2, WriterRefines
<1>3. CASE Record
  <2>1. LockFree /\ UNCHANGED <<calls, allowOver, now>>
    BY <1>3 DEF Record, RecordSuccess, RecordError, RecordRateLimit, SetModelList,
                confVars
  <2> QED
    BY <2>1, WriterRefines DEF LockFree
<1>4. CASE Configure
  <2>1. UNCHANGED <<slots, modelLists, cooldowns, calls, now>>
    BY <1>4 DEF Configure, EditAccount, UpdateAllowOverUsage, poolVars
  <2>2. Members' = Members /\ Asks' = Asks
    BY <2>1, SameAsks DEF Members
  <2>3. allowOver' \in BOOLEAN /\ now' \in Nat /\ now' >= now
    BY <2>1 DEF TypeOK
  <2> QED
    BY <2>1, <2>2, <2>3 DEF Contract!Outside, Contract!Next
<1>5. CASE Tick
  <2>1. UNCHANGED <<slots, modelLists, cooldowns, calls>> /\ now' = now + 1
    BY <1>5 DEF Tick, poolVars
  <2>2. Members' = Members /\ Asks' = Asks
    BY <2>1, SameAsks DEF Members
  <2>3. allowOver' \in BOOLEAN /\ now' \in Nat /\ now' >= now
    BY <2>1 DEF TypeOK
  <2> QED
    BY <2>1, <2>2, <2>3 DEF Contract!Outside, Contract!Next
<1>6. CASE UNCHANGED vars
  BY <1>6 DEF vars, Contract!vars, Asks, Members
<1> QED
  BY <1>1, <1>2, <1>3, <1>4, <1>5, <1>6 DEF Next

\* The concurrent weighted round robin implements the contract that the
\* failover loop relies on: every answer is one of the Choices.
THEOREM PoolImplementsContract == Spec => ContractSpec
<1>1. Init => Contract!Init
  <2> SUFFICES ASSUME Init
               PROVE  Contract!Init
    OBVIOUS
  <2>1. Members = {}
    BY DEF Init, Members
  <2>2. Asks = [c \in Callers |-> Contract!Idle]
    BY DEF Init, Asks, Idle, NoQuery, Contract!Idle, Contract!NoQuery
  <2> QED
    BY <2>1, <2>2 DEF Init, Contract!Init
<1>2. TypeOK /\ TypeOK' /\ ReloadAlone /\ [Next]_vars => [Contract!Next]_(Contract!vars)
  BY StepRefines
<1> QED
  BY <1>1, <1>2, TypeCorrect, AnswersHold, PTL DEF Spec, ContractSpec, Contract!Spec
-----------------------------------------------------------------------------
(* The slots.  What a reload has appended so far is, for the configuration *)
(* it read, exactly the copies due to the accounts it has been through; so *)
(* the slots are those of some configuration, whatever it is by now.       *)

SlotsOf(seq, a) == {i \in DOMAIN seq : seq[i].id = a}

Share(r, allow) == IF r.enabled THEN SlotCount(r, allow) ELSE 0

\* seq is what Reload appends for the accounts of S.
Filled(seq, c, allow, S) ==
    /\ \A i \in DOMAIN seq : LET a == seq[i].id
                             IN  a \in S /\ c[a].enabled /\ seq[i] = Copy(a, c[a])
    /\ \A a \in S : Cardinality(SlotsOf(seq, a)) = Share(c[a], allow)

Before(k) == {Order[j] : j \in 1..(k - 1)}

ReloadFills ==
    /\ reload.st = "policy" => reload.k = 1 /\ reload.built = <<>>
    /\ reload.st = "append" =>
          Filled(reload.built, reload.conf, reload.allow, Before(reload.k))

SlotsFilled ==
    \E c \in [Accounts -> ConfRecord], allow \in BOOLEAN, S \in SUBSET Accounts :
        /\ Filled(slots, c, allow, S)
        /\ slots # <<>> => totalAccounts = Cardinality({a \in Accounts : c[a].enabled})

SlotsInv == ReloadFills /\ SlotsFilled

\* Nothing has been appended for nobody.
LEMMA FilledEmpty ==
    ASSUME NEW c, NEW allow
    PROVE  Filled(<<>>, c, allow, {}) /\ Before(1) = {}
BY DEF Filled, Before

\* Within the limit an account has at least Scale slots, over it at most Scale.
LEMMA SlotCountBounds ==
    ASSUME NEW r \in ConfRecord, NEW allow \in BOOLEAN
    PROVE  /\ r.over => SlotCount(r, allow) <= Scale
           /\ ~r.over => SlotCount(r, allow) >= Scale
<1>1. /\ Scale \in Nat \ {0} /\ r.weight \in Int /\ r.overageWeight \in Int
      /\ r.over \in BOOLEAN
  BY PoolAssumption DEF ConfRecord
<1>2. AtLeastOne(r.weight) \in Nat \ {0} /\ AtLeastOne(r.overageWeight) \in Nat \ {0}
  BY <1>1 DEF AtLeastOne
<1>3. CASE r.over
  BY <1>1, <1>2, <1>3 DEF SlotCount
<1>4. CASE ~r.over
  <2>1. \A w \in Nat \ {0} : w * Scale >= Scale
    BY <1>1
  <2> QED
    BY <1>2, <1>4, <2>1 DEF SlotCount
<1> QED
  BY <1>3, <1>4

\* An account that was not reached yet gets its copies at the end, and the
\* others keep theirs.
LEMMA AppendFills ==
    ASSUME NEW seq \in Seq(Member), NEW c \in [Accounts -> ConfRecord],
           NEW allow \in BOOLEAN, NEW S \in SUBSET Accounts, Filled(seq, c, allow, S),
           NEW a \in Accounts \ S
    PROVE  Filled(seq \o Copies(a, c[a], allow), c, allow, S \cup {a})
<1> DEFINE add == Copies(a, c[a], allow)
           longer == seq \o add
           n == Len(seq)
           m == Share(c[a], allow)
<1>1. c[a] \in ConfRecord /\ m \in Nat /\ n \in Nat /\ DOMAIN seq = 1..n
  BY SlotCountNat DEF Share
<1>2. /\ add \in Seq(Member) /\ Len(add) = m
      /\ \A j \in 1..m : c[a].enabled /\ add[j] = Copy(a, c[a])
  <2>1. add \in Seq(Member)
    BY <1>1, CopiesType
  <2>2. CASE c[a].enabled
    <3>1. m = SlotCount(c[a], allow) /\ add = [j \in 1..m |-> Copy(a, c[a])]
      BY <2>2 DEF Share, Copies
    <3> HIDE DEF add, m
    <3>2. DOMAIN add = 1..m /\ \A j \in 1..m : add[j] = Copy(a, c[a])
      BY <3>1
    <3>3. Len(add) = m
      BY <1>1, <2>1, <3>2, LenProperties
    <3> QED
      BY <2>1, <2>2, <3>2, <3>3
  <2>3. CASE ~c[a].enabled
    BY <2>1, <2>3 DEF Share, Copies
  <2> QED
    BY <2>1, <2>2, <2>3
<1> HIDE DEF add, m
<1>3. /\ DOMAIN longer = 1..(n + m)
      /\ \A i \in 1..(n + m) : longer[i] = IF i <= n THEN seq[i] ELSE add[i - n]
  <2>1. /\ Len(longer) = Len(seq) + Len(add) /\ longer \in Seq(Member)
        /\ \A i \in 1..(Len(seq) + Len(add)) :
              longer[i] = IF i <= Len(seq) THEN seq[i] ELSE add[i - Len(seq)]
    BY <1>2, ConcatProperties
  <2> QED
    BY <1>1, <1>2, <2>1
<1> HIDE DEF longer
<1>4. \A i \in 1..(n + m) : i > n => c[a].enabled /\ longer[i] = Copy(a, c[a])
  BY <1>1, <1>2, <1>3
<1>5. \A i \in 1..n : /\ longer[i] = seq[i]
                      /\ longer[i].id \in S /\ c[longer[i].id].enabled
                      /\ longer[i] = Copy(longer[i].id, c[longer[i].id])
  BY <1>1, <1>3 DEF Filled
<1>6. ASSUME NEW i \in DOMAIN longer
      PROVE  LET b == longer[i].id
             IN  b \in S \cup {a} /\ c[b].enabled /\ longer[i] = Copy(b, c[b])
  <2>1. i \in 1..(n + m)
    BY <1>3
  <2>2. CASE i <= n
    BY <1>1, <1>5, <2>1, <2>2
  <2>3. CASE i > n
    <3>1. longer[i] = Copy(a, c[a]) /\ c[a].enabled
      BY <1>4, <2>1, <2>3
    <3>2. longer[i].id = a
      BY <3>1 DEF Copy
    <3> QED
      BY <3>1, <3>2
  <2> QED
    BY <1>1, <2>1, <2>2, <2>3
<1> DEFINE owner(i) == longer[i].id
<1>7. /\ \A i \in 1..n : owner(i) = seq[i].id /\ seq[i].id \in S
      /\ \A i \in (n + 1)..(n + m) : owner(i) = a
  <2>1. ASSUME NEW i \in (n + 1)..(n + m)
        PROVE  owner(i) = a
    <3>1. i \in 1..(n + m) /\ i > n
      BY <1>1
    <3> QED
      BY <1>4, <3>1 DEF Copy
  <2> QED
    BY <1>5, <2>1
<1> HIDE DEF owner
<1>8. \A b : SlotsOf(longer, b) = {i \in 1..(n + m) : owner(i) = b}
  BY <1>3 DEF SlotsOf, owner
<1>9. ASSUME NEW b \in S
      PROVE  Cardinality(SlotsOf(longer, b)) = Share(c[b], allow)
  <2>1. SlotsOf(seq, b) = {i \in 1..n : seq[i].id = b}
    BY <1>1 DEF SlotsOf
  <2> HIDE DEF n
  <2>2. SlotsOf(longer, b) = SlotsOf(seq, b)
    BY <1>1, <1>7, <1>8, <2>1
  <2> QED
    BY <2>2 DEF Filled
<1>10. Cardinality(SlotsOf(longer, a)) = m
  <2> HIDE DEF n
  <2>1. ASSUME NEW i \in 1..(n + m)
        PROVE  owner(i) = a <=> i \in (n + 1)..(n + m)
    <3>1. CASE i \in 1..n
      <4>1. owner(i) \in S
        BY <1>7, <3>1
      <4> QED
        BY <1>1, <3>1, <4>1
    <3>2. CASE i \in (n + 1)..(n + m)
      BY <1>7, <3>2
    <3> QED
      BY <1>1, <3>1, <3>2
  <2>2. (n + 1)..(n + m) \subseteq 1..(n + m)
    BY <1>1
  <2>3. SlotsOf(longer, a) = (n + 1)..(n + m)
    BY <1>8, <2>1, <2>2
  <2> QED
    BY <1>1, <2>3, FS_Interval
<1> QED
  BY <1>6, <1>9, <1>10 DEF Filled, longer, add, m

LEMMA ReloadFillsSlots ==
    ASSUME TypeOK, SlotsInv, Reload
    PROVE  SlotsInv'
<1> USE DEF SlotsInv, poolVars, confVars
<1>1. CASE ReloadBegin
  <2>1. reload'.st = "policy" /\ reload'.k = 1 /\ reload'.built = <<>>
    BY <1>1 DEF ReloadBegin, NoReload
  <2>2. ReloadFills'
    BY <2>1 DEF ReloadFills
  <2>3. SlotsFilled'
    BY <1>1 DEF ReloadBegin, SlotsFilled
  <2> QED
    BY <2>2, <2>3
<1>2. CASE ReloadPolicy
  <2>1. /\ reload'.st = "append" /\ reload'.k = 1 /\ reload'.built = <<>>
        /\ reload'.conf = reload.conf
    BY <1>2 DEF ReloadPolicy, ReloadFills, TypeOK
  <2>2. ReloadFills'
    BY <2>1, FilledEmpty DEF ReloadFills
  <2>3. SlotsFilled'
    BY <1>2 DEF ReloadPolicy, SlotsFilled
  <2> QED
    BY <2>2, <2>3
<1>3. CASE ReloadAppend
  <2> DEFINE a == Order[reload.k]
             c == reload.conf
             longer == reload.built \o Copies(a, c[a], reload.allow)
             S == Before(reload.k)
  <2>1. /\ reload.k \in DOMAIN Order /\ a \in Accounts
        /\ DOMAIN Order = 1..Len(Order) /\ reload.k \in Nat \ {0}
        /\ \A i \in DOMAIN Order : Order[i] \in Accounts
    <3>1. reload.k \in Nat \ {0} /\ reload.k <= Len(Order)
      BY <1>3 DEF ReloadAppend, TypeOK
    <3>2. /\ DOMAIN Order = 1..Len(Order) /\ Len(Order) \in Nat
          /\ \A i \in DOMAIN Order : Order[i] \in Accounts
      BY PoolAssumption
    <3> QED
      BY <3>1, <3>2
  <2>2. S \in SUBSET Accounts /\ a \notin S
    BY <2>1, OrderAssumption DEF Before
  <2>3. S \cup {a} = Before(reload.k + 1)
    <3>1. 1..((reload.k + 1) - 1) = 1..(reload.k - 1) \cup {reload.k}
      BY <2>1
    <3> QED
      BY <3>1 DEF Before
  <2>4. Filled(reload.built, c, reload.allow, S)
    BY <1>3 DEF ReloadAppend, ReloadFills
  <2>5. /\ reload.built \in Seq(Member) /\ c \in [Accounts -> ConfRecord]
        /\ reload.allow \in BOOLEAN
    BY DEF TypeOK
  <2>6. Filled(longer, c, reload.allow, S \cup {a})
    BY <2>1, <2>2, <2>4, <2>5, AppendFills
  <2>7. /\ reload'.st = "append" /\ reload'.k = reload.k + 1 /\ reload'.built = longer
        /\ reload'.conf = c /\ reload'.allow = reload.allow
    BY <1>3 DEF ReloadAppend, TypeOK
  <2> HIDE DEF a, c, longer, S
  <2>8. ReloadFills'
    BY <2>3, <2>6, <2>7 DEF ReloadFills
  <2>9. SlotsFilled'
    BY <1>3 DEF ReloadAppend, SlotsFilled
  <2> QED
    BY <2>8, <2>9
<1>4. CASE ReloadCommit
  <2>1. /\ Filled(reload.built, reload.conf, reload.allow, Before(reload.k))
        /\ reload.conf \in [Accounts -> ConfRecord] /\ reload.allow \in BOOLEAN
    BY <1>4 DEF ReloadCommit, ReloadFills, TypeOK
  <2>2. \A i \in DOMAIN reload.built :
           reload.built[i].id \in Before(reload.k) \cap Accounts
    <3>1. reload.built \in Seq(Member)
      BY DEF TypeOK
    <3>2. \A i \in DOMAIN reload.built : reload.built[i] \in Member
      BY <3>1
    <3> QED
      BY <2>1, <3>2 DEF Filled, Member
  <2>3. Filled(reload.built, reload.conf, reload.allow, Before(reload.k) \cap Accounts)
    BY <2>1, <2>2 DEF Filled
  <2>4. SlotsFilled'
    <3> DEFINE S == Before(reload.k) \cap Accounts
    <3>1. S \in SUBSET Accounts
      OBVIOUS
    <3> HIDE DEF S
    <3> QED
      BY <1>4, <2>1, <2>3, <3>1 DEF ReloadCommit, SlotsFilled, S
  <2>5. ReloadFills'
    BY <1>4 DEF ReloadCommit, ReloadFills, NoReload
  <2> QED
    BY <2>4, <2>5
<1> QED
  BY <1>1, <1>2, <1>3, <1>4 DEF Reload

LEMMA NextFillsSlots ==
    ASSUME TypeOK, SlotsInv, [Next]_vars
    PROVE  SlotsInv'
<1>1. CASE Reload
  BY <1>1, ReloadFillsSlots
<1>2. CASE UNCHANGED <<slots, totalAccounts, reload>>
  BY <1>2 DEF SlotsInv, ReloadFills, SlotsFilled
<1>3. CASE \E c \in Callers : Select(c)
  BY <1>2, <1>3 DEF Select, Begin, Draw, Fallback, Return, poolVars
<1>4. CASE Record
  BY <1>2, <1>4 DEF Record, RecordSuccess, RecordError, RecordRateLimit, SetModelList
<1>5. CASE Configure \/ Tick \/ UNCHANGED vars
  BY <1>2, <1>5 DEF Configure, EditAccount, UpdateAllowOverUsage, Tick, vars, poolVars
<1> QED
  BY <1>1, <1>3, <1>4, <1>5 DEF Next

LEMMA SlotsHold == Spec => [](TypeOK /\ SlotsInv)
<1>1. Init => SlotsInv
  <2> SUFFICES ASSUME Init
               PROVE  SlotsInv
    OBVIOUS
  <2>1. conf \in [Accounts -> ConfRecord]
    BY PoolAssumption DEF Init, ConfRecord
  <2>2. SlotsFilled
    <3>1. slots = <<>>
      BY DEF Init
    <3>2. Filled(slots, conf, TRUE, {})
      BY <3>1, FilledEmpty
    <3>3. {} \in SUBSET Accounts
      OBVIOUS
    <3> SUFFICES \E c \in [Accounts -> ConfRecord], allow \in BOOLEAN,
                    S \in SUBSET Accounts :
                    /\ Filled(slots, c, allow, S)
                    /\ slots # <<>> =>
                          totalAccounts = Cardinality({a \in Accounts : c[a].enabled})
      BY DEF SlotsFilled
    <3> WITNESS conf \in [Accounts -> ConfRecord], TRUE \in BOOLEAN, {} \in SUBSET Accounts
    <3> QED
      BY <3>1, <3>2
  <2>3. ReloadFills
    BY DEF Init, ReloadFills, NoReload
  <2> QED
    BY <2>2, <2>3 DEF SlotsInv
<1>2. TypeOK /\ SlotsInv /\ [Next]_vars => SlotsInv'
  BY NextFillsSlots
<1> QED
  BY <1>1, <1>2, TypeCorrect, PTL DEF Spec

\* An account that runs on overage never has more slots than an account within
\* its limit, for every configuration, whatever weights it asks for.
THEOREM OverageIsBounded == Spec => []OverageShare
<1>1. TypeOK /\ SlotsInv => OverageShare
  <2> SUFFICES ASSUME TypeOK, SlotsInv,
                      NEW s \in Members, NEW t \in Members, s.over, ~t.over
               PROVE  Cardinality(Slotted(s.id)) <= Cardinality(Slotted(t.id))
    BY DEF OverageShare
  <2>1. PICK c \in [Accounts -> ConfRecord], allow \in BOOLEAN, S \in SUBSET Accounts :
           Filled(slots, c, allow, S)
    BY DEF SlotsInv, SlotsFilled
  <2>2. ASSUME NEW u \in Members
        PROVE  /\ u.id \in S /\ u.id \in Accounts /\ u.over = c[u.id].over
               /\ Cardinality(Slotted(u.id)) = SlotCount(c[u.id], allow)
    <3>1. PICK i \in DOMAIN slots : u = slots[i]
      BY DEF Members
    <3>2. u.id \in S /\ c[u.id].enabled /\ u = Copy(u.id, c[u.id])
      BY <2>1, <3>1 DEF Filled
    <3>3. u.over = c[u.id].over
      BY <3>2 DEF Copy
    <3> QED
      BY <2>1, <3>2, <3>3 DEF Filled, Share, Slotted, SlotsOf
  <2>3. /\ SlotCount(c[s.id], allow) <= Scale /\ SlotCount(c[t.id], allow) >= Scale
        /\ SlotCount(c[s.id], allow) \in Nat /\ SlotCount(c[t.id], allow) \in Nat
    BY <2>2, SlotCountBounds, SlotCountNat
  <2> QED
    BY <2>2, <2>3, PoolAssumption
<1> QED
  BY <1>1, SlotsHold, PTL

\* The budget that Count gives the failover loop covers every account the pool
\* can hand out, whatever the configuration has become since the last reload.
THEOREM CountIsEnough == Spec => []CountCoversMembers
<1>1. TypeOK /\ SlotsInv => CountCoversMembers
  <2> SUFFICES ASSUME TypeOK, SlotsInv
               PROVE  CountCoversMembers
    OBVIOUS
  <2> DEFINE ids == {s.id : s \in Members}
  <2>1. PICK c \in [Accounts -> ConfRecord], allow \in BOOLEAN, S \in SUBSET Accounts :
           /\ Filled(slots, c, allow, S)
           /\ slots # <<>> => totalAccounts = Cardinality({a \in Accounts : c[a].enabled})
    BY DEF SlotsInv, SlotsFilled
  <2> DEFINE enabled == {a \in Accounts : c[a].enabled}
  <2>2. ids \subseteq enabled
    <3> SUFFICES ASSUME NEW i \in DOMAIN slots
                 PROVE  slots[i].id \in enabled
      BY DEF Members
    <3> QED
      BY <2>1 DEF Filled
  <2>3. IsFiniteSet(enabled)
    BY PoolAssumption, FS_Subset
  <2> HIDE DEF ids, enabled
  <2>4. Cardinality(ids) \in Nat /\ Cardinality(ids) <= Cardinality(enabled)
    BY <2>2, <2>3, FS_Subset, FS_CardinalityType
  <2>5. CASE slots = <<>>
    <3>1. ids = {}
      BY <2>5 DEF ids, Members
    <3>2. Cardinality(ids) = 0 /\ totalAccounts \in Nat
      BY <3>1, FS_EmptySet DEF TypeOK
    <3> QED
      BY <3>2 DEF CountCoversMembers, Count, ids
  <2>6. CASE slots # <<>>
    BY <2>1, <2>4, <2>6 DEF CountCoversMembers, Count, TypeOK, ids, enabled
  <2> QED
    BY <2>5, <2>6
<1> QED
  BY <1>1, SlotsHold, PTL
=============================================================================
