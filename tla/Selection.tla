------------------------------ MODULE Selection ------------------------------
(***************************************************************************)
(* Which accounts a request may be given: the vocabulary shared by the     *)
(* account pool (pool/account.go), by its contract and by the failover     *)
(* loop.  Everything here is a constant operator.                          *)
(*                                                                         *)
(* A query q is the part of a selection that is fixed when it starts: the  *)
(* model asked for, the accounts the caller excludes, the instant read     *)
(* from the clock and the global over-usage switch read from the config.   *)
(* A member s is the pool's copy of an account: its id, whether its usage  *)
(* has reached its limit, and whether the account itself may go over it    *)
(* (AllowOverage, or an upstream overage status of ENABLED).               *)
(***************************************************************************)
EXTENDS Naturals

CONSTANTS Accounts,   \* account ids
          Models,     \* model ids, normalised
          AnyModel,   \* the model "" or "auto": every account serves it
          None        \* the nil *config.Account

ASSUME SentinelAssumption == AnyModel \notin Models /\ None \notin Accounts

Member == [id: Accounts, over: BOOLEAN, permit: BOOLEAN]

Query == [model: Models \cup {AnyModel}, excl: SUBSET Accounts,
          at: Nat, allow: BOOLEAN]

\* An account whose model list is unknown or empty serves every model.
HasModel(lists, a, m) == m = AnyModel \/ lists[a] = {} \/ m \in lists[a]

QuotaBlocked(s, allow) == s.over /\ ~allow /\ ~s.permit

Fits(s, lists, q) == /\ s.id \notin q.excl
                     /\ HasModel(lists, s.id, q.model)
                     /\ ~QuotaBlocked(s, q.allow)

Eligible(members, lists, q) == {s.id : s \in {t \in members : Fits(t, lists, q)}}

\* cooldown[a] = 0 is an account without a cooldown entry.
Cooling(cooldown, a, q) == q.at < cooldown[a]

Earliest(S, cooldown) == {a \in S : \A b \in S : cooldown[a] <= cooldown[b]}

(***************************************************************************)
(* What the pool promises: a ready account if there is one, otherwise the  *)
(* eligible account whose cooldown ends first, and nil only when no        *)
(* account is eligible.                                                    *)
(***************************************************************************)
Choices(members, lists, cooldown, q) ==
    LET E == Eligible(members, lists, q)
        R == {a \in E : ~Cooling(cooldown, a, q)}
    IN  IF R # {} THEN R
        ELSE IF E # {} THEN Earliest(E, cooldown)
        ELSE {None}
=============================================================================
