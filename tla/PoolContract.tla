----------------------------- MODULE PoolContract -----------------------------
(***************************************************************************)
(* The contract of the account pool, as its callers see it: a selection is *)
(* answered in one step with one of the Choices for the pool as it stands, *)
(* and the pool does not change between the answer's computation and its   *)
(* delivery.  Everything about slots, weights, the shared cursor and the   *)
(* two passes of the scan is absent.  AccountPool implements it.           *)
(***************************************************************************)
EXTENDS Selection

CONSTANT Callers      \* request goroutines

VARIABLES members,    \* the accounts the pool holds
          lists,      \* model list of each account
          cooldown,   \* end of each account's cooldown, 0 without one
          allowOver,  \* the global over-usage switch
          now,        \* the clock
          ask         \* what each caller is doing

vars == <<members, lists, cooldown, allowOver, now, ask>>

Ask == [st: {"idle", "waiting", "answered"}, q: Query, res: Accounts \cup {None}]

NoQuery == [model |-> AnyModel, excl |-> {}, at |-> 0, allow |-> FALSE]

Idle == [st |-> "idle", q |-> NoQuery, res |-> None]

TypeOK == /\ members \in SUBSET Member
          /\ lists \in [Accounts -> SUBSET Models]
          /\ cooldown \in [Accounts -> Nat]
          /\ allowOver \in BOOLEAN
          /\ now \in Nat
          /\ ask \in [Callers -> Ask]

Init == /\ members = {}
        /\ lists = [a \in Accounts |-> {}]
        /\ cooldown = [a \in Accounts |-> 0]
        /\ allowOver \in BOOLEAN
        /\ now \in Nat
        /\ ask = [c \in Callers |-> Idle]

Request(c) ==
    /\ ask[c].st = "idle"
    /\ ask' = [ask EXCEPT ![c] = ask'[c]]
    /\ ask'[c] \in Ask
    /\ ask'[c].st = "waiting" /\ ask'[c].q.at = now /\ ask'[c].q.allow = allowOver
    /\ UNCHANGED <<members, lists, cooldown, allowOver, now>>

Answer(c) ==
    /\ ask[c].st = "waiting"
    /\ \E a \in Choices(members, lists, cooldown, ask[c].q) :
          ask' = [ask EXCEPT ![c] = [st |-> "answered", q |-> ask[c].q, res |-> a]]
    /\ UNCHANGED <<members, lists, cooldown, allowOver, now>>

Deliver(c) ==
    /\ ask[c].st = "answered"
    /\ ask' = [ask EXCEPT ![c] = Idle]
    /\ UNCHANGED <<members, lists, cooldown, allowOver, now>>

\* The pool is rewritten only while no selection is in progress.
Rewrite ==
    /\ \A c \in Callers : ask[c].st = "idle"
    /\ members' \in SUBSET Member
    /\ lists' \in [Accounts -> SUBSET Models]
    /\ cooldown' \in [Accounts -> Nat]
    /\ UNCHANGED <<allowOver, now, ask>>

Outside ==
    /\ allowOver' \in BOOLEAN
    /\ now' \in Nat /\ now' >= now
    /\ UNCHANGED <<members, lists, cooldown, ask>>

Next == \/ \E c \in Callers : Request(c) \/ Answer(c) \/ Deliver(c)
        \/ Rewrite
        \/ Outside

Spec == Init /\ [][Next]_vars
=============================================================================
