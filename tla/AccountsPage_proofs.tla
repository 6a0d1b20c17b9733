-------------------------- MODULE AccountsPage_proofs --------------------------
(***************************************************************************)
(* Proofs about the accounts page.  A list or a summary that is wrong is   *)
(* going to be replaced: by the list a handler will ask for as it has      *)
(* changed the accounts, or by the newest list on its way, if that was not *)
(* served yet or has what the server has.                                  *)
(***************************************************************************)
EXTENDS AccountsPage, TLAPS

-----------------------------------------------------------------------------
(* The invariant.                                                          *)

Shown == Listed(server, fetchParams)
Cards == Summary(server)

\* A handler is a record with these fields.
IsTask(t) ==
    t = [n |-> t.n, does |-> t.does, id |-> t.id, on |-> t.on, flaw |-> t.flaw,
         doing |-> t.doing, q |-> t.q, no |-> t.no, got |-> t.got, more |-> t.more]

WellFormed(t) ==
    /\ IsTask(t) /\ t.no \in Nat /\ t.doing \in {"call", "list", "summary"}
    /\ t.doing = "summary" <=> t.does = "summary"
    /\ t.doing = "call" => \/ t.got = None
                           \/ \E c, v \in BOOLEAN : t.got = [changed |-> c, valid |-> v]
    /\ t.more \in BOOLEAN /\ (t.more => t.does = "check")

Types ==
    /\ requested \in Nat /\ delivered \in Nat /\ delivered <= requested
    /\ \A t \in tasks : WellFormed(t) /\ t.no <= requested

Newest(t) == \A u \in tasks : u.doing = t.doing /\ u # t => u.no < t.no

\* A handler will ask for a list, or for a summary.
Due(t) == t.doing = "call" /\ t.got # None /\ Refetches(t)
CardsDue(t) == /\ t.does \in SummedCommands
               /\ \/ t.doing = "list"
                  \/ t.doing = "call" /\ t.got # None /\ t.got.changed

Coming(t) == /\ t.doing = "list" /\ t.no > delivered /\ Newest(t)
             /\ t.q = fetchParams /\ t.got \in {None, Shown}
CardsComing(t) == t.doing = "summary" /\ Newest(t) /\ t.got \in {None, Cards}

Current == /\ \A t \in tasks : t.doing = "list" => t.no <= delivered
           /\ connections = Shown.rows /\ pagination = Shown.pagination
CardsCurrent == (\A t \in tasks : t.doing # "summary") /\ stats = Cards

ListFollows == clean => \/ \E t \in tasks : Due(t) \/ Coming(t)
                        \/ Current
CardsFollow == clean /\ summed => \/ \E t \in tasks : CardsDue(t) \/ CardsComing(t)
                                  \/ CardsCurrent

IInv == Types /\ ListFollows /\ CardsFollow /\ BusyHasTask

LEMMA SameShown == ASSUME UNCHANGED <<server, fetchParams>> PROVE Shown' = Shown
BY DEF Shown

LEMMA SameCards == ASSUME UNCHANGED server PROVE Cards' = Cards
BY DEF Cards

LEMMA InitInv == ASSUME AccountsPageAssumption, Init PROVE IInv
<1>1. PICK q : q = fetchParams
  OBVIOUS
<1>2. PICK t : /\ t = [n |-> 0, does |-> "fetch", id |-> None, on |-> FALSE, flaw |-> "none",
                       doing |-> "list", q |-> q, no |-> 1, got |-> None, more |-> FALSE]
               /\ tasks = {t}
  BY <1>1 DEF Init
<1>3. /\ requested = 1 /\ delivered = 0 /\ busyId = None /\ ~checkingCredits
      /\ ~bulkRefreshingTokens /\ stats = Cards
  BY DEF Init, Cards
<1>4. Types
  BY <1>2, <1>3 DEF Types, WellFormed, IsTask
<1>5. Coming(t) /\ CardsCurrent
  BY <1>1, <1>2, <1>3 DEF Coming, CardsCurrent, Newest
<1>6. BusyHasTask
  BY <1>2, <1>3 DEF BusyHasTask
<1> QED
  BY <1>2, <1>4, <1>5, <1>6 DEF IInv, ListFollows, CardsFollow

\* A step that leaves lists alone, and handlers that will ask for one.
LEMMA ListsKept ==
    ASSUME ListFollows, UNCHANGED <<server, fetchParams, connections, pagination, delivered>>,
           clean' => clean,
           \A u \in tasks : Due(u) \/ u.doing = "list" => u \in tasks',
           \A u \in tasks' : u.doing = "list" => u \in tasks
    PROVE  ListFollows'
<1> SUFFICES ASSUME clean' PROVE (\E t \in tasks' : Due(t) \/ Coming(t)') \/ Current'
  BY DEF ListFollows, Due
<1>1. Shown' = Shown
  BY SameShown
<1>2. ASSUME NEW t \in tasks, Due(t) PROVE t \in tasks'
  BY <1>2
<1>3. ASSUME NEW t \in tasks, Coming(t) PROVE t \in tasks' /\ Coming(t)'
  BY <1>1, <1>3 DEF Coming, Newest
<1>4. ASSUME Current PROVE Current'
  BY <1>1, <1>4 DEF Current
<1> QED
  BY <1>2, <1>3, <1>4 DEF ListFollows

\* A step that leaves summaries alone, and some handler that will ask for one.
LEMMA CardsKept ==
    ASSUME CardsFollow, UNCHANGED <<server, stats>>, clean' => clean, summed' => summed,
           \A u \in tasks : CardsDue(u) => \E v \in tasks' : CardsDue(v),
           \A u \in tasks : u.doing = "summary" => u \in tasks',
           \A u \in tasks' : u.doing = "summary" => u \in tasks
    PROVE  CardsFollow'
<1> SUFFICES ASSUME clean', summed'
             PROVE  (\E t \in tasks' : CardsDue(t) \/ CardsComing(t)') \/ CardsCurrent'
  BY DEF CardsFollow, CardsDue
<1>1. Cards' = Cards
  BY SameCards
<1>2. ASSUME NEW t \in tasks, CardsComing(t) PROVE t \in tasks' /\ CardsComing(t)'
  BY <1>1, <1>2 DEF CardsComing, Newest
<1>3. ASSUME CardsCurrent PROVE CardsCurrent'
  BY <1>1, <1>3 DEF CardsCurrent
<1> QED
  BY <1>2, <1>3 DEF CardsFollow

\* A new request for the list of fetchParams.
ListAsked(new) ==
    /\ new \in tasks' /\ \A u \in tasks' : u = new \/ u \in tasks
    /\ WellFormed(new) /\ new.doing = "list" /\ new.no = requested + 1
    /\ new.q = fetchParams' /\ new.got = None
    /\ requested' = requested + 1 /\ delivered' \in Nat /\ delivered' <= requested

LEMMA AskedFollows ==
    ASSUME Types, NEW new, ListAsked(new)
    PROVE  Types' /\ ListFollows'
<1>1. requested \in Nat /\ requested' = requested + 1 /\ delivered' \in Nat
      /\ delivered' <= requested
  BY DEF Types, ListAsked
<1>2. \A u \in tasks' : u # new => /\ WellFormed(u) /\ u.no \in Nat
                                    /\ u.no <= requested /\ u.no < new.no
  BY <1>1 DEF Types, ListAsked, WellFormed
<1>3. WellFormed(new) /\ new.no = requested + 1
  BY DEF ListAsked
<1>4. Types'
  BY <1>1, <1>2, <1>3 DEF Types
<1>5. new \in tasks' /\ Coming(new)'
  BY <1>1, <1>2 DEF Coming, Newest, ListAsked
<1> QED
  BY <1>4, <1>5 DEF ListFollows

\* A new request for the summary, which no handler waits for.
LEMMA SummaryFollows ==
    ASSUME Types, NEW t \in tasks, NEW new, new = Summing(requested + 1),
           tasks' = (tasks \ {t}) \cup {new}, requested' = requested + 1
    PROVE  /\ WellFormed(new) /\ new.doing = "summary" /\ new.no = requested + 1
           /\ CardsFollow'
<1>1. /\ WellFormed(new) /\ new.doing = "summary" /\ new.no = requested + 1 /\ new.got = None
  BY DEF Summing, WellFormed, IsTask, Types
<1>2. \A u \in tasks' : u # new => u.no \in Nat /\ u.no < new.no
  BY <1>1 DEF Types, WellFormed
<1>3. new \in tasks' /\ CardsComing(new)'
  BY <1>1, <1>2 DEF CardsComing, Newest
<1> QED
  BY <1>1, <1>3 DEF CardsFollow

\* The list that a handler asks for.
LEMMA FetchingAsks ==
    ASSUME Types, NEW t \in tasks, NEW more \in BOOLEAN, NEW q,
           Fetching(t, more, q), t.doing # "summary", more => t.does = "check",
           delivered' \in Nat, delivered' <= requested
    PROVE  \E new : ListAsked(new) /\ new.does = t.does /\ tasks' = (tasks \ {t}) \cup {new}
<1>1. PICK next : next = requested + 1 /\ next \in Nat
  BY DEF Types
<1>2. PICK new : new = [t EXCEPT !.doing = "list", !.q = q, !.no = next, !.got = None,
                                 !.more = more]
  OBVIOUS
<1>3. /\ tasks' = (tasks \ {t}) \cup {new} /\ requested' = requested + 1
      /\ fetchParams' = q
  BY <1>1, <1>2 DEF Fetching
<1>4. WellFormed(t)
  BY DEF Types
<1>5. new = [n |-> t.n, does |-> t.does, id |-> t.id, on |-> t.on, flaw |-> t.flaw,
             doing |-> "list", q |-> q, no |-> next, got |-> None, more |-> more]
  BY <1>2, <1>4 DEF WellFormed, IsTask
<1>6. t.does # "summary"
  BY <1>4 DEF WellFormed
<1>7. WellFormed(new) /\ new.does = t.does
  BY <1>1, <1>5, <1>6 DEF WellFormed, IsTask
<1> QED
  BY <1>1, <1>3, <1>5, <1>7 DEF ListAsked

\* A list that the user asks for.
LEMMA AskingAsks ==
    ASSUME Types, NEW q, Asking(q), UNCHANGED delivered
    PROVE  \E new : ListAsked(new) /\ new.does = "fetch" /\ tasks' = tasks \cup {new}
<1>1. PICK next : next = requested + 1 /\ next \in Nat
  BY DEF Types
<1>2. PICK base : base = Task("fetch", None, FALSE, "none")
  OBVIOUS
<1>3. IsTask(base) /\ base.does = "fetch" /\ base.got = None /\ base.more = FALSE
  BY <1>2 DEF Task, IsTask
<1>4. PICK new : new = [base EXCEPT !.doing = "list", !.q = q, !.no = next]
  OBVIOUS
<1>5. /\ tasks' = tasks \cup {new} /\ requested' = requested + 1 /\ fetchParams' = q
  BY <1>1, <1>2, <1>4 DEF Asking
<1>6. new = [n |-> base.n, does |-> base.does, id |-> base.id, on |-> base.on,
             flaw |-> base.flaw, doing |-> "list", q |-> q, no |-> next, got |-> base.got,
             more |-> base.more]
  BY <1>3, <1>4 DEF IsTask
<1>7. WellFormed(new)
  BY <1>1, <1>3, <1>6 DEF WellFormed, IsTask
<1> QED
  BY <1>1, <1>3, <1>5, <1>6, <1>7 DEF ListAsked, Types

\* A call that the user gives.
LEMMA CallingKeeps ==
    ASSUME Types, ListFollows, CardsFollow, NEW does, NEW id, NEW on, NEW flaw,
           does # "summary", Calling(does, id, on, flaw),
           UNCHANGED <<server0, storeVars, requested>>
    PROVE  /\ Types' /\ ListFollows' /\ CardsFollow'
           /\ \E new \in tasks' : new.does = does
           /\ tasks \subseteq tasks'
<1>1. PICK n : n = started + 1
  OBVIOUS
<1>2. PICK q : q = fetchParams
  OBVIOUS
<1>3. PICK new : new = [n |-> n, does |-> does, id |-> id, on |-> on, flaw |-> flaw,
                        doing |-> "call", q |-> q, no |-> 0, got |-> None, more |-> FALSE]
  OBVIOUS
<1>4. tasks' = tasks \cup {new} /\ new.does = does
  BY <1>1, <1>2, <1>3 DEF Calling, Task
<1>5. WellFormed(new) /\ new.no = 0 /\ new.doing = "call"
  BY <1>3 DEF WellFormed, IsTask
<1>6. UNCHANGED <<server, clean, delivered, stats, summed, fetchParams, connections,
                  pagination, requested>>
  BY DEF server0, storeVars
<1>7. Types'
  BY <1>4, <1>5, <1>6 DEF Types
<1>8. ListFollows'
  BY <1>4, <1>5, <1>6, ListsKept
<1>9. CardsFollow'
  BY <1>4, <1>5, <1>6, CardsKept
<1> QED
  BY <1>4, <1>7, <1>8, <1>9

\* A step that ends no handler.
LEMMA BusyKept ==
    ASSUME BusyHasTask,
           \A u \in tasks : \E v \in tasks' : v.does = u.does,
           busyId' = busyId \/ \E v \in tasks' : v.does \in RowCommands,
           checkingCredits' => \/ checkingCredits
                               \/ \E v \in tasks' : v.does = "checkAllCredits",
           bulkRefreshingTokens' => \/ bulkRefreshingTokens
                                    \/ \E v \in tasks' : v.does = "bulkRefreshTokens",
           loading' => \E v \in tasks' : v.doing = "list"
    PROVE  BusyHasTask'
BY DEF BusyHasTask

\* A step that ends one: what it disabled, it enables again.
LEMMA BusyEnded ==
    ASSUME BusyHasTask, NEW t \in tasks, NEW fine \in BOOLEAN, Ended(t, fine),
           loading' => \E v \in tasks' : v.doing = "list"
    PROVE  BusyHasTask'
<1>1. \A u \in tasks : u = t \/ u \in tasks'
  BY DEF Ended, Left
<1>2. busyId' # None => \E u \in tasks' : u.does \in RowCommands
  BY <1>1 DEF Ended, BusyHasTask
<1>3. checkingCredits' => \E u \in tasks' : u.does = "checkAllCredits"
  BY <1>1 DEF Ended, BusyHasTask
<1>4. bulkRefreshingTokens' => \E u \in tasks' : u.does = "bulkRefreshTokens"
  BY <1>1 DEF Ended, BusyHasTask
<1> QED
  BY <1>2, <1>3, <1>4 DEF BusyHasTask

\* What remains when a handler has returned.
LEMMA EndedLeaves ==
    ASSUME Types, NEW t \in tasks, NEW fine \in BOOLEAN, Ended(t, fine),
           delivered' \in Nat, delivered' <= requested
    PROVE  /\ Types'
           /\ \A u \in tasks : u = t \/ u \in tasks'
           /\ \A u \in tasks' : (u \in tasks /\ u # t) \/ u.doing = "summary"
<1>1. CASE tasks' = tasks \ {t} /\ UNCHANGED requested
  BY <1>1 DEF Types
<1>2. CASE /\ tasks' = (tasks \ {t}) \cup {Summing(requested + 1)}
           /\ requested' = requested + 1
  <2>1. PICK new : new = Summing(requested + 1)
    OBVIOUS
  <2>2. WellFormed(new) /\ new.doing = "summary" /\ new.no = requested + 1
    BY <1>2, <2>1, SummaryFollows
  <2>3. requested \in Nat /\ requested' = requested + 1
    BY <1>2 DEF Types
  <2>4. \A u \in tasks : WellFormed(u) /\ u.no \in Nat /\ u.no <= requested
    BY DEF Types, WellFormed
  <2>5. Types'
    BY <1>2, <2>1, <2>2, <2>3, <2>4 DEF Types
  <2> QED
    BY <1>2, <2>1, <2>2, <2>5
<1> QED
  BY <1>1, <1>2 DEF Ended, Left

\* A handler that has to ask for the summary does so when it returns.
LEMMA EndedFollows ==
    ASSUME Types, CardsFollow, NEW t \in tasks, NEW fine \in BOOLEAN,
           Ended(t, fine), t.doing # "summary", CardsDue(t) => fine,
           UNCHANGED <<server, stats, summed>>, clean' => clean
    PROVE  CardsFollow'
<1>1. CASE /\ tasks' = (tasks \ {t}) \cup {Summing(requested + 1)}
           /\ requested' = requested + 1
  BY <1>1, SummaryFollows
<1>2. CASE /\ tasks' = tasks \ {t}
           /\ ~(fine /\ t.does \in SummedCommands)
  <2>1. ~CardsDue(t)
    BY <1>2 DEF CardsDue
  <2> QED
    BY <1>2, <2>1, CardsKept
<1> QED
  BY <1>1, <1>2 DEF Ended, Left

\* A call changes nothing that is shown.
LEMMA CommandsKeep ==
    ASSUME IInv, AccountsPageAssumption,
           \/ \E c \in RowCommands, i \in DOMAIN connections :
                 RowCommand(c, connections[i])
           \/ \E c \in {"enableByProvider", "disableByProvider"} : ProviderCommand(c)
           \/ DeleteProvider \/ \E f \in Flaws : RemoveFlawed(f)
           \/ CheckAllCredits \/ BulkRefreshTokens \/ ImportData
    PROVE  IInv'
<1> USE DEF IInv
<1>1. ASSUME NEW c \in RowCommands, NEW r, RowCommand(c, r) PROVE IInv'
  <2>1. PICK id, on : Calling(c, id, on, "none")
    BY <1>1 DEF RowCommand
  <2>2. c # "summary" /\ UNCHANGED <<server0, storeVars, requested>>
    BY <1>1 DEF RowCommand, RowCommands
  <2>3. /\ Types' /\ ListFollows' /\ CardsFollow' /\ tasks \subseteq tasks'
        /\ \E new \in tasks' : new.does = c
    BY <2>1, <2>2, CallingKeeps
  <2>4. UNCHANGED <<checkingCredits, bulkRefreshingTokens, loading>>
    BY <1>1 DEF RowCommand, storeVars
  <2>5. BusyHasTask'
    BY <1>1, <2>3, <2>4 DEF BusyHasTask
  <2> QED
    BY <2>3, <2>5
<1>2. ASSUME NEW does, NEW flaw, does # "summary", Calling(does, None, FALSE, flaw),
             UNCHANGED <<server0, storeVars, requested, busyId>>,
             checkingCredits' = checkingCredits \/ does = "checkAllCredits",
             bulkRefreshingTokens' = bulkRefreshingTokens \/ does = "bulkRefreshTokens"
      PROVE  IInv'
  <2>1. /\ Types' /\ ListFollows' /\ CardsFollow' /\ tasks \subseteq tasks'
        /\ \E new \in tasks' : new.does = does
    BY <1>2, CallingKeeps
  <2>2. UNCHANGED loading
    BY <1>2 DEF storeVars
  <2>3. BusyHasTask'
    BY <1>2, <2>1, <2>2 DEF BusyHasTask
  <2> QED
    BY <2>1, <2>3
<1>3. ASSUME NEW c \in {"enableByProvider", "disableByProvider"}, ProviderCommand(c)
      PROVE  IInv'
  BY <1>2, <1>3 DEF ProviderCommand, flagVars
<1>4. CASE DeleteProvider
  BY <1>2, <1>4 DEF DeleteProvider, flagVars
<1>5. ASSUME NEW f \in Flaws, RemoveFlawed(f) PROVE IInv'
  BY <1>2, <1>5 DEF RemoveFlawed, flagVars
<1>6. CASE CheckAllCredits
  BY <1>2, <1>6 DEF CheckAllCredits
<1>7. CASE BulkRefreshTokens
  BY <1>2, <1>7 DEF BulkRefreshTokens
<1>8. CASE ImportData
  BY <1>2, <1>8 DEF ImportData, flagVars
<1> QED
  BY <1>1, <1>3, <1>4, <1>5, <1>6, <1>7, <1>8

\* A list the user asks for is the newest one.
LEMMA AskingKeeps ==
    ASSUME IInv, NEW q, Asking(q), UNCHANGED <<server0, busyId,
           checkingCredits, bulkRefreshingTokens>>
    PROVE  IInv'
<1> USE DEF IInv
<1>1. UNCHANGED <<server, clean, delivered, stats, summed>>
  BY DEF server0
<1>2. PICK new : ListAsked(new) /\ new.does = "fetch" /\ tasks' = tasks \cup {new}
  BY <1>1, AskingAsks
<1>3. Types' /\ ListFollows'
  BY <1>2, AskedFollows
<1>4. new.doing = "list"
  BY <1>2 DEF ListAsked
<1>5. CardsFollow'
  BY <1>1, <1>2, <1>4, CardsKept
<1>6. BusyHasTask'
  BY <1>2, <1>4, BusyKept
<1> QED
  BY <1>3, <1>5, <1>6

LEMMA UserKeeps ==
    ASSUME IInv, AccountsPageAssumption, UserStep \/ SearchTimer
    PROVE  IInv'
<1>1. CASE Refresh
  BY <1>1, AskingKeeps DEF Refresh, flagVars
<1>2. ASSUME NEW p, GoToPage(p) PROVE IInv'
  BY <1>2, AskingKeeps DEF GoToPage, flagVars
<1>3. ASSUME NEW f, SelectFilter(f) PROVE IInv'
  BY <1>3, AskingKeeps DEF SelectFilter, flagVars
<1>4. CASE SearchTimer
  BY <1>4, AskingKeeps DEF SearchTimer
<1>5. ASSUME NEW f, Type(f) PROVE IInv'
  <2>1. UNCHANGED <<server, clean, delivered, stats, summed, connections, pagination,
                    fetchParams, loading, busyId, checkingCredits, bulkRefreshingTokens,
                    tasks, requested>>
    BY <1>5 DEF Type, server0, storeVars
  <2>2. Types' /\ BusyHasTask'
    BY <2>1 DEF IInv, Types, BusyHasTask
  <2>3. ListFollows' /\ CardsFollow'
    BY <2>1, ListsKept, CardsKept DEF IInv
  <2> QED
    BY <2>2, <2>3 DEF IInv
<1> QED
  BY <1>1, <1>2, <1>3, <1>4, <1>5, CommandsKeep DEF UserStep

-----------------------------------------------------------------------------
(* The server answers.  A handler keeps its place with the answer in it.   *)

Answered(t, got) == [t EXCEPT !.got = got]
Result == [changed : BOOLEAN, valid : BOOLEAN]

LEMMA AnsweredFields ==
    ASSUME NEW t, IsTask(t), NEW got
    PROVE  /\ IsTask(Answered(t, got)) /\ Answered(t, got).got = got
           /\ Answered(t, got).does = t.does /\ Answered(t, got).doing = t.doing
           /\ Answered(t, got).q = t.q /\ Answered(t, got).no = t.no
           /\ Answered(t, got).more = t.more
<1>1. PICK new : new = [t EXCEPT !.got = got]
  OBVIOUS
<1>2. new = [n |-> t.n, does |-> t.does, id |-> t.id, on |-> t.on, flaw |-> t.flaw,
             doing |-> t.doing, q |-> t.q, no |-> t.no, got |-> got, more |-> t.more]
  BY <1>1 DEF IsTask
<1> QED
  BY <1>1, <1>2 DEF IsTask, Answered

LEMMA ServeTypes ==
    ASSUME Types, NEW t \in tasks, NEW got, t.doing = "call" => got \in Result,
           tasks' = (tasks \ {t}) \cup {Answered(t, got)}, UNCHANGED <<requested, delivered>>
    PROVE  Types'
<1>1. PICK new : new = Answered(t, got)
  OBVIOUS
<1>2. WellFormed(t) /\ t.no <= requested
  BY DEF Types
<1>3. new.doing = "call" =>
          new.got = None \/ \E c, v \in BOOLEAN : new.got = [changed |-> c, valid |-> v]
  <2>1. \A r \in Result : \E c, v \in BOOLEAN : r = [changed |-> c, valid |-> v]
    BY DEF Result
  <2> QED
    BY <1>1, <1>2, <2>1, AnsweredFields DEF WellFormed
<1>4. /\ IsTask(new) /\ new.does = t.does /\ new.doing = t.doing /\ new.no = t.no
      /\ new.more = t.more
  BY <1>1, <1>2, AnsweredFields DEF WellFormed
<1>5. WellFormed(new) /\ new.no <= requested
  BY <1>2, <1>3, <1>4 DEF WellFormed
<1> QED
  BY <1>1, <1>5 DEF Types

LEMMA ServeBusy ==
    ASSUME Types, BusyHasTask, NEW t \in tasks, NEW got,
           tasks' = (tasks \ {t}) \cup {Answered(t, got)}, UNCHANGED <<flagVars, loading>>
    PROVE  BusyHasTask'
<1>1. PICK new : new = Answered(t, got)
  OBVIOUS
<1>2. new.does = t.does /\ new.doing = t.doing
  BY <1>1, AnsweredFields DEF Types, WellFormed
<1>3. tasks' = (tasks \ {t}) \cup {new}
  BY <1>1
<1>4. \A u \in tasks : \E v \in tasks' : v.does = u.does /\ v.doing = u.doing
  BY <1>2, <1>3
<1> QED
  BY <1>4 DEF BusyHasTask, flagVars

\* A list is served: what it has is what the page is to show, if it asked for that.
LEMMA ListServed ==
    ASSUME IInv, AccountsPageAssumption, NEW t \in tasks, t.doing = "list",
           t.got = None,
           tasks' = (tasks \ {t}) \cup {Answered(t, Listed(server, t.q))},
           UNCHANGED <<server, fetchParams, connections, pagination, delivered, clean, stats>>,
           summed' => summed
    PROVE  ListFollows' /\ CardsFollow'
<1>1. PICK new : new = Answered(t, Listed(server, t.q))
  OBVIOUS
<1>2. /\ new.got = Listed(server, t.q) /\ new.does = t.does /\ new.doing = "list"
      /\ new.q = t.q /\ new.no = t.no
  BY <1>1, AnsweredFields DEF IInv, Types, WellFormed
<1>3. tasks' = (tasks \ {t}) \cup {new}
  BY <1>1
<1>4. ListFollows'
  <2> SUFFICES ASSUME clean PROVE (\E u \in tasks' : Due(u) \/ Coming(u)') \/ Current'
    BY DEF ListFollows, Due
  <2>1. ASSUME NEW u \in tasks, Due(u) PROVE u \in tasks'
    BY <1>3, <2>1 DEF Due
  <2>2. ASSUME NEW u \in tasks, Coming(u), u # t PROVE u \in tasks' /\ Coming(u)'
    BY <1>2, <1>3, <2>2, SameShown DEF Coming, Newest
  <2>3. ASSUME Coming(t) PROVE new \in tasks' /\ Coming(new)'
    <3>1. new.got = Shown /\ Shown' = Shown
      BY <1>2, <2>3, SameShown DEF Coming, Shown
    <3>2. Newest(new)'
      BY <1>2, <1>3, <2>3 DEF Coming, Newest
    <3> QED
      BY <1>2, <1>3, <2>3, <3>1, <3>2 DEF Coming
  <2>4. ASSUME Current PROVE Current'
    BY <1>2, <1>3, <2>4, SameShown DEF Current
  <2> QED
    BY <2>1, <2>2, <2>3, <2>4 DEF IInv, ListFollows
<1>5. CardsFollow'
  <2>1. \A u \in tasks : CardsDue(u) => \E v \in tasks' : CardsDue(v)
    BY <1>2, <1>3 DEF CardsDue
  <2> QED
    BY <1>2, <1>3, <2>1, CardsKept DEF IInv
<1> QED
  BY <1>4, <1>5

\* So is a summary.
LEMMA SummaryServed ==
    ASSUME IInv, AccountsPageAssumption, NEW t \in tasks, t.doing = "summary",
           t.got = None, tasks' = (tasks \ {t}) \cup {Answered(t, Summary(server))},
           UNCHANGED <<server, fetchParams, connections, pagination, delivered, clean, stats>>,
           summed' => summed
    PROVE  ListFollows' /\ CardsFollow'
<1>1. PICK new : new = Answered(t, Summary(server))
  OBVIOUS
<1>2. new.got = Cards /\ new.does = t.does /\ new.doing = "summary" /\ new.no = t.no
  BY <1>1, AnsweredFields DEF IInv, Types, WellFormed, Cards
<1>3. tasks' = (tasks \ {t}) \cup {new}
  BY <1>1
<1>4. ListFollows'
  BY <1>2, <1>3, ListsKept DEF IInv, Due
<1>5. CardsFollow'
  <2> SUFFICES ASSUME clean', summed'
               PROVE  (\E u \in tasks' : CardsDue(u) \/ CardsComing(u)') \/ CardsCurrent'
    BY DEF CardsFollow, CardsDue
  <2>1. ASSUME NEW u \in tasks, CardsDue(u) PROVE u \in tasks'
    BY <1>3, <2>1 DEF CardsDue
  <2>2. ASSUME NEW u \in tasks, CardsComing(u), u # t PROVE u \in tasks' /\ CardsComing(u)'
    BY <1>2, <1>3, <2>2, SameCards DEF CardsComing, Newest
  <2>3. ASSUME CardsComing(t) PROVE new \in tasks' /\ CardsComing(new)'
    BY <1>2, <1>3, <2>3, SameCards DEF CardsComing, Newest
  <2>4. ~CardsCurrent
    BY DEF CardsCurrent
  <2> QED
    BY <2>1, <2>2, <2>3, <2>4 DEF IInv, CardsFollow
<1> QED
  BY <1>4, <1>5

\* A call is served: a handler that changed accounts has to ask for them, and for
\* the summary unless its command leaves the cards alone.
LEMMA CallServed ==
    ASSUME IInv, AccountsPageAssumption, NEW t \in tasks, t.doing = "call",
           t.got = None, NEW r \in Result, r.changed = (server' # server),
           tasks' = (tasks \ {t}) \cup {Answered(t, r)},
           summed' = (summed /\ (server' # server => t.does \in SummedCommands)),
           UNCHANGED <<fetchParams, connections, pagination, delivered, clean, stats>>
    PROVE  ListFollows' /\ CardsFollow'
<1>1. PICK new : new = Answered(t, r)
  OBVIOUS
<1>2. new.got = r /\ new.does = t.does /\ new.doing = "call" /\ r # None
  <2>1. r # None
    BY DEF AccountsPageAssumption, Result
  <2> QED
    BY <1>1, <2>1, AnsweredFields DEF IInv, Types, WellFormed
<1>3. tasks' = (tasks \ {t}) \cup {new}
  BY <1>1
<1>4. CASE server' # server
  <2>1. Due(new) /\ (summed' => CardsDue(new))
    BY <1>2, <1>4 DEF Due, Refetches, CardsDue
  <2> QED
    BY <1>3, <2>1 DEF ListFollows, CardsFollow, Due, CardsDue
<1>5. CASE server' = server
  <2>1. ~Due(t) /\ ~CardsDue(t)
    BY DEF Due, CardsDue
  <2> QED
    BY <1>2, <1>3, <1>5, <2>1, ListsKept, CardsKept DEF IInv
<1> QED
  BY <1>4, <1>5

LEMMA ServeKeeps ==
    ASSUME IInv, AccountsPageAssumption, NEW t, Serve(t)
    PROVE  IInv'
<1>1. /\ t \in tasks /\ t.got = None /\ WellFormed(t)
      /\ UNCHANGED <<fetchParams, loading, connections, pagination, delivered, clean, stats,
                     flagVars, requested>>
      /\ summed' = (summed /\ (server' # server => t.does \in SummedCommands))
  BY DEF Serve, storeVars, IInv, Types
<1>2. ASSUME NEW got, t.doing = "call" => got \in Result,
             tasks' = (tasks \ {t}) \cup {Answered(t, got)}
      PROVE  Types' /\ BusyHasTask'
  BY <1>1, <1>2, ServeTypes, ServeBusy DEF IInv
<1>3. CASE t.doing = "list"
  <2>1. tasks' = (tasks \ {t}) \cup {Answered(t, Listed(server, t.q))} /\ UNCHANGED server
    BY <1>3 DEF Serve, Answered
  <2>2. summed' => summed
    BY <1>1
  <2>3. ListFollows' /\ CardsFollow'
    BY <1>1, <1>3, <2>1, <2>2, ListServed
  <2> QED
    BY <1>2, <1>3, <2>1, <2>3 DEF IInv
<1>4. CASE t.doing = "summary"
  <2>1. tasks' = (tasks \ {t}) \cup {Answered(t, Summary(server))} /\ UNCHANGED server
    BY <1>4 DEF Serve, Answered
  <2>2. summed' => summed
    BY <1>1
  <2>3. ListFollows' /\ CardsFollow'
    BY <1>1, <1>4, <2>1, <2>2, SummaryServed
  <2> QED
    BY <1>2, <1>4, <2>1, <2>3 DEF IInv
<1>5. CASE t.doing = "call"
  <2>1. PICK c, v \in BOOLEAN :
            /\ c = (server' # server)
            /\ tasks' = (tasks \ {t}) \cup {Answered(t, [changed |-> c, valid |-> v])}
    BY <1>5 DEF Serve, Answered
  <2>2. PICK r : r = [changed |-> c, valid |-> v]
    OBVIOUS
  <2>3. r \in Result /\ r.changed = (server' # server)
    BY <2>1, <2>2 DEF Result
  <2>4. tasks' = (tasks \ {t}) \cup {Answered(t, r)}
    BY <2>1, <2>2
  <2>5. ListFollows' /\ CardsFollow'
    BY <1>1, <1>5, <2>3, <2>4, CallServed
  <2> QED
    BY <1>2, <2>3, <2>4, <2>5 DEF IInv
<1> QED
  BY <1>1, <1>3, <1>4, <1>5 DEF WellFormed

-----------------------------------------------------------------------------
(* The answer reaches the page, or the request fails.                      *)

\* A handler that goes on with a list keeps what it disables disabled.
LEMMA FetchingKeeps ==
    ASSUME Types, BusyHasTask, NEW t \in tasks, t.doing # "summary",
           NEW more \in BOOLEAN, more => t.does = "check", NEW q, Fetching(t, more, q),
           delivered' \in Nat, delivered' <= requested, UNCHANGED flagVars
    PROVE  /\ Types' /\ ListFollows' /\ BusyHasTask'
           /\ \E new : /\ tasks' = (tasks \ {t}) \cup {new}
                      /\ new.does = t.does /\ new.doing = "list"
<1>1. PICK new : ListAsked(new) /\ new.does = t.does /\ tasks' = (tasks \ {t}) \cup {new}
  BY FetchingAsks
<1>2. Types' /\ ListFollows'
  BY <1>1, AskedFollows
<1>3. new.doing = "list"
  BY <1>1 DEF ListAsked
<1>4. UNCHANGED <<busyId, checkingCredits, bulkRefreshingTokens>>
  BY DEF flagVars
<1>5. BusyHasTask'
  BY <1>1, <1>3, <1>4, BusyKept
<1> QED
  BY <1>1, <1>2, <1>3, <1>5

LEMMA AnswerKeeps ==
    ASSUME IInv, AccountsPageAssumption, NEW t, Answer(t)
    PROVE  IInv'
<1>1. /\ t \in tasks /\ t.doing = "call" /\ t.got # None /\ WellFormed(t)
      /\ UNCHANGED <<server, clean, delivered, stats, summed, pagination>>
      /\ delivered' \in Nat /\ delivered' <= requested
  BY DEF Answer, server0, IInv, Types
<1>2. CASE Refetches(t)
  <2>1. PICK more, q : /\ Fetching(t, more, q) /\ UNCHANGED flagVars
                       /\ more = (t.does = "check" /\ t.got.valid)
    BY <1>2 DEF Answer
  <2>2. more \in BOOLEAN /\ (more => t.does = "check")
    BY <2>1
  <2>3. PICK new : /\ Types' /\ ListFollows' /\ BusyHasTask'
                   /\ tasks' = (tasks \ {t}) \cup {new}
                   /\ new.does = t.does /\ new.doing = "list"
    BY <1>1, <2>1, <2>2, FetchingKeeps DEF IInv
  <2>4. \A u \in tasks : CardsDue(u) => \E v \in tasks' : CardsDue(v)
    BY <2>3 DEF CardsDue
  <2>5. CardsFollow'
    BY <1>1, <2>3, <2>4, CardsKept DEF IInv
  <2> QED
    BY <2>3, <2>5 DEF IInv
<1>3. CASE ~Refetches(t)
  <2>1. /\ Ended(t, FALSE) /\ UNCHANGED <<fetchParams, loading>>
        /\ t.does # "toggle" /\ ~t.got.changed
    BY <1>3 DEF Answer, Refetches, RowCommands
  <2>2. UNCHANGED connections
    BY <2>1 DEF Answer
  <2>3. /\ Types' /\ \A u \in tasks : u = t \/ u \in tasks'
        /\ \A u \in tasks' : (u \in tasks /\ u # t) \/ u.doing = "summary"
    BY <1>1, <2>1, EndedLeaves DEF IInv
  <2>4. \A u \in tasks : Due(u) \/ u.doing = "list" => u \in tasks'
    BY <1>1, <1>3, <2>3 DEF Due
  <2>5. ListFollows'
    BY <1>1, <2>1, <2>2, <2>3, <2>4, ListsKept DEF IInv
  <2>6. CardsFollow'
    BY <1>1, <2>1, EndedFollows DEF IInv, CardsDue
  <2>7. BusyHasTask'
    <3>1. loading' => \E v \in tasks' : v.doing = "list"
      BY <1>1, <2>1, <2>3 DEF IInv, BusyHasTask
    <3> QED
      BY <1>1, <2>1, <3>1, BusyEnded DEF IInv
  <2> QED
    BY <2>3, <2>5, <2>6, <2>7 DEF IInv
<1> QED
  BY <1>2, <1>3

\* When the newest list is delivered, none is on its way that will be shown.
LEMMA DeliverCurrent ==
    ASSUME IInv, AccountsPageAssumption, NEW t, Deliver(t), ~t.more
    PROVE  ListFollows'
<1>1. /\ t \in tasks /\ t.doing = "list" /\ t.got # None /\ WellFormed(t)
      /\ clean' = (clean /\ t.no > delivered) /\ t.no \in Nat /\ delivered \in Nat
      /\ delivered' = (IF t.no > delivered THEN t.no ELSE delivered)
      /\ delivered' \in Nat /\ delivered' <= requested
      /\ connections' = t.got.rows /\ pagination' = t.got.pagination
      /\ UNCHANGED <<server, fetchParams>> /\ Ended(t, TRUE)
  BY DEF Deliver, AfterList, IInv, Types, WellFormed
<1>2. /\ \A u \in tasks : u = t \/ u \in tasks'
      /\ \A u \in tasks' : (u \in tasks /\ u # t) \/ u.doing = "summary"
  BY <1>1, EndedLeaves DEF IInv
<1> SUFFICES ASSUME clean' PROVE (\E u \in tasks' : Due(u) \/ Coming(u)') \/ Current'
  BY DEF ListFollows, Due
<1>3. clean /\ t.no > delivered /\ delivered' = t.no
  BY <1>1
<1>4. ASSUME NEW u \in tasks, Due(u) PROVE u \in tasks'
  BY <1>1, <1>2, <1>4 DEF Due
<1>5. ASSUME NEW u \in tasks, Coming(u), u # t PROVE u \in tasks' /\ Coming(u)'
  <2>1. u.no > t.no
    BY <1>1, <1>5 DEF Coming, Newest
  <2>2. Newest(u)'
    BY <1>2, <1>5 DEF Coming, Newest
  <2> QED
    BY <1>1, <1>2, <1>3, <1>5, <2>1, <2>2, SameShown DEF Coming
<1>6. ASSUME Coming(t) PROVE Current'
  <2>1. connections' = Shown.rows /\ pagination' = Shown.pagination /\ Shown' = Shown
    BY <1>1, <1>6, SameShown DEF Coming
  <2>2. ASSUME NEW u \in tasks', u.doing = "list" PROVE u.no <= delivered'
    <3>1. u \in tasks /\ u # t /\ u.no \in Nat
      BY <1>2, <2>2 DEF IInv, Types, WellFormed
    <3>2. u.no < t.no
      BY <1>1, <1>6, <2>2, <3>1 DEF Coming, Newest
    <3> QED
      BY <1>1, <1>3, <3>1, <3>2
  <2> QED
    BY <2>1, <2>2 DEF Current
<1>7. ~Current
  BY <1>1, <1>3 DEF Current
<1> QED
  BY <1>3, <1>4, <1>5, <1>6, <1>7 DEF IInv, ListFollows

LEMMA DeliverKeeps ==
    ASSUME IInv, AccountsPageAssumption, NEW t, Deliver(t)
    PROVE  IInv'
<1>1. /\ t \in tasks /\ t.doing = "list" /\ WellFormed(t) /\ (clean' => clean)
      /\ UNCHANGED <<server, stats, summed>> /\ AfterList(t)
      /\ delivered' \in Nat /\ delivered' <= requested
  BY DEF Deliver, IInv, Types, WellFormed
<1>2. CASE t.more
  <2>1. Fetching(t, FALSE, fetchParams) /\ UNCHANGED flagVars
    BY <1>1, <1>2 DEF AfterList
  <2>2. PICK new : /\ Types' /\ ListFollows' /\ BusyHasTask'
                   /\ tasks' = (tasks \ {t}) \cup {new}
                   /\ new.does = t.does /\ new.doing = "list"
    BY <1>1, <2>1, FetchingKeeps DEF IInv
  <2>3. \A u \in tasks : CardsDue(u) => \E v \in tasks' : CardsDue(v)
    BY <2>2 DEF CardsDue
  <2>4. CardsFollow'
    BY <1>1, <2>2, <2>3, CardsKept DEF IInv
  <2> QED
    BY <2>2, <2>4 DEF IInv
<1>3. CASE ~t.more
  <2>1. Ended(t, TRUE) /\ loading' = FALSE
    BY <1>1, <1>3 DEF AfterList
  <2>2. Types'
    BY <1>1, <2>1, EndedLeaves DEF IInv
  <2>3. CardsFollow'
    BY <1>1, <2>1, EndedFollows DEF IInv
  <2>4. BusyHasTask'
    BY <1>1, <2>1, BusyEnded DEF IInv
  <2>5. ListFollows'
    BY <1>3, DeliverCurrent
  <2> QED
    BY <2>2, <2>3, <2>4, <2>5 DEF IInv
<1> QED
  BY <1>2, <1>3

LEMMA ShowSummaryKeeps ==
    ASSUME IInv, AccountsPageAssumption, NEW t, ShowSummary(t)
    PROVE  IInv'
<1>1. /\ t \in tasks /\ t.doing = "summary" /\ t.got # None /\ t.does = "summary"
      /\ stats' = t.got /\ tasks' = tasks \ {t}
      /\ clean' = (clean /\ \A u \in tasks : u.doing = "summary" => u.no >= t.no)
      /\ UNCHANGED <<server, connections, pagination, fetchParams, loading, busyId,
                     checkingCredits, bulkRefreshingTokens, requested, delivered, summed>>
  BY DEF ShowSummary, storeVars, flagVars, IInv, Types, WellFormed
<1>2. Types'
  BY <1>1 DEF IInv, Types
<1>3. ListFollows'
  BY <1>1, ListsKept DEF IInv, Due
<1>4. BusyHasTask'
  BY <1>1 DEF IInv, BusyHasTask, RowCommands
<1>5. CardsFollow'
  <2> SUFFICES ASSUME clean', summed'
               PROVE  (\E u \in tasks' : CardsDue(u) \/ CardsComing(u)') \/ CardsCurrent'
    BY DEF CardsFollow, CardsDue
  <2>1. clean /\ \A u \in tasks : u.doing = "summary" => u.no >= t.no
    BY <1>1
  <2>2. ASSUME NEW u \in tasks, CardsDue(u) PROVE u \in tasks'
    BY <1>1, <2>2 DEF CardsDue
  <2>3. ASSUME NEW u \in tasks, CardsComing(u), u # t PROVE u \in tasks' /\ CardsComing(u)'
    BY <1>1, <2>3, SameCards DEF CardsComing, Newest
  <2>4. ASSUME CardsComing(t) PROVE CardsCurrent'
    <3>1. stats' = Cards'
      BY <1>1, <2>4, SameCards DEF CardsComing
    <3>2. ASSUME NEW u \in tasks, u.doing = "summary", u # t PROVE FALSE
      <4>1. u.no \in Nat /\ t.no \in Nat
        BY <1>1 DEF IInv, Types, WellFormed
      <4>2. u.no < t.no
        BY <1>1, <2>4, <3>2 DEF CardsComing, Newest
      <4> QED
        BY <2>1, <3>2, <4>1, <4>2
    <3> QED
      BY <1>1, <3>1, <3>2 DEF CardsCurrent
  <2>5. ~CardsCurrent
    BY <1>1 DEF CardsCurrent
  <2> QED
    BY <1>1, <2>1, <2>2, <2>3, <2>4, <2>5 DEF IInv, CardsFollow
<1> QED
  BY <1>2, <1>3, <1>4, <1>5 DEF IInv

\* After a failure nothing is said of what is shown, but nothing stays disabled.
LEMMA FailKeeps ==
    ASSUME IInv, AccountsPageAssumption, NEW t, Fail(t)
    PROVE  IInv'
<1>1. /\ t \in tasks /\ WellFormed(t) /\ clean' = FALSE /\ UNCHANGED delivered
      /\ delivered' \in Nat /\ delivered' <= requested
  BY DEF Fail, IInv, Types
<1>2. ListFollows' /\ CardsFollow'
  BY <1>1 DEF ListFollows, CardsFollow
<1>3. ASSUME t.doing # "summary", Fetching(t, FALSE, fetchParams),
             UNCHANGED flagVars
      PROVE  Types' /\ BusyHasTask'
  BY <1>1, <1>3, FetchingKeeps DEF IInv
<1>4. ASSUME NEW fine \in BOOLEAN, Ended(t, fine),
             loading' => t.doing # "list" /\ loading
      PROVE  Types' /\ BusyHasTask'
  <2>1. Types' /\ \A u \in tasks : u = t \/ u \in tasks'
    BY <1>1, <1>4, EndedLeaves DEF IInv
  <2>2. loading' => \E v \in tasks' : v.doing = "list"
    BY <1>1, <1>4, <2>1 DEF IInv, BusyHasTask
  <2> QED
    BY <1>1, <1>4, <2>1, <2>2, BusyEnded DEF IInv
<1>5. CASE t.doing = "list"
  <2>1. \/ Fetching(t, FALSE, fetchParams) /\ UNCHANGED flagVars
        \/ Ended(t, TRUE) /\ loading' = FALSE
    BY <1>5 DEF Fail, AfterList
  <2>2. CASE Fetching(t, FALSE, fetchParams) /\ UNCHANGED flagVars
    BY <1>2, <1>3, <1>5, <2>2 DEF IInv
  <2>3. CASE Ended(t, TRUE) /\ loading' = FALSE
    <3>1. Types' /\ BusyHasTask'
      BY <1>4, <2>3
    <3> QED
      BY <1>2, <3>1 DEF IInv
  <2> QED
    BY <2>1, <2>2, <2>3
<1>6. CASE t.doing = "summary"
  <2>1. /\ tasks' = tasks \ {t} /\ t.does = "summary"
        /\ UNCHANGED <<loading, busyId, checkingCredits, bulkRefreshingTokens, requested>>
    BY <1>1, <1>6 DEF Fail, flagVars, WellFormed
  <2>2. Types'
    BY <1>1, <2>1 DEF IInv, Types
  <2>3. BusyHasTask'
    BY <1>6, <2>1 DEF IInv, BusyHasTask, RowCommands
  <2> QED
    BY <1>2, <2>2, <2>3 DEF IInv
<1>7. CASE t.doing = "call"
  <2>1. \/ Fetching(t, FALSE, fetchParams) /\ UNCHANGED flagVars
        \/ Ended(t, FALSE) /\ UNCHANGED loading
    BY <1>7 DEF Fail
  <2>2. CASE Fetching(t, FALSE, fetchParams) /\ UNCHANGED flagVars
    BY <1>2, <1>3, <1>7, <2>2 DEF IInv
  <2>3. CASE Ended(t, FALSE) /\ UNCHANGED loading
    <3>1. t.doing # "list" /\ (loading' => loading)
      BY <1>7, <2>3
    <3>2. Types' /\ BusyHasTask'
      BY <1>4, <2>3, <3>1
    <3> QED
      BY <1>2, <3>2 DEF IInv
  <2> QED
    BY <2>1, <2>2, <2>3
<1> QED
  BY <1>1, <1>5, <1>6, <1>7 DEF WellFormed

LEMMA NextInv ==
    ASSUME IInv, AccountsPageAssumption, [Next]_accountsVars
    PROVE  IInv'
<1>1. CASE UNCHANGED accountsVars
  <2>1. UNCHANGED <<server, clean, delivered, stats, summed, connections, pagination,
                    fetchParams, loading, busyId, checkingCredits, bulkRefreshingTokens,
                    tasks, requested>>
    BY <1>1 DEF accountsVars, storeVars, flagVars
  <2>2. Types' /\ BusyHasTask'
    BY <2>1 DEF IInv, Types, BusyHasTask
  <2>3. ListFollows' /\ CardsFollow'
    BY <2>1, ListsKept, CardsKept DEF IInv
  <2> QED
    BY <2>2, <2>3 DEF IInv
<1>2. CASE Next
  BY <1>2, UserKeeps, ServeKeeps, AnswerKeeps, DeliverKeeps, ShowSummaryKeeps, FailKeeps
  DEF Next
<1> QED
  BY <1>1, <1>2

LEMMA Inductive == ASSUME AccountsPageAssumption PROVE Spec => []IInv
<1>1. Init => IInv
  BY InitInv
<1>2. IInv /\ [Next]_accountsVars => IInv'
  BY NextInv
<1> QED
  BY <1>1, <1>2, PTL DEF Spec

\* When no handler is under way and no request has failed or been overtaken, the
\* table and the cards of stores/connections.ts show what the server has.
THEOREM TableShowsServer ==
    ASSUME AccountsPageAssumption PROVE Spec => []TableIsCurrent
<1>1. IInv => TableIsCurrent
  <2> SUFFICES ASSUME IInv, tasks = {}, clean
               PROVE  /\ connections = Shown.rows /\ pagination = Shown.pagination
                      /\ summed => stats = Cards
    BY DEF TableIsCurrent, Settled, Shown, Cards
  <2> QED
    BY DEF IInv, ListFollows, CardsFollow, Current, CardsCurrent
<1> QED
  BY <1>1, Inductive, PTL

\* Every button and spinner of app/(dashboard)/accounts that is held back is held
\* by a handler under way, so no failure leaves one disabled for good.
THEOREM TableIsReleased ==
    ASSUME AccountsPageAssumption PROVE Spec => []BusyHasTask
<1>1. IInv => BusyHasTask
  BY DEF IInv
<1> QED
  BY <1>1, Inductive, PTL
=============================================================================
