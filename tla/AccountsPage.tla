----------------------------- MODULE AccountsPage -----------------------------
(***************************************************************************)
(* The accounts page of the dashboard: the list that stores/connections.ts *)
(* keeps, the handlers of app/(dashboard)/accounts and the part of the     *)
(* server that answers them.  A handler is a task: it makes a call that    *)
(* changes accounts, waits for the answer, and fetches the list again,     *)
(* while other handlers do the same.  Requests reach the server, and       *)
(* answers the page, in any order; a request may fail before or after the  *)
(* server has done it.                                                     *)
(*                                                                         *)
(* One filter stands for the selects and the search box: "all", "kiro",    *)
(* which selects every account and offers the commands on a provider, and  *)
(* "active".  The summary cards have a request of their own, which only    *)
(* some of the commands repeat.                                            *)
(***************************************************************************)
EXTENDS Naturals, Sequences, SequencesExt

CONSTANTS Accounts, None,
          Flaws,        \* what the server may find wrong with an account
          Commands,     \* commands given in this instance
          Limit,        \* rows per page
          MaxTasks      \* bound on handlers started

RowCommands == {"toggle", "check", "remove"}
ProviderCommands == {"enableByProvider", "disableByProvider", "removeByProvider",
                     "bulkRefreshTokens"}
\* Commands that ask for the summary of the accounts when they are done.
SummedCommands == ProviderCommands \cup {"checkAllCredits", "removeFlawed"}
OtherCommands == {"checkAllCredits", "removeFlawed", "importData", "refresh", "goToPage",
                  "filter", "search"}

\* What the values of the constants have to be.
AccountsPageAssumption ==
    /\ None \notin Accounts /\ "none" \notin Flaws
    /\ \A c, v \in BOOLEAN : None # [changed |-> c, valid |-> v]
    /\ Commands \subseteq RowCommands \cup ProviderCommands \cup OtherCommands
    /\ Limit \in Nat \ {0} /\ MaxTasks \in Nat

Filters == {"all", "kiro", "active"}

VARIABLES server,        \* the accounts of the configuration, in order
          connections, pagination, fetchParams, loading,   \* the store
          busyId, checkingCredits, bulkRefreshingTokens,   \* the page
          typed,         \* what the search timer waits to ask for, or None
          tasks,         \* handlers under way
          started,       \* number of handlers started
          requested,     \* number of lists requested
          clean,         \* no request has failed and no answer was overtaken
          delivered,     \* the last list delivered, by number
          stats,         \* the summary on the cards
          summed         \* all changes were of commands that ask for the summary

storeVars == <<connections, pagination, fetchParams, loading>>
flagVars == <<busyId, checkingCredits, bulkRefreshingTokens, typed>>
accountsVars == <<server, storeVars, flagVars, tasks, started, requested, clean, delivered,
                  stats, summed>>

-----------------------------------------------------------------------------
(* What the server answers.                                                *)

\* accountToConnection.
Status(a) == IF a.flaw # "none" THEN a.flaw ELSE IF a.enabled THEN "active" ELSE "disabled"
Row(a) == [id |-> a.id, status |-> Status(a), enabled |-> a.enabled]

\* filterConnections.
Filtered(accounts, q) == SelectSeq([i \in DOMAIN accounts |-> Row(accounts[i])],
                                   LAMBDA r : q.filter = "active" => r.status = "active")

Pages(rows) == IF rows = <<>> THEN 1 ELSE (Len(rows) + Limit - 1) \div Limit

\* mapPaginated: a page beyond the last one is empty.
Listed(accounts, q) ==
    LET rows == Filtered(accounts, q)
        last == IF q.page * Limit < Len(rows) THEN q.page * Limit ELSE Len(rows)
    IN [rows |-> SubSeq(rows, (q.page - 1) * Limit + 1, last),
        pagination |-> [page |-> q.page, total |-> Len(rows), totalPages |-> Pages(rows)]]

\* handleCybxAICreditSummary.
Summary(accounts) ==
    [total |-> Len(accounts),
     flawed |-> [f \in Flaws |-> Len(SelectSeq(accounts, LAMBDA a : a.flaw = f))]]

Changed(P(_), New(_)) == [i \in DOMAIN server |-> IF P(server[i]) THEN New(server[i])
                                                  ELSE server[i]]
Without(P(_)) == SelectSeq(server, LAMBDA a : ~P(a))
Enabled(a) == [a EXCEPT !.enabled = TRUE, !.flaw = IF @ = "suspended" THEN "none" ELSE @]
Disabled(a) == [a EXCEPT !.enabled = FALSE]

\* The accounts after the call of a task, for one of the outcomes it may have.
Outcomes(t) ==
    LET Mine(a) == a.id = t.id
        Flawed(a) == a.flaw = t.flaw
        All(a) == TRUE
    IN CASE t.does = "toggle" -> {Changed(Mine, LAMBDA a : IF t.on THEN Disabled(a) ELSE Enabled(a))}
         [] t.does = "check" ->
               {[i \in DOMAIN server |-> IF Mine(server[i]) THEN [server[i] EXCEPT !.flaw = f]
                                         ELSE server[i]] : f \in Flaws \cup {"none"}}
         [] t.does \in {"checkAllCredits", "bulkRefreshTokens"} ->
               {server} \cup {[server EXCEPT ![i].flaw = f] : i \in DOMAIN server, f \in Flaws}
         [] t.does = "remove" -> {Without(Mine)}
         [] t.does = "removeFlawed" -> {Without(Flawed)}
         [] t.does = "removeByProvider" -> {<<>>}
         [] t.does = "enableByProvider" -> {Changed(All, Enabled)}
         [] t.does = "disableByProvider" -> {Changed(All, Disabled)}
         [] t.does = "importData" ->
               {Append(server, [id |-> i, enabled |-> TRUE, flaw |-> "none"]) :
                   i \in Accounts \ {server[j].id : j \in DOMAIN server}}

-----------------------------------------------------------------------------
(* Steps that the actions share.                                           *)

\* fetch: a list is requested for q, before another one if more is set.
Fetching(t, more, q) ==
    /\ tasks' = (tasks \ {t}) \cup
                {[t EXCEPT !.doing = "list", !.q = q, !.no = requested + 1, !.got = None,
                           !.more = more]}
    /\ requested' = requested + 1
    /\ fetchParams' = q /\ loading' = TRUE

\* refreshStats: the request for the summary, which no handler waits for.
Summing(no) == [n |-> 0, does |-> "summary", id |-> None, on |-> FALSE, flaw |-> "none",
                doing |-> "summary", q |-> fetchParams, no |-> no, got |-> None,
                more |-> FALSE]

\* What is left when a handler returns.  Checking credits asks for the summary on
\* every path, the other commands when they have changed something.
Left(t, fine) ==
    IF t.does = "checkAllCredits" \/ (fine /\ t.does \in SummedCommands)
    THEN /\ tasks' = (tasks \ {t}) \cup {Summing(requested + 1)}
         /\ requested' = requested + 1
    ELSE tasks' = tasks \ {t} /\ UNCHANGED requested

\* Mutant of Ended: a failed or finished row command leaves its row disabled.
Ended_Busy(t, fine) ==
    /\ Left(t, fine)
    /\ checkingCredits' = (checkingCredits /\ t.does # "checkAllCredits")
    /\ bulkRefreshingTokens' = (bulkRefreshingTokens /\ t.does # "bulkRefreshTokens")
    /\ UNCHANGED <<busyId, typed>>

\* The handler returns.  busyId is the id of the last row command only.
Ended(t, fine) ==
    /\ Left(t, fine)
    /\ busyId' = IF t.does \in RowCommands THEN None ELSE busyId
    /\ checkingCredits' = (checkingCredits /\ t.does # "checkAllCredits")
    /\ bulkRefreshingTokens' = (bulkRefreshingTokens /\ t.does # "bulkRefreshTokens")
    /\ UNCHANGED typed

Task(does, id, on, flaw) ==
    [n |-> started + 1, does |-> does, id |-> id, on |-> on, flaw |-> flaw,
     doing |-> "call", q |-> fetchParams, no |-> 0, got |-> None, more |-> FALSE]

Begun(c) == c \in Commands /\ started < MaxTasks /\ started' = started + 1

Calling(does, id, on, flaw) == tasks' = tasks \cup {Task(does, id, on, flaw)}

Asking(q) ==
    /\ tasks' = tasks \cup {[Task("fetch", None, FALSE, "none") EXCEPT
                                !.doing = "list", !.q = q, !.no = requested + 1]}
    /\ requested' = requested + 1
    /\ fetchParams' = q /\ loading' = TRUE

server0 == <<server, clean, delivered, stats, summed>>
lists == <<connections, pagination>>

\* The page is mounted and has its first summary, and waits for its first list.
\* One order of the accounts stands for all.
Init ==
    /\ \E f \in [DOMAIN SetToSeq(Accounts) -> Flaws \cup {"none"}] :
          server = [i \in DOMAIN f |->
                       [id |-> SetToSeq(Accounts)[i], enabled |-> TRUE, flaw |-> f[i]]]
    /\ connections = <<>>
    /\ pagination = [page |-> 1, total |-> 0, totalPages |-> 1]
    /\ fetchParams = [page |-> 1, filter |-> "all"]
    /\ loading = TRUE
    /\ busyId = None /\ checkingCredits = FALSE /\ bulkRefreshingTokens = FALSE
    /\ typed = None
    /\ tasks = {[n |-> 0, does |-> "fetch", id |-> None, on |-> FALSE, flaw |-> "none",
                 doing |-> "list", q |-> fetchParams, no |-> 1, got |-> None, more |-> FALSE]}
    /\ started = 0 /\ requested = 1 /\ clean = TRUE /\ delivered = 0
    /\ stats = Summary(server) /\ summed = TRUE

-----------------------------------------------------------------------------
(* What the user does.                                                     *)

\* A row is active or not: the switch of a row that is flawed enables it.
isActive(r) == r.status = "active" /\ r.enabled

\* The switch and the buttons of a row, disabled while it is the busy one.  The
\* dialog that confirms a removal stays open, and its button is never disabled.
RowCommand(c, r) ==
    /\ Begun(c) /\ (busyId # r.id \/ c = "remove")
    /\ busyId' = r.id
    /\ Calling(c, r.id, isActive(r), "none")
    /\ UNCHANGED <<server0, storeVars, checkingCredits, bulkRefreshingTokens, typed, requested>>

CheckAllCredits ==
    /\ Begun("checkAllCredits") /\ ~checkingCredits /\ checkingCredits' = TRUE
    /\ Calling("checkAllCredits", None, FALSE, "none")
    /\ UNCHANGED <<server0, storeVars, busyId, bulkRefreshingTokens, typed, requested>>

BulkRefreshTokens ==
    /\ Begun("bulkRefreshTokens") /\ fetchParams.filter = "kiro"
    /\ ~bulkRefreshingTokens /\ bulkRefreshingTokens' = TRUE
    /\ Calling("bulkRefreshTokens", None, FALSE, "none")
    /\ UNCHANGED <<server0, storeVars, busyId, checkingCredits, typed, requested>>

\* Enable All and Disable All need a provider.
ProviderCommand(c) ==
    /\ Begun(c) /\ fetchParams.filter = "kiro"
    /\ Calling(c, None, FALSE, "none")
    /\ UNCHANGED <<server0, storeVars, flagVars, requested>>

\* So does Delete Provider.
DeleteProvider ==
    /\ Begun("removeByProvider") /\ fetchParams.filter = "kiro"
    /\ Calling("removeByProvider", None, FALSE, "none")
    /\ UNCHANGED <<server0, storeVars, flagVars, requested>>

\* Remove Invalid, Remove Banned and Remove Exhausted.
RemoveFlawed(f) ==
    /\ Begun("removeFlawed") /\ Calling("removeFlawed", None, FALSE, f)
    /\ UNCHANGED <<server0, storeVars, flagVars, requested>>

ImportData ==
    /\ Begun("importData") /\ Calling("importData", None, FALSE, "none")
    /\ UNCHANGED <<server0, storeVars, flagVars, requested>>

Refresh ==
    /\ Begun("refresh") /\ ~loading /\ Asking(fetchParams)
    /\ UNCHANGED <<server0, lists, flagVars>>

GoToPage(p) ==
    /\ Begun("goToPage") /\ p \in 1..pagination.totalPages /\ p # pagination.page
    /\ Asking([fetchParams EXCEPT !.page = p])
    /\ UNCHANGED <<server0, lists, flagVars>>

SelectFilter(f) ==
    /\ Begun("filter") /\ f # fetchParams.filter
    /\ Asking([page |-> 1, filter |-> f])
    /\ UNCHANGED <<server0, lists, flagVars>>

\* The search box starts its timer again.
Type(f) ==
    /\ Begun("search") /\ typed' = f
    /\ UNCHANGED <<server0, storeVars, busyId, checkingCredits, bulkRefreshingTokens,
                   tasks, requested>>

SearchTimer ==
    /\ typed # None /\ typed' = None
    /\ Asking([page |-> 1, filter |-> typed])
    /\ UNCHANGED <<server0, lists, busyId, checkingCredits, bulkRefreshingTokens, started>>

-----------------------------------------------------------------------------
(* What the server and the network do.                                     *)

\* Row commands fail when the account is gone.
Serve(t) ==
    /\ t \in tasks /\ t.got = None
    /\ IF t.doing # "call"
       THEN /\ tasks' = (tasks \ {t}) \cup
                        {[t EXCEPT !.got = IF t.doing = "list" THEN Listed(server, t.q)
                                           ELSE Summary(server)]}
            /\ UNCHANGED server
       ELSE /\ t.id # None => \E i \in DOMAIN server : server[i].id = t.id
            /\ server' \in Outcomes(t)
            /\ tasks' = (tasks \ {t}) \cup {[t EXCEPT !.got =
                   [changed |-> server' # server,
                    valid |-> \A i \in DOMAIN server' :
                                  server'[i].id = t.id => server'[i].flaw = "none"]]}
    /\ summed' = (summed /\ (server' # server => t.does \in SummedCommands))
    /\ UNCHANGED <<storeVars, flagVars, started, requested, clean, delivered, stats>>

\* remove goes back a page when it emptied the one on screen.
AfterRemove == IF Len(connections) <= 1 /\ pagination.page > 1
               THEN [fetchParams EXCEPT !.page = pagination.page - 1]
               ELSE fetchParams

\* Mutant of Refetches: a bulk command fetches the list for single rows only.
Refetches_Never(t) == t.does \in RowCommands

\* The list is fetched again unless a bulk command has found nothing to do.
Refetches(t) == t.got.changed \/ t.does \in RowCommands \cup
                                   {"checkAllCredits", "bulkRefreshTokens", "importData"}

\* The answer to the call of a task.  A switch is shown as set before the list
\* comes; a valid token is followed by two lists.
Answer(t) ==
    /\ t \in tasks /\ t.doing = "call" /\ t.got # None
    /\ connections' = IF t.does = "toggle"
                      THEN [i \in DOMAIN connections |->
                               IF connections[i].id = t.id
                               THEN [connections[i] EXCEPT
                                        !.status = IF t.on THEN "disabled" ELSE "active"]
                               ELSE connections[i]]
                      ELSE connections
    /\ IF Refetches(t)
       THEN /\ Fetching(t, t.does = "check" /\ t.got.valid,
                        CASE t.does = "remove" -> AfterRemove
                          [] t.does = "removeByProvider" -> [page |-> 1, filter |-> "all"]
                          [] OTHER -> fetchParams)
            /\ UNCHANGED flagVars
       ELSE Ended(t, FALSE) /\ UNCHANGED <<fetchParams, loading>>
    /\ UNCHANGED <<server0, pagination, started>>

\* What follows a list: the second one of a valid token, or the end.
AfterList(t) ==
    IF t.more THEN Fetching(t, FALSE, fetchParams) /\ UNCHANGED flagVars
    ELSE Ended(t, TRUE) /\ loading' = FALSE /\ UNCHANGED fetchParams

\* The answer with a list is shown, an older one too.
Deliver(t) ==
    /\ t \in tasks /\ t.doing = "list" /\ t.got # None
    /\ connections' = t.got.rows /\ pagination' = t.got.pagination
    /\ clean' = (clean /\ t.no > delivered)
    /\ delivered' = IF t.no > delivered THEN t.no ELSE delivered
    /\ AfterList(t)
    /\ UNCHANGED <<server, started, stats, summed>>

\* The summary is shown, an older one too.
ShowSummary(t) ==
    /\ t \in tasks /\ t.doing = "summary" /\ t.got # None
    /\ stats' = t.got /\ tasks' = tasks \ {t}
    /\ clean' = (clean /\ \A u \in tasks : u.doing = "summary" => u.no >= t.no)
    /\ UNCHANGED <<server, storeVars, flagVars, started, requested, delivered, summed>>

\* A request fails, whether the server has done it or not.  The switch and the
\* check of a row fetch the list all the same.
Fail(t) ==
    /\ t \in tasks
    /\ clean' = FALSE
    /\ IF t.doing = "list" THEN AfterList(t)
       ELSE IF t.doing = "summary"
       THEN tasks' = tasks \ {t} /\ UNCHANGED <<fetchParams, loading, flagVars, requested>>
       ELSE IF t.does \in {"toggle", "check"}
       THEN Fetching(t, FALSE, fetchParams) /\ UNCHANGED flagVars
       ELSE Ended(t, FALSE) /\ UNCHANGED <<fetchParams, loading>>
    /\ UNCHANGED <<server, lists, started, delivered, stats, summed>>

-----------------------------------------------------------------------------

UserStep ==
    \/ \E c \in RowCommands, i \in DOMAIN connections : RowCommand(c, connections[i])
    \/ \E c \in {"enableByProvider", "disableByProvider"} : ProviderCommand(c)
    \/ DeleteProvider
    \/ \E f \in Flaws : RemoveFlawed(f)
    \/ \E f \in Filters : SelectFilter(f) \/ Type(f)
    \/ \E p \in 1..pagination.totalPages : GoToPage(p)
    \/ CheckAllCredits \/ BulkRefreshTokens \/ ImportData \/ Refresh

Next == \/ UserStep \/ SearchTimer
        \/ \E t \in tasks : Serve(t) \/ Answer(t) \/ Deliver(t) \/ ShowSummary(t) \/ Fail(t)

Spec == Init /\ [][Next]_accountsVars

-----------------------------------------------------------------------------
(* Properties.                                                             *)

Settled == tasks = {} /\ typed = None

\* When nothing is under way, nothing has failed and no list has overtaken
\* another, the table shows the accounts the server has, on the page and with
\* the filter that the page shows as selected; and the cards count them, unless a
\* command that leaves the cards alone has changed something.
TableIsCurrent ==
    Settled /\ clean => /\ connections = Listed(server, fetchParams).rows
                        /\ pagination = Listed(server, fetchParams).pagination
                        /\ summed => stats = Summary(server)

\* Whatever is disabled or turning on the page is so because of a handler that
\* is under way and ends it, on every path, failures included.
BusyHasTask ==
    /\ busyId # None => \E t \in tasks : t.does \in RowCommands
    /\ checkingCredits => \E t \in tasks : t.does = "checkAllCredits"
    /\ bulkRefreshingTokens => \E t \in tasks : t.does = "bulkRefreshTokens"
    /\ loading => \E t \in tasks : t.doing = "list"

\* "Go back a page if current page is now empty" (stores/connections.ts, remove).
EmptyPageLeft ==
    Settled /\ clean /\ Commands \subseteq {"remove", "goToPage"} /\ server # <<>>
        => connections # <<>>

===============================================================================
