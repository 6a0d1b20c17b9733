------------------------------ MODULE UsagePages ------------------------------
(***************************************************************************)
(* The logs page and the first page of the dashboard: what they fetch from *)
(* the server through stores/usage.ts and stores/dashboard.ts, on timers   *)
(* and at the user's command, and what they show of it.  The stores        *)
(* outlive the pages; the choices made on a page and its timers do not.    *)
(*                                                                         *)
(* Each slot of the stores shows the answer delivered last.  "records" is  *)
(* asked for with a limit, "chart" with a range; "stats" stands for the    *)
(* slots without a parameter (the statistics, the week's chart and the     *)
(* list of accounts).  An account filter and a model filter are kept by    *)
(* the logs page, but nothing sets them.                                   *)
(***************************************************************************)
EXTENDS Naturals, FiniteSets

CONSTANTS Limits,        \* LIMIT_OPTIONS
          Ranges,        \* RANGES
          StartLimit, StartRange,
          MaxRequests,   \* bound on the requests of the pages
          MaxClears      \* bound on the clearings done by the server

Pages == {"logs", "dashboard"}
Slots == {"records", "chart", "stats"}

\* What the values of the constants have to be.
UsagePagesAssumption ==
    /\ StartLimit \in Limits /\ StartRange \in Ranges
    /\ MaxRequests \in Nat /\ MaxClears \in Nat

VARIABLES clears,        \* how often the server has cleared its records
          at,            \* the page on screen
          limit, activeRange, autoRefresh,   \* choices on the page
          clearing,      \* "no", or how far Clear All is: "asked", "done"; one
                         \* at a time, the page's own bound while it is open
          clearLimit,    \* the limit when Clear All was given
          shown,         \* slot -> the question answered, after how many clearings
          waiting,       \* slot -> the loading flag of the slot
          lists,         \* requests for slots under way
          asked,         \* number of requests made
          last,          \* slot -> the number of the latest answer delivered
          straight       \* slots whose answers have come, in order and to the
                         \* questions the page asks

usagePageVars == <<clears, at, limit, activeRange, autoRefresh, clearing, clearLimit, shown,
                   waiting, lists, asked, last, straight>>

choices == <<limit, activeRange, autoRefresh>>

-----------------------------------------------------------------------------

\* What a page with limit l and range r asks of each slot.
Question(l, r) == [records |-> l, chart |-> r, stats |-> "all"]

\* Requests for the slots of set ss, with the questions qs.
Ask(ss, qs) ==
    /\ asked + Cardinality(ss) <= MaxRequests
    /\ asked' = asked + Cardinality(ss)
    /\ lists' = lists \cup {[slot |-> s, q |-> qs[s], no |-> asked', got |-> FALSE, seen |-> 0]
                               : s \in ss}
    /\ waiting' = [s \in Slots |-> waiting[s] \/ s \in ss]

server == <<clears, clearing, clearLimit>>
answers == <<shown, last, straight>>

\* What mounting a page fetches; the logs page's second request for the same
\* list, from the effect on the filters, is not told apart from the first.
Mounted(p) == IF p = "logs" THEN {"records"} ELSE {"chart", "stats"}

Init ==
    /\ clears = 0 /\ at \in Pages
    /\ limit = StartLimit /\ activeRange = StartRange /\ autoRefresh = TRUE
    /\ clearing = "no" /\ clearLimit = StartLimit
    /\ shown = [s \in Slots |-> [q |-> "nothing", seen |-> 0]]
    /\ waiting = [s \in Slots |-> s \in Mounted(at)]
    /\ asked = Cardinality(Mounted(at))
    /\ lists = {[slot |-> s, q |-> Question(limit, activeRange)[s], no |-> asked,
                 got |-> FALSE, seen |-> 0] : s \in Mounted(at)}
    /\ last = [s \in Slots |-> 0] /\ straight = Slots

-----------------------------------------------------------------------------

\* The other page is opened: its choices start anew and what it shows is asked.
Visit(p) ==
    /\ p # at /\ at' = p
    /\ limit' = StartLimit /\ activeRange' = StartRange /\ autoRefresh' = TRUE
    /\ Ask(Mounted(p), Question(StartLimit, StartRange))
    /\ UNCHANGED <<server, answers>>

\* A limit button: the effect on the filters fetches the list.
SetLimit(l) ==
    /\ at = "logs" /\ l # limit /\ limit' = l
    /\ Ask({"records"}, Question(l, activeRange))
    /\ UNCHANGED <<server, at, activeRange, autoRefresh, answers>>

\* Refresh, disabled while the list loads, and Retry.
HandleRefresh ==
    /\ at = "logs" /\ ~waiting["records"]
    /\ Ask({"records"}, Question(limit, activeRange))
    /\ UNCHANGED <<server, at, choices, answers>>

ToggleAutoRefresh ==
    /\ at = "logs" /\ autoRefresh' = ~autoRefresh
    /\ UNCHANGED <<server, at, limit, activeRange, lists, asked, waiting, answers>>

\* The timer of 10 s of the logs page, the one of 30 s of the dashboard.
Tick ==
    /\ at = "logs" => autoRefresh
    /\ Ask(Mounted(at), Question(limit, activeRange))
    /\ UNCHANGED <<server, at, choices, answers>>

\* handleRangeChange: the chart is fetched, and the effect on a range that has
\* changed runs refresh, which fetches everything, the chart a second time; its
\* second request, for the same range, is not told apart from the first.
HandleRangeChange(r) ==
    /\ at = "dashboard" /\ activeRange' = r
    /\ Ask(IF r = activeRange THEN {"chart"} ELSE Mounted("dashboard"),
           Question(limit, r))
    /\ UNCHANGED <<server, at, limit, autoRefresh, answers>>

\* Clear All: the records are deleted, then fetched with the limit of the time
\* the button was pressed.
HandleClearAll ==
    /\ at = "logs" /\ clearing = "no" /\ clearing' = "asked" /\ clearLimit' = limit
    /\ UNCHANGED <<clears, at, choices, lists, asked, waiting, answers>>

Cleared ==
    /\ clearing = "asked" /\ clears < MaxClears
    /\ clears' = clears + 1 /\ clearing' = "done"
    /\ UNCHANGED <<at, choices, clearLimit, lists, asked, waiting, answers>>

\* Mutant of AfterClear: the list is not fetched again.
AfterClear_NoList ==
    /\ clearing = "done" /\ clearing' = "no"
    /\ UNCHANGED <<clears, clearLimit, at, choices, lists, asked, waiting, answers>>

\* The list that follows is not one the page asks for if the limit has changed.
AfterClear ==
    /\ clearing = "done" /\ clearing' = "no"
    /\ Ask({"records"}, Question(clearLimit, activeRange))
    /\ straight' = IF clearLimit = limit THEN straight ELSE straight \ {"records"}
    /\ UNCHANGED <<clears, clearLimit, at, choices, shown, last>>

\* The list is not fetched after an error, though the records may be gone.
ClearFailed ==
    /\ clearing \in {"asked", "done"} /\ clearing' = "no"
    /\ straight' = straight \ {"records"}
    /\ UNCHANGED <<clears, clearLimit, at, choices, lists, asked, waiting, shown, last>>

Serve(t) ==
    /\ t \in lists /\ ~t.got
    /\ lists' = (lists \ {t}) \cup {[t EXCEPT !.got = TRUE, !.seen = clears]}
    /\ UNCHANGED <<server, at, choices, asked, waiting, answers>>

\* An answer replaces what the slot shows, whatever was asked since.
Deliver(t) ==
    /\ t \in lists /\ t.got /\ lists' = lists \ {t}
    /\ shown' = [shown EXCEPT ![t.slot] = [q |-> t.q, seen |-> t.seen]]
    /\ waiting' = [waiting EXCEPT ![t.slot] = FALSE]
    /\ last' = [last EXCEPT ![t.slot] = IF t.no > @ THEN t.no ELSE @]
    /\ straight' = IF t.no > last[t.slot] THEN straight ELSE straight \ {t.slot}
    /\ UNCHANGED <<server, at, choices, asked>>

\* A request fails or times out: the slot keeps what it showed.
Fail(t) ==
    /\ t \in lists /\ lists' = lists \ {t}
    /\ waiting' = [waiting EXCEPT ![t.slot] = FALSE]
    /\ straight' = straight \ {t.slot}
    /\ UNCHANGED <<server, at, choices, asked, shown, last>>

Next ==
    \/ \E p \in Pages : Visit(p)
    \/ \E l \in Limits : SetLimit(l)
    \/ \E r \in Ranges : HandleRangeChange(r)
    \/ HandleRefresh \/ ToggleAutoRefresh \/ Tick
    \/ HandleClearAll \/ Cleared \/ AfterClear \/ ClearFailed
    \/ \E t \in lists : Serve(t) \/ Deliver(t) \/ Fail(t)

Spec == Init /\ [][Next]_usagePageVars

-----------------------------------------------------------------------------

\* A request has these fields; they are numbered as they are made.
Types ==
    /\ at \in Pages /\ asked \in Nat /\ last \in [Slots -> Nat]
    /\ \A s \in Slots : last[s] <= asked
    /\ shown = [s \in Slots |-> [q |-> shown[s].q, seen |-> shown[s].seen]]
    /\ \A t \in lists :
          /\ t = [slot |-> t.slot, q |-> t.q, no |-> t.no, got |-> t.got, seen |-> t.seen]
          /\ t.slot \in Slots /\ t.no \in Nat /\ t.no <= asked /\ t.got \in BOOLEAN

\* What the page asks of slot s now, and how many clearings the answer is to have seen.
Asks(s) == Question(limit, activeRange)[s]
Fresh(s, seen) == s = "records" /\ clearing = "no" => seen = clears

\* The newest request for a slot is under way, or its answer is shown.
Coming(t) == /\ t.no > last[t.slot] /\ t.q = Asks(t.slot)
             /\ \A u \in lists : u.slot = t.slot /\ u # t => u.no < t.no
             /\ t.got => Fresh(t.slot, t.seen)
Current(s) == /\ \A t \in lists : t.slot = s => t.no <= last[s]
              /\ shown[s].q = Asks(s) /\ Fresh(s, shown[s].seen)
Answers(s) == (\E t \in lists : t.slot = s /\ Coming(t)) \/ Current(s)

\* Why ShownIsSelected holds.
Inv == Types /\ \A s \in Mounted(at) \cap straight : Answers(s)

\* What the pages draw from the stores: the table of the logs page, the chart with
\* its range, and the cards and tables of the statistics.
LogsTable == shown["records"]
UsageChart == shown["chart"]
StatCards == shown["stats"]

\* A slot of the page on screen that nothing is under way for, and whose
\* answers all came and came in order, shows the limit or range that the page
\* shows as selected, and no record that Clear All has deleted; Clear All, which
\* asks with the limit of an earlier time, counts as out of order when the limit
\* has changed since.
ShownIsSelected ==
    LET Quiet(s) == s \in straight /\ \A t \in lists : t.slot # s
    IN /\ at = "logs" /\ Quiet("records") /\ clearing = "no"
             => LogsTable = [q |-> limit, seen |-> clears]
       /\ at = "dashboard" /\ Quiet("chart") => UsageChart.q = activeRange
       /\ at = "dashboard" /\ Quiet("stats") => StatCards.q = "all"

===============================================================================
