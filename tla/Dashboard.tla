------------------------------- MODULE Dashboard ------------------------------
(***************************************************************************)
(* The dashboard: one page is open at a time, with its store and the part  *)
(* of the server it talks to.  The pages share no state, and the module    *)
(* puts all of them in one specification: the first state picks a page,    *)
(* whose module is the only one that acts.  v1 to v21 hold the variables   *)
(* of the page, in the order of its module; those it does not need stay    *)
(* empty.  The pages that set the gateway up are in SetupPages.            *)
(***************************************************************************)
EXTENDS SetupPages

CONSTANTS \* ChatPage
          Sessions, MaxExchanges, MaxChunks, MaxFiles, MaxFailures,
          \* MessageView
          Backtick, Newline, Other, Deltas, MaxDeltas,
          \* AccountsPage and UsageRecords
          Accounts, Flaws, Commands, Limit, MaxTableTasks, Requests, MaxRecords,
          \* UsagePages
          Limits, Ranges, StartLimit, StartRange, MaxClears,
          \* Playground
          Sections, MaxRuns, MaxPieces, MaxEdits

VARIABLES page, v18, v19, v20, v21

Chat == INSTANCE ChatPage WITH
    stored <- v1, recent <- v2, used <- v3, activeSessionId <- v4, activeMessages <- v5,
    isGenerating <- v6, streaming <- v7, gate <- v8, hasKey <- v9, mount <- v10,
    abortRef <- v11, fullContentRef <- v12, streams <- v13, titling <- v14, asked <- v15,
    sent <- v16, attached <- v17, sessions <- v18, untitled <- v19, unsaved <- v20,
    failed <- v21

Message == INSTANCE MessageView WITH
    raw <- v1, deltas <- v2, timer <- v3, busy <- v4, pending <- v5, shown <- v6,
    tried <- v7, blocks <- v8

Table == INSTANCE AccountsPage WITH
    MaxTasks <- MaxTableTasks, server <- v1, connections <- v2, pagination <- v3,
    fetchParams <- v4, loading <- v5, busyId <- v6, checkingCredits <- v7,
    bulkRefreshingTokens <- v8, typed <- v9, tasks <- v10, started <- v11,
    requested <- v12, clean <- v13, delivered <- v14, stats <- v15, summed <- v16

Records == INSTANCE UsageRecords WITH
    at <- v1, first <- v2, usedAccount <- v3, usageCtxByAccount <- v4, Pending <- v5,
    usageBuffer <- v6, log <- v7, shared <- v8

Usage == INSTANCE UsagePages WITH
    clears <- v1, at <- v2, limit <- v3, activeRange <- v4, autoRefresh <- v5,
    clearing <- v6, clearLimit <- v7, shown <- v8, waiting <- v9, lists <- v10,
    asked <- v11, last <- v12, straight <- v13

Play == INSTANCE Playground WITH
    responseType <- v1, loading <- v2, result <- v3, streamContent <- v4,
    expanded <- v5, params <- v6, edits <- v7, active <- v8, call <- v9, runs <- v10,
    received <- v11, skipped <- v12

ASSUME DashboardAssumption ==
    /\ Chat!ChatAssumption
    /\ Message!MessageAssumption
    /\ Table!AccountsPageAssumption
    /\ Records!UsageRecordsAssumption
    /\ Usage!UsagePagesAssumption
    /\ Play!PlaygroundAssumption

----------------------------------------------------------------------------
Rest17 == <<v18, v19, v20, v21>>
Rest16 == <<v17, Rest17>>
Rest13 == <<v14, v15, v16, Rest16>>
Rest12 == <<v13, Rest13>>
Rest11 == <<v12, Rest12>>
Rest10 == <<v11, Rest11>>
Rest8 == <<v9, v10, Rest10>>
Empty17 == v18 = None /\ v19 = None /\ v20 = None /\ v21 = None
Empty16 == v17 = None /\ Empty17
Empty13 == v14 = None /\ v15 = None /\ v16 = None /\ Empty16
Empty12 == v13 = None /\ Empty13
Empty11 == v12 = None /\ Empty12
Empty10 == v11 = None /\ Empty11
Empty8 == v9 = None /\ v10 = None /\ Empty10

vars == <<page, v1, v2, v3, v4, v5, v6, v7, v8, v9, v10,
          v11, v12, v13, v14, v15, v16, v17, v18, v19, v20, v21>>

Init ==
    \/ page = "chat" /\ Chat!Init
    \/ page = "message" /\ Message!Init /\ Empty8
    \/ page = "accounts" /\ Table!Init /\ Empty16
    \/ page = "records" /\ Records!Init /\ Empty8
    \/ page = "usage" /\ Usage!Init /\ Empty13
    \/ page = "settings" /\ Settings!Init /\ Empty11
    \/ page = "integration" /\ Integration!Init /\ Empty12
    \/ page = "login" /\ Login!Init /\ Empty17
    \/ page = "proxy" /\ Proxy!Init /\ Empty13
    \/ page = "scraper" /\ Scraper!Init /\ Empty10
    \/ page = "playground" /\ Play!Init /\ Empty12

PageStep ==
    \/ page = "chat" /\ Chat!Next
    \/ page = "message" /\ Message!Next /\ UNCHANGED Rest8
    \/ page = "accounts" /\ Table!Next /\ UNCHANGED Rest16
    \/ page = "records" /\ Records!Next /\ UNCHANGED Rest8
    \/ page = "usage" /\ Usage!Next /\ UNCHANGED Rest13
    \/ page = "settings" /\ Settings!Next /\ UNCHANGED Rest11
    \/ page = "integration" /\ Integration!Next /\ UNCHANGED Rest12
    \/ page = "login" /\ Login!Next /\ UNCHANGED Rest17
    \/ page = "proxy" /\ Proxy!Next /\ UNCHANGED Rest13
    \/ page = "scraper" /\ Scraper!Next /\ UNCHANGED Rest10
    \/ page = "playground" /\ Play!Next /\ UNCHANGED Rest12

Next == PageStep /\ UNCHANGED page

Spec == Init /\ [][Next]_vars

----------------------------------------------------------------------------
\* The messages on screen are those in local storage, unless a write failed
\* (ChatPage).
ViewMatchesStorage == page = "chat" => Chat!ViewMatchesStorage

\* Progress is shown only while a reply is being written (ChatPage).
ProgressHasStream == page = "chat" => Chat!ProgressHasStream

\* A chat asks for its title once, unless its first title was not stored or was
\* no other than "New Chat" (ChatPage).
OneTitle == page = "chat" => Chat!OneTitle

\* What is shown of a block of code is the code, but for dollar signs not yet
\* highlighted, and in the end all of it is highlighted, an open block again and
\* again, a closed one once (MessageView).
HighlightSound == page = "message" => Message!HighlightSound

\* The table of accounts is the page of the server that was asked for
\* (AccountsPage).
TableIsCurrent == page = "accounts" => Table!TableIsCurrent

\* A flag that disables commands belongs to a command under way (AccountsPage).
BusyHasTask == page = "accounts" => Table!BusyHasTask

\* A request is recorded once, for the account that answered it (UsageRecords).
UsageAccounted == page = "records" => Records!UsageAccounted

\* The records and figures shown are of the limit and range selected (UsagePages).
ShownIsSelected == page = "usage" => Usage!ShownIsSelected

\* The settings shown are those of the server, once all went well, but for a
\* tunnel that has started or stopped by itself (SettingsPage).
SettingsAgree == page = "settings" => Settings!SettingsAgree

\* Tools are bound to models that are offered, one at a time (IntegrationPage).
IntegrationSound == page = "integration" => Integration!IntegrationSound

\* A login is shown as completed only when its account is there (LoginPage).
LoginSound == page = "login" => Login!LoginSound

\* A playground shows what its newest request received, but for what the reader
\* of a stream passes over (Playground).
AnswerIsShown == page = "playground" => Play!AnswerIsShown

\* The pool of proxies and the job of the scraper are sound (ProxyPage,
\* ScraperPage).
ProxiesSound == /\ page = "proxy" => Proxy!ProxiesSound
                /\ page = "scraper" => Scraper!ScraperSound

\* The text of a reply is saved once (ChatPage).
SavedOnce == [][page = "chat" => Chat!SavesOnce]_vars

\* More of a message never changes how its beginning is read (MessageView).
StreamStable == [][page = "message" => Message!GrowsStably]_vars
=============================================================================
