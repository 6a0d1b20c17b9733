--------------------------- MODULE Dashboard_proofs ---------------------------
(***************************************************************************)
(* What is proved of the pages one by one holds in the dashboard, where    *)
(* every page is one of several: the page that is open never changes, and  *)
(* every step of the dashboard is one of that page. The chat with its      *)
(* messages and the table of accounts have their proofs in ChatPage_proofs *)
(* and AccountsPage_proofs; the lemmas about the usage records and pages   *)
(* and the playgrounds are here, those about the other pages in            *)
(* SetupPages_proofs, and the theorems about all of them are here.         *)
(***************************************************************************)
EXTENDS Dashboard, SetupPages_proofs, FiniteSetTheorems, TLAPS

ChatP == INSTANCE ChatPage_proofs WITH
    stored <- v1, recent <- v2, used <- v3, activeSessionId <- v4, activeMessages <- v5,
    isGenerating <- v6, streaming <- v7, gate <- v8, hasKey <- v9, mount <- v10,
    abortRef <- v11, fullContentRef <- v12, streams <- v13, titling <- v14, asked <- v15,
    sent <- v16, attached <- v17, sessions <- v18, untitled <- v19, unsaved <- v20,
    failed <- v21,
    raw <- v1, deltas <- v2, timer <- v3, busy <- v4, pending <- v5, shown <- v6,
    tried <- v7, blocks <- v8

TableP == INSTANCE AccountsPage_proofs WITH
    MaxTasks <- MaxTableTasks, server <- v1, connections <- v2, pagination <- v3,
    fetchParams <- v4, loading <- v5, busyId <- v6, checkingCredits <- v7,
    bulkRefreshingTokens <- v8, typed <- v9, tasks <- v10, started <- v11,
    requested <- v12, clean <- v13, delivered <- v14, stats <- v15, summed <- v16

-----------------------------------------------------------------------------
(* A page of the dashboard is the page that the proofs are about.          *)

LEMMA SameChat ==
    /\ Chat!Init <=> ChatP!Init
    /\ Chat!Next <=> ChatP!Next
    /\ Chat!chatVars = ChatP!chatVars
<1>1. Chat!Init <=> ChatP!Init
  BY DEF Chat!Init, ChatP!Init, Chat!Mounts, ChatP!Mounts
<1>2. Chat!Next <=> ChatP!Next
  BY DEF Chat!Mounts, ChatP!Mounts, Chat!Titles, ChatP!Titles, Chat!Open, ChatP!Open,
         Chat!UserMessage, ChatP!UserMessage, Chat!Reply, ChatP!Reply, Chat!Saved,
         ChatP!Saved, Chat!First, ChatP!First, Chat!summarize, ChatP!summarize,
         Chat!Touched, ChatP!Touched, Chat!WithText, ChatP!WithText, Chat!Stores,
         ChatP!Stores, Chat!writeSessions, ChatP!writeSessions, Chat!kept, ChatP!kept,
         Chat!store, ChatP!store, Chat!live, ChatP!live, Chat!view, ChatP!view,
         Chat!SetActive, ChatP!SetActive, Chat!Free, ChatP!Free, Chat!Unmounted,
         ChatP!Unmounted, Chat!around, ChatP!around, Chat!rest, ChatP!rest, Chat!NewId,
         ChatP!NewId, Chat!Target, ChatP!Target, Chat!CanSend, ChatP!CanSend,
         Chat!Added, ChatP!Added, Chat!Cleared, ChatP!Cleared, Chat!WithReply,
         ChatP!WithReply, Chat!Shown, ChatP!Shown, Chat!Write, ChatP!Write,
         Chat!outside, ChatP!outside, Chat!saving, ChatP!saving, Chat!titles,
         ChatP!titles, Chat!Titled, ChatP!Titled, Chat!Visit, ChatP!Visit,
         Chat!Validated, ChatP!Validated, Chat!Rejected, ChatP!Rejected, Chat!Lock,
         ChatP!Lock, Chat!Leave, ChatP!Leave, Chat!Reload, ChatP!Reload, Chat!Select,
         ChatP!Select, Chat!DeleteSession, ChatP!DeleteSession, Chat!ClearSessions,
         ChatP!ClearSessions, Chat!AddFiles, ChatP!AddFiles, Chat!RemoveAttachment,
         ChatP!RemoveAttachment, Chat!Send, ChatP!Send, Chat!Answered, ChatP!Answered,
         Chat!ErrorText, ChatP!ErrorText, Chat!Chunk, ChatP!Chunk, Chat!Frame,
         ChatP!Frame, Chat!Complete, ChatP!Complete, Chat!ConnectionError,
         ChatP!ConnectionError, Chat!TitleAnswer, ChatP!TitleAnswer, Chat!Stop,
         ChatP!Stop, Chat!ReplyStep, ChatP!ReplyStep, Chat!Next, ChatP!Next
<1>3. Chat!chatVars = ChatP!chatVars
  BY DEF Chat!chatVars, ChatP!chatVars
<1> QED
  BY <1>1, <1>2, <1>3

LEMMA SameTable ==
    /\ Table!Init <=> TableP!Init
    /\ Table!Next <=> TableP!Next
    /\ Table!accountsVars = TableP!accountsVars
<1>1. Table!Init <=> TableP!Init
  <2>1. Table!Cardinality(Accounts) = TableP!Cardinality(Accounts)
    BY DEF Table!Cardinality, TableP!Cardinality
  <2>2. Table!SetToSeq(Accounts) = TableP!SetToSeq(Accounts)
    BY <2>1 DEF Table!SetToSeq, TableP!SetToSeq, Table!IsInjective,
                TableP!IsInjective
  <2> QED
    BY <2>2 DEF Table!Init, TableP!Init, Table!Summary, TableP!Summary
<1>2. Table!Next <=> TableP!Next
  BY DEF Table!storeVars, TableP!storeVars, Table!flagVars, TableP!flagVars,
         Table!accountsVars, TableP!accountsVars, Table!Status, TableP!Status,
         Table!Row, TableP!Row, Table!Filtered, TableP!Filtered, Table!Pages,
         TableP!Pages, Table!Listed, TableP!Listed, Table!Summary,
         TableP!Summary, Table!Changed, TableP!Changed, Table!Without,
         TableP!Without, Table!Enabled, TableP!Enabled, Table!Disabled,
         TableP!Disabled, Table!Outcomes, TableP!Outcomes, Table!Fetching,
         TableP!Fetching, Table!Summing, TableP!Summing, Table!Left,
         TableP!Left, Table!Ended, TableP!Ended, Table!Task, TableP!Task,
         Table!Begun, TableP!Begun, Table!Calling, TableP!Calling,
         Table!Asking, TableP!Asking, Table!server0, TableP!server0,
         Table!lists, TableP!lists, Table!isActive, TableP!isActive,
         Table!RowCommand, TableP!RowCommand, Table!CheckAllCredits,
         TableP!CheckAllCredits, Table!BulkRefreshTokens,
         TableP!BulkRefreshTokens, Table!ProviderCommand,
         TableP!ProviderCommand, Table!DeleteProvider, TableP!DeleteProvider,
         Table!RemoveFlawed, TableP!RemoveFlawed, Table!ImportData,
         TableP!ImportData, Table!Refresh, TableP!Refresh, Table!GoToPage,
         TableP!GoToPage, Table!SelectFilter, TableP!SelectFilter, Table!Type,
         TableP!Type, Table!SearchTimer, TableP!SearchTimer, Table!Serve,
         TableP!Serve, Table!AfterRemove, TableP!AfterRemove, Table!Refetches,
         TableP!Refetches, Table!Answer, TableP!Answer, Table!AfterList,
         TableP!AfterList, Table!Deliver, TableP!Deliver, Table!ShowSummary,
         TableP!ShowSummary, Table!Fail, TableP!Fail, Table!UserStep,
         TableP!UserStep, Table!Next, TableP!Next, Table!RowCommands,
         TableP!RowCommands, Table!ProviderCommands, TableP!ProviderCommands,
         Table!SummedCommands, TableP!SummedCommands, Table!OtherCommands,
         TableP!OtherCommands, Table!Filters, TableP!Filters
<1>3. Table!accountsVars = TableP!accountsVars
  BY DEF Table!accountsVars, TableP!accountsVars, Table!storeVars,
         TableP!storeVars, Table!flagVars, TableP!flagVars
<1> QED
  BY <1>1, <1>2, <1>3

LEMMA SameReading ==
    \A s : /\ Message!parseIntoParts(s) = ChatP!View!parseIntoParts(s)
          /\ Message!Block(s) = ChatP!View!Block(s)
          /\ Message!Closed(s) = ChatP!View!Closed(s)
<1>2. \A s, c : Message!Reading(s, c) = ChatP!View!Reading(s, c)
  BY DEF Message!Reading, ChatP!View!Reading, Message!ClosingFence, ChatP!View!ClosingFence,
         Message!Before, ChatP!View!Before, Message!From, ChatP!View!From, Message!Finds,
         ChatP!View!Finds, Message!Md, ChatP!View!Md, Message!Code, ChatP!View!Code,
         Message!Fence, ChatP!View!Fence, Message!LineEnd, ChatP!View!LineEnd,
         Message!Closing, ChatP!View!Closing, Message!IndexOf, ChatP!View!IndexOf,
         Message!Min, ChatP!View!Min
<1>3. \A s : Message!parseIntoParts(s) = ChatP!View!parseIntoParts(s)
  BY <1>2 DEF Message!parseIntoParts, ChatP!View!parseIntoParts
<1> QED
  BY <1>3 DEF Message!Block, ChatP!View!Block, Message!Closed, ChatP!View!Closed

LEMMA SameMessage ==
    /\ Message!Init <=> ChatP!View!Init
    /\ Message!Next <=> ChatP!View!Next
    /\ Message!viewVars = ChatP!View!viewVars
<1>1. Message!Init <=> ChatP!View!Init
  BY DEF Message!Init, ChatP!View!Init
<1>2. Message!Next <=> ChatP!View!Next
  <2>1. \A d : Message!Grow(d) <=> ChatP!View!Grow(d)
    <3>1. \A i, part, cached :
              Message!HighlightedCode(i, part, cached) = ChatP!View!HighlightedCode(i, part, cached)
      BY DEF Message!HighlightedCode, ChatP!View!HighlightedCode, Message!Key, ChatP!View!Key
    <3> QED
      BY SameReading, <3>1 DEF Message!Grow, ChatP!View!Grow
  <2>2. Message!TimerFires <=> ChatP!View!TimerFires
    BY SameReading DEF Message!TimerFires, ChatP!View!TimerFires, Message!doHighlight,
       ChatP!View!doHighlight
  <2>3. \A ok : Message!Highlighted(ok) <=> ChatP!View!Highlighted(ok)
    BY DEF Message!Highlighted, ChatP!View!Highlighted
  <2>4. \A i, ok : Message!HighlightedOnce(i, ok) <=> ChatP!View!HighlightedOnce(i, ok)
    BY DEF Message!HighlightedOnce, ChatP!View!HighlightedOnce
  <2> QED
    BY <2>1, <2>2, <2>3, <2>4 DEF Message!Next, ChatP!View!Next
<1>3. Message!viewVars = ChatP!View!viewVars
  BY DEF Message!viewVars, ChatP!View!viewVars
<1> QED
  BY <1>1, <1>2, <1>3

-----------------------------------------------------------------------------
(* The page that is open stays open.                                       *)

LEMMA ChatOrOther == Spec => (ChatP!Spec /\ [](page = "chat")) \/ [](~(page = "chat"))
<1>1. Init /\ page = "chat" => ChatP!Init
  BY SameChat DEF Init
<1>2. page = "chat" /\ [Next]_vars => (page = "chat")' /\ [ChatP!Next]_ChatP!chatVars
  <2>1. CASE page = "chat" /\ Next
    BY <2>1, SameChat DEF Next, PageStep
  <2>2. CASE UNCHANGED vars
    BY <2>2 DEF vars, ChatP!chatVars
  <2> QED
    BY <2>1, <2>2
<1>3. ~(page = "chat") /\ [Next]_vars => (~(page = "chat"))'
  BY DEF Next, vars
<1> QED
  BY <1>1, <1>2, <1>3, PTL DEF Spec, ChatP!Spec

LEMMA TableOrOther ==
    Spec => (TableP!Spec /\ [](page = "accounts")) \/ [](~(page = "accounts"))
<1>1. Init /\ page = "accounts" => TableP!Init
  BY SameTable DEF Init
<1>2. page = "accounts" /\ [Next]_vars
         => (page = "accounts")' /\ [TableP!Next]_TableP!accountsVars
  <2>1. CASE page = "accounts" /\ Next
    BY <2>1, SameTable DEF Next, PageStep
  <2>2. CASE UNCHANGED vars
    BY <2>2 DEF vars, TableP!accountsVars, TableP!storeVars,
                TableP!flagVars
  <2> QED
    BY <2>1, <2>2
<1>3. ~(page = "accounts") /\ [Next]_vars => (~(page = "accounts"))'
  BY DEF Next, vars
<1> QED
  BY <1>1, <1>2, <1>3, PTL DEF Spec, TableP!Spec

LEMMA MessageOrOther ==
    Spec => (ChatP!View!Spec /\ [](page = "message")) \/ [](~(page = "message"))
<1>1. Init /\ page = "message" => ChatP!View!Init
  BY SameMessage DEF Init
<1>2. page = "message" /\ [Next]_vars
         => (page = "message")' /\ [ChatP!View!Next]_ChatP!View!viewVars
  <2>1. CASE page = "message" /\ Next
    BY <2>1, SameMessage DEF Next, PageStep
  <2>2. CASE UNCHANGED vars
    BY <2>2 DEF vars, ChatP!View!viewVars
  <2> QED
    BY <2>1, <2>2
<1>3. ~(page = "message") /\ [Next]_vars => (~(page = "message"))'
  BY DEF Next, vars
<1> QED
  BY <1>1, <1>2, <1>3, PTL DEF Spec, ChatP!View!Spec

LEMMA ChatAssumed == ChatP!ChatAssumption
BY DashboardAssumption DEF Chat!ChatAssumption, ChatP!ChatAssumption

LEMMA MessageAssumed == ChatP!View!MessageAssumption
BY DashboardAssumption DEF Message!MessageAssumption, ChatP!View!MessageAssumption

LEMMA TableAssumed == TableP!AccountsPageAssumption
BY DashboardAssumption DEF Table!AccountsPageAssumption, TableP!AccountsPageAssumption,
   Table!RowCommands, TableP!RowCommands, Table!ProviderCommands,
   TableP!ProviderCommands, Table!OtherCommands, TableP!OtherCommands

-----------------------------------------------------------------------------
\* The screen has all that local storage has of the session, whichever writes fail, and
\* is the same list unless a write of that session failed since the list was read
\* (writeSessions of stores/chat.ts), for any number of sessions, messages and mounts.
THEOREM ChatShowsStorage == Spec => []ViewMatchesStorage
<1>1. ChatP!Spec => []ChatP!ViewMatchesStorage
  BY ChatAssumed, ChatP!ViewIsStored
<1>2. ChatP!ViewMatchesStorage => ViewMatchesStorage
  BY DEF ViewMatchesStorage, Chat!ViewMatchesStorage, ChatP!ViewMatchesStorage,
         Chat!IsShown, ChatP!IsShown
<1>3. ~(page = "chat") => ViewMatchesStorage
  BY DEF ViewMatchesStorage
<1> QED
  BY <1>1, <1>2, <1>3, ChatOrOther, PTL

\* The chat shows a reply as being written only while one is (the finally block
\* of sendMessage), whatever is stopped, deleted, locked or left meanwhile.
THEOREM ChatProgressEnds == Spec => []ProgressHasStream
<1>1. ChatP!Spec => []ChatP!ProgressHasStream
  BY ChatAssumed, ChatP!ProgressEnds
<1>2. ChatP!ProgressHasStream => ProgressHasStream
  BY DEF ProgressHasStream, Chat!ProgressHasStream, ChatP!ProgressHasStream
<1>3. ~(page = "chat") => ProgressHasStream
  BY DEF ProgressHasStream
<1> QED
  BY <1>1, <1>2, <1>3, ChatOrOther, PTL

\* A session of the chat asks for its title at most once (generateSessionTitle), unless a
\* title it was given could not be stored or was "New Chat", typed or generated.
THEOREM ChatTitledOnce == Spec => []OneTitle
<1>1. ChatP!Spec => []ChatP!OneTitle
  BY ChatAssumed, ChatP!TitledOnce
<1>2. ChatP!OneTitle => OneTitle
  BY DEF OneTitle, Chat!OneTitle, ChatP!OneTitle
<1>3. ~(page = "chat") => OneTitle
  BY DEF OneTitle
<1> QED
  BY <1>1, <1>2, <1>3, ChatOrOther, PTL

\* What was saved of a reply is never written over (saveMessage).
THEOREM ChatSavesOnce == Spec => SavedOnce
<1>1. ChatP!Spec => [][ChatP!SavesOnce]_ChatP!chatVars
  BY ChatAssumed, ChatP!RepliesAreSavedOnce
<1>2. [Next]_vars /\ [ChatP!SavesOnce]_ChatP!chatVars => [page = "chat" => Chat!SavesOnce]_vars
  <2>1. ChatP!SavesOnce <=> Chat!SavesOnce
    BY DEF ChatP!SavesOnce, Chat!SavesOnce, ChatP!Texts, Chat!Texts, ChatP!Exchanges,
           Chat!Exchanges
  <2>2. Next /\ UNCHANGED ChatP!chatVars => UNCHANGED vars
    BY DEF Next, ChatP!chatVars, vars
  <2> QED
    BY <2>1, <2>2
<1>3. ~(page = "chat") /\ [Next]_vars => [page = "chat" => Chat!SavesOnce]_vars
  OBVIOUS
<1> QED
  BY <1>1, <1>2, <1>3, ChatOrOther, PTL DEF Spec, SavedOnce

\* What is shown of a block of code as highlighted is the beginning of its code (what
\* String.replace makes of a dollar sign in the rest aside), an idle highlighter has
\* tried the code as it is, and a closed block keeps what it was highlighted as
\* (ChatMessage.tsx), for any text in any chunks.
THEOREM HighlightsAreSound == Spec => []HighlightSound
<1>1. ChatP!View!Spec => []ChatP!View!HighlightSound
  BY MessageAssumed, ChatP!HighlightIsSound
<1>2. ChatP!View!HighlightSound => HighlightSound
  BY SameReading DEF HighlightSound, Message!HighlightSound, ChatP!View!HighlightSound,
         Message!ShownIsCode, ChatP!View!ShownIsCode, Message!HighlightCatchesUp,
         ChatP!View!HighlightCatchesUp, Message!ClosedIsCode, ChatP!View!ClosedIsCode,
         Message!Key, ChatP!View!Key, Message!IsPrefix, ChatP!View!IsPrefix
<1>3. ~(page = "message") => HighlightSound
  BY DEF HighlightSound
<1> QED
  BY <1>1, <1>2, <1>3, MessageOrOther, PTL

\* What parseIntoParts made of a message stays as it is when more of it arrives,
\* all but the last part.
THEOREM MessagesAreStable == Spec => StreamStable
<1>1. ChatP!View!Spec => [][ChatP!View!GrowsStably]_ChatP!View!viewVars
  BY MessageAssumed, ChatP!GrowthIsStable
<1>2. [Next]_vars /\ [ChatP!View!GrowsStably]_ChatP!View!viewVars
         => [page = "message" => Message!GrowsStably]_vars
  <2>1. ChatP!View!GrowsStably => Message!GrowsStably
    BY SameReading DEF Message!GrowsStably, ChatP!View!GrowsStably
  <2>2. Next /\ page = "message" /\ UNCHANGED ChatP!View!viewVars => UNCHANGED vars
    BY DEF Next, PageStep, Rest8, Rest10, Rest11, Rest12, Rest13, Rest16, Rest17,
           ChatP!View!viewVars, vars
  <2> QED
    BY <2>1, <2>2
<1>3. ~(page = "message") /\ [Next]_vars => [page = "message" => Message!GrowsStably]_vars
  OBVIOUS
<1> QED
  BY <1>1, <1>2, <1>3, MessageOrOther, PTL DEF Spec, StreamStable

\* Once nothing is under way, the accounts page shows the accounts and counts of
\* the server (stores/connections.ts), for any number of handlers and accounts.
THEOREM AccountsAreCurrent == Spec => []TableIsCurrent
<1>1. TableP!Spec => []TableP!TableIsCurrent
  BY TableAssumed, TableP!TableShowsServer
<1>2. TableP!TableIsCurrent => TableIsCurrent
  BY DEF TableIsCurrent, Table!TableIsCurrent, TableP!TableIsCurrent, Table!Settled,
         TableP!Settled, Table!Listed, TableP!Listed, Table!Filtered,
         TableP!Filtered, Table!Row, TableP!Row, Table!Status,
         TableP!Status, Table!Pages, TableP!Pages, Table!Summary,
         TableP!Summary
<1>3. ~(page = "accounts") => TableIsCurrent
  BY DEF TableIsCurrent
<1> QED
  BY <1>1, <1>2, <1>3, TableOrOther, PTL

\* What the accounts page disables while a handler works, the handler enables
\* again, on every path (busyId, checkingCredits, bulkRefreshingTokens, loading).
THEOREM AccountsAreReleased == Spec => []BusyHasTask
<1>1. TableP!Spec => []TableP!BusyHasTask
  BY TableAssumed, TableP!TableIsReleased
<1>2. TableP!BusyHasTask => BusyHasTask
  BY DEF BusyHasTask, Table!BusyHasTask, TableP!BusyHasTask, Table!RowCommands,
         TableP!RowCommands
<1>3. ~(page = "accounts") => BusyHasTask
  BY DEF BusyHasTask
<1> QED
  BY <1>1, <1>2, <1>3, TableOrOther, PTL

-----------------------------------------------------------------------------
(* The usage records: at v1, first v2, usedAccount v3, usageCtxByAccount   *)
(* v4, Pending v5, usageBuffer v6, log v7, shared v8.                      *)

RecPlaces == {"idle", "calling", "answered", "rebound", "closing", "flushed", "ended", "lost"}
RecPast == {"closing", "flushed", "ended", "lost"}

RecSet == [of : Requests, body : Requests \cup {None}]
RecWhole(r) == [of |-> r, body |-> r]

RecLive(r) == v1[r] \notin {"idle", "ended", "lost"}
RecUses(r, a) == a \in {v2[r], v3[r]}

RecTypes ==
    /\ v1 \in [Requests -> RecPlaces]
    /\ v2 \in [Requests -> Accounts \cup {None}]
    /\ v3 \in [Requests -> Accounts \cup {None}]
    /\ v4 \in [Accounts -> Requests \cup {None}]
    /\ v5 \in [Requests -> RecSet \cup {None}]
    /\ v7 \in Seq(RecSet)
    /\ v8 \subseteq Requests

\* A request is counted by one record: in the log, or in one context.  Only a
\* context that was stored and not yet cleared has a record of the log.
RecOnce ==
    /\ \A i \in DOMAIN v7 : v1[v7[i].of] \in RecPast
    /\ \A c \in Requests : v5[c] # None => v1[v5[c].of] \in RecPast
    /\ \A i, j \in DOMAIN v7 : v7[i].of = v7[j].of => i = j
    /\ \A c, d \in Requests :
          v5[c] # None /\ v5[d] # None /\ v5[c].of = v5[d].of => c = d
    /\ \A c \in Requests, i \in DOMAIN v7 :
          v5[c] # None /\ v5[c].of = v7[i].of => v1[c] = "flushed"

\* A request has the accounts that its place says, and a context while it is live.
RecPlaced ==
    /\ \A r \in Requests :
          /\ v1[r] = "idle" => v2[r] = None
          /\ v1[r] \in {"idle", "calling"} => v3[r] = None
          /\ v1[r] \in {"calling", "answered", "rebound"} => v2[r] \in Accounts
          /\ v1[r] \in {"answered", "rebound"} => v3[r] \in Accounts
    /\ \A a \in Accounts : v4[a] # None => RecLive(v4[a])

\* A request that is not shared has its accounts to itself ...
RecApart ==
    \A r \in Requests \ v8, o \in Requests, a \in Accounts :
        r # o /\ RecLive(r) /\ RecLive(o) /\ RecUses(r, a) => ~RecUses(o, a)

\* ... its context is found under them only, and its record is on its way.
RecOwn(r) ==
    /\ \A a \in Accounts : RecLive(r) /\ v4[a] = r => RecUses(r, a)
    /\ v1[r] \in {"calling", "answered"} => v4[v2[r]] = r
    /\ v1[r] = "rebound" => v4[v3[r]] = r
    /\ v1[r] = "closing" /\ v3[r] # None => v5[r] = RecWhole(r)
    /\ v1[r] \in {"flushed", "ended"} /\ v3[r] # None
          => \E i \in DOMAIN v7 : v7[i] = RecWhole(r)

RecAllOwn == \A r \in Requests \ v8 : RecOwn(r)

RecInv == RecTypes /\ RecOnce /\ RecPlaced /\ RecApart /\ RecAllOwn

LEMMA RecInitInv == ASSUME Records!UsageRecordsAssumption, Records!Init PROVE RecInv
BY DEF Records!UsageRecordsAssumption, Records!Init, RecInv, RecTypes, RecOnce, RecPlaced,
       RecApart, RecAllOwn, RecOwn,
       RecPlaces, RecSet, RecLive, RecUses

\* What a record appended to the log is and leaves alone.
LEMMA RecAppended ==
    ASSUME v7 \in Seq(RecSet), NEW rec \in RecSet, Records!RecordUsage(rec)
    PROVE  /\ v7' \in Seq(RecSet)
           /\ DOMAIN v7' = DOMAIN v7 \cup {Len(v7) + 1}
           /\ Len(v7) + 1 \notin DOMAIN v7
           /\ v7'[Len(v7) + 1] = rec
           /\ \A i \in DOMAIN v7 : v7'[i] = v7[i]
BY DEF Records!RecordUsage

\* Requests that meet on an account are shared from then on.
LEMMA RecMeetApart ==
    ASSUME RecTypes, RecApart, NEW q \in Requests, NEW b \in Accounts, Records!Meet(q, b),
           \A o \in Requests \ {q} : /\ RecLive(o)' <=> RecLive(o)
                                     /\ \A a \in Accounts : RecUses(o, a)' <=> RecUses(o, a),
           \A a \in Accounts : RecUses(q, a)' => a = b \/ (RecLive(q) /\ RecUses(q, a))
    PROVE  RecApart'
<1> SUFFICES ASSUME NEW r \in Requests, r \notin v8', NEW o \in Requests, NEW a \in Accounts,
                    r # o, RecLive(r)', RecLive(o)', RecUses(r, a)', RecUses(o, a)'
             PROVE  FALSE
  BY DEF RecApart
<1>1. r \notin v8 /\ v8' = v8 \cup Records!Company(q, b) \cup
                                (IF Records!Company(q, b) = {} THEN {} ELSE {q})
  BY DEF Records!Meet
<1>2. Records!Company(q, b) = {p \in Requests \ {q} : RecLive(p) /\ RecUses(p, b)}
  BY DEF Records!Company, RecLive, RecUses
<1>3. CASE r = q
  <2>1. Records!Company(q, b) = {}
    BY <1>1, <1>3
  <2>2. ~(RecLive(o) /\ RecUses(o, b))
    BY <1>2, <1>3, <2>1
  <2> QED
    BY <1>1, <1>3, <2>2 DEF RecApart
<1>4. CASE o = q
  <2>1. ~(RecLive(r) /\ RecUses(r, b))
    BY <1>1, <1>2, <1>4
  <2> QED
    BY <1>1, <1>4, <2>1 DEF RecApart
<1>5. CASE r # q /\ o # q
  BY <1>1, <1>5 DEF RecApart
<1> QED
  BY <1>3, <1>4, <1>5

LEMMA RecMovedTo ==
    ASSUME RecTypes, NEW q \in Requests, NEW s \in RecPlaces, Records!Moved(q, s)
    PROVE  /\ v1' \in [Requests -> RecPlaces]
           /\ v1'[q] = s
           /\ \A o \in Requests \ {q} : v1'[o] = v1[o]
BY DEF RecTypes, Records!Moved

LEMMA RecTyped ==
    ASSUME RecTypes
    PROVE  /\ \A i \in DOMAIN v7 : v7[i] \in RecSet /\ v7[i].of \in Requests
           /\ \A c \in Requests : v5[c] # None =>
                 v5[c] \in RecSet /\ v5[c].of \in Requests
<1>1. \A x \in RecSet : x.of \in Requests
  BY DEF RecSet
<1>2. \A i \in DOMAIN v7 : v7[i] \in RecSet
  BY DEF RecTypes
<1>3. \A c \in Requests : v5[c] # None => v5[c] \in RecSet
  BY DEF RecTypes
<1> QED
  BY <1>1, <1>2, <1>3

\* A step that makes no record leaves the records as they are.
LEMMA RecStaysCounted ==
    ASSUME RecTypes, RecOnce, UNCHANGED <<v5, v7>>,
           \A r \in Requests : /\ v1[r] \in RecPast => v1'[r] \in RecPast
                               /\ v1[r] = "flushed" => v1'[r] = "flushed"
    PROVE  RecOnce'
<1>0. v5' = v5 /\ v7' = v7
  OBVIOUS
<1>1. \A i \in DOMAIN v7 : v7[i].of \in Requests
  BY RecTyped
<1>2. \A c \in Requests : v5[c] # None => v5[c].of \in Requests
  BY RecTyped
<1>3. \A i \in DOMAIN v7' : v1'[v7'[i].of] \in RecPast
  BY <1>0, <1>1 DEF RecOnce
<1>4. \A c \in Requests : v5'[c] # None => v1'[v5'[c].of] \in RecPast
  BY <1>0, <1>2 DEF RecOnce
<1>5. \A c \in Requests, i \in DOMAIN v7' :
         v5'[c] # None /\ v5'[c].of = v7'[i].of => v1'[c] = "flushed"
  BY <1>0 DEF RecOnce
<1> QED
  BY <1>0, <1>3, <1>4, <1>5 DEF RecOnce

LEMMA RecBeginKeeps ==
    ASSUME Records!UsageRecordsAssumption, RecInv, NEW q \in Requests, NEW b \in Accounts,
           Records!Begin(q, b)
    PROVE  RecInv'
<1> USE DEF RecInv
<1>0. /\ v1[q] = "idle" /\ v1' \in [Requests -> RecPlaces] /\ v1'[q] = "calling"
      /\ \A o \in Requests \ {q} : v1'[o] = v1[o]
  BY RecMovedTo DEF Records!Begin, RecPlaces
<1>1. /\ v2' = [v2 EXCEPT ![q] = b] /\ UNCHANGED <<v3, v5, v6, v7>>
      /\ v4' = [v4 EXCEPT ![b] = q] /\ Records!Meet(q, b)
  BY DEF Records!Begin
<1>2. RecTypes'
  BY <1>0, <1>1 DEF RecTypes, Records!Meet, Records!Company
<1>3. RecOnce'
  BY <1>0, <1>1, RecStaysCounted DEF RecPast
<1>4. RecPlaced'
  BY <1>0, <1>1 DEF Records!UsageRecordsAssumption, RecTypes, RecPlaced, RecLive
<1>5. RecApart'
  <2>1. \A o \in Requests \ {q} : /\ RecLive(o)' <=> RecLive(o)
                                  /\ \A a \in Accounts : RecUses(o, a)' <=> RecUses(o, a)
    BY <1>0, <1>1 DEF RecTypes, RecLive, RecUses
  <2>2. \A a \in Accounts : RecUses(q, a)' => a = b
    BY <1>0, <1>1 DEF Records!UsageRecordsAssumption, RecTypes, RecPlaced, RecUses
  <2> QED
    BY <1>1, <2>1, <2>2, RecMeetApart
<1>6. RecAllOwn'
  <2> SUFFICES ASSUME NEW r \in Requests, r \notin v8' PROVE RecOwn(r)'
    BY DEF RecAllOwn
  <2>1. r \notin v8 /\ r \notin Records!Company(q, b) /\ RecOwn(r)
    BY <1>1 DEF Records!Meet, RecAllOwn
  <2>2. CASE r = q
    <3>1. \A a \in Accounts : v4[a] # q
      BY <1>0 DEF RecTypes, RecPlaced, RecLive, Records!UsageRecordsAssumption
    <3> QED
      BY <1>0, <1>1, <2>2, <3>1 DEF RecTypes, RecOwn, RecUses
  <2>3. CASE r # q
    <3>1. RecLive(r) => ~RecUses(r, b)
      BY <2>1, <2>3 DEF Records!Company, RecLive, RecUses
    <3>2. /\ RecLive(r)' <=> RecLive(r)
          /\ \A a \in Accounts : RecUses(r, a)' <=> RecUses(r, a)
          /\ v2'[r] = v2[r] /\ v3'[r] = v3[r] /\ v1'[r] = v1[r]
      BY <1>0, <1>1, <2>3 DEF RecTypes, RecLive, RecUses
    <3>3. \A a \in Accounts : a # b => v4'[a] = v4[a]
      BY <1>1 DEF RecTypes
    <3>4. v4'[b] = q
      BY <1>1 DEF RecTypes
    <3>5. \A a \in Accounts : RecLive(r)' /\ v4'[a] = r => RecUses(r, a)'
      BY <2>1, <2>3, <3>2, <3>3, <3>4 DEF RecOwn
    <3>6. /\ v1[r] \in {"calling", "answered"} => v2[r] \in Accounts \ {b}
          /\ v1[r] = "rebound" => v3[r] \in Accounts \ {b}
      BY <3>1 DEF RecPlaced, RecLive, RecUses
    <3>7. /\ v1'[r] \in {"calling", "answered"} => v4'[v2'[r]] = r
          /\ v1'[r] = "rebound" => v4'[v3'[r]] = r
      BY <2>1, <3>2, <3>3, <3>6 DEF RecOwn
    <3> QED
      BY <1>1, <2>1, <3>2, <3>5, <3>6, <3>7 DEF RecOwn
  <2> QED
    BY <2>2, <2>3
<1> QED
  BY <1>2, <1>3, <1>4, <1>5, <1>6

LEMMA RecSucceedKeeps ==
    ASSUME Records!UsageRecordsAssumption, RecInv, NEW q \in Requests, NEW b \in Accounts,
           Records!Succeed(q, b)
    PROVE  RecInv'
<1> USE DEF RecInv
<1>0. /\ v1[q] = "calling" /\ v1' \in [Requests -> RecPlaces] /\ v1'[q] = "answered"
      /\ \A o \in Requests \ {q} : v1'[o] = v1[o]
  BY RecMovedTo DEF Records!Succeed, RecPlaces
<1>1. /\ v3' = [v3 EXCEPT ![q] = b] /\ Records!Meet(q, b)
      /\ UNCHANGED <<v2, v4, v5, v6, v7>>
  BY DEF Records!Succeed
<1>2. RecTypes'
  BY <1>0, <1>1 DEF RecTypes, Records!Meet, Records!Company
<1>3. RecOnce'
  BY <1>0, <1>1, RecStaysCounted DEF RecPast
<1>4. RecPlaced'
  BY <1>0, <1>1 DEF Records!UsageRecordsAssumption, RecTypes, RecPlaced, RecLive
<1>5. RecApart'
  <2>1. \A o \in Requests \ {q} : /\ RecLive(o)' <=> RecLive(o)
                                  /\ \A a \in Accounts : RecUses(o, a)' <=> RecUses(o, a)
    BY <1>0, <1>1 DEF RecTypes, RecLive, RecUses
  <2>2. \A a \in Accounts : RecUses(q, a)' => a = b \/ (RecLive(q) /\ RecUses(q, a))
    BY <1>0, <1>1 DEF RecTypes, RecLive, RecUses
  <2> QED
    BY <1>1, <2>1, <2>2, RecMeetApart
<1>6. RecAllOwn'
  BY <1>0, <1>1 DEF RecTypes, RecAllOwn, RecOwn, Records!Meet, RecLive, RecUses, RecPlaced,
                    Records!UsageRecordsAssumption
<1> QED
  BY <1>2, <1>3, <1>4, <1>5, <1>6

\* A step after which each request uses the accounts it used, and no other is live.
LEMMA RecStaysApart ==
    ASSUME RecTypes, RecApart, UNCHANGED Records!requestVars,
           \A r \in Requests : RecLive(r)' => RecLive(r)
    PROVE  RecApart'
BY DEF RecApart, Records!requestVars, RecUses

LEMMA RecFailedKeeps ==
    ASSUME Records!UsageRecordsAssumption, RecInv, NEW q \in Requests, Records!Failed(q)
    PROVE  RecInv'
<1> USE DEF RecInv
<1>0. /\ v1[q] = "calling" /\ v1' \in [Requests -> RecPlaces] /\ v1'[q] = "closing"
      /\ \A o \in Requests \ {q} : v1'[o] = v1[o]
  BY RecMovedTo DEF Records!Failed, RecPlaces
<1>1. UNCHANGED <<Records!requestVars, v4, v5, v6, v7>>
  BY DEF Records!Failed
<1>2. \A r \in Requests : RecLive(r)' <=> RecLive(r)
  BY <1>0 DEF RecLive
<1>3. RecTypes'
  BY <1>0, <1>1 DEF RecTypes, Records!requestVars
<1>4. RecOnce'
  BY <1>0, <1>1, RecStaysCounted DEF RecPast
<1>5. RecPlaced'
  BY <1>0, <1>1 DEF RecTypes, RecPlaced, RecLive, Records!requestVars
<1>6. RecApart'
  BY <1>1, <1>2, RecStaysApart
<1>7. RecAllOwn'
  BY <1>0, <1>1 DEF RecTypes, RecAllOwn, RecOwn, RecLive, RecUses, RecPlaced,
                    Records!requestVars
<1> QED
  BY <1>3, <1>4, <1>5, <1>6, <1>7

\* The context of a request that is not shared is where only this request finds it.
LEMMA RecContextIsOwn ==
    ASSUME Records!UsageRecordsAssumption, RecInv, NEW r \in Requests, r \notin v8,
           NEW q \in Requests, RecLive(q), NEW a \in Accounts, RecUses(q, a),
           v4[a] = r
    PROVE  q = r
<1>1. RecLive(r)
  BY DEF RecInv, RecPlaced, Records!UsageRecordsAssumption
<1>2. RecUses(r, a)
  BY <1>1 DEF RecInv, RecAllOwn, RecOwn
<1> QED
  BY <1>1, <1>2 DEF RecInv, RecApart

LEMMA RecRebindKeeps ==
    ASSUME Records!UsageRecordsAssumption, RecInv, NEW q \in Requests, Records!Rebind(q)
    PROVE  RecInv'
<1>0. /\ v1[q] = "answered" /\ v1' \in [Requests -> RecPlaces] /\ v1'[q] = "rebound"
      /\ \A o \in Requests \ {q} : v1'[o] = v1[o]
  BY RecMovedTo DEF RecInv, Records!Rebind, RecPlaces
<1>1. v4' = Records!Rebound(q) /\ UNCHANGED <<Records!requestVars, v5, v6, v7>>
  BY DEF Records!Rebind
<1>2. v2[q] \in Accounts /\ v3[q] \in Accounts /\ RecLive(q)
  BY <1>0 DEF RecInv, RecPlaced, RecLive
<1>3. \A r \in Requests : RecLive(r)' <=> RecLive(r)
  BY <1>0 DEF RecLive
<1>4. /\ v4' \in [Accounts -> Requests \cup {None}]
      /\ \A a \in Accounts : a \notin {v2[q], v3[q]}
                                => v4'[a] = v4[a]
      /\ v4'[v3[q]]
            \in {v4[v2[q]], v4[v3[q]]}
      /\ v4'[v2[q]] \in {v4[v2[q]], None}
      /\ v4[v2[q]] = q => v4'[v3[q]] = q
  BY <1>1, <1>2 DEF RecInv, RecTypes, Records!Rebound, Records!UsageRecordsAssumption
<1>5. RecTypes'
  BY <1>0, <1>1, <1>4 DEF RecInv, RecTypes, Records!requestVars
<1>6. RecOnce'
  BY <1>0, <1>1, RecStaysCounted DEF RecInv, RecPast
<1>7. RecPlaced'
  <2>1. \A a \in Accounts : v4'[a] # None
           => \E b \in Accounts : v4'[a] = v4[b]
    BY <1>2, <1>4
  <2>2. \A a \in Accounts : v4'[a] # None => v4'[a] \in Requests
    BY <1>4
  <2>3. \A a \in Accounts : v4'[a] # None => RecLive(v4[a])'
    BY <1>0, <2>1, <2>2 DEF RecInv, RecPlaced, RecLive
  <2> QED
    BY <1>0, <1>1, <1>2, <2>3 DEF RecInv, RecPlaced, Records!requestVars
<1>8. RecApart'
  BY <1>1, <1>3, RecStaysApart DEF RecInv
<1>9. RecAllOwn'
  <2> SUFFICES ASSUME NEW r \in Requests, r \notin v8' PROVE RecOwn(r)'
    BY DEF RecAllOwn
  <2>1. r \notin v8 /\ RecOwn(r)
    BY <1>1 DEF RecInv, RecAllOwn, Records!requestVars
  <2>2. /\ \A a \in Accounts : RecUses(r, a)' <=> RecUses(r, a)
        /\ v2'[r] = v2[r] /\ v3'[r] = v3[r]
        /\ v5' = v5 /\ v7' = v7
    BY <1>1 DEF RecUses, Records!requestVars
  <2>3. CASE r = q
    <3>1. v4'[v3[q]] = q
      BY <1>0, <1>4, <2>1, <2>3 DEF RecOwn
    <3>2. \A a \in Accounts : v4'[a] = q => RecUses(q, a)
      BY <1>2, <1>4, <2>1, <2>3 DEF RecOwn, RecUses
    <3> QED
      BY <1>0, <2>1, <2>2, <2>3, <3>1, <3>2 DEF RecOwn
  <2>4. CASE r # q
    <3>1. v1'[r] = v1[r]
      BY <1>0, <2>4
    <3>2. /\ v4[v2[q]] # r
          /\ v4[v3[q]] # r
      BY <1>2, <2>1, <2>4, RecContextIsOwn DEF RecUses
    <3>3. \A a \in Accounts : v4'[a] = r <=> v4[a] = r
      BY <1>2, <1>4, <3>2 DEF Records!UsageRecordsAssumption
    <3>4. /\ v1[r] \in {"calling", "answered"} => v2[r] \in Accounts
          /\ v1[r] = "rebound" => v3[r] \in Accounts
      BY DEF RecInv, RecPlaced
    <3>5. RecLive(r)' <=> RecLive(r)
      BY <1>3
    <3> QED
      BY <2>1, <2>2, <3>1, <3>3, <3>4, <3>5 DEF RecOwn
  <2> QED
    BY <2>3, <2>4
<1> QED
  BY <1>5, <1>6, <1>7, <1>8, <1>9 DEF RecInv

\* A step that changes no context, and of the records only those of other requests.
LEMMA RecOwnStays ==
    ASSUME Records!UsageRecordsAssumption, RecInv, NEW r \in Requests, RecOwn(r),
           v1'[r] = v1[r],
           UNCHANGED Records!requestVars,
           \A a \in Accounts : v4'[a] = r <=> v4[a] = r,
           v1[r] = "closing" => v5'[r] = v5[r],
           \A i \in DOMAIN v7 : i \in DOMAIN v7' /\ v7'[i] = v7[i]
    PROVE  RecOwn(r)'
<1>1. /\ v1[r] \in {"calling", "answered"} => v2[r] \in Accounts
      /\ v1[r] = "rebound" => v3[r] \in Accounts
  BY DEF RecInv, RecPlaced
<1>2. /\ RecLive(r)' <=> RecLive(r)
      /\ \A a \in Accounts : RecUses(r, a)' <=> RecUses(r, a)
      /\ v2'[r] = v2[r] /\ v3'[r] = v3[r]
  BY DEF RecLive, RecUses, Records!requestVars
<1>3. (\E i \in DOMAIN v7 : v7[i] = RecWhole(r)) => \E i \in DOMAIN v7' : v7'[i] = RecWhole(r)
  OBVIOUS
<1> QED
  BY <1>1, <1>2, <1>3 DEF RecOwn, RecWhole

\* The record of a request that had none is stored at once ...
LEMMA RecMoves ==
    ASSUME RecInv, NEW q \in Requests, v1'[q] \in RecPast, v5' = v5,
           v1[q] \notin RecPast, \A o \in Requests \ {q} : v1'[o] = v1[o],
           \A i \in DOMAIN v7 : v7[i].of # q,
           \A c \in Requests : v5[c] # None => v5[c].of # q,
           DOMAIN v7' = DOMAIN v7 \cup {Len(v7) + 1}, Len(v7) + 1 \notin DOMAIN v7,
           v7'[Len(v7) + 1].of = q, \A i \in DOMAIN v7 : v7'[i] = v7[i]
    PROVE  RecOnce'
<1>1. \A r \in Requests : v1[r] \in RecPast => v1'[r] \in RecPast
  OBVIOUS
<1>2. \A i \in DOMAIN v7' : v1'[v7'[i].of] \in RecPast
  BY <1>1, RecTyped DEF RecInv, RecOnce
<1>3. \A c \in Requests : v5'[c] # None => v1'[v5'[c].of] \in RecPast
  BY <1>1, RecTyped DEF RecInv, RecOnce
<1>4. \A i, j \in DOMAIN v7' : v7'[i].of = v7'[j].of => i = j
  BY DEF RecInv, RecOnce
<1>5. \A c, d \in Requests :
         v5'[c] # None /\ v5'[d] # None /\ v5'[c].of = v5'[d].of => c = d
  BY DEF RecInv, RecOnce
<1>6. \A c \in Requests, i \in DOMAIN v7' :
         v5'[c] # None /\ v5'[c].of = v7'[i].of => v1'[c] = "flushed"
  BY DEF RecInv, RecOnce, RecPast
<1> QED
  BY <1>2, <1>3, <1>4, <1>5, <1>6 DEF RecOnce

\* ... or waits in a context.
LEMMA RecWaits ==
    ASSUME RecInv, NEW q \in Requests, v1'[q] \in RecPast, v7' = v7,
           v1[q] \notin RecPast, \A o \in Requests \ {q} : v1'[o] = v1[o],
           \A i \in DOMAIN v7 : v7[i].of # q,
           \A c \in Requests : v5[c] # None => v5[c].of # q,
           NEW d \in Requests, v5'[d].of = q,
           \A c \in Requests : c # d => v5'[c] = v5[c]
    PROVE  RecOnce'
<1>1. \A r \in Requests : v1[r] \in RecPast => v1'[r] \in RecPast
  OBVIOUS
<1>2. \A i \in DOMAIN v7' : v1'[v7'[i].of] \in RecPast
  BY <1>1, RecTyped DEF RecInv, RecOnce
<1>3. \A c \in Requests : v5'[c] # None => v1'[v5'[c].of] \in RecPast
  BY <1>1, RecTyped DEF RecInv, RecOnce
<1>4. \A i, j \in DOMAIN v7' : v7'[i].of = v7'[j].of => i = j
  BY DEF RecInv, RecOnce
<1>5. \A c, e \in Requests :
         v5'[c] # None /\ v5'[e] # None /\ v5'[c].of = v5'[e].of => c = e
  BY DEF RecInv, RecOnce
<1>6. \A c \in Requests, i \in DOMAIN v7' :
         v5'[c] # None /\ v5'[c].of = v7'[i].of => v1'[c] = "flushed"
  BY DEF RecInv, RecOnce, RecPast
<1> QED
  BY <1>2, <1>3, <1>4, <1>5, <1>6 DEF RecOnce

LEMMA RecRecordKeeps ==
    ASSUME Records!UsageRecordsAssumption, RecInv, NEW q \in Requests, Records!Record(q)
    PROVE  RecInv'
<1>0. /\ v1[q] = "rebound" /\ v1' \in [Requests -> RecPlaces] /\ v1'[q] = "closing"
      /\ \A o \in Requests \ {q} : v1'[o] = v1[o]
  BY RecMovedTo DEF RecInv, Records!Record, RecPlaces
<1>1. UNCHANGED <<Records!requestVars, v4>>
  BY DEF Records!Record
<1>2. \A r \in Requests : RecLive(r)' <=> RecLive(r)
  BY <1>0 DEF RecLive
<1>3. /\ v3[q] \in Accounts /\ RecLive(q) /\ RecUses(q, v3[q])
  BY <1>0 DEF RecInv, RecPlaced, RecLive, RecUses
<1>4. RecPlaced'
  BY <1>0, <1>1, <1>2 DEF RecInv, RecPlaced, RecTypes, RecLive, Records!requestVars
<1>5. RecApart'
  BY <1>1, <1>2, RecStaysApart DEF RecInv
<1>6. /\ \A i \in DOMAIN v7 : v7[i].of # q
      /\ \A c \in Requests : v5[c] # None => v5[c].of # q
  BY <1>0 DEF RecInv, RecOnce, RecPast
<1>7. v1[q] \notin RecPast /\ v1'[q] \in RecPast
  BY <1>0 DEF RecPast
<1>8. CASE v4[v3[q]] = None
  <2> DEFINE rec == [of |-> q, body |-> None]
  <2>1. Records!RecordUsage(rec) /\ v5' = v5 /\ rec \in RecSet /\ rec.of = q
    BY <1>8 DEF Records!Record, RecSet
  <2> HIDE DEF rec
  <2>2. /\ v7' \in Seq(RecSet)
        /\ DOMAIN v7' = DOMAIN v7 \cup {Len(v7) + 1}
        /\ Len(v7) + 1 \notin DOMAIN v7
        /\ v7'[Len(v7) + 1] = rec
        /\ \A i \in DOMAIN v7 : v7'[i] = v7[i]
    BY <2>1, RecAppended DEF RecInv, RecTypes
  <2>3. RecTypes'
    BY <1>0, <1>1, <2>1, <2>2 DEF RecInv, RecTypes, Records!requestVars
  <2>4. RecOnce'
    BY <1>0, <1>6, <1>7, <2>1, <2>2, RecMoves
  <2>5. RecAllOwn'
    <3> SUFFICES ASSUME NEW r \in Requests, r \notin v8' PROVE RecOwn(r)'
      BY DEF RecAllOwn
    <3>1. r \notin v8 /\ RecOwn(r)
      BY <1>1 DEF RecInv, RecAllOwn, Records!requestVars
    <3>2. r # q
      BY <1>0, <1>8, <3>1 DEF RecOwn, Records!UsageRecordsAssumption
    <3> QED
      BY <1>0, <1>1, <2>1, <2>2, <3>1, <3>2, RecOwnStays
  <2> QED
    BY <1>4, <1>5, <2>3, <2>4, <2>5 DEF RecInv
<1>9. CASE v4[v3[q]] # None
  <2> DEFINE c == v4[v3[q]]
             rec == [of |-> q, body |-> c]
  <2>1. c \in Requests /\ rec \in RecSet /\ rec.of = q /\ rec # None
    BY <1>3, <1>9 DEF RecInv, RecTypes, RecSet, Records!UsageRecordsAssumption
  <2>2. v7' = v7 /\ v5' = [v5 EXCEPT ![c] = rec]
    BY <1>9 DEF Records!Record
  <2>3. c = q => rec = RecWhole(q)
    BY DEF RecWhole
  <2>4. \A r \in Requests \ v8 : c = r => q = r
    BY <1>3, RecContextIsOwn
  <2>5. q \notin v8 => c = q
    BY <1>0 DEF RecInv, RecAllOwn, RecOwn
  <2> HIDE DEF c, rec
  <2>6. /\ v5'[c] = rec
        /\ \A d \in Requests : d # c => v5'[d] = v5[d]
    BY <2>1, <2>2 DEF RecInv, RecTypes
  <2>7. RecTypes'
    BY <1>0, <1>1, <2>1, <2>2 DEF RecInv, RecTypes, Records!requestVars
  <2>8. RecOnce'
    BY <1>0, <1>6, <1>7, <2>1, <2>2, <2>6, RecWaits
  <2>9. RecAllOwn'
    <3> SUFFICES ASSUME NEW r \in Requests, r \notin v8' PROVE RecOwn(r)'
      BY DEF RecAllOwn
    <3>1. r \notin v8 /\ RecOwn(r)
      BY <1>1 DEF RecInv, RecAllOwn, Records!requestVars
    <3>2. CASE r = q
      <4>1. v5'[q] = RecWhole(q)
        BY <2>3, <2>5, <2>6, <3>1, <3>2
      <4> QED
        BY <1>0, <1>1, <1>2, <3>1, <3>2, <4>1 DEF RecOwn, RecUses, Records!requestVars,
                                                  RecWhole
    <3>3. CASE r # q
      <4>1. v5'[r] = v5[r]
        BY <2>4, <2>6, <3>1, <3>3
      <4> QED
        BY <1>0, <1>1, <2>2, <3>1, <3>3, <4>1, RecOwnStays
    <3> QED
      BY <3>2, <3>3
  <2> QED
    BY <1>4, <1>5, <2>7, <2>8, <2>9 DEF RecInv
<1> QED
  BY <1>8, <1>9

LEMMA RecFlushKeeps ==
    ASSUME Records!UsageRecordsAssumption, RecInv, NEW q \in Requests, Records!Flush(q)
    PROVE  RecInv'
<1>0. /\ v1[q] = "closing" /\ v1' \in [Requests -> RecPlaces] /\ v1'[q] = "flushed"
      /\ \A o \in Requests \ {q} : v1'[o] = v1[o]
  BY RecMovedTo DEF RecInv, Records!Flush, RecPlaces
<1>1. UNCHANGED <<Records!requestVars, v4, v5>>
  BY DEF Records!Flush
<1>2. \A r \in Requests : RecLive(r)' <=> RecLive(r)
  BY <1>0 DEF RecLive
<1>3. RecPlaced'
  BY <1>0, <1>1, <1>2 DEF RecInv, RecPlaced, RecTypes, RecLive, Records!requestVars
<1>4. RecApart'
  BY <1>1, <1>2, RecStaysApart DEF RecInv
<1>5. CASE v5[q] = None
  <2>1. v7' = v7
    BY <1>5 DEF Records!Flush
  <2>2. RecTypes'
    BY <1>0, <1>1, <2>1 DEF RecInv, RecTypes, Records!requestVars
  <2>3. RecOnce'
    BY <1>0, <1>1, <2>1, RecStaysCounted DEF RecInv, RecPast
  <2>4. RecAllOwn'
    <3> SUFFICES ASSUME NEW r \in Requests, r \notin v8' PROVE RecOwn(r)'
      BY DEF RecAllOwn
    <3>1. r \notin v8 /\ RecOwn(r)
      BY <1>1 DEF RecInv, RecAllOwn, Records!requestVars
    <3>2. CASE r = q
      <4>1. v3[q] = None
        <5>1. RecWhole(q) # None
          BY DEF RecWhole, Records!UsageRecordsAssumption
        <5> QED
          BY <1>0, <1>5, <3>1, <3>2, <5>1 DEF RecOwn
      <4> QED
        BY <1>0, <1>1, <1>2, <3>1, <3>2, <4>1 DEF RecOwn, RecUses, Records!requestVars,
                                                  RecWhole
    <3>3. CASE r # q
      BY <1>0, <1>1, <2>1, <3>1, <3>3, RecOwnStays
    <3> QED
      BY <3>2, <3>3
  <2> QED
    BY <1>3, <1>4, <2>2, <2>3, <2>4 DEF RecInv
<1>6. CASE v5[q] # None
  <2>1. Records!RecordUsage(v5[q]) /\ v5[q] \in RecSet
    BY <1>6 DEF Records!Flush, RecInv, RecTypes
  <2>2. /\ v7' \in Seq(RecSet)
        /\ DOMAIN v7' = DOMAIN v7 \cup {Len(v7) + 1}
        /\ Len(v7) + 1 \notin DOMAIN v7
        /\ v7'[Len(v7) + 1] = v5[q]
        /\ \A i \in DOMAIN v7 : v7'[i] = v7[i]
    BY <2>1, RecAppended DEF RecInv, RecTypes
  <2>3. RecTypes'
    BY <1>0, <1>1, <2>2 DEF RecInv, RecTypes, Records!requestVars
  <2>4. RecOnce'
    <3>1. \A i \in DOMAIN v7 : v7[i].of # v5[q].of
      BY <1>0, <1>6 DEF RecInv, RecOnce
    <3>2. \A r \in Requests : /\ v1[r] \in RecPast => v1'[r] \in RecPast
                              /\ v1[r] = "flushed" => v1'[r] = "flushed"
      BY <1>0 DEF RecPast
    <3>3. \A i \in DOMAIN v7' : v1'[v7'[i].of] \in RecPast
      BY <1>6, <2>2, <3>2, RecTyped DEF RecInv, RecOnce
    <3>4. \A c \in Requests : v5'[c] # None => v1'[v5'[c].of] \in RecPast
      BY <1>1, <3>2, RecTyped DEF RecInv, RecOnce
    <3>5. \A i, j \in DOMAIN v7' : v7'[i].of = v7'[j].of => i = j
      BY <2>2, <3>1 DEF RecInv, RecOnce
    <3>6. \A c, d \in Requests :
             v5'[c] # None /\ v5'[d] # None /\ v5'[c].of = v5'[d].of => c = d
      BY <1>1 DEF RecInv, RecOnce
    <3>7. \A c \in Requests, i \in DOMAIN v7' :
             v5'[c] # None /\ v5'[c].of = v7'[i].of => v1'[c] = "flushed"
      BY <1>0, <1>1, <1>6, <2>2, <3>2 DEF RecInv, RecOnce
    <3> QED
      BY <3>3, <3>4, <3>5, <3>6, <3>7 DEF RecOnce
  <2>5. RecAllOwn'
    <3> SUFFICES ASSUME NEW r \in Requests, r \notin v8' PROVE RecOwn(r)'
      BY DEF RecAllOwn
    <3>1. r \notin v8 /\ RecOwn(r)
      BY <1>1 DEF RecInv, RecAllOwn, Records!requestVars
    <3>2. CASE r = q
      <4>1. v3[q] # None => \E i \in DOMAIN v7' : v7'[i] = RecWhole(q)
        BY <1>0, <2>2, <3>1, <3>2 DEF RecOwn
      <4> QED
        BY <1>0, <1>1, <1>2, <3>1, <3>2, <4>1 DEF RecOwn, RecUses, Records!requestVars,
                                                  RecWhole
    <3>3. CASE r # q
      BY <1>0, <1>1, <2>2, <3>1, <3>3, RecOwnStays
    <3> QED
      BY <3>2, <3>3
  <2> QED
    BY <1>3, <1>4, <2>3, <2>4, <2>5 DEF RecInv
<1> QED
  BY <1>5, <1>6

LEMMA RecCloseKeeps ==
    ASSUME Records!UsageRecordsAssumption, RecInv, NEW q \in Requests, Records!Close(q)
    PROVE  RecInv'
<1>0. /\ v1[q] = "flushed" /\ v1' \in [Requests -> RecPlaces] /\ v1'[q] = "ended"
      /\ \A o \in Requests \ {q} : v1'[o] = v1[o]
  BY RecMovedTo DEF RecInv, Records!Close, RecPlaces
<1>1. /\ UNCHANGED <<Records!requestVars, v6, v7>>
      /\ v5' = [v5 EXCEPT ![q] = None]
      /\ v4' = [a \in Accounts |-> IF v4[a] = q THEN None
                                                  ELSE v4[a]]
  BY DEF Records!Close
<1>2. \A r \in Requests : RecLive(r)' => RecLive(r)
  BY <1>0 DEF RecLive
<1>3. v5'[q] = None /\ \A c \in Requests \ {q} : v5'[c] = v5[c]
  BY <1>1 DEF RecInv, RecTypes
<1>4. RecTypes'
  BY <1>0, <1>1 DEF RecInv, RecTypes, Records!requestVars
<1>5. RecOnce'
  <2>1. \A r \in Requests : v1[r] \in RecPast => v1'[r] \in RecPast
    BY <1>0 DEF RecPast
  <2>2. \A i \in DOMAIN v7' : v1'[v7'[i].of] \in RecPast
    BY <1>1, <2>1, RecTyped DEF RecInv, RecOnce
  <2>3. \A c \in Requests : v5'[c] # None => v1'[v5'[c].of] \in RecPast
    BY <1>3, <2>1, RecTyped DEF RecInv, RecOnce
  <2>4. \A i, j \in DOMAIN v7' : v7'[i].of = v7'[j].of => i = j
    BY <1>1 DEF RecInv, RecOnce
  <2>5. \A c, d \in Requests :
           v5'[c] # None /\ v5'[d] # None /\ v5'[c].of = v5'[d].of => c = d
    BY <1>3 DEF RecInv, RecOnce
  <2>6. \A c \in Requests, i \in DOMAIN v7' :
           v5'[c] # None /\ v5'[c].of = v7'[i].of => v1'[c] = "flushed"
    BY <1>0, <1>1, <1>3 DEF RecInv, RecOnce
  <2> QED
    BY <2>2, <2>3, <2>4, <2>5, <2>6 DEF RecOnce
<1>6. RecPlaced'
  <2>1. \A a \in Accounts : v4'[a] # None
           => /\ v4'[a] = v4[a]
              /\ v4[a] \in Requests \ {q}
    BY <1>1 DEF RecInv, RecTypes
  <2>2. \A a \in Accounts : v4'[a] # None => RecLive(v4[a])'
    BY <1>0, <2>1 DEF RecInv, RecPlaced, RecLive
  <2> QED
    BY <1>0, <1>1, <2>2 DEF RecInv, RecPlaced, Records!requestVars
<1>7. RecApart'
  BY <1>1, <1>2, RecStaysApart DEF RecInv
<1>8. RecAllOwn'
  <2> SUFFICES ASSUME NEW r \in Requests, r \notin v8' PROVE RecOwn(r)'
    BY DEF RecAllOwn
  <2>1. r \notin v8 /\ RecOwn(r)
    BY <1>1 DEF RecInv, RecAllOwn, Records!requestVars
  <2>2. CASE r = q
    BY <1>0, <1>1, <2>1, <2>2 DEF RecOwn, RecLive, Records!requestVars, RecWhole
  <2>3. CASE r # q
    <3>1. \A a \in Accounts : v4'[a] = r <=> v4[a] = r
      BY <1>1, <2>3 DEF Records!UsageRecordsAssumption
    <3> QED
      BY <1>0, <1>1, <1>3, <2>1, <2>3, <3>1, RecOwnStays
  <2> QED
    BY <2>2, <2>3
<1> QED
  BY <1>4, <1>5, <1>6, <1>7, <1>8 DEF RecInv

LEMMA RecRestartKeeps ==
    ASSUME Records!UsageRecordsAssumption, RecInv, Records!Restart
    PROVE  RecInv'
<1>1. /\ v1' = [r \in Requests |-> IF v1[r] \in {"idle", "ended"} THEN v1[r] ELSE "lost"]
      /\ v4' = [a \in Accounts |-> None] /\ v5' = [r \in Requests |-> None]
      /\ UNCHANGED <<Records!requestVars, v6, v7>>
  BY DEF Records!Restart
<1>2. \A r \in Requests : ~RecLive(r)'
  BY <1>1 DEF RecLive
<1>3. RecTypes'
  BY <1>1 DEF RecInv, RecTypes, RecPlaces, Records!requestVars
<1>4. RecOnce'
  <2>1. \A r \in Requests : v1[r] \in RecPast => v1'[r] \in RecPast
    BY <1>1 DEF RecPast
  <2>2. \A i \in DOMAIN v7' : v1'[v7'[i].of] \in RecPast
    BY <1>1, <2>1, RecTyped DEF RecInv, RecOnce
  <2> QED
    BY <1>1, <2>2 DEF RecInv, RecOnce
<1>5. RecPlaced'
  BY <1>1 DEF RecInv, RecPlaced, Records!requestVars
<1>6. RecApart'
  BY <1>2 DEF RecApart
<1>7. RecAllOwn'
  BY <1>1, <1>2 DEF RecInv, RecAllOwn, RecOwn, Records!requestVars, RecWhole
<1> QED
  BY <1>3, <1>4, <1>5, <1>6, <1>7 DEF RecInv

LEMMA RecNextKeeps ==
    ASSUME Records!UsageRecordsAssumption, RecInv, [Records!Next]_Records!usageVars
    PROVE  RecInv'
<1>1. ASSUME NEW r \in Requests, NEW a \in Accounts, Records!Begin(r, a) \/ Records!Succeed(r, a)
      PROVE  RecInv'
  BY <1>1, RecBeginKeeps, RecSucceedKeeps
<1>2. ASSUME NEW r \in Requests,
             Records!Failed(r) \/ Records!Rebind(r) \/ Records!Record(r)
               \/ Records!Flush(r) \/ Records!Close(r)
      PROVE  RecInv'
  BY <1>2, RecFailedKeeps, RecRebindKeeps, RecRecordKeeps, RecFlushKeeps, RecCloseKeeps
<1>3. CASE Records!Clear \/ UNCHANGED Records!usageVars
  <2>1. UNCHANGED <<v1, Records!requestVars, v4, v5, v7>>
    BY <1>3 DEF Records!Clear, Records!usageVars, Records!requestVars
  <2> QED
    BY <2>1 DEF RecInv, RecTypes, RecOnce, RecPlaced, RecApart, RecAllOwn, RecOwn, RecLive,
                RecUses, RecWhole,
                Records!requestVars
<1>4. CASE Records!Restart
  BY <1>4, RecRestartKeeps
<1> QED
  BY <1>1, <1>2, <1>3, <1>4 DEF Records!Next

\* No request is counted twice, whatever contexts it meets, and one that had its
\* accounts to itself is counted, with its own body, once it was answered and has
\* ended (the usage records of handler_cybxai.go).
THEOREM UsageIsAccounted == Spec => []UsageAccounted
<1> DEFINE I == page = "records" => RecInv
<1>0. Records!UsageRecordsAssumption
  BY DashboardAssumption
<1>1. Init => I
  BY <1>0, RecInitInv DEF Init
<1>2. I /\ [Next]_vars => I'
  BY <1>0, RecNextKeeps DEF Next, PageStep, vars, Records!usageVars
<1>3. I => UsageAccounted
  BY DEF RecInv, RecOnce, RecAllOwn, RecOwn, RecWhole, Records!UsageAccounted, UsageAccounted
<1> QED
  BY <1>1, <1>2, <1>3, PTL DEF Spec

-----------------------------------------------------------------------------
(* The playground.                                                         *)

LEMMA PlayInit == ASSUME Play!Init PROVE Play!Inv
<1>1. /\ v3.content = 0 /\ v9.stage = "none" /\ v4 = 0 /\ v11 = 0 /\ v12 = 0
      /\ v2 = FALSE
  BY DEF Play!Init, Play!NoCall, Play!NoResult
<1>2. Play!Types
  BY DEF Play!Init, Play!Types, Play!NoCall, Play!NoResult
<1>3. Play!displayContent + v12 = v11
  BY <1>1 DEF Play!displayContent
<1> QED
  BY <1>1, <1>2, <1>3 DEF Play!Inv

LEMMA PlayFields ==
    ASSUME Play!Inv
    PROVE  /\ v11 \in Nat /\ v12 \in Nat /\ v4 \in Nat /\ v9.full \in Nat
           /\ v9.stage = "fetch" => /\ v3.content = 0 /\ v4 = 0 /\ v11 = 0 /\ v12 = 0
                                  /\ v9.full = 0
           /\ v9.stage = "read" => /\ v3.content = 0 /\ v4 = v9.full /\ v11 = v4 + v12
                                 /\ v1 # "json"
           /\ v1 = "json" => v12 = 0
<1>1. Play!Types /\ Play!displayContent + v12 = v11
  BY DEF Play!Inv
<1>2. v3.content = 0 => Play!displayContent = v4
  BY DEF Play!displayContent
<1> QED
  BY <1>1, <1>2 DEF Play!Inv, Play!Types

LEMMA PlaySame == ASSUME Play!Inv, UNCHANGED <<v1, v2, v3, v4, v9, v11, v12>> PROVE Play!Inv'
BY DEF Play!Inv, Play!Types, Play!displayContent

PlayCalls == [stage : {"none", "fetch", "read"}, aborted : BOOLEAN, refused : BOOLEAN, full : Nat]
PlayStatus == {"none", "ok", "refused", "cancelled", "failed"}

\* The request ends, and its result shows what was received or covers nothing.
LEMMA PlayEnds ==
    ASSUME Play!Inv, NEW status \in PlayStatus, NEW n \in Nat,
           Play!Ends(Play!Result(status, n)), UNCHANGED <<v1, v4, v12>>,
           v11' \in Nat, (n > 0 /\ v11' = n + v12) \/ (n = 0 /\ v11' = v4 + v12)
    PROVE  Play!Inv'
<1>1. PICK r : r = Play!Result(status, n)
  OBVIOUS
<1>2. r \in [status : PlayStatus, content : Nat] /\ r.content = n
  BY <1>1 DEF Play!Result
<1>3. v9' = Play!NoCall /\ v2' = FALSE /\ v3' = r
  BY <1>1 DEF Play!Ends
<1>4. Play!NoCall \in PlayCalls /\ Play!NoCall.stage = "none"
  BY DEF Play!NoCall, PlayCalls
<1>5. Play!Types'
  BY <1>2, <1>3, <1>4 DEF Play!Types, Play!Inv, PlayCalls, PlayStatus
<1>6. Play!displayContent' + v12' = v11'
  <2>1. v3'.content = n /\ v4' = v4
    BY <1>2, <1>3
  <2>2. CASE n > 0 /\ v11' = n + v12
    BY <2>1, <2>2 DEF Play!displayContent
  <2>3. CASE n = 0 /\ v11' = v4 + v12
    BY <2>1, <2>3 DEF Play!displayContent
  <2> QED
    BY <2>2, <2>3
<1> QED
  BY <1>3, <1>4, <1>5, <1>6 DEF Play!Inv

LEMMA PlayNext == ASSUME Play!Inv, Play!Next PROVE Play!Inv'
<1>1. CASE Play!handleRun
  <2>1. /\ v3' = Play!NoResult /\ v9' = [Play!NoCall EXCEPT !.stage = "fetch"]
        /\ v2' = TRUE /\ v4' = 0 /\ v11' = 0 /\ v12' = 0 /\ UNCHANGED v1
    BY <1>1 DEF Play!handleRun, Play!Discarded
  <2>2. v3'.content = 0 /\ v9'.stage = "fetch" /\ v9'.full = 0
    BY <2>1 DEF Play!NoCall, Play!NoResult
  <2>3. Play!Types'
    BY <2>1 DEF Play!Types, Play!NoCall, Play!NoResult
  <2>4. Play!displayContent' + v12' = v11'
    BY <2>1, <2>2 DEF Play!displayContent
  <2> QED
    BY <2>1, <2>2, <2>3, <2>4 DEF Play!Inv
<1>2. CASE Play!cancel
  BY <1>2 DEF Play!cancel, Play!arrived, Play!Inv, Play!Types, Play!displayContent
<1>3. CASE Play!Fetched
  <2>1. /\ v4 = 0 /\ v11 = 0 /\ v12 = 0 /\ v9.full = 0 /\ v3.content = 0
        /\ UNCHANGED <<v1, v4, v12>> /\ v9.stage = "fetch"
    BY <1>3, PlayFields DEF Play!Fetched
  <2>2. CASE Play!Ends(Play!Result("cancelled", 0)) /\ UNCHANGED v11
    BY <2>1, <2>2, PlayEnds DEF PlayStatus
  <2>3. CASE Play!Ends(Play!Result("failed", 0)) /\ UNCHANGED v11
    BY <2>1, <2>3, PlayEnds DEF PlayStatus
  <2>4. ASSUME NEW n \in Nat, NEW status \in {"ok", "refused"},
               Play!Ends(Play!Result(status, n)), v11' = n
        PROVE  Play!Inv'
    <3>1. (n > 0 /\ v11' = n + v12) \/ (n = 0 /\ v11' = v4 + v12)
      BY <2>1, <2>4
    <3>2. status \in PlayStatus
      BY DEF PlayStatus
    <3> QED
      BY <2>1, <2>4, <3>1, <3>2, PlayEnds
  <2>5. ASSUME NEW refused \in BOOLEAN, v1 = "sse",
               v9' = [v9 EXCEPT !.stage = "read", !.refused = refused],
               UNCHANGED <<v2, v3, v11>>
        PROVE  Play!Inv'
    <3>0. v9 \in PlayCalls
      BY DEF Play!Inv, Play!Types, PlayCalls
    <3>1. v9' \in PlayCalls /\ v9'.stage = "read" /\ v9'.full = v9.full
      BY <2>5, <3>0 DEF PlayCalls
    <3> QED
      BY <2>1, <2>5, <3>1 DEF Play!Inv, Play!Types, Play!displayContent, PlayCalls
  <2>6. 0 .. MaxPieces \subseteq Nat
    BY DashboardAssumption DEF Play!PlaygroundAssumption
  <2>7. ASSUME NEW n \in 0 .. MaxPieces, NEW status \in {"ok", "refused"},
               Play!Ends(Play!Result(status, n)), v11' = n
        PROVE  Play!Inv'
    BY <2>4, <2>6, <2>7
  <2> QED
    BY <1>3, <2>2, <2>3, <2>5, <2>7 DEF Play!Fetched
<1>4. CASE Play!Piece
  <2>1. PICK n \in Nat : n = v11 + 1
    BY PlayFields
  <2>2. /\ v9.stage = "read" /\ v4 = v9.full /\ v4 \in Nat /\ v12 \in Nat
        /\ v11 = v4 + v12 /\ v11' = n /\ v3.content = 0 /\ v1 # "json"
        /\ UNCHANGED <<v1, v2, v3>>
    BY <1>4, <2>1, PlayFields DEF Play!Piece
  <2>3. CASE v9' = [v9 EXCEPT !.full = @ + 1] /\ v4' = v9.full + 1 /\ UNCHANGED v12
    <3>1. PICK m \in Nat : m = v9.full + 1
      BY <2>2
    <3>2. v9' = [v9 EXCEPT !.full = m] /\ v4' = m
      BY <2>3, <3>1
    <3>0. v9 \in PlayCalls
      BY DEF Play!Inv, Play!Types, PlayCalls
    <3>3. v9' \in PlayCalls /\ v9'.stage = "read" /\ v9'.full = m
      BY <2>2, <3>0, <3>2 DEF PlayCalls
    <3>4. Play!Types'
      BY <2>1, <2>2, <2>3, <3>1, <3>2, <3>3 DEF Play!Inv, Play!Types, PlayCalls
    <3>5. Play!displayContent' = m
      BY <2>2, <3>2 DEF Play!displayContent
    <3>6. m + v12' = v11'
      BY <2>1, <2>2, <2>3, <3>1
    <3> QED
      BY <2>2, <2>3, <3>2, <3>3, <3>4, <3>5, <3>6 DEF Play!Inv
  <2>4. CASE v12' = v12 + 1 /\ UNCHANGED <<v9, v4>>
    <3>1. PICK k \in Nat : k = v12 + 1
      BY <2>2
    <3>2. Play!Types'
      BY <2>1, <2>2, <2>4, <3>1 DEF Play!Inv, Play!Types
    <3>3. Play!displayContent' = v4
      BY <2>2, <2>4 DEF Play!displayContent
    <3>4. v4 + v12' = v11'
      BY <2>1, <2>2, <2>4
    <3> QED
      BY <2>2, <2>4, <3>2, <3>3, <3>4 DEF Play!Inv
  <2> QED
    BY <1>4, <2>3, <2>4 DEF Play!Piece
<1>5. CASE Play!StreamEnds
  <2>1. /\ v9.full = v4 /\ v4 \in Nat /\ v11 = v4 + v12 /\ v11 \in Nat
        /\ UNCHANGED <<v1, v4, v11, v12>>
    BY <1>5, PlayFields DEF Play!StreamEnds, Play!arrived
  <2>2. ASSUME NEW status \in PlayStatus, Play!Ends(Play!Result(status, v9.full))
        PROVE  Play!Inv'
    <3>1. /\ v11' \in Nat
          /\ (v9.full > 0 /\ v11' = v9.full + v12) \/ (v9.full = 0 /\ v11' = v4 + v12)
      BY <2>1
    <3> QED
      BY <2>1, <2>2, <3>1, PlayEnds
  <2>3. CASE Play!Ends(Play!Result("failed", 0))
    <3>1. v11' \in Nat /\ v11' = v4 + v12
      BY <2>1
    <3> QED
      BY <2>1, <2>3, <3>1, PlayEnds DEF PlayStatus
  <2>4. PICK status : status = IF v9.refused THEN "refused" ELSE "ok"
    OBVIOUS
  <2>5. status \in PlayStatus
    BY <2>4 DEF PlayStatus
  <2> QED
    BY <1>5, <2>2, <2>3, <2>4, <2>5 DEF Play!StreamEnds
<1>6. CASE Play!Edit \/ Play!Scroll
  BY <1>6, PlaySame DEF Play!Edit, Play!Scroll, Play!arrived
<1> QED
  BY <1>1, <1>2, <1>3, <1>4, <1>5, <1>6 DEF Play!Next

\* Whatever was received of the newest request of a playground is shown, but for
\* what the reader of a stream passes over -- a refused request's body, events
\* without a piece of the answer, a line that is cut off -- and nothing of an
\* earlier one (useApiExecutor.ts), for any number of pieces.
THEOREM AnswersAreShown == Spec => []AnswerIsShown
<1> DEFINE I == page = "playground" => Play!Inv
<1>1. Init => I
  BY PlayInit DEF Init
<1>2. I /\ [Next]_vars => I'
  <2> SUFFICES ASSUME I, [Next]_vars, page' = "playground" PROVE Play!Inv'
    OBVIOUS
  <2>1. CASE Next
    BY <2>1, PlayNext DEF Next, PageStep
  <2>2. CASE UNCHANGED vars
    BY <2>2, PlaySame DEF vars
  <2> QED
    BY <2>1, <2>2
<1>3. I => AnswerIsShown
  BY DEF AnswerIsShown, Play!AnswerIsShown, Play!Inv
<1> QED
  BY <1>1, <1>2, <1>3, PTL DEF Spec

-----------------------------------------------------------------------------
(* The logs page and the first page: limit v3, activeRange v4, clearing    *)
(* v6, shown v8, lists v10, asked v11, last v12, straight v13.             *)

LEMMA UsageCards ==
    ASSUME NEW ss \in {{"records"}, {"chart"}, {"chart", "stats"}}
    PROVE  Usage!Cardinality(ss) \in Nat /\ Usage!Cardinality(ss) > 0
<1>1. Usage!Cardinality(ss) = Cardinality(ss)
  BY DEF Usage!Cardinality, Cardinality
<1>2. \A a : IsFiniteSet({a})
  BY FS_Singleton
<1>3. {"chart", "stats"} = {"chart"} \cup {"stats"}
  OBVIOUS
<1>4. IsFiniteSet({"chart"} \cup {"stats"})
  BY <1>2, FS_Union
<1>5. IsFiniteSet(ss) /\ ss # {}
  BY <1>2, <1>3, <1>4
<1>6. Cardinality(ss) \in Nat /\ Cardinality(ss) # 0
  BY <1>5, FS_CardinalityType, FS_EmptySet
<1> QED
  BY <1>1, <1>6

LEMMA UsageInit == ASSUME Usage!Init PROVE Usage!Inv
<1>1. PICK n : n = Usage!Cardinality(Usage!Mounted(v2))
  OBVIOUS
<1>2. n \in Nat /\ n > 0
  BY <1>1, UsageCards DEF Usage!Init, Usage!Mounted, Usage!Pages
<1>3. PICK qs : qs = Usage!Question(v3, v4)
  OBVIOUS
<1> DEFINE new(s) == [slot |-> s, q |-> qs[s], no |-> n, got |-> FALSE, seen |-> 0]
<1>4. /\ v2 \in Usage!Pages /\ v11 = n /\ v12 = [s \in Usage!Slots |-> 0]
      /\ v8 = [s \in Usage!Slots |-> [q |-> "nothing", seen |-> 0]]
      /\ v10 = {new(s) : s \in Usage!Mounted(v2)}
  BY <1>1, <1>3 DEF Usage!Init
<1>5. Usage!Mounted(v2) \subseteq Usage!Slots
  BY DEF Usage!Mounted, Usage!Slots
<1>6. \A s : /\ new(s).slot = s /\ new(s).q = qs[s] /\ new(s).no = n /\ new(s).got = FALSE
             /\ new(s).got \in BOOLEAN
             /\ new(s) = [slot |-> new(s).slot, q |-> new(s).q, no |-> new(s).no,
                          got |-> new(s).got, seen |-> new(s).seen]
  OBVIOUS
<1> HIDE DEF new
<1>7. Usage!Types
  <2>1. ASSUME NEW t \in v10
        PROVE  /\ t = [slot |-> t.slot, q |-> t.q, no |-> t.no, got |-> t.got,
                       seen |-> t.seen]
               /\ t.slot \in Usage!Slots /\ t.no \in Nat /\ t.no <= n /\ t.got \in BOOLEAN
    <3>1. PICK s \in Usage!Mounted(v2) : t = new(s)
      BY <1>4
    <3>2. t.slot = s /\ t.no = n /\ t.got \in BOOLEAN
      BY <1>6, <3>1
    <3>3. t = [slot |-> t.slot, q |-> t.q, no |-> t.no, got |-> t.got, seen |-> t.seen]
      BY <1>6, <3>1, Zenon
    <3>4. t.slot \in Usage!Slots /\ t.no \in Nat /\ t.no <= n /\ t.got \in BOOLEAN
      BY <1>2, <1>5, <3>2
    <3> QED
      BY <3>3, <3>4
  <2>2. v12 \in [Usage!Slots -> Nat] /\ \A s \in Usage!Slots : v12[s] <= n
    BY <1>2, <1>4
  <2>3. v8 = [s \in Usage!Slots |-> [q |-> v8[s].q, seen |-> v8[s].seen]]
    BY <1>4
  <2> QED
    BY <1>2, <1>4, <2>1, <2>2, <2>3 DEF Usage!Types
<1>8. ASSUME NEW s \in Usage!Mounted(v2) PROVE Usage!Answers(s)
  <2>1. PICK t : t = new(s)
    OBVIOUS
  <2>2. t \in v10 /\ t.slot = s /\ t.q = qs[s] /\ t.no = n /\ t.got = FALSE
    BY <1>4, <1>6, <2>1
  <2>3. \A u \in v10 : u.slot = s => u = t
    BY <1>4, <1>6, <2>1
  <2>4. v12[s] = 0
    BY <1>4, <1>5
  <2> QED
    BY <1>2, <1>3, <2>2, <2>3, <2>4 DEF Usage!Answers, Usage!Coming, Usage!Asks
<1> QED
  BY <1>7, <1>8 DEF Usage!Inv

\* What is asked is answered, if it is what the page asks.
LEMMA UsageAsked ==
    ASSUME Usage!Types, NEW ss \in {{"records"}, {"chart"}, {"chart", "stats"}}, NEW qs,
           Usage!Ask(ss, qs), UNCHANGED <<v8, v12>>, v2' \in Usage!Pages
    PROVE  /\ Usage!Types'
           /\ \A s \in ss : qs[s] = Usage!Asks(s)' => Usage!Answers(s)'
           /\ \A t : t.slot \notin ss => (t \in v10' <=> t \in v10)
<1>1. PICK k \in Nat : k > 0 /\ k = Usage!Cardinality(ss)
  BY UsageCards
<1>2. PICK n \in Nat : n = v11 + k /\ n > v11 /\ v11 \in Nat
  BY <1>1 DEF Usage!Types
<1>3. v11' = n
  BY <1>1, <1>2 DEF Usage!Ask
<1> DEFINE new(s) == [slot |-> s, q |-> qs[s], no |-> n, got |-> FALSE, seen |-> 0]
<1>4. v10' = v10 \cup {new(s) : s \in ss}
  BY <1>3 DEF Usage!Ask
<1>5. ss \subseteq Usage!Slots
  BY DEF Usage!Slots
<1>6. \A s : /\ new(s).slot = s /\ new(s).q = qs[s] /\ new(s).no = n /\ new(s).got = FALSE
             /\ new(s).got \in BOOLEAN
             /\ new(s) = [slot |-> new(s).slot, q |-> new(s).q, no |-> new(s).no,
                          got |-> new(s).got, seen |-> new(s).seen]
  OBVIOUS
<1> HIDE DEF new
<1>7. Usage!Types'
  <2>1. ASSUME NEW t \in v10'
        PROVE  /\ t = [slot |-> t.slot, q |-> t.q, no |-> t.no, got |-> t.got,
                       seen |-> t.seen]
               /\ t.slot \in Usage!Slots /\ t.no \in Nat /\ t.no <= n /\ t.got \in BOOLEAN
    <3>1. CASE t \in v10
      BY <1>2, <3>1 DEF Usage!Types
    <3>2. ASSUME NEW s \in ss, t = new(s)
          PROVE  /\ t = [slot |-> t.slot, q |-> t.q, no |-> t.no, got |-> t.got,
                         seen |-> t.seen]
                 /\ t.slot \in Usage!Slots /\ t.no \in Nat /\ t.no <= n
                 /\ t.got \in BOOLEAN
      <4>1. t.slot = s /\ t.no = n /\ t.got \in BOOLEAN
        BY <1>6, <3>2
      <4>2. t = [slot |-> t.slot, q |-> t.q, no |-> t.no, got |-> t.got, seen |-> t.seen]
        BY <1>6, <3>2, Zenon
      <4>3. t.slot \in Usage!Slots /\ t.no \in Nat /\ t.no <= n /\ t.got \in BOOLEAN
        BY <1>2, <1>5, <4>1
      <4> QED
        BY <4>2, <4>3
    <3> QED
      BY <1>4, <3>1, <3>2
  <2>2. \A s \in Usage!Slots : v12[s] <= n
    BY <1>2 DEF Usage!Types
  <2> QED
    BY <1>3, <2>1, <2>2 DEF Usage!Types
<1>8. ASSUME NEW s \in ss, qs[s] = Usage!Asks(s)' PROVE Usage!Answers(s)'
  <2>1. PICK t : t = new(s)
    OBVIOUS
  <2>2. t \in v10' /\ t.slot = s /\ t.q = qs[s] /\ t.no = n /\ t.got = FALSE
    BY <1>4, <1>6, <2>1
  <2>3. v12'[s] \in Nat /\ v12'[s] < n
    BY <1>2, <1>5 DEF Usage!Types
  <2>4. ASSUME NEW u \in v10', u.slot = s, u # t PROVE u.no < n
    BY <1>2, <1>4, <1>6, <2>1, <2>4 DEF Usage!Types
  <2>5. Usage!Coming(t)'
    BY <1>8, <2>2, <2>3, <2>4 DEF Usage!Coming
  <2> QED
    BY <2>2, <2>5 DEF Usage!Answers
<1>9. ASSUME NEW t, t.slot \notin ss PROVE t \in v10' <=> t \in v10
  BY <1>4, <1>6, <1>9
<1> QED
  BY <1>7, <1>8, <1>9

\* A slot that a step leaves alone.
LEMMA UsageKept ==
    ASSUME NEW s, Usage!Answers(s), v12'[s] = v12[s], v8'[s] = v8[s],
           Usage!Asks(s)' = Usage!Asks(s),
           \A n : Usage!Fresh(s, n) => Usage!Fresh(s, n)',
           \A t : t.slot = s => (t \in v10' <=> t \in v10)
    PROVE  Usage!Answers(s)'
<1>1. CASE Usage!Current(s)
  BY <1>1 DEF Usage!Answers, Usage!Current
<1>2. ASSUME NEW t \in v10, t.slot = s, Usage!Coming(t) PROVE Usage!Answers(s)'
  <2>1. t \in v10' /\ Usage!Coming(t)'
    BY <1>2 DEF Usage!Coming
  <2> QED
    BY <1>2, <2>1 DEF Usage!Answers
<1> QED
  BY <1>1, <1>2 DEF Usage!Answers

\* A step that asks for slots, and changes what the page asks of no other.
LEMMA UsageAsking ==
    ASSUME Usage!Inv, NEW ss \in {{"records"}, {"chart"}, {"chart", "stats"}}, NEW qs,
           Usage!Ask(ss, qs), UNCHANGED <<v1, v8, v12>>, v2' \in Usage!Pages,
           NEW kept, kept \subseteq Usage!Mounted(v2) \cap v13,
           Usage!Mounted(v2') \cap v13' \subseteq ss \cup kept,
           \A s \in ss \cap v13' : qs[s] = Usage!Asks(s)',
           \A s \in kept : Usage!Asks(s)' = Usage!Asks(s),
           "records" \in kept => v6' = v6
    PROVE  Usage!Inv'
<1>1. Usage!Types /\ \A s \in kept : Usage!Answers(s)
  BY DEF Usage!Inv
<1>2. /\ Usage!Types'
      /\ \A s \in ss : qs[s] = Usage!Asks(s)' => Usage!Answers(s)'
      /\ \A t : t.slot \notin ss => (t \in v10' <=> t \in v10)
  BY <1>1, UsageAsked
<1>3. ASSUME NEW s \in Usage!Mounted(v2') \cap v13' PROVE Usage!Answers(s)'
  <2>1. CASE s \in ss
    BY <1>2, <1>3, <2>1
  <2>2. CASE s \notin ss
    <3>1. s \in kept
      BY <1>3, <2>2
    <3>2. \A n : Usage!Fresh(s, n) => Usage!Fresh(s, n)'
      BY <3>1 DEF Usage!Fresh
    <3>3. \A t : t.slot = s => (t \in v10' <=> t \in v10)
      BY <1>2, <2>2
    <3> QED
      BY <1>1, <3>1, <3>2, <3>3, UsageKept
  <2> QED
    BY <2>1, <2>2
<1> QED
  BY <1>2, <1>3 DEF Usage!Inv

\* A step that asks for nothing, and shows nothing else.
LEMMA UsageIdle ==
    ASSUME Usage!Inv, UNCHANGED <<v2, v3, v4, v8, v10, v11, v12>>, v13' \subseteq v13,
           "records" \in v13' => (UNCHANGED <<v1, v6>> \/ v6' # "no")
    PROVE  Usage!Inv'
<1>1. Usage!Types'
  BY DEF Usage!Inv, Usage!Types
<1>2. ASSUME NEW s \in Usage!Mounted(v2') \cap v13' PROVE Usage!Answers(s)'
  <2>1. Usage!Answers(s)
    BY <1>2 DEF Usage!Inv
  <2>2. \A n : Usage!Fresh(s, n) => Usage!Fresh(s, n)'
    BY <1>2 DEF Usage!Fresh
  <2>3. Usage!Asks(s)' = Usage!Asks(s)
    BY DEF Usage!Asks
  <2> QED
    BY <2>1, <2>2, <2>3, UsageKept
<1> QED
  BY <1>1, <1>2 DEF Usage!Inv

LEMMA UsageRequest ==
    ASSUME Usage!Inv, NEW t \in v10
    PROVE  /\ t = [slot |-> t.slot, q |-> t.q, no |-> t.no, got |-> t.got, seen |-> t.seen]
           /\ t.slot \in Usage!Slots /\ t.no \in Nat /\ t.no <= v11 /\ v11 \in Nat
           /\ v12 \in [Usage!Slots -> Nat]
BY DEF Usage!Inv, Usage!Types

\* The server answers a request: it stays the newest, or it does not count.
LEMMA UsageServed == ASSUME Usage!Inv, NEW t, Usage!Serve(t) PROVE Usage!Inv'
<1>1. /\ t \in v10 /\ UNCHANGED <<v1, v2, v3, v4, v6, v8, v11, v12, v13>>
      /\ v10' = (v10 \ {t}) \cup {[t EXCEPT !.got = TRUE, !.seen = v1]}
  BY DEF Usage!Serve, Usage!server, Usage!choices, Usage!answers
<1>2. PICK u : u = [slot |-> t.slot, q |-> t.q, no |-> t.no, got |-> TRUE, seen |-> v1]
  OBVIOUS
<1>3. v10' = (v10 \ {t}) \cup {u}
  <2>1. PICK a, b, c, d, e :
           t = [slot |-> a, q |-> b, no |-> c, got |-> d, seen |-> e]
    BY <1>1, UsageRequest
  <2>2. PICK new : new = [t EXCEPT !.got = TRUE, !.seen = v1]
    OBVIOUS
  <2>3. new = [slot |-> a, q |-> b, no |-> c, got |-> TRUE, seen |-> v1]
    BY <2>1, <2>2
  <2>4. t.slot = a /\ t.q = b /\ t.no = c
    BY <2>1
  <2>5. new = u
    BY <1>2, <2>3, <2>4
  <2> QED
    BY <1>1, <2>2, <2>5
<1>4. /\ u = [slot |-> u.slot, q |-> u.q, no |-> u.no, got |-> u.got, seen |-> u.seen]
      /\ u.slot = t.slot /\ u.q = t.q /\ u.no = t.no /\ u.got \in BOOLEAN /\ u.seen = v1
  BY <1>2
<1>5. Usage!Types'
  BY <1>1, <1>3, <1>4 DEF Usage!Inv, Usage!Types
<1>6. ASSUME NEW s \in Usage!Mounted(v2) \cap v13 PROVE Usage!Answers(s)'
  <2>1. Usage!Asks(s)' = Usage!Asks(s) /\ \A n : Usage!Fresh(s, n)' = Usage!Fresh(s, n)
    BY <1>1 DEF Usage!Asks, Usage!Fresh
  <2>2. CASE Usage!Current(s)
    <3>1. \A w \in v10' : w.slot = s => w.no <= v12[s]
      BY <1>1, <1>3, <1>4, <2>2 DEF Usage!Current
    <3> QED
      BY <1>1, <2>1, <2>2, <3>1 DEF Usage!Answers, Usage!Current
  <2>3. ASSUME NEW w \in v10, w.slot = s, Usage!Coming(w), w # t PROVE Usage!Answers(s)'
    <3>1. \A x \in v10' : x.slot = s /\ x # w => x.no < w.no
      BY <1>1, <1>3, <1>4, <2>3 DEF Usage!Coming
    <3>2. w \in v10' /\ Usage!Coming(w)'
      BY <1>1, <1>3, <2>1, <2>3, <3>1 DEF Usage!Coming
    <3> QED
      BY <2>3, <3>2 DEF Usage!Answers
  <2>4. ASSUME t.slot = s, Usage!Coming(t) PROVE Usage!Answers(s)'
    <3>1. \A x \in v10' : x.slot = s /\ x # u => x.no < u.no
      BY <1>1, <1>3, <1>4, <2>4 DEF Usage!Coming
    <3>2. Usage!Fresh(s, u.seen)'
      BY <1>1, <1>4 DEF Usage!Fresh
    <3>3. u \in v10' /\ Usage!Coming(u)'
      BY <1>1, <1>3, <1>4, <2>1, <2>4, <3>1, <3>2 DEF Usage!Coming
    <3> QED
      BY <1>4, <2>4, <3>3 DEF Usage!Answers
  <2>5. Usage!Answers(s)
    BY <1>6 DEF Usage!Inv
  <2> QED
    BY <2>2, <2>3, <2>4, <2>5 DEF Usage!Answers
<1> QED
  BY <1>1, <1>5, <1>6 DEF Usage!Inv

\* An answer is delivered: it is the newest, or the newest is still to come.
LEMMA UsageDelivered == ASSUME Usage!Inv, NEW t, Usage!Deliver(t) PROVE Usage!Inv'
<1>1. /\ t \in v10 /\ t.got /\ v10' = v10 \ {t}
      /\ UNCHANGED <<v1, v2, v3, v4, v6, v11>>
      /\ v8' = [v8 EXCEPT ![t.slot] = [q |-> t.q, seen |-> t.seen]]
      /\ v12' = [v12 EXCEPT ![t.slot] = IF t.no > @ THEN t.no ELSE @]
      /\ v13' = IF t.no > v12[t.slot] THEN v13 ELSE v13 \ {t.slot}
  BY DEF Usage!Deliver, Usage!server, Usage!choices
<1>2. /\ t.slot \in Usage!Slots /\ t.no \in Nat /\ t.no <= v11 /\ v11 \in Nat
      /\ v12 \in [Usage!Slots -> Nat] /\ DOMAIN v8 = Usage!Slots
  BY <1>1, UsageRequest DEF Usage!Inv, Usage!Types
<1>3. \A s \in Usage!Slots : s # t.slot => v12'[s] = v12[s] /\ v8'[s] = v8[s]
  BY <1>1, <1>2
<1>4. Usage!Types'
  <2>1. v12' \in [Usage!Slots -> Nat] /\ \A s \in Usage!Slots : v12'[s] <= v11
    BY <1>1, <1>2 DEF Usage!Inv, Usage!Types
  <2>2. v8' = [s \in Usage!Slots |-> [q |-> v8'[s].q, seen |-> v8'[s].seen]]
    BY <1>1, <1>2 DEF Usage!Inv, Usage!Types
  <2> QED
    BY <1>1, <2>1, <2>2 DEF Usage!Inv, Usage!Types
<1>5. ASSUME NEW s \in Usage!Mounted(v2) \cap v13' PROVE Usage!Answers(s)'
  <2>1. Usage!Asks(s)' = Usage!Asks(s) /\ \A n : Usage!Fresh(s, n)' = Usage!Fresh(s, n)
    BY <1>1 DEF Usage!Asks, Usage!Fresh
  <2>2. s \in Usage!Slots /\ s \in v13 /\ Usage!Answers(s)
    BY <1>1, <1>5 DEF Usage!Inv, Usage!Mounted, Usage!Slots
  <2>3. CASE s # t.slot
    <3>1. \A w : w.slot = s => (w \in v10' <=> w \in v10)
      BY <1>1, <2>3
    <3> QED
      BY <1>3, <2>1, <2>2, <2>3, <3>1, UsageKept
  <2>4. CASE s = t.slot
    <3>1. t.no > v12[s] /\ ~Usage!Current(s)
      BY <1>1, <1>2, <1>5, <2>4 DEF Usage!Current
    <3>2. v12'[s] = t.no /\ v8'[s].q = t.q /\ v8'[s].seen = t.seen
      BY <1>1, <1>2, <2>4, <3>1
    <3>3. PICK w \in v10 : w.slot = s /\ Usage!Coming(w)
      BY <2>2, <3>1 DEF Usage!Answers
    <3>4. CASE w = t
      <4>1. \A x \in v10' : x.slot = s => x.no <= v12'[s]
        <5>1. ASSUME NEW x \in v10', x.slot = s PROVE x.no <= v12'[s]
          <6>1. x \in v10 /\ x.no \in Nat /\ x.no < t.no
            BY <1>1, <2>4, <3>3, <3>4, <5>1, UsageRequest DEF Usage!Coming
          <6> QED
            BY <1>2, <3>2, <6>1
        <5> QED
          BY <5>1
      <4>2. t.q = Usage!Asks(s) /\ Usage!Fresh(s, t.seen)
        BY <1>1, <2>4, <3>3, <3>4 DEF Usage!Coming
      <4> QED
        BY <2>1, <3>2, <4>1, <4>2 DEF Usage!Answers, Usage!Current
    <3>5. CASE w # t
      <4>1. t.no < w.no
        BY <1>1, <2>4, <3>3, <3>5 DEF Usage!Coming
      <4>2. w \in v10' /\ Usage!Coming(w)'
        BY <1>1, <2>1, <3>2, <3>3, <3>5, <4>1 DEF Usage!Coming
      <4> QED
        BY <3>3, <4>2 DEF Usage!Answers
    <3> QED
      BY <3>4, <3>5
  <2> QED
    BY <2>3, <2>4
<1> QED
  BY <1>1, <1>4, <1>5 DEF Usage!Inv

\* A request fails: nothing is said of its slot until the page is asked anew.
LEMMA UsageFailed == ASSUME Usage!Inv, NEW t, Usage!Fail(t) PROVE Usage!Inv'
<1>1. /\ t \in v10 /\ v10' = v10 \ {t} /\ v13' = v13 \ {t.slot}
      /\ UNCHANGED <<v1, v2, v3, v4, v6, v8, v11, v12>>
  BY DEF Usage!Fail, Usage!server, Usage!choices
<1>2. Usage!Types'
  BY <1>1 DEF Usage!Inv, Usage!Types
<1>3. ASSUME NEW s \in Usage!Mounted(v2) \cap v13' PROVE Usage!Answers(s)'
  <2>1. Usage!Asks(s)' = Usage!Asks(s) /\ \A n : Usage!Fresh(s, n) => Usage!Fresh(s, n)'
    BY <1>1 DEF Usage!Asks, Usage!Fresh
  <2>2. \A w : w.slot = s => (w \in v10' <=> w \in v10)
    BY <1>1, <1>3
  <2>3. Usage!Answers(s)
    BY <1>1, <1>3 DEF Usage!Inv
  <2> QED
    BY <1>1, <2>1, <2>2, <2>3, UsageKept
<1> QED
  BY <1>1, <1>2, <1>3 DEF Usage!Inv

\* A page asks for everything it shows.
LEMMA UsageAskingAll ==
    ASSUME Usage!Inv, NEW ss \in {{"records"}, {"chart"}, {"chart", "stats"}}, NEW qs,
           Usage!Ask(ss, qs), UNCHANGED <<v1, v8, v12>>, v2' \in Usage!Pages,
           Usage!Mounted(v2') = ss, qs = Usage!Question(v3', v4')
    PROVE  Usage!Inv'
<1>1. PICK kept : kept = {}
  OBVIOUS
<1>2. /\ kept \subseteq Usage!Mounted(v2) \cap v13
      /\ Usage!Mounted(v2') \cap v13' \subseteq ss \cup kept
      /\ \A s \in kept : Usage!Asks(s)' = Usage!Asks(s)
      /\ "records" \in kept => v6' = v6
  BY <1>1
<1>3. \A s \in ss \cap v13' : qs[s] = Usage!Asks(s)'
  BY DEF Usage!Asks
<1> QED
  BY <1>2, <1>3, UsageAsking

LEMMA UsageNext == ASSUME Usage!Inv, Usage!Next PROVE Usage!Inv'
<1>1. v2 \in Usage!Pages
  BY DEF Usage!Inv, Usage!Types
<1>2. /\ Usage!Mounted("logs") = {"records"}
      /\ Usage!Mounted("dashboard") = {"chart", "stats"}
      /\ \A p \in Usage!Pages : Usage!Mounted(p) \in {{"records"}, {"chart", "stats"}}
  BY DEF Usage!Mounted, Usage!Pages
<1>3. ASSUME NEW p \in Usage!Pages, Usage!Visit(p) PROVE Usage!Inv'
  <2>1. PICK qs : qs = Usage!Question(StartLimit, StartRange)
    OBVIOUS
  <2>2. /\ Usage!Ask(Usage!Mounted(p), qs) /\ v2' = p
        /\ qs = Usage!Question(v3', v4') /\ UNCHANGED <<v1, v8, v12>>
    BY <1>3, <2>1 DEF Usage!Visit, Usage!server, Usage!answers
  <2> QED
    BY <1>2, <2>2, UsageAskingAll
<1>4. ASSUME NEW l \in Limits, Usage!SetLimit(l) PROVE Usage!Inv'
  <2>1. PICK qs : qs = Usage!Question(l, v4)
    OBVIOUS
  <2>2. /\ v2 = "logs" /\ v2' = v2 /\ Usage!Ask({"records"}, qs)
        /\ qs = Usage!Question(v3', v4') /\ UNCHANGED <<v1, v8, v12>>
    BY <1>4, <2>1 DEF Usage!SetLimit, Usage!server, Usage!answers
  <2> QED
    BY <1>1, <1>2, <2>2, UsageAskingAll
<1>5. CASE Usage!HandleRefresh
  <2>1. PICK qs : qs = Usage!Question(v3, v4)
    OBVIOUS
  <2>2. /\ v2 = "logs" /\ v2' = v2 /\ Usage!Ask({"records"}, qs)
        /\ qs = Usage!Question(v3', v4') /\ UNCHANGED <<v1, v8, v12>>
    BY <1>5, <2>1 DEF Usage!HandleRefresh, Usage!server, Usage!answers, Usage!choices
  <2> QED
    BY <1>1, <1>2, <2>2, UsageAskingAll
<1>6. CASE Usage!Tick
  <2>1. PICK qs : qs = Usage!Question(v3, v4)
    OBVIOUS
  <2>2. /\ v2' = v2 /\ Usage!Ask(Usage!Mounted(v2), qs)
        /\ qs = Usage!Question(v3', v4') /\ UNCHANGED <<v1, v8, v12>>
    BY <1>6, <2>1 DEF Usage!Tick, Usage!server, Usage!answers, Usage!choices
  <2> QED
    BY <1>1, <1>2, <2>2, UsageAskingAll
<1>7. ASSUME NEW r \in Ranges, Usage!HandleRangeChange(r) PROVE Usage!Inv'
  <2>1. PICK qs : qs = Usage!Question(v3, r)
    OBVIOUS
  <2>2. /\ v2 = "dashboard" /\ v2' = v2 /\ v3' = v3 /\ v4' = r
        /\ Usage!Ask(IF r = v4 THEN {"chart"} ELSE Usage!Mounted("dashboard"), qs)
        /\ qs = Usage!Question(v3', v4') /\ UNCHANGED <<v1, v6, v8, v12, v13>>
    BY <1>7, <2>1 DEF Usage!HandleRangeChange, Usage!server,
                      Usage!answers
  <2>3. CASE r # v4
    BY <1>1, <1>2, <2>2, <2>3, UsageAskingAll
  <2>4. CASE r = v4
    <3>1. Usage!Ask({"chart"}, qs)
      BY <2>2, <2>4
    <3>2. \A s : Usage!Asks(s)' = Usage!Asks(s) /\ qs[s] = Usage!Asks(s)'
      BY <2>2, <2>4 DEF Usage!Asks
    <3>3. PICK kept : kept = {"stats"} \cap v13
      OBVIOUS
    <3>4. /\ kept \subseteq Usage!Mounted(v2) \cap v13
          /\ Usage!Mounted(v2') \cap v13' \subseteq {"chart"} \cup kept
          /\ "records" \notin kept
      BY <1>2, <2>2, <3>3
    <3> QED
      BY <1>1, <2>2, <3>1, <3>2, <3>4, UsageAsking
  <2> QED
    BY <2>3, <2>4
<1>8. CASE Usage!AfterClear
  <2>1. PICK qs : qs = Usage!Question(v7, v4)
    OBVIOUS
  <2>2. /\ Usage!Ask({"records"}, qs) /\ UNCHANGED <<v1, v2, v3, v4, v7, v8, v12>>
        /\ v13' = IF v7 = v3 THEN v13 ELSE v13 \ {"records"}
    BY <1>8, <2>1 DEF Usage!AfterClear, Usage!choices
  <2>3. \A s : Usage!Asks(s)' = Usage!Asks(s)
    BY <2>2 DEF Usage!Asks
  <2>4. \A s \in {"records"} \cap v13' : qs[s] = Usage!Asks(s)'
    BY <2>1, <2>2 DEF Usage!Asks, Usage!Question
  <2>5. PICK kept : kept = (Usage!Mounted(v2) \cap v13) \ {"records"}
    OBVIOUS
  <2>6. /\ kept \subseteq Usage!Mounted(v2) \cap v13 /\ "records" \notin kept
        /\ Usage!Mounted(v2') \cap v13' \subseteq {"records"} \cup kept
    BY <2>2, <2>5
  <2> QED
    BY <1>1, <2>2, <2>3, <2>4, <2>6, UsageAsking
<1>9. CASE Usage!ToggleAutoRefresh
  BY <1>9, UsageIdle DEF Usage!ToggleAutoRefresh, Usage!server, Usage!answers
<1>10. CASE Usage!HandleClearAll
  BY <1>10, UsageIdle DEF Usage!HandleClearAll, Usage!choices, Usage!answers
<1>11. CASE Usage!Cleared
  BY <1>11, UsageIdle DEF Usage!Cleared, Usage!choices, Usage!answers
<1>12. CASE Usage!ClearFailed
  BY <1>12, UsageIdle DEF Usage!ClearFailed, Usage!choices
<1> QED
  BY <1>3, <1>4, <1>5, <1>6, <1>7, <1>8, <1>9, <1>10, <1>11, <1>12, UsageServed,
     UsageDelivered, UsageFailed DEF Usage!Next

LEMMA UsageShown == ASSUME Usage!Inv PROVE Usage!ShownIsSelected
<1>1. ASSUME NEW s \in Usage!Mounted(v2) \cap v13, \A t \in v10 : t.slot # s
      PROVE  /\ v8[s].q = Usage!Question(v3, v4)[s]
             /\ s = "records" /\ v6 = "no" => v8[s].seen = v1
  BY <1>1 DEF Usage!Inv, Usage!Answers, Usage!Current, Usage!Asks, Usage!Fresh
<1>2. v8["records"] = [q |-> v8["records"].q, seen |-> v8["records"].seen]
  BY DEF Usage!Inv, Usage!Types, Usage!Slots
<1>3. /\ Usage!Mounted("logs") = {"records"}
      /\ Usage!Mounted("dashboard") = {"chart", "stats"}
      /\ Usage!Question(v3, v4)["records"] = v3 /\ Usage!Question(v3, v4)["chart"] = v4
      /\ Usage!Question(v3, v4)["stats"] = "all"
  BY DEF Usage!Mounted, Usage!Question
<1>4. ASSUME v2 = "logs", "records" \in v13, \A t \in v10 : t.slot # "records", v6 = "no"
      PROVE  v8["records"] = [q |-> v3, seen |-> v1]
  BY <1>1, <1>2, <1>3, <1>4
<1>5. ASSUME v2 = "dashboard", "chart" \in v13, \A t \in v10 : t.slot # "chart"
      PROVE  v8["chart"].q = v4
  BY <1>1, <1>3, <1>5
<1>6. ASSUME v2 = "dashboard", "stats" \in v13, \A t \in v10 : t.slot # "stats"
      PROVE  v8["stats"].q = "all"
  BY <1>1, <1>3, <1>6
<1> QED
  BY <1>4, <1>5, <1>6 DEF Usage!ShownIsSelected, Usage!LogsTable, Usage!UsageChart,
                          Usage!StatCards

\* A slot of the logs page or the first page that nothing is under way for, and
\* whose answers came and came in order, shows the limit or range selected and no
\* record that was cleared (stores/usage.ts, stores/dashboard.ts).
THEOREM SelectionIsShown == Spec => []ShownIsSelected
<1> DEFINE I == page = "usage" => Usage!Inv
<1>1. Init => I
  BY UsageInit DEF Init
<1>2. I /\ [Next]_vars => I'
  <2> SUFFICES ASSUME I, [Next]_vars, page' = "usage" PROVE Usage!Inv'
    OBVIOUS
  <2>1. CASE Next
    BY <2>1, UsageNext DEF Next, PageStep
  <2>2. CASE UNCHANGED vars
    BY <2>2, UsageIdle DEF vars
  <2> QED
    BY <2>1, <2>2
<1>3. I => ShownIsSelected
  BY UsageShown DEF ShownIsSelected
<1> QED
  BY <1>1, <1>2, <1>3, PTL DEF Spec

-----------------------------------------------------------------------------
\* What the settings pages show once nothing is under way, nothing has failed (a write
\* answered as done included) and no answer was overtaken is what the server has, but for
\* a tunnel that has started or stopped by itself since (monitorTunnelExit); the pages of
\* the tunnel and of round robin have one command under way at most, which holds the flag
\* (stores/keys.ts, stores/auth.ts, stores/tunnel.ts, stores/models.ts), in whatever order
\* writes, reads, their answers and openings of the page come.
THEOREM SettingsAreShown == Spec => []SettingsAgree
<1> DEFINE I == page = "settings" => Settings!Inv
<1>1. Init => I
  BY SettingsInit DEF Init
<1>2. I /\ [Next]_vars => I'
  <2> SUFFICES ASSUME I, [Next]_vars, page' = "settings"
               PROVE  Settings!Inv'
    OBVIOUS
  <2>1. CASE Next
    BY <2>1, SettingsNext DEF Next, PageStep
  <2>2. CASE UNCHANGED vars
    <3>1. UNCHANGED <<v1, v2, v3, v4, v6, v7, v9, v10, v11>> /\ page = "settings"
      BY <2>2 DEF vars
    <3> QED
      BY <3>1, SettingsSame
  <2> QED
    BY <2>1, <2>2
<1>3. I => SettingsAgree
  BY SettingsShows DEF SettingsAgree
<1> QED
  BY <1>1, <1>2, <1>3, PTL DEF Spec

-----------------------------------------------------------------------------
\* What the pool and the scraper of proxies promise (proxy/proxypool.go,
\* proxy/proxyscraper.go) and what their pages show of it: a URL is in the pool
\* once, dead after as many failures as it takes and marked as being checked
\* only while it is, whatever adds, checks and crashes overlap, and the rows
\* agree with the pool when nothing is under way; a job of the scraper is run
\* by one goroutine, and never tests more proxies than it has.
THEOREM ProxiesAreSound == Spec => []ProxiesSound
<1> DEFINE I == (page = "proxy" => Proxy!Inv) /\ (page = "scraper" => Scraper!Inv)
<1>1. Init => I
  BY ProxyInit, ScraperInit DEF Init
<1>2. I /\ [Next]_vars => I'
  <2> SUFFICES ASSUME I, [Next]_vars
               PROVE  /\ page' = "proxy" => Proxy!Inv'
                      /\ page' = "scraper" => Scraper!Inv'
    OBVIOUS
  <2>1. CASE Next
    BY <2>1, ProxyNext, ScraperNext DEF Next, PageStep
  <2>2. CASE UNCHANGED vars
    <3>1. UNCHANGED <<page, v1, v2, v3, v4, v5, v9, v11, v13>>
      BY <2>2 DEF vars
    <3>2. Scraper!Inv => ScraperJob(v5') /\ \A c \in v9' : ScraperCall(c)
      BY <3>1, ScraperJobs
    <3> QED
      BY <3>1, <3>2, ProxySame, ScraperSame
  <2> QED
    BY <2>1, <2>2
<1>3. I => ProxiesSound
  BY ProxyShown, ScraperShown DEF ProxiesSound
<1> QED
  BY <1>1, <1>2, <1>3, PTL DEF Spec

-----------------------------------------------------------------------------
\* What the login pages show of a login at AWS (LoginPage): one is shown as
\* completed only after its own account was added; one that waits for the user
\* is polled for; and the list of connections is that of the server once nothing
\* is under way, in whatever order polls, completions, cancelled and new logins
\* and their answers come.
THEOREM LoginsAreSound == Spec => []LoginSound
<1> DEFINE I == page = "login" => Login!Inv
<1>1. Init => I
  BY LoginInit DEF Init
<1>2. I /\ [Next]_vars => I'
  <2> SUFFICES ASSUME I, [Next]_vars, page' = "login"
               PROVE  Login!Inv'
    OBVIOUS
  <2>1. CASE Next
    BY <2>1, LoginNext DEF Next, PageStep
  <2>2. CASE UNCHANGED vars
    <3>1. UNCHANGED <<v1, v4, v5, v7, v12, v13, v14, v16, v17>> /\ page = "login"
      BY <2>2 DEF vars
    <3> QED
      BY <3>1, LoginSame
  <2> QED
    BY <2>1, <2>2
<1>3. I => LoginSound
  BY LoginShows DEF LoginSound
<1> QED
  BY <1>1, <1>2, <1>3, PTL DEF Spec

-----------------------------------------------------------------------------
\* What the page of the tool integrations shows (integration/page.tsx,
\* stores/integrations.ts): the configuration offered for copying is that of the
\* tool and the model chosen, a card offers and sends only models that there are,
\* and one tool is bound at a time, in whatever order openings of the page,
\* choices, changes of the catalog, answers and failures come.
THEOREM IntegrationsAreSound == Spec => []IntegrationSound
<1> DEFINE I == page = "integration" => Integration!Inv
<1>1. Init => I
  BY IntegrationInit DEF Init
<1>2. I /\ [Next]_vars => I'
  <2> SUFFICES ASSUME I, [Next]_vars, page' = "integration"
               PROVE  Integration!Inv'
    OBVIOUS
  <2>1. CASE Next
    BY <2>1, IntegrationNext DEF Next, PageStep
  <2>2. CASE UNCHANGED vars
    <3>1. UNCHANGED <<v3, v7, v8, v9, v10, v11>> /\ page = "integration"
      BY <2>2 DEF vars
    <3> QED
      BY <3>1, IntegrationSame
  <2> QED
    BY <2>1, <2>2
<1>3. I => IntegrationSound
  BY IntegrationShows DEF IntegrationSound
<1> QED
  BY <1>1, <1>2, <1>3, PTL DEF Spec
=============================================================================
