------------------------------- MODULE ChatPage -------------------------------
(***************************************************************************)
(* The chat page of the dashboard: the sessions that stores/chat.ts keeps  *)
(* in the browser's local storage, the messages on screen, and the         *)
(* streamed replies of components/chat/ChatArea.tsx.  What a handler does  *)
(* between two answers of the network is one step.  A reply belongs to the *)
(* mount of ChatArea that asked for it: the abort controller and the text  *)
(* received so far are refs of that mount, so a reply that outlives its    *)
(* mount (a visit to another page, a locked chat) cannot be stopped from   *)
(* the next one.                                                           *)
(*                                                                         *)
(* The text of a reply is the sequence of the numbers of the exchanges its *)
(* chunks came from, with 0 for a warning that the page writes itself.  A  *)
(* title is "New Chat" or any other one.                                   *)
(*                                                                         *)
(* The browser may refuse a write to local storage, which has a quota that *)
(* a few images exceed.  writeSessions ignores it: the store goes on with  *)
(* the sessions as they should be, until the next operation reads those    *)
(* that are stored.                                                        *)
(***************************************************************************)
EXTENDS Naturals, Sequences, SequencesExt

CONSTANTS Sessions, None,   \* session ids, and null
          MaxExchanges,     \* bound on messages sent
          MaxMounts,        \* bound on mounts of ChatArea with a reply under way
          MaxChunks,        \* bound on the chunks of a reply
          MaxFiles,         \* bound on images attached to a message
          MaxFailures       \* bound on steps in which a write fails

\* What the values of the constants have to be.
ChatAssumption ==
    /\ None \notin Sessions
    /\ MaxExchanges \in Nat /\ MaxMounts \in Nat
    /\ MaxChunks \in Nat /\ MaxFiles \in Nat /\ MaxFailures \in Nat

VARIABLES stored,        \* the sessions in local storage
          recent,        \* their ids, the last updated first
          sessions,      \* the list of the sidebar: the title of each session
          used,          \* ids given out so far
          activeSessionId, activeMessages, isGenerating,
          streaming,     \* _streamMsgId and _streamContent, <<>> for null
          gate,          \* what ChatAuthGate shows
          hasKey,        \* a key is in local storage
          mount,         \* number of the current mount of ChatArea, 0 for none
          abortRef, fullContentRef,   \* the refs of each mount
          streams,       \* sendMessage calls under way
          titling,       \* title requests under way, by session and exchange
          asked,         \* title requests made for each session
          untitled,      \* sessions whose first title was not stored, or "New Chat"
          unsaved,       \* something on screen was not stored
          failed,        \* steps in which a write to local storage failed
          sent,          \* exchanges so far
          attached       \* images of the composer

chatVars == <<stored, recent, used, activeSessionId, activeMessages, isGenerating,
              streaming, gate, hasKey, mount, abortRef, fullContentRef, streams,
              titling, asked, sent, attached, sessions, untitled, unsaved, failed>>

Exchanges == 1..MaxExchanges
Mounts == 1..MaxMounts
Titles == {"New Chat", "another"}
Open == gate = "open"

UserMessage(n) == [role |-> "user", of |-> n, text |-> <<n>>]
Reply(n) == [role |-> "assistant", of |-> n, text |-> <<>>]

\* The messages of the session, if it is stored.
Saved(id) == IF id \in DOMAIN stored THEN stored[id].messages ELSE <<>>

First(r) == IF r = <<>> THEN None ELSE Head(r)

\* The list of the sidebar; summarize sorts it by updatedAt.
summarize(copy) == [s \in DOMAIN copy |-> copy[s].title]
Touched(id) == <<id>> \o SelectSeq(recent, LAMBDA s : s # id)

\* The reply to exchange n takes the text c.
WithText(msgs, n, c) ==
    [i \in DOMAIN msgs |-> IF msgs[i].role = "assistant" /\ msgs[i].of = n
                           THEN [msgs[i] EXCEPT !.text = c] ELSE msgs[i]]

\* The writes of a step succeed, or one of them fails.
Stores(ok) == IF ok THEN UNCHANGED failed ELSE failed < MaxFailures /\ failed' = failed + 1

\* writeSessions, of the sessions as an operation has changed them and the order
\* they then have, which fails in silence; the list shows them in either case.
writeSessions(copy, order, ok) ==
    /\ stored' = IF ok THEN copy ELSE stored
    /\ recent' = IF ok THEN order ELSE recent
    /\ sessions' = summarize(copy)
    /\ Stores(ok)

Init == /\ stored = <<>> /\ recent = <<>> /\ sessions = <<>> /\ used = {}
        /\ activeSessionId = None /\ activeMessages = <<>> /\ isGenerating = FALSE
        /\ streaming = <<>> /\ gate = "away" /\ hasKey = FALSE /\ mount = 0
        /\ abortRef = [k \in Mounts |-> 0]
        /\ fullContentRef = [k \in Mounts |-> <<>>]
        /\ streams = {} /\ titling = {} /\ asked = [s \in Sessions |-> 0]
        /\ untitled = {} /\ unsaved = FALSE /\ failed = 0
        /\ sent = 0 /\ attached = {}

-----------------------------------------------------------------------------
(* The page, its gate and its URL.                                         *)

kept == <<stored, recent, used, asked, untitled, failed, sent>>
store == <<kept, sessions>>
live == <<streaming, abortRef, fullContentRef, streams, isGenerating, titling>>
view == <<activeSessionId, activeMessages, unsaved>>

\* Mutant of SetActive: another session keeps the messages of the last one.
SetActive_KeepsView(id) ==
    /\ activeSessionId' = id
    /\ activeMessages' = IF id = None THEN <<>> ELSE activeMessages
    /\ unsaved' = FALSE

\* setActiveSession: an id that is not stored leaves the messages as they are.
SetActive(id) ==
    /\ activeSessionId' = id
    /\ activeMessages' = IF id = None THEN <<>>
                         ELSE IF id \in DOMAIN stored THEN stored[id].messages
                         ELSE activeMessages
    /\ unsaved' = FALSE

\* The page opens with the id in its URL, if there is one.
Visit(id) ==
    /\ gate = "away"
    /\ gate' = IF hasKey THEN "checking" ELSE "locked"
    /\ IF id \notin {None, activeSessionId} THEN SetActive(id) ELSE UNCHANGED view
    /\ UNCHANGED <<store, live, hasKey, mount, attached>>

\* A mount whose number is free has no reply under way; its refs go with it.
Free(k) == \A st \in streams : st.mount # k

\* The validation of the stored key, or of a key that was typed.  ChatArea is
\* mounted and fetches the sessions.  A page left during it may still have a typed
\* key stored; it finds that key, or is given it, when it is opened again.
Validated ==
    /\ gate \in {"checking", "locked"}
    /\ gate' = "open" /\ hasKey' = TRUE
    /\ \E k \in Mounts : Free(k) /\ (\A j \in 1..(k - 1) : ~Free(j)) /\ mount' = k
    /\ sessions' = summarize(stored)
    /\ UNCHANGED <<kept, live, view, attached>>

\* A stored key that fails is removed.
Rejected ==
    /\ gate = "checking"
    /\ gate' = "locked" /\ hasKey' = FALSE
    /\ UNCHANGED <<store, live, view, mount, attached>>

\* ChatArea is unmounted, its replies go on.
Unmounted ==
    /\ mount' = 0 /\ attached' = {}
    /\ fullContentRef' = [k \in Mounts |-> IF Free(k) THEN <<>> ELSE fullContentRef[k]]
    /\ UNCHANGED <<store, view, streaming, abortRef, streams, isGenerating, titling>>

\* Lock Chat.
Lock == Open /\ gate' = "locked" /\ hasKey' = FALSE /\ Unmounted

\* A link to the dashboard.
Leave == gate # "away" /\ gate' = "away" /\ Unmounted /\ UNCHANGED hasKey

\* The browser reloads: the URL of the chat page has the id of the active session.
Reload ==
    /\ IF gate = "away"
       THEN activeSessionId' = None /\ activeMessages' = <<>> /\ UNCHANGED gate
       ELSE /\ activeMessages' = Saved(activeSessionId) /\ UNCHANGED activeSessionId
            /\ gate' = IF hasKey THEN "checking" ELSE "locked"
    /\ isGenerating' = FALSE /\ streaming' = <<>> /\ streams' = {} /\ titling' = {}
    /\ attached' = {} /\ sessions' = <<>> /\ unsaved' = FALSE
    /\ mount' = 0 /\ abortRef' = [k \in Mounts |-> 0]
    /\ fullContentRef' = [k \in Mounts |-> <<>>]
    /\ UNCHANGED <<kept, hasKey>>

-----------------------------------------------------------------------------
(* The sidebar.                                                            *)

around == <<used, asked, untitled, sent, live, gate, hasKey, mount, attached>>

Select(id) ==
    /\ Open /\ id \in DOMAIN sessions \cup {None}
    /\ SetActive(id)
    /\ UNCHANGED <<stored, recent, sessions, failed, around>>

\* deleteSession goes on with the session updated last.
DeleteSession(id) ==
    /\ Open /\ id \in DOMAIN sessions
    /\ LET order == SelectSeq(recent, LAMBDA s : s # id)
       IN /\ \E ok \in BOOLEAN :
                writeSessions([s \in DOMAIN stored \ {id} |-> stored[s]], order, ok)
          /\ IF activeSessionId = id
             THEN /\ activeSessionId' = First(order) /\ unsaved' = FALSE
                  /\ activeMessages' = IF First(order) = None THEN <<>>
                                       ELSE stored[First(order)].messages
             ELSE IF activeSessionId \in DOMAIN stored
                  THEN /\ activeMessages' = stored[activeSessionId].messages
                       /\ unsaved' = FALSE /\ UNCHANGED activeSessionId
                  ELSE UNCHANGED view
    /\ UNCHANGED around

ClearSessions ==
    /\ Open /\ sessions # <<>>
    /\ \E ok \in BOOLEAN : writeSessions(<<>>, <<>>, ok)
    /\ activeSessionId' = None /\ activeMessages' = <<>> /\ unsaved' = FALSE
    /\ UNCHANGED around

-----------------------------------------------------------------------------
(* Images attached to the next message.                                    *)

rest == <<store, live, view, gate, hasKey, mount>>

\* addFiles, once the file that was picked or pasted has been read; as long as
\* MaxExchanges allows a message that it could go with.
AddFiles(f) ==
    /\ Open /\ f \notin attached /\ sent < MaxExchanges
    /\ attached' = attached \cup {f}
    /\ UNCHANGED rest

RemoveAttachment(f) ==
    /\ f \in attached /\ attached' = attached \ {f}
    /\ UNCHANGED rest

-----------------------------------------------------------------------------
(* A message and its streamed reply.                                       *)

\* The id that a new session is given was never given out; nothing else is said of it.
NewId == CHOOSE id \in Sessions : id \notin used

\* createSession, when none is active.
Target(id) == IF activeSessionId = None THEN id \in Sessions \ used /\ id = NewId
              ELSE id = activeSessionId

\* The button of the input box sends, unless a reply is being written or there
\* is nothing to send.
CanSend(typed) == ~isGenerating /\ (typed \/ attached # {})

\* What is added to a session by the writes of sendMessage that succeed.
Added(n, saved) ==
    (IF "user" \in saved THEN <<UserMessage(n)>> ELSE <<>>)
    \o (IF "assistant" \in saved THEN <<Reply(n)>> ELSE <<>>)

\* sendMessage up to the answer of the server.  Both messages are added to the
\* screen, and to the session if it is stored.  Each of the writes may fail: of the
\* new session, which is then listed and never stored, and of either message.
Send(id, typed, saved) ==
    /\ Open /\ CanSend(typed) /\ sent < MaxExchanges
    /\ Target(id)
    /\ LET n == sent + 1
           new == id \notin used
           there == IF new THEN "session" \in saved ELSE id \in DOMAIN stored
           both == <<UserMessage(n), Reply(n)>>
           old == IF new THEN [title |-> "New Chat", messages |-> <<>>] ELSE stored[id]
           writes == (IF new THEN {"session"} ELSE {})
                     \cup (IF there THEN {"user", "assistant"} ELSE {})
       IN /\ saved \subseteq writes /\ Stores(saved = writes)
          /\ sent' = n /\ used' = used \cup {id}
          /\ stored' = IF there THEN [s \in DOMAIN stored \cup {id} |->
                                        IF s = id THEN [old EXCEPT !.messages = @ \o Added(n, saved)]
                                        ELSE stored[s]]
                       ELSE stored
          /\ recent' = IF saved # {} THEN Touched(id) ELSE recent
          /\ sessions' = IF writes # {}
                         THEN [s \in DOMAIN stored \cup {id} |->
                                  IF s = id THEN old.title ELSE stored[s].title]
                         ELSE sessions
          /\ untitled' = IF new /\ ~there THEN untitled \cup {id} ELSE untitled
          /\ activeSessionId' = id
          /\ activeMessages' = IF new THEN both ELSE activeMessages \o both
          /\ unsaved' = (writes # saved \/ (unsaved /\ ~new))
          /\ streaming' = <<n, <<>>>>
          /\ abortRef' = [abortRef EXCEPT ![mount] = n]
          /\ streams' = streams \cup {[of |-> n, session |-> id, mount |-> mount,
                                       at |-> "headers", got |-> <<>>, typed |-> typed]}
    /\ isGenerating' = TRUE /\ attached' = {}
    /\ UNCHANGED <<gate, hasKey, mount, fullContentRef, titling, asked>>

\* Mutant of Cleared: the page goes on showing that a reply is being written.
Cleared_Busy(st) ==
    /\ streams' = streams \ {st}
    /\ streaming' = <<>>
    /\ abortRef' = [abortRef EXCEPT ![st.mount] = 0]
    /\ fullContentRef' = IF st.mount = mount THEN fullContentRef
                         ELSE [fullContentRef EXCEPT ![st.mount] = <<>>]
    /\ UNCHANGED isGenerating

\* The finally block of sendMessage.
Cleared(st) ==
    /\ streams' = streams \ {st}
    /\ streaming' = <<>>
    /\ abortRef' = [abortRef EXCEPT ![st.mount] = 0]
    /\ fullContentRef' = IF st.mount = mount THEN fullContentRef
                         ELSE [fullContentRef EXCEPT ![st.mount] = <<>>]
    /\ isGenerating' = FALSE

\* The sessions with the text c saved for the reply of st.
WithReply(st, c) == [stored EXCEPT ![st.session].messages = WithText(@, st.of, c)]

\* The text of a reply on screen, saved or not.
Shown(st, c, ok) ==
    /\ activeMessages' = WithText(activeMessages, st.of, c)
    /\ unsaved' = (unsaved \/ (~ok /\ st.session = activeSessionId))

\* updateMessageLocal and saveMessage.
Write(st, c) ==
    \E ok \in BOOLEAN :
        /\ Shown(st, c, ok)
        /\ IF st.session \in DOMAIN stored
           THEN writeSessions(WithReply(st, c), Touched(st.session), ok)
           ELSE ok /\ UNCHANGED <<stored, recent, sessions, failed>>

outside == <<used, sent, activeSessionId, gate, hasKey, mount, attached>>
saving == <<stored, recent, sessions, failed, activeMessages, unsaved>>
titles == <<titling, asked, untitled>>

\* The answer is there: an error with a text, a body, or an answer without one.
Answered(st) ==
    /\ st \in streams /\ st.at = "headers"
    /\ \/ /\ streams' = (streams \ {st}) \cup {[st EXCEPT !.at = "body"]}
          /\ fullContentRef' = [fullContentRef EXCEPT ![st.mount] = <<>>]
          /\ UNCHANGED <<saving, streaming, abortRef, isGenerating>>
       \/ /\ streams' = (streams \ {st}) \cup {[st EXCEPT !.at = "error"]}
          /\ UNCHANGED <<saving, streaming, abortRef, isGenerating, fullContentRef>>
       \/ Write(st, <<0>>) /\ Cleared(st)
    /\ UNCHANGED <<outside, titles>>

ErrorText(st) ==
    /\ st \in streams /\ st.at = "error"
    /\ Write(st, <<0>>) /\ Cleared(st)
    /\ UNCHANGED <<outside, titles>>

Chunk(st) ==
    /\ st \in streams /\ st.at = "body" /\ Len(st.got) < MaxChunks
    /\ LET more == Append(st.got, st.of)
       IN /\ streams' = (streams \ {st}) \cup {[st EXCEPT !.got = more]}
          /\ fullContentRef' = [fullContentRef EXCEPT ![st.mount] = more]
    /\ UNCHANGED <<outside, saving, streaming, abortRef, isGenerating, titles>>

\* The render loop of the reply: a frame shows the text of its mount.
Frame(st) ==
    /\ st \in streams /\ st.at = "body"
    /\ streaming # <<>> => streaming[2] # fullContentRef[st.mount]
    /\ streaming' = <<st.of, fullContentRef[st.mount]>>
    /\ UNCHANGED <<store, view, fullContentRef, abortRef, streams, isGenerating, titling,
                   gate, hasKey, mount, attached>>

\* Mutant of Titled: the fallback title waits for the answer.
Titled_Late(copy, id, title) == copy

\* generateSessionTitle sets a title at once, the first 50 characters typed.
Titled(copy, id, title) == [copy EXCEPT ![id].title = title]

\* The end of the reply.  The first one to a typed message asks for a title: its
\* session is "New Chat" in the list as saveMessage has left it.  Text and title
\* are two writes.
Complete(st) ==
    /\ st \in streams /\ st.at = "body"
    /\ Cleared(st)
    /\ \E text, named \in BOOLEAN, title \in Titles :
          LET id == st.session
              there == id \in DOMAIN stored
              list == IF there THEN summarize(stored) ELSE sessions
              asks == st.typed /\ id \in DOMAIN list /\ list[id] = "New Chat"
              saved == IF text THEN WithReply(st, st.got) ELSE stored
              titled == Titled(saved, id, title)
          IN /\ ~there => text /\ named
             /\ ~asks => named /\ title = "New Chat"
             /\ Shown(st, st.got, text)
             /\ Stores(text /\ named)
             /\ IF ~there THEN UNCHANGED <<stored, recent, sessions>>
                ELSE /\ stored' = IF asks /\ named THEN titled ELSE saved
                     /\ recent' = IF text \/ (asks /\ named) THEN Touched(id) ELSE recent
                     /\ sessions' = summarize(IF asks THEN titled ELSE WithReply(st, st.got))
             /\ IF ~asks THEN UNCHANGED titles
                ELSE /\ titling' = titling \cup {<<id, st.of>>}
                     /\ asked' = [asked EXCEPT ![id] = @ + 1]
                     /\ untitled' = IF there /\ named /\ title # "New Chat" THEN untitled
                                    ELSE untitled \cup {id}
    /\ UNCHANGED outside

\* Any error but an abort.
ConnectionError(st) ==
    /\ st \in streams
    /\ Write(st, Append(fullContentRef[st.mount], 0)) /\ Cleared(st)
    /\ UNCHANGED <<outside, titles>>

\* The answer to a request for a title: one of at most 80 characters, or none.
TitleAnswer(t) ==
    /\ t \in titling /\ titling' = titling \ {t}
    /\ \/ \E ok \in BOOLEAN, title \in Titles :
             /\ t[1] \in DOMAIN stored
             /\ writeSessions([stored EXCEPT ![t[1]].title = title], Touched(t[1]), ok)
             /\ untitled' = IF title = "New Chat" THEN untitled \cup {t[1]} ELSE untitled
       \/ UNCHANGED <<stored, recent, sessions, untitled, failed>>
    /\ UNCHANGED <<used, asked, sent, view, streaming, abortRef, fullContentRef, streams,
                   isGenerating, gate, hasKey, mount, attached>>

\* Mutant of Stop: the text is saved and the stream is not aborted.
Stop_Unaborted ==
    /\ Open /\ isGenerating
    /\ isGenerating' = FALSE
    /\ \E st \in streams : /\ st.of = abortRef[mount]
                           /\ Write(st, fullContentRef[mount])
    /\ abortRef' = [abortRef EXCEPT ![mount] = 0]
    /\ UNCHANGED <<outside, streaming, streams, fullContentRef, titles>>

\* stopGeneration, with the catch and finally blocks of the reply it aborts.
Stop ==
    /\ Open /\ isGenerating
    /\ isGenerating' = FALSE
    /\ abortRef' = [abortRef EXCEPT ![mount] = 0]
    /\ IF abortRef[mount] = 0
       THEN UNCHANGED <<saving, streaming, streams>>
       ELSE \E st \in streams :
               /\ st.of = abortRef[mount]
               /\ streams' = streams \ {st} /\ streaming' = <<>>
               /\ IF fullContentRef[mount] # <<>> THEN Write(st, fullContentRef[mount])
                  ELSE UNCHANGED saving
    /\ UNCHANGED <<outside, fullContentRef, titles>>

-----------------------------------------------------------------------------

ReplyStep(st) == \/ Answered(st) \/ ErrorText(st) \/ Chunk(st) \/ Frame(st)
                 \/ Complete(st) \/ ConnectionError(st)

Next == \/ \E id \in used \cup {None} : Visit(id)
        \/ Validated \/ Rejected \/ Lock \/ Leave \/ Reload
        \/ \E id \in Sessions \cup {None} : Select(id)
        \/ \E id \in Sessions : DeleteSession(id)
        \/ \E t \in titling : TitleAnswer(t)
        \/ ClearSessions \/ Stop
        \/ \E f \in 1..MaxFiles : AddFiles(f) \/ RemoveAttachment(f)
        \/ \E id \in Sessions, typed \in BOOLEAN,
              saved \in SUBSET {"session", "user", "assistant"} : Send(id, typed, saved)
        \/ \E st \in streams : ReplyStep(st)

Spec == Init /\ [][Next]_chatVars

-----------------------------------------------------------------------------
(* Properties.                                                             *)

\* A message in storage is on screen; of a reply, storage may have no text yet.
IsShown(m) ==
    \E j \in DOMAIN activeMessages :
        LET a == activeMessages[j]
        IN /\ a.role = m.role /\ a.of = m.of /\ m.text \in {a.text, <<>>}

\* Whatever replies end in other sessions meanwhile, and whichever writes fail,
\* storage has nothing of the active session that its list on screen lacks; and
\* unless a write of that session failed since the list was read (unsaved), the
\* list is the one in storage, so that a reload changes nothing.
ViewMatchesStorage ==
    activeSessionId \in DOMAIN stored =>
        LET messages == stored[activeSessionId].messages
        IN /\ \A i \in DOMAIN messages : IsShown(messages[i])
           /\ ~unsaved => activeMessages = messages

\* The page shows that a reply is being written, or the text of one, only while
\* a reply is: no input box stays disabled after a stop, an error, a deleted
\* session or a locked chat.
ProgressHasStream ==
    /\ isGenerating => streams # {}
    /\ streaming # <<>> => \E st \in streams : st.of = streaming[1]

\* A session asks the server for a title once, as its first title is not left
\* to the answer: only a session whose title could not be stored, or is "New
\* Chat" itself (typed by the user or generated), is taken for a new one again.
OneTitle == \A s \in Sessions \ untitled : asked[s] <= 1

Texts(s, n) == {s[i].text : i \in {j \in DOMAIN s : s[j].role = "assistant" /\ s[j].of = n}}

\* The text of a reply is saved once: no late chunk, stop or error writes over
\* a reply that has been saved.
SavesOnce ==
    \A s \in DOMAIN stored \cap DOMAIN stored', n \in Exchanges :
        LET old == Texts(stored[s].messages, n) \ {<<>>}
        IN old # {} => Texts(stored'[s].messages, n) = old

\* A cancelled or failed reply keeps what was received of it, which is nothing
\* of another exchange ("User cancelled - save what we have").
OwnContent ==
    \A s \in DOMAIN stored : \A i \in DOMAIN stored[s].messages :
        LET m == stored[s].messages[i] IN \A j \in DOMAIN m.text : m.text[j] \in {m.of, 0}

===============================================================================
