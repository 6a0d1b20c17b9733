---------------------------- MODULE ChatPage_proofs ---------------------------
(***************************************************************************)
(* Proofs about the chat page, for any number of sessions, messages and    *)
(* mounts.  The idea: an exchange has a number that no later one has, its  *)
(* messages are in one session, and as long as its stream is alive its     *)
(* reply is empty in local storage.  So the end of a stream writes the     *)
(* text of a reply that has none, and changes no other session.            *)
(*                                                                         *)
(* In the second half, proofs about the reply on screen (MessageView), for *)
(* texts of any length in chunks of any kind: a text with more behind it   *)
(* has the same parts, but for what its last part becomes, and an open     *)
(* block that stays open has more code; so code that is being highlighted  *)
(* is always a beginning of the code, and a closed block is final.         *)
(***************************************************************************)
EXTENDS ChatPage, SequenceTheorems, WellFoundedInduction, TLAPS

\* The reply on screen (MessageView).
CONSTANTS Backtick, Newline, Other, Deltas, MaxDeltas
VARIABLES raw, deltas, timer, busy, pending, shown, tried, blocks
View == INSTANCE MessageView

Message == [role : {"user", "assistant"}, of : Nat, text : Seq(Nat)]
Session == [title : Titles, messages : Seq(Message)]
Stream == [of : Nat, session : Sessions, mount : Mounts, at : {"headers", "body", "error"},
           got : Seq(Nat), typed : BOOLEAN]

Types ==
    /\ used \subseteq Sessions /\ DOMAIN stored \subseteq used
    /\ stored \in [DOMAIN stored -> Session]
    /\ sent \in Nat /\ asked \in [Sessions -> Nat]
    /\ mount \in 0..MaxMounts /\ (Open => mount # 0)
    /\ fullContentRef \in [Mounts -> Seq(Nat)]
    /\ streams \subseteq Stream

\* No message and no stream is of an exchange that is still to come.
Numbered ==
    /\ \A s \in DOMAIN stored : \A i \in DOMAIN stored[s].messages :
          stored[s].messages[i].of <= sent
    /\ \A st \in streams : st.of <= sent

OneStream == \A st, so \in streams : st.of = so.of => st = so

\* The messages of a stream's exchange are in the session of the stream ...
OwnSession ==
    \A st \in streams, s \in DOMAIN stored : \A i \in DOMAIN stored[s].messages :
        stored[s].messages[i].of = st.of => s = st.session

Replies(m, n) == m.role = "assistant" /\ m.of = n

\* ... and its reply has no text yet.
Unwritten ==
    \A st \in streams, s \in DOMAIN stored : \A i \in DOMAIN stored[s].messages :
        Replies(stored[s].messages[i], st.of) => stored[s].messages[i].text = <<>>

\* What a session has of an exchange agrees with itself.
OneText ==
    \A s \in DOMAIN stored, n \in Nat : \A i, j \in DOMAIN stored[s].messages :
        Replies(stored[s].messages[i], n) /\ Replies(stored[s].messages[j], n)
            => stored[s].messages[i].text = stored[s].messages[j].text

Exchanged == Numbered /\ OneStream /\ OwnSession /\ Unwritten /\ OneText

\* A session that is stored without a title has not asked for one, and one that is
\* listed without being stored could not be stored.
TitledInv ==
    /\ OneTitle
    /\ \A s \in DOMAIN stored \ untitled : stored[s].title = "New Chat" => asked[s] = 0
    /\ DOMAIN sessions \ DOMAIN stored \subseteq untitled /\ untitled \subseteq used
    /\ \A s \in Sessions \ used : asked[s] = 0

\* A list has a message, or the message of which another has no text yet.
Has(A, m) ==
    \E j \in DOMAIN A : A[j].role = m.role /\ A[j].of = m.of /\ m.text \in {A[j].text, <<>>}
Covers(A, S) == \A i \in DOMAIN S : Has(A, S[i])

\* What the list on screen and the messages in storage have to agree on.
Agree(A, S, differ) == A \in Seq(Message) /\ Covers(A, S) /\ (~differ => A = S)

OnScreen ==
    activeSessionId \in DOMAIN stored =>
        Agree(activeMessages, stored[activeSessionId].messages, unsaved)

IInv == Types /\ Exchanged /\ TitledInv /\ OnScreen /\ ProgressHasStream

-----------------------------------------------------------------------------
(* What a text written to a list of messages changes.                      *)

LEMMA StoredTypes ==
    ASSUME Types, NEW s \in DOMAIN stored
    PROVE  /\ stored[s] \in Session /\ stored[s].messages \in Seq(Message)
           /\ s \in used /\ s \in Sessions
           /\ \A i \in DOMAIN stored[s].messages :
                 stored[s].messages[i] \in Message /\ stored[s].messages[i].of \in Nat
<1>1. stored[s] \in Session /\ s \in used /\ s \in Sessions
  BY DEF Types
<1>2. stored[s].messages \in Seq(Message)
  BY <1>1 DEF Session
<1>3. \A i \in DOMAIN stored[s].messages : stored[s].messages[i] \in Message
  BY <1>2
<1> QED
  BY <1>1, <1>2, <1>3 DEF Message

LEMMA StreamTypes ==
    ASSUME Types, NEW st \in streams
    PROVE  /\ st \in Stream /\ st.of \in Nat /\ st.session \in Sessions /\ st.mount \in Mounts
           /\ st.got \in Seq(Nat) /\ fullContentRef[st.mount] \in Seq(Nat)
<1>1. st \in Stream
  BY DEF Types
<1>2. st.of \in Nat /\ st.session \in Sessions /\ st.mount \in Mounts /\ st.got \in Seq(Nat)
  BY <1>1 DEF Stream
<1> QED
  BY <1>1, <1>2 DEF Types

LEMMA TextWritten ==
    ASSUME NEW msgs \in Seq(Message), NEW n \in Nat, NEW c \in Seq(Nat)
    PROVE  /\ WithText(msgs, n, c) \in Seq(Message)
           /\ DOMAIN WithText(msgs, n, c) = DOMAIN msgs
           /\ \A i \in DOMAIN msgs :
                 /\ WithText(msgs, n, c)[i].of = msgs[i].of
                 /\ \A k \in Nat : Replies(WithText(msgs, n, c)[i], k) <=> Replies(msgs[i], k)
                 /\ WithText(msgs, n, c)[i].text = IF Replies(msgs[i], n) THEN c
                                                   ELSE msgs[i].text
<1> DEFINE w == WithText(msgs, n, c)
           One(m) == IF m.role = "assistant" /\ m.of = n THEN [m EXCEPT !.text = c] ELSE m
<1>1. \A m \in Message :
         /\ One(m) \in Message /\ One(m).of = m.of /\ One(m).role = m.role
         /\ One(m).text = IF Replies(m, n) THEN c ELSE m.text
  BY DEF Message, Replies
<1>2. \A i \in DOMAIN msgs : msgs[i] \in Message
  OBVIOUS
<1>3. w = [i \in DOMAIN msgs |-> One(msgs[i])]
  BY DEF WithText
<1> HIDE DEF w, One
<1>4. DOMAIN w = DOMAIN msgs /\ \A i \in DOMAIN msgs : w[i] = One(msgs[i])
  BY <1>3
<1>5. w \in Seq(Message)
  <2>1. Len(msgs) \in Nat /\ DOMAIN msgs = 1..Len(msgs)
    OBVIOUS
  <2>2. w \in [1..Len(msgs) -> Message]
    BY <1>1, <1>2, <1>3, <2>1
  <2> QED
    BY <2>1, <2>2
<1>6. \A i \in DOMAIN msgs :
         /\ w[i].of = msgs[i].of /\ w[i].role = msgs[i].role
         /\ \A k \in Nat : Replies(w[i], k) <=> Replies(msgs[i], k)
         /\ w[i].text = IF Replies(msgs[i], n) THEN c ELSE msgs[i].text
  BY <1>1, <1>2, <1>4 DEF Replies
<1> QED
  BY <1>4, <1>5, <1>6 DEF w

LEMMA RolesKept ==
    ASSUME NEW msgs \in Seq(Message), NEW n \in Nat, NEW c \in Seq(Nat)
    PROVE  \A i \in DOMAIN msgs : WithText(msgs, n, c)[i].role = msgs[i].role
<1>1. \A m \in Message : [m EXCEPT !.text = c].role = m.role
  BY DEF Message
<1>2. \A i \in DOMAIN msgs : msgs[i] \in Message
  OBVIOUS
<1> QED
  BY <1>1, <1>2 DEF WithText

\* B is the list A with the text c for the reply to exchange n.
Written(A, B, n, c) ==
    /\ DOMAIN B = DOMAIN A
    /\ \A j \in DOMAIN A : /\ B[j].of = A[j].of /\ B[j].role = A[j].role
                           /\ B[j].text = IF Replies(A[j], n) THEN c ELSE A[j].text

LEMMA IsWritten ==
    ASSUME NEW A \in Seq(Message), NEW n \in Nat, NEW c \in Seq(Nat)
    PROVE  Written(A, WithText(A, n, c), n, c)
<1>1. DOMAIN WithText(A, n, c) = DOMAIN A
  BY TextWritten
<1>2. \A j \in DOMAIN A : WithText(A, n, c)[j].of = A[j].of
  BY TextWritten
<1>3. \A j \in DOMAIN A : WithText(A, n, c)[j].role = A[j].role
  BY RolesKept
<1>4. \A j \in DOMAIN A : WithText(A, n, c)[j].text = IF Replies(A[j], n) THEN c ELSE A[j].text
  BY TextWritten
<1> QED
  BY <1>1, <1>2, <1>3, <1>4 DEF Written

LEMMA TextNotThere ==
    ASSUME NEW msgs \in Seq(Message), NEW n \in Nat, NEW c,
           \A i \in DOMAIN msgs : msgs[i].of # n
    PROVE  WithText(msgs, n, c) = msgs
<1>1. WithText(msgs, n, c) = [i \in DOMAIN msgs |-> msgs[i]]
  BY DEF WithText
<1> QED
  BY <1>1

-----------------------------------------------------------------------------
(* The kinds of steps, by what they do to the exchanges.                   *)

\* Messages are kept or removed with their session, streams go on or are cut off.
Quiet ==
    /\ sent' = sent /\ streams' \subseteq streams
    /\ \A s \in DOMAIN stored' :
          s \in DOMAIN stored /\ stored'[s].messages = stored[s].messages

\* A stream goes on.
GoesOn(st, to) ==
    /\ UNCHANGED <<sent, stored>>
    /\ st \in streams /\ to \in Stream /\ to.of = st.of /\ to.session = st.session
    /\ streams' = (streams \ {st}) \cup {to}

\* A stream ends, and c is what is kept of it.
Ends(st, c) ==
    /\ st \in streams /\ c \in Seq(Nat)
    /\ streams' = streams \ {st} /\ sent' = sent
    /\ DOMAIN stored' = DOMAIN stored
    /\ \A s \in DOMAIN stored :
          stored'[s].messages = IF s = st.session THEN WithText(stored[s].messages, st.of, c)
                                ELSE stored[s].messages

\* A session with a text of an exchange has no empty reply of it.
LEMMA TextsAgree ==
    ASSUME OneText, NEW s \in DOMAIN stored, NEW n \in Nat,
           Texts(stored[s].messages, n) \ {<<>>} # {}
    PROVE  Texts(stored[s].messages, n) = Texts(stored[s].messages, n) \ {<<>>}
<1>1. PICK j \in DOMAIN stored[s].messages :
         Replies(stored[s].messages[j], n) /\ stored[s].messages[j].text # <<>>
  BY DEF Texts, Replies
<1>2. \A i \in DOMAIN stored[s].messages :
         Replies(stored[s].messages[i], n) => stored[s].messages[i].text # <<>>
  BY <1>1 DEF OneText
<1> QED
  BY <1>2 DEF Texts, Replies

LEMMA QuietKeeps ==
    ASSUME Types, Exchanged, Quiet
    PROVE  Exchanged' /\ SavesOnce
<1> USE DEF Exchanged, Quiet
<1>1. Numbered'
  BY DEF Numbered
<1>2. OneStream'
  BY DEF OneStream
<1>3. OwnSession'
  BY DEF OwnSession
<1>4. Unwritten'
  BY DEF Unwritten
<1>5. OneText'
  BY DEF OneText
<1>6. SavesOnce
  <2> SUFFICES ASSUME NEW s \in DOMAIN stored, s \in DOMAIN stored', NEW n \in Exchanges,
                      Texts(stored[s].messages, n) \ {<<>>} # {}
               PROVE  Texts(stored'[s].messages, n) = Texts(stored[s].messages, n) \ {<<>>}
    BY DEF SavesOnce
  <2>1. stored'[s].messages = stored[s].messages
    OBVIOUS
  <2>2. n \in Nat
    BY DEF Exchanges
  <2> QED
    BY <2>1, <2>2, TextsAgree
<1> QED
  BY <1>1, <1>2, <1>3, <1>4, <1>5, <1>6

LEMMA GoesOnKeeps ==
    ASSUME Types, Exchanged, NEW st, NEW to, GoesOn(st, to)
    PROVE  Exchanged' /\ SavesOnce
<1> USE DEF Exchanged, GoesOn
<1>0. stored' = stored /\ sent' = sent
  OBVIOUS
<1>1. Numbered'
  BY <1>0 DEF Numbered
<1>2. OneStream'
  BY DEF OneStream
<1>3. OwnSession'
  BY <1>0 DEF OwnSession
<1>4. Unwritten'
  BY <1>0 DEF Unwritten
<1>5. OneText'
  BY <1>0 DEF OneText
<1>6. SavesOnce
  <2> SUFFICES ASSUME NEW s \in DOMAIN stored, NEW n \in Exchanges,
                      Texts(stored[s].messages, n) \ {<<>>} # {}
               PROVE  Texts(stored[s].messages, n) = Texts(stored[s].messages, n) \ {<<>>}
    BY <1>0 DEF SavesOnce
  <2>1. n \in Nat
    BY DEF Exchanges
  <2> QED
    BY <2>1, TextsAgree
<1> QED
  BY <1>1, <1>2, <1>3, <1>4, <1>5, <1>6

LEMMA EndsKeeps ==
    ASSUME Types, Exchanged, NEW st, NEW c, Ends(st, c)
    PROVE  /\ Exchanged' /\ SavesOnce
           /\ \A s \in DOMAIN stored : stored'[s].messages \in Seq(Message)
<1> USE DEF Exchanged
<1> DEFINE Old(s) == stored[s].messages
           New(s) == stored'[s].messages
<1>0. /\ st \in streams /\ c \in Seq(Nat) /\ st.of \in Nat
      /\ streams' = streams \ {st} /\ sent' = sent
      /\ DOMAIN stored' = DOMAIN stored
  BY StreamTypes DEF Ends
<1>1. \A s \in DOMAIN stored :
         /\ Old(s) \in Seq(Message)
         /\ New(s) = IF s = st.session THEN WithText(Old(s), st.of, c) ELSE Old(s)
  BY StoredTypes DEF Ends
<1>3. \A s \in DOMAIN stored : Old(s) = stored[s].messages /\ New(s) = stored'[s].messages
  OBVIOUS
<1> HIDE DEF Old, New
<1>2. ASSUME NEW s \in DOMAIN stored
      PROVE  /\ New(s) \in Seq(Message)
             /\ DOMAIN New(s) = DOMAIN Old(s)
             /\ \A i \in DOMAIN Old(s) :
                   /\ New(s)[i].of = Old(s)[i].of
                   /\ \A k \in Nat : Replies(New(s)[i], k) <=> Replies(Old(s)[i], k)
                   /\ New(s)[i].text = IF Replies(Old(s)[i], st.of) THEN c ELSE Old(s)[i].text
  <2>1. CASE s = st.session
    <3>1. PICK msgs \in Seq(Message) : msgs = Old(s)
      BY <1>1
    <3>2. PICK n \in Nat : n = st.of
      BY <1>0
    <3>3. PICK d \in Seq(Nat) : d = c
      BY <1>0
    <3>4. PICK w : w = WithText(msgs, n, d)
      OBVIOUS
    <3>5. /\ w \in Seq(Message) /\ DOMAIN w = DOMAIN msgs
          /\ \A i \in DOMAIN msgs :
                /\ w[i].of = msgs[i].of
                /\ \A k \in Nat : Replies(w[i], k) <=> Replies(msgs[i], k)
                /\ w[i].text = IF Replies(msgs[i], n) THEN d ELSE msgs[i].text
      BY <3>4, TextWritten
    <3>6. New(s) = w
      BY <1>1, <2>1, <3>3, <3>1, <3>2, <3>4
    <3> QED
      BY <3>3, <3>1, <3>2, <3>5, <3>6
  <2>2. CASE s # st.session
    <3>1. \A i \in DOMAIN Old(s) : ~Replies(Old(s)[i], st.of)
      BY <1>0, <1>3, <2>2 DEF OwnSession, Replies
    <3> QED
      BY <1>1, <2>2, <3>1
  <2> QED
    BY <2>1, <2>2
<1>4. Numbered'
  <2>1. \A s \in DOMAIN stored : \A i \in DOMAIN New(s) : New(s)[i].of <= sent
    BY <1>2, <1>3 DEF Numbered
  <2>2. \A s \in DOMAIN stored' : \A i \in DOMAIN stored'[s].messages :
           stored'[s].messages[i].of <= sent'
    BY <1>0, <1>3, <2>1
  <2> QED
    BY <1>0, <2>2 DEF Numbered
<1>5. OneStream'
  BY <1>0 DEF OneStream
<1>6. OwnSession'
  <2> SUFFICES ASSUME NEW so \in streams', NEW s \in DOMAIN stored, NEW i \in DOMAIN New(s),
                      New(s)[i].of = so.of
               PROVE  s = so.session
    BY <1>0, <1>3 DEF OwnSession
  <2>1. so \in streams /\ i \in DOMAIN Old(s) /\ Old(s)[i].of = so.of
    BY <1>0, <1>2
  <2> QED
    BY <1>3, <2>1 DEF OwnSession
<1>7. Unwritten'
  <2> SUFFICES ASSUME NEW so \in streams', NEW s \in DOMAIN stored, NEW i \in DOMAIN Old(s),
                      Replies(New(s)[i], so.of)
               PROVE  New(s)[i].text = <<>>
    BY <1>0, <1>2, <1>3 DEF Unwritten
  <2>1. so \in streams /\ so.of \in Nat /\ so.of # st.of
    BY <1>0, StreamTypes DEF OneStream
  <2>2. Replies(Old(s)[i], so.of) /\ ~Replies(Old(s)[i], st.of)
    BY <1>2, <2>1 DEF Replies
  <2> QED
    BY <1>2, <1>3, <2>1, <2>2 DEF Unwritten
<1>8. OneText'
  <2> SUFFICES ASSUME NEW s \in DOMAIN stored, NEW n \in Nat, NEW i \in DOMAIN Old(s),
                      NEW j \in DOMAIN Old(s), Replies(New(s)[i], n), Replies(New(s)[j], n)
               PROVE  New(s)[i].text = New(s)[j].text
    BY <1>0, <1>2, <1>3 DEF OneText
  <2>1. Replies(Old(s)[i], n) /\ Replies(Old(s)[j], n)
    BY <1>2
  <2>2. Replies(Old(s)[i], st.of) <=> Replies(Old(s)[j], st.of)
    BY <2>1 DEF Replies
  <2>3. Old(s)[i].text = Old(s)[j].text
    BY <1>3, <2>1 DEF OneText
  <2> QED
    BY <1>2, <2>2, <2>3
<1>9. SavesOnce
  <2> SUFFICES ASSUME NEW s \in DOMAIN stored, NEW n \in Exchanges,
                      Texts(Old(s), n) \ {<<>>} # {}
               PROVE  Texts(New(s), n) = Texts(Old(s), n) \ {<<>>}
    BY <1>3 DEF SavesOnce
  <2>1. n \in Nat
    BY DEF Exchanges
  <2>2. Texts(Old(s), n) = Texts(Old(s), n) \ {<<>>}
    BY <1>3, <2>1, TextsAgree
  <2>3. PICK j \in DOMAIN Old(s) : Replies(Old(s)[j], n) /\ Old(s)[j].text # <<>>
    BY <1>3 DEF Texts, Replies
  <2>4. n # st.of
    BY <1>0, <1>3, <2>3 DEF Unwritten
  <2>5. \A i \in DOMAIN Old(s) :
           Replies(Old(s)[i], n) => New(s)[i].text = Old(s)[i].text
    BY <1>2, <2>4 DEF Replies
  <2>6. Texts(New(s), n) = {New(s)[i].text : i \in {k \in DOMAIN Old(s) : Replies(Old(s)[k], n)}}
    BY <1>2, <2>1 DEF Texts, Replies
  <2>7. Texts(Old(s), n) = {Old(s)[i].text : i \in {k \in DOMAIN Old(s) : Replies(Old(s)[k], n)}}
    BY DEF Texts, Replies
  <2> QED
    BY <2>2, <2>5, <2>6, <2>7
<1> QED
  BY <1>2, <1>3, <1>4, <1>5, <1>6, <1>7, <1>8, <1>9

\* What is sent has the number of its exchange, and a reply has no text.
LEMMA Sent ==
    ASSUME NEW n \in Nat
    PROVE  \A m \in {UserMessage(n), Reply(n)} :
               m \in Message /\ m.of = n /\ (m.role = "assistant" => m.text = <<>>)
<1>1. \A t \in Seq(Nat) : [role |-> "user", of |-> n, text |-> t] \in Message
  BY DEF Message
<1>2. <<n>> \in Seq(Nat)
  OBVIOUS
<1>3. UserMessage(n) \in Message
  BY <1>1, <1>2 DEF UserMessage
<1>4. \A t \in Seq(Nat) : [role |-> "assistant", of |-> n, text |-> t] \in Message
  BY DEF Message
<1>5. <<>> \in Seq(Nat)
  OBVIOUS
<1>6. Reply(n) \in Message
  BY <1>4, <1>5 DEF Reply
<1>7. UserMessage(n).of = n /\ Reply(n).of = n
  BY DEF UserMessage, Reply
<1>8. UserMessage(n).role = "user" /\ Reply(n).text = <<>>
  BY DEF UserMessage, Reply
<1> QED
  BY <1>3, <1>6, <1>7, <1>8

LEMMA Pair == ASSUME NEW u, NEW r PROVE <<u>> \o <<r>> = <<u, r>>
<1> DEFINE a == <<u>> \o <<r>>
           b == <<u, r>>
<1>1. a \in Seq({u, r}) /\ Len(a) = 2 /\ a[1] = u /\ a[2] = r
  OBVIOUS
<1>2. b \in Seq({u, r}) /\ Len(b) = 2 /\ b[1] = u /\ b[2] = r
  OBVIOUS
<1> HIDE DEF a, b
<1>3. \A i \in 1..2 : a[i] = b[i]
  BY <1>1, <1>2
<1>4. a = b
  BY <1>1, <1>2, <1>3, SeqEqual
<1> QED
  BY <1>4 DEF a, b

\* The messages that sendMessage may add to a session.
Additions(n) == {<<>>, <<UserMessage(n)>>, <<Reply(n)>>, <<UserMessage(n), Reply(n)>>}

LEMMA AddedIs == ASSUME NEW n \in Nat, NEW saved PROVE Added(n, saved) \in Additions(n)
<1>1. PICK u : u = UserMessage(n)
  OBVIOUS
<1>2. PICK r : r = Reply(n)
  OBVIOUS
<1>3. Added(n, saved) = (IF "user" \in saved THEN <<u>> ELSE <<>>)
                        \o (IF "assistant" \in saved THEN <<r>> ELSE <<>>)
  BY <1>1, <1>2 DEF Added
<1>4. Additions(n) = {<<>>, <<u>>, <<r>>, <<u, r>>}
  BY <1>1, <1>2 DEF Additions
<1>5. /\ <<u>> \o <<r>> = <<u, r>> /\ <<u>> \o <<>> = <<u>>
      /\ <<>> \o <<r>> = <<r>> /\ <<>> \o <<>> = <<>>
  <2>1. <<u>> \o <<r>> = <<u, r>>
    BY Pair
  <2>2. <<u>> \o <<>> = <<u>> /\ <<>> \o <<r>> = <<r>> /\ <<>> \o <<>> = <<>>
    BY ConcatEmptySeq, EmptySeq
  <2> QED
    BY <2>1, <2>2
<1> QED
  BY <1>3, <1>4, <1>5

LEMMA AddedTypes ==
    ASSUME NEW n \in Nat, NEW x \in Additions(n)
    PROVE  /\ x \in Seq(Message) /\ Len(x) \in Nat
           /\ \A i \in 1..Len(x) : x[i] \in {UserMessage(n), Reply(n)}
<1>1. PICK u \in Message : u = UserMessage(n)
  BY Sent
<1>2. PICK r \in Message : r = Reply(n)
  BY Sent
<1>3. x \in {<<>>, <<u>>, <<r>>, <<u, r>>}
  BY <1>1, <1>2 DEF Additions
<1>4. /\ x \in Seq(Message) /\ Len(x) \in Nat
      /\ \A i \in 1..Len(x) : x[i] \in {u, r}
  <2>1. CASE x = <<>>
    BY <2>1
  <2>2. CASE x = <<u>>
    BY <2>2
  <2>3. CASE x = <<r>>
    BY <2>3
  <2>4. CASE x = <<u, r>>
    BY <2>4
  <2> QED
    BY <1>3, <2>1, <2>2, <2>3, <2>4
<1> QED
  BY <1>1, <1>2, <1>4

LEMMA MessagesAdded ==
    ASSUME NEW msgs \in Seq(Message), NEW n \in Nat, NEW x \in Additions(n)
    PROVE  /\ msgs \o x \in Seq(Message)
           /\ \A i \in DOMAIN msgs : i \in DOMAIN (msgs \o x) /\ (msgs \o x)[i] = msgs[i]
           /\ \A i \in DOMAIN (msgs \o x) \ DOMAIN msgs :
                 (msgs \o x)[i] \in {UserMessage(n), Reply(n)}
<1>1. /\ x \in Seq(Message) /\ Len(x) \in Nat
      /\ \A i \in 1..Len(x) : x[i] \in {UserMessage(n), Reply(n)}
  BY AddedTypes
<1>2. PICK new : new = msgs \o x
  OBVIOUS
<1>3. /\ new \in Seq(Message) /\ Len(new) = Len(msgs) + Len(x)
      /\ \A i \in 1..Len(msgs) : new[i] = msgs[i]
      /\ \A i \in (Len(msgs) + 1)..(Len(msgs) + Len(x)) : new[i] = x[i - Len(msgs)]
  BY <1>1, <1>2
<1>4. Len(msgs) \in Nat /\ DOMAIN msgs = 1..Len(msgs) /\ DOMAIN new = 1..(Len(msgs) + Len(x))
  BY <1>3
<1>5. ASSUME NEW i \in DOMAIN new \ DOMAIN msgs PROVE new[i] \in {UserMessage(n), Reply(n)}
  <2>1. i \in (Len(msgs) + 1)..(Len(msgs) + Len(x)) /\ i - Len(msgs) \in 1..Len(x)
    BY <1>1, <1>4
  <2>2. new[i] = x[i - Len(msgs)]
    BY <1>3, <2>1
  <2> QED
    BY <1>1, <2>1, <2>2
<1>6. \A i \in DOMAIN msgs : i \in DOMAIN new /\ new[i] = msgs[i]
  BY <1>1, <1>3, <1>4
<1> QED
  BY <1>2, <1>3, <1>5, <1>6

\* A message is sent to session id, if that is stored or new, with its reply: x is
\* what is stored of them.
Sends(id, to, x) ==
    /\ sent' = sent + 1 /\ streams' = streams \cup {to}
    /\ to \in Stream /\ to.of = sent + 1 /\ to.session = id
    /\ x \in Additions(sent + 1)
    /\ \A s \in DOMAIN stored' \ {id} :
          s \in DOMAIN stored /\ stored'[s].messages = stored[s].messages
    /\ id \in DOMAIN stored' => stored'[id].messages = Saved(id) \o x

LEMMA SendsKeeps ==
    ASSUME Types, Exchanged, NEW id, NEW to, NEW x, Sends(id, to, x)
    PROVE  /\ Exchanged' /\ SavesOnce
           /\ id \in DOMAIN stored' => stored'[id].messages \in Seq(Message)
<1> USE DEF Exchanged
<1> DEFINE Old(s) == Saved(s)
           New(s) == stored'[s].messages
<1>0. /\ sent \in Nat /\ sent' = sent + 1 /\ streams' = streams \cup {to}
      /\ to \in Stream /\ to.of = sent + 1 /\ to.session = id
      /\ x \in Additions(sent + 1)
      /\ \A st \in streams : st.of \in Nat /\ st.of <= sent
  BY StreamTypes DEF Sends, Types, Numbered
<1>1. \A s \in DOMAIN stored : Old(s) = stored[s].messages
  BY DEF Saved
<1>2. \A s :
         /\ Old(s) \in Seq(Message)
         /\ \A i \in DOMAIN Old(s) :
               s \in DOMAIN stored /\ Old(s)[i].of \in Nat /\ Old(s)[i].of <= sent
  <2> TAKE s
  <2>1. CASE s \in DOMAIN stored
    BY <1>1, <2>1, StoredTypes DEF Numbered
  <2>2. CASE s \notin DOMAIN stored
    BY <2>2 DEF Saved
  <2> QED
    BY <2>1, <2>2
<1>3. /\ id \in DOMAIN stored' => New(id) = Old(id) \o x
      /\ \A s \in DOMAIN stored' \ {id} : s \in DOMAIN stored /\ New(s) = Old(s)
  BY <1>1 DEF Sends
<1>4. \A s \in DOMAIN stored' : New(s) = stored'[s].messages
  OBVIOUS
<1> HIDE DEF Old, New
<1>5. ASSUME NEW s \in DOMAIN stored'
      PROVE  /\ New(s) \in Seq(Message)
             /\ \A i \in DOMAIN Old(s) : i \in DOMAIN New(s) /\ New(s)[i] = Old(s)[i]
             /\ \A i \in DOMAIN New(s) \ DOMAIN Old(s) :
                   /\ s = id /\ New(s)[i].of = sent + 1
                   /\ New(s)[i].role = "assistant" => New(s)[i].text = <<>>
  <2>1. CASE s = id
    <3>1. PICK n \in Nat : n = sent + 1
      BY <1>0
    <3>2. PICK msgs \in Seq(Message) : msgs = Old(s)
      BY <1>2
    <3>3. PICK y \in Additions(n) : y = x
      BY <1>0, <3>1
    <3>4. New(s) = msgs \o y
      BY <1>3, <2>1, <3>2, <3>3
    <3>5. /\ New(s) \in Seq(Message)
          /\ \A i \in DOMAIN msgs : i \in DOMAIN New(s) /\ New(s)[i] = msgs[i]
          /\ \A i \in DOMAIN New(s) \ DOMAIN msgs : New(s)[i] \in {UserMessage(n), Reply(n)}
      BY <3>4, MessagesAdded
    <3>6. \A m \in {UserMessage(n), Reply(n)} : m.of = n /\ (m.role = "assistant" => m.text = <<>>)
      BY Sent
    <3> QED
      BY <2>1, <3>1, <3>2, <3>5, <3>6
  <2>2. CASE s # id
    BY <1>2, <1>3, <2>2
  <2> QED
    BY <2>1, <2>2
<1>6. \A s \in DOMAIN stored' : \A i \in DOMAIN New(s) :
         \/ /\ s \in DOMAIN stored /\ i \in DOMAIN Old(s) /\ New(s)[i] = Old(s)[i]
            /\ New(s)[i].of <= sent /\ New(s)[i].of \in Nat
         \/ /\ s = id /\ New(s)[i].of = sent + 1
            /\ New(s)[i].role = "assistant" => New(s)[i].text = <<>>
  <2> TAKE s \in DOMAIN stored'
  <2> TAKE i \in DOMAIN New(s)
  <2>1. CASE i \in DOMAIN Old(s)
    BY <1>2, <1>5, <2>1
  <2>2. CASE i \notin DOMAIN Old(s)
    BY <1>5, <2>2
  <2> QED
    BY <2>1, <2>2
<1>7. Numbered'
  <2>1. \A s \in DOMAIN stored' : \A i \in DOMAIN New(s) : New(s)[i].of <= sent + 1
    BY <1>0, <1>6
  <2>2. \A st \in streams' : st.of <= sent + 1
    BY <1>0
  <2> QED
    BY <1>0, <1>4, <2>1, <2>2 DEF Numbered
<1>8. OneStream'
  BY <1>0 DEF OneStream
<1>9. OwnSession'
  <2> SUFFICES ASSUME NEW st \in streams', NEW s \in DOMAIN stored', NEW i \in DOMAIN New(s),
                      New(s)[i].of = st.of
               PROVE  s = st.session
    BY <1>4 DEF OwnSession
  <2>1. CASE New(s)[i].of = sent + 1
    <3>1. s = id
      BY <1>0, <1>6, <2>1
    <3>2. st \notin streams
      <4> SUFFICES ASSUME st \in streams PROVE FALSE
        OBVIOUS
      <4>1. st.of <= sent /\ st.of = sent + 1
        BY <1>0, <2>1
      <4> QED
        BY <1>0, <4>1
    <3> QED
      BY <1>0, <3>1, <3>2
  <2>2. CASE New(s)[i].of # sent + 1
    <3>1. s \in DOMAIN stored /\ i \in DOMAIN Old(s) /\ Old(s)[i].of = st.of /\ st \in streams
      BY <1>0, <1>6, <2>2
    <3> QED
      BY <1>1, <3>1 DEF OwnSession
  <2> QED
    BY <2>1, <2>2
<1>10. Unwritten'
  <2> SUFFICES ASSUME NEW st \in streams', NEW s \in DOMAIN stored', NEW i \in DOMAIN New(s),
                      Replies(New(s)[i], st.of)
               PROVE  New(s)[i].text = <<>>
    BY <1>4 DEF Unwritten
  <2>1. CASE New(s)[i].of = sent + 1
    BY <1>0, <1>6, <2>1 DEF Replies
  <2>2. CASE New(s)[i].of # sent + 1
    <3>1. /\ s \in DOMAIN stored /\ i \in DOMAIN Old(s) /\ st \in streams
          /\ New(s)[i] = Old(s)[i]
      BY <1>0, <1>6, <2>2 DEF Replies
    <3> QED
      BY <1>1, <3>1 DEF Unwritten
  <2> QED
    BY <2>1, <2>2
<1>11. OneText'
  <2> SUFFICES ASSUME NEW s \in DOMAIN stored', NEW n \in Nat, NEW i \in DOMAIN New(s),
                      NEW j \in DOMAIN New(s), Replies(New(s)[i], n), Replies(New(s)[j], n)
               PROVE  New(s)[i].text = New(s)[j].text
    BY <1>4 DEF OneText
  <2>1. CASE n = sent + 1
    BY <1>0, <1>6, <2>1 DEF Replies
  <2>2. CASE n # sent + 1
    <3>1. /\ s \in DOMAIN stored /\ i \in DOMAIN Old(s) /\ j \in DOMAIN Old(s)
          /\ New(s)[i] = Old(s)[i] /\ New(s)[j] = Old(s)[j]
      BY <1>6, <2>2 DEF Replies
    <3> QED
      BY <1>1, <3>1 DEF OneText
  <2> QED
    BY <2>1, <2>2
<1>12. SavesOnce
  <2> SUFFICES ASSUME NEW s \in DOMAIN stored, s \in DOMAIN stored', NEW n \in Exchanges,
                      Texts(Old(s), n) \ {<<>>} # {}
               PROVE  Texts(New(s), n) = Texts(Old(s), n) \ {<<>>}
    BY <1>1, <1>4 DEF SavesOnce
  <2>1. n \in Nat
    BY DEF Exchanges
  <2>2. Texts(Old(s), n) = Texts(Old(s), n) \ {<<>>}
    BY <1>1, <2>1, TextsAgree
  <2>3. PICK k \in DOMAIN Old(s) : Old(s)[k].of = n
    BY DEF Texts
  <2>4. n # sent + 1
    BY <1>0, <1>2, <2>3
  <2>5. \A i : i \in DOMAIN New(s) /\ Replies(New(s)[i], n)
                 <=> i \in DOMAIN Old(s) /\ Replies(Old(s)[i], n)
    BY <1>5, <1>6, <2>4 DEF Replies
  <2>6. {i \in DOMAIN New(s) : Replies(New(s)[i], n)} = {i \in DOMAIN Old(s) : Replies(Old(s)[i], n)}
    BY <2>5
  <2>7. /\ Texts(New(s), n) = {New(s)[i].text : i \in {i \in DOMAIN New(s) : Replies(New(s)[i], n)}}
        /\ Texts(Old(s), n) = {Old(s)[i].text : i \in {i \in DOMAIN Old(s) : Replies(Old(s)[i], n)}}
    BY DEF Texts, Replies
  <2>8. \A i \in {i \in DOMAIN Old(s) : Replies(Old(s)[i], n)} : New(s)[i].text = Old(s)[i].text
    BY <1>5
  <2> QED
    BY <2>2, <2>6, <2>7, <2>8
<1>13. id \in DOMAIN stored' => New(id) \in Seq(Message)
  BY <1>5
<1> QED
  BY <1>4, <1>7, <1>8, <1>9, <1>10, <1>11, <1>12, <1>13

-----------------------------------------------------------------------------
(* The list on screen.                                                     *)

LEMMA CoversItself == ASSUME NEW S PROVE Covers(S, S)
BY DEF Covers, Has

LEMMA CoversText ==
    ASSUME NEW A \in Seq(Message), NEW S \in Seq(Message), Covers(A, S),
           NEW n \in Nat, NEW c \in Seq(Nat)
    PROVE  Covers(WithText(A, n, c), WithText(S, n, c))
<1>1. PICK B : B = WithText(A, n, c)
  OBVIOUS
<1>2. PICK T : T = WithText(S, n, c)
  OBVIOUS
<1>3. Written(A, B, n, c)
  BY <1>1, IsWritten
<1>4. Written(S, T, n, c)
  BY <1>2, IsWritten
<1>5. ASSUME NEW i \in DOMAIN S PROVE Has(B, T[i])
  <2>1. PICK j \in DOMAIN A :
           A[j].role = S[i].role /\ A[j].of = S[i].of /\ S[i].text \in {A[j].text, <<>>}
    BY DEF Covers, Has
  <2>2. Replies(A[j], n) <=> Replies(S[i], n)
    BY <2>1 DEF Replies
  <2>3. B[j].role = T[i].role /\ B[j].of = T[i].of /\ T[i].text \in {B[j].text, <<>>}
    BY <1>3, <1>4, <2>1, <2>2 DEF Written
  <2> QED
    BY <1>3, <2>3 DEF Has, Written
<1> QED
  BY <1>1, <1>2, <1>4, <1>5 DEF Covers, Written

LEMMA CoversMore ==
    ASSUME NEW A \in Seq(Message), NEW S \in Seq(Message), Covers(A, S),
           NEW n \in Nat, NEW c \in Seq(Nat),
           \A i \in DOMAIN S : Replies(S[i], n) => S[i].text = <<>>
    PROVE  Covers(WithText(A, n, c), S)
<1>1. PICK B : B = WithText(A, n, c)
  OBVIOUS
<1>3. Written(A, B, n, c)
  BY <1>1, IsWritten
<1>5. ASSUME NEW i \in DOMAIN S PROVE Has(B, S[i])
  <2>1. PICK j \in DOMAIN A :
           A[j].role = S[i].role /\ A[j].of = S[i].of /\ S[i].text \in {A[j].text, <<>>}
    BY DEF Covers, Has
  <2>2. Replies(A[j], n) <=> Replies(S[i], n)
    BY <2>1 DEF Replies
  <2>3. B[j].role = S[i].role /\ B[j].of = S[i].of /\ S[i].text \in {B[j].text, <<>>}
    BY <1>3, <2>1, <2>2 DEF Written
  <2> QED
    BY <1>3, <2>3 DEF Has, Written
<1> QED
  BY <1>1, <1>5 DEF Covers

LEMMA CoversAdded ==
    ASSUME NEW A \in Seq(Message), NEW S \in Seq(Message), Covers(A, S),
           NEW n \in Nat, NEW x \in Additions(n)
    PROVE  Covers(A \o <<UserMessage(n), Reply(n)>>, S \o x)
<1>1. PICK u \in Message : u = UserMessage(n)
  BY Sent
<1>2. PICK r \in Message : r = Reply(n)
  BY Sent
<1>3. PICK B : B = A \o <<u, r>>
  OBVIOUS
<1>4. /\ DOMAIN A \subseteq DOMAIN B /\ \A j \in DOMAIN A : B[j] = A[j]
      /\ \E j \in DOMAIN B : B[j] = u
      /\ \E j \in DOMAIN B : B[j] = r
  <2>1. /\ B \in Seq(Message) /\ Len(B) = Len(A) + 2 /\ Len(A) \in Nat
        /\ \A j \in 1..Len(A) : B[j] = A[j]
        /\ B[Len(A) + 1] = u /\ B[Len(A) + 2] = r
    BY <1>3
  <2>2. DOMAIN A = 1..Len(A) /\ DOMAIN B = 1..(Len(A) + 2)
    BY <2>1
  <2> QED
    BY <2>1, <2>2
<1>5. PICK T : T = S \o x
  OBVIOUS
<1>6. /\ \A i \in DOMAIN S : i \in DOMAIN T /\ T[i] = S[i]
      /\ \A i \in DOMAIN T \ DOMAIN S : T[i] \in {u, r}
  BY <1>1, <1>2, <1>5, MessagesAdded
<1>7. ASSUME NEW i \in DOMAIN T PROVE Has(B, T[i])
  <2>1. CASE i \in DOMAIN S
    <3>1. PICK j \in DOMAIN A :
             A[j].role = S[i].role /\ A[j].of = S[i].of /\ S[i].text \in {A[j].text, <<>>}
      BY <2>1 DEF Covers, Has
    <3> QED
      BY <1>4, <1>6, <2>1, <3>1 DEF Has
  <2>2. CASE i \notin DOMAIN S
    BY <1>4, <1>6, <2>2 DEF Has
  <2> QED
    BY <2>1, <2>2
<1> QED
  BY <1>1, <1>2, <1>3, <1>5, <1>7 DEF Covers

LEMMA ViewIs == ASSUME OnScreen PROVE ViewMatchesStorage
BY DEF OnScreen, ViewMatchesStorage, Agree, Covers, Has, IsShown

\* The list has been read from storage.
LEMMA Loaded ==
    ASSUME Types', activeSessionId' \in DOMAIN stored'
                      => activeMessages' = stored'[activeSessionId'].messages
    PROVE  OnScreen'
<1> SUFFICES ASSUME activeSessionId' \in DOMAIN stored'
             PROVE  Agree(activeMessages', stored'[activeSessionId'].messages, unsaved')
  BY DEF OnScreen
<1>1. stored'[activeSessionId'] \in Session
  BY DEF Types
<1>2. stored'[activeSessionId'].messages \in Seq(Message)
  BY <1>1 DEF Session
<1> QED
  BY <1>2, CoversItself DEF Agree

\* The list stays, and so does the session.
LEMMA ViewStays ==
    ASSUME OnScreen, UNCHANGED view,
           activeSessionId \in DOMAIN stored' =>
               /\ activeSessionId \in DOMAIN stored
               /\ stored'[activeSessionId].messages = stored[activeSessionId].messages
    PROVE  OnScreen'
BY DEF OnScreen, Agree, view

-----------------------------------------------------------------------------
(* Titles.                                                                 *)

LEMMA TitlesStay ==
    ASSUME TitledInv, UNCHANGED <<asked, untitled>>, used \subseteq used',
           DOMAIN stored' \subseteq DOMAIN stored,
           \A s \in DOMAIN stored' : stored'[s].title = stored[s].title,
           DOMAIN sessions' \subseteq DOMAIN stored' \cup untitled
    PROVE  TitledInv'
BY DEF TitledInv, OneTitle

\* A session has asked for a title, and has one unless it is marked.
Asks(id) ==
    /\ id \in used /\ used' = used /\ DOMAIN stored' = DOMAIN stored
    /\ asked' = [asked EXCEPT ![id] = @ + 1]
    /\ untitled' \in {untitled, untitled \cup {id}}
    /\ \A s \in DOMAIN stored \ {id} : stored'[s].title = stored[s].title
    /\ \/ id \in untitled'
       \/ /\ id \in DOMAIN stored /\ stored[id].title = "New Chat"
          /\ stored'[id].title # "New Chat"
    /\ DOMAIN sessions' \subseteq DOMAIN stored' \cup untitled'

LEMMA Asked ==
    ASSUME Types, TitledInv, NEW id, Asks(id)
    PROVE  TitledInv' /\ asked' \in [Sessions -> Nat]
<1>1. /\ id \in Sessions /\ asked[id] \in Nat
      /\ asked' \in [Sessions -> Nat]
      /\ asked'[id] = asked[id] + 1
      /\ \A s \in Sessions \ {id} : asked'[s] = asked[s]
  <2>1. id \in Sessions /\ asked \in [Sessions -> Nat] /\ asked' = [asked EXCEPT ![id] = @ + 1]
    BY DEF Types, Asks
  <2>2. PICK m \in Nat : m = asked[id] + 1
    BY <2>1
  <2>3. asked' = [asked EXCEPT ![id] = m]
    BY <2>1, <2>2
  <2> QED
    BY <2>1, <2>2, <2>3
<1>2. id \in untitled' \/ (asked[id] = 0 /\ id \in used)
  BY DEF Asks, TitledInv, Types
<1>3. ASSUME NEW s \in Sessions, s \notin untitled' PROVE asked'[s] <= 1
  <2>1. CASE s = id
    BY <1>1, <1>2, <1>3, <2>1
  <2>2. CASE s # id
    BY <1>1, <1>3, <2>2 DEF Asks, TitledInv, OneTitle
  <2> QED
    BY <2>1, <2>2
<1>4. \A s \in DOMAIN stored' \ untitled' : stored'[s].title = "New Chat" => asked'[s] = 0
  <2> SUFFICES ASSUME NEW s \in DOMAIN stored, s \notin untitled', stored'[s].title = "New Chat"
               PROVE  asked'[s] = 0
    BY DEF Asks
  <2>1. s # id /\ s \notin untitled /\ stored[s].title = "New Chat" /\ s \in Sessions
    BY DEF Asks, Types
  <2> QED
    BY <1>1, <2>1 DEF TitledInv
<1>5. \A s \in Sessions \ used' : asked'[s] = 0
  BY <1>1 DEF Asks, TitledInv
<1>6. DOMAIN sessions' \ DOMAIN stored' \subseteq untitled' /\ untitled' \subseteq used'
  BY DEF Asks, TitledInv
<1> QED
  BY <1>1, <1>3, <1>4, <1>5, <1>6 DEF TitledInv, OneTitle

-----------------------------------------------------------------------------
(* Every action keeps the invariant, and saves no text twice.              *)

LEMMA InitInv == ASSUME ChatAssumption, Init PROVE IInv
<1>1. Types
  BY DEF ChatAssumption, Init, Types, Open, Mounts
<1>2. Exchanged
  BY DEF Init, Exchanged, Numbered, OneStream, OwnSession, Unwritten, OneText
<1>3. TitledInv /\ OnScreen /\ ProgressHasStream
  BY DEF Init, TitledInv, OneTitle, OnScreen, ProgressHasStream
<1> QED
  BY <1>1, <1>2, <1>3 DEF IInv

\* A step that writes nothing to local storage.
LEMMA NothingStored ==
    ASSUME IInv, UNCHANGED <<stored, used, asked, untitled, sent>>,
           DOMAIN sessions' \subseteq DOMAIN sessions \cup DOMAIN stored,
           fullContentRef' \in [Mounts -> Seq(Nat)], streams' \subseteq streams,
           mount' \in 0..MaxMounts, Open' => mount' # 0,
           OnScreen', ProgressHasStream'
    PROVE  IInv' /\ SavesOnce
<1> USE DEF IInv
<1>1. Types'
  BY DEF Types
<1>2. Exchanged' /\ SavesOnce
  BY QuietKeeps DEF Quiet
<1>3. TitledInv'
  BY TitlesStay DEF TitledInv
<1> QED
  BY <1>1, <1>2, <1>3

\* The list is read from storage by setActiveSession, or stays.
LEMMA SetActiveShows ==
    ASSUME ChatAssumption, IInv, UNCHANGED <<stored, used>>, Types',
           (\E id : SetActive(id)) \/ UNCHANGED view
    PROVE  OnScreen'
<1>1. ASSUME NEW id, SetActive(id) PROVE OnScreen'
  <2>1. None \notin DOMAIN stored
    BY DEF IInv, Types, ChatAssumption
  <2> QED
    BY <1>1, <2>1, Loaded DEF SetActive
<1>2. CASE UNCHANGED view
  BY <1>2, ViewStays DEF IInv
<1> QED
  BY <1>1, <1>2

\* The page, its gate and its URL, the composer, and the frames of a reply.
LEMMA PageKeeps ==
    ASSUME ChatAssumption, IInv,
           \/ \E id : Visit(id) \/ Select(id)
           \/ Validated \/ Rejected \/ Lock \/ Leave \/ Reload
           \/ \E f \in 1..MaxFiles : AddFiles(f) \/ RemoveAttachment(f)
           \/ \E st : Frame(st)
    PROVE  IInv' /\ SavesOnce
<1>0. /\ mount \in 0..MaxMounts /\ (Open => mount # 0) /\ MaxMounts \in Nat
      /\ fullContentRef \in [Mounts -> Seq(Nat)]
      /\ OnScreen /\ ProgressHasStream /\ Types
  BY DEF IInv, Types, ChatAssumption
<1>1. ASSUME NEW id, Visit(id) \/ Select(id)
      PROVE  IInv' /\ SavesOnce
  <2>1. /\ UNCHANGED <<stored, used, asked, untitled, sent, sessions, fullContentRef, streams,
                       isGenerating, streaming, mount>>
        /\ SetActive(id) \/ UNCHANGED view
        /\ Open' => Open
    BY <1>1 DEF Visit, Select, store, kept, live, around, Open
  <2>2. Types'
    BY <1>0, <2>1 DEF Types
  <2>3. OnScreen'
    BY <2>1, <2>2, SetActiveShows
  <2>4. ProgressHasStream'
    BY <1>0, <2>1 DEF ProgressHasStream
  <2> QED
    BY <1>0, <2>1, <2>3, <2>4, NothingStored
<1>2. ASSUME Validated \/ Rejected \/ Lock \/ Leave
      PROVE  IInv' /\ SavesOnce
  <2>1. /\ UNCHANGED <<stored, used, asked, untitled, sent, view, streams, streaming,
                       isGenerating>>
        /\ mount' \in 0..MaxMounts /\ (Open' => mount' # 0)
        /\ fullContentRef' \in [Mounts -> Seq(Nat)]
        /\ DOMAIN sessions' \subseteq DOMAIN sessions \cup DOMAIN stored
    <3>1. CASE Validated
      <4>1. mount' \in Mounts /\ sessions' = summarize(stored) /\ UNCHANGED <<kept, live, view>>
        BY <3>1 DEF Validated
      <4> QED
        BY <1>0, <4>1 DEF Mounts, summarize, kept, live
    <3>2. CASE Rejected
      BY <1>0, <3>2 DEF Rejected, Open, store, kept, live
    <3>3. CASE Lock \/ Leave
      <4>1. Unmounted /\ ~Open'
        BY <3>3 DEF Lock, Leave, Open
      <4>2. [k \in Mounts |-> IF Free(k) THEN <<>> ELSE fullContentRef[k]] \in [Mounts -> Seq(Nat)]
        BY <1>0
      <4> QED
        BY <1>0, <4>1, <4>2 DEF Unmounted, store, kept
    <3> QED
      BY <1>2, <3>1, <3>2, <3>3
  <2>2. OnScreen' /\ ProgressHasStream'
    BY <1>0, <2>1, ViewStays DEF ProgressHasStream
  <2> QED
    BY <2>1, <2>2, NothingStored
<1>3. ASSUME Reload
      PROVE  IInv' /\ SavesOnce
  <2>1. /\ UNCHANGED <<stored, used, asked, untitled, sent>>
        /\ streams' = {} /\ ~isGenerating' /\ streaming' = <<>> /\ mount' = 0
        /\ fullContentRef' \in [Mounts -> Seq(Nat)] /\ ~Open' /\ DOMAIN sessions' = {}
    <3>1. [k \in Mounts |-> <<>>] \in [Mounts -> Seq(Nat)]
      OBVIOUS
    <3>2. DOMAIN <<>> = {}
      OBVIOUS
    <3> QED
      BY <1>3, <3>1, <3>2 DEF Reload, kept, Open
  <2>2. Types'
    BY <1>0, <2>1 DEF Types
  <2>3. OnScreen'
    <3>1. \/ activeSessionId' = None
          \/ activeSessionId' = activeSessionId /\ activeMessages' = Saved(activeSessionId)
      BY <1>3 DEF Reload
    <3>2. None \notin DOMAIN stored
      BY DEF IInv, Types, ChatAssumption
    <3> QED
      BY <2>1, <2>2, <3>1, <3>2, Loaded DEF Saved
  <2>4. ProgressHasStream'
    BY <1>0, <2>1 DEF ProgressHasStream
  <2> QED
    BY <1>0, <2>1, <2>3, <2>4, NothingStored
<1>4. ASSUME NEW f \in 1..MaxFiles, AddFiles(f) \/ RemoveAttachment(f)
      PROVE  IInv' /\ SavesOnce
  <2>1. UNCHANGED rest
    BY <1>4 DEF AddFiles, RemoveAttachment
  <2>2. OnScreen' /\ ProgressHasStream' /\ (Open' => Open)
    BY <1>0, <2>1 DEF OnScreen, ProgressHasStream, Open, rest, store, kept, live, view
  <2>3. UNCHANGED <<stored, used, asked, untitled, sent, sessions, fullContentRef, streams,
                    mount>>
    BY <2>1 DEF rest, store, kept, live
  <2> QED
    BY <1>0, <2>2, <2>3, NothingStored
<1>5. ASSUME NEW st, Frame(st)
      PROVE  IInv' /\ SavesOnce
  <2>1. /\ UNCHANGED <<stored, used, asked, untitled, sent, sessions, fullContentRef, streams,
                       mount, gate, isGenerating, view>>
        /\ st \in streams /\ streaming'[1] = st.of
    BY <1>5 DEF Frame, store, kept
  <2>2. OnScreen' /\ ProgressHasStream' /\ (Open' => Open)
    BY <1>0, <2>1, ViewStays DEF ProgressHasStream, Open
  <2> QED
    BY <1>0, <2>1, <2>2, NothingStored
<1> QED
  BY <1>1, <1>2, <1>3, <1>4, <1>5

\* Sessions are removed, from storage or (when the write fails) only from the list.
Trimmed ==
    /\ UNCHANGED around
    /\ DOMAIN stored' \subseteq DOMAIN stored
    /\ \A s \in DOMAIN stored' : stored'[s] = stored[s]
    /\ stored' \in [DOMAIN stored' -> Session]
    /\ DOMAIN sessions' \subseteq DOMAIN stored'

LEMMA Trims ==
    ASSUME Types, Trimmed, TitledInv
    PROVE  Types' /\ TitledInv' /\ (Exchanged => Exchanged' /\ SavesOnce)
<1>1. /\ UNCHANGED <<used, asked, untitled, sent, streams, mount, gate, fullContentRef>>
  BY DEF Trimmed, around, live
<1>2. Types'
  BY <1>1 DEF Types, Open, Trimmed
<1>3. TitledInv'
  BY <1>1, TitlesStay DEF Trimmed
<1>4. Exchanged => Exchanged' /\ SavesOnce
  BY <1>1, QuietKeeps DEF Quiet, Trimmed
<1> QED
  BY <1>2, <1>3, <1>4

LEMMA SessionsRemoved ==
    ASSUME ChatAssumption, IInv,
           (\E id \in Sessions : DeleteSession(id)) \/ ClearSessions
    PROVE  IInv' /\ SavesOnce
<1>0. Types /\ TitledInv /\ Exchanged /\ OnScreen /\ None \notin DOMAIN stored
  BY DEF IInv, Types, ChatAssumption
<1>1. ASSUME NEW id \in Sessions, DeleteSession(id) PROVE Trimmed /\ OnScreen'
  <2> DEFINE order == SelectSeq(recent, LAMBDA s : s # id)
             copy == [s \in DOMAIN stored \ {id} |-> stored[s]]
  <2>1. UNCHANGED around /\ stored' \in {stored, copy} /\ sessions' = summarize(copy)
    BY <1>1 DEF DeleteSession, writeSessions
  <2>2. DOMAIN copy \subseteq DOMAIN stored /\ \A s \in DOMAIN copy : copy[s] = stored[s]
    OBVIOUS
  <2>3. stored \in [DOMAIN stored -> Session] /\ copy \in [DOMAIN copy -> Session]
    BY <1>0 DEF Types
  <2>4. Trimmed
    BY <2>1, <2>2, <2>3 DEF Trimmed, summarize
  <2>5. Types'
    BY <1>0, <2>4, Trims
  <2>6. \/ activeMessages' = <<>> /\ activeSessionId' = None
        \/ activeSessionId' # None /\ activeMessages' = stored[activeSessionId'].messages
        \/ activeSessionId \notin DOMAIN stored /\ UNCHANGED view
    BY <1>0, <1>1 DEF DeleteSession
  <2>7. CASE activeSessionId' = None \/ activeMessages' = stored[activeSessionId'].messages
    <3>1. activeSessionId' \in DOMAIN stored' =>
             activeMessages' = stored'[activeSessionId'].messages
      BY <1>0, <2>4, <2>7 DEF Trimmed
    <3> QED
      BY <2>4, <2>5, <3>1, Loaded
  <2>8. CASE activeSessionId \notin DOMAIN stored /\ UNCHANGED view
    BY <1>0, <2>4, <2>8, ViewStays DEF Trimmed
  <2> QED
    BY <2>4, <2>6, <2>7, <2>8
<1>2. ASSUME ClearSessions PROVE Trimmed /\ OnScreen'
  <2>1. UNCHANGED around /\ stored' \in {stored, <<>>} /\ sessions' = summarize(<<>>)
    BY <1>2 DEF ClearSessions, writeSessions
  <2>2. DOMAIN <<>> = {} /\ <<>> \in [{} -> Session]
    OBVIOUS
  <2>3. Trimmed
    BY <1>0, <2>1, <2>2 DEF Trimmed, Types, summarize
  <2>4. activeSessionId' \notin DOMAIN stored'
    BY <1>0, <1>2, <2>3 DEF ClearSessions, Trimmed
  <2> QED
    BY <2>3, <2>4 DEF OnScreen
<1>3. ProgressHasStream'
  BY <1>1, <1>2 DEF IInv, Trimmed, around, live, ProgressHasStream
<1> QED
  BY <1>0, <1>1, <1>2, <1>3, Trims DEF IInv

\* The answer to a request for a title.
LEMMA TitleKeeps ==
    ASSUME ChatAssumption, IInv, NEW t, TitleAnswer(t)
    PROVE  IInv' /\ SavesOnce
<1>0. Types /\ TitledInv /\ Exchanged /\ OnScreen /\ stored \in [DOMAIN stored -> Session]
  BY DEF IInv, Types
<1>1. UNCHANGED <<used, asked, sent, view, streaming, fullContentRef, streams, isGenerating,
                  gate, mount>>
  BY DEF TitleAnswer
<1>2. /\ stored' \in [DOMAIN stored -> Session] /\ DOMAIN stored' = DOMAIN stored
      /\ \A s \in DOMAIN stored : stored'[s].messages = stored[s].messages
      /\ DOMAIN sessions' \subseteq DOMAIN stored \cup untitled
      /\ untitled \subseteq untitled' /\ untitled' \subseteq untitled \cup DOMAIN stored
      /\ \A s \in DOMAIN stored \ untitled' :
            stored'[s].title = "New Chat" => stored[s].title = "New Chat"
  <2>1. CASE UNCHANGED <<stored, sessions, untitled>>
    BY <1>0, <2>1 DEF TitledInv
  <2>2. CASE ~UNCHANGED <<stored, sessions, untitled>>
    <3>1. PICK title \in Titles :
             /\ t[1] \in DOMAIN stored
             /\ \E ok \in BOOLEAN :
                   writeSessions([stored EXCEPT ![t[1]].title = title], Touched(t[1]), ok)
             /\ untitled' = IF title = "New Chat" THEN untitled \cup {t[1]} ELSE untitled
      BY <2>2 DEF TitleAnswer
    <3>2. PICK id : id = t[1]
      OBVIOUS
    <3>3. PICK copy : copy = [stored EXCEPT ![id] = [stored[id] EXCEPT !.title = title]]
      OBVIOUS
    <3>4. stored' \in {stored, copy} /\ sessions' = summarize(copy) /\ id \in DOMAIN stored
      BY <3>1, <3>2, <3>3 DEF writeSessions
    <3>5. /\ [stored[id] EXCEPT !.title = title] \in Session
          /\ [stored[id] EXCEPT !.title = title].messages = stored[id].messages
          /\ [stored[id] EXCEPT !.title = title].title = title
      <4>1. stored[id] \in Session
        BY <1>0, <3>4
      <4> QED
        BY <3>1, <4>1 DEF Session
    <3>6. /\ copy \in [DOMAIN stored -> Session]
          /\ \A s \in DOMAIN stored :
                /\ copy[s].messages = stored[s].messages
                /\ copy[s].title = IF s = id THEN title ELSE stored[s].title
      BY <1>0, <3>3, <3>4, <3>5
    <3>7. DOMAIN sessions' = DOMAIN stored
      BY <3>4, <3>6 DEF summarize
    <3> QED
      BY <1>0, <3>1, <3>2, <3>4, <3>6, <3>7
  <2> QED
    BY <2>1, <2>2
<1>3. Types'
  BY <1>0, <1>1, <1>2 DEF Types, Open
<1>4. TitledInv'
  BY <1>0, <1>1, <1>2 DEF Types, TitledInv, OneTitle
<1>5. Exchanged' /\ SavesOnce
  BY <1>0, <1>1, <1>2, QuietKeeps DEF Quiet
<1>6. OnScreen'
  BY <1>0, <1>1, <1>2, ViewStays
<1>7. ProgressHasStream'
  BY <1>1 DEF IInv, ProgressHasStream
<1> QED
  BY <1>3, <1>4, <1>5, <1>6, <1>7 DEF IInv

LEMMA ReplySaved ==
    ASSUME Types, NEW st \in streams, st.session \in DOMAIN stored, NEW c \in Seq(Nat)
    PROVE  /\ WithReply(st, c) \in [DOMAIN stored -> Session]
           /\ \A s \in DOMAIN stored :
                 /\ WithReply(st, c)[s].messages
                       = IF s = st.session THEN WithText(stored[s].messages, st.of, c)
                         ELSE stored[s].messages
                 /\ WithReply(st, c)[s].title = stored[s].title
<1> DEFINE id == st.session
           n == st.of
<1>0. id \in DOMAIN stored /\ n \in Nat
  BY StreamTypes
<1>1. \A s \in DOMAIN stored : stored[s] \in Session
  BY StoredTypes
<1>2. WithText(stored[id].messages, n, c) \in Seq(Message)
  BY <1>0, StoredTypes, TextWritten
<1>3. stored \in [DOMAIN stored -> Session]
  BY DEF Types
<1>4. PICK t \in Seq(Message) : t = WithText(stored[id].messages, n, c)
  BY <1>2
<1>6. WithReply(st, c) = [stored EXCEPT ![id] = [stored[id] EXCEPT !.messages = t]]
  BY <1>4 DEF WithReply
<1> HIDE DEF id, n
<1>7. /\ [stored[id] EXCEPT !.messages = t] \in Session
      /\ [stored[id] EXCEPT !.messages = t].messages = t
      /\ [stored[id] EXCEPT !.messages = t].title = stored[id].title
  BY <1>0, <1>1 DEF Session
<1>5. /\ WithReply(st, c) \in [DOMAIN stored -> Session]
      /\ \A s \in DOMAIN stored :
            /\ WithReply(st, c)[s].messages
                  = IF s = id THEN WithText(stored[s].messages, n, c) ELSE stored[s].messages
            /\ WithReply(st, c)[s].title = stored[s].title
  BY <1>0, <1>3, <1>4, <1>6, <1>7
<1> QED
  BY <1>5 DEF id, n

\* A stream ends without anything being saved of it.
Fails(st) ==
    /\ st \in streams /\ streams' = streams \ {st} /\ sent' = sent
    /\ DOMAIN stored' = DOMAIN stored
    /\ \A s \in DOMAIN stored : stored'[s].messages = stored[s].messages

\* The end of a stream, whose reply shows the text c from then on.
LEMMA EndKeeps ==
    ASSUME ChatAssumption, IInv, NEW st, NEW c \in Seq(Nat),
           \/ Ends(st, c)
           \/ Fails(st) /\ (st.session = activeSessionId => unsaved'),
           unsaved => unsaved', TitledInv',
           stored' \in [DOMAIN stored -> Session], asked' \in [Sessions -> Nat],
           fullContentRef' \in [Mounts -> Seq(Nat)], UNCHANGED outside,
           activeMessages' = WithText(activeMessages, st.of, c),
           ~isGenerating', streaming' = <<>>
    PROVE  IInv' /\ SavesOnce
<1> USE DEF IInv
<1>1. /\ st \in streams /\ st.of \in Nat /\ DOMAIN stored' = DOMAIN stored
      /\ streams' = streams \ {st}
  BY StreamTypes DEF Ends, Fails
<1>2. Types'
  BY <1>1 DEF Types, outside, Open
<1>3. Exchanged' /\ SavesOnce
  <2>1. CASE Ends(st, c)
    BY <2>1, EndsKeeps
  <2>2. CASE Fails(st)
    BY <1>1, <2>2, QuietKeeps DEF Quiet, Fails
  <2> QED
    BY <2>1, <2>2
<1>4. ProgressHasStream'
  BY DEF ProgressHasStream
<1>5. OnScreen'
  <2> DEFINE s == activeSessionId
             A == activeMessages
             S == stored[s].messages
  <2> SUFFICES ASSUME s \in DOMAIN stored
               PROVE  Agree(WithText(A, st.of, c), stored'[s].messages, unsaved')
    BY <1>1 DEF OnScreen, outside
  <2>1. /\ A \in Seq(Message) /\ S \in Seq(Message) /\ Covers(A, S) /\ (~unsaved => A = S)
    BY StoredTypes DEF OnScreen, Agree
  <2>2. WithText(A, st.of, c) \in Seq(Message)
    BY <1>1, <2>1, TextWritten
  <2>3. CASE stored'[s].messages = WithText(S, st.of, c)
    <3>1. Covers(WithText(A, st.of, c), WithText(S, st.of, c))
      BY <1>1, <2>1, CoversText
    <3>2. ~unsaved' => WithText(A, st.of, c) = WithText(S, st.of, c)
      BY <2>1
    <3> QED
      BY <2>2, <2>3, <3>1, <3>2 DEF Agree
  <2>4. CASE stored'[s].messages = S /\ unsaved'
    <3>1. \A i \in DOMAIN S : Replies(S[i], st.of) => S[i].text = <<>>
      BY <1>1 DEF Exchanged, Unwritten
    <3>2. Covers(WithText(A, st.of, c), S)
      BY <1>1, <2>1, <3>1, CoversMore
    <3> QED
      BY <2>2, <2>4, <3>2 DEF Agree
  <2>5. s # st.session => WithText(S, st.of, c) = S
    <3> SUFFICES ASSUME s # st.session PROVE WithText(S, st.of, c) = S
      OBVIOUS
    <3>1. \A i \in DOMAIN S : S[i].of # st.of
      BY <1>1 DEF Exchanged, OwnSession
    <3> QED
      BY <1>1, <2>1, <3>1, TextNotThere
  <2>6. \/ stored'[s].messages = WithText(S, st.of, c)
        \/ stored'[s].messages = S /\ unsaved'
    <3>1. CASE Ends(st, c)
      BY <2>5, <3>1 DEF Ends
    <3>2. CASE Fails(st) /\ (st.session = activeSessionId => unsaved')
      BY <2>5, <3>2 DEF Fails
    <3> QED
      BY <3>1, <3>2
  <2> QED
    BY <2>3, <2>4, <2>6
<1> QED
  BY <1>2, <1>3, <1>4, <1>5

\* An error, a lost connection and a stop end a stream with a text.
LEMMA WriteKeeps ==
    ASSUME ChatAssumption, IInv, NEW st \in streams, NEW c \in Seq(Nat), Write(st, c),
           streams' = streams \ {st}, UNCHANGED <<outside, asked, untitled>>,
           fullContentRef' \in [Mounts -> Seq(Nat)], ~isGenerating', streaming' = <<>>
    PROVE  IInv' /\ SavesOnce
<1> DEFINE id == st.session
           with == WithReply(st, c)
<1>0. Types /\ TitledInv /\ st.of \in Nat /\ stored \in [DOMAIN stored -> Session]
  BY StreamTypes DEF IInv, Types
<1>1. PICK ok \in BOOLEAN :
         /\ Shown(st, c, ok)
         /\ IF id \in DOMAIN stored THEN writeSessions(with, Touched(id), ok)
            ELSE ok /\ UNCHANGED <<stored, recent, sessions, failed>>
  BY DEF Write
<1>2. id \in DOMAIN stored =>
         /\ with \in [DOMAIN stored -> Session]
         /\ \A s \in DOMAIN stored :
               /\ with[s].messages = IF s = id THEN WithText(stored[s].messages, st.of, c)
                                     ELSE stored[s].messages
               /\ with[s].title = stored[s].title
  BY <1>0, ReplySaved
<1> HIDE DEF with
<1>3. /\ stored' = IF id \in DOMAIN stored /\ ok THEN with ELSE stored
      /\ DOMAIN sessions' \subseteq DOMAIN stored \cup DOMAIN sessions
  <2>1. CASE id \in DOMAIN stored
    BY <1>1, <1>2, <2>1 DEF writeSessions, summarize
  <2>2. CASE id \notin DOMAIN stored
    BY <1>1, <2>2
  <2> QED
    BY <2>1, <2>2
<1>4. /\ stored' \in [DOMAIN stored -> Session] /\ DOMAIN stored' = DOMAIN stored
      /\ \A s \in DOMAIN stored : stored'[s].title = stored[s].title
  BY <1>0, <1>2, <1>3
<1>5. /\ activeMessages' = WithText(activeMessages, st.of, c)
      /\ (unsaved => unsaved') /\ (~ok /\ id = activeSessionId => unsaved')
  BY <1>1 DEF Shown
<1>6. CASE ok
  <2>1. Ends(st, c)
    BY <1>2, <1>3, <1>4, <1>6 DEF Ends, outside
  <2>2. TitledInv' /\ asked' \in [Sessions -> Nat]
    BY <1>0, <1>3, <1>4, TitlesStay DEF outside, Types, TitledInv
  <2> QED
    BY <1>4, <1>5, <2>1, <2>2, EndKeeps
<1>7. CASE ~ok
  <2>1. Fails(st) /\ (id = activeSessionId => unsaved')
    BY <1>3, <1>4, <1>5, <1>7 DEF Fails, outside
  <2>2. TitledInv' /\ asked' \in [Sessions -> Nat]
    BY <1>0, <1>3, <1>4, TitlesStay DEF outside, Types, TitledInv
  <2> QED
    BY <1>4, <1>5, <2>1, <2>2, EndKeeps
<1> QED
  BY <1>6, <1>7

LEMMA CompleteKeeps ==
    ASSUME ChatAssumption, IInv, NEW st, Complete(st)
    PROVE  IInv' /\ SavesOnce
<1> DEFINE id == st.session
           c == st.got
           with == WithReply(st, c)
           list == IF id \in DOMAIN stored THEN summarize(stored) ELSE sessions
           asks == st.typed /\ id \in DOMAIN list /\ list[id] = "New Chat"
<1>0. /\ Types /\ TitledInv /\ st \in streams /\ st.of \in Nat /\ c \in Seq(Nat)
      /\ st.mount \in Mounts /\ fullContentRef \in [Mounts -> Seq(Nat)]
      /\ streams' = streams \ {st} /\ UNCHANGED outside
      /\ ~isGenerating' /\ streaming' = <<>> /\ id \in Sessions
      /\ stored \in [DOMAIN stored -> Session]
  BY StreamTypes DEF IInv, Types, Complete, Cleared
<1>1. PICK text \in BOOLEAN, named \in BOOLEAN, title \in Titles :
         LET saved == IF text THEN with ELSE stored
             titled == [saved EXCEPT ![id].title = title]
         IN /\ id \notin DOMAIN stored => text /\ named
            /\ ~asks => named /\ title = "New Chat"
            /\ Shown(st, c, text)
            /\ Stores(text /\ named)
            /\ IF id \notin DOMAIN stored THEN UNCHANGED <<stored, recent, sessions>>
               ELSE /\ stored' = IF asks /\ named THEN titled ELSE saved
                    /\ recent' = IF text \/ (asks /\ named) THEN Touched(id) ELSE recent
                    /\ sessions' = summarize(IF asks THEN titled ELSE with)
            /\ IF ~asks THEN UNCHANGED titles
               ELSE /\ titling' = titling \cup {<<id, st.of>>}
                    /\ asked' = [asked EXCEPT ![id] = @ + 1]
                    /\ untitled' = IF id \in DOMAIN stored /\ named /\ title # "New Chat"
                                   THEN untitled ELSE untitled \cup {id}
  BY DEF Complete, Titled
<1>2. fullContentRef' \in [Mounts -> Seq(Nat)]
  <2>1. [fullContentRef EXCEPT ![st.mount] = <<>>] \in [Mounts -> Seq(Nat)]
    BY <1>0
  <2> QED
    BY <1>0, <2>1 DEF Complete, Cleared
<1>3. /\ activeMessages' = WithText(activeMessages, st.of, c)
      /\ (unsaved => unsaved') /\ (~text /\ id = activeSessionId => unsaved')
  BY <1>1 DEF Shown
<1>4. ASSUME NEW saved, id \in DOMAIN stored, saved = IF text THEN with ELSE stored
      PROVE  /\ saved \in [DOMAIN stored -> Session]
             /\ \A s \in DOMAIN stored :
                   /\ saved[s].messages = IF s = id /\ text
                                          THEN WithText(stored[s].messages, st.of, c)
                                          ELSE stored[s].messages
                   /\ saved[s].title = stored[s].title
  <2>1. /\ with \in [DOMAIN stored -> Session]
        /\ \A s \in DOMAIN stored :
              /\ with[s].messages = IF s = id THEN WithText(stored[s].messages, st.of, c)
                                    ELSE stored[s].messages
              /\ with[s].title = stored[s].title
    BY <1>0, <1>4, ReplySaved
  <2> HIDE DEF with, id, c
  <2> QED
    BY <1>0, <1>4, <2>1
<1>5. /\ stored' \in [DOMAIN stored -> Session] /\ DOMAIN stored' = DOMAIN stored
      /\ \A s \in DOMAIN stored :
            /\ stored'[s].messages = IF s = id /\ text THEN WithText(stored[s].messages, st.of, c)
                                     ELSE stored[s].messages
            /\ stored'[s].title = IF s = id /\ asks /\ named THEN title ELSE stored[s].title
      /\ DOMAIN sessions' \subseteq DOMAIN stored \cup DOMAIN sessions
      /\ id \in DOMAIN stored => DOMAIN sessions' = DOMAIN stored
  <2>1. CASE id \notin DOMAIN stored
    <3>1. UNCHANGED <<stored, sessions>>
      BY <1>1, <2>1
    <3> HIDE DEF asks, c, id
    <3> QED
      BY <1>0, <2>1, <3>1
  <2>2. CASE id \in DOMAIN stored
    <3>1. PICK saved : saved = IF text THEN with ELSE stored
      OBVIOUS
    <3>2. PICK titled : titled = [saved EXCEPT ![id] = [saved[id] EXCEPT !.title = title]]
      OBVIOUS
    <3>3. /\ stored' = IF asks /\ named THEN titled ELSE saved
          /\ sessions' = summarize(IF asks THEN titled ELSE with)
      BY <1>1, <2>2, <3>1, <3>2
    <3>4. /\ saved \in [DOMAIN stored -> Session]
          /\ \A s \in DOMAIN stored :
                /\ saved[s].messages = IF s = id /\ text
                                       THEN WithText(stored[s].messages, st.of, c)
                                       ELSE stored[s].messages
                /\ saved[s].title = stored[s].title
      BY <1>4, <2>2, <3>1
    <3>5. DOMAIN with = DOMAIN stored
      BY DEF WithReply
    <3> HIDE DEF with, asks, c, id
    <3>6. /\ titled \in [DOMAIN stored -> Session]
          /\ \A s \in DOMAIN stored :
                /\ titled[s].messages = saved[s].messages
                /\ titled[s].title = IF s = id THEN title ELSE saved[s].title
      <4>1. saved[id] \in Session
        BY <2>2, <3>4
      <4>2. /\ [saved[id] EXCEPT !.title = title] \in Session
            /\ [saved[id] EXCEPT !.title = title].messages = saved[id].messages
            /\ [saved[id] EXCEPT !.title = title].title = title
        BY <1>1, <4>1 DEF Session
      <4> QED
        BY <2>2, <3>2, <3>4, <4>2
    <3>7. DOMAIN sessions' = DOMAIN stored
      BY <3>3, <3>5, <3>6 DEF summarize
    <3>8. stored' \in [DOMAIN stored -> Session]
      BY <3>3, <3>4, <3>6
    <3>9. \A s \in DOMAIN stored :
             /\ stored'[s].messages = saved[s].messages
             /\ stored'[s].title = IF s = id /\ asks /\ named THEN title ELSE saved[s].title
      BY <3>3, <3>6
    <3> QED
      BY <3>4, <3>7, <3>8, <3>9
  <2> QED
    BY <2>1, <2>2
<1>6. TitledInv' /\ asked' \in [Sessions -> Nat]
  <2>1. CASE ~asks
    <3>1. UNCHANGED <<asked, untitled>> /\ named
      BY <1>1, <2>1 DEF titles
    <3> HIDE DEF id, c, with, list
    <3>2. \A s \in DOMAIN stored' : stored'[s].title = stored[s].title
      BY <1>5, <2>1
    <3> QED
      BY <1>0, <1>5, <3>1, <3>2, TitlesStay DEF outside, Types, TitledInv
  <2>2. CASE asks
    <3>1. /\ asked' = [asked EXCEPT ![id] = @ + 1]
          /\ untitled' = IF id \in DOMAIN stored /\ named /\ title # "New Chat"
                         THEN untitled ELSE untitled \cup {id}
      BY <1>1, <2>2
    <3>2. /\ id \in used
          /\ id \in DOMAIN stored => stored[id].title = "New Chat"
      <4>1. CASE id \in DOMAIN stored
        BY <1>0, <2>2, <4>1 DEF Types, summarize
      <4>2. CASE id \notin DOMAIN stored
        BY <1>0, <2>2, <4>2 DEF TitledInv
      <4> QED
        BY <4>1, <4>2
    <3>3. asks
      BY <2>2
    <3> HIDE DEF id, c, with, list, asks
    <3>4. \/ id \in untitled'
          \/ /\ id \in DOMAIN stored /\ stored[id].title = "New Chat"
             /\ stored'[id].title # "New Chat"
      BY <1>5, <3>1, <3>2, <3>3
    <3>5. DOMAIN sessions' \subseteq DOMAIN stored' \cup untitled'
      BY <1>0, <1>5, <3>1 DEF TitledInv
    <3>6. Asks(id)
      BY <1>0, <1>5, <3>1, <3>2, <3>4, <3>5 DEF Asks, outside, id
    <3> QED
      BY <1>0, <3>6, Asked
  <2> QED
    BY <2>1, <2>2
<1> HIDE DEF asks, list, with
<1>7. CASE text
  <2>1. Ends(st, c)
    BY <1>0, <1>5, <1>7 DEF Ends, outside
  <2> HIDE DEF c
  <2> QED
    BY <1>0, <1>2, <1>3, <1>5, <1>6, <2>1, EndKeeps
<1>8. CASE ~text
  <2>1. Fails(st) /\ (id = activeSessionId => unsaved')
    BY <1>0, <1>3, <1>5, <1>8 DEF Fails, outside
  <2> HIDE DEF c
  <2> QED
    BY <1>0, <1>2, <1>3, <1>5, <1>6, <2>1, EndKeeps
<1> QED
  BY <1>7, <1>8

\* A body that begins, an error whose text is on its way, and a chunk.
LEMMA StreamKeeps ==
    ASSUME IInv, NEW st, NEW to, GoesOn(st, to),
           UNCHANGED <<outside, saving, streaming, isGenerating, titles>>,
           fullContentRef' \in [Mounts -> Seq(Nat)]
    PROVE  IInv' /\ SavesOnce
<1> USE DEF IInv
<1>0. /\ stored' = stored
      /\ UNCHANGED <<used, sent, mount, gate, sessions, asked, untitled, view>>
  BY DEF GoesOn, outside, saving, titles, view
<1>1. Types'
  BY <1>0 DEF Types, GoesOn, Open
<1>2. Exchanged' /\ SavesOnce
  BY GoesOnKeeps
<1>3. TitledInv'
  BY <1>0, TitlesStay DEF TitledInv
<1>4. OnScreen'
  BY <1>0, ViewStays
<1>5. ProgressHasStream'
  BY DEF ProgressHasStream, GoesOn
<1> QED
  BY <1>1, <1>2, <1>3, <1>4, <1>5

LEMMA ReplyKeeps ==
    ASSUME ChatAssumption, IInv, NEW st,
           Answered(st) \/ ErrorText(st) \/ Chunk(st) \/ Complete(st) \/ ConnectionError(st)
    PROVE  IInv' /\ SavesOnce
<1>0. /\ st \in streams /\ st \in Stream /\ st.of \in Nat /\ st.mount \in Mounts
      /\ st.got \in Seq(Nat) /\ fullContentRef[st.mount] \in Seq(Nat)
      /\ fullContentRef \in [Mounts -> Seq(Nat)] /\ Types
  BY StreamTypes DEF IInv, Types, Answered, ErrorText, Chunk, Complete, ConnectionError
<1>1. <<0>> \in Seq(Nat) /\ <<>> \in Seq(Nat)
  OBVIOUS
<1>2. [fullContentRef EXCEPT ![st.mount] = <<>>] \in [Mounts -> Seq(Nat)]
  BY <1>0, <1>1
<1>3. ASSUME NEW c \in Seq(Nat), Write(st, c), Cleared(st), UNCHANGED <<outside, titles>>
      PROVE  IInv' /\ SavesOnce
  <2>1. /\ UNCHANGED <<outside, asked, untitled>>
        /\ streams' = streams \ {st} /\ ~isGenerating' /\ streaming' = <<>>
    BY <1>3 DEF Cleared, titles
  <2>2. fullContentRef' \in [Mounts -> Seq(Nat)]
    BY <1>0, <1>2, <1>3 DEF Cleared
  <2> QED
    BY <1>0, <1>3, <2>1, <2>2, WriteKeeps
<1>4. ASSUME Answered(st) PROVE IInv' /\ SavesOnce
  <2>1. ASSUME NEW at \in {"body", "error"},
               streams' = (streams \ {st}) \cup {[st EXCEPT !.at = at]},
               fullContentRef' \in [Mounts -> Seq(Nat)],
               UNCHANGED <<saving, streaming, isGenerating>>
        PROVE  IInv' /\ SavesOnce
    <3> DEFINE to == [st EXCEPT !.at = at]
    <3>1. to \in Stream /\ to.of = st.of /\ to.session = st.session
      BY <1>0, <2>1 DEF Stream
    <3>2. UNCHANGED <<outside, titles>>
      BY <1>4 DEF Answered
    <3>3. GoesOn(st, to)
      BY <1>0, <2>1, <3>1, <3>2 DEF GoesOn, outside, saving
    <3> HIDE DEF to
    <3> QED
      BY <2>1, <3>2, <3>3, StreamKeeps
  <2>2. UNCHANGED <<outside, titles>>
    BY <1>4 DEF Answered
  <2>3. \/ /\ streams' = (streams \ {st}) \cup {[st EXCEPT !.at = "body"]}
           /\ fullContentRef' = [fullContentRef EXCEPT ![st.mount] = <<>>]
           /\ UNCHANGED <<saving, streaming, isGenerating>>
        \/ /\ streams' = (streams \ {st}) \cup {[st EXCEPT !.at = "error"]}
           /\ UNCHANGED <<saving, streaming, isGenerating, fullContentRef>>
        \/ Write(st, << 0 >>) /\ Cleared(st)
    BY <1>4 DEF Answered
  <2>4. CASE Write(st, << 0 >>) /\ Cleared(st)
    BY <1>1, <1>3, <2>2, <2>4
  <2>5. CASE /\ streams' = (streams \ {st}) \cup {[st EXCEPT !.at = "body"]}
             /\ fullContentRef' = [fullContentRef EXCEPT ![st.mount] = <<>>]
             /\ UNCHANGED <<saving, streaming, isGenerating>>
    BY <1>2, <2>1, <2>5
  <2>6. CASE /\ streams' = (streams \ {st}) \cup {[st EXCEPT !.at = "error"]}
             /\ UNCHANGED <<saving, streaming, isGenerating, fullContentRef>>
    BY <1>0, <2>1, <2>6
  <2> QED
    BY <2>3, <2>4, <2>5, <2>6
<1>5. ASSUME ErrorText(st) PROVE IInv' /\ SavesOnce
  <2>1. Write(st, <<0>>) /\ Cleared(st) /\ UNCHANGED <<outside, titles>>
    BY <1>5 DEF ErrorText
  <2> QED
    BY <1>1, <1>3, <2>1
<1>6. ASSUME Chunk(st) PROVE IInv' /\ SavesOnce
  <2> DEFINE more == Append(st.got, st.of)
             to == [st EXCEPT !.got = more]
  <2>1. more \in Seq(Nat)
    BY <1>0
  <2>2. /\ streams' = (streams \ {st}) \cup {to}
        /\ fullContentRef' = [fullContentRef EXCEPT ![st.mount] = more]
        /\ UNCHANGED <<outside, saving, streaming, isGenerating, titles>>
    BY <1>6 DEF Chunk
  <2> HIDE DEF more
  <2>3. to \in Stream /\ to.of = st.of /\ to.session = st.session
    BY <1>0, <2>1 DEF Stream
  <2>4. GoesOn(st, to)
    BY <1>0, <2>2, <2>3 DEF GoesOn, outside, saving
  <2>5. fullContentRef' \in [Mounts -> Seq(Nat)]
    BY <1>0, <2>1, <2>2
  <2> HIDE DEF to
  <2> QED
    BY <2>2, <2>4, <2>5, StreamKeeps
<1>7. ASSUME ConnectionError(st) PROVE IInv' /\ SavesOnce
  <2> DEFINE c == Append(fullContentRef[st.mount], 0)
  <2>1. Write(st, c) /\ Cleared(st) /\ UNCHANGED <<outside, titles>>
    BY <1>7 DEF ConnectionError
  <2>2. c \in Seq(Nat)
    BY <1>0
  <2> HIDE DEF c
  <2> QED
    BY <1>3, <2>1, <2>2
<1> QED
  BY <1>4, <1>5, <1>6, <1>7, CompleteKeeps

LEMMA StopKeeps ==
    ASSUME ChatAssumption, IInv, Stop
    PROVE  IInv' /\ SavesOnce
<1>0. /\ ~isGenerating' /\ UNCHANGED <<outside, fullContentRef, asked, untitled>>
      /\ Open /\ mount \in Mounts /\ fullContentRef[mount] \in Seq(Nat)
      /\ fullContentRef \in [Mounts -> Seq(Nat)]
  BY DEF Stop, IInv, Types, Mounts, ChatAssumption, titles
<1>1. ASSUME UNCHANGED saving, streams' \subseteq streams,
             UNCHANGED <<streaming, streams>> \/ streaming' = <<>>
      PROVE  IInv' /\ SavesOnce
  <2>1. /\ UNCHANGED <<stored, used, asked, untitled, sent, sessions, mount, gate, view>>
        /\ fullContentRef' \in [Mounts -> Seq(Nat)]
    BY <1>0, <1>1 DEF outside, saving, view
  <2>2. OnScreen' /\ mount \in 0..MaxMounts /\ (Open' => mount # 0)
    BY <2>1, ViewStays DEF IInv, Types, Open
  <2>3. ProgressHasStream'
    BY <1>0, <1>1 DEF IInv, ProgressHasStream
  <2> QED
    BY <1>1, <2>1, <2>2, <2>3, NothingStored
<1>2. ASSUME NEW st \in streams, streams' = streams \ {st}, streaming' = <<>>,
             Write(st, fullContentRef[mount])
      PROVE  IInv' /\ SavesOnce
  <2> DEFINE c == fullContentRef[mount]
  <2>1. c \in Seq(Nat) /\ Write(st, c)
    BY <1>0, <1>2
  <2> HIDE DEF c
  <2> QED
    BY <1>0, <1>2, <2>1, WriteKeeps
<1> QED
  <2>1. CASE abortRef[mount] = 0
    BY <1>1, <2>1 DEF Stop
  <2>2. CASE abortRef[mount] # 0
    <3>1. PICK st \in streams :
             /\ streams' = streams \ {st} /\ streaming' = <<>>
             /\ Write(st, fullContentRef[mount]) \/ UNCHANGED saving
      BY <2>2 DEF Stop
    <3> QED
      BY <1>1, <1>2, <3>1
  <2> QED
    BY <2>1, <2>2

LEMMA SendKeeps ==
    ASSUME ChatAssumption, IInv, NEW id \in Sessions, NEW typed \in BOOLEAN, NEW saved,
           Send(id, typed, saved)
    PROVE  IInv' /\ SavesOnce
<1> DEFINE n == sent + 1
           new == id \notin used
           there == IF new THEN "session" \in saved ELSE id \in DOMAIN stored
           both == <<UserMessage(n), Reply(n)>>
           old == IF new THEN [title |-> "New Chat", messages |-> <<>>] ELSE stored[id]
           writes == (IF new THEN {"session"} ELSE {})
                     \cup (IF there THEN {"user", "assistant"} ELSE {})
           to == [of |-> n, session |-> id, mount |-> mount, at |-> "headers", got |-> <<>>,
                  typed |-> typed]
           x == Added(n, saved)
           all == Saved(id) \o x
<1>0. /\ Types /\ TitledInv /\ n \in Nat /\ mount \in Mounts
      /\ sent' = n /\ used' = used \cup {id} /\ streams' = streams \cup {to}
      /\ activeSessionId' = id /\ streaming' = <<n, <<>>>>
      /\ UNCHANGED <<gate, mount, fullContentRef, asked>>
      /\ Target(id) /\ (id \in DOMAIN stored => id \in used)
      /\ saved \subseteq writes
  <2>1. Types /\ TitledInv /\ Open
    BY DEF IInv, Send
  <2>2. sent \in Nat /\ DOMAIN stored \subseteq used /\ mount \in Mounts
    BY <2>1 DEF Types, Mounts, ChatAssumption
  <2>3. /\ sent' = n /\ used' = used \cup {id} /\ streams' = streams \cup {to}
        /\ activeSessionId' = id /\ streaming' = <<n, <<>>>>
        /\ UNCHANGED <<gate, mount, fullContentRef, asked>>
        /\ Target(id) /\ saved \subseteq writes
    BY DEF Send
  <2> QED
    BY <2>1, <2>2, <2>3
<1>1. /\ stored' = IF there THEN [s \in DOMAIN stored \cup {id} |->
                                    IF s = id THEN [old EXCEPT !.messages = @ \o x]
                                    ELSE stored[s]]
                   ELSE stored
      /\ DOMAIN sessions' \subseteq IF writes # {} THEN DOMAIN stored \cup {id}
                                    ELSE DOMAIN sessions
      /\ untitled' = IF new /\ ~there THEN untitled \cup {id} ELSE untitled
      /\ activeMessages' = IF new THEN both ELSE activeMessages \o both
      /\ unsaved' = (writes # saved \/ (unsaved /\ ~new))
  BY DEF Send
<1>2. to \in Stream /\ to.of = n /\ to.session = id
  BY <1>0 DEF Stream
<1>3. Saved(id) \in Seq(Message)
  BY <1>0, StoredTypes DEF Saved
<1>4. x \in Additions(n) /\ all \in Seq(Message)
  <2>1. PICK k \in Nat : k = n
    BY <1>0
  <2>2. PICK y \in Additions(k) : y = x
    BY <2>1, AddedIs
  <2> QED
    BY <1>0, <1>3, <2>1, <2>2, MessagesAdded
<1>5. CASE there
  <2>1. /\ DOMAIN stored' = DOMAIN stored \cup {id}
        /\ stored'[id] = [old EXCEPT !.messages = @ \o x]
        /\ \A s \in DOMAIN stored \ {id} : stored'[s] = stored[s]
    BY <1>1, <1>5
  <2>2. /\ old \in Session /\ old.messages = Saved(id)
        /\ old.title = "New Chat" => id \notin used \/ stored[id].title = "New Chat"
    <3>1. CASE new
      <4>1. Saved(id) = <<>> /\ <<>> \in Seq(Message)
        BY <1>0, <3>1 DEF Saved
      <4>2. old = [title |-> "New Chat", messages |-> <<>>]
        BY <3>1
      <4> QED
        BY <3>1, <4>1, <4>2 DEF Session, Titles
    <3>2. CASE ~new
      BY <1>0, <1>5, <3>2, StoredTypes DEF Saved
    <3> QED
      BY <3>1, <3>2
  <2>3. /\ stored'[id] \in Session /\ stored'[id].messages = all
        /\ stored'[id].title = old.title
    <3>1. all = old.messages \o x
      BY <2>2
    <3>2. stored'[id] = [old EXCEPT !.messages = all] /\ all \in Seq(Message)
      BY <1>4, <2>1, <3>1
    <3> HIDE DEF all, to, old, both, x
    <3> QED
      BY <2>2, <3>2 DEF Session
  <2>4. stored' \in [DOMAIN stored' -> Session]
    <3> HIDE DEF all, to, old, x
    <3>1. \A s \in DOMAIN stored' : stored'[s] \in Session
      BY <1>0, <2>1, <2>3, StoredTypes
    <3>2. stored' = [s \in DOMAIN stored' |-> stored'[s]]
      BY <1>1, <1>5
    <3> QED
      BY <3>1, <3>2
  <2>5. Types'
    <3> HIDE DEF all, to, old, x
    <3> QED
      BY <1>0, <1>2, <2>1, <2>4 DEF Types, Open
  <2>6. Sends(id, to, x)
    <3> HIDE DEF to, old, x
    <3> QED
      BY <1>0, <1>2, <1>4, <2>1, <2>3 DEF Sends, all
  <2>7. TitledInv'
    <3>1. asked \in [Sessions -> Nat] /\ used \subseteq Sessions /\ id \in used'
      BY <1>0 DEF Types
    <3>2. old.title = "New Chat" => asked[id] = 0 \/ id \in untitled
      BY <1>0, <1>5, <2>2 DEF TitledInv
    <3>3. untitled' = untitled
      BY <1>1, <1>5
    <3>4. DOMAIN sessions' \subseteq DOMAIN stored' \cup untitled
      BY <1>0, <1>1, <2>1 DEF TitledInv
    <3> HIDE DEF all, to, old, x, there, new, writes
    <3>5. OneTitle'
      BY <1>0, <3>3 DEF TitledInv, OneTitle
    <3>6. \A s \in DOMAIN stored' \ untitled' : stored'[s].title = "New Chat" => asked'[s] = 0
      BY <1>0, <2>1, <2>3, <3>2, <3>3 DEF TitledInv
    <3>7. untitled' \subseteq used' /\ \A s \in Sessions \ used' : asked'[s] = 0
      BY <1>0, <3>3 DEF TitledInv
    <3> QED
      BY <3>3, <3>4, <3>5, <3>6, <3>7 DEF TitledInv
  <2>8. OnScreen'
    <3> SUFFICES Agree(activeMessages', all, unsaved')
      BY <1>0, <2>3 DEF OnScreen
    <3>1. PICK A \in Seq(Message) :
             /\ Covers(A, Saved(id)) /\ activeMessages' = A \o both
             /\ ~unsaved' => A = Saved(id)
      <4>1. CASE new
        <5>1. Saved(id) = <<>> /\ both \in Seq({UserMessage(n), Reply(n)})
          BY <1>0, <4>1 DEF Saved
        <5>2. <<>> \o both = both
          BY <5>1
        <5>3. Covers(<<>>, <<>>) /\ <<>> \in Seq(Message)
          BY CoversItself
        <5> QED
          BY <1>1, <4>1, <5>1, <5>2, <5>3
      <4>2. CASE ~new
        <5>1. activeSessionId = id /\ id \in DOMAIN stored
          BY <1>0, <1>5, <4>2 DEF Target
        <5>2. Agree(activeMessages, Saved(id), unsaved)
          BY <5>1 DEF IInv, OnScreen, Saved
        <5> HIDE DEF both, writes
        <5> QED
          BY <1>1, <4>2, <5>2 DEF Agree
      <4> QED
        BY <4>1, <4>2
    <3>2. PICK k \in Nat : k = n
      BY <1>0
    <3>3. PICK S \in Seq(Message) : S = Saved(id)
      BY <1>3
    <3>4. PICK y \in Additions(k) : y = x
      BY <1>4, <3>2
    <3>5. Covers(A \o <<UserMessage(k), Reply(k)>>, S \o y)
      BY <3>1, <3>3, CoversAdded
    <3>6. Covers(activeMessages', all)
      BY <3>1, <3>2, <3>3, <3>4, <3>5
    <3>7. A \o both \in Seq(Message)
      <4>1. <<UserMessage(k), Reply(k)>> \in Additions(k)
        BY DEF Additions
      <4>2. A \o <<UserMessage(k), Reply(k)>> \in Seq(Message)
        BY <4>1, MessagesAdded
      <4> QED
        BY <3>2, <4>2
    <3>8. ~unsaved' => activeMessages' = all
      <4> SUFFICES ASSUME ~unsaved' PROVE activeMessages' = all
        OBVIOUS
      <4>1. writes = saved
        BY <1>1
      <4>2. "user" \in saved /\ "assistant" \in saved
        BY <1>5, <4>1
      <4>3. x = both
        BY <4>2, Pair DEF Added
      <4> QED
        BY <3>1, <4>3
    <3> QED
      BY <3>1, <3>6, <3>7, <3>8 DEF Agree
  <2> HIDE DEF all, to, old, x, there, new, writes, both
  <2>9. Exchanged' /\ SavesOnce
    BY <1>0, <2>6, SendsKeeps DEF IInv
  <2>10. ProgressHasStream'
    BY <1>0, <1>2 DEF ProgressHasStream
  <2> QED
    BY <2>5, <2>7, <2>8, <2>9, <2>10 DEF IInv
<1>6. CASE ~there
  <2>1. stored' = stored /\ id \notin DOMAIN stored
    BY <1>0, <1>1, <1>6
  <2>2. /\ untitled' = IF new THEN untitled \cup {id} ELSE untitled
        /\ DOMAIN sessions' \subseteq IF new THEN DOMAIN stored \cup {id} ELSE DOMAIN sessions
    BY <1>1, <1>6
  <2> HIDE DEF all, to, x, there, writes, old, both
  <2>3. Types'
    BY <1>0, <1>2, <2>1 DEF Types, Open
  <2>4. Sends(id, to, x)
    BY <1>0, <1>2, <1>4, <2>1 DEF Sends
  <2>5. TitledInv'
    BY <1>0, <2>1, <2>2 DEF TitledInv, OneTitle
  <2>6. OnScreen'
    BY <1>0, <2>1 DEF OnScreen
  <2>7. Exchanged' /\ SavesOnce
    BY <1>0, <2>4, SendsKeeps DEF IInv
  <2>8. ProgressHasStream'
    BY <1>0, <1>2 DEF ProgressHasStream
  <2> QED
    BY <2>3, <2>5, <2>6, <2>7, <2>8 DEF IInv
<1> QED
  BY <1>5, <1>6

LEMMA NextKeeps ==
    ASSUME ChatAssumption, IInv, [Next]_chatVars
    PROVE  IInv' /\ (Next => SavesOnce)
<1>1. ASSUME Next PROVE IInv' /\ SavesOnce
  <2>1. ASSUME NEW st \in streams, ReplyStep(st) PROVE IInv' /\ SavesOnce
    BY <2>1, ReplyKeeps, PageKeeps DEF ReplyStep
  <2>2. ASSUME NEW f \in 1..MaxFiles, AddFiles(f) \/ RemoveAttachment(f)
        PROVE  IInv' /\ SavesOnce
    BY <2>2, PageKeeps
  <2>3. ASSUME NEW id, Visit(id) \/ Select(id) PROVE IInv' /\ SavesOnce
    BY <2>3, PageKeeps
  <2>4. ASSUME NEW t \in titling, TitleAnswer(t) PROVE IInv' /\ SavesOnce
    BY <2>4, TitleKeeps
  <2>5. ASSUME NEW id \in Sessions, NEW typed \in BOOLEAN, NEW saved, Send(id, typed, saved)
        PROVE  IInv' /\ SavesOnce
    BY <2>5, SendKeeps
  <2>6. ASSUME Validated \/ Rejected \/ Lock \/ Leave \/ Reload PROVE IInv' /\ SavesOnce
    BY <2>6, PageKeeps
  <2> QED
    BY <1>1, <2>1, <2>2, <2>3, <2>4, <2>5, <2>6, SessionsRemoved, StopKeeps DEF Next
<1>2. ASSUME UNCHANGED chatVars PROVE IInv'
  <2>1. UNCHANGED <<stored, used, asked, untitled, sent, sessions, fullContentRef, streams, view>>
    BY <1>2 DEF chatVars, view
  <2>2. OnScreen' /\ ProgressHasStream'
    BY <1>2, <2>1, ViewStays DEF chatVars, IInv, ProgressHasStream
  <2>3. mount' \in 0..MaxMounts /\ (Open' => mount' # 0)
        /\ fullContentRef' \in [Mounts -> Seq(Nat)]
    BY <1>2 DEF chatVars, IInv, Types, Open
  <2> QED
    BY <2>1, <2>2, <2>3, NothingStored
<1> QED
  BY <1>1, <1>2

LEMMA Inductive == ASSUME ChatAssumption PROVE Spec => []IInv
<1>1. Init => IInv
  BY InitInv
<1>2. IInv /\ [Next]_chatVars => IInv'
  BY NextKeeps
<1> QED
  BY <1>1, <1>2, PTL DEF Spec

\* Storage has nothing of the active session that the screen lacks, and the two are
\* the same unless a write of the session failed since its list was read, however
\* replies that go on in other sessions, deletions and visits interleave, and
\* whichever writes the browser refuses (stores/chat.ts).
THEOREM ViewIsStored == ASSUME ChatAssumption PROVE Spec => []ViewMatchesStorage
<1>1. IInv => ViewMatchesStorage
  BY ViewIs DEF IInv
<1> QED
  BY <1>1, Inductive, PTL

\* Nothing is shown as being written that no stream writes, so no input box stays
\* disabled (the finally block of sendMessage).
THEOREM ProgressEnds == ASSUME ChatAssumption PROVE Spec => []ProgressHasStream
<1>1. IInv => ProgressHasStream
  BY DEF IInv
<1> QED
  BY <1>1, Inductive, PTL

\* A session asks for its title at most once, unless a title of it could not be
\* stored or is "New Chat" itself (generateSessionTitle).
THEOREM TitledOnce == ASSUME ChatAssumption PROVE Spec => []OneTitle
<1>1. IInv => OneTitle
  BY DEF IInv, TitledInv
<1> QED
  BY <1>1, Inductive, PTL

\* A reply that was saved is not written over: not by a late chunk, a stop, an
\* error or the stream of another mount (saveMessage).
THEOREM RepliesAreSavedOnce == ASSUME ChatAssumption PROVE Spec => [][SavesOnce]_chatVars
<1>1. IInv /\ [Next]_chatVars => [SavesOnce]_chatVars
  BY NextKeeps
<1> QED
  BY <1>1, Inductive, PTL DEF Spec

-----------------------------------------------------------------------------
(* The reply on screen.  First, the parser: what it makes of a text, and   *)
(* what of the text with more behind it.                                   *)

Characters == {Backtick, Newline, Other}
Text == Seq(Characters)
Pieces == {View!Md(x) : x \in Text}
          \cup {View!Code(l, x, b) : l \in Text, x \in Text, b \in BOOLEAN}

\* A set of numbers that is not empty has a least element: the induction that the
\* lemmas about positions rest on.
LEMMA LeastOf ==
    ASSUME NEW T \in SUBSET Nat, T # {}
    PROVE  \E m \in T : \A k \in T : m <= k
<1> DEFINE R == {ss \in Nat \X Nat : ss[1] < ss[2]}
<1>1. IsWellFoundedOn(R, Nat)
  BY NatLessThanWellFounded DEF OpToRel
<1>2. PICK m \in T : \A y \in T : ~ (<<y, m>> \in R)
  BY <1>1, WFMin
<1>3. ASSUME NEW k \in T, k < m PROVE FALSE
  BY <1>2, <1>3
<1> QED
  BY <1>3

\* IndexOf gives the least place.
LEMMA FirstIs ==
    ASSUME NEW T \in SUBSET Nat, T # {}
    PROVE  View!Min(T) \in T /\ \A k \in T : View!Min(T) <= k
<1>1. \E m \in T : \A k \in T : m <= k
  BY LeastOf
<1> QED
  BY <1>1 DEF View!Min

\* Where a pattern is found in a text is still found when the text grows, and what
\* is found then within the text was found before.
LEMMA FoundIn ==
    ASSUME NEW s \in Text, NEW p \in Text, NEW c \in Nat
    PROVE  /\ View!Finds(s, p, c) \in SUBSET Nat
           /\ \A i \in View!Finds(s, p, c) : c <= i /\ i + Len(p) - 1 <= Len(s)
BY DEF View!Finds, Text

LEMMA FoundStays ==
    ASSUME NEW s \in Text, NEW d \in Text, NEW p \in Text, p # <<>>, NEW c \in Nat \ {0},
           NEW i \in Nat, i + Len(p) - 1 <= Len(s)
    PROVE  i \in View!Finds(s, p, c) <=> i \in View!Finds(s \o d, p, c)
<1>1. /\ s \o d \in Text /\ Len(s \o d) = Len(s) + Len(d) /\ Len(d) \in Nat /\ Len(s) \in Nat
      /\ Len(p) \in Nat \ {0}
  BY ConcatProperties, LenProperties, EmptySeq DEF Text
<1>2. CASE c <= i
  <2>1. i \in 1..Len(s) /\ i + Len(p) - 1 \in 1..Len(s)
    BY <1>1, <1>2
  <2>2. SubSeq(s \o d, i, i + Len(p) - 1) = SubSeq(s, i, i + Len(p) - 1)
    BY <2>1, SubSeqOfConcat1 DEF Text
  <2> QED
    BY <1>1, <1>2, <2>2 DEF View!Finds
<1>3. CASE ~ c <= i
  BY <1>1, <1>3 DEF View!Finds
<1> QED
  BY <1>2, <1>3

LEMMA FirstStays ==
    ASSUME NEW s \in Text, NEW d \in Text, NEW p \in Text, p # <<>>, NEW c \in Nat \ {0},
           View!Finds(s, p, c) # {}
    PROVE  /\ View!IndexOf(s, p, c) \in Nat /\ c <= View!IndexOf(s, p, c)
           /\ View!IndexOf(s, p, c) + Len(p) - 1 <= Len(s)
           /\ View!Finds(s \o d, p, c) # {}
           /\ View!IndexOf(s \o d, p, c) = View!IndexOf(s, p, c)
<1> DEFINE F == View!Finds(s, p, c)
           G == View!Finds(s \o d, p, c)
<1>1. s \o d \in Text /\ Len(p) \in Nat /\ Len(s) \in Nat
  BY ConcatProperties, LenProperties DEF Text
<1>2. F \in SUBSET Nat /\ \A i \in F : c <= i /\ i + Len(p) - 1 <= Len(s)
  BY FoundIn
<1>3. G \in SUBSET Nat
  BY <1>1, FoundIn
<1>4. PICK m \in F : m = View!Min(F) /\ \A k \in F : m <= k
  BY <1>2, FirstIs
<1>5. m \in Nat /\ c <= m /\ m + Len(p) - 1 <= Len(s)
  BY <1>2, <1>4
<1>6. m \in G
  BY <1>4, <1>5, FoundStays
<1>7. PICK n \in G : n = View!Min(G) /\ \A k \in G : n <= k
  BY <1>3, <1>6, FirstIs
<1>8. n <= m /\ n \in Nat
  BY <1>3, <1>6, <1>7
<1>9. n + Len(p) - 1 <= Len(s)
  BY <1>1, <1>5, <1>8
<1>10. n \in F
  BY <1>7, <1>8, <1>9, FoundStays
<1>11. n = m
  BY <1>4, <1>5, <1>8, <1>10
<1> QED
  BY <1>4, <1>5, <1>6, <1>7, <1>11 DEF View!IndexOf

\* What a part of a text is, and what it becomes when the text grows: a closed
\* block stays as it is, and an open one that stays open has more code, unless it
\* had none.
IsClosed(a) == a.type = "code" /\ a.closed
IsOpen(a) == a.type = "code" /\ ~a.closed
Longer(x, y) == View!IsPrefix(x, y) /\ (x = y => x = <<>>)
Becomes(a, b) ==
    /\ IsClosed(a) => b = a
    /\ IsOpen(a) /\ IsOpen(b) => Longer(a.content, b.content)

\* One list of parts goes on as another: only its last part may become another.
Continues(A, B) ==
    /\ Len(A) <= Len(B)
    /\ \A i \in 1..Len(A) : IF i < Len(A) THEN B[i] = A[i] ELSE Becomes(A[i], B[i])

\* A part of Markdown is neither open nor closed; a block is one of them.
LEMMA PartIs ==
    ASSUME NEW l \in Text, NEW x \in Text, NEW b \in BOOLEAN
    PROVE  /\ View!Md(x) \in Pieces /\ View!Code(l, x, b) \in Pieces
           /\ ~IsClosed(View!Md(x)) /\ ~IsOpen(View!Md(x))
           /\ IsClosed(View!Code(l, x, b)) <=> b
           /\ IsOpen(View!Code(l, x, b)) <=> ~b
           /\ View!Code(l, x, b).content = x
<1>1. View!Md(x) \in Pieces /\ View!Code(l, x, b) \in Pieces
  BY DEF Pieces
<1>2. View!Md(x).type = "md" /\ "md" # "code"
  BY DEF View!Md
<1>3. PICK a : a = View!Code(l, x, b)
  OBVIOUS
<1>4. a = [type |-> "code", language |-> l, content |-> x, closed |-> b]
  BY <1>3 DEF View!Code
<1>5. a.type = "code" /\ a.content = x /\ a.closed = b
  BY <1>4
<1> QED
  BY <1>1, <1>2, <1>3, <1>5 DEF IsClosed, IsOpen

\* Parts that agree but for the last go on as each other.
LEMMA LastBecomes ==
    ASSUME NEW h \in Seq(Pieces), NEW a \in Pieces, NEW b \in Pieces, Becomes(a, b)
    PROVE  Continues(Append(h, a), Append(h, b))
<1>1. /\ Len(h) \in Nat
      /\ Len(Append(h, a)) = Len(h) + 1 /\ Len(Append(h, b)) = Len(h) + 1
      /\ \A i \in 1..Len(h) : Append(h, a)[i] = h[i] /\ Append(h, b)[i] = h[i]
      /\ Append(h, a)[Len(h) + 1] = a /\ Append(h, b)[Len(h) + 1] = b
  BY AppendProperties, LenProperties
<1>2. ASSUME NEW i \in 1..Len(Append(h, a)), i < Len(Append(h, a))
      PROVE  Append(h, b)[i] = Append(h, a)[i]
  BY <1>1, <1>2
<1>3. ASSUME NEW i \in 1..Len(Append(h, a)), ~ i < Len(Append(h, a))
      PROVE  Becomes(Append(h, a)[i], Append(h, b)[i])
  <2>1. i = Len(h) + 1
    BY <1>1, <1>3
  <2> QED
    BY <2>1, <1>1
<1> QED
  BY <1>1, <1>2, <1>3 DEF Continues

\* What is read first goes on when what is read after it does.
LEMMA RestContinues ==
    ASSUME NEW h \in Seq(Pieces), NEW A \in Seq(Pieces), NEW B \in Seq(Pieces),
           A # <<>>, Continues(A, B)
    PROVE  Continues(h \o A, h \o B)
<1>1. /\ Len(h) \in Nat /\ Len(A) \in Nat \ {0} /\ Len(B) \in Nat /\ Len(A) <= Len(B)
      /\ Len(h \o A) = Len(h) + Len(A) /\ Len(h \o B) = Len(h) + Len(B)
      /\ \A i \in 1..Len(h) + Len(A) :
            (h \o A)[i] = IF i <= Len(h) THEN h[i] ELSE A[i - Len(h)]
      /\ \A i \in 1..Len(h) + Len(B) :
            (h \o B)[i] = IF i <= Len(h) THEN h[i] ELSE B[i - Len(h)]
  BY ConcatProperties, LenProperties, EmptySeq DEF Continues
<1>2. ASSUME NEW i \in 1..Len(h \o A), i < Len(h \o A)
      PROVE  (h \o B)[i] = (h \o A)[i]
  <2>1. CASE i <= Len(h)
    BY <1>1, <1>2, <2>1
  <2>2. CASE ~ i <= Len(h)
    <3>1. i - Len(h) \in 1..Len(A) /\ i - Len(h) < Len(A)
      BY <1>1, <1>2, <2>2
    <3>2. B[i - Len(h)] = A[i - Len(h)]
      BY <3>1 DEF Continues
    <3> QED
      BY <1>1, <1>2, <2>2, <3>2
  <2> QED
    BY <2>1, <2>2
<1>3. ASSUME NEW i \in 1..Len(h \o A), ~ i < Len(h \o A)
      PROVE  Becomes((h \o A)[i], (h \o B)[i])
  <2> DEFINE m == Len(h)
             n == Len(A)
  <2>0. m \in Nat /\ n \in Nat \ {0} /\ Len(h \o A) = m + n
    BY <1>1
  <2>4. i \in 1..(m + n) /\ ~ i < m + n
    BY <2>0, <1>3
  <2> HIDE DEF m, n
  <2>5. i = m + n /\ ~ i <= m /\ i - m = n
    BY <2>0, <2>4
  <2>1. i = Len(h) + Len(A) /\ ~ i <= Len(h) /\ i - Len(h) = Len(A)
    BY <2>5 DEF m, n
  <2>2. (h \o A)[i] = A[Len(A)] /\ (h \o B)[i] = B[Len(A)]
    BY <1>1, <2>1
  <2>3. Becomes(A[Len(A)], B[Len(A)])
    <3>1. Len(A) \in 1..Len(A) /\ ~ Len(A) < Len(A)
      BY <1>1
    <3> QED
      BY <3>1 DEF Continues
  <2> QED
    BY <2>2, <2>3
<1> QED
  BY <1>1, <1>2, <1>3 DEF Continues

\* Parts may follow.
LEMMA ContinuesWith ==
    ASSUME NEW A \in Seq(Pieces), NEW B \in Seq(Pieces), NEW C \in Seq(Pieces), Continues(A, B)
    PROVE  Continues(A, B \o C)
<1>1. /\ Len(A) \in Nat /\ Len(B) \in Nat /\ Len(C) \in Nat
      /\ Len(B \o C) = Len(B) + Len(C) /\ Len(A) <= Len(B)
      /\ \A i \in 1..Len(B) + Len(C) :
            (B \o C)[i] = IF i <= Len(B) THEN B[i] ELSE C[i - Len(B)]
  BY ConcatProperties, LenProperties DEF Continues
<1>2. \A i \in 1..Len(A) : (B \o C)[i] = B[i]
  BY <1>1
<1> QED
  BY <1>1, <1>2 DEF Continues
-----------------------------------------------------------------------------
(* What is read at a cursor c of a text s, and the places it goes by.      *)

LEMMA PatternIs ==
    /\ View!Fence \in Text /\ Len(View!Fence) = 3 /\ View!Fence # <<>>
    /\ View!LineEnd \in Text /\ Len(View!LineEnd) = 1 /\ View!LineEnd # <<>>
    /\ View!Closing \in Text /\ Len(View!Closing) = 4 /\ View!Closing # <<>>
    /\ <<>> \in Text
BY DEF View!Fence, View!Closing, View!LineEnd, Text, Characters

\* Part of a text is a text, the same in a text that goes on.
LEMMA SliceIs ==
    ASSUME NEW s \in Text, NEW i \in Nat \ {0}, NEW j \in Int, j <= Len(s)
    PROVE  /\ SubSeq(s, i, j) \in Text
           /\ Len(SubSeq(s, i, j)) = IF i <= j THEN j - i + 1 ELSE 0
           /\ \A k \in 1..(j - i + 1) : SubSeq(s, i, j)[k] = s[i + k - 1]
<1>1. \A k \in i..j : s[k] \in Characters
  BY ElementOfSeq, LenProperties DEF Text
<1> QED
  BY <1>1, SubSeqProperties DEF Text

LEMMA SliceStays ==
    ASSUME NEW s \in Text, NEW d \in Text, NEW i \in Nat \ {0}, NEW j \in Int, j <= Len(s)
    PROVE  SubSeq(s \o d, i, j) = SubSeq(s, i, j)
<1>1. Len(s) \in Nat /\ Len(d) \in Nat /\ s \o d \in Text /\ Len(s \o d) = Len(s) + Len(d)
  BY ConcatProperties, LenProperties DEF Text
<1>2. CASE i <= j
  <2>1. i \in 1..Len(s) /\ j \in 1..Len(s)
    BY <1>1, <1>2
  <2> QED
    BY <2>1, SubSeqOfConcat1 DEF Text
<1>3. CASE ~ i <= j
  BY <1>3, SubSeqEmpty
<1> QED
  BY <1>2, <1>3

LEMMA FromIs == ASSUME NEW s \in Text, NEW i \in Nat \ {0} PROVE View!From(s, i) \in Text
<1>1. Len(s) \in Nat /\ Len(s) \in Int /\ Len(s) <= Len(s)
  BY LenProperties DEF Text
<1> QED
  BY <1>1, SliceIs DEF View!From

LEMMA BeforeIs ==
    ASSUME NEW s \in Text, NEW d \in Text, NEW c \in Nat \ {0}, NEW open \in Nat,
           open - 1 <= Len(s)
    PROVE  /\ View!Before(s, c, open) \in Seq(Pieces)
           /\ View!Before(s \o d, c, open) = View!Before(s, c, open)
<1>1. open - 1 \in Int
  OBVIOUS
<1>2. SubSeq(s, c, open - 1) \in Text /\ SubSeq(s \o d, c, open - 1) = SubSeq(s, c, open - 1)
  BY <1>1, SliceIs, SliceStays
<1>3. PICK a : a = View!Md(SubSeq(s, c, open - 1))
  OBVIOUS
<1>4. a \in Pieces
  BY <1>2, <1>3, PartIs, PatternIs
<1>5. <<a>> \in Seq(Pieces) /\ <<>> \in Seq(Pieces)
  BY <1>4
<1> QED
  BY <1>2, <1>3, <1>5 DEF View!Before

\* What is left of a text that goes on is longer.
LEMMA LaterIsLonger ==
    ASSUME NEW s \in Text, NEW d \in Text, d # <<>>, NEW i \in Nat \ {0}, i <= Len(s) + 1
    PROVE  /\ View!From(s, i) \in Text /\ View!From(s \o d, i) \in Text
           /\ Longer(View!From(s, i), View!From(s \o d, i))
<1> DEFINE t == s \o d
           x == View!From(s, i)
           y == View!From(t, i)
<1>1. /\ Len(s) \in Nat /\ Len(d) \in Nat \ {0} /\ t \in Text /\ Len(t) = Len(s) + Len(d)
      /\ \A k \in 1..Len(s) : t[k] = s[k]
  BY ConcatProperties, LenProperties, EmptySeq DEF Text
<1>2. /\ x \in Text /\ Len(x) = Len(s) - i + 1
      /\ \A k \in 1..Len(x) : x[k] = s[i + k - 1]
  BY <1>1, SliceIs DEF View!From
<1>3. /\ y \in Text /\ Len(y) = Len(t) - i + 1
      /\ \A k \in 1..Len(y) : y[k] = t[i + k - 1]
  <2> HIDE DEF t
  <2>1. Len(t) \in Nat /\ i <= Len(t) /\ t \in Text /\ Len(t) \in Int
    BY <1>1
  <2>2. /\ SubSeq(t, i, Len(t)) \in Text /\ Len(SubSeq(t, i, Len(t))) = Len(t) - i + 1
        /\ \A k \in 1..(Len(t) - i + 1) : SubSeq(t, i, Len(t))[k] = t[i + k - 1]
    BY <2>1, SliceIs
  <2> QED
    BY <2>2 DEF View!From
<1>4. Len(x) \in Nat /\ Len(x) < Len(y) /\ Len(y) \in Nat
  BY <1>1, <1>2, <1>3
<1>5. SubSeq(y, 1, Len(x)) = SubSeq(x, 1, Len(x))
  <2>1. /\ SubSeq(y, 1, Len(x)) \in Text /\ Len(SubSeq(y, 1, Len(x))) = Len(x)
        /\ \A k \in 1..Len(x) : SubSeq(y, 1, Len(x))[k] = y[k]
    BY <1>3, <1>4, SliceIs
  <2>2. SubSeq(x, 1, Len(x)) = x
    BY <1>2, SubSeqFull DEF Text
  <2>3. \A k \in 1..Len(x) : y[k] = x[k]
    BY <1>1, <1>2, <1>3, <1>4
  <2> QED
    BY <1>2, <2>1, <2>2, <2>3, SeqEqual DEF Text
<1> QED
  BY <1>2, <1>3, <1>4, <1>5 DEF Longer, View!IsPrefix
LEMMA FirstIn ==
    ASSUME NEW s \in Text, NEW p \in Text, NEW c \in Nat, View!Finds(s, p, c) # {}
    PROVE  /\ View!IndexOf(s, p, c) \in Nat /\ c <= View!IndexOf(s, p, c)
           /\ View!IndexOf(s, p, c) + Len(p) - 1 <= Len(s)
<1>1. PICK F : F = View!Finds(s, p, c)
  OBVIOUS
<1>2. F \in SUBSET Nat /\ F # {} /\ \A i \in F : c <= i /\ i + Len(p) - 1 <= Len(s)
  BY <1>1, FoundIn
<1>3. View!Min(F) \in F
  BY <1>2, FirstIs
<1> QED
  BY <1>1, <1>2, <1>3 DEF View!IndexOf

LEMMA AppendIs ==
    ASSUME NEW h \in Seq(Pieces), NEW a \in Pieces
    PROVE  Append(h, a) \in Seq(Pieces) /\ Append(h, a) # <<>>
<1>1. Append(h, a) \in Seq(Pieces) /\ Len(Append(h, a)) = Len(h) + 1 /\ Len(h) \in Nat
  BY AppendProperties, LenProperties
<1> QED
  BY <1>1, EmptySeq

OpenPart(l, x) == View!Code(l, x, FALSE)
ClosedPart(l, x) == View!Code(l, x, TRUE)

LEMMA NewPartIs ==
    ASSUME NEW l \in Text, NEW x \in Text
    PROVE  /\ OpenPart(l, x) \in Pieces /\ IsOpen(OpenPart(l, x)) /\ ~IsClosed(OpenPart(l, x))
           /\ OpenPart(l, x).content = x
           /\ ClosedPart(l, x) \in Pieces /\ IsClosed(ClosedPart(l, x))
           /\ ~IsOpen(ClosedPart(l, x)) /\ ClosedPart(l, x).content = x
<1>1. ASSUME NEW b \in BOOLEAN
      PROVE  /\ View!Code(l, x, b) \in Pieces /\ View!Code(l, x, b).content = x
             /\ IsClosed(View!Code(l, x, b)) <=> b
             /\ IsOpen(View!Code(l, x, b)) <=> ~b
  BY PartIs
<1>2. PICK a, b : a = OpenPart(l, x) /\ b = ClosedPart(l, x)
  OBVIOUS
<1>3. a \in Pieces /\ a.content = x /\ ~IsClosed(a) /\ IsOpen(a)
  BY <1>1, <1>2, Zenon DEF OpenPart
<1>4. b \in Pieces /\ b.content = x /\ IsClosed(b) /\ ~IsOpen(b)
  BY <1>1, <1>2, Zenon DEF ClosedPart
<1> QED
  BY <1>2, <1>3, <1>4

LEMMA AnyIsLonger == ASSUME NEW y \in Text PROVE Longer(<<>>, y)
<1>1. Len(y) \in Nat /\ Len(<<>>) = 0
  BY LenProperties DEF Text
<1>2. SubSeq(y, 1, 0) = <<>> /\ SubSeq(<<>>, 1, 0) = <<>>
  BY SubSeqEmpty
<1>3. PICK e : e = <<>>
  OBVIOUS
<1>4. Len(e) <= Len(y) /\ SubSeq(y, 1, Len(e)) = SubSeq(e, 1, Len(e)) /\ (e = y => e = <<>>)
  BY <1>1, <1>2, <1>3
<1> QED
  BY <1>3, <1>4 DEF Longer, View!IsPrefix

LEMMA ContentIs == ASSUME NEW a \in Pieces, IsOpen(a) PROVE a.content \in Text
<1>1. CASE \E x \in Text : a = View!Md(x)
  <2>1. PICK x \in Text : a = View!Md(x)
    BY <1>1
  <2>2. ~IsOpen(a)
    BY <2>1, PartIs, PatternIs
  <2> QED
    BY <2>2
<1>2. CASE \E l \in Text, x \in Text, b \in BOOLEAN : a = View!Code(l, x, b)
  <2>1. PICK l \in Text, x \in Text, b \in BOOLEAN : a = View!Code(l, x, b)
    BY <1>2
  <2>2. a.content = x
    BY <2>1, PartIs
  <2> QED
    BY <2>1, <2>2
<1> QED
  BY <1>1, <1>2 DEF Pieces

LEMMA SameAppended ==
    ASSUME NEW h \in Seq(Pieces), NEW a \in Pieces, NEW b \in Pieces, Append(h, a) = Append(h, b)
    PROVE  a = b
<1>1. Append(h, a)[Len(h) + 1] = a /\ Append(h, b)[Len(h) + 1] = b
  BY AppendProperties
<1> QED
  BY <1>1

\* The fence after the cursor, the end of its line, and the fence that closes.
HasOpen(s, c) == View!Finds(s, View!Fence, c) # {}
OpenAt(s, c) == View!IndexOf(s, View!Fence, c)
HasLine(s, c) == View!Finds(s, View!LineEnd, OpenAt(s, c) + 3) # {}
LineAt(s, c) == View!IndexOf(s, View!LineEnd, OpenAt(s, c) + 3)
HasEnd(s, c) == View!Finds(s, View!Closing, LineAt(s, c) + 1) # {}
EndAt(s, c) == View!IndexOf(s, View!Closing, LineAt(s, c) + 1)
TextOf(s, c) == View!Before(s, c, OpenAt(s, c))
LangOf(s, c) == SubSeq(s, OpenAt(s, c) + 3, LineAt(s, c) - 1)
CodeOf(s, c) == SubSeq(s, LineAt(s, c) + 1, EndAt(s, c) - 1)
RestOf(s, c) == View!From(s, LineAt(s, c) + 1)
After(s, c) == LET end == EndAt(s, c)
               IN IF end + 4 <= Len(s) /\ s[end + 4] = Newline THEN end + 5 ELSE end + 4

LEMMA ReadingCases ==
    ASSUME NEW s, NEW c
    PROVE  /\ ~HasOpen(s, c) =>
                 View!Reading(s, c) = [parts |-> <<View!Md(View!From(s, c))>>, next |-> Len(s) + 1]
           /\ HasOpen(s, c) /\ ~HasLine(s, c) =>
                 View!Reading(s, c) = [parts |-> Append(TextOf(s, c),
                                                   OpenPart(View!From(s, OpenAt(s, c) + 3), <<>>)),
                                  next |-> Len(s) + 1]
           /\ HasOpen(s, c) /\ HasLine(s, c) /\ ~HasEnd(s, c) =>
                 View!Reading(s, c) = [parts |-> Append(TextOf(s, c),
                                                        OpenPart(LangOf(s, c), RestOf(s, c))),
                                       next |-> Len(s) + 1]
           /\ HasOpen(s, c) /\ HasLine(s, c) /\ HasEnd(s, c) =>
                 View!Reading(s, c) = [parts |-> Append(TextOf(s, c),
                                                        ClosedPart(LangOf(s, c), CodeOf(s, c))),
                                       next |-> After(s, c)]
<1> USE DEF HasOpen, HasLine, HasEnd, OpenAt, LineAt, EndAt, TextOf, LangOf, CodeOf, RestOf,
            View!Reading, View!ClosingFence, After, OpenPart, ClosedPart
<1>1. ~HasOpen(s, c) =>
         View!Reading(s, c) = [parts |-> <<View!Md(View!From(s, c))>>, next |-> Len(s) + 1]
  BY Zenon
<1>2. HasOpen(s, c) /\ ~HasLine(s, c) =>
         View!Reading(s, c) = [parts |-> Append(TextOf(s, c),
                                                OpenPart(View!From(s, OpenAt(s, c) + 3), <<>>)),
                               next |-> Len(s) + 1]
  BY Zenon
<1>3. HasOpen(s, c) /\ HasLine(s, c) /\ ~HasEnd(s, c) =>
         View!Reading(s, c) = [parts |-> Append(TextOf(s, c),
                                                OpenPart(LangOf(s, c), RestOf(s, c))),
                               next |-> Len(s) + 1]
  BY Zenon
<1>4. HasOpen(s, c) /\ HasLine(s, c) /\ HasEnd(s, c) =>
         View!Reading(s, c) = [parts |-> Append(TextOf(s, c),
                                                ClosedPart(LangOf(s, c), CodeOf(s, c))),
                               next |-> After(s, c)]
  BY Zenon
<1> QED
  BY <1>1, <1>2, <1>3, <1>4, Zenon

\* One text goes on as another.
Grows(s, t) == \E d \in Text : d # <<>> /\ t = s \o d

LEMMA Grown ==
    ASSUME NEW s \in Text, NEW t, Grows(s, t)
    PROVE  /\ t \in Text /\ Len(t) \in Nat /\ Len(s) \in Nat /\ Len(s) < Len(t)
           /\ \A k \in 1..Len(s) : t[k] = s[k]
<1>1. PICK d \in Text : d # <<>> /\ t = s \o d
  BY DEF Grows
<1> QED
  BY <1>1, ConcatProperties, LenProperties, EmptySeq DEF Text

LEMMA CursorIn ==
    ASSUME NEW s \in Text, NEW c \in 1..Len(s)
    PROVE  /\ Len(s) \in Nat /\ c \in Nat \ {0} /\ c <= Len(s)
           /\ \A t : Grows(s, t) => t \in Text /\ c \in 1..Len(t)
BY Grown, LenProperties DEF Text

LEMMA OpenIs ==
    ASSUME NEW s \in Text, NEW c \in 1..Len(s), HasOpen(s, c)
    PROVE  /\ OpenAt(s, c) \in Nat /\ c <= OpenAt(s, c) /\ OpenAt(s, c) + 2 <= Len(s)
           /\ TextOf(s, c) \in Seq(Pieces)
<1>1. PICK open : open = OpenAt(s, c)
  OBVIOUS
<1>2. open \in Nat /\ c <= open /\ open + 3 - 1 <= Len(s)
  BY <1>1, CursorIn, FirstIn, PatternIs DEF HasOpen, OpenAt
<1>3. open - 1 <= Len(s)
  BY <1>2, CursorIn
<1>4. View!Before(s, c, open) \in Seq(Pieces)
  BY <1>2, <1>3, CursorIn, BeforeIs, PatternIs
<1> QED
  BY <1>1, <1>2, <1>4 DEF TextOf

\* A fence that is in the text stays the first one in a text that goes on, ...
LEMMA OpenStays ==
    ASSUME NEW s \in Text, NEW t, Grows(s, t), NEW c \in 1..Len(s), HasOpen(s, c)
    PROVE  HasOpen(t, c) /\ OpenAt(t, c) = OpenAt(s, c) /\ TextOf(t, c) = TextOf(s, c)
<1>1. PICK d \in Text : d # <<>> /\ t = s \o d
  BY DEF Grows
<1>2. /\ View!Finds(s \o d, View!Fence, c) # {}
      /\ View!IndexOf(s \o d, View!Fence, c) = View!IndexOf(s, View!Fence, c)
  BY CursorIn, FirstStays, PatternIs DEF HasOpen
<1>3. HasOpen(t, c) /\ OpenAt(t, c) = OpenAt(s, c)
  BY <1>1, <1>2 DEF HasOpen, OpenAt
<1>4. PICK open : open = OpenAt(s, c)
  OBVIOUS
<1>5. open \in Nat /\ open - 1 <= Len(s)
  BY <1>4, OpenIs, CursorIn
<1>6. View!Before(s \o d, c, open) = View!Before(s, c, open)
  BY <1>5, CursorIn, BeforeIs
<1> QED
  BY <1>1, <1>3, <1>4, <1>6 DEF TextOf

LEMMA LineIs ==
    ASSUME NEW s \in Text, NEW c \in 1..Len(s), HasOpen(s, c), HasLine(s, c)
    PROVE  /\ LineAt(s, c) \in Nat /\ OpenAt(s, c) + 3 <= LineAt(s, c) /\ LineAt(s, c) <= Len(s)
           /\ LangOf(s, c) \in Text /\ RestOf(s, c) \in Text
<1>1. PICK open : open = OpenAt(s, c)
  OBVIOUS
<1>2. open \in Nat /\ open + 3 \in Nat \ {0} /\ Len(s) \in Nat
  BY <1>1, OpenIs, CursorIn
<1>3. PICK line : line = LineAt(s, c)
  OBVIOUS
<1>4. View!Finds(s, View!LineEnd, open + 3) # {} /\ line = View!IndexOf(s, View!LineEnd, open + 3)
  BY <1>1, <1>3 DEF HasLine, LineAt
<1>5. line \in Nat /\ open + 3 <= line /\ line + 1 - 1 <= Len(s)
  BY <1>2, <1>4, FirstIn, PatternIs
<1>6. line - 1 \in Int /\ line - 1 <= Len(s) /\ line + 1 \in Nat \ {0} /\ line <= Len(s)
  BY <1>2, <1>5
<1>7. SubSeq(s, open + 3, line - 1) \in Text
  BY <1>2, <1>6, SliceIs
<1>8. View!From(s, line + 1) \in Text
  BY <1>6, FromIs
<1> QED
  BY <1>1, <1>3, <1>5, <1>6, <1>7, <1>8 DEF LangOf, RestOf

\* ... so does the end of its line, while the code behind it grows, ...
LEMMA LineStays ==
    ASSUME NEW s \in Text, NEW t, Grows(s, t), NEW c \in 1..Len(s), HasOpen(s, c), HasLine(s, c)
    PROVE  /\ HasLine(t, c) /\ LineAt(t, c) = LineAt(s, c) /\ LangOf(t, c) = LangOf(s, c)
           /\ Longer(RestOf(s, c), RestOf(t, c))
<1>1. PICK d \in Text : d # <<>> /\ t = s \o d
  BY DEF Grows
<1>2. PICK open : open = OpenAt(s, c)
  OBVIOUS
<1>3. open + 3 \in Nat \ {0} /\ Len(s) \in Nat
  BY <1>2, OpenIs, CursorIn
<1>4. open = OpenAt(t, c)
  BY <1>2, OpenStays
<1>5. View!Finds(s, View!LineEnd, open + 3) # {}
  BY <1>2 DEF HasLine
<1>6. /\ View!Finds(s \o d, View!LineEnd, open + 3) # {}
      /\ View!IndexOf(s \o d, View!LineEnd, open + 3) = View!IndexOf(s, View!LineEnd, open + 3)
  BY <1>3, <1>5, FirstStays, PatternIs
<1>7. HasLine(t, c) /\ LineAt(t, c) = LineAt(s, c)
  BY <1>1, <1>2, <1>4, <1>6 DEF HasLine, LineAt
<1>8. PICK line : line = LineAt(s, c)
  OBVIOUS
<1>9. line \in Nat /\ line <= Len(s)
  BY <1>8, LineIs
<1>10. line - 1 \in Int /\ line - 1 <= Len(s) /\ line + 1 \in Nat \ {0} /\ line + 1 <= Len(s) + 1
  BY <1>3, <1>9
<1>11. SubSeq(s \o d, open + 3, line - 1) = SubSeq(s, open + 3, line - 1)
  BY <1>3, <1>10, SliceStays
<1>12. Longer(View!From(s, line + 1), View!From(s \o d, line + 1))
  BY <1>1, <1>10, LaterIsLonger
<1> QED
  BY <1>1, <1>2, <1>4, <1>7, <1>8, <1>11, <1>12 DEF LangOf, RestOf

LEMMA EndIs ==
    ASSUME NEW s \in Text, NEW c \in 1..Len(s), HasOpen(s, c), HasLine(s, c), HasEnd(s, c)
    PROVE  /\ EndAt(s, c) \in Nat /\ LineAt(s, c) + 1 <= EndAt(s, c) /\ EndAt(s, c) + 3 <= Len(s)
           /\ CodeOf(s, c) \in Text
           /\ After(s, c) \in Nat /\ c < After(s, c) /\ After(s, c) <= Len(s) + 1
<1>1. PICK line : line = LineAt(s, c)
  OBVIOUS
<1>2. line \in Nat /\ c + 3 <= line /\ line + 1 \in Nat \ {0} /\ Len(s) \in Nat /\ c \in Nat
  BY <1>1, LineIs, OpenIs, CursorIn
<1>3. PICK end : end = EndAt(s, c)
  OBVIOUS
<1>4. View!Finds(s, View!Closing, line + 1) # {} /\ end = View!IndexOf(s, View!Closing, line + 1)
  BY <1>1, <1>3 DEF HasEnd, EndAt
<1>5. end \in Nat /\ line + 1 <= end /\ end + 4 - 1 <= Len(s)
  BY <1>2, <1>4, FirstIn, PatternIs
<1>6. end - 1 \in Int /\ end - 1 <= Len(s) /\ end + 3 <= Len(s)
  BY <1>2, <1>5
<1>7. SubSeq(s, line + 1, end - 1) \in Text
  BY <1>2, <1>6, SliceIs
<1>8. After(s, c) \in {end + 4, end + 5}
       /\ (After(s, c) = end + 5 => end + 4 <= Len(s))
  BY <1>3, <1>5 DEF After
<1>9. After(s, c) \in Nat /\ c < After(s, c) /\ After(s, c) <= Len(s) + 1
  BY <1>2, <1>5, <1>6, <1>8
<1> QED
  BY <1>1, <1>3, <1>5, <1>6, <1>7, <1>9 DEF CodeOf

\* ... and so does the fence that closes the block.
LEMMA EndStays ==
    ASSUME NEW s \in Text, NEW t, Grows(s, t), NEW c \in 1..Len(s),
           HasOpen(s, c), HasLine(s, c), HasEnd(s, c)
    PROVE  /\ HasEnd(t, c) /\ EndAt(t, c) = EndAt(s, c) /\ CodeOf(t, c) = CodeOf(s, c)
           /\ After(s, c) <= Len(s) => After(t, c) = After(s, c)
<1>1. PICK d \in Text : d # <<>> /\ t = s \o d
  BY DEF Grows
<1>2. PICK line : line = LineAt(s, c)
  OBVIOUS
<1>3. line + 1 \in Nat \ {0} /\ Len(s) \in Nat
  BY <1>2, LineIs, CursorIn
<1>4. line = LineAt(t, c)
  BY <1>2, LineStays
<1>5. View!Finds(s, View!Closing, line + 1) # {}
  BY <1>2 DEF HasEnd
<1>6. /\ View!Finds(s \o d, View!Closing, line + 1) # {}
      /\ View!IndexOf(s \o d, View!Closing, line + 1) = View!IndexOf(s, View!Closing, line + 1)
  BY <1>3, <1>5, FirstStays, PatternIs
<1>7. HasEnd(t, c) /\ EndAt(t, c) = EndAt(s, c)
  BY <1>1, <1>2, <1>4, <1>6 DEF HasEnd, EndAt
<1>8. PICK end : end = EndAt(s, c)
  OBVIOUS
<1>9. end \in Nat /\ end + 3 <= Len(s)
  BY <1>8, EndIs
<1>10. end - 1 \in Int /\ end - 1 <= Len(s)
  BY <1>3, <1>9
<1>11. SubSeq(s \o d, line + 1, end - 1) = SubSeq(s, line + 1, end - 1)
  BY <1>3, <1>10, SliceStays
<1>12. CodeOf(t, c) = CodeOf(s, c)
  BY <1>1, <1>2, <1>4, <1>7, <1>8, <1>11 DEF CodeOf
<1>13. \A k \in 1..Len(s) : t[k] = s[k]
  BY Grown
<1>14. Len(t) \in Nat /\ Len(s) < Len(t)
  BY Grown
<1>15. ASSUME After(s, c) <= Len(s) PROVE After(t, c) = After(s, c)
  <2>1. PICK e \in Nat : e = EndAt(s, c) + 4 /\ e = EndAt(t, c) + 4 /\ e \in Nat \ {0}
    BY <1>7, <1>8, <1>9
  <2>2. After(s, c) = IF e <= Len(s) /\ s[e] = Newline THEN e + 1 ELSE e
    BY <1>9, <1>8, <2>1 DEF After
  <2>3. After(t, c) = IF e <= Len(t) /\ t[e] = Newline THEN e + 1 ELSE e
    BY <1>7, <1>8, <1>9, <2>1 DEF After
  <2>4. e \in 1..Len(s)
    BY <1>3, <1>15, <2>1, <2>2
  <2>5. t[e] = s[e]
    BY <1>13, <2>4
  <2> QED
    BY <1>3, <1>14, <2>2, <2>3, <2>4, <2>5
<1> QED
  BY <1>7, <1>12, <1>15

\* A reading that opens a block is text and that block.
LEMMA BlockIs ==
    ASSUME NEW s \in Text, NEW c \in 1..Len(s), HasOpen(s, c)
    PROVE  \E a \in Pieces : View!Reading(s, c).parts = Append(TextOf(s, c), a)
<1>1. CASE ~HasLine(s, c)
  <2>1. PICK l : l = View!From(s, OpenAt(s, c) + 3)
    OBVIOUS
  <2>2. OpenAt(s, c) + 3 \in Nat \ {0}
    BY OpenIs
  <2>3. l \in Text
    BY <2>1, <2>2, FromIs
  <2>4. OpenPart(l, <<>>) \in Pieces
    BY <2>3, NewPartIs, PatternIs
  <2>5. View!Reading(s, c).parts = Append(TextOf(s, c), OpenPart(l, <<>>))
    BY <1>1, <2>1, ReadingCases
  <2> QED
    BY <2>4, <2>5
<1>2. CASE HasLine(s, c) /\ ~HasEnd(s, c)
  <2>1. OpenPart(LangOf(s, c), RestOf(s, c)) \in Pieces
    BY <1>2, LineIs, NewPartIs
  <2> QED
    BY <1>2, <2>1, ReadingCases
<1>3. CASE HasLine(s, c) /\ HasEnd(s, c)
  <2>1. ClosedPart(LangOf(s, c), CodeOf(s, c)) \in Pieces
    BY <1>3, LineIs, EndIs, NewPartIs
  <2> QED
    BY <1>3, <2>1, ReadingCases
<1> QED
  BY <1>1, <1>2, <1>3

\* The cursor moves on, over a part at least.
LEMMA ReadingIs ==
    ASSUME NEW s \in Text, NEW c \in 1..Len(s)
    PROVE  /\ View!Reading(s, c).parts \in Seq(Pieces) /\ View!Reading(s, c).parts # <<>>
           /\ View!Reading(s, c).next \in Nat /\ c < View!Reading(s, c).next
           /\ View!Reading(s, c).next <= Len(s) + 1
<1>1. Len(s) \in Nat /\ c \in Nat \ {0} /\ c <= Len(s)
  BY CursorIn
<1>2. CASE ~HasOpen(s, c)
  <2>1. View!From(s, c) \in Text
    BY <1>1, FromIs
  <2>2. PICK a : a = View!Md(View!From(s, c))
    OBVIOUS
  <2>3. a \in Pieces
    BY <2>1, <2>2, PartIs, PatternIs
  <2>4. View!Reading(s, c) = [parts |-> <<a>>, next |-> Len(s) + 1]
    BY <1>2, <2>2, ReadingCases
  <2> QED
    BY <1>1, <2>3, <2>4
<1>3. CASE HasOpen(s, c)
  <2>1. PICK a \in Pieces : View!Reading(s, c).parts = Append(TextOf(s, c), a)
    BY <1>3, BlockIs
  <2>2. View!Reading(s, c).parts \in Seq(Pieces) /\ View!Reading(s, c).parts # <<>>
    BY <1>3, <2>1, OpenIs, AppendIs
  <2>3. CASE HasLine(s, c) /\ HasEnd(s, c)
    <3>1. View!Reading(s, c).next = After(s, c)
      BY <1>3, <2>3, ReadingCases
    <3> QED
      BY <1>3, <2>2, <2>3, <3>1, EndIs
  <2>4. CASE ~(HasLine(s, c) /\ HasEnd(s, c))
    <3>1. View!Reading(s, c).next = Len(s) + 1
      BY <1>3, <2>4, ReadingCases
    <3> QED
      BY <1>1, <2>2, <3>1
  <2> QED
    BY <2>3, <2>4
<1> QED
  BY <1>2, <1>3

\* A text that goes on reads the same, or goes on where the old text ended.
ReadsOn(s, t, c) ==
    \/ View!Reading(s, c).next <= Len(s) /\ View!Reading(t, c) = View!Reading(s, c)
    \/ /\ View!Reading(s, c).next = Len(s) + 1
       /\ Continues(View!Reading(s, c).parts, View!Reading(t, c).parts)

LEMMA ReadingContinues ==
    ASSUME NEW s \in Text, NEW t, Grows(s, t), NEW c \in 1..Len(s)
    PROVE  ReadsOn(s, t, c)
<1>1. t \in Text /\ c \in 1..Len(t) /\ Len(s) \in Nat /\ c \in Nat \ {0}
  BY CursorIn
<1>2. CASE ~HasOpen(s, c)
  <2>1. View!From(s, c) \in Text
    BY <1>1, FromIs
  <2>2. PICK a : a = View!Md(View!From(s, c))
    OBVIOUS
  <2>3. ~IsClosed(a) /\ ~IsOpen(a)
    BY <2>1, <2>2, PartIs, PatternIs
  <2>4. View!Reading(s, c) = [parts |-> <<a>>, next |-> Len(s) + 1]
    BY <1>2, <2>2, ReadingCases
  <2>5. View!Reading(t, c).parts \in Seq(Pieces) /\ View!Reading(t, c).parts # <<>>
    BY <1>1, ReadingIs
  <2>6. PICK B : B = View!Reading(t, c).parts
    OBVIOUS
  <2>7. Len(B) \in Nat \ {0}
    BY <2>5, <2>6, EmptySeq, LenProperties
  <2>8. Becomes(a, B[1])
    BY <2>3 DEF Becomes
  <2>9. Continues(<<a>>, B)
    BY <2>7, <2>8 DEF Continues
  <2> QED
    BY <2>4, <2>6, <2>9 DEF ReadsOn
<1>3. CASE HasOpen(s, c)
  <2>1. HasOpen(t, c)
    BY <1>3, OpenStays
  <2>2. PICK b \in Pieces : View!Reading(t, c).parts = Append(TextOf(t, c), b)
    BY <1>1, <2>1, BlockIs
  <2>3. PICK h \in Seq(Pieces) : h = TextOf(s, c) /\ h = TextOf(t, c)
    BY <1>3, OpenIs, OpenStays
  <2>4. ASSUME NEW a \in Pieces, Becomes(a, b), View!Reading(s, c).parts = Append(h, a),
               View!Reading(s, c).next = Len(s) + 1
        PROVE  ReadsOn(s, t, c)
    <3>1. Continues(Append(h, a), Append(h, b))
      BY <2>2, <2>4, LastBecomes
    <3> QED
      BY <2>2, <2>3, <2>4, <3>1 DEF ReadsOn
  <2>5. CASE ~HasLine(s, c)
    <3>1. PICK l : l = View!From(s, OpenAt(s, c) + 3)
      OBVIOUS
    <3>2. OpenAt(s, c) + 3 \in Nat \ {0}
      BY <1>3, OpenIs
    <3>3. l \in Text
      BY <3>1, <3>2, FromIs
    <3>4. PICK a : a = OpenPart(l, <<>>)
      OBVIOUS
    <3>5. a \in Pieces /\ ~IsClosed(a) /\ a.content = <<>>
      BY <3>3, <3>4, NewPartIs, PatternIs
    <3>6. View!Reading(s, c).parts = Append(h, a) /\ View!Reading(s, c).next = Len(s) + 1
      <4>1. View!Reading(s, c) = [parts |-> Append(TextOf(s, c), a), next |-> Len(s) + 1]
        BY <1>3, <2>5, <3>1, <3>4, ReadingCases
      <4>2. TextOf(s, c) = h
        BY <2>3
      <4> QED
        BY <4>1, <4>2
    <3>7. Becomes(a, b)
      BY <2>2, <3>5, AnyIsLonger, ContentIs DEF Becomes
    <3> QED
      BY <2>4, <3>5, <3>6, <3>7
  <2>6. CASE HasLine(s, c) /\ ~HasEnd(s, c)
    <3>1. /\ LangOf(s, c) \in Text /\ RestOf(s, c) \in Text /\ HasLine(t, c)
          /\ LangOf(t, c) \in Text /\ RestOf(t, c) \in Text /\ Longer(RestOf(s, c), RestOf(t, c))
      BY <1>1, <1>3, <2>1, <2>6, LineIs, LineStays
    <3>2. PICK a : a = OpenPart(LangOf(s, c), RestOf(s, c))
      OBVIOUS
    <3>3. a \in Pieces /\ ~IsClosed(a) /\ a.content = RestOf(s, c)
      BY <3>1, <3>2, NewPartIs
    <3>4. View!Reading(s, c).parts = Append(h, a) /\ View!Reading(s, c).next = Len(s) + 1
      <4>1. View!Reading(s, c) = [parts |-> Append(TextOf(s, c), a), next |-> Len(s) + 1]
        BY <1>3, <2>6, <3>2, ReadingCases
      <4>2. TextOf(s, c) = h
        BY <2>3
      <4> QED
        BY <4>1, <4>2
    <3>5. IsOpen(b) => Longer(RestOf(s, c), b.content)
      <4>1. CASE HasEnd(t, c)
        <5>1. PICK k : k = ClosedPart(LangOf(t, c), CodeOf(t, c))
          OBVIOUS
        <5>2. k \in Pieces /\ ~IsOpen(k)
          BY <1>1, <2>1, <3>1, <4>1, <5>1, EndIs, NewPartIs
        <5>3. View!Reading(t, c).parts = Append(h, k)
          BY <2>1, <2>3, <3>1, <4>1, <5>1, ReadingCases
        <5>4. b = k
          BY <2>2, <2>3, <5>2, <5>3, SameAppended
        <5> QED
          BY <5>2, <5>4
      <4>2. CASE ~HasEnd(t, c)
        <5>1. PICK k : k = OpenPart(LangOf(t, c), RestOf(t, c))
          OBVIOUS
        <5>2. k \in Pieces /\ k.content = RestOf(t, c)
          BY <3>1, <5>1, NewPartIs
        <5>3. View!Reading(t, c).parts = Append(h, k)
          BY <2>1, <2>3, <3>1, <4>2, <5>1, ReadingCases
        <5>4. b = k
          BY <2>2, <2>3, <5>2, <5>3, SameAppended
        <5> QED
          BY <3>1, <5>2, <5>4
      <4> QED
        BY <4>1, <4>2
    <3>6. Becomes(a, b)
      BY <3>3, <3>5 DEF Becomes
    <3> QED
      BY <2>4, <3>3, <3>4, <3>6
  <2>7. CASE HasLine(s, c) /\ HasEnd(s, c)
    <3>1. PICK a : a = ClosedPart(LangOf(s, c), CodeOf(s, c))
      OBVIOUS
    <3>2. a \in Pieces /\ IsClosed(a) /\ ~IsOpen(a)
      BY <1>3, <2>7, <3>1, LineIs, EndIs, NewPartIs
    <3>3. View!Reading(s, c) = [parts |-> Append(h, a), next |-> After(s, c)]
      BY <1>3, <2>3, <2>7, <3>1, ReadingCases
    <3>4. HasLine(t, c) /\ HasEnd(t, c) /\ a = ClosedPart(LangOf(t, c), CodeOf(t, c))
      BY <1>3, <2>7, <3>1, LineStays, EndStays
    <3>5. View!Reading(t, c) = [parts |-> Append(h, a), next |-> After(t, c)]
      BY <2>1, <2>3, <3>4, ReadingCases
    <3>6. \/ After(s, c) <= Len(s) /\ After(t, c) = After(s, c)
          \/ After(s, c) = Len(s) + 1
      BY <1>1, <1>3, <2>7, EndIs, EndStays
    <3>7. CASE After(s, c) <= Len(s) /\ After(t, c) = After(s, c)
      BY <3>3, <3>5, <3>7 DEF ReadsOn
    <3>8. CASE After(s, c) = Len(s) + 1
      <4>1. View!Reading(t, c).parts = Append(h, a) /\ View!Reading(s, c).parts = Append(h, a)
            /\ View!Reading(s, c).next = Len(s) + 1
        BY <3>3, <3>5, <3>8
      <4>2. Becomes(a, a)
        BY <3>2 DEF Becomes
      <4>3. a = b
        BY <2>2, <2>3, <3>2, <4>1, SameAppended
      <4> QED
        BY <2>4, <3>2, <4>1, <4>2, <4>3
    <3> QED
      BY <3>6, <3>7, <3>8
  <2> QED
    BY <2>5, <2>6, <2>7
<1> QED
  BY <1>2, <1>3

-----------------------------------------------------------------------------
(* The parts of a whole text: parseIntoParts.                              *)

\* What holds at a cursor whenever it holds at every later one holds everywhere.
LEMMA Downward ==
    ASSUME NEW n \in Nat, NEW T \in SUBSET (1..n),
           \A c \in 1..n : (\A k \in (c + 1)..n : k \in T) => c \in T
    PROVE  T = 1..n
<1> DEFINE B == {n - c : c \in (1..n) \ T}
<1>1. ASSUME B # {} PROVE FALSE
  <2>1. B \in SUBSET Nat
    OBVIOUS
  <2>2. PICK m \in B : \A k \in B : m <= k
    BY <1>1, <2>1, LeastOf
  <2>3. PICK c \in (1..n) \ T : m = n - c
    BY <2>2
  <2>4. ASSUME NEW k \in (c + 1)..n PROVE k \in T
    <3>1. k \in 1..n /\ n - k < m
      BY <2>3
    <3>2. CASE k \notin T
      <4>1. n - k \in B
        BY <3>1, <3>2
      <4>2. m <= n - k
        BY <2>2, <4>1
      <4> QED
        BY <3>1, <4>2, <2>3
    <3> QED
      BY <3>2
  <2> QED
    BY <2>3, <2>4
<1>2. ASSUME NEW c \in 1..n, c \notin T PROVE n - c \in B
  BY <1>2
<1> QED
  BY <1>1, <1>2

\* f gives the parts from each cursor on.
PartsFrom(s, n, f) ==
    /\ f[Len(s) + 1] = <<>>
    /\ \A c \in n..Len(s) : f[c] = View!Reading(s, c).parts \o f[View!Reading(s, c).next]

\* The recursion ends: a cursor only moves on.
LEMMA PartsExist == ASSUME NEW s \in Text PROVE \E f : PartsFrom(s, 1, f)
<1> DEFINE n == Len(s) + 1
           T == {k \in 1..n : \E f : PartsFrom(s, k, f)}
<1>1. Len(s) \in Nat /\ n \in Nat
  BY LenProperties DEF Text
<1>2. ASSUME NEW c \in 1..n, \A k \in (c + 1)..n : k \in T PROVE c \in T
  <2>1. CASE c = n
    <3>1. [k \in {n} |-> <<>>][n] = <<>> /\ c..Len(s) = {}
      BY <1>1, <2>1
    <3>2. PartsFrom(s, c, [k \in {n} |-> <<>>])
      BY <3>1 DEF PartsFrom
    <3> QED
      BY <3>2
  <2>2. CASE c # n
    <3>1. c + 1 \in (c + 1)..n /\ c \in 1..Len(s)
      BY <1>1, <2>2
    <3>2. PICK f : PartsFrom(s, c + 1, f)
      BY <1>2, <3>1
    <3> DEFINE g == [k \in 1..n |-> IF k = c THEN View!Reading(s, c).parts \o f[View!Reading(s, c).next]
                                    ELSE f[k]]
    <3>3. \A k \in 1..Len(s) :
             /\ View!Reading(s, k).next \in Nat /\ k < View!Reading(s, k).next
             /\ View!Reading(s, k).next <= n
      BY ReadingIs
    <3>4. g[n] = <<>>
      BY <1>1, <2>2, <3>2 DEF PartsFrom
    <3>5. ASSUME NEW k \in c..Len(s) PROVE g[k] = View!Reading(s, k).parts \o g[View!Reading(s, k).next]
      <4>1. PICK m : m = View!Reading(s, k).next
        OBVIOUS
      <4>2. m \in 1..n /\ m # c /\ k \in 1..n
        BY <1>1, <3>1, <3>3, <4>1
      <4>3. g[m] = f[m]
        BY <4>2
      <4>4. g[k] = View!Reading(s, k).parts \o f[m]
        <5>1. CASE k = c
          BY <4>1, <4>2, <5>1
        <5>2. CASE k # c
          <6>1. k \in (c + 1)..Len(s)
            BY <1>1, <3>1, <5>2
          <6>2. f[k] = View!Reading(s, k).parts \o f[View!Reading(s, k).next]
            BY <3>2, <6>1 DEF PartsFrom
          <6>3. g[k] = f[k]
            BY <4>2, <5>2
          <6> QED
            BY <4>1, <6>2, <6>3
        <5> QED
          BY <5>1, <5>2
      <4> QED
        BY <4>1, <4>3, <4>4
    <3>6. PartsFrom(s, c, g)
      <4> HIDE DEF g
      <4> QED
        BY <3>4, <3>5 DEF PartsFrom
    <3> QED
      BY <3>6
  <2> QED
    BY <2>1, <2>2
<1>3. T \in SUBSET (1..n)
  OBVIOUS
<1>4. T = 1..n
  <2> HIDE DEF T, n
  <2> QED
    BY <1>1, <1>2, <1>3, Downward
<1>5. 1 \in T
  BY <1>1, <1>4
<1> QED
  BY <1>5

IsParts(s, Parts) ==
    Parts = [c \in 1..(Len(s) + 1) |->
                IF c > Len(s) THEN <<>> ELSE View!Reading(s, c).parts \o Parts[View!Reading(s, c).next]]

LEMMA ParseIs == ASSUME NEW s PROVE View!parseIntoParts(s) = (CHOOSE Parts : IsParts(s, Parts))[1]
BY Zenon DEF View!parseIntoParts, IsParts

\* parseIntoParts is what the recursion gives at the start of the text.
LEMMA PartsAre ==
    ASSUME NEW s \in Text
    PROVE  \E f : PartsFrom(s, 1, f) /\ View!parseIntoParts(s) = f[1]
<1>1. PICK f : PartsFrom(s, 1, f)
  BY PartsExist
<1>2. Len(s) \in Nat
  BY LenProperties DEF Text
<1> DEFINE n == Len(s) + 1
           g == [c \in 1..n |-> f[c]]
<1>3. \A k \in 1..Len(s) : View!Reading(s, k).next \in 1..n
  BY ReadingIs, <1>2
<1>4. ASSUME NEW c \in 1..n
      PROVE  f[c] = IF c > Len(s) THEN <<>> ELSE View!Reading(s, c).parts \o g[View!Reading(s, c).next]
  <2>1. CASE c > Len(s)
    <3>1. c = Len(s) + 1
      BY <1>2, <2>1
    <3> QED
      BY <1>1, <2>1, <3>1 DEF PartsFrom
  <2>2. CASE ~ c > Len(s)
    <3>1. c \in 1..Len(s)
      BY <1>2, <2>2
    <3>2. f[c] = View!Reading(s, c).parts \o f[View!Reading(s, c).next]
      BY <1>1, <3>1 DEF PartsFrom
    <3>3. g[View!Reading(s, c).next] = f[View!Reading(s, c).next]
      BY <1>3, <3>1
    <3> QED
      BY <2>2, <3>2, <3>3
  <2> QED
    BY <2>1, <2>2
<1>5. IsParts(s, g)
  <2>1. g = [c \in 1..(Len(s) + 1) |-> f[c]]
    OBVIOUS
  <2> HIDE DEF g
  <2> QED
    BY <1>4, <2>1 DEF IsParts
<1>6. PICK h : IsParts(s, h) /\ h = (CHOOSE Parts : IsParts(s, Parts))
  <2> HIDE DEF g
  <2> QED
    BY <1>5
<1>7. \A c \in 1..n :
         h[c] = IF c > Len(s) THEN <<>>
                ELSE View!Reading(s, c).parts \o h[View!Reading(s, c).next]
  BY <1>6 DEF IsParts
<1>8. PartsFrom(s, 1, h)
  <2>1. n \in 1..n /\ n > Len(s)
    BY <1>2
  <2>2. h[n] = <<>>
    BY <1>7, <2>1
  <2>3. ASSUME NEW c \in 1..Len(s) PROVE h[c] = View!Reading(s, c).parts \o h[View!Reading(s, c).next]
    <3>1. c \in 1..n /\ ~ c > Len(s)
      BY <1>2
    <3> QED
      BY <1>7, <3>1
  <2> QED
    BY <2>2, <2>3 DEF PartsFrom
<1>9. View!parseIntoParts(s) = h[1]
  BY <1>6, ParseIs
<1> QED
  BY <1>8, <1>9

LEMMA PartsType ==
    ASSUME NEW s \in Text, NEW f, PartsFrom(s, 1, f)
    PROVE  /\ \A c \in 1..(Len(s) + 1) : f[c] \in Seq(Pieces)
           /\ \A c \in 1..Len(s) : f[c] # <<>>
<1> DEFINE n == Len(s) + 1
           T == {c \in 1..n : f[c] \in Seq(Pieces) /\ (c <= Len(s) => f[c] # <<>>)}
<1>1. Len(s) \in Nat /\ n \in Nat /\ T \in SUBSET (1..n)
  BY LenProperties DEF Text
<1>2. ASSUME NEW c \in 1..n, \A k \in (c + 1)..n : k \in T PROVE c \in T
  <2>1. CASE c = n
    <3>1. f[c] = <<>> /\ ~ c <= Len(s)
      BY <1>1, <2>1 DEF PartsFrom
    <3>2. <<>> \in Seq(Pieces)
      OBVIOUS
    <3> QED
      BY <3>1, <3>2
  <2>2. CASE c # n
    <3>1. c \in 1..Len(s)
      BY <1>1, <2>2
    <3>2. f[c] = View!Reading(s, c).parts \o f[View!Reading(s, c).next]
      BY <3>1 DEF PartsFrom
    <3>3. PICK m : m = View!Reading(s, c).next
      OBVIOUS
    <3>4. PICK A : A = View!Reading(s, c).parts
      OBVIOUS
    <3>5. A \in Seq(Pieces) /\ A # <<>> /\ m \in (c + 1)..n
      BY <1>1, <3>1, <3>3, <3>4, ReadingIs
    <3>6. f[m] \in Seq(Pieces)
      BY <1>2, <3>5
    <3>7. A \o f[m] \in Seq(Pieces) /\ Len(A \o f[m]) = Len(A) + Len(f[m])
          /\ Len(A) \in Nat \ {0} /\ Len(f[m]) \in Nat
      BY <3>5, <3>6, ConcatProperties, LenProperties, EmptySeq
    <3>8. A \o f[m] # <<>>
      BY <3>7, EmptySeq
    <3> QED
      BY <3>2, <3>3, <3>4, <3>7, <3>8
  <2> QED
    BY <2>1, <2>2
<1>3. T = 1..n
  <2> HIDE DEF T, n
  <2> QED
    BY <1>1, <1>2, Downward
<1>4. ASSUME NEW c \in 1..n PROVE f[c] \in Seq(Pieces) /\ (c <= Len(s) => f[c] # <<>>)
  <2>1. c \in T
    BY <1>3
  <2> QED
    BY <2>1
<1>5. ASSUME NEW c \in 1..Len(s) PROVE f[c] # <<>>
  BY <1>1, <1>4
<1> QED
  BY <1>4, <1>5

\* What is read from a cursor on goes on with the text.
LEMMA PartsGoOn ==
    ASSUME NEW s \in Text, NEW t, Grows(s, t), NEW f, PartsFrom(s, 1, f),
           NEW g, PartsFrom(t, 1, g)
    PROVE  \A c \in 1..Len(s) : Continues(f[c], g[c])
<1> DEFINE n == Len(s)
           T == {c \in 1..n : Continues(f[c], g[c])}
<1>1. n \in Nat /\ T \in SUBSET (1..n)
  BY LenProperties DEF Text
<1>2. ASSUME NEW c \in 1..n, \A k \in (c + 1)..n : k \in T PROVE c \in T
  <2>1. t \in Text /\ c \in 1..Len(t) /\ Len(t) \in Nat /\ Len(s) < Len(t)
    BY CursorIn, Grown
  <2>2. PICK A : A = View!Reading(s, c).parts
    OBVIOUS
  <2>3. PICK B : B = View!Reading(t, c).parts
    OBVIOUS
  <2>4. PICK m : m = View!Reading(s, c).next
    OBVIOUS
  <2>5. PICK k : k = View!Reading(t, c).next
    OBVIOUS
  <2>6. A \in Seq(Pieces) /\ m \in Nat /\ c < m /\ m <= n + 1
    BY <2>2, <2>4, ReadingIs
  <2>7. B \in Seq(Pieces) /\ k \in Nat /\ c < k /\ k <= Len(t) + 1
    BY <2>1, <2>3, <2>5, ReadingIs
  <2>8. f[c] = A \o f[m]
    BY <2>2, <2>4 DEF PartsFrom
  <2>9. g[c] = B \o g[k]
    BY <2>1, <2>3, <2>5 DEF PartsFrom
  <2>10. k \in 1..(Len(t) + 1) /\ m \in 1..(n + 1)
    BY <1>1, <2>1, <2>6, <2>7
  <2>11. f[m] \in Seq(Pieces) /\ g[k] \in Seq(Pieces)
    BY <2>1, <2>10, PartsType
  <2>12. ReadsOn(s, t, c)
    BY ReadingContinues
  <2>13. CASE m <= n /\ View!Reading(t, c) = View!Reading(s, c)
    <3>1. B = A /\ k = m
      BY <2>2, <2>3, <2>4, <2>5, <2>13
    <3>2. m \in (c + 1)..n
      BY <1>1, <2>6, <2>13
    <3>3. Continues(f[m], g[k])
      BY <1>2, <3>1, <3>2
    <3>4. f[m] # <<>>
      BY <2>10, <2>13, PartsType
    <3>5. Continues(A \o f[m], A \o g[k])
      BY <2>6, <2>11, <3>3, <3>4, RestContinues
    <3> QED
      BY <2>8, <2>9, <3>1, <3>5
  <2>14. CASE m = n + 1 /\ Continues(A, B)
    <3>1. f[m] = <<>>
      BY <2>14 DEF PartsFrom
    <3>2. A \o f[m] = A
      BY <2>6, <3>1, ConcatEmptySeq
    <3>3. Continues(A, B \o g[k])
      BY <2>6, <2>7, <2>11, <2>14, ContinuesWith
    <3> QED
      BY <2>8, <2>9, <3>2, <3>3
  <2> QED
    BY <2>2, <2>3, <2>4, <2>12, <2>13, <2>14 DEF ReadsOn
<1>3. T = 1..n
  <2> HIDE DEF T, n
  <2> QED
    BY <1>1, <1>2, Downward
<1> QED
  BY <1>3

LEMMA ParseType == ASSUME NEW s \in Text PROVE View!parseIntoParts(s) \in Seq(Pieces)
<1>1. PICK f : PartsFrom(s, 1, f) /\ View!parseIntoParts(s) = f[1]
  BY PartsAre
<1>2. 1 \in 1..(Len(s) + 1)
  BY LenProperties DEF Text
<1> QED
  BY <1>1, <1>2, PartsType

\* A text that goes on keeps its parts, but for what the last becomes.
LEMMA ParseContinues ==
    ASSUME NEW s \in Text, NEW t, Grows(s, t)
    PROVE  Continues(View!parseIntoParts(s), View!parseIntoParts(t))
<1>1. t \in Text /\ Len(s) \in Nat
  BY Grown
<1>2. PICK f : PartsFrom(s, 1, f) /\ View!parseIntoParts(s) = f[1]
  BY PartsAre
<1>3. PICK g : PartsFrom(t, 1, g) /\ View!parseIntoParts(t) = g[1]
  BY <1>1, PartsAre
<1>4. CASE Len(s) = 0
  <2>1. PICK A : A = View!parseIntoParts(s)
    OBVIOUS
  <2>2. PICK B : B = View!parseIntoParts(t)
    OBVIOUS
  <2>3. A = <<>>
    BY <1>2, <1>4, <2>1 DEF PartsFrom
  <2>4. Len(B) \in Nat /\ Len(A) = 0
    BY <1>1, <2>2, <2>3, ParseType, LenProperties
  <2> QED
    BY <2>1, <2>2, <2>4 DEF Continues
<1>5. CASE Len(s) # 0
  <2>1. 1 \in 1..Len(s)
    BY <1>1, <1>5
  <2> QED
    BY <1>2, <1>3, <2>1, PartsGoOn
<1> QED
  BY <1>4, <1>5

-----------------------------------------------------------------------------
(* The block that the cursor is in, and the blocks that are closed.        *)

Codes == [code : Text, language : Text]

LEMMA PieceIs ==
    ASSUME NEW a \in Pieces, IsOpen(a) \/ IsClosed(a)
    PROVE  /\ a.content \in Text /\ a.language \in Text
           /\ View!Key(a) \in Codes
<1>1. CASE \E x \in Text : a = View!Md(x)
  <2>1. PICK x \in Text : a = View!Md(x)
    BY <1>1
  <2>2. ~IsOpen(a) /\ ~IsClosed(a)
    BY <2>1, PartIs, PatternIs
  <2> QED
    BY <2>2
<1>2. CASE \E l \in Text, x \in Text, b \in BOOLEAN : a = View!Code(l, x, b)
  <2>1. PICK l \in Text, x \in Text, b \in BOOLEAN : a = View!Code(l, x, b)
    BY <1>2
  <2>2. a = [type |-> "code", language |-> l, content |-> x, closed |-> b]
    BY <2>1 DEF View!Code
  <2>3. a.content = x /\ a.language = l
    BY <2>2
  <2> QED
    BY <2>1, <2>3 DEF View!Key, Codes
<1> QED
  BY <1>1, <1>2 DEF Pieces

\* The last part of a text, when it is an open block.
LastOf(s) == View!parseIntoParts(s)[Len(View!parseIntoParts(s))]
HasBlock(s) == View!parseIntoParts(s) # <<>> /\ IsOpen(LastOf(s))

\* There is a block that the cursor is in when the last part is an open one.
LEMMA BlockOf ==
    ASSUME View!MessageAssumption, NEW s \in Text
    PROVE  /\ View!Block(s) = None <=> ~HasBlock(s)
           /\ HasBlock(s) =>
                 /\ View!Block(s).code = LastOf(s).content /\ View!Block(s).code \in Text
                 /\ View!Block(s).language \in Text
                 /\ View!Block(s).at = Len(View!parseIntoParts(s))
                 /\ Len(View!parseIntoParts(s)) \in Nat \ {0} /\ LastOf(s) \in Pieces
<1>1. PICK A : A = View!parseIntoParts(s)
  OBVIOUS
<1>2. A \in Seq(Pieces) /\ Len(A) \in Nat
  BY <1>1, ParseType, LenProperties
<1>3. View!Block(s) = IF HasBlock(s)
                 THEN [at |-> Len(A), language |-> LastOf(s).language, code |-> LastOf(s).content]
                 ELSE None
  BY <1>1 DEF View!Block, HasBlock, LastOf, IsOpen
<1>4. ASSUME HasBlock(s)
      PROVE  /\ View!Block(s) # None
             /\ View!Block(s).code = LastOf(s).content /\ View!Block(s).code \in Text
             /\ View!Block(s).language \in Text /\ View!Block(s).at = Len(A)
             /\ Len(A) \in Nat \ {0} /\ LastOf(s) \in Pieces
  <2>1. Len(A) \in Nat \ {0} /\ Len(A) \in 1..Len(A)
    BY <1>1, <1>2, <1>4, EmptySeq DEF HasBlock
  <2>2. PICK a : a = LastOf(s)
    OBVIOUS
  <2>3. a \in Pieces
    BY <1>1, <1>2, <2>1, <2>2, ElementOfSeq DEF LastOf
  <2>4. a.content \in Text /\ a.language \in Text
    BY <1>4, <2>2, <2>3, PieceIs DEF HasBlock
  <2>5. View!Block(s) = [at |-> Len(A), language |-> a.language, code |-> a.content]
    BY <1>3, <1>4, <2>2
  <2>6. View!Block(s) \in [at : Nat, language : Text, code : Text]
    BY <2>1, <2>4, <2>5
  <2>7. None \notin [at : Nat, language : Text, code : Text]
    BY DEF View!MessageAssumption, Text, Characters
  <2>8. View!Block(s) # None
    BY <2>6, <2>7
  <2> QED
    BY <2>1, <2>2, <2>3, <2>4, <2>5, <2>8
<1> QED
  BY <1>1, <1>3, <1>4

\* The code of a block that stays open grows, unless there was none.
LEMMA BlockGrows ==
    ASSUME View!MessageAssumption, NEW s \in Text, NEW t, Grows(s, t),
           View!Block(s) # None, View!Block(t) # None, View!Block(t).at = View!Block(s).at
    PROVE  Longer(View!Block(s).code, View!Block(t).code)
<1>1. t \in Text
  BY Grown
<1>2. HasBlock(s) /\ HasBlock(t)
  BY <1>1, BlockOf
<1>3. PICK A : A = View!parseIntoParts(s)
  OBVIOUS
<1>4. PICK B : B = View!parseIntoParts(t)
  OBVIOUS
<1>5. Len(A) \in Nat \ {0} /\ Len(A) = Len(B)
  BY <1>1, <1>2, <1>3, <1>4, BlockOf
<1>6. Continues(A, B)
  BY <1>3, <1>4, ParseContinues
<1>7. Len(A) \in 1..Len(A) /\ ~ Len(A) < Len(A)
  BY <1>5
<1>8. Becomes(A[Len(A)], B[Len(A)])
  BY <1>6, <1>7 DEF Continues
<1>9. LastOf(s) = A[Len(A)] /\ LastOf(t) = B[Len(A)]
  BY <1>3, <1>4, <1>5 DEF LastOf
<1>10. Longer(LastOf(s).content, LastOf(t).content)
  BY <1>2, <1>8, <1>9 DEF Becomes, HasBlock
<1> QED
  BY <1>1, <1>2, <1>10, BlockOf

LEMMA ClosedIs ==
    ASSUME NEW s \in Text
    PROVE  /\ View!Closed(s) = {i \in 1..Len(View!parseIntoParts(s)) :
                                  IsClosed(View!parseIntoParts(s)[i])}
           /\ \A i \in View!Closed(s) : View!Key(View!parseIntoParts(s)[i]) \in Codes
<1>1. PICK A : A = View!parseIntoParts(s)
  OBVIOUS
<1>2. A \in Seq(Pieces)
  BY <1>1, ParseType
<1>3. DOMAIN A = 1..Len(A)
  BY <1>2, LenProperties
<1>4. View!Closed(s) = {i \in 1..Len(A) : IsClosed(A[i])}
  BY <1>1, <1>3 DEF View!Closed, IsClosed
<1>5. ASSUME NEW i \in View!Closed(s) PROVE View!Key(A[i]) \in Codes
  <2>1. i \in 1..Len(A) /\ IsClosed(A[i])
    BY <1>4
  <2>2. A[i] \in Pieces
    BY <1>2, <2>1, ElementOfSeq
  <2> QED
    BY <2>1, <2>2, PieceIs
<1> QED
  BY <1>1, <1>4, <1>5

\* A closed block stays as it is.
LEMMA ClosedStays ==
    ASSUME NEW s \in Text, NEW t, Grows(s, t), NEW i \in View!Closed(s)
    PROVE  i \in View!Closed(t) /\ View!parseIntoParts(t)[i] = View!parseIntoParts(s)[i]
<1>1. PICK A : A = View!parseIntoParts(s)
  OBVIOUS
<1>2. PICK B : B = View!parseIntoParts(t)
  OBVIOUS
<1>3. t \in Text
  BY Grown
<1>4. A \in Seq(Pieces) /\ B \in Seq(Pieces) /\ Len(A) \in Nat /\ Len(B) \in Nat
  BY <1>1, <1>2, <1>3, ParseType, LenProperties
<1>5. Continues(A, B)
  BY <1>1, <1>2, ParseContinues
<1>6. i \in 1..Len(A) /\ IsClosed(A[i])
  BY <1>1, ClosedIs
<1>7. B[i] = A[i]
  BY <1>5, <1>6 DEF Continues, Becomes
<1>8. i \in 1..Len(B)
  BY <1>4, <1>5, <1>6 DEF Continues
<1>9. i \in View!Closed(t)
  <2>1. View!Closed(t) = {k \in 1..Len(B) : IsClosed(B[k])}
    BY <1>2, <1>3, ClosedIs
  <2> QED
    BY <1>6, <1>7, <1>8, <2>1
<1> QED
  BY <1>1, <1>2, <1>7, <1>9

-----------------------------------------------------------------------------
(* The inductive invariant.                                                *)

Held == [of : Codes, html : {None} \cup Codes, busy : BOOLEAN]

ViewTypes ==
    /\ raw \in Text /\ timer \in BOOLEAN /\ busy \in {None} \cup Codes
    /\ pending \in Text /\ shown \in {None} \cup Text
    /\ blocks \in [View!Closed(raw) -> Held]

\* What the highlighter has, had, and will get is a beginning of the code.
Covered(code) ==
    /\ shown # None => View!IsPrefix(shown, code)
    /\ busy # None => View!IsPrefix(busy.code, code)
    /\ View!IsPrefix(pending, code)
    /\ pending # <<>> => busy # None /\ pending # busy.code

\* While the timer runs there is more code than that; when it does not, the code
\* waits, is in the highlighter, or was there last.
InTime(code) ==
    /\ timer /\ busy # None => busy.code # code \/ code = <<>>
    /\ timer /\ pending # <<>> => pending # code
    /\ ~timer /\ busy # None => \/ pending # <<>> /\ pending = code
                                \/ pending = <<>> /\ busy.code = code
    /\ ~timer /\ busy = None => tried = code

Idle == ~timer /\ busy = None /\ pending = <<>> /\ shown = None /\ tried = None

OpenInv == IF View!Block(raw) = None THEN Idle
           ELSE Covered(View!Block(raw).code) /\ InTime(View!Block(raw).code)

ViewInv == ViewTypes /\ View!ClosedIsCode /\ OpenInv

\* A beginning of the code is one of the code that has grown, and shorter than it.
LEMMA PrefixAgain ==
    ASSUME NEW x \in Text, NEW y \in Text, NEW z \in Text, View!IsPrefix(x, y), Longer(y, z)
    PROVE  View!IsPrefix(x, z) /\ (x = z => z = <<>>)
<1>1. /\ Len(x) \in Nat /\ Len(y) \in Nat /\ Len(z) \in Nat
      /\ Len(x) <= Len(y) /\ SubSeq(x, 1, Len(x)) = SubSeq(y, 1, Len(x))
      /\ Len(y) <= Len(z) /\ SubSeq(y, 1, Len(y)) = SubSeq(z, 1, Len(y))
  BY LenProperties DEF View!IsPrefix, Longer, Text
<1>2. /\ SubSeq(x, 1, Len(x)) = x /\ SubSeq(y, 1, Len(y)) = y
  BY SubSeqFull DEF Text
<1>3. \A k \in 1..Len(y) : y[k] = z[k]
  <2>1. \A k \in 1..Len(y) : SubSeq(z, 1, Len(y))[k] = z[k]
    BY <1>1, SliceIs
  <2> QED
    BY <1>1, <1>2, <2>1
<1>4. SubSeq(z, 1, Len(x)) = SubSeq(y, 1, Len(x))
  <2>1. /\ SubSeq(z, 1, Len(x)) \in Text /\ Len(SubSeq(z, 1, Len(x))) = Len(x)
        /\ \A k \in 1..Len(x) : SubSeq(z, 1, Len(x))[k] = z[k]
    BY <1>1, SliceIs
  <2>2. /\ SubSeq(y, 1, Len(x)) \in Text /\ Len(SubSeq(y, 1, Len(x))) = Len(x)
        /\ \A k \in 1..Len(x) : SubSeq(y, 1, Len(x))[k] = y[k]
    BY <1>1, SliceIs
  <2>3. \A k \in 1..Len(x) : y[k] = z[k]
    BY <1>1, <1>3
  <2> QED
    BY <2>1, <2>2, <2>3, SeqEqual DEF Text
<1>5. View!IsPrefix(x, z)
  BY <1>1, <1>4 DEF View!IsPrefix
<1>6. ASSUME x = z PROVE z = <<>>
  <2>1. Len(y) = Len(z)
    BY <1>1, <1>6
  <2>2. y = z
    BY <1>1, <1>3, <2>1, SeqEqual DEF Text
  <2>3. y = <<>>
    BY <2>2 DEF Longer
  <2> QED
    BY <2>2, <2>3
<1> QED
  BY <1>5, <1>6

LEMMA PrefixOfItself ==
    ASSUME NEW x \in Text
    PROVE  /\ View!IsPrefix(x, x) /\ View!IsPrefix(<<>>, x)
           /\ View!IsPrefix(x, <<>>) => x = <<>>
<1>1. View!IsPrefix(x, x)
  BY LenProperties DEF View!IsPrefix, Text
<1>2. View!IsPrefix(<<>>, x)
  BY AnyIsLonger DEF Longer
<1>3. PICK e : e = <<>>
  OBVIOUS
<1>4. Len(e) = 0 /\ Len(x) \in Nat
  BY <1>3, LenProperties DEF Text
<1>5. View!IsPrefix(x, e) => x = e
  BY <1>3, <1>4, EmptySeq DEF View!IsPrefix
<1> QED
  BY <1>1, <1>2, <1>3, <1>5

LEMMA ParseEmpty == View!parseIntoParts(<<>>) = <<>>
<1>1. PICK s \in Text : s = <<>>
  BY PatternIs
<1>2. PICK f : PartsFrom(s, 1, f) /\ View!parseIntoParts(s) = f[1]
  BY PartsAre
<1>3. Len(s) = 0
  BY <1>1
<1> QED
  BY <1>1, <1>2, <1>3 DEF PartsFrom

LEMMA NotRecords == ASSUME View!MessageAssumption PROVE None \notin Codes
BY DEF View!MessageAssumption, Codes, Text, Characters

\* The first state.
LEMMA InitHolds == ASSUME View!MessageAssumption PROVE View!Init => ViewInv
<1> SUFFICES ASSUME View!Init PROVE ViewInv
  OBVIOUS
<1>1. /\ raw = <<>> /\ timer = FALSE /\ busy = None /\ pending = <<>> /\ shown = None
      /\ tried = None /\ blocks = <<>>
  BY DEF View!Init
<1>2. PICK s \in Text : s = <<>> /\ s = raw
  BY <1>1, PatternIs
<1>3. View!parseIntoParts(s) = <<>>
  BY <1>2, ParseEmpty
<1>4. View!Closed(s) = {}
  BY <1>2, <1>3, ClosedIs
<1>5. View!Block(s) = None
  BY <1>2, <1>3, BlockOf DEF HasBlock
<1>6. DOMAIN blocks = {} /\ blocks \in [{} -> Held]
  <2>1. \A z : z \notin DOMAIN blocks
    BY <1>1
  <2>2. blocks = [i \in DOMAIN blocks |-> blocks[i]]
    BY <1>1
  <2> QED
    BY <2>1, <2>2
<1>7. ViewTypes
  BY <1>1, <1>2, <1>4, <1>6, PatternIs DEF ViewTypes
<1>8. View!ClosedIsCode
  BY <1>2, <1>4, <1>6 DEF View!ClosedIsCode
<1>9. OpenInv
  BY <1>1, <1>2, <1>5 DEF OpenInv, Idle
<1> QED
  BY <1>7, <1>8, <1>9 DEF ViewInv

\* A chunk makes the text go on.
LEMMA GrowsWith ==
    ASSUME View!MessageAssumption, raw \in Text, NEW d \in Deltas, raw' = raw \o d
    PROVE  Grows(raw, raw') /\ raw' \in Text
<1>1. d \in Text /\ d # <<>>
  BY DEF View!MessageAssumption, Text, Characters
<1>2. Grows(raw, raw')
  BY <1>1 DEF Grows
<1> QED
  BY <1>2, Grown

\* A block that closes is kept as it was given to the highlighter.
LEMMA GrowKeepsBlocks ==
    ASSUME View!MessageAssumption, ViewInv, NEW d \in Deltas, View!Grow(d)
    PROVE  blocks' \in [View!Closed(raw') -> Held] /\ View!ClosedIsCode'
<1>1. /\ raw \in Text /\ blocks \in [View!Closed(raw) -> Held] /\ raw' = raw \o d
      /\ \A i \in View!Closed(raw) : /\ blocks[i].of = View!Key(View!parseIntoParts(raw)[i])
                                /\ blocks[i].html \in {None, blocks[i].of}
  BY DEF ViewInv, ViewTypes, View!ClosedIsCode, View!Grow
<1>2. Grows(raw, raw') /\ raw' \in Text
  BY <1>1, GrowsWith
<1>3. PICK P : P = View!parseIntoParts(raw')
  OBVIOUS
<1>4. PICK cached \in SUBSET (View!Closed(raw') \ DOMAIN blocks) :
          blocks' = [i \in View!Closed(raw') |-> View!HighlightedCode(i, P[i], i \in cached)]
  BY <1>3 DEF View!Grow
<1>5. ASSUME NEW i \in View!Closed(raw')
      PROVE  /\ blocks'[i] \in Held /\ blocks'[i].of = View!Key(P[i])
             /\ blocks'[i].html \in {None, blocks'[i].of}
  <2>1. blocks'[i] = View!HighlightedCode(i, P[i], i \in cached)
    BY <1>4
  <2>2. View!Key(P[i]) \in Codes
    BY <1>2, <1>3, ClosedIs
  <2>3. CASE i \in DOMAIN blocks
    <3>1. i \in View!Closed(raw)
      BY <1>1, <2>3
    <3>2. P[i] = View!parseIntoParts(raw)[i]
      BY <1>1, <1>2, <1>3, <3>1, ClosedStays
    <3>3. blocks[i].of = View!Key(P[i])
      BY <1>1, <3>1, <3>2
    <3>4. blocks'[i] = blocks[i]
      BY <2>1, <2>3, <3>3 DEF View!HighlightedCode
    <3>5. blocks[i] \in Held
      BY <1>1, <3>1
    <3> QED
      BY <1>1, <3>1, <3>3, <3>4, <3>5
  <2>4. CASE i \notin DOMAIN blocks
    <3>1. PICK k \in Codes : k = View!Key(P[i])
      BY <2>2
    <3>2. View!Key(P[i]) \in Codes /\ i \notin DOMAIN blocks
      BY <2>2, <2>4
    <3>3. View!HighlightedCode(i, P[i], i \in cached)
             = [of |-> View!Key(P[i]), html |-> IF i \in cached THEN View!Key(P[i]) ELSE None,
                busy |-> ~(i \in cached)]
      BY <2>4, Zenon DEF View!HighlightedCode
    <3>4. PICK h \in {None, k} : h = IF i \in cached THEN k ELSE None
      OBVIOUS
    <3>5. PICK b \in BOOLEAN : b = ~(i \in cached)
      OBVIOUS
    <3>6. blocks'[i] = [of |-> k, html |-> h, busy |-> b]
      BY <2>1, <3>1, <3>3, <3>4, <3>5
    <3>7. blocks'[i].of = k /\ blocks'[i].html = h
      BY <3>6
    <3>8. blocks'[i] \in Held
      BY <3>1, <3>4, <3>5, <3>6 DEF Held
    <3> QED
      BY <3>1, <3>4, <3>7, <3>8
  <2> QED
    BY <2>3, <2>4
<1>6. DOMAIN blocks' = View!Closed(raw') /\ blocks' = [i \in View!Closed(raw') |-> blocks'[i]]
  BY <1>4
<1>7. blocks' \in [View!Closed(raw') -> Held]
  BY <1>5, <1>6
<1>8. View!ClosedIsCode'
  BY <1>3, <1>5, <1>6 DEF View!ClosedIsCode
<1> QED
  BY <1>7, <1>8

\* New code leaves the highlighter behind, and the timer runs.
LEMMA GrowKeepsOpen ==
    ASSUME View!MessageAssumption, ViewInv, NEW d \in Deltas, View!Grow(d)
    PROVE  /\ OpenInv' /\ timer' \in BOOLEAN /\ busy' \in {None} \cup Codes
           /\ pending' \in Text /\ shown' \in {None} \cup Text
<1>1. /\ raw \in Text /\ timer \in BOOLEAN /\ busy \in {None} \cup Codes
      /\ pending \in Text /\ shown \in {None} \cup Text
  BY DEF ViewInv, ViewTypes
<1>2. Grows(raw, raw') /\ raw' \in Text
  BY <1>1, GrowsWith DEF View!Grow
<1>3. PICK old : old = View!Block(raw)
  OBVIOUS
<1>4. PICK new : new = View!Block(raw')
  OBVIOUS
<1>5. CASE old # None /\ new # None /\ new.at = old.at
  <2>1. UNCHANGED <<busy, pending, shown, tried>> /\ timer' = (timer \/ new # old)
    BY <1>3, <1>4, <1>5 DEF View!Grow
  <2>2. PICK y \in Text : y = old.code
    BY <1>1, <1>3, <1>5, BlockOf
  <2>3. PICK z \in Text : z = new.code
    BY <1>2, <1>4, <1>5, BlockOf
  <2>4. Longer(y, z)
    BY <1>1, <1>2, <1>3, <1>4, <1>5, <2>2, <2>3, BlockGrows
  <2>5. Covered(y) /\ InTime(y)
    BY <1>3, <1>5, <2>2 DEF ViewInv, OpenInv
  <2>6. \A x \in Text : View!IsPrefix(x, y) => View!IsPrefix(x, z) /\ (x = z => z = <<>>)
    BY <2>2, <2>3, <2>4, PrefixAgain
  <2>7. busy # None => busy.code \in Text
    BY <1>1 DEF Codes
  <2>8. Covered(z)
    BY <1>1, <2>5, <2>6, <2>7 DEF Covered
  <2>9. Covered(z)'
    BY <2>1, <2>8 DEF Covered
  <2>12. View!Block(raw)' # None /\ (View!Block(raw)').code = z
    BY <1>4, <1>5, <2>3
  <2>10. ASSUME timer' PROVE OpenInv'
    <3>1. /\ busy # None => busy.code # z \/ z = <<>>
          /\ pending # <<>> => pending # z
      BY <1>1, <2>5, <2>6, <2>7 DEF Covered
    <3>2. /\ busy' # None => busy'.code # z \/ z = <<>>
          /\ pending' # <<>> => pending' # z
      BY <2>1, <3>1
    <3>9. InTime(z)'
      BY <2>10, <3>2 DEF InTime
    <3> QED
      BY <2>9, <2>12, <3>9 DEF OpenInv, Covered, InTime
  <2>11. ASSUME ~timer' PROVE OpenInv'
    <3>1. new = old /\ ~timer
      BY <2>1, <2>11
    <3>2. z = y
      BY <2>2, <2>3, <3>1
    <3>3. /\ busy # None => \/ pending # <<>> /\ pending = z
                            \/ pending = <<>> /\ busy.code = z
          /\ busy = None => tried = z
      BY <2>5, <3>1, <3>2 DEF InTime
    <3>4. /\ busy' # None => \/ pending' # <<>> /\ pending' = z
                             \/ pending' = <<>> /\ busy'.code = z
          /\ busy' = None => tried' = z
      BY <2>1, <3>3
    <3>9. InTime(z)'
      BY <2>11, <3>4 DEF InTime
    <3> QED
      BY <2>9, <2>12, <3>9 DEF OpenInv, Covered, InTime
  <2> QED
    BY <1>1, <2>1, <2>10, <2>11
<1>6. CASE ~(old # None /\ new # None /\ new.at = old.at)
  <2>1. /\ timer' = (new # None) /\ busy' = None /\ pending' = <<>>
        /\ shown' = None /\ tried' = None
    BY <1>3, <1>4, <1>6 DEF View!Grow
  <2>2. CASE new = None
    BY <1>4, <2>1, <2>2, PatternIs DEF OpenInv, Idle
  <2>3. CASE new # None
    <3>1. PICK z \in Text : z = new.code
      BY <1>2, <1>4, <2>3, BlockOf
    <3>2. View!IsPrefix(<<>>, z)
      BY PrefixOfItself
    <3>3. Covered(z)' /\ InTime(z)'
      BY <2>1, <2>3, <3>2 DEF Covered, InTime
    <3>4. OpenInv'
      BY <1>4, <2>3, <3>1, <3>3 DEF OpenInv, Covered, InTime
    <3> QED
      BY <2>1, <3>4, PatternIs
  <2> QED
    BY <2>2, <2>3
<1> QED
  BY <1>5, <1>6

\* The code is given to the highlighter, or waits for it.
LEMMA TimerFiresKeeps == ASSUME View!MessageAssumption, ViewInv, View!TimerFires PROVE ViewInv'
<1>1. /\ raw \in Text /\ timer \in BOOLEAN /\ busy \in {None} \cup Codes
      /\ pending \in Text /\ shown \in {None} \cup Text
      /\ blocks \in [View!Closed(raw) -> Held] /\ View!ClosedIsCode
  BY DEF ViewInv, ViewTypes
<1>2. timer /\ timer' = FALSE /\ raw' = raw /\ shown' = shown /\ tried' = tried /\ blocks' = blocks
  BY DEF View!TimerFires
<1>3. View!Block(raw) # None
  BY <1>2 DEF ViewInv, OpenInv, Idle
<1>4. PICK z \in Text : z = View!Block(raw).code
  BY <1>1, <1>3, BlockOf
<1>5. PICK l \in Text : l = View!Block(raw).language
  BY <1>1, <1>3, BlockOf
<1>6. Covered(z) /\ InTime(z)
  BY <1>3, <1>4 DEF ViewInv, OpenInv
<1>7. /\ busy # None => pending' = z /\ busy' = busy
      /\ busy = None => busy' = [code |-> z, language |-> l] /\ pending' = pending
  BY <1>4, <1>5 DEF View!TimerFires, View!doHighlight
<1>8. View!IsPrefix(z, z) /\ (View!IsPrefix(busy.code, <<>>) /\ busy # None => busy.code = <<>>)
  <2>1. busy # None => busy.code \in Text
    BY <1>1 DEF Codes
  <2> QED
    BY <2>1, PrefixOfItself
<1>9. CASE busy # None
  <2>1. /\ busy' # None /\ busy'.code = busy.code /\ pending' = z /\ pending' \in Text
        /\ busy' \in Codes
    BY <1>1, <1>7, <1>9
  <2>2. /\ View!IsPrefix(busy.code, z) /\ (busy.code # z \/ z = <<>>)
        /\ (shown # None => View!IsPrefix(shown, z))
    BY <1>2, <1>6, <1>9 DEF Covered, InTime
  <2>3. z = <<>> => busy.code = <<>>
    BY <1>8, <1>9, <2>2
  <2>4. Covered(z)'
    BY <1>2, <1>8, <2>1, <2>2 DEF Covered
  <2>5. InTime(z)'
    BY <1>2, <2>1, <2>2, <2>3 DEF InTime
  <2>6. OpenInv'
    BY <1>2, <1>3, <1>4, <2>4, <2>5 DEF OpenInv, Covered, InTime
  <2>7. ViewTypes'
    BY <1>1, <1>2, <2>1 DEF ViewTypes
  <2>8. View!ClosedIsCode'
    BY <1>1, <1>2 DEF View!ClosedIsCode
  <2> QED
    BY <2>6, <2>7, <2>8 DEF ViewInv
<1>10. CASE busy = None
  <2>1. PICK c \in Codes : c = [code |-> z, language |-> l]
    BY DEF Codes
  <2>2. c # None /\ c.code = z
    BY <2>1, NotRecords
  <2>3. busy' = c /\ pending' = pending /\ pending = <<>>
    BY <1>6, <1>7, <1>10, <2>1 DEF Covered
  <2>4. Covered(z)'
    BY <1>2, <1>6, <1>8, <2>2, <2>3 DEF Covered
  <2>5. InTime(z)'
    BY <1>2, <2>2, <2>3 DEF InTime
  <2>6. OpenInv'
    BY <1>2, <1>3, <1>4, <2>4, <2>5 DEF OpenInv, Covered, InTime
  <2>7. ViewTypes'
    BY <1>1, <1>2, <2>1, <2>3 DEF ViewTypes
  <2>8. View!ClosedIsCode'
    BY <1>1, <1>2 DEF View!ClosedIsCode
  <2> QED
    BY <2>6, <2>7, <2>8 DEF ViewInv
<1> QED
  BY <1>9, <1>10

\* The highlighter goes on with the code that waits, or comes to rest.
LEMMA HighlightedKeeps ==
    ASSUME View!MessageAssumption, ViewInv, NEW ok \in BOOLEAN, View!Highlighted(ok) PROVE ViewInv'
<1>1. /\ raw \in Text /\ timer \in BOOLEAN /\ busy \in Codes /\ busy # None
      /\ pending \in Text /\ shown \in {None} \cup Text
      /\ blocks \in [View!Closed(raw) -> Held] /\ View!ClosedIsCode
  BY DEF ViewInv, ViewTypes, View!Highlighted
<1>2. timer' = timer /\ raw' = raw /\ blocks' = blocks
  BY DEF View!Highlighted
<1>3. View!Block(raw) # None
  BY <1>1 DEF ViewInv, OpenInv, Idle
<1>4. PICK z \in Text : z = View!Block(raw).code
  BY <1>1, <1>3, BlockOf
<1>5. PICK x \in Text, l \in Text : busy = [code |-> x, language |-> l]
  BY <1>1 DEF Codes
<1>6. Covered(z) /\ InTime(z) /\ busy.code = x
  BY <1>3, <1>4, <1>5 DEF ViewInv, OpenInv
<1>7. /\ shown' = (IF ok THEN x ELSE shown) /\ tried' = x
      /\ IF pending \notin {<<>>, x}
         THEN busy' = [busy EXCEPT !.code = pending] /\ pending' = <<>>
         ELSE busy' = None /\ UNCHANGED pending
  BY <1>6 DEF View!Highlighted
<1>8. View!IsPrefix(<<>>, z) /\ View!IsPrefix(x, z) /\ <<>> \in Text
  BY <1>1, <1>6, PrefixOfItself, PatternIs DEF Covered
<1>9. shown' \in {None} \cup Text /\ (shown' # None => View!IsPrefix(shown', z))
  BY <1>1, <1>6, <1>7, <1>8 DEF Covered
<1>10. CASE pending \notin {<<>>, x}
  <2>1. PICK c \in Codes : c = [code |-> pending, language |-> l]
    BY <1>1, <1>5 DEF Codes
  <2>2. busy' = c /\ pending' = <<>>
    BY <1>5, <1>7, <1>10, <2>1
  <2>3. c # None /\ c.code = pending
    BY <2>1, NotRecords
  <2>4. Covered(z)'
    BY <1>6, <1>8, <1>9, <2>2, <2>3 DEF Covered
  <2>5. InTime(z)'
    BY <1>1, <1>2, <1>6, <1>10, <2>2, <2>3 DEF InTime
  <2>6. OpenInv'
    BY <1>2, <1>3, <1>4, <2>4, <2>5 DEF OpenInv, Covered, InTime
  <2>7. ViewTypes'
    BY <1>1, <1>2, <1>8, <1>9, <2>2 DEF ViewTypes
  <2>8. View!ClosedIsCode'
    BY <1>1, <1>2 DEF View!ClosedIsCode
  <2> QED
    BY <2>6, <2>7, <2>8 DEF ViewInv
<1>11. CASE pending \in {<<>>, x}
  <2>1. busy' = None /\ pending' = <<>> /\ pending = <<>>
    BY <1>6, <1>7, <1>11 DEF Covered
  <2>2. Covered(z)'
    BY <1>8, <1>9, <2>1 DEF Covered
  <2>3. ~timer => x = z
    BY <1>1, <1>6, <2>1 DEF InTime
  <2>4. InTime(z)'
    BY <1>2, <1>7, <2>1, <2>3 DEF InTime
  <2>5. OpenInv'
    BY <1>2, <1>3, <1>4, <2>2, <2>4 DEF OpenInv, Covered, InTime
  <2>6. ViewTypes'
    BY <1>1, <1>2, <1>8, <1>9, <2>1 DEF ViewTypes
  <2>7. View!ClosedIsCode'
    BY <1>1, <1>2 DEF View!ClosedIsCode
  <2> QED
    BY <2>5, <2>6, <2>7 DEF ViewInv
<1> QED
  BY <1>10, <1>11

LEMMA FieldsSet ==
    ASSUME NEW o, NEW h, NEW b, NEW f, NEW n, NEW q, q = [of |-> o, html |-> h, busy |-> b],
           NEW p, p = [q EXCEPT !.busy = f], NEW r, r = [p EXCEPT !.html = n]
    PROVE  r = [of |-> o, html |-> n, busy |-> f]
<1>1. p = [of |-> o, html |-> h, busy |-> f]
  OBVIOUS
<1> QED
  BY ONLY <1>1, r = [p EXCEPT !.html = n]

\* A closed block has its result.
LEMMA HighlightedOnceKeeps ==
    ASSUME ViewInv, NEW ok \in BOOLEAN, NEW i \in DOMAIN blocks, View!HighlightedOnce(i, ok)
    PROVE  ViewInv'
<1>1. /\ blocks \in [View!Closed(raw) -> Held]
      /\ \A k \in View!Closed(raw) : /\ blocks[k].of = View!Key(View!parseIntoParts(raw)[k])
                                /\ blocks[k].html \in {None, blocks[k].of}
  BY DEF ViewInv, ViewTypes, View!ClosedIsCode
<1>2. PICK o, h, b : /\ o \in Codes /\ h \in {None} \cup Codes
                      /\ blocks[i] = [of |-> o, html |-> h, busy |-> b]
  <2>1. blocks[i] \in Held
    BY <1>1
  <2> QED
    BY <2>1 DEF Held
<1>3. PICK n \in {None, o} : n = IF ok THEN blocks[i].of ELSE None
  BY <1>2
<1>4. PICK r \in Held : r = [of |-> o, html |-> n, busy |-> FALSE]
  BY <1>2, <1>3 DEF Held
<1>5. blocks' = [blocks EXCEPT ![i].busy = FALSE, ![i].html = IF ok THEN blocks[i].of ELSE None]
  BY DEF View!HighlightedOnce
<1>6. blocks' = [blocks EXCEPT ![i] = r]
  <2>1. PICK f : f = FALSE
    OBVIOUS
  <2>2. PICK q : q = blocks[i]
    OBVIOUS
  <2>3. q = [of |-> o, html |-> h, busy |-> b]
    BY <1>2, <2>2
  <2>4. PICK p : p = [q EXCEPT !.busy = f]
    OBVIOUS
  <2>5. PICK m : m = [p EXCEPT !.html = n]
    OBVIOUS
  <2>6. m = [of |-> o, html |-> n, busy |-> f]
    BY <2>3, <2>4, <2>5, FieldsSet
  <2>7. m = r
    BY <1>4, <2>1, <2>6, Zenon
  <2>8. blocks' = [blocks EXCEPT ![i].busy = f, ![i].html = n]
    BY <1>3, <1>5, <2>1, Zenon
  <2>9. blocks' = [blocks EXCEPT ![i] = [[blocks[i] EXCEPT !.busy = f] EXCEPT !.html = n]]
    BY <2>8
  <2> QED
    BY <2>2, <2>4, <2>5, <2>7, <2>9
<1>7. /\ blocks' \in [View!Closed(raw) -> Held]
      /\ \A k \in View!Closed(raw) : blocks'[k] = IF k = i THEN r ELSE blocks[k]
  BY <1>1, <1>6
<1>8. r.of = blocks[i].of /\ r.html \in {None, r.of}
  BY <1>2, <1>3, <1>4
<1>9. UNCHANGED <<raw, deltas, timer, busy, pending, shown, tried>>
  BY DEF View!HighlightedOnce
<1>10. View!ClosedIsCode'
  BY <1>1, <1>7, <1>8, <1>9 DEF View!ClosedIsCode
<1>11. ViewTypes'
  BY <1>7, <1>9 DEF ViewInv, ViewTypes
<1>12. OpenInv'
  BY <1>9 DEF ViewInv, OpenInv, Idle, Covered, InTime
<1> QED
  BY <1>10, <1>11, <1>12 DEF ViewInv

LEMMA StutterKeeps == ASSUME ViewInv, UNCHANGED View!viewVars PROVE ViewInv'
BY DEF ViewInv, ViewTypes, View!ClosedIsCode, OpenInv, Idle, Covered, InTime, View!viewVars

\* What is on screen is the code, dollar signs that String.replace reads aside, and
\* highlighting it ends with the code (ChatMessage.tsx).
THEOREM HighlightIsSound == ASSUME View!MessageAssumption PROVE View!Spec => []View!HighlightSound
<1>1. View!Init => ViewInv
  BY InitHolds
<1>2. ViewInv /\ [View!Next]_View!viewVars => ViewInv'
  <2> SUFFICES ASSUME ViewInv, [View!Next]_View!viewVars PROVE ViewInv'
    OBVIOUS
  <2>1. ASSUME NEW d \in Deltas, View!Grow(d) PROVE ViewInv'
    <3>1. raw' \in Text
      BY <2>1, GrowsWith DEF ViewInv, ViewTypes, View!Grow
    <3> QED
      BY <2>1, <3>1, GrowKeepsBlocks, GrowKeepsOpen DEF ViewInv, ViewTypes
  <2>2. ASSUME NEW ok \in BOOLEAN, View!Highlighted(ok) PROVE ViewInv'
    BY <2>2, HighlightedKeeps
  <2>3. ASSUME NEW ok \in BOOLEAN, NEW i \in DOMAIN blocks, View!HighlightedOnce(i, ok) PROVE ViewInv'
    BY <2>3, HighlightedOnceKeeps
  <2> QED
    BY <2>1, <2>2, <2>3, TimerFiresKeeps, StutterKeeps DEF View!Next
<1>3. ViewInv => View!HighlightSound
  BY DEF ViewInv, OpenInv, Idle, Covered, InTime, View!HighlightSound, View!ShownIsCode,
         View!HighlightCatchesUp
<1> QED
  BY <1>1, <1>2, <1>3, PTL DEF View!Spec

\* More text never changes how the text before it is read.
LEMMA GrowIsStable ==
    ASSUME View!MessageAssumption, raw \in Text, NEW d \in Deltas, raw' = raw \o d
    PROVE  View!GrowsStably
<1>1. PICK A : A = View!parseIntoParts(raw)
  OBVIOUS
<1>2. PICK B : B = View!parseIntoParts(raw')
  OBVIOUS
<1>3. Continues(A, B)
  BY <1>1, <1>2, GrowsWith, ParseContinues
<1>4. Len(A) \in Nat
  BY <1>1, ParseType, LenProperties
<1>5. Len(A) <= Len(B) /\ \A i \in 1..(Len(A) - 1) : B[i] = A[i]
  BY <1>3, <1>4 DEF Continues
<1> QED
  BY <1>1, <1>2, <1>5 DEF View!GrowsStably

LEMMA SameIsStable == ASSUME raw \in Text, raw' = raw PROVE View!GrowsStably
<1>1. PICK A : A = View!parseIntoParts(raw)
  OBVIOUS
<1>2. Len(A) \in Nat
  BY <1>1, ParseType, LenProperties
<1> QED
  BY <1>1, <1>2 DEF View!GrowsStably

\* In every step of a reply, what precedes its last part stays as it was read.
THEOREM GrowthIsStable ==
    ASSUME View!MessageAssumption PROVE View!Spec => [][View!GrowsStably]_View!viewVars
<1>1. View!Init => raw \in Text
  BY PatternIs DEF View!Init
<1>2. raw \in Text /\ [View!Next]_View!viewVars => (raw \in Text)' /\ View!GrowsStably
  <2> SUFFICES ASSUME raw \in Text, [View!Next]_View!viewVars PROVE raw' \in Text /\ View!GrowsStably
    OBVIOUS
  <2>1. ASSUME NEW d \in Deltas, View!Grow(d) PROVE raw' \in Text /\ View!GrowsStably
    <3>1. raw' = raw \o d
      BY <2>1 DEF View!Grow
    <3> QED
      BY <3>1, GrowsWith, GrowIsStable
  <2>2. CASE UNCHANGED raw
    BY <2>2, SameIsStable
  <2> QED
    BY <2>1, <2>2 DEF View!Next, View!TimerFires, View!Highlighted, View!HighlightedOnce, View!viewVars
<1> QED
  BY <1>1, <1>2, PTL DEF View!Spec
=============================================================================
