------------------------------ MODULE MessageView ------------------------------
(***************************************************************************)
(* A reply on screen while it streams, components/chat/ChatMessage.tsx.    *)
(* Each frame splits the text received so far into Markdown and code       *)
(* blocks; an open code block is highlighted again and again by a          *)
(* highlighter that takes its time, after a timer that every frame with    *)
(* new code starts again; a block that is closed is highlighted once.      *)
(* Characters matter as far as the parser tells them apart: a backtick, a  *)
(* newline, any other.  What ReactMarkdown makes of the Markdown parts,    *)
(* and of the whole message once it is complete, is left out, and so are   *)
(* the spaces trimmed off the name of a language.  The code that is not    *)
(* highlighted yet is put in by String.replace, which reads a dollar sign  *)
(* before a dollar, an ampersand or a quotation mark as a pattern: such    *)
(* code is shown distorted until it is highlighted.  The characters of     *)
(* the model have no dollar.                                               *)
(***************************************************************************)
EXTENDS Naturals, Sequences, SequencesExt

CONSTANTS Backtick, Newline, Other,   \* characters
          None,
          Deltas,                 \* texts that a chunk of the stream may add
          MaxDeltas               \* bound on chunks

\* What the values of the constants have to be.
MessageAssumption ==
    LET Text == Seq({Backtick, Newline, Other})
    IN /\ Deltas \subseteq Text /\ <<>> \notin Deltas
       /\ MaxDeltas \in Nat
       /\ None \notin [code : Text, language : Text]
       /\ None \notin [at : Nat, language : Text, code : Text]

VARIABLES raw,      \* message.content
          deltas,   \* chunks so far
          timer,    \* the timer of the open block is running
          busy,     \* [code, language] in the highlighter, or None
          pending,  \* pendingRef: the next code, <<>> for none
          shown,    \* highlightedCode, or None before there is any
          tried,    \* the code the highlighter was last given back for
          blocks    \* the closed blocks, by their place among the parts

viewVars == <<raw, deltas, timer, busy, pending, shown, tried, blocks>>

-----------------------------------------------------------------------------
(* parseIntoParts.                                                         *)

Fence == <<Backtick, Backtick, Backtick>>
Closing == <<Newline, Backtick, Backtick, Backtick>>
LineEnd == <<Newline>>

\* Positions from c on at which p starts; indexOf gives the first.
Finds(s, p, c) == {i \in c..(Len(s) - Len(p) + 1) : SubSeq(s, i, i + Len(p) - 1) = p}
IndexOf(s, p, c) == Min(Finds(s, p, c))
From(s, c) == SubSeq(s, c, Len(s))

Md(s) == [type |-> "md", content |-> s]
Code(l, s, closed) == [type |-> "code", language |-> l, content |-> s, closed |-> closed]

\* Mutant of ClosingFence: a block ends at the last fence of the text.
ClosingFence_Last(s, c) == Max(Finds(s, Closing, c))

ClosingFence(s, c) == IndexOf(s, Closing, c)

\* The text between the cursor and a fence.
Before(s, c, open) == IF open > c THEN <<Md(SubSeq(s, c, open - 1))>> ELSE <<>>

\* What is read at the cursor c, and where the cursor moves: text up to a fence,
\* the block that it opens, and the newline after the block.
Reading(s, c) ==
    LET open == IndexOf(s, Fence, c)
        text == Before(s, c, open)
        line == IndexOf(s, LineEnd, open + 3)
        lang == SubSeq(s, open + 3, line - 1)
        end  == ClosingFence(s, line + 1)
        done == Len(s) + 1
    IN IF Finds(s, Fence, c) = {} THEN [parts |-> <<Md(From(s, c))>>, next |-> done]
       ELSE IF Finds(s, LineEnd, open + 3) = {}
       THEN [parts |-> Append(text, Code(From(s, open + 3), <<>>, FALSE)), next |-> done]
       ELSE IF Finds(s, Closing, line + 1) = {}
       THEN [parts |-> Append(text, Code(lang, From(s, line + 1), FALSE)), next |-> done]
       ELSE [parts |-> Append(text, Code(lang, SubSeq(s, line + 1, end - 1), TRUE)),
             next |-> IF end + 4 <= Len(s) /\ s[end + 4] = Newline THEN end + 5 ELSE end + 4]

parseIntoParts(s) ==
    LET Parts[c \in 1..(Len(s) + 1)] ==
            LET read == Reading(s, c)
            IN IF c > Len(s) THEN <<>> ELSE read.parts \o Parts[read.next]
    IN Parts[1]

\* The code block that the cursor is in, with its place among the parts.
Block(s) ==
    LET parts == parseIntoParts(s)
        last == parts[Len(parts)]
    IN IF parts # <<>> /\ last.type = "code" /\ ~last.closed
       THEN [at |-> Len(parts), language |-> last.language, code |-> last.content]
       ELSE None

-----------------------------------------------------------------------------
(* HighlightedCode and StreamingHighlightedCode.                           *)

Init == /\ raw = <<>> /\ deltas = 0 /\ timer = FALSE /\ busy = None
        /\ pending = <<>> /\ shown = None /\ tried = None /\ blocks = <<>>

Closed(s) == LET parts == parseIntoParts(s)
             IN {i \in DOMAIN parts : parts[i].type = "code" /\ parts[i].closed}

Key(part) == [language |-> part.language, code |-> part.content]

\* A block that closes is given to highlightCode, which has it at once if it was
\* highlighted before, in whatever message.  From then on it stays as it is.
HighlightedCode(i, part, cached) ==
    IF i \in DOMAIN blocks /\ (blocks[i].html # None \/ blocks[i].of = Key(part))
    THEN blocks[i]
    ELSE [of |-> Key(part), html |-> IF cached THEN Key(part) ELSE None, busy |-> ~cached]

\* A frame with more text.  A block that opens has a highlighter of its own; one
\* that ends takes its highlighter with it.
Grow(d) ==
    /\ deltas < MaxDeltas /\ deltas' = deltas + 1
    /\ raw' = raw \o d
    /\ LET old == Block(raw)
           new == Block(raw')
       IN IF old # None /\ new # None /\ new.at = old.at
          THEN /\ timer' = (timer \/ new # old)
               /\ UNCHANGED <<busy, pending, shown, tried>>
          ELSE /\ timer' = (new # None) /\ busy' = None /\ pending' = <<>>
               /\ shown' = None /\ tried' = None
    /\ LET parts == parseIntoParts(raw')
           closed == Closed(raw')
       IN \E cached \in SUBSET (closed \ DOMAIN blocks) :
             blocks' = [i \in closed |-> HighlightedCode(i, parts[i], i \in cached)]

\* Mutant of doHighlight: a text that comes while another is being highlighted
\* is dropped.
doHighlight_Drops(block) ==
    IF busy # None THEN UNCHANGED <<busy, pending>>
    ELSE busy' = [code |-> block.code, language |-> block.language] /\ UNCHANGED pending

doHighlight(block) ==
    IF busy # None THEN pending' = block.code /\ UNCHANGED busy
    ELSE busy' = [code |-> block.code, language |-> block.language] /\ UNCHANGED pending

TimerFires ==
    /\ timer /\ timer' = FALSE
    /\ doHighlight(Block(raw))
    /\ UNCHANGED <<raw, deltas, shown, tried, blocks>>

\* highlightCode is done, with a result or without one.  The text that waits is
\* highlighted by the same call, in the language it began with.
Highlighted(ok) ==
    /\ busy # None
    /\ shown' = IF ok THEN busy.code ELSE shown
    /\ tried' = busy.code
    /\ IF pending \notin {<<>>, busy.code}
       THEN busy' = [busy EXCEPT !.code = pending] /\ pending' = <<>>
       ELSE busy' = None /\ UNCHANGED pending
    /\ UNCHANGED <<raw, deltas, timer, blocks>>

\* highlightCode is done with a closed block; one it has no result for stays plain.
HighlightedOnce(i, ok) ==
    /\ blocks[i].busy
    /\ blocks' = [blocks EXCEPT ![i].busy = FALSE, ![i].html = IF ok THEN blocks[i].of ELSE None]
    /\ UNCHANGED <<raw, deltas, timer, busy, pending, shown, tried>>

Next == \/ \E d \in Deltas : Grow(d)
        \/ TimerFires
        \/ \E ok \in BOOLEAN : Highlighted(ok)
        \/ \E ok \in BOOLEAN, i \in DOMAIN blocks : HighlightedOnce(i, ok)

Spec == Init /\ [][Next]_viewVars

-----------------------------------------------------------------------------
(* Properties.                                                             *)

\* More text changes the last part or adds to it: what precedes it, blocks that
\* were highlighted once included, is never read another way.
GrowsStably ==
    LET old == parseIntoParts(raw)
        new == parseIntoParts(raw')
    IN raw' # raw => Len(old) <= Len(new) /\ \A i \in 1..(Len(old) - 1) : new[i] = old[i]

\* The block is shown as what was highlighted last, followed by the code from
\* that length on: together they are the code, if there is no dollar sign in
\* that rest, which String.replace could take for a pattern.
ShownIsCode ==
    Block(raw) # None /\ shown # None => IsPrefix(shown, Block(raw).code)

\* When no timer runs and the highlighter is idle, the last code was tried.
HighlightCatchesUp ==
    Block(raw) # None /\ ~timer /\ busy = None => tried = Block(raw).code

\* A closed block is never highlighted again, and need not be: what it was given to
\* the highlighter as is what it still is, however the message went on.
ClosedIsCode ==
    LET parts == parseIntoParts(raw)
    IN /\ DOMAIN blocks = Closed(raw)
       /\ \A i \in DOMAIN blocks : /\ blocks[i].of = Key(parts[i])
                                   /\ blocks[i].html \in {None, blocks[i].of}

\* What is on screen is the code, but for dollar signs not highlighted yet, and
\* highlighting it ends with the code.
HighlightSound == ShownIsCode /\ HighlightCatchesUp /\ ClosedIsCode

===============================================================================
