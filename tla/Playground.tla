------------------------------- MODULE Playground ------------------------------
(***************************************************************************)
(* A playground of the documentation page: fields with the body of a       *)
(* request, a button that runs it or cancels it, and what it answers, as a *)
(* whole or as a stream (docs/page.tsx, components/docs/ApiPlayground.tsx, *)
(* components/docs/useApiExecutor.ts).                                     *)
(*                                                                         *)
(* The page hands each playground its endpoint as a new object whenever it *)
(* renders, and it renders when the user scrolls to another section: the   *)
(* effect of the playground on the endpoint then fills in the fields anew. *)
(*                                                                         *)
(* The content is a number of pieces.  The reader of a stream passes over  *)
(* everything but lines of data with a piece of the answer in them: events *)
(* of other kinds, an error among them, a last line that is cut off, and,  *)
(* as it does not look at the status, the body of a request that was       *)
(* refused.  The key of the gateway and the copy button are left out.      *)
(***************************************************************************)
EXTENDS Naturals

CONSTANTS Sections,    \* the sections of the page
          MaxRuns,     \* bound on the requests
          MaxPieces,   \* bound on the pieces of an answer
          MaxEdits     \* bound on the edits of the fields

\* What the values of the constants have to be.
PlaygroundAssumption == MaxRuns \in Nat /\ MaxPieces \in Nat /\ MaxEdits \in Nat

VARIABLES responseType,               \* "json" or "sse"
          loading, result, streamContent, expanded,   \* the playground
          params, edits,              \* the edit in the fields, 0 the default; how many there were
          active,                     \* the section
          call, runs,                 \* the request under way, how many were made
          received, skipped           \* the pieces received by the newest request, and
                                      \* those of them the reader passed over

playgroundVars == <<responseType, loading, result, streamContent, expanded, params, edits,
                    active, call, runs, received, skipped>>

fields == <<params, edits, active>>

arrived == <<received, skipped>>

NoCall == [stage |-> "none", aborted |-> FALSE, refused |-> FALSE, full |-> 0]
NoResult == [status |-> "none", content |-> 0]

Result(status, content) == [status |-> status, content |-> content]

\* Mutant of Discarded: what was streamed stays.
Discarded_Not == streamContent

\* setStreamContent("")
Discarded == 0

\* execute; a run discards what came of the one before.
handleRun ==
    /\ ~loading /\ runs < MaxRuns
    /\ runs' = runs + 1
    /\ call' = [NoCall EXCEPT !.stage = "fetch"]
    /\ loading' = TRUE /\ result' = NoResult /\ streamContent' = Discarded
    /\ expanded' = TRUE /\ received' = 0 /\ skipped' = 0
    /\ UNCHANGED <<responseType, fields>>

cancel ==
    /\ loading /\ call' = [call EXCEPT !.aborted = TRUE]
    /\ UNCHANGED <<responseType, loading, result, streamContent, expanded, fields, runs,
                   arrived>>

\* The request ends: the result is set, unless a request that was cancelled
\* finds one, and the playground can run again.
Ends(r) == call' = NoCall /\ loading' = FALSE /\ result' = r

\* fetch answers, or fails, or there is no body to read; the body of an endpoint
\* that does not stream is the result, and what follows of one that streams is
\* read, whether the request was refused or not.
Fetched ==
    /\ call.stage = "fetch"
    /\ \/ call.aborted /\ Ends(Result("cancelled", 0)) /\ UNCHANGED received
       \/ ~call.aborted /\ Ends(Result("failed", 0)) /\ UNCHANGED received
       \/ /\ ~call.aborted /\ responseType = "json"
          /\ \E n \in 0 .. MaxPieces, status \in {"ok", "refused"} :
                Ends(Result(status, n)) /\ received' = n
       \/ /\ ~call.aborted /\ responseType = "sse"
          /\ \E refused \in BOOLEAN :
                call' = [call EXCEPT !.stage = "read", !.refused = refused]
          /\ UNCHANGED <<loading, result, received>>
    /\ UNCHANGED <<responseType, streamContent, expanded, fields, runs, skipped>>

\* A piece of what is read: a delta, or something else, that is passed over.
Piece ==
    /\ call.stage = "read" /\ ~call.aborted /\ received < MaxPieces
    /\ received' = received + 1
    /\ \/ /\ ~call.refused
          /\ call' = [call EXCEPT !.full = @ + 1]
          /\ streamContent' = call.full + 1
          /\ UNCHANGED skipped
       \/ skipped' = skipped + 1 /\ UNCHANGED <<call, streamContent>>
    /\ UNCHANGED <<responseType, loading, result, expanded, fields, runs>>

\* The stream ends or is cancelled, which makes no difference, and the result has
\* the status of the response; or it fails, and the playground has an error and
\* what was streamed.
StreamEnds ==
    /\ call.stage = "read"
    /\ \/ Ends(Result(IF call.refused THEN "refused" ELSE "ok", call.full))
       \/ ~call.aborted /\ Ends(Result("failed", 0))
    /\ UNCHANGED <<responseType, streamContent, expanded, fields, runs, arrived>>

\* The user changes a field.
Edit ==
    /\ edits < MaxEdits
    /\ edits' = edits + 1 /\ params' = edits + 1
    /\ UNCHANGED <<responseType, loading, result, streamContent, expanded, active, call, runs,
                   arrived>>

\* The user scrolls to another section.
Scroll ==
    /\ \E s \in Sections \ {active} : active' = s
    /\ params' = 0
    /\ UNCHANGED <<responseType, loading, result, streamContent, expanded, edits, call, runs,
                   arrived>>

\* What the playground shows of the content.
displayContent == IF result.content > 0 THEN result.content ELSE streamContent

----------------------------------------------------------------------------
Init ==
    /\ responseType \in {"json", "sse"}
    /\ loading = FALSE /\ result = NoResult /\ streamContent = 0 /\ expanded = FALSE
    /\ params = 0 /\ edits = 0 /\ active \in Sections
    /\ call = NoCall /\ runs = 0 /\ received = 0 /\ skipped = 0

Next == handleRun \/ cancel \/ Fetched \/ Piece \/ StreamEnds \/ Edit \/ Scroll

Spec == Init /\ [][Next]_playgroundVars

----------------------------------------------------------------------------
Types ==
    /\ loading \in BOOLEAN
    /\ received \in Nat /\ skipped \in Nat /\ streamContent \in Nat
    /\ result \in [status : {"none", "ok", "refused", "cancelled", "failed"}, content : Nat]
    /\ call \in [stage : {"none", "fetch", "read"}, aborted : BOOLEAN, refused : BOOLEAN,
                full : Nat]

\* Why AnswerIsShown holds: what is streamed is what was received, as long as the
\* request is under way, and no result covers it.
Inv ==
    /\ Types /\ (loading <=> call.stage # "none")
    /\ call.stage = "fetch" => /\ result.content = 0 /\ streamContent = 0
                              /\ received = 0 /\ skipped = 0 /\ call.full = 0
    /\ call.stage = "read" => /\ result.content = 0 /\ streamContent = call.full
    /\ displayContent + skipped = received
    /\ responseType = "json" => skipped = 0 /\ call.stage # "read"

\* Whether a request ends, is refused, fails on the way or is cancelled, all that
\* was received of it is shown, and nothing of an earlier one -- but for what
\* the reader of a stream passes over: the body of a request that was refused,
\* of which nothing is shown, events without a piece of the answer, errors
\* among them, and a line that is cut off.  An endpoint that does not stream
\* has none of these.  The button cancels exactly while there is a request to
\* cancel.
AnswerIsShown == /\ displayContent + skipped = received
                 /\ responseType = "json" => skipped = 0
                 /\ loading <=> call.stage # "none"
=============================================================================
