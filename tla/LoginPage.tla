------------------------------- MODULE LoginPage -------------------------------
(***************************************************************************)
(* The page that adds Kiro accounts (providers/kiro/page.tsx,              *)
(* stores/kiro.ts) with the login sessions of the server                   *)
(* (auth/builderid.go, auth/iam_sso.go, proxy/handler.go).  A login is     *)
(* started, the user approves or refuses it in another window, and the     *)
(* page either polls for the outcome (Builder ID) or hands over a pasted   *)
(* URL (IAM SSO).  Forms add accounts directly.  A command that changed    *)
(* the accounts ends by fetching the list of them again.                   *)
(*                                                                         *)
(* The store outlives the tabs of the page, and a login that was cancelled *)
(* or started over still has its request under way: the answer writes the  *)
(* store.  It writes the session it was asked for, except that an answer   *)
(* to slow down changes the status of whatever session is there.           *)
(*                                                                         *)
(* An account is named after the session it comes from, Direct if it comes *)
(* from a form.  The fields of the forms, the spinner and the error line   *)
(* of the list are left out.                                               *)
(***************************************************************************)
EXTENDS Naturals, FiniteSets

CONSTANTS MaxSessions,   \* bound on the logins the server starts
          MaxCalls,      \* bound on the requests of the page
          MaxMounts      \* bound on the changes of tab

\* What the values of the constants have to be.
LoginPageAssumption == MaxSessions \in Nat /\ MaxCalls \in Nat /\ MaxMounts \in Nat

SessionIds == 1 .. MaxSessions
NoSession == 0
Direct == MaxSessions + 1

VARIABLES kind,                                        \* "builder" or "iam"
          consent, held, redeemed, accounts, started,  \* AWS and the server
          login, busy, mount, tab, busyId,             \* the page
          connections,
          calls, sleeping, made,       \* requests, loops between two polls
          strayed, clean               \* see AwaitedIsPolled and ListIsCurrent

loginVars == <<kind, consent, held, redeemed, accounts, started, login, busy, mount, tab,
               busyId, connections, calls, sleeping, made, strayed, clean>>

server == <<consent, held, redeemed, accounts, started>>
view == <<mount, tab, busyId>>

NoLogin == [id |-> NoSession, status |-> "idle"]
Shown(s, status) == [id |-> s, status |-> status]

\* What the handler that makes a request gives free when it is through.
Holds(what) == IF what \in {"start", "complete", "add"} THEN "busy"
               ELSE IF what \in {"remove", "refresh"} THEN "busyId" ELSE "nothing"

Call(what, s) == [no |-> made + 1, what |-> what, id |-> s, mount |-> mount,
                  holds |-> Holds(what), stage |-> "sent", res |-> "none", got |-> {},
                  live |-> TRUE]

\* One more request is made, beside those of cs.
Requested(cs, c) ==
    /\ made < MaxCalls
    /\ made' = made + 1
    /\ calls' = cs \cup {c}
    /\ clean' = (clean /\ (c.what = "fetch" => \A d \in cs : d.what # "fetch"))

Request(cs, what, s) == Requested(cs, Call(what, s))

\* The server answers request c with r; nobody hears an answer that is late.
Answer(c, r) == calls' = (calls \ {c}) \cup
                    {[d EXCEPT !.stage = "done"] : d \in IF c.live THEN {r} ELSE {}}
Result(c, res) == [c EXCEPT !.res = res]

(***************************************************************************)
(* AWS and the server.                                                     *)
(***************************************************************************)
Sent(what) == {c \in calls : c.what \in what /\ c.stage = "sent"}

\* The user answers in the other window, or the time for it runs out.
Consent ==
    /\ \E s \in held, answer \in {"approved", "refused"} :
          consent[s] = "pending" /\ consent' = [consent EXCEPT ![s] = answer]
    /\ UNCHANGED <<kind, held, redeemed, accounts, started, login, busy, view, connections,
                   calls, sleeping, made, strayed, clean>>

StartServed ==
    /\ \E c \in Sent({"start"}) :
          \/ /\ started < MaxSessions
             /\ started' = started + 1
             /\ consent' = [consent EXCEPT ![started + 1] = "pending"]
             /\ held' = held \cup {started + 1}
             /\ Answer(c, [c EXCEPT !.id = started + 1, !.res = "ok"])
          \/ Answer(c, Result(c, "error")) /\ UNCHANGED <<started, consent, held>>
    /\ UNCHANGED <<kind, redeemed, accounts, login, busy, view, connections, sleeping, made,
                   strayed, clean>>

\* A poll or a completion asks AWS for the token: an approved session yields it
\* once, and is then forgotten.  AWS answers a poll of a pending session that it
\* is pending or asked for too often; any request may fail on the way.  A refused
\* session is forgotten by the poll that hears of it, and kept by a completion,
\* unless its time has run out.
TokenServed ==
    /\ \E c \in Sent({"poll", "complete"}) :
          \/ /\ c.id \in held \ redeemed /\ consent[c.id] = "approved"
             /\ redeemed' = redeemed \cup {c.id} /\ held' = held \ {c.id}
             /\ calls' = (calls \ {c}) \cup {[c EXCEPT !.stage = "redeemed"]}
          \/ /\ c.what = "poll" /\ c.id \in held /\ consent[c.id] = "pending"
             /\ \E res \in {"pending", "slow_down"} : Answer(c, Result(c, res))
             /\ UNCHANGED <<redeemed, held>>
          \/ /\ Answer(c, Result(c, "error")) /\ UNCHANGED redeemed
             /\ \/ consent[c.id] = "refused" /\ held' = held \ {c.id}
                \/ (c.what = "complete" \/ consent[c.id] # "refused") /\ UNCHANGED held
    /\ UNCHANGED <<kind, consent, accounts, started, login, busy, view, connections, sleeping,
                   made, strayed, clean>>

\* config.AddAccount adds the account, and may fail to save it.
AccountAdded ==
    /\ \E c \in calls, res \in {"completed", "error"} :
          /\ c.stage = "redeemed"
          /\ accounts' = accounts \cup {c.id}
          /\ Answer(c, Result(c, res))
    /\ UNCHANGED <<kind, consent, held, redeemed, started, login, busy, view, connections,
                   sleeping, made, strayed, clean>>

\* The other requests, that succeed or fail.
CommandServed ==
    /\ \E c \in Sent({"fetch", "add", "remove", "refresh"}) :
          \/ /\ accounts' = CASE c.what = "add"    -> accounts \cup {c.id}
                              [] c.what = "remove" -> accounts \ {c.id}
                              [] OTHER             -> accounts
             /\ Answer(c, [c EXCEPT !.res = "ok", !.got = accounts])
          \/ Answer(c, Result(c, "error")) /\ UNCHANGED accounts
    /\ UNCHANGED <<kind, consent, held, redeemed, started, login, busy, view, connections,
                   sleeping, made, strayed, clean>>

(***************************************************************************)
(* The answers as the page takes them.  A request takes at most 30 s: one  *)
(* that is not answered then is an error for the page, while the server    *)
(* goes on with it.                                                        *)
(***************************************************************************)
Rest(c) == IF c.stage = "done" THEN calls \ {c}
           ELSE (calls \ {c}) \cup {[c EXCEPT !.live = FALSE]}
Heard(c, what) == c.live /\ c.what \in what
Outcome(c) == IF c.stage = "done" THEN c.res ELSE "error"

\* The handler of c is through; its tab may have been unmounted meanwhile.
Freed(c) ==
    /\ busy' = (busy /\ ~(c.holds = "busy" /\ c.mount = mount))
    /\ busyId' = IF c.holds = "busyId" THEN NoSession ELSE busyId

\* The handler of c goes on to fetch the list.
Followed(c) ==
    /\ Requested(Rest(c), [Call("fetch", NoSession) EXCEPT !.holds = c.holds,
                                                         !.mount = c.mount])
    /\ UNCHANGED <<busy, busyId>>

\* An answer to c writes the login of the page.
Writes(c, status) ==
    /\ login' = Shown(c.id, status)
    /\ strayed' = (strayed \/ login.id # c.id)

Unanswered(c) == clean' = (clean /\ Outcome(c) # "error")

\* startBuilderId, startIamSso after the answer; the loop begins with a poll.
StartAnswered ==
    /\ \E c \in calls :
          /\ Heard(c, {"start"})
          /\ Freed(c)
          /\ IF Outcome(c) = "error"
             THEN /\ login' = Shown(NoSession, "failed")
                  /\ calls' = Rest(c) /\ UNCHANGED <<made, clean>>
             ELSE IF kind = "builder"
             THEN login' = Shown(c.id, "polling") /\ Request(Rest(c), "poll", c.id)
             ELSE /\ login' = Shown(c.id, "waiting")
                  /\ calls' = Rest(c) /\ UNCHANGED <<made, clean>>
    /\ UNCHANGED <<kind, server, mount, tab, connections, sleeping, strayed>>

\* Mutant of Completed: the login that is there is the one that is completed.
Completed_Current(c) == login' = [login EXCEPT !.status = "completed"] /\ UNCHANGED strayed

\* set({ builderId: { ...session, status: "completed" } })
Completed(c) == Writes(c, "completed")

\* pollBuilderId after an answer.
PollAnswered ==
    /\ \E c \in calls :
          /\ Heard(c, {"poll"})
          /\ LET res == Outcome(c) IN
             \/ res = "completed" /\ Completed(c) /\ Followed(c) /\ UNCHANGED sleeping
             \/ /\ res = "error" /\ Writes(c, "failed")
                /\ calls' = Rest(c) /\ Unanswered(c)
                /\ UNCHANGED <<made, sleeping, busy, busyId>>
             \/ /\ res \in {"pending", "slow_down"}
                /\ sleeping' = sleeping \cup {c.id}
                /\ IF res = "slow_down" /\ login # NoLogin
                   THEN /\ login' = [login EXCEPT !.status = "slow_down"]
                        /\ strayed' = (strayed \/ login.id # c.id)
                   ELSE UNCHANGED <<login, strayed>>
                /\ calls' = Rest(c) /\ UNCHANGED <<made, clean, busy, busyId>>
    /\ UNCHANGED <<kind, server, mount, tab, connections>>

\* The loop goes on: it is too late, its session is gone, or it polls again.
Wake ==
    /\ \E s \in sleeping :
          /\ sleeping' = sleeping \ {s}
          /\ \/ Writes([id |-> s], "expired") /\ UNCHANGED <<calls, made, clean>>
             \/ login.id # s /\ UNCHANGED <<login, strayed, calls, made, clean>>
             \/ login.id = s /\ Request(calls, "poll", s) /\ UNCHANGED <<login, strayed>>
    /\ UNCHANGED <<kind, server, busy, view, connections>>

\* completeIamSso after the answer.
CompleteAnswered ==
    /\ \E c \in calls :
          /\ Heard(c, {"complete"})
          /\ IF Outcome(c) = "completed"
             THEN Completed(c) /\ Followed(c)
             ELSE /\ Writes(c, "failed") /\ Freed(c)
                  /\ calls' = Rest(c) /\ Unanswered(c) /\ UNCHANGED made
    /\ UNCHANGED <<kind, server, mount, tab, connections, sleeping>>

\* addBy*, removeConnection and refreshConnection fetch the list if they succeed,
\* and the list replaces the one that is shown.
CommandAnswered ==
    /\ \E c \in calls :
          /\ Heard(c, {"fetch", "add", "remove", "refresh"})
          /\ IF c.what # "fetch" /\ Outcome(c) = "ok"
             THEN Followed(c)
             ELSE calls' = Rest(c) /\ Unanswered(c) /\ Freed(c) /\ UNCHANGED made
          /\ connections' = IF c.what = "fetch" /\ Outcome(c) = "ok" THEN c.got ELSE connections
    /\ UNCHANGED <<kind, server, login, mount, tab, sleeping, strayed>>

(***************************************************************************)
(* The user on the page.                                                   *)
(***************************************************************************)
StartOffered == IF kind = "builder" THEN login = NoLogin ELSE login.status \in {"idle", "failed"}

handleStart ==
    /\ tab = "login" /\ ~busy /\ StartOffered
    /\ login' = NoLogin /\ busy' = TRUE
    /\ Request(calls, "start", NoSession)
    /\ UNCHANGED <<kind, server, view, connections, sleeping, strayed>>

\* The session goes over to "completing", and the pasted URL to the server.
handleComplete ==
    /\ tab = "login" /\ ~busy /\ kind = "iam" /\ login.status \in {"waiting", "completing"}
    /\ login' = Shown(login.id, "completing") /\ busy' = TRUE
    /\ Request(calls, "complete", login.id)
    /\ UNCHANGED <<kind, server, view, connections, sleeping, strayed>>

\* Cancel, and Reset of a login that ended.
Cancel ==
    /\ tab = "login" /\ login # NoLogin
    /\ ~(kind = "iam" /\ login.status = "failed")
    /\ login' = NoLogin
    /\ UNCHANGED <<kind, server, busy, view, connections, calls, sleeping, made, strayed, clean>>

\* The tabs unmount what they do not show, with what it knew to be under way.
SwitchTab ==
    /\ mount < MaxMounts
    /\ mount' = mount + 1
    /\ tab' = (IF tab = "login" THEN "form" ELSE "login")
    /\ busy' = FALSE
    /\ UNCHANGED <<kind, server, login, busyId, connections, calls, sleeping, made, strayed,
                   clean>>

handleSubmit ==
    /\ tab = "form" /\ ~busy
    /\ busy' = TRUE
    /\ Request(calls, "add", Direct)
    /\ UNCHANGED <<kind, server, login, view, connections, sleeping, strayed>>

\* handleRefresh and handleRemove of a card that is not busy itself.
CardCommand ==
    /\ \E s \in connections, what \in {"remove", "refresh"} :
          busyId # s /\ busyId' = s /\ Request(calls, what, s)
    /\ UNCHANGED <<kind, server, login, busy, mount, tab, connections, sleeping, strayed>>

----------------------------------------------------------------------------
\* The page has fetched the list, without accounts.
Init ==
    /\ kind \in {"builder", "iam"}
    /\ consent = [s \in SessionIds |-> "none"] /\ held = {} /\ redeemed = {}
    /\ accounts = {} /\ started = 0
    /\ login = NoLogin /\ busy = FALSE /\ mount = 1 /\ tab = "login" /\ busyId = NoSession
    /\ connections = {}
    /\ calls = {} /\ sleeping = {} /\ made = 0 /\ strayed = FALSE /\ clean = TRUE

Next == \/ Consent \/ StartServed \/ TokenServed \/ AccountAdded \/ CommandServed
        \/ StartAnswered \/ PollAnswered \/ Wake \/ CompleteAnswered \/ CommandAnswered
        \/ handleStart \/ handleComplete \/ Cancel \/ SwitchTab \/ handleSubmit \/ CardCommand

Spec == Init /\ [][Next]_loginVars

----------------------------------------------------------------------------
\* A login is shown as completed only if the account of this very login was
\* added, whatever was cancelled or started over meanwhile.
CompletedIsAdded ==
    login.status = "completed" =>
        /\ login.id \in redeemed
        /\ ~\E c \in calls : c.stage = "redeemed" /\ c.id = login.id

\* A login that is shown to wait for the user is polled for, so that it will
\* not wait for ever.  The answer to a login that was left behind can undo
\* this: it changes the status of a login that already ended.
AwaitedIsPolled ==
    (kind = "builder" /\ login.status \in {"polling", "slow_down"} /\ ~strayed) =>
        (login.id \in sleeping \/ \E c \in calls : c.what = "poll" /\ c.live /\ c.id = login.id)

\* Once nothing is under way the list is that of the server, unless a request
\* failed or two lists were under way at a time.
ListIsCurrent == (calls = {} /\ clean) => connections = accounts

\* The page of logins shows what came of them.
LoginSound == CompletedIsAdded /\ AwaitedIsPolled /\ ListIsCurrent

(***************************************************************************)
(* Why LoginSound holds.                                                   *)
(***************************************************************************)
\* A request has these fields; its session is redeemed at AWS when it is about to
\* add the account, and when it is answered that it did.
CallTypes ==
    \A c \in calls :
       /\ c = [no |-> c.no, what |-> c.what, id |-> c.id, mount |-> c.mount,
               holds |-> c.holds, stage |-> c.stage, res |-> c.res, got |-> c.got,
               live |-> c.live]
       /\ c.live \in BOOLEAN
       /\ c.stage = "redeemed" \/ c.res = "completed" => c.what \in {"poll", "complete"}
       /\ (c.stage = "redeemed" \/ c.res = "completed" => c.id \in redeemed)
       /\ c.stage # "done" => c.res = "none"
       /\ c.stage = "done" /\ c.what = "complete" => c.res \in {"completed", "error"}
       /\ c.stage = "done" /\ c.what \notin {"poll", "complete"} => c.res \in {"ok", "error"}

\* A session is redeemed for one request, which is answered when it is done.
Redeemed(s) == \E c \in calls : c.stage = "redeemed" /\ c.id = s
RedeemedOnce ==
    /\ \A c, d \in calls : c.stage = "redeemed" /\ d.stage = "redeemed" /\ c.id = d.id => c = d
    /\ \A c \in calls : c.res = "completed" => ~Redeemed(c.id)

\* An answer that makes the page fetch the list, or know that something failed.
Follows(c) == /\ c.stage = "done" /\ c.what \notin {"start", "fetch"}
              /\ c.res \in {"ok", "completed", "error"}

\* As long as all goes well, one list is under way at most, and the newest one is
\* that of the server unless another will be fetched.
Fetches == {c \in calls : c.what = "fetch"}
ListComes ==
    /\ \A c \in calls : c.live \/ c.what = "start"
    /\ \A c, d \in Fetches : c = d
    /\ \/ \E c \in calls : Follows(c)
       \/ \E c \in Fetches : \/ c.stage # "done" \/ c.res = "error"
                             \/ c.res = "ok" /\ c.got = accounts
       \/ Fetches = {} /\ connections = accounts

Inv == /\ CallTypes /\ login = Shown(login.id, login.status)
       /\ RedeemedOnce /\ strayed \in BOOLEAN /\ clean \in BOOLEAN
       /\ CompletedIsAdded /\ AwaitedIsPolled /\ (clean => ListComes)
=============================================================================
