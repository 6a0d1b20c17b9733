------------------------------- MODULE ProxyPage -------------------------------
(***************************************************************************)
(* The proxy pool (proxy/proxypool.go) with the page that manages it       *)
(* (proxy/page.tsx, stores/proxy.ts).  Every operation of the pool runs    *)
(* under one lock and saves the file before it returns; a check of one     *)
(* proxy or of all marks them, releases the lock while the proxies are     *)
(* tried, and takes it again to note what came of it.                      *)
(*                                                                         *)
(* The page changes its rows by itself for most commands: it adds the      *)
(* entry it was given, drops the row it removed, and calls a proxy dead    *)
(* after one failed check where the pool wants three.                      *)
(*                                                                         *)
(* Rows are a set: a proxy added again, that the page shows twice, is one  *)
(* row unless the two differ in status.  Ping, label and times are left    *)
(* out, and so are the settings of the pool, which the backend stores but  *)
(* no code acts on.                                                        *)
(***************************************************************************)
EXTENDS Naturals, FiniteSets

CONSTANTS Urls, FirstUrl, \* the URLs that are added, of the right form
          MaxFailCount,\* proxyMaxFailCount
          MaxIds,      \* bound on the proxies added
          MaxCalls,    \* bound on the requests of the page
          MaxFaults    \* bound on crashes and failed saves

\* What the values of the constants have to be.
ProxyPageAssumption ==
    /\ FirstUrl \in Urls
    /\ MaxFailCount \in Nat \ {0} /\ MaxIds \in Nat \ {0}
    /\ MaxCalls \in Nat /\ MaxFaults \in Nat

VARIABLES proxies, file, issued, faults,   \* the pool, its file
          rows, checkingAll, batchLoading,       \* the page
          autoPoll, autoRemoveDead, initialCheckDone,
          calls, made,                     \* requests
          clean                            \* see RowsAgree

proxyVars == <<proxies, file, issued, faults, rows, checkingAll, batchLoading, autoPoll,
               autoRemoveDead, initialCheckDone, calls, made, clean>>

pool == <<proxies, file, issued, faults>>
switches == <<autoPoll, autoRemoveDead, initialCheckDone>>
view == <<rows, checkingAll, batchLoading, switches, made, clean>>

Entry(id, url) == [id |-> id, url |-> url, status |-> "active", failCount |-> 0]
Row(p) == [id |-> p.id, status |-> p.status]
Rows(ps) == {Row(p) : p \in ps}
Ids(ps) == {p.id : p \in ps}
Marked(ps, ids) == {IF p.id \in ids THEN [p EXCEPT !.status = "checking"] ELSE p : p \in ps}

\* Mutant of Checked: a proxy that answers keeps its failures.
Checked_Keeps(p, alive) ==
    IF alive THEN [p EXCEPT !.status = "active"]
    ELSE [p EXCEPT !.failCount = @ + 1,
                   !.status = IF p.failCount + 1 >= MaxFailCount THEN "dead" ELSE "active"]

\* What a check that found p alive or not makes of it.
Checked(p, alive) ==
    IF alive THEN [p EXCEPT !.status = "active", !.failCount = 0]
    ELSE [p EXCEPT !.failCount = @ + 1,
                   !.status = IF p.failCount + 1 >= MaxFailCount THEN "dead" ELSE "active"]

\* The same for those of ids, where alive are the ones that answered.
Noted(ps, ids, alive) ==
    {IF p.id \in ids THEN Checked(p, p.id \in alive) ELSE p : p \in ps}

(***************************************************************************)
(* The requests.                                                           *)
(***************************************************************************)
Call(what, arg, then) == [no |-> made + 1, what |-> what, arg |-> arg, then |-> then,
                          stage |-> "sent", res |-> "none", ids |-> {}, got |-> {},
                          live |-> TRUE]

\* Only checks of single proxies do not disturb each other.
Alone(cs, what) == \A c \in cs : c.what = "check" /\ what = "check"

\* One more request beside those of cs; the rows are what the pool holds as long
\* as none overlaps another, and all of them go well.
Request(cs, what, arg, then) ==
    /\ made < MaxCalls
    /\ made' = made + 1
    /\ calls' = cs \cup {Call(what, arg, then)}

Answer(c, res, got) ==
    calls' = (calls \ {c}) \cup
             (IF c.live THEN {[c EXCEPT !.stage = "done", !.res = res, !.got = got]} ELSE {})

Served(what) == {c \in calls : c.what = what /\ c.stage = "sent"}

\* SaveProxies: the pool is in memory, and in the file unless writing it fails.
Save(c, ps, got) ==
    /\ proxies' = ps
    /\ \/ file' = ps /\ Answer(c, "ok", got) /\ UNCHANGED faults
       \/ /\ faults < MaxFaults /\ faults' = faults + 1
          /\ Answer(c, "error", {}) /\ UNCHANGED file

(***************************************************************************)
(* The pool.                                                               *)
(***************************************************************************)
ListServed ==
    /\ \E c \in Served("list") :
          \/ Answer(c, "ok", Rows(proxies))
          \/ Answer(c, "error", {})
    /\ UNCHANGED <<pool, view>>

\* A proxy with this URL is returned as it is.
AddProxy ==
    /\ \E c \in Served("add") :
          \/ \E p \in proxies : /\ p.url = c.arg
                                /\ Answer(c, "ok", {Row(p)}) /\ UNCHANGED pool
          \/ /\ \A p \in proxies : p.url # c.arg
             /\ issued < MaxIds /\ issued' = issued + 1
             /\ Save(c, proxies \cup {Entry(issued + 1, c.arg)}, {Row(Entry(issued + 1, c.arg))})
    /\ UNCHANGED view

\* The lines of a text that are not yet there; one of them here.
BatchAddProxies ==
    /\ \E c \in Served("batch") :
          IF \E p \in proxies : p.url = c.arg THEN Answer(c, "ok", {}) /\ UNCHANGED pool
          ELSE /\ issued < MaxIds /\ issued' = issued + 1
               /\ Save(c, proxies \cup {Entry(issued + 1, c.arg)}, {})
    /\ UNCHANGED view

RemoveProxy ==
    /\ \E c \in Served("remove") :
          Save(c, {p \in proxies : p.id # c.arg}, {}) /\ UNCHANGED issued
    /\ UNCHANGED view

\* RemoveDeadProxies and RemoveAllProxies save only if they removed something.
RemoveProxies ==
    /\ \E c \in Served("removeDead") \cup Served("removeAll") :
          LET kept == IF c.what = "removeAll" THEN {}
                      ELSE {p \in proxies : p.status # "dead"}
          IN IF kept = proxies THEN Answer(c, "ok", {}) /\ UNCHANGED pool
             ELSE Save(c, kept, {}) /\ UNCHANGED issued
    /\ UNCHANGED view

\* CheckProxy and CheckAllProxies up to the release of the lock.
CheckBegin ==
    /\ \E c \in Served("check") \cup Served("checkAll") :
          LET ids == IF c.what = "checkAll" THEN Ids(proxies) ELSE Ids(proxies) \cap {c.arg}
              marked == Marked(proxies, ids)
          IN IF ids = {}
             THEN /\ Answer(c, IF c.what = "check" THEN "error" ELSE "ok", {})
                  /\ UNCHANGED <<proxies, file, faults>>
             ELSE /\ proxies' = marked
                  /\ \/ /\ file' = marked
                        /\ calls' = (calls \ {c}) \cup {[c EXCEPT !.stage = "checking", !.ids = ids]}
                        /\ UNCHANGED faults
                     \/ /\ faults < MaxFaults /\ faults' = faults + 1
                        /\ Answer(c, "error", {}) /\ UNCHANGED file
    /\ UNCHANGED <<issued, view>>

\* What they answer: all proxies, or whether the one is alive.
Found(c, noted, alive) ==
    IF c.what = "checkAll" THEN Rows(noted)
    ELSE {[id |-> c.arg, status |-> IF alive = {} THEN "dead" ELSE "active"]}

\* The rest of them, with the proxies that answered.
CheckEnd ==
    /\ \E c \in calls : \E alive \in SUBSET c.ids :
          /\ c.stage = "checking"
          /\ LET noted == Noted(proxies, c.ids, alive)
                 got == Found(c, noted, alive)
             IN IF Ids(proxies) \cap c.ids = {} /\ c.what = "check"
                THEN Answer(c, "ok", got) /\ UNCHANGED <<proxies, file, faults>>
                ELSE Save(c, noted, got)
    /\ UNCHANGED <<issued, view>>

\* The process ends and starts again with the file.
Crash ==
    /\ faults < MaxFaults /\ faults' = faults + 1
    /\ proxies' = file
    /\ calls' = {[c EXCEPT !.stage = "done", !.res = IF c.stage = "done" THEN @ ELSE "error"] :
                    c \in {d \in calls : d.live}}
    /\ UNCHANGED <<file, issued, view>>

(***************************************************************************)
(* The answers as the store of the page takes them.  A request that takes  *)
(* longer than 30 s has failed for the page.                               *)
(***************************************************************************)
Rest(c) == IF c.stage = "done" THEN calls \ {c}
           ELSE (calls \ {c}) \cup {[c EXCEPT !.live = FALSE]}
Ok(c) == c.stage = "done" /\ c.res = "ok"
Heard(what) == {c \in calls : c.live /\ c.what \in what}

\* The answer to c is the last word, or makes the page ask for something else.
Through(c) == calls' = Rest(c) /\ clean' = (clean /\ Ok(c)) /\ UNCHANGED made
GoesOn(c, what, then) ==
    Request(Rest(c), what, 0, then) /\ clean' = (clean /\ Ok(c) /\ Alone(Rest(c), what))

Dead(rs) == {r \in rs : r.status = "dead"}
Restatus(rs, id, status) == {IF r.id = id THEN [r EXCEPT !.status = status] ELSE r : r \in rs}

\* fetch; the fetch of a mount of the page goes on to check all proxies, once, and
\* that of a check that failed to remove the dead, if the timer made the check.
ListAnswered ==
    /\ \E c \in Heard({"list"}) :
          /\ rows' = IF Ok(c) THEN c.got ELSE rows
          /\ batchLoading' = (batchLoading /\ c.then # "batch")
          /\ IF c.then = "checkAll" /\ ~initialCheckDone
             THEN /\ initialCheckDone' = TRUE /\ checkingAll' = TRUE
                  /\ GoesOn(c, "checkAll", "none")
             ELSE /\ UNCHANGED <<initialCheckDone, checkingAll>>
                  /\ IF c.then = "removeDead" /\ Dead(rows') # {}
                     THEN GoesOn(c, "removeDead", "none")
                     ELSE Through(c)
    /\ UNCHANGED <<pool, autoPoll, autoRemoveDead>>

\* addProxy, remove, removeDead and removeAll change the rows; removeDead drops
\* those that the page takes to be dead.
Changed(c) == CASE c.what = "add"        -> rows \cup c.got
                [] c.what = "remove"     -> {r \in rows : r.id # c.arg}
                [] c.what = "removeDead" -> rows \ Dead(rows)
                [] c.what = "removeAll"  -> {}

ChangeAnswered ==
    /\ \E c \in Heard({"add", "remove", "removeDead", "removeAll"}) :
          /\ rows' = IF Ok(c) THEN Changed(c) ELSE rows
          /\ Through(c)
    /\ UNCHANGED <<pool, checkingAll, batchLoading, switches>>

\* batchAdd fetches the list if it succeeds.
BatchAnswered ==
    /\ \E c \in Heard({"batch"}) :
          IF Ok(c) THEN GoesOn(c, "list", "batch") /\ UNCHANGED batchLoading
          ELSE Through(c) /\ batchLoading' = FALSE
    /\ UNCHANGED <<pool, rows, checkingAll, switches>>

Alive(c) == \E r \in c.got : r.status = "active"

\* checkOne: dead after an error, too.  The rows then differ from the pool in
\* more than the moment at which it was asked.
CheckAnswered ==
    /\ \E c \in Heard({"check"}) :
          /\ LET status == IF Alive(c) THEN "active" ELSE "dead"
             IN /\ rows' = Restatus(rows, c.arg, IF Ok(c) THEN status ELSE "dead")
                /\ clean' = (clean /\ Ok(c) /\ status = "active")
          /\ calls' = Rest(c)
    /\ UNCHANGED <<pool, checkingAll, batchLoading, switches, made>>

\* checkAll; an error fetches the list.  The timer goes on to remove the dead.
CheckAllAnswered ==
    /\ \E c \in Heard({"checkAll"}) :
          /\ checkingAll' = FALSE
          /\ rows' = IF Ok(c) THEN c.got ELSE rows
          /\ IF ~Ok(c) THEN GoesOn(c, "list", c.then)
             ELSE IF c.then = "removeDead" /\ Dead(c.got) # {}
             THEN GoesOn(c, "removeDead", "none")
             ELSE Through(c)
    /\ UNCHANGED <<pool, batchLoading, switches>>

(***************************************************************************)
(* The user on the page.                                                   *)
(***************************************************************************)
Ask(what, arg, then) ==
    Request(calls, what, arg, then) /\ clean' = (clean /\ Alone(calls, what))

\* Enter in the form adds even while its button is disabled.
handleAddSingle ==
    /\ \E u \in Urls : Ask("add", u, "none")
    /\ UNCHANGED <<pool, rows, checkingAll, batchLoading, switches>>

handleBatchAdd ==
    /\ ~batchLoading /\ batchLoading' = TRUE
    /\ \E u \in Urls : Ask("batch", u, "none")
    /\ UNCHANGED <<pool, rows, checkingAll, switches>>

handleRemove ==
    /\ \/ \E r \in rows : Ask("remove", r.id, "none")
       \/ Dead(rows) # {} /\ Ask("removeDead", 0, "none")
       \/ rows # {} /\ Ask("removeAll", 0, "none")
    /\ UNCHANGED <<pool, rows, checkingAll, batchLoading, switches>>

checkOne ==
    /\ \E r \in rows : /\ r.status # "checking"
                       /\ rows' = Restatus(rows, r.id, "checking")
                       /\ Ask("check", r.id, "none")
    /\ UNCHANGED <<pool, checkingAll, batchLoading, switches>>

checkAll(then) ==
    /\ checkingAll' = TRUE
    /\ rows' = {[r EXCEPT !.status = "checking"] : r \in rows}
    /\ Ask("checkAll", 0, then)
    /\ UNCHANGED <<pool, batchLoading, switches>>

handleCheckAll == ~checkingAll /\ rows # {} /\ checkAll("none")

\* The timer does not wait for the check before.
Tick == autoPoll /\ checkAll(IF autoRemoveDead THEN "removeDead" ELSE "none")

\* The switches; the one of the timer runs the effect that fetches the list.
Toggle ==
    /\ \/ autoRemoveDead' = ~autoRemoveDead /\ UNCHANGED <<autoPoll, calls, made, clean>>
       \/ /\ autoPoll' = ~autoPoll /\ UNCHANGED autoRemoveDead
          /\ Ask("list", 0, IF ~autoPoll THEN "checkAll" ELSE "none")
    /\ UNCHANGED <<pool, rows, checkingAll, batchLoading, initialCheckDone>>

----------------------------------------------------------------------------
\* The page opens on a pool that is empty or has one proxy, that is new or failed
\* its last checks but one too few to be dead, and it fetches the list.
Init ==
    /\ proxies \in {{}} \cup {{[Entry(1, FirstUrl) EXCEPT !.failCount = n]} :
                                 n \in {0, MaxFailCount - 1}}
    /\ file = proxies /\ issued = Cardinality(proxies) /\ faults = 0
    /\ rows = {} /\ checkingAll = FALSE /\ batchLoading = FALSE
    /\ autoPoll \in BOOLEAN /\ autoRemoveDead = TRUE /\ initialCheckDone = FALSE
    /\ made = 1 /\ clean = TRUE
    /\ calls = {[no |-> 1, what |-> "list", arg |-> 0,
                 then |-> IF autoPoll THEN "checkAll" ELSE "none", stage |-> "sent",
                 res |-> "none", ids |-> {}, got |-> {}, live |-> TRUE]}

Next == \/ ListServed \/ AddProxy \/ BatchAddProxies \/ RemoveProxy \/ RemoveProxies
        \/ CheckBegin \/ CheckEnd \/ Crash
        \/ ListAnswered \/ ChangeAnswered \/ BatchAnswered \/ CheckAnswered
        \/ CheckAllAnswered
        \/ handleAddSingle \/ handleBatchAdd \/ handleRemove \/ checkOne
        \/ handleCheckAll \/ Tick \/ Toggle

Spec == Init /\ [][Next]_proxyVars

----------------------------------------------------------------------------
\* A proxy and a request have these fields; numbers are given once.
Types ==
    /\ issued \in Nat /\ faults \in Nat /\ clean \in BOOLEAN
    /\ \A p \in proxies \cup file :
          /\ p = [id |-> p.id, url |-> p.url, status |-> p.status, failCount |-> p.failCount]
          /\ p.id \in Nat /\ p.id <= issued /\ p.failCount \in Nat
          /\ p.status \in {"active", "checking", "dead"}
    /\ \A c \in calls :
          /\ c = [no |-> c.no, what |-> c.what, arg |-> c.arg, then |-> c.then,
                  stage |-> c.stage, res |-> c.res, ids |-> c.ids, got |-> c.got,
                  live |-> c.live]
          /\ c.stage \in {"sent", "checking", "done"} /\ c.live \in BOOLEAN
          /\ c.stage = "checking" => c.what = "checkAll" \/ (c.what = "check" /\ c.ids = {c.arg})

\* The members of ps, in memory or in the file.
Members(ps) ==
    /\ \A p, q \in ps : p.url = q.url \/ p.id = q.id => p = q
    /\ \A p \in ps : p.status # "checking" => (p.status = "dead" <=> p.failCount >= MaxFailCount)

\* The answer that will make the page unsure of its rows is there.
Doomed == \E c \in calls : c.live /\ c.stage = "done"
                             /\ (c.res # "ok" \/ (c.what = "check" /\ ~Alive(c)))

\* Until then the rows are those of the pool, but for what is under way: one
\* request, or checks of different proxies.
Pending ==
    \A c \in calls : c.what # "check" =>
        /\ calls = {c}
        /\ c.stage = "sent" /\ c.what \in {"add", "remove", "removeDead", "removeAll"} =>
              rows = Rows(proxies)
        /\ c.stage = "done" /\ c.what \in {"list", "checkAll"} => c.got = Rows(proxies)
        /\ c.stage = "done" /\ c.what \in {"add", "remove", "removeDead", "removeAll"} =>
              Changed(c) = Rows(proxies)
Checks ==
    (\A c \in calls : c.what = "check") =>
        /\ \A c, d \in calls : c.arg = d.arg => c = d
        /\ rows = {IF \E c \in calls : c.arg = p.id THEN [id |-> p.id, status |-> "checking"]
                   ELSE Row(p) : p \in proxies}
        /\ \A c \in calls : c.stage = "done" =>
              \A p \in proxies : p.id = c.arg => p.status = "active"
Orderly == file = proxies /\ (\A c \in calls : c.live) /\ Pending /\ Checks

\* Why ProxiesSound holds, with CheckingIsChecked, which is inductive.
Inv == /\ Types /\ Members(proxies) /\ Members(file)
       /\ \A p \in proxies : p.status = "checking" =>
             (faults > 0 \/ \E c \in calls : c.stage = "checking" /\ p.id \in c.ids)
       /\ clean => Doomed \/ Orderly

\* Whatever adds and checks overlap, a URL is in the pool once ...
UniqueUrls == \A p, q \in proxies : p.url = q.url => p = q

\* ... a proxy is dead if and only if its last checks, three of them, failed ...
DeadIsFailed ==
    \A p \in proxies : p.status # "checking" =>
        (p.status = "dead" <=> p.failCount >= MaxFailCount)

\* ... and one marked as being checked is being checked, so that it will be of
\* use again, unless the process crashed or could not save the file.
CheckingIsChecked ==
    \A p \in proxies : p.status = "checking" =>
        (faults > 0 \/ \E c \in calls : c.stage = "checking" /\ p.id \in c.ids)

\* When nothing is under way the rows are the members of the pool as they are,
\* unless requests overlapped (other than checks of single proxies), one failed,
\* or the page took a proxy for dead because it failed once.  How often a proxy
\* is shown is not compared: one whose URL is added again is shown twice.
RowsAgree == (calls = {} /\ clean) => rows = Rows(proxies)

\* The pool of proxies and its page.
ProxiesSound == UniqueUrls /\ DeadIsFailed /\ CheckingIsChecked /\ RowsAgree
=============================================================================
