------------------------------ MODULE ScraperPage ------------------------------
(***************************************************************************)
(* The proxy scraper (proxy/proxyscraper.go) with its page                 *)
(* (proxy/scraper/page.tsx, stores/scraper.ts).  The server has one job,   *)
(* that a goroutine fetches and tests in batches.  Cancelling marks the    *)
(* job as done and cancels the context of its goroutine, which notices     *)
(* only between two sources or batches, the one at hand still counting,    *)
(* and writes the job that is current then: a job started meanwhile is     *)
(* taken for its own.                                                      *)
(*                                                                         *)
(* The page asks for the status every two seconds while the job that it    *)
(* shows is running, or as long as it is told to; a poll while another one *)
(* is under way is left out.  So are results, countries and concurrency;   *)
(* adding the results to the pool is ProxyPage.BatchAddProxies.  A batch   *)
(* is one step, and a goroutine keeps the number of its sources.           *)
(***************************************************************************)
EXTENDS Naturals, FiniteSets

CONSTANTS Sources,      \* the lists of proxies
          MaxJobs,      \* bound on jobs
          MaxBatches,   \* bound on the batches of a job
          MaxCalls      \* bound on the requests of the page

\* What the values of the constants have to be.
ScraperPageAssumption ==
    /\ Sources # {} /\ IsFiniteSet(Sources)
    /\ MaxJobs \in Nat /\ MaxBatches \in Nat /\ MaxCalls \in Nat

VARIABLES currentJob,            \* the job of the server
          goroutines,            \* runScrapeJob, each with its job
          cancelled,             \* the jobs that were cancelled
          strayed,               \* a goroutine wrote the job of another
          job, loading, autoPoll, selected,  \* the page
          calls, made            \* its requests

scraperVars == <<currentJob, goroutines, cancelled, strayed, job, loading, autoPoll, selected,
                 calls, made>>

server == <<currentJob, goroutines, cancelled, strayed>>
view == <<job, loading, autoPoll, selected>>

NoJob == [no |-> 0, status |-> "idle", error |-> "", tested |-> 0, testing |-> 0]
\* A goroutine whose context is cancelled, before it notices.
Told(g) == [g EXCEPT !.ctx = IF @ = "live" THEN "cancelling" ELSE @]

Running(j) == j.status \in {"fetching", "testing"}

Call(what, arg) == [no |-> made + 1, what |-> what, arg |-> arg, done |-> FALSE, ok |-> FALSE,
                    got |-> NoJob]

Request(cs, new) == /\ made + Cardinality(new) <= MaxCalls
                    /\ made' = made + Cardinality(new)
                    /\ calls' = cs \cup new

Answer(c, ok, got) == calls' = (calls \ {c}) \cup
                                   {[c EXCEPT !.done = TRUE, !.ok = ok, !.got = got]}
Served(what) == {c \in calls : c.what = what /\ ~c.done}

(***************************************************************************)
(* The server.                                                             *)
(***************************************************************************)
\* A start or a cancellation is lost on the way.
Lost ==
    /\ \E c \in Served("start") \cup Served("cancel") : Answer(c, FALSE, NoJob)
    /\ UNCHANGED <<server, view, made>>

StartScrape ==
    /\ \E c \in Served("start") :
          IF Running(currentJob) THEN Answer(c, FALSE, NoJob) /\ UNCHANGED server
          ELSE LET no == currentJob.no + 1 IN
               /\ no <= MaxJobs
               /\ currentJob' = [NoJob EXCEPT !.no = no, !.status = "fetching"]
               /\ goroutines' = {Told(g) : g \in goroutines} \cup
                       {[no |-> no, ctx |-> "live", phase |-> "fetching", left |-> c.arg, batches |-> 0]}
               /\ Answer(c, TRUE, NoJob)
               /\ UNCHANGED <<cancelled, strayed>>
    /\ UNCHANGED <<view, made>>

CancelScrape ==
    /\ \E c \in Served("cancel") :
          /\ Answer(c, TRUE, NoJob)
          /\ IF Running(currentJob)
             THEN /\ currentJob' = [currentJob EXCEPT !.status = "done", !.error = "cancelled"]
                  /\ goroutines' = {IF g.no = currentJob.no THEN Told(g) ELSE g : g \in goroutines}
                  /\ cancelled' = cancelled \cup {currentJob.no}
             ELSE UNCHANGED <<currentJob, goroutines, cancelled>>
    /\ UNCHANGED <<strayed, view, made>>

\* A goroutine that finds its context cancelled.
Stopped == [currentJob EXCEPT !.status = "done",
                              !.error = IF @ = "" THEN "cancelled" ELSE @]

\* The goroutine is done with the source or batch at hand, and will notice a
\* cancellation that came meanwhile.
Through(g) == [g EXCEPT !.ctx = IF @ = "cancelling" THEN "cancelled" ELSE @]

\* The goroutine fetches a source after the other, and then tests n batches; it
\* may panic.
Advance ==
    /\ \E g \in goroutines :
          LET rest == goroutines \ {g} IN
          /\ strayed' = (strayed \/ g.no # currentJob.no)
          /\ \/ /\ g.ctx # "live" /\ (g.left > 0 \/ g.batches > 0)
                /\ currentJob' = Stopped /\ goroutines' = rest
             \/ /\ g.phase = "fetching" /\ g.ctx # "cancelled" /\ g.left > 0
                /\ goroutines' = rest \cup {[Through(g) EXCEPT !.left = @ - 1]}
                /\ UNCHANGED currentJob
             \/ \E n \in 0 .. MaxBatches :
                    /\ g.phase = "fetching" /\ g.left = 0
                    /\ currentJob' = [currentJob EXCEPT !.status = "testing", !.testing = n]
                    /\ goroutines' = rest \cup {[g EXCEPT !.phase = "testing", !.batches = n]}
             \/ /\ g.phase = "testing" /\ g.ctx # "cancelled" /\ g.batches > 0
                /\ currentJob' = [currentJob EXCEPT !.tested = @ + 1]
                /\ goroutines' = rest \cup {[Through(g) EXCEPT !.batches = @ - 1]}
             \/ /\ g.phase = "testing" /\ g.batches = 0
                /\ currentJob' = [currentJob EXCEPT !.status = "done"]
                /\ goroutines' = rest
             \/ /\ currentJob' = [currentJob EXCEPT !.status = "error", !.error = "panic"]
                /\ goroutines' = rest
    /\ UNCHANGED <<cancelled, view, calls, made>>

GetScrapeStatus ==
    /\ \E c \in Served("status") :
          Answer(c, TRUE, currentJob) \/ Answer(c, FALSE, NoJob)
    /\ UNCHANGED <<server, view, made>>

(***************************************************************************)
(* The page.                                                               *)
(***************************************************************************)
\* No source that is chosen means all of them.
selectedSourceIds == IF selected = {} THEN Sources ELSE selected

toggleSource ==
    /\ ~Running(job)
    /\ \E s \in Sources : selected' = IF s \in selectedSourceIds THEN selectedSourceIds \ {s}
                                      ELSE selectedSourceIds \cup {s}
    /\ UNCHANGED <<server, job, loading, autoPoll, calls, made>>

handleStart ==
    /\ ~Running(job) /\ ~loading /\ loading' = TRUE
    /\ Request(calls, {Call("start", Cardinality(selectedSourceIds))})
    /\ UNCHANGED <<server, job, autoPoll, selected>>

handleCancel ==
    /\ Running(job) /\ Request(calls, {Call("cancel", 0)})
    /\ UNCHANGED <<server, view>>

\* The interval, and the switch that keeps it.
Poll ==
    /\ \/ /\ Running(job) \/ autoPoll
          /\ \A c \in calls : c.what # "status"
          /\ Request(calls, {Call("status", 0)}) /\ UNCHANGED autoPoll
       \/ autoPoll' = ~autoPoll /\ UNCHANGED <<calls, made>>
    /\ UNCHANGED <<server, job, loading, selected>>

\* How much of the job that is shown is done, in percent.
progress == IF job.testing > 0 THEN (200 * job.tested + job.testing) \div (2 * job.testing)
            ELSE 0

\* The answers; the one to a cancellation asks for the status at once.
Answered ==
    /\ \E c \in calls :
          /\ c.done
          /\ job' = IF c.what = "status" /\ c.ok THEN c.got ELSE job
          /\ loading' = (loading /\ c.what # "start")
          /\ autoPoll' = (autoPoll \/ (c.what = "start" /\ c.ok))
          /\ Request(calls \ {c}, IF c.what = "cancel" THEN {Call("status", 0)} ELSE {})
    /\ UNCHANGED <<server, selected>>

----------------------------------------------------------------------------
\* The page opens on a server without a job.
Init ==
    /\ currentJob = NoJob /\ goroutines = {} /\ cancelled = {} /\ strayed = FALSE
    /\ job = NoJob /\ loading = FALSE /\ autoPoll = FALSE /\ selected = {}
    /\ calls = {} /\ made = 0

Next == \/ Lost \/ StartScrape \/ CancelScrape \/ Advance \/ GetScrapeStatus
        \/ toggleSource \/ handleStart \/ handleCancel \/ Poll \/ Answered

Spec == Init /\ [][Next]_scraperVars

----------------------------------------------------------------------------
Jobs == [no : Nat, status : {"idle", "fetching", "testing", "done", "error"},
         error : {"", "cancelled", "panic"}, tested : Nat, testing : Nat]

Types ==
    /\ currentJob \in Jobs /\ job \in Jobs /\ strayed \in BOOLEAN
    /\ \A g \in goroutines :
          /\ g = [no |-> g.no, ctx |-> g.ctx, phase |-> g.phase, left |-> g.left,
                  batches |-> g.batches]
          /\ g.no \in Nat /\ g.batches \in Nat
          /\ g.ctx \in {"live", "cancelling", "cancelled"} /\ g.phase \in {"fetching", "testing"}
    /\ \A c \in calls :
          /\ c = [no |-> c.no, what |-> c.what, arg |-> c.arg, done |-> c.done,
                  ok |-> c.ok, got |-> c.got]
          /\ c.got \in Jobs

\* There is a goroutine for each job at most, and the context of all but that of
\* the current job is cancelled.
OnePerJob ==
    /\ \A g, h \in goroutines : g.no = h.no => g = h
    /\ \A g \in goroutines : g.no <= currentJob.no
    /\ \A g \in goroutines : g.ctx = "live" => g.no = currentJob.no

\* As long as none has strayed, the goroutine of the current job counts it up to
\* its end, and no job is ahead of that or wrongly called cancelled.
Counted ==
    /\ \A g \in goroutines :
          g.no = currentJob.no =>
              /\ g.ctx # "live" => g.no \in cancelled
              /\ g.phase = "fetching" => currentJob.tested = 0
              /\ g.phase = "testing" => currentJob.tested + g.batches = currentJob.testing
    /\ \A j \in {currentJob, job} \cup {c.got : c \in calls} : j.tested <= j.testing
    /\ currentJob.error = "cancelled" => currentJob.no \in cancelled

\* Why ScraperSound holds; RunningIsRun is inductive by itself.
Inv == /\ Types /\ OnePerJob /\ (strayed \/ Counted)
       /\ Running(currentJob) => goroutines # {}

\* A job that is shown as running has a goroutine that will end it; otherwise
\* no job could ever be started again.
RunningIsRun == Running(currentJob) => goroutines # {}

\* No two goroutines that were not told to stop work at the one job, and
\* a job is called cancelled only if it was, and its progress does not pass the
\* end -- unless an earlier one, cancelled, had not stopped yet and took it for
\* its own.
JobIsItsOwn ==
    /\ \A g, h \in goroutines : g.ctx = "live" /\ h.ctx = "live" => g = h
    /\ ~strayed => /\ currentJob.error = "cancelled" => currentJob.no \in cancelled
                   /\ progress <= 100

\* The job of the scraper, whatever is cancelled and started over.
ScraperSound == RunningIsRun /\ JobIsItsOwn
=============================================================================
