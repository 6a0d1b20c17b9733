-------------------------- MODULE SetupPages_proofs --------------------------
(***************************************************************************)
(* Proofs about the pages of the dashboard that set the gateway up: the    *)
(* pool of proxies, the scraper, the logins that add accounts, the tools   *)
(* that are bound to models, and the settings, for any number of proxies,  *)
(* sessions, tools, models, settings, requests and crashes. The lemmas say *)
(* that the first state of a page has its invariant Inv, that every step   *)
(* keeps it and that it implies what the page promises; the theorems that  *)
(* follow are in Dashboard_proofs. The variables of a page are named in    *)
(* front of its lemmas.                                                    *)
(***************************************************************************)
EXTENDS SetupPages, FiniteSetTheorems, TLAPS

-----------------------------------------------------------------------------
(* The proxy scraper: currentJob v1, goroutines v2, cancelled v3, strayed  *)
(* v4, job v5, loading v6, autoPoll v7, selected v8, calls v9, made v10.   *)

\* A job is not ahead of its end, unless a goroutine strayed.
ScraperJob(j) == j \in Scraper!Jobs /\ (v4 \/ j.tested <= j.testing)
ScraperCall(c) ==
    /\ c = [no |-> c.no, what |-> c.what, arg |-> c.arg, done |-> c.done, ok |-> c.ok,
            got |-> c.got]
    /\ ScraperJob(c.got)

\* What a goroutine in gs, of the current job j, has of it still to test.
ScraperCounts(j, gs) ==
    \A g \in gs : /\ g.phase = "fetching" => j.tested = 0
                  /\ g.phase = "testing" => j.tested + g.batches = j.testing
ScraperBounds(j, told) == j.tested <= j.testing /\ (j.error = "cancelled" => j.no \in told)

LEMMA ScraperJobs ==
    ASSUME Scraper!Inv
    PROVE  /\ ScraperJob(v1) /\ ScraperJob(v5) /\ ScraperJob(Scraper!NoJob)
           /\ \A c \in v9 : ScraperCall(c)
<1>1. ScraperJob(Scraper!NoJob)
  BY DEF ScraperJob, Scraper!NoJob, Scraper!Jobs
<1>2. Scraper!Types /\ (v4 \/ Scraper!Counted)
  BY DEF Scraper!Inv
<1>3. ScraperJob(v1) /\ ScraperJob(v5)
  BY <1>2 DEF ScraperJob, Scraper!Types, Scraper!Counted
<1>4. ASSUME NEW c \in v9 PROVE ScraperCall(c)
  BY <1>2, <1>4 DEF ScraperJob, ScraperCall, Scraper!Types, Scraper!Counted
<1> QED
  BY <1>1, <1>3, <1>4

\* What becomes of a goroutine that is told to stop, or is through with a batch.
ScraperKeeps(g, h, ctx) ==
    /\ h = [no |-> h.no, ctx |-> h.ctx, phase |-> h.phase, left |-> h.left,
            batches |-> h.batches]
    /\ h.no = g.no /\ h.phase = g.phase /\ h.batches = g.batches /\ h.ctx \in ctx

LEMMA ScraperTold ==
    ASSUME Scraper!Inv, NEW g \in v2
    PROVE  /\ ScraperKeeps(g, Scraper!Told(g), {"cancelling", "cancelled"})
           /\ g.ctx = "live" => ScraperKeeps(g, Scraper!Through(g), {"live"})
           /\ g.ctx # "live" => ScraperKeeps(g, Scraper!Through(g), {"cancelled"})
<1>1. PICK a, b, d, e, f : g = [no |-> a, ctx |-> b, phase |-> d, left |-> e, batches |-> f]
  BY DEF Scraper!Inv, Scraper!Types
<1>2. b \in {"live", "cancelling", "cancelled"}
  BY <1>1 DEF Scraper!Inv, Scraper!Types
<1>3. PICK m : m = IF b = "live" THEN "cancelling" ELSE b
  OBVIOUS
<1>4. PICK n : n = IF b = "cancelling" THEN "cancelled" ELSE b
  OBVIOUS
<1>5. Scraper!Told(g) = [no |-> a, ctx |-> m, phase |-> d, left |-> e, batches |-> f]
  BY <1>1, <1>3 DEF Scraper!Told
<1>6. Scraper!Through(g) = [no |-> a, ctx |-> n, phase |-> d, left |-> e, batches |-> f]
  BY <1>1, <1>4 DEF Scraper!Through
<1> QED
  BY <1>1, <1>2, <1>3, <1>4, <1>5, <1>6 DEF ScraperKeeps

LEMMA ScraperInit == ASSUME Scraper!Init PROVE Scraper!Inv
<1>1. /\ v1 = Scraper!NoJob /\ v2 = {} /\ v4 = FALSE /\ v5 = Scraper!NoJob /\ v9 = {}
  BY DEF Scraper!Init
<1>2. /\ Scraper!NoJob \in Scraper!Jobs /\ Scraper!NoJob.tested <= Scraper!NoJob.testing
      /\ Scraper!NoJob.error = "" /\ ~Scraper!Running(Scraper!NoJob)
  BY DEF Scraper!NoJob, Scraper!Jobs, Scraper!Running
<1> QED
  BY <1>1, <1>2 DEF Scraper!Inv, Scraper!Types, Scraper!OnePerJob, Scraper!Counted

\* A step of the page, or of the server without an effect on its job.
LEMMA ScraperSame ==
    ASSUME Scraper!Inv, UNCHANGED <<v1, v2, v3, v4>>, ScraperJob(v5'),
           \A c \in v9' : ScraperCall(c)
    PROVE  Scraper!Inv'
<1>1. Scraper!Types'
  BY DEF Scraper!Inv, Scraper!Types, ScraperCall, ScraperJob
<1>2. Scraper!OnePerJob' /\ (Scraper!Running(v1') => v2' # {})
  BY DEF Scraper!Inv, Scraper!OnePerJob
<1>3. Scraper!Counted => v4 \/ Scraper!Counted'
  BY DEF Scraper!Counted, ScraperCall, ScraperJob
<1> QED
  BY <1>1, <1>2, <1>3 DEF Scraper!Inv

\* An answer holds what the server had, or nothing.
LEMMA ScraperAnswer ==
    ASSUME Scraper!Inv, NEW c \in v9, NEW ok, NEW got, ScraperJob(got),
           Scraper!Answer(c, ok, got)
    PROVE  \A d \in v9' : ScraperCall(d)
<1>2. PICK new : new = [c EXCEPT !.done = TRUE, !.ok = ok, !.got = got]
  OBVIOUS
<1>3. PICK a, w, x, y, z, g :
         c = [no |-> a, what |-> w, arg |-> x, done |-> y, ok |-> z, got |-> g]
  BY DEF Scraper!Inv, Scraper!Types
<1>4. new = [no |-> a, what |-> w, arg |-> x, done |-> TRUE, ok |-> ok, got |-> got]
  BY <1>2, <1>3
<1>5. /\ new = [no |-> new.no, what |-> new.what, arg |-> new.arg, done |-> new.done,
                ok |-> new.ok, got |-> new.got]
      /\ new.got = got
  BY <1>4
<1>6. v9' = (v9 \ {c}) \cup {new}
  BY <1>2 DEF Scraper!Answer
<1>7. ScraperCall(new)
  BY <1>5 DEF ScraperCall
<1> QED
  BY <1>6, <1>7, ScraperJobs

\* More requests of the page.
LEMMA ScraperRequest ==
    ASSUME Scraper!Inv, NEW cs, cs \subseteq v9, NEW what, NEW arg, NEW new,
           new \in {{}, {Scraper!Call(what, arg)}}, Scraper!Request(cs, new)
    PROVE  \A d \in v9' : ScraperCall(d)
<1>1. PICK c : c = Scraper!Call(what, arg)
  OBVIOUS
<1>2. /\ c = [no |-> c.no, what |-> c.what, arg |-> c.arg, done |-> c.done, ok |-> c.ok,
              got |-> c.got]
      /\ c.got = Scraper!NoJob
  BY <1>1 DEF Scraper!Call
<1>3. ScraperCall(c)
  BY <1>2, ScraperJobs DEF ScraperCall
<1>4. v9' = cs \cup new /\ new \subseteq {c}
  BY <1>1 DEF Scraper!Request
<1> QED
  BY <1>3, <1>4, ScraperJobs

\* One goroutine takes a step, or its last.
LEMMA ScraperAdvance ==
    ASSUME Scraper!Inv, UNCHANGED <<v3, v5, v9>>, NEW g \in v2, NEW h,
           v4' \in BOOLEAN, v4 \/ g.no # v1.no => v4',
           v1' \in Scraper!Jobs, v1'.no = v1.no,
           h = [no |-> h.no, ctx |-> h.ctx, phase |-> h.phase, left |-> h.left,
                batches |-> h.batches],
           h.no = g.no, h.ctx \in {"live", "cancelling", "cancelled"},
           h.ctx = "live" <=> g.ctx = "live", h.phase \in {"fetching", "testing"}, h.batches \in Nat,
           v2' = v2 \ {g} \/ v2' = (v2 \ {g}) \cup {h},
           ~v4' => ScraperCounts(v1', v2' \cap {h}) /\ ScraperBounds(v1', v3),
           Scraper!Running(v1') => v2' # {}
    PROVE  Scraper!Inv'
<1>1. Scraper!Types /\ Scraper!OnePerJob /\ (v4 \/ Scraper!Counted)
  BY DEF Scraper!Inv
<1>2. g.no \in Nat
  BY <1>1 DEF Scraper!Types
<1>3. Scraper!Types'
  BY <1>1, <1>2 DEF Scraper!Types
<1>4. \A x \in v2' : (x \in v2 /\ x # g) \/ x = h
  OBVIOUS
<1>5. Scraper!OnePerJob'
  <2>1. ASSUME NEW x \in v2', NEW y \in v2', x.no = y.no PROVE x = y
    BY <1>1, <1>4, <2>1 DEF Scraper!OnePerJob
  <2>2. ASSUME NEW x \in v2'
        PROVE x.no <= v1'.no /\ (x.ctx = "live" => x.no = v1'.no)
    BY <1>1, <1>4 DEF Scraper!OnePerJob
  <2> QED
    BY <2>1, <2>2 DEF Scraper!OnePerJob
<1>6. ASSUME ~v4' PROVE Scraper!Counted'
  <2>1. ~v4 /\ g.no = v1.no /\ Scraper!Counted
    BY <1>1, <1>6
  <2>2. ASSUME NEW x \in v2', x.no = v1.no PROVE x = h
    BY <1>1, <1>4, <2>1, <2>2 DEF Scraper!OnePerJob
  <2>3. g.ctx # "live" => g.no \in v3
    BY <2>1 DEF Scraper!Counted
  <2>4. ASSUME NEW x \in v2', x.no = v1'.no
        PROVE  /\ x.ctx # "live" => x.no \in v3'
               /\ x.phase = "fetching" => v1'.tested = 0
               /\ x.phase = "testing" => v1'.tested + x.batches = v1'.testing
    <3>1. x = h /\ h \in v2' \cap {h} /\ ScraperCounts(v1', v2' \cap {h})
      BY <1>6, <2>2, <2>4
    <3>2. /\ x.phase = "fetching" => v1'.tested = 0
          /\ x.phase = "testing" => v1'.tested + x.batches = v1'.testing
      BY <3>1 DEF ScraperCounts
    <3> QED
      BY <2>1, <2>3, <3>1, <3>2
  <2>5. \A j \in {v1', v5'} \cup {c.got : c \in v9'} : j.tested <= j.testing
    BY <1>6, <2>1 DEF Scraper!Counted, ScraperBounds
  <2> QED
    BY <1>6, <2>4, <2>5 DEF Scraper!Counted, ScraperBounds
<1> QED
  BY <1>3, <1>5, <1>6 DEF Scraper!Inv

LEMMA ScraperShown == ASSUME Scraper!Inv PROVE Scraper!ScraperSound
<1>0. Scraper!OnePerJob /\ (v4 \/ Scraper!Counted)
  BY DEF Scraper!Inv
<1>1. Scraper!RunningIsRun
  BY DEF Scraper!Inv, Scraper!RunningIsRun
<1>2. ASSUME ~v4 PROVE Scraper!progress <= 100
  <2>1. v5.tested \in Nat /\ v5.testing \in Nat /\ v5.tested <= v5.testing
    BY <1>2, ScraperJobs DEF ScraperJob, Scraper!Jobs
  <2>2. PICK t \in Nat, n \in Nat : t = v5.tested /\ n = v5.testing
    BY <2>1
  <2>3. CASE n > 0
    <3>1. (200 * t + n) \div (2 * n) <= 100
      <4>1. 200 * t + n < 101 * (2 * n) /\ 2 * n > 0
        BY <2>1, <2>2, <2>3
      <4>2. \A a, b \in Nat : b > 0 /\ a < 101 * b => a \div b <= 100
        BY SMTT(30)
      <4> QED
        BY <4>1, <4>2
    <3> QED
      BY <2>2, <2>3, <3>1 DEF Scraper!progress
  <2>4. CASE ~(n > 0)
    BY <2>2, <2>4 DEF Scraper!progress
  <2> QED
    BY <2>3, <2>4
<1>3. ASSUME NEW g \in v2, NEW h \in v2, g.ctx = "live", h.ctx = "live" PROVE g = h
  <2>1. g.no = v1.no /\ h.no = v1.no
    BY <1>0, <1>3 DEF Scraper!OnePerJob
  <2> QED
    BY <1>0, <2>1 DEF Scraper!OnePerJob
<1>4. ~v4 => (v1.error = "cancelled" => v1.no \in v3)
  BY <1>0 DEF Scraper!Counted
<1> QED
  BY <1>1, <1>2, <1>3, <1>4 DEF Scraper!ScraperSound, Scraper!JobIsItsOwn

\* The job that is shown cannot be started over, and no goroutine of an earlier
\* job has a live context once the new one runs.
LEMMA ScraperStarts == ASSUME Scraper!Inv, Scraper!StartScrape PROVE Scraper!Inv'
<1>1. PICK c \in v9 :
         IF Scraper!Running(v1)
         THEN Scraper!Answer(c, FALSE, Scraper!NoJob) /\ UNCHANGED Scraper!server
         ELSE LET no == v1.no + 1 IN
              /\ no <= MaxJobs
              /\ v1' = [Scraper!NoJob EXCEPT !.no = no, !.status = "fetching"]
              /\ v2' = {Scraper!Told(g) : g \in v2} \cup
                       {[no |-> no, ctx |-> "live", phase |-> "fetching", left |-> c.arg,
                         batches |-> 0]}
              /\ Scraper!Answer(c, TRUE, Scraper!NoJob)
              /\ UNCHANGED <<v3, v4>>
  BY DEF Scraper!StartScrape, Scraper!Served
<1>2. UNCHANGED v5
  BY DEF Scraper!StartScrape, Scraper!view
<1>3. \A d \in v9' : ScraperCall(d)
  BY <1>1, ScraperAnswer, ScraperJobs
<1>4. CASE Scraper!Running(v1)
  BY <1>1, <1>2, <1>3, <1>4, ScraperSame, ScraperJobs DEF Scraper!server
<1>5. CASE ~Scraper!Running(v1)
  <2>0. v1.no \in Nat
    BY ScraperJobs DEF ScraperJob, Scraper!Jobs
  <2>1. PICK no \in Nat : no = v1.no + 1 /\ v1.no < no
    BY <2>0
  <2>2. PICK h : h = [no |-> no, ctx |-> "live", phase |-> "fetching", left |-> c.arg,
                      batches |-> 0]
    OBVIOUS
  <2> DEFINE told(g) == Scraper!Told(g)
  <2>3. v2' = {told(g) : g \in v2} \cup {h} /\ UNCHANGED <<v3, v4>>
    BY <1>1, <1>5, <2>1, <2>2
  <2>4. v1' \in Scraper!Jobs /\ v1'.no = no /\ v1'.tested = 0 /\ v1'.testing = 0
        /\ v1'.error = "" /\ v1'.tested <= v1'.testing
    <3>1. v1' = [Scraper!NoJob EXCEPT !.no = no, !.status = "fetching"]
      BY <1>1, <1>5, <2>1
    <3>2. Scraper!NoJob = [no |-> 0, status |-> "idle", error |-> "", tested |-> 0,
                           testing |-> 0]
      BY DEF Scraper!NoJob
    <3>3. v1' = [no |-> no, status |-> "fetching", error |-> "", tested |-> 0, testing |-> 0]
      BY <3>1, <3>2
    <3>4. v1'.no = no /\ v1'.tested = 0 /\ v1'.testing = 0 /\ v1'.error = ""
      BY <3>3
    <3>5. v1' \in Scraper!Jobs
      BY <3>3 DEF Scraper!Jobs
    <3>6. PICK z \in Nat : z = 0 /\ z <= z
      OBVIOUS
    <3>7. v1'.tested = z /\ v1'.testing = z
      BY <3>4, <3>6
    <3>8. v1'.tested <= v1'.testing
      BY <3>6, <3>7
    <3> QED
      BY <3>4, <3>5, <3>8
  <2>5. ASSUME NEW g \in v2
        PROVE  /\ told(g) = [no |-> told(g).no, ctx |-> told(g).ctx, phase |-> told(g).phase,
                             left |-> told(g).left, batches |-> told(g).batches]
               /\ told(g).no = g.no /\ g.no \in Nat /\ g.no < no
               /\ told(g).batches \in Nat /\ told(g).ctx \in {"cancelling", "cancelled"}
               /\ told(g).phase \in {"fetching", "testing"}
               /\ \A x \in v2 : x.no = g.no => x = g
    <3>2. ScraperKeeps(g, told(g), {"cancelling", "cancelled"})
      BY ScraperTold
    <3>3. g.no \in Nat /\ g.batches \in Nat /\ g.phase \in {"fetching", "testing"}
      BY DEF Scraper!Inv, Scraper!Types
    <3>4. g.no <= v1.no /\ \A x \in v2 : x.no = g.no => x = g
      BY DEF Scraper!Inv, Scraper!OnePerJob
    <3>5. g.no < no
      BY <2>0, <2>1, <3>3, <3>4
    <3> HIDE DEF told
    <3> QED
      BY <3>2, <3>3, <3>4, <3>5 DEF ScraperKeeps
  <2>6. /\ h = [no |-> h.no, ctx |-> h.ctx, phase |-> h.phase, left |-> h.left,
                batches |-> h.batches]
        /\ h.no = no /\ h.batches = 0 /\ h.ctx = "live" /\ h.phase = "fetching"
    BY <2>2
  <2> HIDE DEF told
  <2>7. Scraper!Types'
    <3>1. ASSUME NEW x \in v2'
          PROVE  /\ x = [no |-> x.no, ctx |-> x.ctx, phase |-> x.phase, left |-> x.left,
                         batches |-> x.batches]
                 /\ x.no \in Nat /\ x.batches \in Nat
                 /\ x.ctx \in {"live", "cancelling", "cancelled"} /\ x.phase \in {"fetching", "testing"}
      <4>1. CASE x = h
        BY <2>6, <4>1
      <4>2. ASSUME NEW g \in v2, x = told(g)
            PROVE  /\ x = [no |-> x.no, ctx |-> x.ctx, phase |-> x.phase, left |-> x.left,
                           batches |-> x.batches]
                   /\ x.no \in Nat /\ x.batches \in Nat
                   /\ x.ctx \in {"live", "cancelling", "cancelled"} /\ x.phase \in {"fetching", "testing"}
        BY <2>5, <4>2
      <4> QED
        BY <2>3, <4>1, <4>2
    <3>2. v4' \in BOOLEAN /\ v5' \in Scraper!Jobs
      BY <1>2, <2>3 DEF Scraper!Inv, Scraper!Types
    <3> QED
      BY <1>3, <2>4, <3>1, <3>2 DEF Scraper!Types, ScraperCall, ScraperJob
  <2>8. Scraper!OnePerJob'
    <3>1. ASSUME NEW x \in v2', NEW y \in v2', x.no = y.no PROVE x = y
      <4>1. (x = h \/ \E g \in v2 : x = told(g)) /\ (y = h \/ \E g \in v2 : y = told(g))
        BY <2>3
      <4> QED
        BY <2>1, <2>5, <2>6, <3>1, <4>1
    <3>2. \A x \in v2' : x.no <= v1'.no
      <4>1. ASSUME NEW g \in v2 PROVE told(g).no <= no
        BY <2>5
      <4>2. h.no <= no
        BY <2>6
      <4> QED
        BY <2>3, <2>4, <4>1, <4>2
    <3>3. \A x \in v2' : x.ctx = "live" => x.no = v1'.no
      BY <2>3, <2>4, <2>5, <2>6
    <3> QED
      BY <3>1, <3>2, <3>3 DEF Scraper!OnePerJob
  <2>9. ASSUME ~v4 PROVE Scraper!Counted'
    <3>1. \A x \in v2' : x.no = no => x = h
      BY <2>1, <2>3, <2>5
    <3>2. \A d \in v9' : d.got.tested <= d.got.testing
      BY <1>3, <2>3, <2>9 DEF ScraperCall, ScraperJob
    <3>3. v5'.tested <= v5'.testing
      BY <1>2, <2>9, ScraperJobs DEF ScraperJob
    <3>4. ASSUME NEW x \in v2', x.no = v1'.no
          PROVE  /\ x.ctx # "live" => x.no \in v3'
                 /\ x.phase = "fetching" => v1'.tested = 0
                 /\ x.phase = "testing" => v1'.tested + x.batches = v1'.testing
      BY <2>4, <2>6, <3>1, <3>4
    <3> QED
      BY <2>4, <3>2, <3>3, <3>4 DEF Scraper!Counted
  <2> QED
    BY <2>3, <2>7, <2>8, <2>9 DEF Scraper!Inv
<1> QED
  BY <1>4, <1>5

\* The current job is marked, and its goroutine told, but not stopped.
LEMMA ScraperCancels == ASSUME Scraper!Inv, Scraper!CancelScrape PROVE Scraper!Inv'
<1>1. PICK c \in v9 :
         /\ Scraper!Answer(c, TRUE, Scraper!NoJob)
         /\ IF Scraper!Running(v1)
            THEN /\ v1' = [v1 EXCEPT !.status = "done", !.error = "cancelled"]
                 /\ v2' = {IF g.no = v1.no THEN Scraper!Told(g) ELSE g : g \in v2}
                 /\ v3' = v3 \cup {v1.no}
            ELSE UNCHANGED <<v1, v2, v3>>
  BY DEF Scraper!CancelScrape, Scraper!Served
<1>2. UNCHANGED <<v4, v5>>
  BY DEF Scraper!CancelScrape, Scraper!view
<1>3. \A d \in v9' : ScraperCall(d)
  BY <1>1, ScraperAnswer, ScraperJobs
<1>4. CASE ~Scraper!Running(v1)
  BY <1>1, <1>2, <1>3, <1>4, ScraperSame, ScraperJobs
<1>5. CASE Scraper!Running(v1)
  <2> DEFINE told(g) == IF g.no = v1.no THEN Scraper!Told(g) ELSE g
  <2>1. v2' = {told(g) : g \in v2} /\ v3' = v3 \cup {v1.no}
    BY <1>1, <1>5
  <2>2. v1 \in Scraper!Jobs
    BY ScraperJobs DEF ScraperJob
  <2>3. /\ v1' \in Scraper!Jobs /\ v1'.no = v1.no /\ v1'.status = "done"
        /\ v1'.tested = v1.tested /\ v1'.testing = v1.testing
    BY <1>1, <1>5, <2>2 DEF Scraper!Jobs
  <2>4. ASSUME NEW g \in v2
        PROVE  /\ told(g) = [no |-> told(g).no, ctx |-> told(g).ctx, phase |-> told(g).phase,
                             left |-> told(g).left, batches |-> told(g).batches]
               /\ told(g).no = g.no /\ g.no \in Nat /\ g.no <= v1.no
               /\ told(g).batches = g.batches /\ g.batches \in Nat
               /\ told(g).phase = g.phase /\ g.phase \in {"fetching", "testing"}
               /\ told(g).ctx \in {"live", "cancelling", "cancelled"}
               /\ told(g).ctx = "live" => g.no = v1.no
               /\ \A x \in v2 : x.no = g.no => x = g
    <3>2. CASE g.no = v1.no
      <4>1. ScraperKeeps(g, told(g), {"cancelling", "cancelled"})
        BY <3>2, ScraperTold
      <4>2. g.no \in Nat /\ g.batches \in Nat /\ g.phase \in {"fetching", "testing"}
        BY DEF Scraper!Inv, Scraper!Types
      <4>3. g.no <= v1.no /\ \A x \in v2 : x.no = g.no => x = g
        BY <3>2, <4>2 DEF Scraper!Inv, Scraper!OnePerJob
      <4> HIDE DEF told
      <4> QED
        BY <3>2, <4>1, <4>2, <4>3 DEF ScraperKeeps
    <3>3. CASE g.no # v1.no
      <4>1. told(g) = g
        BY <3>3
      <4>2. Scraper!Types /\ Scraper!OnePerJob
        BY DEF Scraper!Inv
      <4> QED
        BY <4>1, <4>2 DEF Scraper!Types, Scraper!OnePerJob
    <3> QED
      BY <3>2, <3>3
  <2> HIDE DEF told
  <2>5. Scraper!Types'
    BY <1>2, <1>3, <2>1, <2>3, <2>4
       DEF Scraper!Inv, Scraper!Types, ScraperCall, ScraperJob
  <2>6. Scraper!OnePerJob'
    <3>1. ASSUME NEW x \in v2', NEW y \in v2', x.no = y.no PROVE x = y
      <4>1. PICK g \in v2, h \in v2 : x = told(g) /\ y = told(h)
        BY <2>1
      <4> QED
        BY <2>4, <3>1, <4>1
    <3>2. \A x \in v2' : x.no <= v1'.no
      BY <2>1, <2>3, <2>4
    <3>3. \A x \in v2' : x.ctx = "live" => x.no = v1'.no
      BY <2>1, <2>3, <2>4
    <3> QED
      BY <3>1, <3>2, <3>3 DEF Scraper!OnePerJob
  <2>7. ASSUME ~v4 PROVE Scraper!Counted'
    <3>1. Scraper!Counted
      BY <2>7 DEF Scraper!Inv
    <3>2. ASSUME NEW x \in v2', x.no = v1'.no
          PROVE  /\ x.ctx # "live" => x.no \in v3'
                 /\ x.phase = "fetching" => v1'.tested = 0
                 /\ x.phase = "testing" => v1'.tested + x.batches = v1'.testing
      <4>1. PICK g \in v2 : x = told(g)
        BY <2>1
      <4> QED
        BY <2>1, <2>3, <2>4, <3>1, <3>2, <4>1 DEF Scraper!Counted
    <3>3. \A j \in {v1', v5'} \cup {d.got : d \in v9'} : j.tested <= j.testing
      BY <1>2, <1>3, <2>3, <2>7, <3>1 DEF Scraper!Counted, ScraperCall, ScraperJob
    <3> QED
      BY <2>1, <2>3, <3>2, <3>3 DEF Scraper!Counted
  <2> QED
    BY <1>2, <2>3, <2>5, <2>6, <2>7 DEF Scraper!Inv, Scraper!Running
<1> QED
  BY <1>4, <1>5

\* A goroutine fetches, begins to test, tests a batch, ends, or stops.
LEMMA ScraperAdvances == ASSUME Scraper!Inv, Scraper!Advance PROVE Scraper!Inv'
<1>1. UNCHANGED <<v3, v5, v9>>
  BY DEF Scraper!Advance, Scraper!view
<1>2. PICK g \in v2 :
         /\ v4' = (v4 \/ g.no # v1.no)
         /\ \/ /\ g.ctx # "live" /\ (g.left > 0 \/ g.batches > 0)
               /\ v1' = Scraper!Stopped /\ v2' = v2 \ {g}
            \/ /\ g.phase = "fetching" /\ g.ctx # "cancelled" /\ g.left > 0
               /\ v2' = (v2 \ {g}) \cup {[Scraper!Through(g) EXCEPT !.left = @ - 1]}
               /\ UNCHANGED v1
            \/ \E n \in 0 .. MaxBatches :
                   /\ g.phase = "fetching" /\ g.left = 0
                   /\ v1' = [v1 EXCEPT !.status = "testing", !.testing = n]
                   /\ v2' = (v2 \ {g}) \cup {[g EXCEPT !.phase = "testing", !.batches = n]}
            \/ /\ g.phase = "testing" /\ g.ctx # "cancelled" /\ g.batches > 0
               /\ v1' = [v1 EXCEPT !.tested = @ + 1]
               /\ v2' = (v2 \ {g}) \cup {[Scraper!Through(g) EXCEPT !.batches = @ - 1]}
            \/ /\ g.phase = "testing" /\ g.batches = 0
               /\ v1' = [v1 EXCEPT !.status = "done"]
               /\ v2' = v2 \ {g}
            \/ /\ v1' = [v1 EXCEPT !.status = "error", !.error = "panic"]
               /\ v2' = v2 \ {g}
  BY DEF Scraper!Advance
<1>3. v1 \in Scraper!Jobs /\ v4 \in BOOLEAN
  BY DEF Scraper!Inv, Scraper!Types
<1>4. PICK a, b, d, e, f : g = [no |-> a, ctx |-> b, phase |-> d, left |-> e, batches |-> f]
  BY DEF Scraper!Inv, Scraper!Types
<1>5. /\ g = [no |-> g.no, ctx |-> g.ctx, phase |-> g.phase, left |-> g.left,
              batches |-> g.batches]
      /\ g.phase \in {"fetching", "testing"} /\ g.batches \in Nat
      /\ g.ctx \in {"live", "cancelling", "cancelled"}
  BY DEF Scraper!Inv, Scraper!Types
<1>13. PICK o : o = Scraper!Through(g)
  OBVIOUS
<1>14. /\ o.no = g.no /\ o.phase = g.phase /\ o.batches = g.batches
       /\ o.ctx \in {"live", "cancelled"} /\ (o.ctx = "live" <=> g.ctx = "live")
       /\ o = [no |-> o.no, ctx |-> o.ctx, phase |-> o.phase, left |-> o.left,
               batches |-> o.batches]
  BY <1>13, ScraperTold DEF ScraperKeeps
<1>6. v4' \in BOOLEAN /\ (v4 \/ g.no # v1.no => v4') /\ (v4' => v4 \/ g.no # v1.no)
  BY <1>2, <1>3
<1>7. ASSUME ~v4'
      PROVE  /\ g.ctx # "live" => v1.no \in v3
             /\ ScraperCounts(v1, {g}) /\ ScraperBounds(v1, v3)
  <2>1. g.no = v1.no /\ Scraper!Counted
    BY <1>6, <1>7 DEF Scraper!Inv
  <2> QED
    BY <2>1 DEF Scraper!Counted, ScraperCounts, ScraperBounds
<1>8. CASE g.ctx # "live" /\ v1' = Scraper!Stopped /\ v2' = v2 \ {g}
  <2>1. /\ v1' \in Scraper!Jobs /\ v1'.no = v1.no /\ v1'.tested = v1.tested
        /\ v1'.testing = v1.testing /\ v1'.status = "done"
    BY <1>3, <1>8 DEF Scraper!Stopped, Scraper!Jobs
  <2>2. ~Scraper!Running(v1') /\ v2' \cap {g} = {}
    BY <1>8, <2>1 DEF Scraper!Running
  <2>3. ~v4' => ScraperCounts(v1', v2' \cap {g}) /\ ScraperBounds(v1', v3)
    BY <1>7, <1>8, <2>1, <2>2 DEF ScraperCounts, ScraperBounds
  <2> QED
    BY <1>1, <1>5, <1>6, <1>8, <2>1, <2>2, <2>3, ScraperAdvance
<1>9. CASE v2' = (v2 \ {g}) \cup {[Scraper!Through(g) EXCEPT !.left = @ - 1]} /\ UNCHANGED v1
  <2>1. PICK h : h = [o EXCEPT !.left = @ - 1]
    OBVIOUS
  <2>10. PICK p, q, r, x, y : o = [no |-> p, ctx |-> q, phase |-> r, left |-> x, batches |-> y]
    BY <1>14
  <2>11. PICK k : k = x - 1
    OBVIOUS
  <2>12. h = [no |-> p, ctx |-> q, phase |-> r, left |-> k, batches |-> y]
    BY <2>1, <2>10, <2>11
  <2>2. /\ h = [no |-> h.no, ctx |-> h.ctx, phase |-> h.phase, left |-> h.left,
                batches |-> h.batches]
        /\ h.no = g.no /\ h.ctx \in {"live", "cancelling", "cancelled"}
        /\ (h.ctx = "live" <=> g.ctx = "live")
        /\ h.phase = g.phase /\ h.batches = g.batches
    BY <1>14, <2>10, <2>12
  <2>3. v2' = (v2 \ {g}) \cup {h} /\ v2' # {}
    BY <1>9, <1>13, <2>1
  <2>4. ~v4' => ScraperCounts(v1', v2' \cap {h}) /\ ScraperBounds(v1', v3)
    BY <1>7, <1>9, <2>2 DEF ScraperCounts
  <2>5. /\ h.phase \in {"fetching", "testing"} /\ h.batches \in Nat
        /\ v1' \in Scraper!Jobs /\ v1'.no = v1.no
    BY <1>3, <1>5, <1>9, <2>2
  <2> QED
    BY <1>1, <1>6, <2>2, <2>3, <2>4, <2>5, ScraperAdvance
<1>10. ASSUME NEW n \in 0 .. MaxBatches, g.phase = "fetching",
              v1' = [v1 EXCEPT !.status = "testing", !.testing = n],
              v2' = (v2 \ {g}) \cup {[g EXCEPT !.phase = "testing", !.batches = n]}
       PROVE  Scraper!Inv'
  <2>1. PICK h : h = [g EXCEPT !.phase = "testing", !.batches = n]
    OBVIOUS
  <2>2. /\ h = [no |-> h.no, ctx |-> h.ctx, phase |-> h.phase, left |-> h.left,
                batches |-> h.batches]
        /\ h.no = g.no /\ h.ctx = g.ctx /\ h.phase = "testing" /\ h.batches = n
    BY <1>4, <2>1
  <2>3. v2' = (v2 \ {g}) \cup {h} /\ v2' # {}
    BY <1>10, <2>1
  <2>4. n \in Nat
    BY SetupAssumption DEF Scraper!ScraperPageAssumption
  <2>5. /\ v1' \in Scraper!Jobs /\ v1'.no = v1.no /\ v1'.tested = v1.tested
        /\ v1'.testing = n /\ v1'.error = v1.error
    BY <1>3, <1>10, <2>4 DEF Scraper!Jobs
  <2>6. ASSUME ~v4'
        PROVE  ScraperCounts(v1', v2' \cap {h}) /\ ScraperBounds(v1', v3)
    <3>1. v1'.tested = 0
      BY <1>7, <1>10, <2>5, <2>6 DEF ScraperCounts
    <3>2. v1'.tested + h.batches = v1'.testing /\ v1'.tested <= v1'.testing
      BY <2>2, <2>4, <2>5, <3>1
    <3>3. v1'.error = "cancelled" => v1'.no \in v3
      BY <1>7, <2>5, <2>6 DEF ScraperBounds
    <3> QED
      BY <2>2, <3>2, <3>3 DEF ScraperCounts, ScraperBounds
  <2> QED
    BY <1>1, <1>5, <1>6, <2>2, <2>3, <2>4, <2>5, <2>6, ScraperAdvance
<1>11. CASE /\ g.phase = "testing" /\ g.batches > 0
            /\ v1' = [v1 EXCEPT !.tested = @ + 1]
            /\ v2' = (v2 \ {g}) \cup {[Scraper!Through(g) EXCEPT !.batches = @ - 1]}
  <2>1. PICK h : h = [o EXCEPT !.batches = @ - 1]
    OBVIOUS
  <2>11. PICK p, q, r, x, y : o = [no |-> p, ctx |-> q, phase |-> r, left |-> x, batches |-> y]
    BY <1>14
  <2>12. PICK k : k = y - 1
    OBVIOUS
  <2>13. h = [no |-> p, ctx |-> q, phase |-> r, left |-> x, batches |-> k]
    BY <2>1, <2>11, <2>12
  <2>2. /\ h = [no |-> h.no, ctx |-> h.ctx, phase |-> h.phase, left |-> h.left,
                batches |-> h.batches]
        /\ h.no = g.no /\ h.ctx \in {"live", "cancelling", "cancelled"}
        /\ (h.ctx = "live" <=> g.ctx = "live")
        /\ h.phase = g.phase /\ h.batches = g.batches - 1
    BY <1>14, <2>11, <2>12, <2>13
  <2>3. v2' = (v2 \ {g}) \cup {h} /\ v2' # {}
    BY <1>11, <1>13, <2>1
  <2>4. h.batches \in Nat
    BY <1>5, <1>11, <2>2
  <2>0. v1.tested \in Nat /\ v1.testing \in Nat
    BY <1>3 DEF Scraper!Jobs
  <2>5. PICK t \in Nat : t = v1.tested + 1
    BY <2>0
  <2>6. /\ v1' \in Scraper!Jobs /\ v1'.no = v1.no /\ v1'.tested = t
        /\ v1'.testing = v1.testing /\ v1'.error = v1.error
    BY <1>3, <1>11, <2>5 DEF Scraper!Jobs
  <2>7. ASSUME ~v4'
        PROVE  ScraperCounts(v1', v2' \cap {h}) /\ ScraperBounds(v1', v3)
    <3>1. v1.tested + g.batches = v1.testing
      BY <1>7, <1>11, <2>7 DEF ScraperCounts
    <3>2. v1'.tested + h.batches = v1'.testing
      BY <1>5, <2>0, <2>2, <2>5, <2>6, <3>1
    <3>3. v1'.tested <= v1'.testing
      BY <2>0, <2>4, <2>5, <2>6, <3>2
    <3>4. v1'.error = "cancelled" => v1'.no \in v3
      BY <1>7, <2>6, <2>7 DEF ScraperBounds
    <3> QED
      BY <1>11, <2>2, <3>2, <3>3, <3>4 DEF ScraperCounts, ScraperBounds
  <2>8. h.phase \in {"fetching", "testing"} /\ v1' \in Scraper!Jobs /\ v1'.no = v1.no
    BY <1>5, <2>2, <2>6
  <2>9. /\ h.no = g.no /\ h.ctx \in {"live", "cancelling", "cancelled"}
        /\ (h.ctx = "live" <=> g.ctx = "live")
    BY <2>2
  <2>10. h = [no |-> h.no, ctx |-> h.ctx, phase |-> h.phase, left |-> h.left,
              batches |-> h.batches]
    BY <2>2, Zenon
  <2> QED
    BY <1>1, <1>6, <2>3, <2>4, <2>7, <2>8, <2>9, <2>10, ScraperAdvance
<1>12. CASE v1' = [v1 EXCEPT !.status = "done"] /\ v2' = v2 \ {g}
  <2>1. /\ v1' \in Scraper!Jobs /\ v1'.no = v1.no /\ v1'.tested = v1.tested
        /\ v1'.testing = v1.testing /\ v1'.status = "done" /\ v1'.error = v1.error
    BY <1>3, <1>12 DEF Scraper!Jobs
  <2>2. ~Scraper!Running(v1') /\ v2' \cap {g} = {}
    BY <1>12, <2>1 DEF Scraper!Running
  <2>3. ~v4' => ScraperCounts(v1', v2' \cap {g}) /\ ScraperBounds(v1', v3)
    BY <1>7, <2>1, <2>2 DEF ScraperCounts, ScraperBounds
  <2>4. v2' = v2 \ {g} /\ v1' \in Scraper!Jobs /\ v1'.no = v1.no
    BY <1>12, <2>1
  <2> QED
    BY <1>1, <1>5, <1>6, <2>2, <2>3, <2>4, ScraperAdvance
<1>15. CASE v1' = [v1 EXCEPT !.status = "error", !.error = "panic"] /\ v2' = v2 \ {g}
  <2>1. /\ v1' \in Scraper!Jobs /\ v1'.no = v1.no /\ v1'.tested = v1.tested
        /\ v1'.testing = v1.testing /\ v1'.status = "error" /\ v1'.error = "panic"
    BY <1>3, <1>15 DEF Scraper!Jobs
  <2>2. ~Scraper!Running(v1') /\ v2' \cap {g} = {}
    BY <1>15, <2>1 DEF Scraper!Running
  <2>3. ~v4' => ScraperCounts(v1', v2' \cap {g}) /\ ScraperBounds(v1', v3)
    BY <1>7, <2>1, <2>2 DEF ScraperCounts, ScraperBounds
  <2>4. v2' = v2 \ {g} /\ v1' \in Scraper!Jobs /\ v1'.no = v1.no
    BY <1>15, <2>1
  <2> QED
    BY <1>1, <1>5, <1>6, <2>2, <2>3, <2>4, ScraperAdvance
<1> QED
  BY <1>2, <1>8, <1>9, <1>10, <1>11, <1>12, <1>15

LEMMA ScraperNext == ASSUME Scraper!Inv, Scraper!Next PROVE Scraper!Inv'
<1> USE ScraperJobs DEF Scraper!server, Scraper!view
<1>1. CASE Scraper!Lost \/ Scraper!GetScrapeStatus
  <2>1. UNCHANGED <<v1, v2, v3, v4, v5>>
    BY <1>1 DEF Scraper!Lost, Scraper!GetScrapeStatus
  <2>2. \E c \in v9, ok \in BOOLEAN, got \in {v1, Scraper!NoJob} : Scraper!Answer(c, ok, got)
    BY <1>1 DEF Scraper!Lost, Scraper!GetScrapeStatus, Scraper!Served
  <2>3. \A d \in v9' : ScraperCall(d)
    BY <2>2, ScraperAnswer
  <2> QED
    BY <2>1, <2>3, ScraperSame
<1>2. CASE Scraper!toggleSource
  BY <1>2, ScraperSame DEF Scraper!toggleSource
<1>3. CASE Scraper!handleStart
  <2>1. PICK new : new = {Scraper!Call("start", Scraper!Cardinality(Scraper!selectedSourceIds))}
    OBVIOUS
  <2>2. Scraper!Request(v9, new) /\ UNCHANGED <<v1, v2, v3, v4, v5>>
    BY <1>3, <2>1 DEF Scraper!handleStart
  <2>3. \A d \in v9' : ScraperCall(d)
    BY <2>1, <2>2, ScraperRequest
  <2> QED
    BY <2>2, <2>3, ScraperSame
<1>4. CASE Scraper!handleCancel
  <2>1. PICK new : new = {Scraper!Call("cancel", 0)}
    OBVIOUS
  <2>2. Scraper!Request(v9, new) /\ UNCHANGED <<v1, v2, v3, v4, v5>>
    BY <1>4, <2>1 DEF Scraper!handleCancel
  <2>3. \A d \in v9' : ScraperCall(d)
    BY <2>1, <2>2, ScraperRequest
  <2> QED
    BY <2>2, <2>3, ScraperSame
<1>5. CASE Scraper!Poll
  <2>1. PICK new : new = {Scraper!Call("status", 0)}
    OBVIOUS
  <2>2. (Scraper!Request(v9, new) \/ UNCHANGED v9) /\ UNCHANGED <<v1, v2, v3, v4, v5>>
    BY <1>5, <2>1 DEF Scraper!Poll
  <2>3. \A d \in v9' : ScraperCall(d)
    BY <2>1, <2>2, ScraperRequest
  <2> QED
    BY <2>2, <2>3, ScraperSame
<1>6. CASE Scraper!Answered
  <2>1. PICK c \in v9 :
           /\ v5' = IF c.what = "status" /\ c.ok THEN c.got ELSE v5
           /\ Scraper!Request(v9 \ {c}, IF c.what = "cancel"
                                        THEN {Scraper!Call("status", 0)} ELSE {})
    BY <1>6 DEF Scraper!Answered
  <2>2. PICK new, cs : /\ new = IF c.what = "cancel" THEN {Scraper!Call("status", 0)} ELSE {}
                       /\ cs = v9 \ {c}
    OBVIOUS
  <2>3. new \in {{}, {Scraper!Call("status", 0)}} /\ cs \subseteq v9
        /\ Scraper!Request(cs, new)
    BY <2>1, <2>2
  <2>4. \A d \in v9' : ScraperCall(d)
    BY <2>3, ScraperRequest
  <2>5. UNCHANGED <<v1, v2, v3, v4>>
    BY <1>6 DEF Scraper!Answered
  <2>6. ScraperJob(v5) /\ ScraperJob(c.got)
    BY DEF ScraperCall
  <2>7. ScraperJob(v5')
    BY <2>1, <2>6
  <2> QED
    BY <2>4, <2>5, <2>7, ScraperSame
<1>7. CASE Scraper!StartScrape \/ Scraper!CancelScrape \/ Scraper!Advance
  BY <1>7, ScraperStarts, ScraperCancels, ScraperAdvances
<1> QED
  BY <1>1, <1>2, <1>3, <1>4, <1>5, <1>6, <1>7 DEF Scraper!Next

-----------------------------------------------------------------------------
(* The proxy pool: proxies v1, file v2, issued v3, faults v4, rows v5,     *)
(* calls v11, made v12, clean v13.                                         *)

\* A request has its fields.
ProxyCall(c) ==
    /\ c = [no |-> c.no, what |-> c.what, arg |-> c.arg, then |-> c.then, stage |-> c.stage,
            res |-> c.res, ids |-> c.ids, got |-> c.got, live |-> c.live]
    /\ c.stage \in {"sent", "checking", "done"} /\ c.live \in BOOLEAN
    /\ c.stage = "checking" => c.what = "checkAll" \/ (c.what = "check" /\ c.ids = {c.arg})

\* Two requests that are told apart by how far they are at most.
ProxySameCall(c, d) ==
    d.what = c.what /\ d.arg = c.arg /\ d.then = c.then /\ d.ids = c.ids /\ d.no = c.no

ProxyChecked(p) == v4 > 0 \/ \E c \in v11 : c.stage = "checking" /\ p.id \in c.ids

LEMMA ProxyInv ==
    ASSUME Proxy!Inv
    PROVE  /\ Proxy!Types /\ Proxy!Members(v1) /\ Proxy!Members(v2)
           /\ \A c \in v11 : ProxyCall(c)
           /\ \A p \in v1 : p.status = "checking" => ProxyChecked(p)
           /\ v13 \in BOOLEAN /\ v4 \in Nat /\ v3 \in Nat
           /\ v13 => Proxy!Doomed \/ Proxy!Orderly
<1>1. Proxy!Types /\ Proxy!Members(v1) /\ Proxy!Members(v2)
  BY DEF Proxy!Inv
<1>2. v13 \in BOOLEAN /\ v4 \in Nat /\ v3 \in Nat
  BY <1>1 DEF Proxy!Types
<1>3. ASSUME NEW c \in v11 PROVE ProxyCall(c)
  BY <1>1, <1>3 DEF Proxy!Types, ProxyCall
<1>4. \A p \in v1 : p.status = "checking" => ProxyChecked(p)
  BY DEF Proxy!Inv, ProxyChecked
<1>5. v13 => Proxy!Doomed \/ Proxy!Orderly
  BY DEF Proxy!Inv
<1> QED
  BY <1>1, <1>2, <1>3, <1>4, <1>5

LEMMA ProxyBack ==
    ASSUME Proxy!Types, Proxy!Members(v1), Proxy!Members(v2),
           \A p \in v1 : p.status = "checking" => ProxyChecked(p),
           v13 => Proxy!Doomed \/ Proxy!Orderly
    PROVE  Proxy!Inv
BY DEF Proxy!Inv, ProxyChecked

\* An answer: c is done, or gone if nobody waits for it.
ProxyDone(c, d, res, got) ==
    /\ ProxyCall(d) /\ ProxySameCall(c, d)
    /\ d.stage = "done" /\ d.res = res /\ d.got = got /\ d.live = TRUE

LEMMA ProxyAnswer ==
    ASSUME NEW c \in v11, ProxyCall(c), NEW res, NEW got, Proxy!Answer(c, res, got)
    PROVE  /\ ~c.live => v11' = v11 \ {c}
           /\ c.live => \E d : v11' = (v11 \ {c}) \cup {d} /\ ProxyDone(c, d, res, got)
<1>1. CASE ~c.live
  BY <1>1 DEF Proxy!Answer
<1>2. CASE c.live
  <2>1. PICK d : d = [c EXCEPT !.stage = "done", !.res = res, !.got = got]
    OBVIOUS
  <2>2. PICK f1, f2, f3, f4, f5, f6, f7, f8, f9 :
           c = [no |-> f1, what |-> f2, arg |-> f3, then |-> f4, stage |-> f5,
                res |-> f6, ids |-> f7, got |-> f8, live |-> f9]
    BY DEF ProxyCall
  <2>3. d = [no |-> f1, what |-> f2, arg |-> f3, then |-> f4, stage |-> "done",
             res |-> res, ids |-> f7, got |-> got, live |-> f9]
    BY <2>1, <2>2
  <2>4. c.live \in BOOLEAN /\ c.live = f9 /\ f9 = TRUE
    BY <1>2, <2>2 DEF ProxyCall
  <2>5. /\ d = [no |-> d.no, what |-> d.what, arg |-> d.arg, then |-> d.then,
                stage |-> d.stage, res |-> d.res, ids |-> d.ids, got |-> d.got,
                live |-> d.live]
        /\ d.stage = "done" /\ d.res = res /\ d.got = got /\ d.live = TRUE
    BY <2>3, <2>4
  <2>6. ProxySameCall(c, d)
    BY <2>2, <2>3 DEF ProxySameCall
  <2>7. ProxyCall(d)
    BY <2>5 DEF ProxyCall
  <2>8. v11' = (v11 \ {c}) \cup {d}
    BY <1>2, <2>1 DEF Proxy!Answer
  <2>9. ProxyDone(c, d, res, got)
    BY <2>5, <2>6, <2>7 DEF ProxyDone
  <2> QED
    BY <1>2, <2>8, <2>9
<1> QED
  BY <1>1, <1>2

\* What is left of c when the page is through with it.
LEMMA ProxyRest ==
    ASSUME NEW c \in v11, ProxyCall(c)
    PROVE  \/ c.stage = "done" /\ Proxy!Rest(c) = v11 \ {c}
           \/ c.stage # "done" /\ \E d : /\ Proxy!Rest(c) = (v11 \ {c}) \cup {d}
                                         /\ ProxyCall(d) /\ ProxySameCall(c, d)
                                         /\ d.stage = c.stage /\ d.live = FALSE
<1>1. CASE c.stage = "done"
  BY <1>1 DEF Proxy!Rest
<1>2. CASE c.stage # "done"
  <2>1. PICK d : d = [c EXCEPT !.live = FALSE]
    OBVIOUS
  <2>2. PICK f1, f2, f3, f4, f5, f6, f7, f8, f9 :
           c = [no |-> f1, what |-> f2, arg |-> f3, then |-> f4, stage |-> f5,
                res |-> f6, ids |-> f7, got |-> f8, live |-> f9]
    BY DEF ProxyCall
  <2>3. d = [no |-> f1, what |-> f2, arg |-> f3, then |-> f4, stage |-> f5,
             res |-> f6, ids |-> f7, got |-> f8, live |-> FALSE]
    BY <2>1, <2>2
  <2>4. /\ d = [no |-> d.no, what |-> d.what, arg |-> d.arg, then |-> d.then,
                stage |-> d.stage, res |-> d.res, ids |-> d.ids, got |-> d.got,
                live |-> d.live]
        /\ d.stage = c.stage /\ d.live = FALSE /\ d.live \in BOOLEAN
    BY <2>2, <2>3
  <2>5. ProxySameCall(c, d)
    BY <2>2, <2>3 DEF ProxySameCall
  <2>6. ProxyCall(d)
    BY <2>4, <2>5 DEF ProxyCall, ProxySameCall
  <2>7. Proxy!Rest(c) = (v11 \ {c}) \cup {d}
    BY <1>2, <2>1 DEF Proxy!Rest
  <2> QED
    BY <1>2, <2>4, <2>5, <2>6, <2>7
<1> QED
  BY <1>1, <1>2

\* Types and Checked of a step that leaves the pool alone.
LEMMA ProxyPoolSame ==
    ASSUME Proxy!Inv, UNCHANGED <<v1, v2, v3, v4>>, \A c \in v11' : ProxyCall(c),
           v13' \in BOOLEAN,
           \A c \in v11 : c.stage = "checking" =>
               \E d \in v11' : d.stage = "checking" /\ d.ids = c.ids,
           v13' => Proxy!Doomed' \/ Proxy!Orderly'
    PROVE  Proxy!Inv'
<1>1. Proxy!Types'
  BY ProxyInv DEF Proxy!Types, ProxyCall
<1>2. Proxy!Members(v1)' /\ Proxy!Members(v2)'
  BY ProxyInv DEF Proxy!Members
<1>3. ASSUME NEW p \in v1', p.status = "checking" PROVE ProxyChecked(p)'
  <2>1. ProxyChecked(p)
    BY <1>3, ProxyInv
  <2> QED
    BY <2>1 DEF ProxyChecked
<1> QED
  BY <1>1, <1>2, <1>3, ProxyBack DEF Proxy!Inv, ProxyChecked

\* The page hears of c, and may go on with the request n.
LEMMA ProxyHeard ==
    ASSUME Proxy!Inv, UNCHANGED <<v1, v2, v3, v4>>, NEW c \in v11, NEW n, ProxyCall(n),
           v11' = Proxy!Rest(c) \/ v11' = Proxy!Rest(c) \cup {n}, v13' \in BOOLEAN,
           v13' => v13 /\ Proxy!Ok(c) /\ (c.what = "check" => Proxy!Alive(c)),
           v13' /\ Proxy!Orderly => Proxy!Orderly'
    PROVE  Proxy!Inv'
<1>1. ProxyCall(c) /\ \A x \in v11 : ProxyCall(x)
  BY ProxyInv
<1>0. v11 \ {c} \subseteq v11'
  <2>1. v11 \ {c} \subseteq Proxy!Rest(c)
    <3>1. CASE Proxy!Rest(c) = v11 \ {c}
      BY <3>1
    <3>2. ASSUME NEW d, Proxy!Rest(c) = (v11 \ {c}) \cup {d}
          PROVE  v11 \ {c} \subseteq Proxy!Rest(c)
      BY <3>2
    <3> QED
      BY <1>1, <3>1, <3>2, ProxyRest
  <2> QED
    BY <2>1
<1>2. \A x \in v11' : ProxyCall(x)
  BY <1>1, ProxyRest
<1>3. ASSUME NEW x \in v11, x.stage = "checking"
      PROVE  \E d \in v11' : d.stage = "checking" /\ d.ids = x.ids
  <2>1. CASE x # c
    BY <1>0, <1>3, <2>1
  <2>2. CASE x = c
    <3>1. PICK d : Proxy!Rest(c) = (v11 \ {c}) \cup {d} /\ d.stage = c.stage /\ d.ids = c.ids
      BY <1>1, <1>3, <2>2, ProxyRest DEF ProxySameCall
    <3>2. d \in v11'
      BY <3>1
    <3> QED
      BY <1>3, <2>2, <3>1, <3>2
  <2> QED
    BY <2>1, <2>2
<1>4. ASSUME v13', Proxy!Doomed PROVE Proxy!Doomed'
  <2>1. PICK x \in v11 : /\ x.live /\ x.stage = "done"
                         /\ (x.res # "ok" \/ (x.what = "check" /\ ~Proxy!Alive(x)))
    BY <1>4 DEF Proxy!Doomed
  <2>2. x # c
    BY <1>4, <2>1 DEF Proxy!Ok
  <2>3. x \in v11'
    BY <1>0, <2>2
  <2> QED
    BY <2>1, <2>3 DEF Proxy!Doomed, Proxy!Alive
<1>5. v13' => Proxy!Doomed' \/ Proxy!Orderly'
  BY <1>4, ProxyInv
<1> QED
  BY <1>2, <1>3, <1>5, ProxyPoolSame

\* The user asks for n.
LEMMA ProxyAsked ==
    ASSUME Proxy!Inv, UNCHANGED <<v1, v2, v3, v4>>, NEW n, ProxyCall(n),
           v11' = v11 \/ v11' = v11 \cup {n}, v13' \in BOOLEAN, v13' => v13,
           v13' /\ Proxy!Orderly => Proxy!Orderly'
    PROVE  Proxy!Inv'
<1>1. \A x \in v11' : ProxyCall(x)
  BY ProxyInv
<1>2. v11 \subseteq v11'
  OBVIOUS
<1>3. Proxy!Doomed => Proxy!Doomed'
  BY <1>2 DEF Proxy!Doomed, Proxy!Alive
<1>4. v13' => Proxy!Doomed' \/ Proxy!Orderly'
  BY <1>3, ProxyInv
<1> QED
  BY <1>1, <1>2, <1>4, ProxyPoolSame

\* One request is under way, and is heard: nothing else is, or what it leads to.
LEMMA ProxyHeardOnly ==
    ASSUME Proxy!Inv, Proxy!Orderly, UNCHANGED <<v1, v2>>, NEW c \in v11, c.what # "check",
           c.stage = "done", NEW n,
           \/ v11' = Proxy!Rest(c) /\ v5' = Proxy!Rows(v1)
           \/ /\ v11' = Proxy!Rest(c) \cup {n} /\ n.live = TRUE /\ n.stage = "sent"
              /\ n.what \in {"list", "checkAll"} \/ (n.what = "removeDead" /\ v5' = Proxy!Rows(v1))
    PROVE  Proxy!Orderly'
<1>1. v11 = {c} /\ v2 = v1 /\ v2' = v1'
  BY DEF Proxy!Orderly, Proxy!Pending
<1>2. Proxy!Rest(c) = {}
  BY <1>1, ProxyInv, ProxyRest
<1>3. Proxy!Rows(v1)' = Proxy!Rows(v1)
  BY DEF Proxy!Rows
<1>4. CASE v11' = Proxy!Rest(c) /\ v5' = Proxy!Rows(v1)
  BY <1>1, <1>2, <1>3, <1>4 DEF Proxy!Orderly, Proxy!Pending, Proxy!Checks, Proxy!Rows
<1>5. CASE /\ v11' = Proxy!Rest(c) \cup {n} /\ n.live = TRUE /\ n.stage = "sent"
           /\ n.what \in {"list", "checkAll"} \/ (n.what = "removeDead" /\ v5' = Proxy!Rows(v1))
  <2>1. v11' = {n} /\ n.live = TRUE /\ n.what # "check"
    BY <1>2, <1>5
  <2>2. n.what \in {"add", "remove", "removeDead", "removeAll"} => v5' = Proxy!Rows(v1)'
    BY <1>3, <1>5
  <2>3. Proxy!Pending' /\ Proxy!Checks'
    BY <1>5, <2>1, <2>2 DEF Proxy!Pending, Proxy!Checks
  <2> QED
    BY <1>1, <2>1, <2>3 DEF Proxy!Orderly
<1> QED
  BY <1>4, <1>5

LEMMA ProxyListAnswered == ASSUME Proxy!Inv, Proxy!ListAnswered PROVE Proxy!Inv'
<1>1. PICK c \in v11 :
         /\ c.live /\ c.what \in {"list"}
         /\ v5' = IF Proxy!Ok(c) THEN c.got ELSE v5
         /\ \/ \E what \in {"checkAll", "removeDead"} :
                  /\ Proxy!GoesOn(c, what, "none")
                  /\ what = "removeDead" => ~(c.then = "checkAll" /\ ~v10)
            \/ Proxy!Through(c)
  BY DEF Proxy!ListAnswered, Proxy!Heard
<1>2. UNCHANGED <<v1, v2, v3, v4>>
  BY DEF Proxy!ListAnswered, Proxy!pool
<1>3. ASSUME Proxy!Through(c) PROVE Proxy!Inv'
  <2>2. PICK n : ProxyCall(n)
    BY <1>1, ProxyInv
  <2>3. v11' = Proxy!Rest(c) /\ v13' = (v13 /\ Proxy!Ok(c))
    BY <1>3 DEF Proxy!Through
  <2>4. v13' \in BOOLEAN /\ (v13' => v13 /\ Proxy!Ok(c))
    BY <2>3
  <2>5. ASSUME v13', Proxy!Orderly PROVE Proxy!Orderly'
    <3>1. Proxy!Ok(c) /\ c.stage = "done"
      BY <2>4, <2>5 DEF Proxy!Ok
    <3>2. v5' = Proxy!Rows(v1)
      BY <1>1, <2>5, <3>1 DEF Proxy!Orderly, Proxy!Pending
    <3> QED
      BY <1>1, <1>2, <2>3, <2>5, <3>1, <3>2, ProxyHeardOnly
  <2> QED
    BY <1>1, <1>2, <2>2, <2>3, <2>4, <2>5, ProxyHeard
<1>4. ASSUME NEW what \in {"checkAll", "removeDead"}, Proxy!GoesOn(c, what, "none")
      PROVE  Proxy!Inv'
  <2>1. PICK n : n = Proxy!Call(what, 0, "none")
    OBVIOUS
  <2>2. ProxyCall(n) /\ n.what = what /\ n.stage = "sent" /\ n.live = TRUE
    BY <2>1 DEF Proxy!Call, ProxyCall
  <2>3. /\ v11' = Proxy!Rest(c) \cup {n}
        /\ v13' = (v13 /\ Proxy!Ok(c) /\ Proxy!Alone(Proxy!Rest(c), what))
    BY <1>4, <2>1 DEF Proxy!GoesOn, Proxy!Request
  <2>4. v13' \in BOOLEAN /\ (v13' => v13 /\ Proxy!Ok(c))
    BY <2>3
  <2>5. ASSUME v13', Proxy!Orderly PROVE Proxy!Orderly'
    <3>1. Proxy!Ok(c) /\ c.stage = "done"
      BY <2>4, <2>5 DEF Proxy!Ok
    <3>2. v5' = Proxy!Rows(v1)
      BY <1>1, <2>5, <3>1 DEF Proxy!Orderly, Proxy!Pending
    <3> QED
      BY <1>1, <1>2, <2>2, <2>3, <2>5, <3>1, <3>2, ProxyHeardOnly
  <2> QED
    BY <1>1, <1>2, <2>2, <2>3, <2>4, <2>5, ProxyHeard
<1> QED
  BY <1>1, <1>3, <1>4

LEMMA ProxyChangeAnswered == ASSUME Proxy!Inv, Proxy!ChangeAnswered PROVE Proxy!Inv'
<1>1. PICK c \in v11 :
         /\ c.live /\ c.what \in {"add", "remove", "removeDead", "removeAll"}
         /\ v5' = IF Proxy!Ok(c) THEN Proxy!Changed(c) ELSE v5
         /\ Proxy!Through(c)
  BY DEF Proxy!ChangeAnswered, Proxy!Heard
<1>2. UNCHANGED <<v1, v2, v3, v4>>
  BY DEF Proxy!ChangeAnswered, Proxy!pool
<1>3. ProxyCall(c)
  BY ProxyInv
<1>4. v11' = Proxy!Rest(c) /\ v13' = (v13 /\ Proxy!Ok(c))
  BY <1>1 DEF Proxy!Through
<1>5. v13' \in BOOLEAN /\ (v13' => v13 /\ Proxy!Ok(c))
  BY <1>4
<1>6. ASSUME v13', Proxy!Orderly PROVE Proxy!Orderly'
  <2>1. Proxy!Ok(c) /\ c.stage = "done"
    BY <1>5, <1>6 DEF Proxy!Ok
  <2>2. v5' = Proxy!Rows(v1)
    BY <1>1, <1>6, <2>1 DEF Proxy!Orderly, Proxy!Pending
  <2> QED
    BY <1>1, <1>2, <1>4, <1>6, <2>1, <2>2, ProxyHeardOnly
<1> QED
  BY <1>1, <1>2, <1>3, <1>4, <1>5, <1>6, ProxyHeard

LEMMA ProxyBatchAnswered == ASSUME Proxy!Inv, Proxy!BatchAnswered PROVE Proxy!Inv'
<1>1. PICK c \in v11 :
         /\ c.live /\ c.what \in {"batch"}
         /\ IF Proxy!Ok(c) THEN Proxy!GoesOn(c, "list", "batch") ELSE Proxy!Through(c)
  BY DEF Proxy!BatchAnswered, Proxy!Heard
<1>2. UNCHANGED <<v1, v2, v3, v4>>
  BY DEF Proxy!BatchAnswered, Proxy!pool
<1>3. PICK n : n = Proxy!Call("list", 0, "batch")
  OBVIOUS
<1>4. ProxyCall(n) /\ n.what = "list" /\ n.stage = "sent" /\ n.live = TRUE
  BY <1>3 DEF Proxy!Call, ProxyCall
<1>5. CASE ~Proxy!Ok(c)
  <2>1. v11' = Proxy!Rest(c) /\ ~v13' /\ v13' \in BOOLEAN
    BY <1>1, <1>5 DEF Proxy!Through
  <2> QED
    BY <1>2, <1>4, <2>1, ProxyHeard
<1>6. CASE Proxy!Ok(c)
  <2>1. /\ v11' = Proxy!Rest(c) \cup {n}
        /\ v13' = (v13 /\ Proxy!Ok(c) /\ Proxy!Alone(Proxy!Rest(c), "list"))
    BY <1>1, <1>3, <1>6 DEF Proxy!GoesOn, Proxy!Request
  <2>2. v13' \in BOOLEAN /\ (v13' => v13 /\ Proxy!Ok(c))
    BY <2>1
  <2>3. ASSUME v13', Proxy!Orderly PROVE Proxy!Orderly'
    <3>1. c.stage = "done" /\ c.what # "check"
      BY <1>1, <1>6 DEF Proxy!Ok
    <3> QED
      BY <1>2, <1>4, <2>1, <2>3, <3>1, ProxyHeardOnly
  <2> QED
    BY <1>1, <1>2, <1>4, <2>1, <2>2, <2>3, ProxyHeard
<1> QED
  BY <1>5, <1>6

LEMMA ProxyCheckAllAnswered == ASSUME Proxy!Inv, Proxy!CheckAllAnswered PROVE Proxy!Inv'
<1>1. PICK c \in v11 :
         /\ c.live /\ c.what \in {"checkAll"}
         /\ v5' = IF Proxy!Ok(c) THEN c.got ELSE v5
         /\ \/ \E what \in {"list", "removeDead"}, then \in {c.then, "none"} :
                  Proxy!GoesOn(c, what, then)
            \/ Proxy!Through(c)
  BY DEF Proxy!CheckAllAnswered, Proxy!Heard
<1>2. UNCHANGED <<v1, v2, v3, v4>>
  BY DEF Proxy!CheckAllAnswered, Proxy!pool
<1>3. ASSUME v13' => Proxy!Ok(c), v13', Proxy!Orderly
      PROVE  c.stage = "done" /\ v5' = Proxy!Rows(v1)
  BY <1>1, <1>3 DEF Proxy!Ok, Proxy!Orderly, Proxy!Pending
<1>4. ASSUME Proxy!Through(c) PROVE Proxy!Inv'
  <2>1. ProxyCall(c)
    BY ProxyInv
  <2>2. v11' = Proxy!Rest(c) /\ v13' = (v13 /\ Proxy!Ok(c))
    BY <1>4 DEF Proxy!Through
  <2>3. v13' \in BOOLEAN /\ (v13' => v13 /\ Proxy!Ok(c))
    BY <2>2
  <2>4. ASSUME v13', Proxy!Orderly PROVE Proxy!Orderly'
    <3>1. c.stage = "done" /\ v5' = Proxy!Rows(v1)
      BY <1>3, <2>3, <2>4
    <3> QED
      BY <1>1, <1>2, <2>2, <2>4, <3>1, ProxyHeardOnly
  <2> QED
    BY <1>1, <1>2, <2>1, <2>2, <2>3, <2>4, ProxyHeard
<1>5. ASSUME NEW what \in {"list", "removeDead"}, NEW then \in {c.then, "none"},
             Proxy!GoesOn(c, what, then)
      PROVE  Proxy!Inv'
  <2>1. PICK n : n = Proxy!Call(what, 0, then)
    OBVIOUS
  <2>2. ProxyCall(n) /\ n.what = what /\ n.stage = "sent" /\ n.live = TRUE
    BY <2>1 DEF Proxy!Call, ProxyCall
  <2>3. /\ v11' = Proxy!Rest(c) \cup {n}
        /\ v13' = (v13 /\ Proxy!Ok(c) /\ Proxy!Alone(Proxy!Rest(c), what))
    BY <1>5, <2>1 DEF Proxy!GoesOn, Proxy!Request
  <2>4. v13' \in BOOLEAN /\ (v13' => v13 /\ Proxy!Ok(c))
    BY <2>3
  <2>5. ASSUME v13', Proxy!Orderly PROVE Proxy!Orderly'
    <3>1. c.stage = "done" /\ v5' = Proxy!Rows(v1)
      BY <1>3, <2>4, <2>5
    <3> QED
      BY <1>1, <1>2, <2>2, <2>3, <2>5, <3>1, ProxyHeardOnly
  <2> QED
    BY <1>1, <1>2, <2>2, <2>3, <2>4, <2>5, ProxyHeard
<1> QED
  BY <1>1, <1>4, <1>5

\* The row of p while the checks cs are under way.
ProxyRow(p, cs) == IF \E c \in cs : c.arg = p.id THEN [id |-> p.id, status |-> "checking"]
                   ELSE Proxy!Row(p)

LEMMA ProxyRowIs ==
    ASSUME NEW p, NEW cs
    PROVE  /\ ProxyRow(p, cs).id = p.id
           /\ (\E c \in cs : c.arg = p.id) =>
                 ProxyRow(p, cs) = [id |-> p.id, status |-> "checking"]
           /\ (\A c \in cs : c.arg # p.id) =>
                 ProxyRow(p, cs) = [id |-> p.id, status |-> p.status]
BY DEF ProxyRow, Proxy!Row

LEMMA ProxyChecks ==
    ASSUME Proxy!Orderly, \A c \in v11 : c.what = "check"
    PROVE  /\ v2 = v1 /\ \A c \in v11 : c.live
           /\ \A c, d \in v11 : c.arg = d.arg => c = d
           /\ v5 = {ProxyRow(p, v11) : p \in v1}
           /\ \A c \in v11 : c.stage = "done" => \A p \in v1 : p.id = c.arg => p.status = "active"
BY DEF Proxy!Orderly, Proxy!Checks, ProxyRow

LEMMA ProxyCheckAnswered == ASSUME Proxy!Inv, Proxy!CheckAnswered PROVE Proxy!Inv'
<1>1. PICK c \in v11 :
         /\ c.live /\ c.what \in {"check"}
         /\ v5' = Proxy!Restatus(v5, c.arg, IF Proxy!Ok(c)
                                          THEN IF Proxy!Alive(c) THEN "active" ELSE "dead"
                                          ELSE "dead")
         /\ v13' = (v13 /\ Proxy!Ok(c) /\ (IF Proxy!Alive(c) THEN "active" ELSE "dead") = "active")
         /\ v11' = Proxy!Rest(c)
  BY DEF Proxy!CheckAnswered, Proxy!Heard
<1>2. UNCHANGED <<v1, v2, v3, v4>>
  BY DEF Proxy!CheckAnswered, Proxy!pool
<1>3. ProxyCall(c)
  BY ProxyInv
<1>4. v13' \in BOOLEAN /\ (v13' => v13 /\ Proxy!Ok(c) /\ Proxy!Alive(c))
  BY <1>1
<1>5. ASSUME v13', Proxy!Orderly PROVE Proxy!Orderly'
  <2>1. c.stage = "done" /\ Proxy!Ok(c) /\ Proxy!Alive(c)
    BY <1>4, <1>5 DEF Proxy!Ok
  <2>2. \A d \in v11 : d.what = "check"
    BY <1>1, <1>5 DEF Proxy!Orderly, Proxy!Pending
  <2>3. /\ v2 = v1 /\ \A d \in v11 : d.live
        /\ \A d, e \in v11 : d.arg = e.arg => d = e
        /\ v5 = {ProxyRow(p, v11) : p \in v1}
        /\ \A d \in v11 : d.stage = "done" => \A p \in v1 : p.id = d.arg => p.status = "active"
    BY <1>5, <2>2, ProxyChecks
  <2>4. v11' = v11 \ {c}
    BY <1>1, <1>3, <2>1, ProxyRest
  <2>5. v5' = {IF r.id = c.arg THEN [r EXCEPT !.status = "active"] ELSE r : r \in v5}
    BY <1>1, <2>1 DEF Proxy!Restatus
  <2>6. ASSUME NEW p \in v1, NEW r, r = ProxyRow(p, v11)
        PROVE  ProxyRow(p, v11') = IF r.id = c.arg THEN [r EXCEPT !.status = "active"] ELSE r
    <3>1. CASE p.id = c.arg
      <4>1. \A d \in v11' : d.arg # p.id
        BY <2>3, <2>4, <3>1
      <4>2. p.status = "active"
        BY <2>1, <2>3, <3>1
      <4>3. ProxyRow(p, v11') = [id |-> p.id, status |-> "active"]
        BY <4>1, <4>2, ProxyRowIs
      <4>4. r = [id |-> p.id, status |-> "checking"]
        BY <2>6, <3>1, ProxyRowIs
      <4> QED
        BY <3>1, <4>3, <4>4
    <3>2. CASE p.id # c.arg
      <4>1. (\E d \in v11' : d.arg = p.id) <=> (\E d \in v11 : d.arg = p.id)
        BY <2>4, <3>2
      <4>2. ProxyRow(p, v11') = r
        BY <2>6, <4>1 DEF ProxyRow
      <4>3. r.id = p.id
        BY <2>6, ProxyRowIs
      <4> QED
        BY <3>2, <4>2, <4>3
    <3> QED
      BY <3>1, <3>2
  <2>7. v5' = {ProxyRow(p, v11') : p \in v1}
    BY <2>3, <2>5, <2>6
  <2>8. Proxy!Checks'
    BY <1>2, <2>3, <2>4, <2>7 DEF Proxy!Checks, ProxyRow
  <2> QED
    BY <1>2, <2>2, <2>3, <2>4, <2>8 DEF Proxy!Orderly, Proxy!Pending
<1> QED
  BY <1>1, <1>2, <1>3, <1>4, <1>5, ProxyHeard

LEMMA ProxyAskOnly ==
    ASSUME Proxy!Inv, UNCHANGED <<v1, v2, v3, v4>>, NEW what, NEW arg, NEW then,
           Proxy!Ask(what, arg, then),
           what \in {"list", "checkAll"} \/
              (what \in {"batch", "add", "remove", "removeDead", "removeAll"} /\ v5' = v5)
    PROVE  Proxy!Inv'
<1>1. PICK n : n = Proxy!Call(what, arg, then)
  OBVIOUS
<1>2. ProxyCall(n) /\ n.what = what /\ n.stage = "sent" /\ n.live = TRUE
  BY <1>1 DEF Proxy!Call, ProxyCall
<1>3. /\ v11' = v11 \cup {n}
      /\ v13' = (v13 /\ Proxy!Alone(v11, what))
  BY <1>1 DEF Proxy!Ask, Proxy!Request
<1>4. v13' \in BOOLEAN /\ (v13' => v13)
  BY <1>3
<1>5. ASSUME v13', Proxy!Orderly PROVE Proxy!Orderly'
  <2>1. what # "check"
    OBVIOUS
  <2>2. v11 = {}
    BY <1>3, <1>5, <2>1 DEF Proxy!Alone
  <2>3. v5 = Proxy!Rows(v1) /\ v2 = v1
    BY <1>5, <2>2 DEF Proxy!Orderly, Proxy!Checks, Proxy!Rows
  <2>4. v11' = {n} /\ n.what # "check"
    BY <1>2, <1>3, <2>1, <2>2
  <2>5. Proxy!Rows(v1)' = Proxy!Rows(v1)
    BY DEF Proxy!Rows
  <2>6. n.what \in {"add", "remove", "removeDead", "removeAll"} => v5' = Proxy!Rows(v1)'
    BY <1>2, <2>3, <2>5
  <2>7. Proxy!Pending' /\ Proxy!Checks'
    BY <1>2, <2>4, <2>6 DEF Proxy!Pending, Proxy!Checks
  <2> QED
    BY <1>2, <2>3, <2>4, <2>7 DEF Proxy!Orderly
<1> QED
  BY <1>2, <1>3, <1>4, <1>5, ProxyAsked

LEMMA ProxyCheckOne == ASSUME Proxy!Inv, Proxy!checkOne PROVE Proxy!Inv'
<1>1. PICK r \in v5 : /\ r.status # "checking"
                      /\ v5' = Proxy!Restatus(v5, r.id, "checking")
                      /\ Proxy!Ask("check", r.id, "none")
  BY DEF Proxy!checkOne
<1>2. UNCHANGED <<v1, v2, v3, v4>>
  BY DEF Proxy!checkOne, Proxy!pool
<1>3. PICK n : n = Proxy!Call("check", r.id, "none")
  OBVIOUS
<1>4. ProxyCall(n) /\ n.what = "check" /\ n.stage = "sent" /\ n.live = TRUE /\ n.arg = r.id
  BY <1>3 DEF Proxy!Call, ProxyCall
<1>5. /\ v11' = v11 \cup {n}
      /\ v13' = (v13 /\ Proxy!Alone(v11, "check"))
  BY <1>1, <1>3 DEF Proxy!Ask, Proxy!Request
<1>6. v13' \in BOOLEAN /\ (v13' => v13)
  BY <1>5
<1>7. ASSUME v13', Proxy!Orderly PROVE Proxy!Orderly'
  <2>1. \A d \in v11 : d.what = "check"
    BY <1>5, <1>7 DEF Proxy!Alone
  <2>2. /\ v2 = v1 /\ \A d \in v11 : d.live
        /\ \A d, e \in v11 : d.arg = e.arg => d = e
        /\ v5 = {ProxyRow(p, v11) : p \in v1}
        /\ \A d \in v11 : d.stage = "done" => \A p \in v1 : p.id = d.arg => p.status = "active"
    BY <1>7, <2>1, ProxyChecks
  <2>3. PICK m \in v1 : r = ProxyRow(m, v11)
    BY <2>2
  <2>4. m.id = r.id
    BY <2>3, ProxyRowIs
  <2>5. \A d \in v11 : d.arg # r.id
    <3>1. ASSUME NEW d \in v11, d.arg = m.id PROVE FALSE
      <4>1. r = [id |-> m.id, status |-> "checking"]
        BY <2>3, <3>1, ProxyRowIs
      <4> QED
        BY <1>1, <4>1
    <3> QED
      BY <2>4, <3>1
  <2>6. v5' = {IF x.id = r.id THEN [x EXCEPT !.status = "checking"] ELSE x : x \in v5}
    BY <1>1 DEF Proxy!Restatus
  <2>7. ASSUME NEW p \in v1, NEW x, x = ProxyRow(p, v11)
        PROVE  ProxyRow(p, v11') = IF x.id = r.id THEN [x EXCEPT !.status = "checking"] ELSE x
    <3>1. CASE p.id = r.id
      <4>1. \E d \in v11' : d.arg = p.id
        BY <1>4, <1>5, <3>1
      <4>2. ProxyRow(p, v11') = [id |-> p.id, status |-> "checking"]
        BY <4>1, ProxyRowIs
      <4>3. x = [id |-> p.id, status |-> p.status]
        BY <2>5, <2>7, <3>1, ProxyRowIs
      <4> QED
        BY <3>1, <4>2, <4>3
    <3>2. CASE p.id # r.id
      <4>1. (\E d \in v11' : d.arg = p.id) <=> (\E d \in v11 : d.arg = p.id)
        BY <1>4, <1>5, <3>2
      <4>2. ProxyRow(p, v11') = x
        BY <2>7, <4>1 DEF ProxyRow
      <4>3. x.id = p.id
        BY <2>7, ProxyRowIs
      <4> QED
        BY <3>2, <4>2, <4>3
    <3> QED
      BY <3>1, <3>2
  <2>8. v5' = {ProxyRow(p, v11') : p \in v1}
    BY <2>2, <2>6, <2>7
  <2>9. \A d, e \in v11' : d.arg = e.arg => d = e
    BY <1>4, <1>5, <2>2, <2>5
  <2>10. \A d \in v11' : d.stage = "done" => \A p \in v1 : p.id = d.arg => p.status = "active"
    BY <1>4, <1>5, <2>2
  <2>11. Proxy!Checks'
    BY <1>2, <2>8, <2>9, <2>10 DEF Proxy!Checks, ProxyRow
  <2> QED
    BY <1>2, <1>4, <1>5, <2>1, <2>2, <2>11 DEF Proxy!Orderly, Proxy!Pending
<1> QED
  BY <1>2, <1>4, <1>5, <1>6, <1>7, ProxyAsked

LEMMA ProxySame == ASSUME Proxy!Inv, UNCHANGED <<v1, v2, v3, v4, v5, v11, v13>> PROVE Proxy!Inv'
BY DEF Proxy!Inv, Proxy!Types, Proxy!Members, Proxy!Doomed, Proxy!Alive, Proxy!Orderly,
       Proxy!Pending, Proxy!Checks, Proxy!Rows, Proxy!Row, Proxy!Changed, Proxy!Dead

LEMMA ProxyAsks ==
    ASSUME Proxy!Inv,
           Proxy!handleAddSingle \/ Proxy!handleBatchAdd \/ Proxy!handleRemove
              \/ Proxy!handleCheckAll \/ Proxy!Tick \/ Proxy!Toggle
    PROVE  Proxy!Inv'
<1> USE DEF Proxy!pool
<1>1. CASE Proxy!handleAddSingle
  BY <1>1, ProxyAskOnly DEF Proxy!handleAddSingle
<1>2. CASE Proxy!handleBatchAdd
  BY <1>2, ProxyAskOnly DEF Proxy!handleBatchAdd
<1>3. CASE Proxy!handleRemove
  <2>1. \E what \in {"remove", "removeDead", "removeAll"} : \E arg : Proxy!Ask(what, arg, "none")
    BY <1>3 DEF Proxy!handleRemove
  <2>2. UNCHANGED <<v1, v2, v3, v4, v5>>
    BY <1>3 DEF Proxy!handleRemove
  <2> QED
    BY <2>1, <2>2, ProxyAskOnly
<1>4. CASE Proxy!handleCheckAll \/ Proxy!Tick
  <2>1. \E then : Proxy!Ask("checkAll", 0, then)
    BY <1>4 DEF Proxy!handleCheckAll, Proxy!Tick, Proxy!checkAll
  <2>2. UNCHANGED <<v1, v2, v3, v4>>
    BY <1>4 DEF Proxy!handleCheckAll, Proxy!Tick, Proxy!checkAll
  <2> QED
    BY <2>1, <2>2, ProxyAskOnly
<1>5. CASE Proxy!Toggle
  <2>1. UNCHANGED <<v1, v2, v3, v4, v5>>
    BY <1>5 DEF Proxy!Toggle
  <2>2. CASE UNCHANGED <<v11, v13>>
    BY <2>1, <2>2, ProxySame
  <2>3. ASSUME NEW then, Proxy!Ask("list", 0, then) PROVE Proxy!Inv'
    BY <2>1, <2>3, ProxyAskOnly
  <2> QED
    BY <1>5, <2>2, <2>3 DEF Proxy!Toggle
<1> QED
  BY <1>1, <1>2, <1>3, <1>4, <1>5

\* The members of the pool.
ProxyEntry(p, n) ==
    /\ p = [id |-> p.id, url |-> p.url, status |-> p.status, failCount |-> p.failCount]
    /\ p.id \in Nat /\ p.id <= n /\ p.failCount \in Nat
    /\ p.status \in {"active", "checking", "dead"}
ProxyMembers(ps) ==
    /\ \A p, q \in ps : p.url = q.url \/ p.id = q.id => p = q
    /\ \A p \in ps : p.status # "checking" => (p.status = "dead" <=> p.failCount >= MaxFailCount)
ProxyPool(ps, n) == ProxyMembers(ps) /\ \A p \in ps : ProxyEntry(p, n)

LEMMA ProxyPools == ASSUME Proxy!Inv PROVE ProxyPool(v1, v3) /\ ProxyPool(v2, v3)
<1>1. \A p \in v1 \cup v2 : ProxyEntry(p, v3)
  BY ProxyInv DEF Proxy!Types, ProxyEntry
<1>2. ProxyMembers(v1) /\ ProxyMembers(v2)
  BY ProxyInv DEF Proxy!Members, ProxyMembers
<1> QED
  BY <1>1, <1>2 DEF ProxyPool

\* The server takes c a step further.
LEMMA ProxyServed ==
    ASSUME Proxy!Inv, NEW c \in v11, c.stage # "done", UNCHANGED v13,
           v11 \ {c} \subseteq v11', \A x \in v11' : ProxyCall(x), v3' \in Nat, v4' \in Nat,
           ProxyPool(v1', v3'), ProxyPool(v2', v3'),
           \A p \in v1' : p.status = "checking" => ProxyChecked(p)',
           v13 /\ Proxy!Orderly => Proxy!Doomed' \/ Proxy!Orderly'
    PROVE  Proxy!Inv'
<1>1. Proxy!Types'
  <2>1. v13' \in BOOLEAN
    BY ProxyInv
  <2>2. \A p \in v1' \cup v2' : ProxyEntry(p, v3')
    BY DEF ProxyPool
  <2> QED
    BY <2>1, <2>2 DEF Proxy!Types, ProxyCall, ProxyEntry
<1>2. Proxy!Members(v1)' /\ Proxy!Members(v2)'
  BY DEF Proxy!Members, ProxyMembers, ProxyPool
<1>3. Proxy!Doomed => Proxy!Doomed'
  BY DEF Proxy!Doomed, Proxy!Alive
<1>4. v13' => Proxy!Doomed' \/ Proxy!Orderly'
  BY <1>3, ProxyInv
<1> QED
  BY <1>1, <1>2, <1>4 DEF Proxy!Inv, ProxyChecked

\* The answer to c, if it goes wrong or by itself brings the page in line.
LEMMA ProxyAnswered ==
    ASSUME Proxy!Inv, NEW c \in v11, c.stage # "done", NEW res, NEW got,
           Proxy!Answer(c, res, got), UNCHANGED v13,
           v3' \in Nat, v4' \in Nat, v4 <= v4', ProxyPool(v1', v3'), ProxyPool(v2', v3'),
           \A p \in v1' : p.status = "checking" =>
               v4' > 0 \/ \E d \in v11 \ {c} : d.stage = "checking" /\ p.id \in d.ids,
           \A d : /\ v13 /\ Proxy!Orderly /\ c.live /\ res = "ok"
                  /\ v11' = (v11 \ {c}) \cup {d} /\ ProxyDone(c, d, "ok", got)
                  => Proxy!Doomed' \/ Proxy!Orderly'
    PROVE  Proxy!Inv'
<1>1. ProxyCall(c) /\ \A x \in v11 : ProxyCall(x)
  BY ProxyInv
<1>0. /\ ~c.live => v11' = v11 \ {c}
      /\ c.live => \E d : v11' = (v11 \ {c}) \cup {d} /\ ProxyDone(c, d, res, got)
  BY <1>1, ProxyAnswer
<1>2. \A x \in v11' : ProxyCall(x)
  BY <1>0, <1>1 DEF ProxyDone, ProxyCall
<1>3. v11 \ {c} \subseteq v11'
  BY DEF Proxy!Answer
<1>4. \A p \in v1' : p.status = "checking" => ProxyChecked(p)'
  BY <1>3 DEF ProxyChecked
<1>5. ASSUME v13, Proxy!Orderly PROVE Proxy!Doomed' \/ Proxy!Orderly'
  <2>1. c.live
    BY <1>5 DEF Proxy!Orderly
  <2>2. PICK d : v11' = (v11 \ {c}) \cup {d} /\ ProxyDone(c, d, res, got)
    BY <1>0, <2>1
  <2>3. CASE res # "ok"
    BY <2>2, <2>3 DEF Proxy!Doomed, ProxyDone
  <2>4. CASE res = "ok"
    BY <1>5, <2>1, <2>2, <2>4
  <2> QED
    BY <2>3, <2>4
<1> QED
  BY <1>2, <1>3, <1>4, <1>5, ProxyServed

LEMMA ProxySaved ==
    ASSUME Proxy!Inv, NEW c \in v11, c.stage # "done", NEW ps, NEW got,
           Proxy!Save(c, ps, got), UNCHANGED v13,
           v3' \in Nat, v3 <= v3', ProxyPool(ps, v3'),
           \A p \in ps : p.status = "checking" =>
               v4 > 0 \/ \E d \in v11 \ {c} : d.stage = "checking" /\ p.id \in d.ids,
           \A d : /\ v13 /\ Proxy!Orderly /\ c.live /\ v1' = ps /\ v2' = ps
                  /\ v11' = (v11 \ {c}) \cup {d} /\ ProxyDone(c, d, "ok", got)
                  => Proxy!Doomed' \/ Proxy!Orderly'
    PROVE  Proxy!Inv'
<1>1. v4 \in Nat /\ v3 \in Nat /\ ProxyPool(v2, v3)
  BY ProxyInv, ProxyPools
<1>2. ProxyPool(v2, v3')
  <2>1. ASSUME NEW p \in v2 PROVE ProxyEntry(p, v3')
    BY <1>1, <2>1 DEF ProxyPool, ProxyEntry
  <2> QED
    BY <1>1, <2>1 DEF ProxyPool
<1>3. v1' = ps
  BY DEF Proxy!Save
<1>4. CASE v2' = ps /\ Proxy!Answer(c, "ok", got) /\ UNCHANGED v4
  <2>1. v4' \in Nat /\ v4 <= v4'
    BY <1>1, <1>4
  <2>2. ProxyPool(v1', v3') /\ ProxyPool(v2', v3')
    BY <1>3, <1>4
  <2>3. \A p \in v1' : p.status = "checking" =>
            v4' > 0 \/ \E d \in v11 \ {c} : d.stage = "checking" /\ p.id \in d.ids
    BY <1>3, <1>4
  <2>4. Proxy!Answer(c, "ok", got)
    BY <1>4
  <2>5. \A d : /\ v13 /\ Proxy!Orderly /\ c.live /\ "ok" = "ok"
                /\ v11' = (v11 \ {c}) \cup {d} /\ ProxyDone(c, d, "ok", got)
                => Proxy!Doomed' \/ Proxy!Orderly'
    BY <1>3, <1>4
  <2> QED
    BY <2>1, <2>2, <2>3, <2>4, <2>5, ProxyAnswered
<1>5. CASE v4' = v4 + 1 /\ Proxy!Answer(c, "error", {}) /\ UNCHANGED v2
  <2>1. v4' \in Nat /\ v4 <= v4' /\ v4' > 0
    BY <1>1, <1>5
  <2>2. ProxyPool(v1', v3') /\ ProxyPool(v2', v3')
    BY <1>2, <1>3, <1>5
  <2>3. \A p \in v1' : p.status = "checking" =>
            v4' > 0 \/ \E d \in v11 \ {c} : d.stage = "checking" /\ p.id \in d.ids
    BY <2>1
  <2>4. Proxy!Answer(c, "error", {})
    BY <1>5
  <2> QED
    BY <2>1, <2>2, <2>3, <2>4, ProxyAnswered
<1> QED
  BY <1>4, <1>5 DEF Proxy!Save

\* The only request that is under way, when it is done.
LEMMA ProxyOnlyDone ==
    ASSUME v2' = v1', NEW c \in v11, v11 = {c}, NEW d, NEW got,
           v11' = (v11 \ {c}) \cup {d}, ProxyDone(c, d, "ok", got), c.what # "check",
           c.what \in {"list", "checkAll"} => got = Proxy!Rows(v1'),
           c.what \in {"add", "remove", "removeDead", "removeAll"} =>
               Proxy!Changed(d)' = Proxy!Rows(v1')
    PROVE  Proxy!Orderly'
<1>1. v11' = {d} /\ d.what = c.what
  BY DEF ProxySameCall, ProxyDone
<1>2. Proxy!Pending'
  <2>1. Proxy!Rows(v1)' = Proxy!Rows(v1')
    BY DEF Proxy!Rows
  <2> QED
    BY <1>1, <2>1 DEF Proxy!Pending, Proxy!Changed, ProxyDone
<1> QED
  BY <1>1, <1>2 DEF Proxy!Orderly, Proxy!Checks, ProxyDone

LEMMA ProxyAssumed == MaxFailCount \in Nat \ {0}
BY SetupAssumption DEF Proxy!ProxyPageAssumption

\* A request other than a check comes to the server.
LEMMA ProxySent ==
    ASSUME Proxy!Inv, NEW c \in v11, c.stage = "sent"
    PROVE  /\ \A p \in v1 : p.status = "checking" =>
                v4 > 0 \/ \E d \in v11 \ {c} : d.stage = "checking" /\ p.id \in d.ids
           /\ Proxy!Orderly /\ c.what # "check" =>
                /\ v11 = {c} /\ v2 = v1
                /\ c.what \in {"add", "remove", "removeDead", "removeAll"} => v5 = Proxy!Rows(v1)
<1>1. \A p \in v1 : p.status = "checking" => ProxyChecked(p)
  BY ProxyInv
<1>2. \A p \in v1 : p.status = "checking" =>
        v4 > 0 \/ \E d \in v11 \ {c} : d.stage = "checking" /\ p.id \in d.ids
  BY <1>1 DEF ProxyChecked
<1> QED
  BY <1>2 DEF Proxy!Orderly, Proxy!Pending

LEMMA ProxyAdded ==
    ASSUME ProxyPool(v1, v3), v3 \in Nat, NEW u, \A p \in v1 : p.url # u
    PROVE  ProxyPool(v1 \cup {Proxy!Entry(v3 + 1, u)}, v3 + 1)
<1>1. PICK e : e = Proxy!Entry(v3 + 1, u)
  OBVIOUS
<1>2. /\ e = [id |-> e.id, url |-> e.url, status |-> e.status, failCount |-> e.failCount]
      /\ e.id = v3 + 1 /\ e.url = u /\ e.status = "active" /\ e.failCount = 0
  BY <1>1 DEF Proxy!Entry
<1>3. ProxyEntry(e, v3 + 1)
  BY <1>2 DEF ProxyEntry
<1>4. ASSUME NEW p \in v1 PROVE ProxyEntry(p, v3 + 1) /\ p.id # e.id
  BY <1>2, <1>4 DEF ProxyPool, ProxyEntry
<1>5. ProxyMembers(v1 \cup {e})
  BY <1>2, <1>4, ProxyAssumed DEF ProxyPool, ProxyMembers
<1> QED
  BY <1>1, <1>3, <1>4, <1>5 DEF ProxyPool

LEMMA ProxyListServed == ASSUME Proxy!Inv, Proxy!ListServed PROVE Proxy!Inv'
<1>1. PICK c \in v11 :
         /\ c.what = "list" /\ c.stage = "sent"
         /\ Proxy!Answer(c, "ok", Proxy!Rows(v1)) \/ Proxy!Answer(c, "error", {})
  BY DEF Proxy!ListServed, Proxy!Served
<1>2. UNCHANGED <<v1, v2, v3, v4, v5, v13>>
  BY DEF Proxy!ListServed, Proxy!pool, Proxy!view
<1>3. /\ v3' \in Nat /\ v4' \in Nat /\ v4 <= v4' /\ ProxyPool(v1', v3') /\ ProxyPool(v2', v3')
      /\ \A p \in v1' : p.status = "checking" =>
           v4' > 0 \/ \E d \in v11 \ {c} : d.stage = "checking" /\ p.id \in d.ids
  BY <1>1, <1>2, ProxyInv, ProxyPools, ProxySent
<1>4. PICK got : got = Proxy!Rows(v1)
  OBVIOUS
<1>5. CASE Proxy!Answer(c, "ok", got)
  <2>1. ASSUME NEW d, Proxy!Orderly, v11' = (v11 \ {c}) \cup {d}, ProxyDone(c, d, "ok", got)
        PROVE  Proxy!Orderly'
    <3>1. v11 = {c} /\ v2' = v1' /\ got = Proxy!Rows(v1')
      BY <1>1, <1>2, <1>4, <2>1, ProxySent
    <3> QED
      BY <1>1, <2>1, <3>1, ProxyOnlyDone
  <2> QED
    BY <1>1, <1>2, <1>3, <1>5, <2>1, ProxyAnswered
<1>6. CASE Proxy!Answer(c, "error", {})
  BY <1>1, <1>2, <1>3, <1>6, ProxyAnswered
<1> QED
  BY <1>1, <1>4, <1>5, <1>6

LEMMA ProxyAddProxy == ASSUME Proxy!Inv, Proxy!AddProxy PROVE Proxy!Inv'
<1>1. PICK c \in v11 :
         /\ c.what = "add" /\ c.stage = "sent"
         /\ \/ \E p \in v1 : /\ Proxy!Answer(c, "ok", {Proxy!Row(p)})
                             /\ UNCHANGED <<v1, v2, v3, v4>>
            \/ /\ \A p \in v1 : p.url # c.arg
               /\ v3' = v3 + 1
               /\ Proxy!Save(c, v1 \cup {Proxy!Entry(v3 + 1, c.arg)},
                             {Proxy!Row(Proxy!Entry(v3 + 1, c.arg))})
  BY DEF Proxy!AddProxy, Proxy!Served, Proxy!pool
<1>2. UNCHANGED <<v5, v13>>
  BY DEF Proxy!AddProxy, Proxy!view
<1>3. v3 \in Nat /\ v4 \in Nat /\ ProxyPool(v1, v3) /\ ProxyPool(v2, v3)
  BY ProxyInv, ProxyPools
<1>4. ASSUME NEW p \in v1, Proxy!Answer(c, "ok", {Proxy!Row(p)}), UNCHANGED <<v1, v2, v3, v4>>
      PROVE  Proxy!Inv'
  <2>1. PICK got : got = {Proxy!Row(p)}
    OBVIOUS
  <2>2. /\ v3' \in Nat /\ v4' \in Nat /\ v4 <= v4'
        /\ ProxyPool(v1', v3') /\ ProxyPool(v2', v3')
        /\ \A q \in v1' : q.status = "checking" =>
             v4' > 0 \/ \E d \in v11 \ {c} : d.stage = "checking" /\ q.id \in d.ids
    BY <1>1, <1>3, <1>4, ProxySent
  <2>3. ASSUME NEW d, Proxy!Orderly, v11' = (v11 \ {c}) \cup {d}, ProxyDone(c, d, "ok", got)
        PROVE  Proxy!Orderly'
    <3>1. v11 = {c} /\ v2' = v1' /\ v5' = Proxy!Rows(v1)
      BY <1>1, <1>2, <1>4, <2>3, ProxySent
    <3>2. d.what = "add" /\ d.got = got
      BY <1>1, <2>3 DEF ProxyDone, ProxySameCall
    <3>3. Proxy!Changed(d)' = v5' \cup got
      BY <3>2 DEF Proxy!Changed
    <3>4. Proxy!Changed(d)' = Proxy!Rows(v1')
      BY <1>4, <2>1, <3>1, <3>3 DEF Proxy!Rows
    <3> QED
      BY <1>1, <2>3, <3>1, <3>4, ProxyOnlyDone
  <2> QED
    BY <1>1, <1>2, <1>4, <2>1, <2>2, <2>3, ProxyAnswered
<1>5. ASSUME \A p \in v1 : p.url # c.arg, v3' = v3 + 1,
             Proxy!Save(c, v1 \cup {Proxy!Entry(v3 + 1, c.arg)},
                        {Proxy!Row(Proxy!Entry(v3 + 1, c.arg))})
      PROVE  Proxy!Inv'
  <2>1. PICK e, ps, got : /\ e = Proxy!Entry(v3 + 1, c.arg) /\ ps = v1 \cup {e}
                          /\ got = {Proxy!Row(e)}
    OBVIOUS
  <2>2. v3' \in Nat /\ v3 <= v3' /\ ProxyPool(ps, v3')
    BY <1>3, <1>5, <2>1, ProxyAdded
  <2>3. ASSUME NEW q \in ps, q.status = "checking"
        PROVE  v4 > 0 \/ \E d \in v11 \ {c} : d.stage = "checking" /\ q.id \in d.ids
    <3>1. e.status = "active"
      BY <2>1 DEF Proxy!Entry
    <3>2. q \in v1
      BY <2>1, <2>3, <3>1
    <3> QED
      BY <1>1, <2>3, <3>2, ProxySent
  <2>4. ASSUME NEW d, Proxy!Orderly, v1' = ps, v2' = ps, v11' = (v11 \ {c}) \cup {d},
               ProxyDone(c, d, "ok", got)
        PROVE  Proxy!Orderly'
    <3>1. v11 = {c} /\ v5' = Proxy!Rows(v1)
      BY <1>1, <1>2, <2>4, ProxySent
    <3>2. d.what = "add" /\ d.got = got
      BY <1>1, <2>4 DEF ProxyDone, ProxySameCall
    <3>3. Proxy!Changed(d)' = v5' \cup got
      BY <3>2 DEF Proxy!Changed
    <3>4. Proxy!Changed(d)' = Proxy!Rows(v1')
      BY <2>1, <2>4, <3>1, <3>3 DEF Proxy!Rows
    <3> QED
      BY <1>1, <2>4, <3>1, <3>4, ProxyOnlyDone
  <2>5. Proxy!Save(c, ps, got)
    BY <1>5, <2>1
  <2> QED
    BY <1>1, <1>2, <2>2, <2>3, <2>4, <2>5, ProxySaved
<1> QED
  BY <1>1, <1>4, <1>5

LEMMA ProxyBatchAdd == ASSUME Proxy!Inv, Proxy!BatchAddProxies PROVE Proxy!Inv'
<1>1. PICK c \in v11 :
         /\ c.what = "batch" /\ c.stage = "sent"
         /\ \/ Proxy!Answer(c, "ok", {}) /\ UNCHANGED <<v1, v2, v3, v4>>
            \/ /\ \A p \in v1 : p.url # c.arg
               /\ v3' = v3 + 1
               /\ Proxy!Save(c, v1 \cup {Proxy!Entry(v3 + 1, c.arg)}, {})
  BY DEF Proxy!BatchAddProxies, Proxy!Served, Proxy!pool
<1>2. UNCHANGED <<v5, v13>>
  BY DEF Proxy!BatchAddProxies, Proxy!view
<1>3. v3 \in Nat /\ v4 \in Nat /\ ProxyPool(v1, v3) /\ ProxyPool(v2, v3)
  BY ProxyInv, ProxyPools
<1>4. ASSUME NEW d, Proxy!Orderly, v1' = v2', v11' = (v11 \ {c}) \cup {d},
             ProxyDone(c, d, "ok", {})
      PROVE  Proxy!Orderly'
  <2>1. v11 = {c}
    BY <1>1, <1>4, ProxySent
  <2> QED
    BY <1>1, <1>4, <2>1, ProxyOnlyDone
<1>5. CASE Proxy!Answer(c, "ok", {}) /\ UNCHANGED <<v1, v2, v3, v4>>
  <2>1. /\ v3' \in Nat /\ v4' \in Nat /\ v4 <= v4'
        /\ ProxyPool(v1', v3') /\ ProxyPool(v2', v3')
        /\ \A q \in v1' : q.status = "checking" =>
             v4' > 0 \/ \E d \in v11 \ {c} : d.stage = "checking" /\ q.id \in d.ids
    BY <1>1, <1>3, <1>5, ProxySent
  <2>2. Proxy!Orderly => v1' = v2'
    BY <1>5 DEF Proxy!Orderly
  <2> QED
    BY <1>1, <1>2, <1>4, <1>5, <2>1, <2>2, ProxyAnswered
<1>6. ASSUME \A p \in v1 : p.url # c.arg, v3' = v3 + 1,
             Proxy!Save(c, v1 \cup {Proxy!Entry(v3 + 1, c.arg)}, {})
      PROVE  Proxy!Inv'
  <2>1. PICK e, ps : e = Proxy!Entry(v3 + 1, c.arg) /\ ps = v1 \cup {e}
    OBVIOUS
  <2>2. v3' \in Nat /\ v3 <= v3' /\ ProxyPool(ps, v3')
    BY <1>3, <1>6, <2>1, ProxyAdded
  <2>3. ASSUME NEW q \in ps, q.status = "checking"
        PROVE  v4 > 0 \/ \E d \in v11 \ {c} : d.stage = "checking" /\ q.id \in d.ids
    <3>1. e.status = "active"
      BY <2>1 DEF Proxy!Entry
    <3>2. q \in v1
      BY <2>1, <2>3, <3>1
    <3> QED
      BY <1>1, <2>3, <3>2, ProxySent
  <2>4. Proxy!Save(c, ps, {})
    BY <1>6, <2>1
  <2> QED
    BY <1>1, <1>2, <1>4, <2>2, <2>3, <2>4, ProxySaved
<1> QED
  BY <1>1, <1>5, <1>6

\* Some proxies are removed, and the answer makes the rows follow.
LEMMA ProxyFewer ==
    ASSUME Proxy!Inv, NEW c \in v11, c.stage = "sent", c.what \notin {"check", "list", "checkAll"},
           NEW ps, ps \subseteq v1, Proxy!Save(c, ps, {}), UNCHANGED <<v3, v5, v13>>,
           ASSUME NEW d, d.what = c.what, d.arg = c.arg, v5 = Proxy!Rows(v1)
           PROVE  Proxy!Changed(d)' = Proxy!Rows(ps),
           c.what \in {"add", "remove", "removeDead", "removeAll"}
    PROVE  Proxy!Inv'
<1>1. v3 \in Nat /\ ProxyPool(v1, v3)
  BY ProxyInv, ProxyPools
<1>2. v3' \in Nat /\ v3 <= v3' /\ ProxyPool(ps, v3')
  BY <1>1 DEF ProxyPool, ProxyMembers
<1>3. ASSUME NEW d, Proxy!Orderly, v1' = ps, v2' = ps, v11' = (v11 \ {c}) \cup {d},
             ProxyDone(c, d, "ok", {})
      PROVE  Proxy!Orderly'
  <2>1. v11 = {c} /\ v5 = Proxy!Rows(v1)
    BY <1>3, ProxySent
  <2>2. d.what = c.what /\ d.arg = c.arg
    BY <1>3 DEF ProxyDone, ProxySameCall
  <2>3. Proxy!Changed(d)' = Proxy!Rows(v1')
    BY <1>3, <2>1, <2>2
  <2> QED
    BY <1>3, <2>1, <2>3, ProxyOnlyDone
<1>4. \A p \in ps : p.status = "checking" =>
        v4 > 0 \/ \E d \in v11 \ {c} : d.stage = "checking" /\ p.id \in d.ids
  BY ProxySent
<1> QED
  BY <1>2, <1>3, <1>4, ProxySaved

LEMMA ProxyRemoveProxy == ASSUME Proxy!Inv, Proxy!RemoveProxy PROVE Proxy!Inv'
<1>1. PICK c \in v11 : /\ c.what = "remove" /\ c.stage = "sent"
                       /\ Proxy!Save(c, {p \in v1 : p.id # c.arg}, {})
  BY DEF Proxy!RemoveProxy, Proxy!Served
<1>2. UNCHANGED <<v3, v5, v13>>
  BY DEF Proxy!RemoveProxy, Proxy!view
<1>3. PICK ps : ps = {p \in v1 : p.id # c.arg}
  OBVIOUS
<1>4. ps \subseteq v1 /\ Proxy!Save(c, ps, {})
  BY <1>1, <1>3
<1>5. ASSUME NEW d, d.what = c.what, d.arg = c.arg, v5 = Proxy!Rows(v1)
      PROVE  Proxy!Changed(d)' = Proxy!Rows(ps)
  <2>1. Proxy!Changed(d)' = {r \in v5 : r.id # c.arg}
    BY <1>1, <1>2, <1>5 DEF Proxy!Changed
  <2>2. \A p : Proxy!Row(p).id = p.id
    BY DEF Proxy!Row
  <2>3. {r \in Proxy!Rows(v1) : r.id # c.arg} = Proxy!Rows(ps)
    BY <1>3, <2>2 DEF Proxy!Rows
  <2> QED
    BY <1>5, <2>1, <2>3
<1> QED
  BY <1>1, <1>2, <1>4, <1>5, ProxyFewer

LEMMA ProxyRemoveProxies == ASSUME Proxy!Inv, Proxy!RemoveProxies PROVE Proxy!Inv'
<1>1. PICK c \in v11 :
         /\ c.what \in {"removeDead", "removeAll"} /\ c.stage = "sent"
         /\ LET kept == IF c.what = "removeAll" THEN {} ELSE {p \in v1 : p.status # "dead"}
            IN  \/ kept = v1 /\ Proxy!Answer(c, "ok", {}) /\ UNCHANGED <<v1, v2, v3, v4>>
                \/ Proxy!Save(c, kept, {}) /\ UNCHANGED v3
  BY DEF Proxy!RemoveProxies, Proxy!Served, Proxy!pool
<1>2. UNCHANGED <<v5, v13>>
  BY DEF Proxy!RemoveProxies, Proxy!view
<1>3. PICK ps : ps = IF c.what = "removeAll" THEN {} ELSE {p \in v1 : p.status # "dead"}
  OBVIOUS
<1>4. ASSUME NEW d, d.what = c.what, d.arg = c.arg, v5 = Proxy!Rows(v1)
      PROVE  Proxy!Changed(d)' = Proxy!Rows(ps)
  <2>1. CASE c.what = "removeAll"
    BY <1>3, <1>4, <2>1 DEF Proxy!Changed, Proxy!Rows
  <2>2. CASE c.what = "removeDead"
    <3>1. Proxy!Changed(d)' = {r \in v5 : r.status # "dead"}
      BY <1>2, <1>4, <2>2 DEF Proxy!Changed, Proxy!Dead
    <3>2. \A p : Proxy!Row(p).status = p.status
      BY DEF Proxy!Row
    <3>3. ps = {p \in v1 : p.status # "dead"}
      BY <1>3, <2>2
    <3>4. {r \in Proxy!Rows(v1) : r.status # "dead"} = Proxy!Rows(ps)
      BY <3>2, <3>3 DEF Proxy!Rows
    <3> QED
      BY <1>4, <3>1, <3>4
  <2> QED
    BY <1>1, <2>1, <2>2
<1>5. ps \subseteq v1
  BY <1>3
<1>6. CASE Proxy!Save(c, ps, {}) /\ UNCHANGED v3
  BY <1>1, <1>2, <1>4, <1>5, <1>6, ProxyFewer
<1>7. CASE ps = v1 /\ Proxy!Answer(c, "ok", {}) /\ UNCHANGED <<v1, v2, v3, v4>>
  <2>1. v3 \in Nat /\ v4 \in Nat /\ ProxyPool(v1, v3) /\ ProxyPool(v2, v3)
    BY ProxyInv, ProxyPools
  <2>2. /\ v3' \in Nat /\ v4' \in Nat /\ v4 <= v4'
        /\ ProxyPool(v1', v3') /\ ProxyPool(v2', v3')
        /\ \A q \in v1' : q.status = "checking" =>
             v4' > 0 \/ \E d \in v11 \ {c} : d.stage = "checking" /\ q.id \in d.ids
    BY <1>1, <1>7, <2>1, ProxySent
  <2>3. ASSUME NEW d, Proxy!Orderly, v11' = (v11 \ {c}) \cup {d}, ProxyDone(c, d, "ok", {})
        PROVE  Proxy!Orderly'
    <3>1. v11 = {c} /\ v2' = v1' /\ v5 = Proxy!Rows(v1)
      BY <1>1, <1>7, <2>3, ProxySent
    <3>2. d.what = c.what /\ d.arg = c.arg
      BY <2>3 DEF ProxyDone, ProxySameCall
    <3>3. Proxy!Changed(d)' = Proxy!Rows(ps) /\ ps = v1'
      BY <1>4, <1>7, <3>1, <3>2
    <3>4. Proxy!Changed(d)' = Proxy!Rows(v1')
      BY <3>3 DEF Proxy!Rows
    <3> QED
      BY <1>1, <2>3, <3>1, <3>4, ProxyOnlyDone
  <2> QED
    BY <1>1, <1>2, <1>7, <2>2, <2>3, ProxyAnswered
<1> QED
  BY <1>1, <1>3, <1>6, <1>7

\* Every proxy p becomes h[p], which is the same one.
LEMMA ProxyMapped ==
    ASSUME NEW ps, NEW n, ProxyPool(ps, n), NEW h, NEW qs, qs = {h[p] : p \in ps},
           \A p \in ps : /\ ProxyEntry(h[p], n) /\ h[p].id = p.id /\ h[p].url = p.url
                         /\ h[p].status # "checking" =>
                              (h[p].status = "dead" <=> h[p].failCount >= MaxFailCount)
    PROVE  ProxyPool(qs, n)
<1>1. ASSUME NEW x \in qs, NEW y \in qs, x.url = y.url \/ x.id = y.id PROVE x = y
  <2>1. PICK p \in ps, q \in ps : x = h[p] /\ y = h[q]
    OBVIOUS
  <2>2. p = q
    BY <1>1, <2>1 DEF ProxyPool, ProxyMembers
  <2> QED
    BY <2>1, <2>2
<1>2. ASSUME NEW x \in qs
      PROVE  /\ ProxyEntry(x, n)
             /\ x.status # "checking" => (x.status = "dead" <=> x.failCount >= MaxFailCount)
  OBVIOUS
<1> QED
  BY <1>1, <1>2 DEF ProxyPool, ProxyMembers

\* The check c of one proxy goes on as d, beside other checks.
LEMMA ProxyCheckStep ==
    ASSUME Proxy!Orderly, NEW c \in v11, c.what = "check", NEW d, d.what = "check",
           d.arg = c.arg, d.live = TRUE, v11' = (v11 \ {c}) \cup {d}, v5' = v5, v2' = v1',
           NEW h, v1' = {h[p] : p \in v1},
           \A p \in v1 : h[p].id = p.id /\ (p.id # c.arg => h[p] = p),
           d.stage = "done" => \A p \in v1 : p.id = c.arg => h[p].status = "active"
    PROVE  Proxy!Orderly'
<1>1. \A x \in v11 : x.what = "check"
  BY DEF Proxy!Orderly, Proxy!Pending
<1>2. /\ \A x \in v11 : x.live
      /\ \A x, y \in v11 : x.arg = y.arg => x = y
      /\ v5 = {ProxyRow(p, v11) : p \in v1}
      /\ \A x \in v11 : x.stage = "done" => \A p \in v1 : p.id = x.arg => p.status = "active"
  BY <1>1, ProxyChecks
<1>3. \A x, y \in v11' : x.arg = y.arg => x = y
  BY <1>2
<1>4. ASSUME NEW p \in v1 PROVE ProxyRow(h[p], v11') = ProxyRow(p, v11)
  <2>1. h[p].id = p.id
    OBVIOUS
  <2>2. (\E x \in v11' : x.arg = p.id) <=> (\E x \in v11 : x.arg = p.id)
    OBVIOUS
  <2>3. CASE p.id # c.arg
    <3>1. h[p] = p
      BY <2>3
    <3> QED
      BY <2>2, <3>1 DEF ProxyRow
  <2>4. CASE p.id = c.arg
    BY <2>1, <2>2, <2>4, ProxyRowIs
  <2> QED
    BY <2>3, <2>4
<1>5. v5' = {ProxyRow(p, v11') : p \in v1'}
  <2>1. PICK cs, qs : cs = v11' /\ qs = v1'
    OBVIOUS
  <2>2. {ProxyRow(q, cs) : q \in qs} = {ProxyRow(h[p], cs) : p \in v1}
    BY <2>1
  <2>3. {ProxyRow(h[p], cs) : p \in v1} = {ProxyRow(p, v11) : p \in v1}
    BY <1>4, <2>1
  <2> QED
    BY <1>2, <2>1, <2>2, <2>3
<1>6. ASSUME NEW x \in v11', x.stage = "done", NEW q \in v1', q.id = x.arg
      PROVE  q.status = "active"
  <2>1. PICK p \in v1 : q = h[p]
    OBVIOUS
  <2>2. CASE x = d
    BY <1>6, <2>1, <2>2
  <2>3. CASE x # d
    <3>1. x \in v11 /\ x.arg # c.arg
      BY <1>2, <2>3
    <3> QED
      BY <1>2, <1>6, <2>1, <3>1
  <2> QED
    BY <2>2, <2>3
<1>7. Proxy!Checks'
  BY <1>3, <1>5, <1>6 DEF Proxy!Checks, ProxyRow
<1> QED
  BY <1>1, <1>2, <1>7 DEF Proxy!Orderly, Proxy!Pending

\* What Marked makes of a proxy.
LEMMA ProxyMark ==
    ASSUME NEW n, NEW p, ProxyEntry(p, n), NEW q, q = [p EXCEPT !.status = "checking"]
    PROVE  ProxyEntry(q, n) /\ q.id = p.id /\ q.url = p.url /\ q.status = "checking"
<1>1. PICK f1, f2, f3, f4 : p = [id |-> f1, url |-> f2, status |-> f3, failCount |-> f4]
  BY DEF ProxyEntry
<1>2. q = [id |-> f1, url |-> f2, status |-> "checking", failCount |-> f4]
  BY <1>1
<1> QED
  BY <1>1, <1>2 DEF ProxyEntry

\* What a check makes of it.
LEMMA ProxyNote ==
    ASSUME NEW n, NEW p, ProxyEntry(p, n), NEW alive \in BOOLEAN, NEW q,
           q = Proxy!Checked(p, alive)
    PROVE  /\ ProxyEntry(q, n) /\ q.id = p.id /\ q.url = p.url /\ q.status # "checking"
           /\ q.status = "dead" <=> q.failCount >= MaxFailCount
           /\ alive => q.status = "active"
<1>1. PICK f1, f2, f3, f4 : p = [id |-> f1, url |-> f2, status |-> f3, failCount |-> f4]
  BY DEF ProxyEntry
<1>0. f4 \in Nat /\ MaxFailCount \in Nat \ {0} /\ p.failCount = f4
  BY <1>1, ProxyAssumed DEF ProxyEntry
<1>2. CASE alive
  <2>1. q = [id |-> f1, url |-> f2, status |-> "active", failCount |-> 0]
    BY <1>1, <1>2 DEF Proxy!Checked
  <2> QED
    BY <1>0, <1>1, <2>1 DEF ProxyEntry
<1>3. CASE ~alive
  <2>1. PICK m, s : m = f4 + 1 /\ s = IF m >= MaxFailCount THEN "dead" ELSE "active"
    OBVIOUS
  <2>2. q = [id |-> f1, url |-> f2, status |-> s, failCount |-> m]
    <3>1. q = [p EXCEPT !.failCount = m, !.status = s]
      BY <1>0, <1>3, <2>1 DEF Proxy!Checked
    <3> QED
      BY <1>1, <3>1
  <2> QED
    BY <1>0, <1>1, <1>3, <2>1, <2>2 DEF ProxyEntry
<1> QED
  BY <1>2, <1>3

LEMMA ProxyCheckBegin == ASSUME Proxy!Inv, Proxy!CheckBegin PROVE Proxy!Inv'
<1>0. PICK c \in v11 : \E ids :
         /\ c.what \in {"check", "checkAll"} /\ c.stage = "sent"
         /\ ids = IF c.what = "checkAll" THEN Proxy!Ids(v1) ELSE Proxy!Ids(v1) \cap {c.arg}
         /\ \/ /\ ids = {} /\ UNCHANGED <<v1, v2, v4>>
               /\ Proxy!Answer(c, IF c.what = "check" THEN "error" ELSE "ok", {})
            \/ /\ ids # {} /\ v1' = Proxy!Marked(v1, ids)
               /\ \/ /\ v2' = v1' /\ UNCHANGED v4
                     /\ v11' = (v11 \ {c}) \cup {[c EXCEPT !.stage = "checking", !.ids = ids]}
                  \/ /\ v4' = v4 + 1 /\ UNCHANGED v2 /\ Proxy!Answer(c, "error", {})
  BY DEF Proxy!CheckBegin, Proxy!Served
<1>1. PICK ids :
         /\ c.what \in {"check", "checkAll"} /\ c.stage = "sent"
         /\ ids = IF c.what = "checkAll" THEN Proxy!Ids(v1) ELSE Proxy!Ids(v1) \cap {c.arg}
         /\ \/ /\ ids = {} /\ UNCHANGED <<v1, v2, v4>>
               /\ Proxy!Answer(c, IF c.what = "check" THEN "error" ELSE "ok", {})
            \/ /\ ids # {} /\ v1' = Proxy!Marked(v1, ids)
               /\ \/ /\ v2' = v1' /\ UNCHANGED v4
                     /\ v11' = (v11 \ {c}) \cup {[c EXCEPT !.stage = "checking", !.ids = ids]}
                  \/ /\ v4' = v4 + 1 /\ UNCHANGED v2 /\ Proxy!Answer(c, "error", {})
  BY <1>0
<1>2. UNCHANGED <<v3, v5, v13>>
  BY DEF Proxy!CheckBegin, Proxy!view
<1>3. /\ v3 \in Nat /\ v4 \in Nat /\ ProxyPool(v1, v3) /\ ProxyPool(v2, v3)
      /\ \A x \in v11 : ProxyCall(x)
  BY ProxyInv, ProxyPools
<1>4. \A p \in v1 : p.status = "checking" =>
         v4 > 0 \/ \E d \in v11 \ {c} : d.stage = "checking" /\ p.id \in d.ids
  BY <1>1, ProxySent
<1>5. ASSUME ids = {}, UNCHANGED <<v1, v2, v4>>,
             Proxy!Answer(c, IF c.what = "check" THEN "error" ELSE "ok", {})
      PROVE  Proxy!Inv'
  <2>1. /\ v3' \in Nat /\ v4' \in Nat /\ v4 <= v4'
        /\ ProxyPool(v1', v3') /\ ProxyPool(v2', v3')
        /\ \A q \in v1' : q.status = "checking" =>
             v4' > 0 \/ \E d \in v11 \ {c} : d.stage = "checking" /\ q.id \in d.ids
    BY <1>2, <1>3, <1>4, <1>5
  <2>2. CASE c.what = "check"
    <3>1. Proxy!Answer(c, "error", {})
      BY <1>5, <2>2
    <3> QED
      BY <1>1, <1>2, <2>1, <3>1, ProxyAnswered
  <2>3. CASE c.what = "checkAll"
    <3>1. Proxy!Answer(c, "ok", {})
      BY <1>5, <2>3
    <3>2. v1 = {}
      BY <1>1, <1>5, <2>3 DEF Proxy!Ids
    <3>3. ASSUME NEW d, Proxy!Orderly, v11' = (v11 \ {c}) \cup {d}, ProxyDone(c, d, "ok", {})
          PROVE  Proxy!Orderly'
      <4>1. v11 = {c} /\ v2' = v1'
        BY <1>1, <1>5, <2>3, <3>3, ProxySent
      <4>2. Proxy!Rows(v1') = {}
        BY <1>5, <3>2 DEF Proxy!Rows
      <4> QED
        BY <2>3, <3>3, <4>1, <4>2, ProxyOnlyDone
    <3> QED
      BY <1>1, <1>2, <2>1, <3>1, <3>3, ProxyAnswered
  <2> QED
    BY <1>1, <2>2, <2>3
<1>6. ASSUME ids # {}, v1' = Proxy!Marked(v1, ids) PROVE Proxy!Inv'
  <2>1. PICK h : h = [p \in v1 |-> IF p.id \in ids THEN [p EXCEPT !.status = "checking"] ELSE p]
    OBVIOUS
  <2>2. v1' = {h[p] : p \in v1}
    BY <1>6, <2>1 DEF Proxy!Marked
  <2>3. ASSUME NEW p \in v1
        PROVE  /\ ProxyEntry(h[p], v3) /\ h[p].id = p.id /\ h[p].url = p.url
               /\ p.id \notin ids => h[p] = p
               /\ p.id \in ids => h[p].status = "checking"
    <3>1. ProxyEntry(p, v3)
      BY <1>3 DEF ProxyPool
    <3>2. CASE p.id \in ids
      <4>1. h[p] = [p EXCEPT !.status = "checking"]
        BY <2>1, <3>2
      <4>2. PICK q : q = h[p]
        OBVIOUS
      <4> QED
        BY <3>1, <3>2, <4>1, <4>2, ProxyMark
    <3>3. CASE p.id \notin ids
      BY <2>1, <3>1, <3>3
    <3> QED
      BY <3>2, <3>3
  <2>4. ASSUME NEW p \in v1, h[p].status # "checking"
        PROVE  h[p].status = "dead" <=> h[p].failCount >= MaxFailCount
    <3>1. h[p] = p
      BY <2>3, <2>4
    <3> QED
      BY <1>3, <2>4, <3>1 DEF ProxyPool, ProxyMembers
  <2>5. ProxyPool(v1', v3')
    BY <1>2, <1>3, <2>2, <2>3, <2>4, ProxyMapped
  <2>6. CASE v4' = v4 + 1 /\ UNCHANGED v2 /\ Proxy!Answer(c, "error", {})
    <3>1. /\ v3' \in Nat /\ v4' \in Nat /\ v4 <= v4' /\ v4' > 0
          /\ ProxyPool(v1', v3') /\ ProxyPool(v2', v3')
      BY <1>2, <1>3, <2>5, <2>6
    <3> QED
      BY <1>1, <1>2, <2>6, <3>1, ProxyAnswered
  <2>7. CASE /\ v2' = v1' /\ UNCHANGED v4
             /\ v11' = (v11 \ {c}) \cup {[c EXCEPT !.stage = "checking", !.ids = ids]}
    <3>1. PICK d : d = [c EXCEPT !.stage = "checking", !.ids = ids]
      OBVIOUS
    <3>2. PICK f1, f2, f3, f4, f5, f6, f7, f8, f9 :
             c = [no |-> f1, what |-> f2, arg |-> f3, then |-> f4, stage |-> f5,
                  res |-> f6, ids |-> f7, got |-> f8, live |-> f9]
      BY <1>3 DEF ProxyCall
    <3>3. d = [no |-> f1, what |-> f2, arg |-> f3, then |-> f4, stage |-> "checking",
               res |-> f6, ids |-> ids, got |-> f8, live |-> f9]
      BY <3>1, <3>2
    <3>4. /\ d = [no |-> d.no, what |-> d.what, arg |-> d.arg, then |-> d.then,
                  stage |-> d.stage, res |-> d.res, ids |-> d.ids, got |-> d.got,
                  live |-> d.live]
          /\ d.stage = "checking" /\ d.ids = ids /\ d.what = c.what /\ d.arg = c.arg
          /\ d.live = c.live
      BY <3>2, <3>3
    <3>5. ProxyCall(d)
      <4>1. c.what = "check" => ids = {c.arg}
        BY <1>1, <1>6
      <4>2. c.live \in BOOLEAN
        BY <1>3 DEF ProxyCall
      <4> QED
        BY <1>1, <3>4, <4>1, <4>2 DEF ProxyCall
    <3>6. v11' = (v11 \ {c}) \cup {d}
      BY <2>7, <3>1
    <3>7. ASSUME NEW q \in v1', q.status = "checking" PROVE ProxyChecked(q)'
      <4>1. PICK p \in v1 : q = h[p]
        BY <2>2
      <4>2. CASE p.id \in ids
        BY <2>3, <3>4, <3>6, <4>1, <4>2 DEF ProxyChecked
      <4>3. CASE p.id \notin ids
        <5>1. q = p
          BY <2>3, <4>1, <4>3
        <5>2. v4 > 0 \/ \E x \in v11 \ {c} : x.stage = "checking" /\ p.id \in x.ids
          BY <1>4, <3>7, <5>1
        <5> QED
          BY <2>7, <3>6, <5>1, <5>2 DEF ProxyChecked
      <4> QED
        BY <4>2, <4>3
    <3>8. ASSUME Proxy!Orderly PROVE Proxy!Orderly'
      <4>0. c.live = TRUE
        <5>1. c.live \in BOOLEAN
          BY <1>3 DEF ProxyCall
        <5> QED
          BY <3>8, <5>1 DEF Proxy!Orderly
      <4>1. CASE c.what = "checkAll"
        <5>1. v11' = {d}
          BY <1>1, <3>6, <3>8, <4>1, ProxySent
        <5> QED
          BY <2>7, <3>4, <4>0, <4>1, <5>1 DEF Proxy!Orderly, Proxy!Pending, Proxy!Checks
      <4>2. CASE c.what = "check"
        <5>1. \A p \in v1 : h[p].id = p.id /\ (p.id # c.arg => h[p] = p)
          BY <1>1, <2>3, <4>2
        <5>2. /\ d.what = "check" /\ d.arg = c.arg /\ d.live = TRUE /\ d.stage # "done"
              /\ v5' = v5 /\ v2' = v1' /\ c \in v11
          BY <1>1, <1>2, <2>7, <3>4, <4>0, <4>2
        <5> QED
          BY <2>2, <3>6, <3>8, <4>2, <5>1, <5>2, ProxyCheckStep
      <4> QED
        BY <1>1, <4>1, <4>2
    <3>9. ProxyPool(v2', v3') /\ v3' \in Nat /\ v4' \in Nat /\ v11 \ {c} \subseteq v11'
      BY <1>2, <1>3, <2>5, <2>7
    <3>10. \A x \in v11' : ProxyCall(x)
      BY <1>3, <3>5, <3>6
    <3> QED
      BY <1>1, <1>2, <2>5, <3>7, <3>8, <3>9, <3>10, ProxyServed
  <2> QED
    BY <1>1, <1>6, <2>6, <2>7
<1> QED
  BY <1>1, <1>5, <1>6

LEMMA ProxyCheckEnd == ASSUME Proxy!Inv, Proxy!CheckEnd PROVE Proxy!Inv'
<1>0. PICK c \in v11 : \E alive \in SUBSET c.ids :
         /\ c.stage = "checking"
         /\ IF Proxy!Ids(v1) \cap c.ids = {} /\ c.what = "check"
            THEN /\ Proxy!Answer(c, "ok", Proxy!Found(c, Proxy!Noted(v1, c.ids, alive), alive))
                 /\ UNCHANGED <<v1, v2, v4>>
            ELSE Proxy!Save(c, Proxy!Noted(v1, c.ids, alive),
                            Proxy!Found(c, Proxy!Noted(v1, c.ids, alive), alive))
  BY DEF Proxy!CheckEnd
<1>1. PICK alive, noted, got :
         /\ alive \in SUBSET c.ids
         /\ c.stage = "checking"
         /\ noted = Proxy!Noted(v1, c.ids, alive) /\ got = Proxy!Found(c, noted, alive)
         /\ \/ /\ Proxy!Ids(v1) \cap c.ids = {} /\ c.what = "check"
               /\ Proxy!Answer(c, "ok", got) /\ UNCHANGED <<v1, v2, v4>>
            \/ Proxy!Save(c, noted, got)
  BY <1>0
<1>2. UNCHANGED <<v3, v5, v13>>
  BY DEF Proxy!CheckEnd, Proxy!view
<1>3. /\ v3 \in Nat /\ v4 \in Nat /\ ProxyPool(v1, v3) /\ ProxyPool(v2, v3)
      /\ \A p \in v1 : p.status = "checking" => ProxyChecked(p)
      /\ ProxyCall(c)
  BY ProxyInv, ProxyPools
<1>4. /\ c.what \in {"check", "checkAll"}
      /\ c.what = "check" => c.ids = {c.arg}
      /\ c.live \in BOOLEAN
  BY <1>1, <1>3 DEF ProxyCall
<1>5. PICK h : h = [p \in v1 |-> IF p.id \in c.ids THEN Proxy!Checked(p, p.id \in alive) ELSE p]
  OBVIOUS
<1>6. noted = {h[p] : p \in v1}
  BY <1>1, <1>5 DEF Proxy!Noted
<1>7. ASSUME NEW p \in v1
      PROVE  /\ ProxyEntry(h[p], v3) /\ h[p].id = p.id /\ h[p].url = p.url
             /\ p.id \notin c.ids => h[p] = p
             /\ p.id \in c.ids => /\ h[p].status # "checking"
                                  /\ h[p].status = "dead" <=> h[p].failCount >= MaxFailCount
                                  /\ p.id \in alive => h[p].status = "active"
  <2>1. ProxyEntry(p, v3)
    BY <1>3 DEF ProxyPool
  <2>2. CASE p.id \in c.ids
    <3>1. PICK a \in BOOLEAN : a <=> p.id \in alive
      OBVIOUS
    <3>2. PICK q : q = h[p]
      OBVIOUS
    <3>3. q = Proxy!Checked(p, a)
      BY <1>5, <2>2, <3>1, <3>2
    <3>4. /\ ProxyEntry(q, v3) /\ q.id = p.id /\ q.url = p.url /\ q.status # "checking"
          /\ q.status = "dead" <=> q.failCount >= MaxFailCount
          /\ a => q.status = "active"
      BY <2>1, <3>3, ProxyNote
    <3> QED
      BY <2>2, <3>1, <3>2, <3>4
  <2>3. CASE p.id \notin c.ids
    BY <1>5, <2>1, <2>3
  <2> QED
    BY <2>2, <2>3
<1>8. ASSUME NEW p \in v1, h[p].status # "checking"
      PROVE  h[p].status = "dead" <=> h[p].failCount >= MaxFailCount
  <2>1. CASE p.id \in c.ids
    BY <1>7, <2>1
  <2>2. CASE p.id \notin c.ids
    <3>1. h[p] = p
      BY <1>7, <2>2
    <3> QED
      BY <1>3, <1>8, <3>1 DEF ProxyPool, ProxyMembers
  <2> QED
    BY <2>1, <2>2
<1>9. ASSUME NEW p \in v1, p.id \notin c.ids, p.status = "checking"
      PROVE  v4 > 0 \/ \E d \in v11 \ {c} : d.stage = "checking" /\ p.id \in d.ids
  BY <1>3, <1>9 DEF ProxyChecked
<1>10. ASSUME c.what = "check", NEW d, ProxyDone(c, d, "ok", got), Proxy!Orderly,
              v11' = (v11 \ {c}) \cup {d}, v2' = v1',
              NEW k, v1' = {k[p] : p \in v1},
              \A p \in v1 : /\ k[p].id = p.id /\ (p.id # c.arg => k[p] = p)
                            /\ p.id = c.arg /\ c.arg \in alive => k[p].status = "active"
       PROVE  Proxy!Doomed' \/ Proxy!Orderly'
  <2>1. d.what = "check" /\ d.arg = c.arg /\ d.stage = "done" /\ d.got = got /\ d.live = TRUE
    BY <1>10 DEF ProxyDone, ProxySameCall
  <2>2. CASE alive = {}
    <3>1. got = {[id |-> c.arg, status |-> "dead"]}
      BY <1>1, <1>10, <2>2 DEF Proxy!Found
    <3>2. ~Proxy!Alive(d)
      BY <2>1, <3>1 DEF Proxy!Alive
    <3>3. d \in v11'
      BY <1>10
    <3> QED
      BY <2>1, <3>2, <3>3 DEF Proxy!Doomed, Proxy!Alive
  <2>3. CASE alive # {}
    <3>1. c.arg \in alive
      BY <1>1, <1>4, <1>10, <2>3
    <3>2. Proxy!Orderly'
      BY <1>2, <1>10, <2>1, <3>1, ProxyCheckStep
    <3> QED
      BY <3>2
  <2> QED
    BY <2>2, <2>3
<1>11. CASE /\ Proxy!Ids(v1) \cap c.ids = {} /\ c.what = "check"
            /\ Proxy!Answer(c, "ok", got) /\ UNCHANGED <<v1, v2, v4>>
  <2>1. \A p \in v1 : p.id \notin c.ids
    BY <1>11 DEF Proxy!Ids
  <2>2. /\ v3' \in Nat /\ v4' \in Nat /\ v4 <= v4'
        /\ ProxyPool(v1', v3') /\ ProxyPool(v2', v3')
        /\ \A q \in v1' : q.status = "checking" =>
             v4' > 0 \/ \E d \in v11 \ {c} : d.stage = "checking" /\ q.id \in d.ids
    BY <1>2, <1>3, <1>9, <1>11, <2>1
  <2>3. ASSUME NEW d, ProxyDone(c, d, "ok", got), Proxy!Orderly, v11' = (v11 \ {c}) \cup {d}
        PROVE  Proxy!Doomed' \/ Proxy!Orderly'
    <3>1. PICK k : k = [p \in v1 |-> p]
      OBVIOUS
    <3>2. v1' = {k[p] : p \in v1} /\ v2' = v1'
      BY <1>11, <2>3, <3>1 DEF Proxy!Orderly
    <3>3. \A p \in v1 : p.id # c.arg
      BY <1>4, <1>11, <2>1
    <3>4. \A p \in v1 : /\ k[p].id = p.id /\ (p.id # c.arg => k[p] = p)
                        /\ p.id = c.arg /\ c.arg \in alive => k[p].status = "active"
      BY <3>1, <3>3
    <3> QED
      BY <1>10, <1>11, <2>3, <3>2, <3>4
  <2> QED
    BY <1>1, <1>2, <1>11, <2>2, <2>3, ProxyAnswered
<1>12. CASE Proxy!Save(c, noted, got)
  <2>1. v3' \in Nat /\ v3 <= v3' /\ ProxyPool(noted, v3')
    BY <1>2, <1>3, <1>6, <1>7, <1>8, ProxyMapped
  <2>2. ASSUME NEW q \in noted, q.status = "checking"
        PROVE  v4 > 0 \/ \E d \in v11 \ {c} : d.stage = "checking" /\ q.id \in d.ids
    <3>1. PICK p \in v1 : q = h[p]
      BY <1>6
    <3>2. p.id \notin c.ids /\ q = p
      BY <1>7, <2>2, <3>1
    <3> QED
      BY <1>9, <2>2, <3>2
  <2>3. ASSUME NEW d, ProxyDone(c, d, "ok", got), Proxy!Orderly, v11' = (v11 \ {c}) \cup {d},
               v1' = noted, v2' = noted
        PROVE  Proxy!Doomed' \/ Proxy!Orderly'
    <3>1. CASE c.what = "check"
      <4>1. v1' = {h[p] : p \in v1} /\ v2' = v1'
        BY <1>6, <2>3
      <4>2. \A p \in v1 : /\ h[p].id = p.id /\ (p.id # c.arg => h[p] = p)
                          /\ p.id = c.arg /\ c.arg \in alive => h[p].status = "active"
        BY <1>4, <1>7, <3>1
      <4> QED
        BY <1>10, <2>3, <3>1, <4>1, <4>2
    <3>2. CASE c.what = "checkAll"
      <4>1. v11 = {c} /\ v2' = v1'
        BY <2>3, <3>2 DEF Proxy!Orderly, Proxy!Pending
      <4>2. got = Proxy!Rows(v1')
        BY <1>1, <2>3, <3>2 DEF Proxy!Found
      <4> QED
        BY <2>3, <3>2, <4>1, <4>2, ProxyOnlyDone
    <3> QED
      BY <1>4, <3>1, <3>2
  <2> QED
    BY <1>1, <1>2, <1>12, <2>1, <2>2, <2>3, ProxySaved
<1> QED
  BY <1>1, <1>11, <1>12

LEMMA ProxyCrash == ASSUME Proxy!Inv, Proxy!Crash PROVE Proxy!Inv'
<1>1. v4' = v4 + 1 /\ v1' = v2 /\ UNCHANGED <<v2, v3, v5, v13>>
  BY DEF Proxy!Crash, Proxy!view
<1>2. /\ v3 \in Nat /\ v4 \in Nat /\ ProxyPool(v1, v3) /\ ProxyPool(v2, v3) /\ v13 \in BOOLEAN
      /\ \A x \in v11 : ProxyCall(x)
      /\ v13 => Proxy!Doomed \/ Proxy!Orderly
  BY ProxyInv, ProxyPools
<1>3. PICK h : h = [c \in v11 |-> [c EXCEPT !.stage = "done",
                                  !.res = IF c.stage = "done" THEN @ ELSE "error"]]
  OBVIOUS
<1>4. /\ \A c \in v11 : c.live => h[c] \in v11'
      /\ \A x \in v11' : \E c \in v11 : c.live /\ x = h[c]
  <2>1. v11' = {h[c] : c \in {d \in v11 : d.live}}
    BY <1>3 DEF Proxy!Crash
  <2> QED
    BY <2>1
<1>5. ASSUME NEW c \in v11, c.live
      PROVE  /\ ProxyCall(h[c]) /\ h[c].stage = "done" /\ h[c].live = TRUE
             /\ h[c].what = c.what /\ h[c].got = c.got
             /\ c.stage = "done" => h[c] = c
             /\ c.stage # "done" => h[c].res = "error"
  <2>1. PICK f1, f2, f3, f4, f5, f6, f7, f8, f9 :
           c = [no |-> f1, what |-> f2, arg |-> f3, then |-> f4, stage |-> f5,
                res |-> f6, ids |-> f7, got |-> f8, live |-> f9]
    BY <1>2 DEF ProxyCall
  <2>2. PICK r, d : r = (IF c.stage = "done" THEN c.res ELSE "error") /\ d = h[c]
    OBVIOUS
  <2>3. d = [c EXCEPT !.stage = "done", !.res = r]
    BY <1>3, <2>2
  <2>4. d = [no |-> f1, what |-> f2, arg |-> f3, then |-> f4, stage |-> "done",
             res |-> r, ids |-> f7, got |-> f8, live |-> f9]
    BY <2>1, <2>3
  <2>5. c.live \in BOOLEAN /\ f9 = TRUE
    BY <1>2, <1>5, <2>1 DEF ProxyCall
  <2>6. ProxyCall(d)
    BY <2>4, <2>5 DEF ProxyCall
  <2>7. c.stage = "done" => d = c
    BY <2>1, <2>2, <2>4
  <2>8. d.stage = "done" /\ d.live = TRUE /\ d.what = c.what /\ d.got = c.got
    BY <2>1, <2>4, <2>5
  <2>9. c.stage # "done" => d.res = "error"
    BY <2>2, <2>4
  <2> QED
    BY <2>2, <2>6, <2>7, <2>8, <2>9
<1>6. Proxy!Types'
  <2>0. v1' = v2 /\ v2' = v2 /\ v3' \in Nat /\ v4' \in Nat /\ v13' \in BOOLEAN /\ v3' = v3
    BY <1>1, <1>2
  <2>1. ASSUME NEW x \in v11' PROVE ProxyCall(x)
    <3>1. PICK c \in v11 : c.live /\ x = h[c]
      BY <1>4
    <3> QED
      BY <1>5, <3>1
  <2>2. \A p \in v1' \cup v2' : ProxyEntry(p, v3')
    BY <1>2, <2>0 DEF ProxyPool
  <2> QED
    BY <2>0, <2>1, <2>2 DEF Proxy!Types, ProxyCall, ProxyEntry
<1>7. Proxy!Members(v1)' /\ Proxy!Members(v2)'
  <2>1. v1' = v2 /\ v2' = v2
    BY <1>1
  <2>2. ProxyMembers(v2)
    BY <1>2 DEF ProxyPool
  <2> QED
    BY <2>1, <2>2 DEF Proxy!Members, ProxyMembers
<1>8. v4' > 0
  BY <1>1, <1>2
<1>9. ASSUME Proxy!Doomed PROVE Proxy!Doomed'
  <2>1. PICK x \in v11 : /\ x.live /\ x.stage = "done"
                         /\ (x.res # "ok" \/ (x.what = "check" /\ ~Proxy!Alive(x)))
    BY <1>9 DEF Proxy!Doomed
  <2>2. h[x] = x
    BY <1>5, <2>1
  <2>3. x \in v11'
    BY <1>4, <2>1, <2>2
  <2> QED
    BY <2>1, <2>3 DEF Proxy!Doomed, Proxy!Alive
<1>10. ASSUME Proxy!Orderly PROVE Proxy!Doomed' \/ Proxy!Orderly'
  <2>1. \A c \in v11 : c.live
    BY <1>10 DEF Proxy!Orderly
  <2>2. CASE \A c \in v11 : c.stage = "done"
    <3>1. v11' = v11
      <4>1. \A c \in v11 : h[c] = c
        BY <1>5, <2>1, <2>2
      <4> QED
        BY <1>4, <2>1, <4>1
    <3>2. v1' = v1 /\ v2' = v2 /\ v5' = v5
      BY <1>1, <1>10 DEF Proxy!Orderly
    <3> QED
      BY <1>10, <3>1, <3>2
      DEF Proxy!Orderly, Proxy!Pending, Proxy!Checks, Proxy!Rows, Proxy!Row, Proxy!Changed,
          Proxy!Dead
  <2>3. ASSUME NEW c \in v11, c.stage # "done" PROVE Proxy!Doomed'
    <3>1. h[c] \in v11' /\ h[c].live = TRUE /\ h[c].stage = "done" /\ h[c].res = "error"
      BY <1>4, <1>5, <2>1, <2>3
    <3> QED
      BY <3>1 DEF Proxy!Doomed
  <2> QED
    BY <2>2, <2>3
<1>11. v13' => Proxy!Doomed' \/ Proxy!Orderly'
  BY <1>1, <1>2, <1>9, <1>10
<1> QED
  BY <1>6, <1>7, <1>8, <1>11 DEF Proxy!Inv

LEMMA ProxyInit == ASSUME Proxy!Init PROVE Proxy!Inv
<1>1. PICK e, n : /\ v1 = {} \/ v1 = {[e EXCEPT !.failCount = n]}
                  /\ e = Proxy!Entry(1, FirstUrl) /\ n \in {0, MaxFailCount - 1}
  BY DEF Proxy!Init
<1>2. PICK m : m = [e EXCEPT !.failCount = n]
  OBVIOUS
<1>3. m = [id |-> 1, url |-> FirstUrl, status |-> "active", failCount |-> n]
  BY <1>1, <1>2 DEF Proxy!Entry
<1>4. n \in Nat /\ ~(n >= MaxFailCount)
  BY <1>1, ProxyAssumed
<1>5. v1 = {} \/ v1 = {m}
  BY <1>1, <1>2
<1>6. /\ v2 = v1 /\ v3 = Proxy!Cardinality(v1) /\ v4 = 0 /\ v5 = {} /\ v13 = TRUE
  BY DEF Proxy!Init
<1>7. Proxy!Cardinality(v1) = Cardinality(v1)
  BY DEF Proxy!Cardinality, Cardinality
<1>8. v3 \in Nat /\ (v1 = {m} => v3 = 1)
  <2>1. Cardinality({}) = 0 /\ Cardinality({m}) = 1
    BY FS_EmptySet, FS_Singleton
  <2>2. m \in {m}
    OBVIOUS
  <2> QED
    BY <1>5, <1>6, <1>7, <2>1, <2>2
<1>9. PICK c : v11 = {c} /\ c = [no |-> 1, what |-> "list", arg |-> 0,
                                then |-> IF v8 THEN "checkAll" ELSE "none", stage |-> "sent",
                                res |-> "none", ids |-> {}, got |-> {}, live |-> TRUE]
  BY DEF Proxy!Init
<1>10. ProxyPool(v1, v3)
  <2>1. v1 = {m} => ProxyEntry(m, v3)
    BY <1>3, <1>4, <1>8 DEF ProxyEntry
  <2> QED
    BY <1>3, <1>4, <1>5, <2>1 DEF ProxyPool, ProxyMembers
<1>11. ProxyCall(c)
  BY <1>9 DEF ProxyCall
<1>12. Proxy!Types
  BY <1>6, <1>8, <1>9, <1>10, <1>11 DEF Proxy!Types, ProxyCall, ProxyPool, ProxyEntry
<1>13. Proxy!Members(v1) /\ Proxy!Members(v2)
  BY <1>6, <1>10 DEF Proxy!Members, ProxyPool, ProxyMembers
<1>14. \A p \in v1 : p.status # "checking"
  BY <1>3, <1>5
<1>15. Proxy!Orderly
  BY <1>6, <1>9 DEF Proxy!Orderly, Proxy!Pending, Proxy!Checks
<1> QED
  BY <1>12, <1>13, <1>14, <1>15 DEF Proxy!Inv

LEMMA ProxyShown == ASSUME Proxy!Inv PROVE Proxy!ProxiesSound
<1>1. Proxy!UniqueUrls /\ Proxy!DeadIsFailed
  BY ProxyInv DEF Proxy!Members, Proxy!UniqueUrls, Proxy!DeadIsFailed
<1>2. Proxy!CheckingIsChecked
  BY DEF Proxy!Inv, Proxy!CheckingIsChecked
<1>3. Proxy!RowsAgree
  <2>1. v11 = {} => ~Proxy!Doomed
    BY DEF Proxy!Doomed
  <2>2. Proxy!Orderly /\ v11 = {} => v5 = Proxy!Rows(v1)
    BY DEF Proxy!Orderly, Proxy!Checks, Proxy!Rows
  <2> QED
    BY <2>1, <2>2, ProxyInv DEF Proxy!RowsAgree
<1> QED
  BY <1>1, <1>2, <1>3 DEF Proxy!ProxiesSound

LEMMA ProxyNext == ASSUME Proxy!Inv, Proxy!Next PROVE Proxy!Inv'
BY ProxyListServed, ProxyAddProxy, ProxyBatchAdd, ProxyRemoveProxy, ProxyRemoveProxies,
   ProxyCheckBegin, ProxyCheckEnd, ProxyCrash, ProxyListAnswered, ProxyChangeAnswered,
   ProxyBatchAnswered, ProxyCheckAnswered, ProxyCheckAllAnswered, ProxyAsks, ProxyCheckOne
DEF Proxy!Next

-----------------------------------------------------------------------------
(* The login page: kind v1, redeemed v4, accounts v5, login v7, mount v9,  *)
(* connections v12, calls v13, sleeping v14, made v15, strayed v16, clean  *)
(* v17.                                                                    *)

\* A request whose session is redeemed if it is in red and the request knows it.
LoginCall(c, red) ==
    /\ c = [no |-> c.no, what |-> c.what, id |-> c.id, mount |-> c.mount,
            holds |-> c.holds, stage |-> c.stage, res |-> c.res, got |-> c.got,
            live |-> c.live]
    /\ c.live \in BOOLEAN
    /\ c.stage = "redeemed" \/ c.res = "completed" => c.what \in {"poll", "complete"}
    /\ (c.stage = "redeemed" \/ c.res = "completed" => c.id \in red)
    /\ c.stage # "done" => c.res = "none"
    /\ c.stage = "done" /\ c.what = "complete" => c.res \in {"completed", "error"}
    /\ c.stage = "done" /\ c.what \notin {"poll", "complete"} => c.res \in {"ok", "error"}

\* One that has nothing to do with that.
LoginIdle(c) ==
    /\ c = [no |-> c.no, what |-> c.what, id |-> c.id, mount |-> c.mount,
            holds |-> c.holds, stage |-> c.stage, res |-> c.res, got |-> c.got,
            live |-> c.live]
    /\ c.live \in BOOLEAN
    /\ c.stage # "redeemed" /\ c.res # "completed"
    /\ c.stage # "done" => c.res = "none"
    /\ c.stage = "done" /\ c.what = "complete" => c.res \in {"completed", "error"}
    /\ c.stage = "done" /\ c.what \notin {"poll", "complete"} => c.res \in {"ok", "error"}

\* What becomes of c when it is answered, and when the page gives it up.
LoginDone(c, id, res, got) ==
    [no |-> c.no, what |-> c.what, id |-> id, mount |-> c.mount, holds |-> c.holds,
     stage |-> "done", res |-> res, got |-> got, live |-> c.live]
LoginLate(c) ==
    [no |-> c.no, what |-> c.what, id |-> c.id, mount |-> c.mount, holds |-> c.holds,
     stage |-> c.stage, res |-> c.res, got |-> c.got, live |-> FALSE]

\* An answer to c; nobody hears it if it is late.
LoginAnswer(c, id, res, got) ==
    v13' = (v13 \ {c}) \cup (IF c.live THEN {LoginDone(c, id, res, got)} ELSE {})

LEMMA LoginCalls ==
    ASSUME Login!Inv
    PROVE  \A c \in v13 : LoginCall(c, v4)
BY DEF Login!Inv, Login!CallTypes, LoginCall

LEMMA LoginIdles ==
    \A c, red : /\ LoginIdle(c) => LoginCall(c, red)
                /\ LoginCall(c, red) /\ c.stage = "sent" => LoginIdle(c)
BY DEF LoginIdle, LoginCall

\* Requests come and go, but none is redeemed.
LEMMA LoginSafe ==
    ASSUME Login!Inv, NEW c, NEW d, NEW N,
           LoginIdle(d) \/ (/\ c \in v13 /\ LoginCall(d, v4)
                            /\ d.stage = c.stage /\ d.id = c.id /\ d.res = c.res),
           \A n \in N : LoginIdle(n),
           v13' \subseteq (v13 \ {c}) \cup {d} \cup N, v4' = v4
    PROVE  /\ Login!CallTypes' /\ Login!RedeemedOnce'
           /\ \A s : Login!Redeemed(s)' => Login!Redeemed(s)
           /\ v7' = v7 \/ v7'.status # "completed" => Login!CompletedIsAdded'
<1>1. \A e \in v13' : LoginCall(e, v4)
  BY LoginCalls, LoginIdles
<1>2. \A e \in v13' : \/ LoginIdle(e)
                      \/ e = d /\ c \in v13 /\ d.stage = c.stage /\ d.id = c.id /\ d.res = c.res
                      \/ e \in v13 /\ e # c
  OBVIOUS
<1>3. Login!CallTypes'
  BY <1>1 DEF Login!CallTypes, LoginCall
<1>4. Login!RedeemedOnce
  BY DEF Login!Inv
<1>5. \A s : Login!Redeemed(s)' => Login!Redeemed(s)
  BY <1>2 DEF Login!Redeemed, LoginIdle
<1>6. ASSUME NEW e \in v13', NEW f \in v13', e.stage = "redeemed", f.stage = "redeemed",
             e.id = f.id
      PROVE  e = f
  BY <1>2, <1>4, <1>6 DEF Login!RedeemedOnce, LoginIdle
<1>7. ASSUME NEW e \in v13', e.res = "completed"
      PROVE  ~Login!Redeemed(e.id)'
  BY <1>2, <1>4, <1>5, <1>7 DEF Login!RedeemedOnce, LoginIdle
<1>8. Login!RedeemedOnce'
  BY <1>6, <1>7 DEF Login!RedeemedOnce
<1>9. v7' = v7 \/ v7'.status # "completed" => Login!CompletedIsAdded'
  BY <1>5 DEF Login!Inv, Login!CompletedIsAdded, Login!Redeemed
<1> QED
  BY <1>3, <1>5, <1>8, <1>9

\* A login that is awaited stays one that is polled, if its requests do.
LEMMA LoginAwaited ==
    ASSUME Login!Inv, v1' = v1, v7' = v7 \/ v7'.status \notin {"polling", "slow_down"},
           v14 \subseteq v14', v16' = v16,
           \A c \in v13 : c.what = "poll" /\ c.live =>
               \/ c.id \in v14'
               \/ \E d \in v13' : d.what = "poll" /\ d.live /\ d.id = c.id
    PROVE  Login!AwaitedIsPolled'
BY DEF Login!Inv, Login!AwaitedIsPolled

\* The list comes as before, if the requests for it and those that lead to one
\* are still there.
LEMMA LoginListStays ==
    ASSUME Login!Inv, v17, v5' = v5, v12' = v12,
           \A c \in v13' : c \in v13 \/ c.live \/ c.what = "start",
           \A c \in v13' : c.what = "fetch" => c \in v13,
           \A c \in v13 : c.what = "fetch" \/ Login!Follows(c) => c \in v13'
    PROVE  Login!ListComes'
<1>1. Login!ListComes
  BY DEF Login!Inv
<1>2. Login!Fetches' = Login!Fetches
  BY DEF Login!Fetches
<1>3. (\E c \in v13 : Login!Follows(c)) => \E c \in v13' : Login!Follows(c)
  OBVIOUS
<1> QED
  BY <1>1, <1>2, <1>3 DEF Login!ListComes, Login!Follows

LEMMA LoginSame ==
    ASSUME Login!Inv, UNCHANGED <<v1, v4, v5, v7, v12, v13, v14, v16, v17>>
    PROVE  Login!Inv'
BY DEF Login!Inv, Login!CallTypes, Login!RedeemedOnce, Login!Redeemed, Login!CompletedIsAdded,
       Login!AwaitedIsPolled, Login!ListComes, Login!Fetches, Login!Follows

\* An answer that nobody hears is dropped.
LEMMA LoginAnswered ==
    ASSUME NEW c \in v13, LoginCall(c, v4), NEW r, NEW id, NEW res, NEW got,
           r = [no |-> c.no, what |-> c.what, id |-> id, mount |-> c.mount, holds |-> c.holds,
                stage |-> c.stage, res |-> res, got |-> got, live |-> c.live],
           Login!Answer(c, r)
    PROVE  LoginAnswer(c, id, res, got)
<1>1. PICK d : d = [r EXCEPT !.stage = "done"]
  OBVIOUS
<1>2. d = LoginDone(c, id, res, got)
  BY <1>1 DEF LoginDone
<1>3. v13' = (v13 \ {c}) \cup {[e EXCEPT !.stage = "done"] : e \in IF c.live THEN {r} ELSE {}}
  BY DEF Login!Answer
<1>4. {[e EXCEPT !.stage = "done"] : e \in IF c.live THEN {r} ELSE {}}
         = IF c.live THEN {d} ELSE {}
  BY <1>1
<1> QED
  BY <1>2, <1>3, <1>4 DEF LoginAnswer

\* Result(c, res), and the answers with a session or a list.
LEMMA LoginResults ==
    ASSUME NEW c, LoginCall(c, v4), NEW res, NEW x
    PROVE  /\ Login!Result(c, res) =
                [no |-> c.no, what |-> c.what, id |-> c.id, mount |-> c.mount,
                 holds |-> c.holds, stage |-> c.stage, res |-> res, got |-> c.got,
                 live |-> c.live]
           /\ [c EXCEPT !.id = x, !.res = res] =
                [no |-> c.no, what |-> c.what, id |-> x, mount |-> c.mount,
                 holds |-> c.holds, stage |-> c.stage, res |-> res, got |-> c.got,
                 live |-> c.live]
           /\ [c EXCEPT !.res = res, !.got = x] =
                [no |-> c.no, what |-> c.what, id |-> c.id, mount |-> c.mount,
                 holds |-> c.holds, stage |-> c.stage, res |-> res, got |-> x,
                 live |-> c.live]
           /\ [c EXCEPT !.stage = x] =
                [no |-> c.no, what |-> c.what, id |-> c.id, mount |-> c.mount,
                 holds |-> c.holds, stage |-> x, res |-> c.res, got |-> c.got,
                 live |-> c.live]
<1>1. PICK f1, f2, f3, f4, f5, f6, f7, f8, f9 :
         c = [no |-> f1, what |-> f2, id |-> f3, mount |-> f4, holds |-> f5, stage |-> f6,
              res |-> f7, got |-> f8, live |-> f9]
  BY DEF LoginCall
<1>2. Login!Result(c, res) =
         [no |-> f1, what |-> f2, id |-> f3, mount |-> f4, holds |-> f5, stage |-> f6,
          res |-> res, got |-> f8, live |-> f9]
  <2>1. PICK d : d = [c EXCEPT !.res = res]
    OBVIOUS
  <2> QED
    BY <1>1, <2>1 DEF Login!Result
<1>3. [c EXCEPT !.id = x, !.res = res] =
         [no |-> f1, what |-> f2, id |-> x, mount |-> f4, holds |-> f5, stage |-> f6,
          res |-> res, got |-> f8, live |-> f9]
  <2>1. PICK d : d = [c EXCEPT !.id = x, !.res = res]
    OBVIOUS
  <2>2. d = [no |-> f1, what |-> f2, id |-> x, mount |-> f4, holds |-> f5, stage |-> f6,
             res |-> res, got |-> f8, live |-> f9]
    BY <1>1, <2>1
  <2> QED
    BY <2>1, <2>2
<1>4. [c EXCEPT !.res = res, !.got = x] =
         [no |-> f1, what |-> f2, id |-> f3, mount |-> f4, holds |-> f5, stage |-> f6,
          res |-> res, got |-> x, live |-> f9]
  <2>1. PICK d : d = [c EXCEPT !.res = res, !.got = x]
    OBVIOUS
  <2>2. d = [no |-> f1, what |-> f2, id |-> f3, mount |-> f4, holds |-> f5, stage |-> f6,
             res |-> res, got |-> x, live |-> f9]
    BY <1>1, <2>1
  <2> QED
    BY <2>1, <2>2
<1>5. [c EXCEPT !.stage = x] =
         [no |-> f1, what |-> f2, id |-> f3, mount |-> f4, holds |-> f5, stage |-> x,
          res |-> f7, got |-> f8, live |-> f9]
  BY <1>1
<1>6. /\ c.no = f1 /\ c.what = f2 /\ c.id = f3 /\ c.mount = f4 /\ c.holds = f5
      /\ c.stage = f6 /\ c.res = f7 /\ c.got = f8 /\ c.live = f9
  BY <1>1
<1> QED
  BY <1>2, <1>3, <1>4, <1>5, <1>6

LEMMA LoginResultAnswered ==
    ASSUME NEW c \in v13, LoginCall(c, v4), NEW res, Login!Answer(c, Login!Result(c, res))
    PROVE  LoginAnswer(c, c.id, res, c.got)
<1>1. PICK r : r = Login!Result(c, res)
  OBVIOUS
<1>2. r = [no |-> c.no, what |-> c.what, id |-> c.id, mount |-> c.mount, holds |-> c.holds,
           stage |-> c.stage, res |-> res, got |-> c.got, live |-> c.live]
  BY <1>1, LoginResults
<1>3. Login!Answer(c, r)
  BY <1>1
<1> QED
  BY <1>2, <1>3, LoginAnswered

\* A request that had been sent is answered, without redeeming anything and without
\* a list.
LEMMA LoginServed ==
    ASSUME Login!Inv, NEW c \in v13, c.stage = "sent", NEW id, NEW res, NEW got,
           res # "completed", c.what \notin {"poll", "complete"} => res \in {"ok", "error"},
           c.what = "complete" => res = "error", c.what # "poll" \/ id = c.id,
           LoginAnswer(c, id, res, got),
           UNCHANGED <<v1, v4, v7, v12, v14, v16, v17>>,
           c.what \in {"start", "poll", "complete"} => v5' = v5,
           c.what = "fetch" => v5' = v5, c.what = "fetch" /\ res # "error" => got = v5
    PROVE  Login!Inv'
<1>0. LoginCall(c, v4)
  BY LoginCalls
<1>1. PICK d : d = LoginDone(c, id, res, got)
  OBVIOUS
<1>2. /\ d = [no |-> d.no, what |-> d.what, id |-> d.id, mount |-> d.mount,
              holds |-> d.holds, stage |-> d.stage, res |-> d.res, got |-> d.got,
              live |-> d.live]
      /\ d.stage = "done" /\ d.what = c.what /\ d.live = c.live /\ d.id = id
      /\ d.res = res /\ d.got = got
  BY <1>1 DEF LoginDone
<1>3. LoginIdle(d)
  BY <1>0, <1>2 DEF LoginCall, LoginIdle
<1>4. v13' = (v13 \ {c}) \cup (IF c.live THEN {d} ELSE {})
  BY <1>1 DEF LoginAnswer
<1>5. Login!CallTypes' /\ Login!RedeemedOnce' /\ Login!CompletedIsAdded'
  <2>1. PICK N : N = {}
    OBVIOUS
  <2>2. v13' \subseteq (v13 \ {c}) \cup {d} \cup N
    BY <1>4
  <2>3. v4' = v4 /\ v7' = v7 /\ \A n \in N : LoginIdle(n)
    BY <2>1
  <2> QED
    BY <1>3, <2>2, <2>3, LoginSafe
<1>6. Login!AwaitedIsPolled'
  <2>1. ASSUME NEW e \in v13, e.what = "poll", e.live
        PROVE  \E f \in v13' : f.what = "poll" /\ f.live /\ f.id = e.id
    BY <1>2, <1>4, <2>1
  <2> QED
    BY <2>1, LoginAwaited
<1>7. ASSUME v17 PROVE Login!ListComes'
  <2>1. Login!ListComes
    BY <1>7 DEF Login!Inv
  <2>2. \A e \in v13' : e.live \/ e.what = "start"
    BY <1>2, <1>4, <2>1 DEF Login!ListComes
  <2>3. CASE c.what \in {"start", "poll", "complete"}
    <3>1. ~Login!Follows(c) /\ c.what # "fetch" /\ d.what # "fetch"
      BY <1>2, <2>3 DEF Login!Follows
    <3> QED
      BY <1>4, <1>7, <2>2, <2>3, <3>1, LoginListStays
  <2>4. CASE c.what \notin {"start", "poll", "complete", "fetch"}
    <3>1. d \in v13'
      BY <1>4, <2>1, <2>4 DEF Login!ListComes
    <3>2. Login!Follows(d)
      BY <1>2, <2>4 DEF Login!Follows
    <3>3. Login!Fetches' = Login!Fetches
      BY <1>2, <1>4, <2>4 DEF Login!Fetches
    <3>4. \E e \in v13' : Login!Follows(e)
      BY <3>1, <3>2
    <3> QED
      BY <2>1, <2>2, <3>3, <3>4 DEF Login!ListComes, Login!Follows
  <2>5. CASE c.what = "fetch"
    <3>1. d \in v13' /\ c.live
      BY <1>4, <2>1, <2>5 DEF Login!ListComes
    <3>2. Login!Fetches = {c}
      BY <2>1, <2>5 DEF Login!ListComes, Login!Fetches
    <3>3. Login!Fetches' = {d}
      BY <1>2, <1>4, <2>5, <3>1, <3>2 DEF Login!Fetches
    <3>4. d.res \in {"ok", "error"} /\ d.stage = "done"
      BY <1>2, <2>5
    <3>5. d.res # "error" => d.got = v5'
      BY <1>2, <2>5
    <3> QED
      BY <2>2, <3>3, <3>4, <3>5 DEF Login!ListComes
  <2> QED
    BY <2>3, <2>4, <2>5
<1> QED
  BY <1>5, <1>6, <1>7 DEF Login!Inv

LEMMA LoginStartServed == ASSUME Login!Inv, Login!StartServed PROVE Login!Inv'
<1>1. PICK c \in v13 :
         /\ c.what = "start" /\ c.stage = "sent"
         /\ \/ Login!Answer(c, [c EXCEPT !.id = v6 + 1, !.res = "ok"])
            \/ Login!Answer(c, Login!Result(c, "error"))
  BY DEF Login!StartServed, Login!Sent
<1>2. UNCHANGED <<v1, v4, v5, v7, v12, v14, v16, v17>>
  BY DEF Login!StartServed
<1>3. LoginCall(c, v4)
  BY LoginCalls
<1>4. PICK n : n = v6 + 1
  OBVIOUS
<1>5. CASE Login!Answer(c, [c EXCEPT !.id = v6 + 1, !.res = "ok"])
  <2>1. Login!Answer(c, [c EXCEPT !.id = n, !.res = "ok"])
    BY <1>4, <1>5
  <2>2. LoginAnswer(c, n, "ok", c.got)
    <3>1. PICK r : r = [c EXCEPT !.id = n, !.res = "ok"]
      OBVIOUS
    <3>2. r = [no |-> c.no, what |-> c.what, id |-> n, mount |-> c.mount, holds |-> c.holds,
               stage |-> c.stage, res |-> "ok", got |-> c.got, live |-> c.live]
      BY <1>3, <3>1, LoginResults
    <3> QED
      BY <1>3, <2>1, <3>1, <3>2, LoginAnswered
  <2> QED
    BY <1>1, <1>2, <2>2, LoginServed
<1>6. CASE Login!Answer(c, Login!Result(c, "error"))
  <2>1. LoginAnswer(c, c.id, "error", c.got)
    BY <1>3, <1>6, LoginResultAnswered
  <2> QED
    BY <1>1, <1>2, <2>1, LoginServed
<1> QED
  BY <1>1, <1>5, <1>6

\* An approved session is redeemed, once.
LEMMA LoginRedeemed ==
    ASSUME Login!Inv, NEW c \in v13, c.stage = "sent", c.what \in {"poll", "complete"},
           c.id \notin v4, v4' = v4 \cup {c.id},
           v13' = (v13 \ {c}) \cup {[c EXCEPT !.stage = "redeemed"]},
           UNCHANGED <<v1, v5, v7, v12, v14, v16, v17>>
    PROVE  Login!Inv'
<1>0. \A e \in v13 : LoginCall(e, v4)
  BY LoginCalls
<1>1. PICK d : d = [c EXCEPT !.stage = "redeemed"]
  OBVIOUS
<1>2. d = [no |-> c.no, what |-> c.what, id |-> c.id, mount |-> c.mount, holds |-> c.holds,
           stage |-> "redeemed", res |-> c.res, got |-> c.got, live |-> c.live]
  BY <1>0, <1>1, LoginResults
<1>3. /\ d = [no |-> d.no, what |-> d.what, id |-> d.id, mount |-> d.mount,
              holds |-> d.holds, stage |-> d.stage, res |-> d.res, got |-> d.got,
              live |-> d.live]
      /\ d.stage = "redeemed" /\ d.what = c.what /\ d.live = c.live /\ d.id = c.id
      /\ d.res = c.res
  BY <1>2
<1>4. v13' = (v13 \ {c}) \cup {d}
  BY <1>1
<1>5. Login!CallTypes' /\ \A e \in v13' : LoginCall(e, v4')
  <2>1. LoginCall(d, v4')
    BY <1>0, <1>3 DEF LoginCall
  <2>2. \A e \in v13 : LoginCall(e, v4')
    BY <1>0 DEF LoginCall
  <2>3. \A e \in v13' : LoginCall(e, v4')
    BY <1>4, <2>1, <2>2
  <2> QED
    BY <2>3 DEF Login!CallTypes, LoginCall
<1>6. Login!RedeemedOnce
  BY DEF Login!Inv
<1>7. \A e \in v13 : e.stage = "redeemed" \/ e.res = "completed" => e.id # c.id
  BY <1>0 DEF LoginCall
<1>8. \A s : Login!Redeemed(s)' <=> s = c.id \/ Login!Redeemed(s)
  <2>1. ASSUME NEW s, Login!Redeemed(s)' PROVE s = c.id \/ Login!Redeemed(s)
    BY <1>3, <1>4, <2>1 DEF Login!Redeemed
  <2>2. ASSUME NEW s, Login!Redeemed(s) PROVE Login!Redeemed(s)'
    BY <1>4, <2>2 DEF Login!Redeemed
  <2>3. Login!Redeemed(c.id)'
    BY <1>3, <1>4 DEF Login!Redeemed
  <2> QED
    BY <2>1, <2>2, <2>3
<1>9. Login!RedeemedOnce'
  <2>1. ASSUME NEW e \in v13', NEW f \in v13', e.stage = "redeemed", f.stage = "redeemed",
               e.id = f.id
        PROVE  e = f
    BY <1>3, <1>4, <1>6, <1>7, <2>1 DEF Login!RedeemedOnce
  <2>2. ASSUME NEW e \in v13', e.res = "completed" PROVE ~Login!Redeemed(e.id)'
    <3>1. c.res # "completed"
      BY <1>0 DEF LoginCall
    <3>2. e \in v13 /\ e.id # c.id
      BY <1>3, <1>4, <1>7, <2>2, <3>1
    <3> QED
      BY <1>6, <1>8, <2>2, <3>2 DEF Login!RedeemedOnce
  <2> QED
    BY <2>1, <2>2 DEF Login!RedeemedOnce
<1>10. Login!CompletedIsAdded'
  BY <1>8 DEF Login!Inv, Login!CompletedIsAdded, Login!Redeemed
<1>11. Login!AwaitedIsPolled'
  <2>1. ASSUME NEW e \in v13, e.what = "poll", e.live
        PROVE  \E f \in v13' : f.what = "poll" /\ f.live /\ f.id = e.id
    BY <1>3, <1>4, <2>1
  <2> QED
    BY <2>1, LoginAwaited
<1>12. ASSUME v17 PROVE Login!ListComes'
  <2>1. c.live
    BY <1>12 DEF Login!Inv, Login!ListComes
  <2>2. ~Login!Follows(c) /\ c.what # "fetch" /\ d.what # "fetch" /\ d.live
    BY <1>3, <2>1 DEF Login!Follows
  <2> QED
    BY <1>4, <1>12, <2>2, LoginListStays
<1> QED
  BY <1>5, <1>9, <1>10, <1>11, <1>12 DEF Login!Inv

LEMMA LoginTokenServed == ASSUME Login!Inv, Login!TokenServed PROVE Login!Inv'
<1>1. PICK c \in v13 :
         /\ c.what \in {"poll", "complete"} /\ c.stage = "sent"
         /\ \/ /\ c.id \notin v4 /\ v4' = v4 \cup {c.id}
               /\ v13' = (v13 \ {c}) \cup {[c EXCEPT !.stage = "redeemed"]}
            \/ /\ \E res \in {"pending", "slow_down", "error"} :
                     /\ c.what = "poll" \/ res = "error"
                     /\ Login!Answer(c, Login!Result(c, res))
               /\ UNCHANGED v4
  BY DEF Login!TokenServed, Login!Sent
<1>2. UNCHANGED <<v1, v5, v7, v12, v14, v16, v17>>
  BY DEF Login!TokenServed
<1>3. CASE /\ c.id \notin v4 /\ v4' = v4 \cup {c.id}
           /\ v13' = (v13 \ {c}) \cup {[c EXCEPT !.stage = "redeemed"]}
  BY <1>1, <1>2, <1>3, LoginRedeemed
<1>4. ASSUME NEW res \in {"pending", "slow_down", "error"}, c.what = "poll" \/ res = "error",
             Login!Answer(c, Login!Result(c, res)), UNCHANGED v4
      PROVE  Login!Inv'
  <2>1. LoginCall(c, v4)
    BY LoginCalls
  <2>2. LoginAnswer(c, c.id, res, c.got)
    BY <1>4, <2>1, LoginResultAnswered
  <2> QED
    BY <1>1, <1>2, <1>4, <2>2, LoginServed
<1> QED
  BY <1>1, <1>3, <1>4

LEMMA LoginCommandServed == ASSUME Login!Inv, Login!CommandServed PROVE Login!Inv'
<1>1. PICK c \in v13 :
         /\ c.what \in {"fetch", "add", "remove", "refresh"} /\ c.stage = "sent"
         /\ \/ /\ c.what = "fetch" => v5' = v5
               /\ Login!Answer(c, [c EXCEPT !.res = "ok", !.got = v5])
            \/ Login!Answer(c, Login!Result(c, "error")) /\ UNCHANGED v5
  BY DEF Login!CommandServed, Login!Sent
<1>2. UNCHANGED <<v1, v4, v7, v12, v14, v16, v17>>
  BY DEF Login!CommandServed
<1>3. LoginCall(c, v4)
  BY LoginCalls
<1>4. CASE /\ c.what = "fetch" => v5' = v5
           /\ Login!Answer(c, [c EXCEPT !.res = "ok", !.got = v5])
  <2>1. PICK s : s = v5
    OBVIOUS
  <2>2. PICK r : r = [c EXCEPT !.res = "ok", !.got = s]
    OBVIOUS
  <2>3. r = [no |-> c.no, what |-> c.what, id |-> c.id, mount |-> c.mount,
             holds |-> c.holds, stage |-> c.stage, res |-> "ok", got |-> s, live |-> c.live]
    BY <1>3, <2>2, LoginResults
  <2>4. Login!Answer(c, r)
    BY <1>4, <2>1, <2>2
  <2>5. LoginAnswer(c, c.id, "ok", s)
    BY <1>3, <2>3, <2>4, LoginAnswered
  <2> QED
    BY <1>1, <1>2, <1>4, <2>1, <2>5, LoginServed
<1>5. CASE Login!Answer(c, Login!Result(c, "error")) /\ UNCHANGED v5
  <2>1. PICK i, g, r : i = c.id /\ g = c.got /\ r = "error"
    OBVIOUS
  <2>2. LoginAnswer(c, i, r, g)
    BY <1>3, <1>5, <2>1, LoginResultAnswered
  <2>3. c.stage = "sent" /\ c.what # "poll" /\ c.what # "complete"
    BY <1>1
  <2>4. v5' = v5
    BY <1>5
  <2>5. r = "error" /\ r # "completed" /\ r \in {"ok", "error"}
    BY <2>1
  <2>6. c \in v13
    BY <1>1
  <2>7. LoginAnswer(c, i, "error", g)
    BY <2>2, <2>5
  <2> QED
    BY <1>2, <2>3, <2>4, <2>6, <2>7, LoginServed
<1> QED
  BY <1>1, <1>4, <1>5

LEMMA LoginAccountAdded == ASSUME Login!Inv, Login!AccountAdded PROVE Login!Inv'
<1>0. \A e \in v13 : LoginCall(e, v4)
  BY LoginCalls
<1>1. PICK c \in v13 :
         /\ c.stage = "redeemed"
         /\ \E res \in {"completed", "error"} : Login!Answer(c, Login!Result(c, res))
  BY DEF Login!AccountAdded
<1>2. PICK res \in {"completed", "error"} : Login!Answer(c, Login!Result(c, res))
  BY <1>1
<1>3. UNCHANGED <<v1, v4, v7, v12, v14, v16, v17>>
  BY DEF Login!AccountAdded
<1>4. PICK d : d = LoginDone(c, c.id, res, c.got)
  OBVIOUS
<1>5. /\ d = [no |-> d.no, what |-> d.what, id |-> d.id, mount |-> d.mount,
              holds |-> d.holds, stage |-> d.stage, res |-> d.res, got |-> d.got,
              live |-> d.live]
      /\ d.stage = "done" /\ d.what = c.what /\ d.live = c.live /\ d.id = c.id
      /\ d.res = res
  BY <1>4 DEF LoginDone
<1>6. v13' = (v13 \ {c}) \cup (IF c.live THEN {d} ELSE {})
  <2>1. LoginAnswer(c, c.id, res, c.got)
    BY <1>0, <1>2, LoginResultAnswered
  <2> QED
    BY <1>4, <2>1 DEF LoginAnswer
<1>7. c.what \in {"poll", "complete"} /\ c.id \in v4
  BY <1>0, <1>1 DEF LoginCall
<1>8. LoginCall(d, v4)
  BY <1>0, <1>5, <1>7 DEF LoginCall
<1>9. Login!CallTypes'
  <2>1. \A e \in v13' : LoginCall(e, v4)
    BY <1>0, <1>6, <1>8
  <2> QED
    BY <1>3, <2>1 DEF Login!CallTypes, LoginCall
<1>10. Login!RedeemedOnce
  BY DEF Login!Inv
<1>11. \A s : Login!Redeemed(s)' <=> s # c.id /\ Login!Redeemed(s)
  <2>1. ASSUME NEW e \in v13', e.stage = "redeemed" PROVE e \in v13 \ {c} /\ e.id # c.id
    BY <1>1, <1>5, <1>6, <1>10, <2>1 DEF Login!RedeemedOnce
  <2>2. v13 \ {c} \subseteq v13'
    BY <1>6
  <2>3. ASSUME NEW s, Login!Redeemed(s)' PROVE s # c.id /\ Login!Redeemed(s)
    BY <2>1, <2>3 DEF Login!Redeemed
  <2>4. ASSUME NEW s, Login!Redeemed(s), s # c.id PROVE Login!Redeemed(s)'
    BY <2>2, <2>4 DEF Login!Redeemed
  <2> QED
    BY <2>3, <2>4
<1>12. Login!RedeemedOnce'
  <2>1. ASSUME NEW e \in v13', NEW f \in v13', e.stage = "redeemed", f.stage = "redeemed",
               e.id = f.id
        PROVE  e = f
    BY <1>5, <1>6, <1>10, <2>1 DEF Login!RedeemedOnce
  <2>2. ASSUME NEW e \in v13', e.res = "completed" PROVE ~Login!Redeemed(e.id)'
    BY <1>5, <1>6, <1>10, <1>11, <2>2 DEF Login!RedeemedOnce
  <2> QED
    BY <2>1, <2>2 DEF Login!RedeemedOnce
<1>13. Login!CompletedIsAdded'
  BY <1>3, <1>11 DEF Login!Inv, Login!CompletedIsAdded, Login!Redeemed
<1>14. Login!AwaitedIsPolled'
  <2>1. ASSUME NEW e \in v13, e.what = "poll", e.live
        PROVE  \E f \in v13' : f.what = "poll" /\ f.live /\ f.id = e.id
    BY <1>5, <1>6, <2>1
  <2> QED
    BY <1>3, <2>1, LoginAwaited
<1>15. ASSUME v17 PROVE Login!ListComes'
  <2>1. Login!ListComes
    BY <1>15 DEF Login!Inv
  <2>2. c.live /\ d \in v13'
    BY <1>6, <1>7, <2>1 DEF Login!ListComes
  <2>3. Login!Follows(d)
    BY <1>5, <1>7 DEF Login!Follows
  <2>4. Login!Fetches' = Login!Fetches
    BY <1>5, <1>6, <1>7 DEF Login!Fetches
  <2>5. \A e \in v13' : e.live \/ e.what = "start"
    BY <1>5, <1>6, <2>1, <2>2 DEF Login!ListComes
  <2>6. \E e \in v13' : Login!Follows(e)
    BY <2>2, <2>3
  <2> QED
    BY <2>1, <2>4, <2>5, <2>6 DEF Login!ListComes, Login!Follows
<1> QED
  BY <1>3, <1>9, <1>12, <1>13, <1>14, <1>15 DEF Login!Inv

\* What is left of the requests when the page has heard of c.
LEMMA LoginRest ==
    ASSUME NEW c \in v13, LoginCall(c, v4)
    PROVE  \/ c.stage = "done" /\ Login!Outcome(c) = c.res /\ Login!Rest(c) = v13 \ {c}
           \/ /\ c.stage # "done" /\ Login!Outcome(c) = "error"
              /\ Login!Rest(c) = (v13 \ {c}) \cup {LoginLate(c)}
<1>1. CASE c.stage = "done"
  BY <1>1 DEF Login!Rest, Login!Outcome
<1>2. CASE c.stage # "done"
  <2>1. PICK d : d = [c EXCEPT !.live = FALSE]
    OBVIOUS
  <2>2. PICK f1, f2, f3, f4, f5, f6, f7, f8, f9 :
           c = [no |-> f1, what |-> f2, id |-> f3, mount |-> f4, holds |-> f5,
                stage |-> f6, res |-> f7, got |-> f8, live |-> f9]
    BY DEF LoginCall
  <2>3. d = [no |-> f1, what |-> f2, id |-> f3, mount |-> f4, holds |-> f5, stage |-> f6,
             res |-> f7, got |-> f8, live |-> FALSE]
    BY <2>1, <2>2
  <2>4. d = LoginLate(c)
    BY <2>2, <2>3 DEF LoginLate
  <2>5. Login!Rest(c) = (v13 \ {c}) \cup {d}
    BY <1>2, <2>1 DEF Login!Rest
  <2> QED
    BY <1>2, <2>4, <2>5 DEF Login!Outcome
<1> QED
  BY <1>1, <1>2

\* The page hears of c, and makes the requests of N.
LEMMA LoginHeardSafe ==
    ASSUME Login!Inv, NEW c \in v13, NEW N, \A n \in N : LoginIdle(n),
           v13' = Login!Rest(c) \cup N, v4' = v4
    PROVE  /\ Login!CallTypes' /\ Login!RedeemedOnce'
           /\ \A s : Login!Redeemed(s)' => Login!Redeemed(s)
           /\ v7' = v7 \/ v7'.status # "completed" => Login!CompletedIsAdded'
<1>1. LoginCall(c, v4)
  BY LoginCalls
<1>2. CASE Login!Rest(c) = v13 \ {c}
  <2>1. v13' \subseteq (v13 \ {c}) \cup {c} \cup N
    BY <1>2
  <2> QED
    BY <1>1, <2>1, LoginSafe
<1>3. CASE Login!Rest(c) = (v13 \ {c}) \cup {LoginLate(c)}
  <2>1. PICK d : d = LoginLate(c)
    OBVIOUS
  <2>2. LoginCall(d, v4) /\ d.stage = c.stage /\ d.id = c.id /\ d.res = c.res
    BY <1>1, <2>1 DEF LoginCall, LoginLate
  <2>3. v13' \subseteq (v13 \ {c}) \cup {d} \cup N
    BY <1>3, <2>1
  <2> QED
    BY <2>2, <2>3, LoginSafe
<1> QED
  BY <1>1, <1>2, <1>3, LoginRest

\* One more request, other than for the list.
LEMMA LoginAsks ==
    ASSUME Login!Inv, NEW what, NEW s, what # "fetch", Login!Request(v13, what, s),
           v4' = v4, v5' = v5, v12' = v12, v7' = v7 \/ v7'.status # "completed"
    PROVE  /\ Login!CallTypes' /\ Login!RedeemedOnce' /\ Login!CompletedIsAdded'
           /\ v17' \in BOOLEAN /\ (v17' => Login!ListComes')
           /\ v13 \subseteq v13' /\ \E n \in v13' : n.what = what /\ n.live /\ n.id = s
<1>1. PICK n : n = Login!Call(what, s)
  OBVIOUS
<1>2. LoginIdle(n) /\ n.what = what /\ n.id = s /\ n.live = TRUE /\ n.stage = "sent"
  <2>1. PICK k, h : k = v15 + 1 /\ h = Login!Holds(what)
    OBVIOUS
  <2>2. n = [no |-> k, what |-> what, id |-> s, mount |-> v9, holds |-> h, stage |-> "sent",
             res |-> "none", got |-> {}, live |-> TRUE]
    BY <1>1, <2>1 DEF Login!Call
  <2> QED
    BY <2>2 DEF LoginIdle
<1>3. v13' = v13 \cup {n} /\ (v17' <=> v17) /\ v17' \in BOOLEAN
  BY <1>1, <1>2 DEF Login!Request, Login!Requested
<1>4. Login!CallTypes' /\ Login!RedeemedOnce' /\ Login!CompletedIsAdded'
  <2>1. PICK N : N = {}
    OBVIOUS
  <2>2. v13' \subseteq (v13 \ {n}) \cup {n} \cup N /\ \A e \in N : LoginIdle(e)
    BY <1>3, <2>1
  <2> QED
    BY <1>2, <2>2, LoginSafe
<1>5. v17' => Login!ListComes'
  <2>1. n.what # "fetch"
    BY <1>2
  <2> QED
    BY <1>2, <1>3, <2>1, LoginListStays
<1> QED
  BY <1>2, <1>3, <1>4, <1>5

\* The handler of c, which was answered, goes on to fetch the list.
LEMMA LoginFollowed ==
    ASSUME Login!Inv, NEW c \in v13, c.stage = "done", Login!Followed(c), v4' = v4
    PROVE  /\ Login!CallTypes' /\ Login!RedeemedOnce'
           /\ \A s : Login!Redeemed(s)' => Login!Redeemed(s)
           /\ v7' = v7 \/ v7'.status # "completed" => Login!CompletedIsAdded'
           /\ v17' \in BOOLEAN /\ (v17' => Login!ListComes') /\ v13 \ {c} \subseteq v13'
<1>1. PICK n : n = [Login!Call("fetch", Login!NoSession) EXCEPT !.holds = c.holds, !.mount = c.mount]
  OBVIOUS
<1>2. PICK m, h : m = c.mount /\ h = c.holds
  OBVIOUS
<1>3. n = [no |-> n.no, what |-> "fetch", id |-> Login!NoSession, mount |-> m, holds |-> h,
           stage |-> "sent", res |-> "none", got |-> {}, live |-> TRUE]
  <2>1. PICK k : k = v15 + 1
    OBVIOUS
  <2>2. PICK e, g : e = Login!Call("fetch", Login!NoSession) /\ g = Login!Holds("fetch")
    OBVIOUS
  <2>3. e = [no |-> k, what |-> "fetch", id |-> Login!NoSession, mount |-> v9, holds |-> g,
             stage |-> "sent", res |-> "none", got |-> {}, live |-> TRUE]
    BY <2>1, <2>2 DEF Login!Call
  <2>4. n = [e EXCEPT !.holds = h, !.mount = m]
    BY <1>1, <1>2, <2>2
  <2>5. n = [no |-> k, what |-> "fetch", id |-> Login!NoSession, mount |-> m, holds |-> h,
             stage |-> "sent", res |-> "none", got |-> {}, live |-> TRUE]
    BY <2>3, <2>4
  <2> QED
    BY <2>5
<1>4. LoginIdle(n) /\ n.what = "fetch" /\ n.live = TRUE /\ n.stage = "sent"
  <2>1. PICK k, i : k = n.no /\ i = Login!NoSession
    OBVIOUS
  <2>2. n = [no |-> k, what |-> "fetch", id |-> i, mount |-> m, holds |-> h,
             stage |-> "sent", res |-> "none", got |-> {}, live |-> TRUE]
    BY <1>3, <2>1
  <2> QED
    BY <2>2 DEF LoginIdle
<1>5. Login!Requested(Login!Rest(c), n)
  BY <1>1 DEF Login!Followed
<1>6. Login!Rest(c) = v13 \ {c}
  BY LoginCalls, LoginRest
<1>7. /\ v13' = Login!Rest(c) \cup {n} /\ v17' \in BOOLEAN
      /\ v17' => v17 /\ \A d \in v13 \ {c} : d.what # "fetch"
  BY <1>4, <1>5, <1>6 DEF Login!Requested, Login!Inv
<1>8. /\ Login!CallTypes' /\ Login!RedeemedOnce'
      /\ \A s : Login!Redeemed(s)' => Login!Redeemed(s)
      /\ v7' = v7 \/ v7'.status # "completed" => Login!CompletedIsAdded'
  <2>1. PICK N : N = {n}
    OBVIOUS
  <2>2. v13' = Login!Rest(c) \cup N /\ \A e \in N : LoginIdle(e)
    BY <1>4, <1>7, <2>1
  <2> QED
    BY <2>2, LoginHeardSafe
<1>9. ASSUME v17' PROVE Login!ListComes'
  <2>1. \A e \in v13' : e.live \/ e.what = "start"
    BY <1>4, <1>6, <1>7, <1>9 DEF Login!Inv, Login!ListComes
  <2>2. Login!Fetches' = {n}
    BY <1>4, <1>6, <1>7, <1>9 DEF Login!Fetches
  <2> QED
    BY <1>4, <2>1, <2>2 DEF Login!ListComes
<1> QED
  BY <1>6, <1>7, <1>8, <1>9

\* The user starts a login, completes or cancels it, or gives another command.
LEMMA LoginUser ==
    ASSUME Login!Inv, v7' = v7 \/ (/\ v7' = Login!Shown(v7'.id, v7'.status)
                                   /\ v7'.status \notin {"completed", "polling", "slow_down"}),
           UNCHANGED <<v1, v4, v5, v12, v14, v16>>,
           NEW what \in {"start", "complete", "add", "remove", "refresh"}, NEW s,
           Login!Request(v13, what, s)
    PROVE  Login!Inv'
<1>1. v7' = Login!Shown(v7'.id, v7'.status)
  BY DEF Login!Inv
<1>2. /\ Login!CallTypes' /\ Login!RedeemedOnce' /\ Login!CompletedIsAdded'
      /\ v17' \in BOOLEAN /\ (v17' => Login!ListComes') /\ v13 \subseteq v13'
  BY LoginAsks
<1>3. Login!AwaitedIsPolled'
  BY <1>2, LoginAwaited
<1> QED
  BY <1>1, <1>2, <1>3 DEF Login!Inv

LEMMA LoginHandleStart == ASSUME Login!Inv, Login!handleStart PROVE Login!Inv'
<1>1. /\ v7' = Login!NoLogin /\ UNCHANGED <<v1, v4, v5, v12, v14, v16>>
      /\ Login!Request(v13, "start", Login!NoSession)
  BY DEF Login!handleStart, Login!server
<1>2. v7' = Login!Shown(v7'.id, v7'.status) /\ v7'.status = "idle"
  BY <1>1 DEF Login!NoLogin, Login!Shown
<1> QED
  BY <1>1, <1>2, LoginUser

LEMMA LoginHandleComplete == ASSUME Login!Inv, Login!handleComplete PROVE Login!Inv'
<1>1. /\ v7' = Login!Shown(v7.id, "completing") /\ UNCHANGED <<v1, v4, v5, v12, v14, v16>>
      /\ Login!Request(v13, "complete", v7.id)
  BY DEF Login!handleComplete, Login!server
<1>2. v7' = Login!Shown(v7'.id, v7'.status) /\ v7'.status = "completing"
  BY <1>1 DEF Login!Shown
<1>3. PICK s : s = v7.id
  OBVIOUS
<1> QED
  BY <1>1, <1>2, <1>3, LoginUser

LEMMA LoginHandleSubmit == ASSUME Login!Inv, Login!handleSubmit PROVE Login!Inv'
<1>1. /\ v7' = v7 /\ UNCHANGED <<v1, v4, v5, v12, v14, v16>>
      /\ Login!Request(v13, "add", Login!Direct)
  BY DEF Login!handleSubmit, Login!server
<1> QED
  BY <1>1, LoginUser

LEMMA LoginCardCommand == ASSUME Login!Inv, Login!CardCommand PROVE Login!Inv'
<1>1. PICK s \in v12, what \in {"remove", "refresh"} : Login!Request(v13, what, s)
  BY DEF Login!CardCommand
<1>2. v7' = v7 /\ UNCHANGED <<v1, v4, v5, v12, v14, v16>>
  BY DEF Login!CardCommand, Login!server
<1> QED
  BY <1>1, <1>2, LoginUser

LEMMA LoginCancel == ASSUME Login!Inv, Login!Cancel PROVE Login!Inv'
<1>1. v7' = Login!NoLogin /\ UNCHANGED <<v1, v4, v5, v12, v13, v14, v16, v17>>
  BY DEF Login!Cancel, Login!server
<1>2. v7' = Login!Shown(v7'.id, v7'.status) /\ v7'.status = "idle"
  BY <1>1 DEF Login!NoLogin, Login!Shown
<1> QED
  BY <1>1, <1>2
  DEF Login!Inv, Login!CallTypes, Login!RedeemedOnce, Login!Redeemed, Login!CompletedIsAdded,
      Login!AwaitedIsPolled, Login!ListComes, Login!Fetches, Login!Follows

LEMMA LoginStartAnswered == ASSUME Login!Inv, Login!StartAnswered PROVE Login!Inv'
<1>1. PICK c \in v13 :
         /\ c.live /\ c.what = "start"
         /\ \/ /\ v7' = Login!Shown(Login!NoSession, "failed")
               /\ v13' = Login!Rest(c) /\ UNCHANGED v17
            \/ /\ v7' = Login!Shown(c.id, "polling") /\ Login!Outcome(c) # "error"
               /\ Login!Request(Login!Rest(c), "poll", c.id)
            \/ /\ v7' = Login!Shown(c.id, "waiting")
               /\ v13' = Login!Rest(c) /\ UNCHANGED v17
  BY DEF Login!StartAnswered, Login!Heard
<1>2. UNCHANGED <<v1, v4, v5, v12, v14, v16>>
  BY DEF Login!StartAnswered, Login!server
<1>3. LoginCall(c, v4)
  BY LoginCalls
<1>4. ASSUME NEW i, NEW st \in {"failed", "waiting"}, v7' = Login!Shown(i, st),
             v13' = Login!Rest(c), UNCHANGED v17
      PROVE  Login!Inv'
  <2>1. v7' = Login!Shown(v7'.id, v7'.status) /\ v7'.status = st
    BY <1>4 DEF Login!Shown
  <2>2. Login!CallTypes' /\ Login!RedeemedOnce' /\ Login!CompletedIsAdded'
    <3>1. PICK N : N = {}
      OBVIOUS
    <3>2. v13' = Login!Rest(c) \cup N /\ \A n \in N : LoginIdle(n)
      BY <1>4, <3>1
    <3>3. v7'.status # "completed"
      BY <2>1
    <3> QED
      BY <1>2, <3>2, <3>3, LoginHeardSafe
  <2>3. Login!AwaitedIsPolled'
    BY <2>1 DEF Login!AwaitedIsPolled
  <2>4. ASSUME v17 PROVE Login!ListComes'
    <3>1. \A e \in v13' : e \in v13 \/ e.what = "start"
      BY <1>1, <1>3, <1>4, LoginRest DEF LoginLate
    <3>2. \A e \in v13' : e.what = "fetch" => e \in v13
      BY <3>1
    <3>3. \A e \in v13 : e.what = "fetch" \/ Login!Follows(e) => e \in v13'
      BY <1>1, <1>3, <1>4, LoginRest DEF Login!Follows
    <3> QED
      BY <1>2, <2>4, <3>1, <3>2, <3>3, LoginListStays
  <2> QED
    BY <1>2, <1>4, <2>1, <2>2, <2>3, <2>4 DEF Login!Inv
<1>5. CASE /\ v7' = Login!Shown(c.id, "polling") /\ Login!Outcome(c) # "error"
           /\ Login!Request(Login!Rest(c), "poll", c.id)
  <2>1. Login!Rest(c) = v13 \ {c}
    BY <1>3, <1>5, LoginRest
  <2>2. PICK n : n = Login!Call("poll", c.id)
    OBVIOUS
  <2>3. PICK i, k, h : i = c.id /\ k = v15 + 1 /\ h = Login!Holds("poll")
    OBVIOUS
  <2>4. n = [no |-> k, what |-> "poll", id |-> i, mount |-> v9, holds |-> h, stage |-> "sent",
             res |-> "none", got |-> {}, live |-> TRUE]
    BY <2>2, <2>3 DEF Login!Call
  <2>5. LoginIdle(n) /\ n.what = "poll" /\ n.id = i /\ n.live = TRUE
    BY <2>4 DEF LoginIdle
  <2>6. v13' = (v13 \ {c}) \cup {n} /\ (v17' <=> v17) /\ v17' \in BOOLEAN
    BY <1>5, <2>1, <2>2, <2>5 DEF Login!Request, Login!Requested
  <2>7. v7' = Login!Shown(v7'.id, v7'.status) /\ v7'.id = i /\ v7'.status = "polling"
    BY <1>5, <2>3 DEF Login!Shown
  <2>8. Login!CallTypes' /\ Login!RedeemedOnce' /\ Login!CompletedIsAdded'
    <3>1. PICK N : N = {n}
      OBVIOUS
    <3>2. v13' = Login!Rest(c) \cup N /\ \A e \in N : LoginIdle(e)
      BY <2>1, <2>5, <2>6, <3>1
    <3>3. v7'.status # "completed"
      BY <2>7
    <3> QED
      BY <1>2, <3>2, <3>3, LoginHeardSafe
  <2>9. Login!AwaitedIsPolled'
    BY <2>5, <2>6, <2>7 DEF Login!AwaitedIsPolled
  <2>10. ASSUME v17' PROVE Login!ListComes'
    <3>1. \A e \in v13' : e \in v13 \/ e.live
      BY <2>5, <2>6
    <3>2. \A e \in v13' : e.what = "fetch" => e \in v13
      BY <2>5, <2>6
    <3>3. \A e \in v13 : e.what = "fetch" \/ Login!Follows(e) => e \in v13'
      BY <1>1, <2>6 DEF Login!Follows
    <3> QED
      BY <1>2, <2>6, <2>10, <3>1, <3>2, <3>3, LoginListStays
  <2>11. v16' \in BOOLEAN
    BY <1>2 DEF Login!Inv
  <2> QED
    BY <2>6, <2>7, <2>8, <2>9, <2>10, <2>11 DEF Login!Inv
<1>6. CASE /\ v7' = Login!Shown(Login!NoSession, "failed")
           /\ v13' = Login!Rest(c) /\ UNCHANGED v17
  <2>1. PICK i : i = Login!NoSession
    OBVIOUS
  <2> QED
    BY <1>4, <1>6, <2>1
<1>7. CASE /\ v7' = Login!Shown(c.id, "waiting") /\ v13' = Login!Rest(c) /\ UNCHANGED v17
  <2>1. PICK i : i = c.id
    OBVIOUS
  <2> QED
    BY <1>4, <1>7, <2>1
<1> QED
  BY <1>1, <1>5, <1>6, <1>7

\* The answer that the account was added.
LEMMA LoginCompleted ==
    ASSUME Login!Inv, NEW c \in v13, Login!Outcome(c) = "completed", Login!Completed(c),
           Login!Followed(c), UNCHANGED <<v1, v4>>
    PROVE  Login!Inv'
<1>1. LoginCall(c, v4)
  BY LoginCalls
<1>2. c.stage = "done" /\ c.res = "completed"
  BY <1>1, LoginRest
<1>3. v7' = Login!Shown(c.id, "completed") /\ v16' \in BOOLEAN
  BY DEF Login!Completed, Login!Writes, Login!Inv
<1>4. v7' = Login!Shown(v7'.id, v7'.status) /\ v7'.id = c.id /\ v7'.status = "completed"
  BY <1>3 DEF Login!Shown
<1>5. /\ Login!CallTypes' /\ Login!RedeemedOnce'
      /\ \A s : Login!Redeemed(s)' => Login!Redeemed(s)
      /\ v17' \in BOOLEAN /\ (v17' => Login!ListComes')
  BY <1>2, LoginFollowed
<1>6. Login!CompletedIsAdded'
  <2>1. c.id \in v4 /\ ~Login!Redeemed(c.id)
    BY <1>1, <1>2 DEF LoginCall, Login!Inv, Login!RedeemedOnce
  <2>2. ~Login!Redeemed(c.id)'
    BY <1>5, <2>1
  <2> QED
    BY <1>4, <2>1, <2>2 DEF Login!CompletedIsAdded, Login!Redeemed
<1>7. Login!AwaitedIsPolled'
  BY <1>4 DEF Login!AwaitedIsPolled
<1> QED
  BY <1>3, <1>4, <1>5, <1>6, <1>7 DEF Login!Inv

\* The answer that it was not, or none.
LEMMA LoginFailed ==
    ASSUME Login!Inv, NEW c \in v13, Login!Outcome(c) = "error", Login!Writes(c, "failed"),
           v13' = Login!Rest(c), Login!Unanswered(c), UNCHANGED <<v1, v4>>
    PROVE  Login!Inv'
<1>1. v7' = Login!Shown(c.id, "failed") /\ v16' \in BOOLEAN
  BY DEF Login!Writes, Login!Inv
<1>2. v7' = Login!Shown(v7'.id, v7'.status) /\ v7'.status = "failed"
  BY <1>1 DEF Login!Shown
<1>3. v17' = FALSE
  BY DEF Login!Unanswered
<1>4. Login!CallTypes' /\ Login!RedeemedOnce' /\ Login!CompletedIsAdded'
  <2>1. PICK N : N = {}
    OBVIOUS
  <2>2. v13' = Login!Rest(c) \cup N /\ \A n \in N : LoginIdle(n)
    BY <2>1
  <2>3. v7'.status # "completed"
    BY <1>2
  <2> QED
    BY <2>2, <2>3, LoginHeardSafe
<1>5. Login!AwaitedIsPolled'
  BY <1>2 DEF Login!AwaitedIsPolled
<1> QED
  BY <1>1, <1>2, <1>3, <1>4, <1>5 DEF Login!Inv

\* The answer to a poll that the user has not answered yet.
LEMMA LoginPending ==
    ASSUME Login!Inv, NEW c \in v13, c.what = "poll",
           Login!Outcome(c) \in {"pending", "slow_down"},
           v14' = v14 \cup {c.id}, v13' = Login!Rest(c), v17' = v17,
           UNCHANGED <<v1, v4, v5, v12>>,
           \/ UNCHANGED <<v7, v16>>
           \/ /\ v7' = [v7 EXCEPT !.status = "slow_down"]
              /\ v16' = (v16 \/ v7.id # c.id)
    PROVE  Login!Inv'
<1>1. LoginCall(c, v4)
  BY LoginCalls
<1>2. Login!Rest(c) = v13 \ {c} /\ c.stage = "done" /\ c.res \in {"pending", "slow_down"}
  BY <1>1, LoginRest
<1>3. /\ v7' = Login!Shown(v7'.id, v7'.status) /\ v7'.id = v7.id /\ v16' \in BOOLEAN
      /\ \/ UNCHANGED <<v7, v16>>
         \/ v7'.status = "slow_down" /\ (~v16' => v7.id = c.id)
  <2>1. PICK a, b : v7 = [id |-> a, status |-> b]
    BY DEF Login!Inv, Login!Shown
  <2>2. CASE UNCHANGED <<v7, v16>>
    <3>2. v7' = Login!Shown(v7'.id, v7'.status) /\ v7'.id = v7.id
      BY <2>1, <2>2 DEF Login!Shown
    <3>3. v16' \in BOOLEAN
      BY <2>2 DEF Login!Inv
    <3> QED
      BY <2>2, <3>2, <3>3
  <2>3. CASE /\ v7' = [v7 EXCEPT !.status = "slow_down"]
             /\ v16' = (v16 \/ v7.id # c.id)
    <3>1. v7' = [id |-> a, status |-> "slow_down"]
      BY <2>1, <2>3
    <3>2. v16' \in BOOLEAN /\ (~v16' => v7.id = c.id)
      BY <2>3
    <3> QED
      BY <2>1, <3>1, <3>2 DEF Login!Shown
  <2> QED
    BY <2>2, <2>3
<1>4. Login!CallTypes' /\ Login!RedeemedOnce' /\ Login!CompletedIsAdded'
  <2>1. PICK N : N = {}
    OBVIOUS
  <2>2. v13' = Login!Rest(c) \cup N /\ \A n \in N : LoginIdle(n)
    BY <2>1
  <2>3. v7' = v7 \/ v7'.status # "completed"
    BY <1>3
  <2> QED
    BY <2>2, <2>3, LoginHeardSafe
<1>5. Login!AwaitedIsPolled'
  <2>1. \A e \in v13 : e = c \/ e \in v13'
    BY <1>2
  <2>2. CASE UNCHANGED <<v7, v16>>
    BY <2>1, <2>2, LoginAwaited
  <2>3. CASE ~v16' => v7.id = c.id
    BY <1>3, <2>3 DEF Login!AwaitedIsPolled
  <2> QED
    BY <1>3, <2>2, <2>3
<1>6. ASSUME v17 PROVE Login!ListComes'
  <2>1. \A e \in v13 : e.what = "fetch" \/ Login!Follows(e) => e \in v13'
    BY <1>2 DEF Login!Follows
  <2> QED
    BY <1>2, <1>6, <2>1, LoginListStays
<1> QED
  BY <1>3, <1>4, <1>5, <1>6 DEF Login!Inv

LEMMA LoginPollAnswered == ASSUME Login!Inv, Login!PollAnswered PROVE Login!Inv'
<1>1. PICK c \in v13 :
         /\ c.what = "poll"
         /\ \/ /\ Login!Outcome(c) = "completed" /\ Login!Completed(c) /\ Login!Followed(c)
            \/ /\ Login!Outcome(c) = "error" /\ Login!Writes(c, "failed")
               /\ v13' = Login!Rest(c) /\ Login!Unanswered(c)
            \/ /\ Login!Outcome(c) \in {"pending", "slow_down"}
               /\ v14' = v14 \cup {c.id} /\ v13' = Login!Rest(c) /\ v17' = v17
               /\ \/ UNCHANGED <<v7, v16>>
                  \/ /\ v7' = [v7 EXCEPT !.status = "slow_down"]
                     /\ v16' = (v16 \/ v7.id # c.id)
  BY DEF Login!PollAnswered, Login!Heard
<1>2. UNCHANGED <<v1, v4, v5, v12>>
  BY DEF Login!PollAnswered, Login!server
<1>3. CASE Login!Outcome(c) = "completed" /\ Login!Completed(c) /\ Login!Followed(c)
  BY <1>1, <1>2, <1>3, LoginCompleted
<1>4. CASE /\ Login!Outcome(c) = "error" /\ Login!Writes(c, "failed")
           /\ v13' = Login!Rest(c) /\ Login!Unanswered(c)
  BY <1>1, <1>2, <1>4, LoginFailed
<1>5. CASE /\ Login!Outcome(c) \in {"pending", "slow_down"}
           /\ v14' = v14 \cup {c.id} /\ v13' = Login!Rest(c) /\ v17' = v17
           /\ \/ UNCHANGED <<v7, v16>>
              \/ /\ v7' = [v7 EXCEPT !.status = "slow_down"]
                 /\ v16' = (v16 \/ v7.id # c.id)
  BY <1>1, <1>2, <1>5, LoginPending
<1> QED
  BY <1>1, <1>3, <1>4, <1>5

LEMMA LoginCompleteAnswered == ASSUME Login!Inv, Login!CompleteAnswered PROVE Login!Inv'
<1>1. PICK c \in v13 :
         /\ c.what = "complete"
         /\ \/ /\ Login!Outcome(c) = "completed" /\ Login!Completed(c) /\ Login!Followed(c)
            \/ /\ Login!Outcome(c) # "completed" /\ Login!Writes(c, "failed")
               /\ v13' = Login!Rest(c) /\ Login!Unanswered(c)
  BY DEF Login!CompleteAnswered, Login!Heard
<1>2. UNCHANGED <<v1, v4, v5, v12>>
  BY DEF Login!CompleteAnswered, Login!server
<1>3. Login!Outcome(c) \in {"completed", "error"}
  <2>1. LoginCall(c, v4)
    BY LoginCalls
  <2>2. c.stage = "done" => c.res \in {"completed", "error"}
    BY <1>1, <2>1 DEF LoginCall
  <2> QED
    BY <2>1, <2>2, LoginRest
<1>4. CASE Login!Outcome(c) = "completed" /\ Login!Completed(c) /\ Login!Followed(c)
  BY <1>1, <1>2, <1>4, LoginCompleted
<1>5. CASE /\ Login!Outcome(c) # "completed" /\ Login!Writes(c, "failed")
           /\ v13' = Login!Rest(c) /\ Login!Unanswered(c)
  BY <1>1, <1>2, <1>3, <1>5, LoginFailed
<1> QED
  BY <1>1, <1>4, <1>5

LEMMA LoginWake == ASSUME Login!Inv, Login!Wake PROVE Login!Inv'
<1>1. PICK s \in v14 :
         /\ v14' = v14 \ {s}
         /\ \/ /\ v7' = Login!Shown(s, "expired") /\ v16' \in BOOLEAN
               /\ UNCHANGED <<v13, v17>>
            \/ v7.id # s /\ UNCHANGED <<v7, v16, v13, v17>>
            \/ v7.id = s /\ Login!Request(v13, "poll", s) /\ UNCHANGED <<v7, v16>>
  BY DEF Login!Wake, Login!Writes, Login!Inv
<1>2. UNCHANGED <<v1, v4, v5, v12>>
  BY DEF Login!Wake, Login!server
<1>3. CASE v7' = Login!Shown(s, "expired") /\ v16' \in BOOLEAN /\ UNCHANGED <<v13, v17>>
  <2>1. v7' = Login!Shown(v7'.id, v7'.status) /\ v7'.status = "expired"
    BY <1>3 DEF Login!Shown
  <2> QED
    BY <1>2, <1>3, <2>1
    DEF Login!Inv, Login!CallTypes, Login!RedeemedOnce, Login!Redeemed,
        Login!CompletedIsAdded, Login!AwaitedIsPolled, Login!ListComes, Login!Fetches,
        Login!Follows
<1>4. CASE v7.id # s /\ UNCHANGED <<v7, v16, v13, v17>>
  <2>1. Login!AwaitedIsPolled'
    BY <1>1, <1>2, <1>4 DEF Login!Inv, Login!AwaitedIsPolled
  <2> QED
    BY <1>2, <1>4, <2>1
    DEF Login!Inv, Login!CallTypes, Login!RedeemedOnce, Login!Redeemed,
        Login!CompletedIsAdded, Login!ListComes, Login!Fetches, Login!Follows
<1>5. CASE v7.id = s /\ Login!Request(v13, "poll", s) /\ UNCHANGED <<v7, v16>>
  <2>1. /\ Login!CallTypes' /\ Login!RedeemedOnce' /\ Login!CompletedIsAdded'
        /\ v17' \in BOOLEAN /\ (v17' => Login!ListComes')
        /\ \E n \in v13' : n.what = "poll" /\ n.live /\ n.id = s
    BY <1>2, <1>5, LoginAsks
  <2>2. Login!AwaitedIsPolled'
    BY <1>5, <2>1 DEF Login!AwaitedIsPolled
  <2> QED
    BY <1>5, <2>1, <2>2 DEF Login!Inv
<1> QED
  BY <1>1, <1>3, <1>4, <1>5

LEMMA LoginCommandAnswered == ASSUME Login!Inv, Login!CommandAnswered PROVE Login!Inv'
<1>1. PICK c \in v13 :
         /\ c.what \in {"fetch", "add", "remove", "refresh"}
         /\ \/ c.what # "fetch" /\ Login!Outcome(c) = "ok" /\ Login!Followed(c)
            \/ /\ c.what = "fetch" \/ Login!Outcome(c) # "ok"
               /\ v13' = Login!Rest(c) /\ Login!Unanswered(c)
         /\ v12' = IF c.what = "fetch" /\ Login!Outcome(c) = "ok" THEN c.got ELSE v12
  BY DEF Login!CommandAnswered, Login!Heard
<1>2. UNCHANGED <<v1, v4, v5, v7, v14, v16>>
  BY DEF Login!CommandAnswered, Login!server
<1>3. LoginCall(c, v4)
  BY LoginCalls
<1>4. CASE c.what # "fetch" /\ Login!Outcome(c) = "ok" /\ Login!Followed(c)
  <2>1. c.stage = "done"
    BY <1>3, <1>4, LoginRest
  <2>2. /\ Login!CallTypes' /\ Login!RedeemedOnce' /\ Login!CompletedIsAdded'
        /\ v17' \in BOOLEAN /\ (v17' => Login!ListComes') /\ v13 \ {c} \subseteq v13'
    BY <1>2, <1>4, <2>1, LoginFollowed
  <2>3. Login!AwaitedIsPolled'
    <3>1. ASSUME NEW e \in v13, e.what = "poll" PROVE e \in v13'
      BY <1>1, <2>2, <3>1
    <3> QED
      BY <1>2, <3>1, LoginAwaited
  <2> QED
    BY <1>2, <2>2, <2>3 DEF Login!Inv
<1>5. CASE /\ c.what = "fetch" \/ Login!Outcome(c) # "ok"
           /\ v13' = Login!Rest(c) /\ Login!Unanswered(c)
  <2>1. Login!CallTypes' /\ Login!RedeemedOnce' /\ Login!CompletedIsAdded'
    <3>1. PICK N : N = {}
      OBVIOUS
    <3>2. v13' = Login!Rest(c) \cup N /\ \A n \in N : LoginIdle(n)
      BY <1>5, <3>1
    <3> QED
      BY <1>2, <3>2, LoginHeardSafe
  <2>2. Login!AwaitedIsPolled'
    <3>1. ASSUME NEW e \in v13, e.what = "poll" PROVE e \in v13'
      BY <1>1, <1>3, <1>5, <3>1, LoginRest
    <3> QED
      BY <1>2, <3>1, LoginAwaited
  <2>3. v17' \in BOOLEAN /\ (v17' => v17 /\ Login!Outcome(c) # "error")
    BY <1>5 DEF Login!Unanswered, Login!Inv
  <2>4. ASSUME v17' PROVE Login!ListComes'
    <3>1. c.stage = "done" /\ v13' = v13 \ {c} /\ Login!Outcome(c) = c.res /\ c.res # "error"
      BY <1>3, <1>5, <2>3, <2>4, LoginRest
    <3>2. c.res = "ok" /\ c.what = "fetch"
      BY <1>1, <1>3, <1>5, <3>1 DEF LoginCall
    <3>3. v12' = c.got /\ v5' = v5
      BY <1>1, <1>2, <3>1, <3>2
    <3>4. Login!ListComes
      BY <2>3, <2>4 DEF Login!Inv
    <3>5. Login!Fetches = {c}
      BY <3>2, <3>4 DEF Login!ListComes, Login!Fetches
    <3>6. Login!Fetches' = {}
      BY <3>1, <3>5 DEF Login!Fetches
    <3>7. (\E e \in v13 : Login!Follows(e)) => \E e \in v13' : Login!Follows(e)
      BY <3>1, <3>2 DEF Login!Follows
    <3>8. (\E e \in v13 : Login!Follows(e)) \/ c.got = v5
      BY <3>1, <3>2, <3>4, <3>5 DEF Login!ListComes
    <3> QED
      BY <3>1, <3>3, <3>4, <3>6, <3>7, <3>8 DEF Login!ListComes, Login!Follows
  <2> QED
    BY <1>2, <2>1, <2>2, <2>3, <2>4 DEF Login!Inv
<1> QED
  BY <1>1, <1>4, <1>5

LEMMA LoginInit == ASSUME Login!Init PROVE Login!Inv
<1>1. /\ v4 = {} /\ v5 = {} /\ v7 = Login!NoLogin /\ v12 = {} /\ v13 = {} /\ v14 = {}
      /\ v16 = FALSE /\ v17 = TRUE
  BY DEF Login!Init
<1>2. v7 = Login!Shown(v7.id, v7.status) /\ v7.status = "idle"
  BY <1>1 DEF Login!NoLogin, Login!Shown
<1>3. Login!Fetches = {}
  BY <1>1 DEF Login!Fetches
<1> QED
  BY <1>1, <1>2, <1>3
  DEF Login!Inv, Login!CallTypes, Login!RedeemedOnce, Login!CompletedIsAdded,
      Login!AwaitedIsPolled, Login!ListComes

LEMMA LoginShows == ASSUME Login!Inv PROVE Login!LoginSound
<1>1. v13 = {} => Login!Fetches = {}
  BY DEF Login!Fetches
<1> QED
  BY <1>1 DEF Login!Inv, Login!LoginSound, Login!ListIsCurrent, Login!ListComes

LEMMA LoginNext == ASSUME Login!Inv, Login!Next PROVE Login!Inv'
<1>1. CASE Login!Consent
  BY <1>1, LoginSame DEF Login!Consent, Login!view
<1>2. CASE Login!SwitchTab
  BY <1>2, LoginSame DEF Login!SwitchTab, Login!server
<1> QED
  BY <1>1, <1>2, LoginStartServed, LoginTokenServed, LoginAccountAdded, LoginCommandServed,
     LoginStartAnswered, LoginPollAnswered, LoginWake, LoginCompleteAnswered,
     LoginCommandAnswered, LoginHandleStart, LoginHandleComplete, LoginCancel,
     LoginHandleSubmit, LoginCardCommand
  DEF Login!Next

-----------------------------------------------------------------------------
(* The integration page: models v3, tab v4, loading v5, error v6,          *)
(* bindingId v7, cards v8, previousModelIds v9, panel v10, calls v11, made *)
(* v12.                                                                    *)

IntCall(c) ==
    /\ c = [no |-> c.no, what |-> c.what, tool |-> c.tool, slot |-> c.slot,
            live |-> c.live, got |-> c.got, models |-> c.models]
    /\ c.live \in BOOLEAN /\ (c.what = "bind" => c.tool \in Tools)
IntPanel(p) ==
    /\ p = [open |-> p.open, tool |-> p.tool, slot |-> p.slot, loading |-> p.loading,
            code |-> p.code]
    /\ p.open \in BOOLEAN
    /\ p.open /\ ~p.loading => p.code \in {<<>>, <<p.tool, p.slot>>}
IntCard(k, previous, ms) ==
    /\ k = [selected |-> k.selected, slot |-> k.slot, touched |-> k.touched, open |-> k.open]
    /\ k.open /\ ms # {} =>
         /\ k.selected \subseteq ms /\ k.slot \in ms /\ previous = ms
         /\ ~k.touched => k.selected = ms
    /\ k.open /\ ~k.touched => k.selected = {} \/ previous \subseteq k.selected

\* What binds a tool, and a request that the panel p waits for.
IntBinds(c) == c.what = "bind" \/ (c.what = "integrations" /\ c.tool # Integration!NoTool)
IntAsks(c, p) == c.what = "generate" /\ c.live /\ p.open => c.tool = p.tool /\ c.slot = p.slot

LEMMA IntegrationParts ==
    ASSUME Integration!Inv
    PROVE  /\ \A c \in v11 : IntCall(c) /\ IntAsks(c, v10)
           /\ IntPanel(v10)
           /\ \A t \in Tools : IntCard(v8[t], v9[t], v3)
<1>1. \A c \in v11 : IntCall(c) /\ IntAsks(c, v10)
  BY DEF Integration!Inv, Integration!Types, Integration!AskedIsChosen, IntCall, IntAsks
<1>2. IntPanel(v10)
  BY DEF Integration!Inv, Integration!Types, Integration!CodeIsChosen, IntPanel
<1>3. ASSUME NEW t \in Tools PROVE IntCard(v8[t], v9[t], v3)
  BY DEF Integration!Inv, Integration!Types, Integration!SelectionOffered,
         Integration!ModelsAreSeen, IntCard
<1> QED
  BY <1>1, <1>2, <1>3

LEMMA IntegrationWhole ==
    ASSUME \A c \in v11' : IntCall(c) /\ IntAsks(c, v10'), IntPanel(v10'),
           \A t \in Tools : IntCard(v8'[t], v9'[t], v3'), Integration!BindingIsUnderWay'
    PROVE  Integration!Inv'
<1>1. Integration!Types'
  BY DEF Integration!Types, IntCall, IntPanel, IntCard
<1>2. Integration!AskedIsChosen'
  BY DEF Integration!AskedIsChosen, IntAsks
<1>3. Integration!CodeIsChosen'
  BY DEF Integration!CodeIsChosen, IntPanel
<1>4. Integration!SelectionOffered' /\ Integration!ModelsAreSeen'
  BY DEF Integration!SelectionOffered, Integration!ModelsAreSeen, IntCard
<1> QED
  BY <1>1, <1>2, <1>3, <1>4 DEF Integration!Inv

\* Cards and panel that are closed.
LEMMA IntegrationClosed ==
    ASSUME Integration!Closed
    PROVE  /\ IntPanel(v10') /\ v10'.open = FALSE /\ \A c : IntAsks(c, v10')
           /\ \A t \in Tools : \A previous, ms : IntCard(v8'[t], previous, ms)
BY DEF Integration!Closed, Integration!NoPanel, Integration!NoCard, IntPanel, IntAsks, IntCard

\* The requests of the page, without those for a configuration once they are
\* cancelled; none of them binds more than before.
LEMMA IntegrationCancelled ==
    ASSUME NEW cs, \A c \in cs : IntCall(c)
    PROVE  \A d \in Integration!Cancelled(cs) :
               /\ IntCall(d) /\ (\A p : IntAsks(d, p))
               /\ IntBinds(d) => d \in cs
<1> SUFFICES ASSUME NEW c \in cs, NEW d, d = [c EXCEPT !.live = @ /\ c.what # "generate"]
             PROVE  /\ IntCall(d) /\ (\A p : IntAsks(d, p))
                    /\ IntBinds(d) => d \in cs
  BY DEF Integration!Cancelled
<1>1. PICK l \in BOOLEAN : l <=> c.live /\ c.what # "generate"
  OBVIOUS
<1>2. IntCall(c)
  OBVIOUS
<1>3. d = [no |-> c.no, what |-> c.what, tool |-> c.tool, slot |-> c.slot, live |-> l,
           got |-> c.got, models |-> c.models]
  BY <1>1, <1>2 DEF IntCall
<1>4. IntCall(d) /\ (\A p : IntAsks(d, p))
  BY <1>1, <1>2, <1>3 DEF IntCall, IntAsks
<1>5. c.what # "generate" => d = c
  BY <1>1, <1>2, <1>3 DEF IntCall
<1> QED
  BY <1>3, <1>4, <1>5 DEF IntBinds

LEMMA IntegrationCancelledBack ==
    ASSUME NEW cs, \A c \in cs : IntCall(c), NEW c \in cs, c.what # "generate"
    PROVE  c \in Integration!Cancelled(cs)
<1>1. PICK d : d = [c EXCEPT !.live = @ /\ c.what # "generate"]
  OBVIOUS
<1>2. d = c
  BY <1>1 DEF IntCall
<1>3. d \in Integration!Cancelled(cs)
  BY <1>1 DEF Integration!Cancelled
<1> QED
  BY <1>2, <1>3

\* The page's binding goes on.
LEMMA IntegrationBinds ==
    ASSUME Integration!BindingIsUnderWay, v7' = v7,
           \A c : IntBinds(c) => (c \in v11 <=> c \in v11')
    PROVE  Integration!BindingIsUnderWay'
<1>1. Integration!Bindings' = Integration!Bindings
  BY DEF Integration!Bindings, IntBinds
<1>2. Integration!Bindings \subseteq v11 /\ Integration!Bindings' \subseteq v11'
  BY DEF Integration!Bindings
<1> QED
  BY <1>1, <1>2 DEF Integration!BindingIsUnderWay
\* It ends, or begins, or another request goes on with it.
LEMMA IntegrationBound ==
    ASSUME Integration!BindingIsUnderWay, NEW c \in v11, IntBinds(c),
           v7' = Integration!NoTool, \A d \in v11' : IntBinds(d) => d \in v11 \ {c}
    PROVE  Integration!BindingIsUnderWay'
<1>1. c \in Integration!Bindings
  BY DEF Integration!Bindings, IntBinds
<1>2. Integration!Bindings = {c}
  BY <1>1 DEF Integration!BindingIsUnderWay
<1>3. Integration!Bindings' = {}
  BY <1>2 DEF Integration!Bindings, IntBinds
<1> QED
  BY <1>3 DEF Integration!BindingIsUnderWay

-----------------------------------------------------------------------------
LEMMA IntegrationInit == ASSUME Integration!Init PROVE Integration!Inv
<1>1. /\ v3 = {} /\ v7 = Integration!NoTool /\ v10 = Integration!NoPanel
      /\ v8 = [t \in Tools |-> Integration!NoCard] /\ v9 = [t \in Tools |-> {}]
  BY DEF Integration!Init
<1>2. ASSUME NEW c \in v11
      PROVE  IntCall(c) /\ c.what \in {"integrations", "models"} /\ c.tool = Integration!NoTool
  <2>1. PICK w \in {"integrations", "models"} :
            c = [no |-> 1, what |-> w, tool |-> Integration!NoTool, slot |-> Integration!NoTool,
                 live |-> TRUE, got |-> FALSE, models |-> {}]
    BY <1>2 DEF Integration!Init
  <2> QED
    BY <2>1 DEF IntCall
<1>3. Integration!Types
  BY <1>1, <1>2 DEF Integration!Types, Integration!NoCard, Integration!NoPanel, IntCall
<1>4. Integration!CodeIsChosen /\ Integration!SelectionOffered /\ Integration!ModelsAreSeen
  BY <1>1 DEF Integration!CodeIsChosen, Integration!SelectionOffered,
              Integration!ModelsAreSeen, Integration!NoCard, Integration!NoPanel
<1>5. Integration!AskedIsChosen
  BY <1>2 DEF Integration!AskedIsChosen
<1>6. Integration!BindingIsUnderWay
  BY <1>1, <1>2 DEF Integration!BindingIsUnderWay, Integration!Bindings
<1> QED
  BY <1>3, <1>4, <1>5, <1>6 DEF Integration!Inv

LEMMA IntegrationShows == ASSUME Integration!Inv PROVE Integration!IntegrationSound
<1>1. Integration!OneBinding
  <2>1. PICK S : S = Integration!Bindings
    OBVIOUS
  <2>2. Integration!Cardinality(S) = Cardinality(S)
    BY DEF Integration!Cardinality, Cardinality
  <2>3. S = {} => Cardinality(S) = 0
    BY FS_EmptySet
  <2>4. \A c : S = {c} => Cardinality(S) = 1
    BY FS_Singleton
  <2>5. IF v7 = Integration!NoTool THEN S = {} ELSE \E c : S = {c}
    BY <2>1 DEF Integration!Inv, Integration!BindingIsUnderWay
  <2> QED
    BY <2>1, <2>2, <2>3, <2>4, <2>5 DEF Integration!OneBinding
<1> QED
  BY <1>1 DEF Integration!Inv, Integration!IntegrationSound

\* What the lemmas about the actions begin with.
LEMMA IntegrationSame ==
    ASSUME Integration!Inv, UNCHANGED <<v3, v7, v8, v9, v10, v11>> PROVE Integration!Inv'
<1>1. \A c \in v11' : IntCall(c) /\ IntAsks(c, v10')
  BY IntegrationParts
<1>2. IntPanel(v10')
  BY IntegrationParts
<1>3. \A t \in Tools : IntCard(v8'[t], v9'[t], v3')
  BY IntegrationParts
<1>4. Integration!BindingIsUnderWay'
  BY IntegrationBinds DEF Integration!Inv
<1> QED
  BY <1>1, <1>2, <1>3, <1>4, IntegrationWhole

LEMMA IntegrationReopen == ASSUME Integration!Inv, Integration!Reopen PROVE Integration!Inv'
<1>1. PICK C : C = Integration!Cancelled(v11)
  OBVIOUS
<1>2. PICK a, b : /\ a = [no |-> v12 + 1, what |-> "integrations", tool |-> Integration!NoTool,
                          slot |-> Integration!NoTool, live |-> TRUE, got |-> FALSE,
                          models |-> {}]
                  /\ b = [no |-> v12 + 1, what |-> "models", tool |-> Integration!NoTool,
                          slot |-> Integration!NoTool, live |-> TRUE, got |-> FALSE,
                          models |-> {}]
  OBVIOUS
<1>3. v11' = C \cup {a, b}
  BY <1>1, <1>2 DEF Integration!Reopen, Integration!Call
<1>4. Integration!Closed /\ v7' = v7
  BY DEF Integration!Reopen
<1>5. \A d \in C : IntCall(d) /\ (IntBinds(d) => d \in v11)
  BY <1>1, IntegrationCancelled, IntegrationParts
<1>6. \A c \in v11 : c.what # "generate" => c \in C
  BY <1>1, IntegrationCancelledBack, IntegrationParts
<1>7. IntCall(a) /\ IntCall(b) /\ ~IntBinds(a) /\ ~IntBinds(b)
  BY <1>2 DEF IntCall, IntBinds
<1>8. \A c \in v11' : IntCall(c) /\ IntAsks(c, v10')
  BY <1>3, <1>4, <1>5, <1>7, IntegrationClosed
<1>9. \A c : IntBinds(c) => c.what # "generate"
  BY DEF IntBinds
<1>10. Integration!BindingIsUnderWay'
  BY <1>3, <1>4, <1>5, <1>6, <1>7, <1>9, IntegrationBinds DEF Integration!Inv
<1> QED
  BY <1>4, <1>8, <1>10, IntegrationClosed, IntegrationWhole

\* Cards that are opened, and the panel.
LEMMA IntegrationNew ==
    \A t \in Tools : IntCard(Integration!NewCard, v3, v3)
<1>1. v3 # {} => Integration!Slot(Default, v3) \in v3
  BY DEF Integration!Slot, Integration!First
<1> QED
  BY <1>1 DEF IntCard, Integration!NewCard

LEMMA IntegrationOpened ==
    ASSUME NEW tb, Integration!Opened(tb)
    PROVE  /\ \A t \in Tools : IntCard(v8'[t], v9'[t], v3)
           /\ IntPanel(v10') /\ v10'.tool = FirstTool /\ v10'.slot = Default
<1>1. CASE tb = "auto"
  <2>1. v8' = [t \in Tools |-> Integration!NewCard] /\ v9' = [t \in Tools |-> v3]
        /\ v10' = Integration!NoPanel
    BY <1>1 DEF Integration!Opened
  <2>2. \A t \in Tools : v8'[t] = Integration!NewCard /\ v9'[t] = v3
    BY <2>1
  <2>3. \A t \in Tools : IntCard(v8'[t], v9'[t], v3)
    BY <2>2, IntegrationNew
  <2>4. IntPanel(v10') /\ v10'.tool = FirstTool /\ v10'.slot = Default
    BY <2>1 DEF Integration!NoPanel, IntPanel
  <2> QED
    BY <2>3, <2>4
<1>2. CASE tb # "auto"
  <2>1. PICK p : p = [open |-> FALSE, tool |-> FirstTool, slot |-> Default, loading |-> FALSE,
                      code |-> <<>>]
    OBVIOUS
  <2>2. v10' = [p EXCEPT !.open = TRUE, !.loading = TRUE]
        /\ v8' = [t \in Tools |-> Integration!NoCard]
    BY <1>2, <2>1 DEF Integration!Opened, Integration!NoPanel
  <2>3. \A t \in Tools : IntCard(v8'[t], v9'[t], v3)
    BY <2>2 DEF Integration!NoCard, IntCard
  <2>4. IntPanel(v10') /\ v10'.tool = FirstTool /\ v10'.slot = Default
    BY <2>1, <2>2 DEF IntPanel
  <2> QED
    BY <2>3, <2>4
<1> QED
  BY <1>1, <1>2

LEMMA IntegrationSetActiveTab ==
    ASSUME Integration!Inv, NEW tb, Integration!SetActiveTab(tb) PROVE Integration!Inv'
<1>1. CASE v5 \/ v6
  BY <1>1, IntegrationSame DEF Integration!SetActiveTab
<1>2. CASE ~(v5 \/ v6)
  <2>1. PICK C, N : /\ C = Integration!Cancelled(v11)
                    /\ N = Integration!Generating(tb, FirstTool, Default)
    OBVIOUS
  <2>2. v11' = C \cup N /\ Integration!Opened(tb) /\ v7' = v7 /\ v3' = v3
    BY <1>2, <2>1 DEF Integration!SetActiveTab
  <2>3. \A d \in C : IntCall(d) /\ (\A p : IntAsks(d, p)) /\ (IntBinds(d) => d \in v11)
    BY <2>1, IntegrationCancelled, IntegrationParts
  <2>4. \A c \in v11 : c.what # "generate" => c \in C
    BY <2>1, IntegrationCancelledBack, IntegrationParts
  <2>5. \A d \in N : IntCall(d) /\ ~IntBinds(d) /\ d.tool = FirstTool /\ d.slot = Default
    <3> SUFFICES ASSUME NEW d \in N
                 PROVE  IntCall(d) /\ ~IntBinds(d) /\ d.tool = FirstTool /\ d.slot = Default
      OBVIOUS
    <3>1. d = [no |-> v12 + 1, what |-> "generate", tool |-> FirstTool, slot |-> Default,
               live |-> TRUE, got |-> FALSE, models |-> {}]
      BY <2>1 DEF Integration!Generating, Integration!Call
    <3> QED
      BY <3>1 DEF IntCall, IntBinds
  <2>6. /\ \A t \in Tools : IntCard(v8'[t], v9'[t], v3')
        /\ IntPanel(v10') /\ v10'.tool = FirstTool /\ v10'.slot = Default
    BY <2>2, IntegrationOpened
  <2>7. \A d \in N : IntAsks(d, v10')
    BY <2>5, <2>6 DEF IntAsks
  <2>8. \A c \in v11' : IntCall(c) /\ IntAsks(c, v10')
    BY <2>2, <2>3, <2>5, <2>7
  <2>9. \A c : IntBinds(c) => c.what # "generate"
    BY DEF IntBinds
  <2>10. Integration!BindingIsUnderWay'
    BY <2>2, <2>3, <2>4, <2>5, <2>9, IntegrationBinds DEF Integration!Inv
  <2> QED
    BY <2>6, <2>8, <2>10, IntegrationWhole
<1> QED
  BY <1>1, <1>2

\* A card whose selection or slot is chosen by hand.
LEMMA IntegrationCard ==
    ASSUME Integration!Inv, NEW t \in Tools, NEW k, IntCard(k, v9[t], v3), k.touched = TRUE,
           v8' = [v8 EXCEPT ![t] = k], UNCHANGED <<v3, v7, v9, v10, v11>>
    PROVE  Integration!Inv'
<1>1. \A u \in Tools : v8'[u] = v8[u] \/ (u = t /\ v8'[u] = k)
  OBVIOUS
<1>2. \A u \in Tools : IntCard(v8'[u], v9'[u], v3')
  BY <1>1, IntegrationParts
<1>3. \A c \in v11' : IntCall(c) /\ IntAsks(c, v10')
  BY IntegrationParts
<1>4. IntPanel(v10')
  BY IntegrationParts
<1>5. Integration!BindingIsUnderWay'
  BY IntegrationBinds DEF Integration!Inv
<1> QED
  BY <1>2, <1>3, <1>4, <1>5, IntegrationWhole

LEMMA IntegrationSelect ==
    ASSUME Integration!Inv, NEW t \in Tools, NEW ms, Integration!Select(t, ms)
    PROVE  Integration!Inv'
<1>1. PICK d : d = [v8[t] EXCEPT !.selected = ms]
  OBVIOUS
<1>2. PICK k : k = [d EXCEPT !.touched = TRUE]
  OBVIOUS
<1>3. /\ ms \subseteq v3 /\ v8' = [v8 EXCEPT ![t] = k]
      /\ UNCHANGED <<v3, v7, v9, v10, v11>>
  BY <1>1, <1>2 DEF Integration!Select, Integration!CardSet
<1>4. IntCard(v8[t], v9[t], v3)
  BY IntegrationParts
<1>5. PICK f1, f2, f3, f4 : v8[t] = [selected |-> f1, slot |-> f2, touched |-> f3, open |-> f4]
  BY <1>4 DEF IntCard
<1>6. d = [selected |-> ms, slot |-> f2, touched |-> f3, open |-> f4]
  BY <1>1, <1>5
<1>7. k = [selected |-> ms, slot |-> f2, touched |-> TRUE, open |-> f4]
  BY <1>2, <1>6
<1>8. f4 /\ v3 # {} => f2 \in v3 /\ v9[t] = v3
  BY <1>5, <1>4 DEF IntCard
<1>9. IntCard(k, v9[t], v3) /\ k.touched = TRUE
  BY <1>3, <1>7, <1>8 DEF IntCard
<1> QED
  BY <1>3, <1>9, IntegrationCard

LEMMA IntegrationSetSlot ==
    ASSUME Integration!Inv, NEW t \in Tools, NEW m, Integration!SetSlot(t, m)
    PROVE  Integration!Inv'
<1>1. PICK d : d = [v8[t] EXCEPT !.slot = m]
  OBVIOUS
<1>2. PICK k : k = [d EXCEPT !.touched = TRUE]
  OBVIOUS
<1>3. /\ m \in v3 /\ v8' = [v8 EXCEPT ![t] = k]
      /\ UNCHANGED <<v3, v7, v9, v10, v11>>
  BY <1>1, <1>2 DEF Integration!SetSlot, Integration!CardSet
<1>4. IntCard(v8[t], v9[t], v3)
  BY IntegrationParts
<1>5. PICK f1, f2, f3, f4 : v8[t] = [selected |-> f1, slot |-> f2, touched |-> f3, open |-> f4]
  BY <1>4 DEF IntCard
<1>6. d = [selected |-> f1, slot |-> m, touched |-> f3, open |-> f4]
  BY <1>1, <1>5
<1>7. k = [selected |-> f1, slot |-> m, touched |-> TRUE, open |-> f4]
  BY <1>2, <1>6
<1>8. f4 /\ v3 # {} => f1 \subseteq v3 /\ v9[t] = v3
  BY <1>5, <1>4 DEF IntCard
<1>9. IntCard(k, v9[t], v3) /\ k.touched = TRUE
  BY <1>3, <1>7, <1>8 DEF IntCard
<1> QED
  BY <1>3, <1>9, IntegrationCard

LEMMA IntegrationHandleBind ==
    ASSUME Integration!Inv, NEW t \in Tools, Integration!HandleBind(t) PROVE Integration!Inv'
<1>1. PICK b : b = [no |-> v12 + 1, what |-> "bind", tool |-> t, slot |-> v8[t].slot,
                    live |-> TRUE, got |-> FALSE, models |-> {}]
  OBVIOUS
<1>2. /\ v11' = v11 \cup {b} /\ v7 = Integration!NoTool /\ v7' = t
      /\ UNCHANGED <<v3, v8, v9, v10>>
  BY <1>1 DEF Integration!HandleBind, Integration!Request, Integration!Call
<1>3. t # Integration!NoTool
  BY SetupAssumption DEF Integration!IntegrationPageAssumption
<1>4. IntCall(b) /\ IntBinds(b) /\ \A p : IntAsks(b, p)
  BY <1>1 DEF IntCall, IntBinds, IntAsks
<1>5. \A c \in v11' : IntCall(c) /\ IntAsks(c, v10')
  BY <1>2, <1>4, IntegrationParts
<1>6. Integration!BindingIsUnderWay'
  <2>1. Integration!Bindings = {}
    BY <1>2 DEF Integration!Inv, Integration!BindingIsUnderWay
  <2>2. Integration!Bindings' = {b}
    BY <1>2, <1>4, <2>1 DEF Integration!Bindings, IntBinds
  <2> QED
    BY <1>2, <1>3, <2>2 DEF Integration!BindingIsUnderWay
<1>7. IntPanel(v10') /\ \A u \in Tools : IntCard(v8'[u], v9'[u], v3')
  BY <1>2, IntegrationParts
<1> QED
  BY <1>5, <1>6, <1>7, IntegrationWhole

LEMMA IntegrationChoose ==
    ASSUME Integration!Inv, NEW tool, NEW slot, Integration!Choose(tool, slot)
    PROVE  Integration!Inv'
<1>1. PICK C, n : /\ C = Integration!Cancelled(v11)
                  /\ n = [no |-> v12 + 1, what |-> "generate", tool |-> tool, slot |-> slot,
                          live |-> TRUE, got |-> FALSE, models |-> {}]
  OBVIOUS
<1>2. v11' = C \cup {n} /\ UNCHANGED <<v3, v7, v8, v9>>
      /\ v10' = [v10 EXCEPT !.tool = tool, !.slot = slot, !.loading = TRUE]
  BY <1>1 DEF Integration!Choose, Integration!Call
<1>3. PICK f1, f2, f3, f4, f5 :
        /\ v10 = [open |-> f1, tool |-> f2, slot |-> f3, loading |-> f4, code |-> f5]
        /\ f1 \in BOOLEAN
  BY IntegrationParts DEF IntPanel
<1>4. v10' = [open |-> f1, tool |-> tool, slot |-> slot, loading |-> TRUE, code |-> f5]
  BY <1>2, <1>3
<1>5. IntPanel(v10')
  BY <1>3, <1>4 DEF IntPanel
<1>6. \A d \in C : IntCall(d) /\ (\A p : IntAsks(d, p)) /\ (IntBinds(d) => d \in v11)
  BY <1>1, IntegrationCancelled, IntegrationParts
<1>7. \A c \in v11 : c.what # "generate" => c \in C
  BY <1>1, IntegrationCancelledBack, IntegrationParts
<1>8. IntCall(n) /\ ~IntBinds(n) /\ IntAsks(n, v10')
  BY <1>1, <1>4 DEF IntCall, IntBinds, IntAsks
<1>9. \A c \in v11' : IntCall(c) /\ IntAsks(c, v10')
  BY <1>2, <1>6, <1>8
<1>10. \A c : IntBinds(c) => c.what # "generate"
  BY DEF IntBinds
<1>11. Integration!BindingIsUnderWay'
  BY <1>2, <1>6, <1>7, <1>8, <1>10, IntegrationBinds DEF Integration!Inv
<1>12. \A u \in Tools : IntCard(v8'[u], v9'[u], v3')
  BY <1>2, IntegrationParts
<1> QED
  BY <1>5, <1>9, <1>11, <1>12, IntegrationWhole

LEMMA IntegrationServe ==
    ASSUME Integration!Inv, NEW c, Integration!Serve(c) PROVE Integration!Inv'
<1>1. PICK d : d = [c EXCEPT !.got = TRUE, !.models = v1]
  OBVIOUS
<1>2. /\ c \in v11 /\ c.what = "models" /\ v11' = (v11 \ {c}) \cup {d}
      /\ UNCHANGED <<v3, v7, v8, v9, v10>>
  BY <1>1 DEF Integration!Serve
<1>3. IntCall(c)
  BY <1>2, IntegrationParts
<1>4. d = [no |-> c.no, what |-> c.what, tool |-> c.tool, slot |-> c.slot, live |-> c.live,
           got |-> TRUE, models |-> v1]
  BY <1>1, <1>3 DEF IntCall
<1>5. IntCall(d) /\ ~IntBinds(d) /\ ~IntBinds(c) /\ \A p : IntAsks(d, p)
  BY <1>2, <1>3, <1>4 DEF IntCall, IntBinds, IntAsks
<1>6. \A x \in v11' : IntCall(x) /\ IntAsks(x, v10')
  BY <1>2, <1>5, IntegrationParts
<1>7. Integration!BindingIsUnderWay'
  BY <1>2, <1>5, IntegrationBinds DEF Integration!Inv
<1>8. IntPanel(v10') /\ \A u \in Tools : IntCard(v8'[u], v9'[u], v3')
  BY <1>2, IntegrationParts
<1> QED
  BY <1>6, <1>7, <1>8, IntegrationWhole

LEMMA IntegrationGetModels ==
    ASSUME Integration!Inv, NEW c, Integration!GetModels(c) PROVE Integration!Inv'
<1>1. /\ c \in v11 /\ c.what = "models" /\ v11' = v11 \ {c} /\ UNCHANGED <<v7, v10>>
      /\ v9' = [t \in Tools |-> IF v8[t].open /\ v3' # {} THEN v3' ELSE v9[t]]
  BY DEF Integration!GetModels
<1>2. \A x \in v11' : IntCall(x) /\ IntAsks(x, v10')
  BY <1>1, IntegrationParts
<1>3. IntPanel(v10')
  BY <1>1, IntegrationParts
<1>4. Integration!BindingIsUnderWay'
  BY <1>1, IntegrationBinds DEF Integration!Inv, IntBinds
<1>5. ASSUME NEW t \in Tools PROVE IntCard(v8'[t], v9'[t], v3')
  <2>1. PICK sel, slot : /\ sel = Integration!Selection(v8[t].selected, v9[t], v3')
                         /\ slot = Integration!Slot(v8[t].slot, v3')
    OBVIOUS
  <2>2. v8'[t] = IF v8[t].open THEN [v8[t] EXCEPT !.selected = sel, !.slot = slot] ELSE v8[t]
    BY <2>1 DEF Integration!GetModels
  <2>3. v9'[t] = IF v8[t].open /\ v3' # {} THEN v3' ELSE v9[t]
    BY <1>1
  <2>4. IntCard(v8[t], v9[t], v3)
    BY IntegrationParts
  <2>5. CASE ~v8[t].open
    BY <2>2, <2>3, <2>4, <2>5 DEF IntCard
  <2>6. CASE v8[t].open
    <3>1. PICK f1, f2, f3, f4 :
              v8[t] = [selected |-> f1, slot |-> f2, touched |-> f3, open |-> f4]
      BY <2>4 DEF IntCard
    <3>2. v8'[t] = [selected |-> sel, slot |-> slot, touched |-> f3, open |-> f4]
      <4>1. PICK k : k = v8[t]
        OBVIOUS
      <4>2. PICK d : d = [k EXCEPT !.selected = sel, !.slot = slot]
        OBVIOUS
      <4>3. v8'[t] = d
        BY <2>2, <2>6, <4>1, <4>2
      <4>4. k = [selected |-> f1, slot |-> f2, touched |-> f3, open |-> f4]
        BY <3>1, <4>1
      <4>5. d = [selected |-> sel, slot |-> slot, touched |-> f3, open |-> f4]
        BY <4>2, <4>4
      <4> QED
        BY <4>3, <4>5
    <3>3. v3' # {} => slot \in v3'
      BY <2>1 DEF Integration!Slot, Integration!First
    <3>4. ~f3 => f1 = {} \/ v9[t] \subseteq f1
      BY <2>4, <2>6, <3>1 DEF IntCard
    <3>5. v3' # {} => sel \subseteq v3' /\ (~f3 => sel = v3')
      BY <2>1, <3>1, <3>4 DEF Integration!Selection
    <3>6. v3' = {} => sel = f1 /\ v9'[t] = v9[t]
      BY <2>1, <2>3, <3>1 DEF Integration!Selection
    <3>7. v3' # {} => v9'[t] = v3'
      BY <2>3, <2>6
    <3> QED
      BY <3>2, <3>3, <3>4, <3>5, <3>6, <3>7 DEF IntCard
  <2> QED
    BY <2>5, <2>6
<1> QED
  BY <1>2, <1>3, <1>4, <1>5, IntegrationWhole

\* The tools come while cards or panel are open.
LEMMA IntegrationRefreshed ==
    ASSUME Integration!Inv, UNCHANGED <<v3, v9>>,
           v8' = [t \in Tools |-> IF v8[t].open
                                  THEN [v8[t] EXCEPT !.slot = Integration!Slot(Default, v3)]
                                  ELSE v8[t]],
           v10' = [v10 EXCEPT !.slot = Default, !.loading = v10.open]
    PROVE  /\ \A t \in Tools : IntCard(v8'[t], v9'[t], v3')
           /\ IntPanel(v10') /\ v10'.tool = v10.tool /\ v10'.slot = Default
<1>1. ASSUME NEW t \in Tools PROVE IntCard(v8'[t], v9'[t], v3')
  <2>1. PICK slot : slot = Integration!Slot(Default, v3)
    OBVIOUS
  <2>2. v8'[t] = IF v8[t].open THEN [v8[t] EXCEPT !.slot = slot] ELSE v8[t]
    BY <2>1
  <2>3. IntCard(v8[t], v9[t], v3)
    BY IntegrationParts
  <2>4. PICK f1, f2, f3, f4 : v8[t] = [selected |-> f1, slot |-> f2, touched |-> f3, open |-> f4]
    BY <2>3 DEF IntCard
  <2>5. CASE ~v8[t].open
    BY <2>2, <2>3, <2>5
  <2>6. CASE v8[t].open
    <3>1. v8'[t] = [selected |-> f1, slot |-> slot, touched |-> f3, open |-> f4]
      <4>1. PICK k : k = v8[t]
        OBVIOUS
      <4>2. PICK d : d = [k EXCEPT !.slot = slot]
        OBVIOUS
      <4>3. v8'[t] = d
        BY <2>2, <2>6, <4>1, <4>2
      <4>4. k = [selected |-> f1, slot |-> f2, touched |-> f3, open |-> f4]
        BY <2>4, <4>1
      <4>5. d = [selected |-> f1, slot |-> slot, touched |-> f3, open |-> f4]
        BY <4>2, <4>4
      <4> QED
        BY <4>3, <4>5
    <3>2. v3 # {} => slot \in v3
      BY <2>1 DEF Integration!Slot, Integration!First
    <3>3. /\ v3 # {} => f1 \subseteq v3 /\ v9[t] = v3 /\ (~f3 => f1 = v3)
          /\ ~f3 => f1 = {} \/ v9[t] \subseteq f1
      BY <2>3, <2>4, <2>6 DEF IntCard
    <3> QED
      BY <3>1, <3>2, <3>3 DEF IntCard
  <2> QED
    BY <2>5, <2>6
<1>2. PICK f1, f2, f3, f4, f5 :
        /\ v10 = [open |-> f1, tool |-> f2, slot |-> f3, loading |-> f4, code |-> f5]
        /\ f1 \in BOOLEAN
  BY IntegrationParts DEF IntPanel
<1>3. PICK o : o = v10.open
  OBVIOUS
<1>4. v10' = [v10 EXCEPT !.slot = Default, !.loading = o] /\ o = f1
  BY <1>2, <1>3
<1>5. v10' = [open |-> f1, tool |-> f2, slot |-> Default, loading |-> f1, code |-> f5]
  BY <1>2, <1>4
<1>6. IntPanel(v10') /\ v10'.tool = v10.tool /\ v10'.slot = Default
  BY <1>2, <1>5 DEF IntPanel
<1> QED
  BY <1>1, <1>6

LEMMA IntegrationGetIntegrations ==
    ASSUME Integration!Inv, NEW c, Integration!GetIntegrations(c) PROVE Integration!Inv'
<1>1. /\ c \in v11 /\ c.what = "integrations" /\ v3' = v3
      /\ v7' = IF c.tool = Integration!NoTool THEN v7 ELSE Integration!NoTool
  BY DEF Integration!GetIntegrations
<1>2. ASSUME \A d \in v11' : IntBinds(d) => d \in v11 \ {c},
             \A d \in v11 \ {c} : d.what # "generate" => d \in v11'
      PROVE  Integration!BindingIsUnderWay'
  <2>1. \A d : IntBinds(d) => d.what # "generate"
    BY DEF IntBinds
  <2>2. CASE c.tool = Integration!NoTool
    <3>1. ~IntBinds(c)
      BY <1>1, <2>2 DEF IntBinds
    <3> QED
      BY <1>1, <1>2, <2>1, <2>2, <3>1, IntegrationBinds DEF Integration!Inv
  <2>3. CASE c.tool # Integration!NoTool
    <3>1. IntBinds(c)
      BY <1>1, <2>3 DEF IntBinds
    <3> QED
      BY <1>1, <1>2, <2>3, <3>1, IntegrationBound DEF Integration!Inv
  <2> QED
    BY <2>2, <2>3
<1>3. CASE v6
  <2>1. v11' = v11 \ {c} /\ UNCHANGED <<v8, v9, v10>>
    BY <1>3 DEF Integration!GetIntegrations
  <2>2. \A x \in v11' : IntCall(x) /\ IntAsks(x, v10')
    BY <2>1, IntegrationParts
  <2>3. IntPanel(v10') /\ \A u \in Tools : IntCard(v8'[u], v9'[u], v3')
    BY <1>1, <2>1, IntegrationParts
  <2> QED
    BY <1>2, <2>1, <2>2, <2>3, IntegrationWhole
<1>4. CASE ~v6
  <2>1. PICK tool : tool = IF v5 THEN FirstTool ELSE v10.tool
    OBVIOUS
  <2>2. PICK S, C, N : /\ S = v11 \ {c} /\ C = Integration!Cancelled(S)
                       /\ N = Integration!Generating(v4, tool, Default)
    OBVIOUS
  <2>3. v11' = C \cup N
    BY <1>4, <2>1, <2>2 DEF Integration!GetIntegrations
  <2>4. \A d \in S : IntCall(d)
    BY <2>2, IntegrationParts
  <2>5. \A d \in C : IntCall(d) /\ (\A p : IntAsks(d, p)) /\ (IntBinds(d) => d \in S)
    BY <2>2, <2>4, IntegrationCancelled
  <2>6. \A d \in S : d.what # "generate" => d \in C
    BY <2>2, <2>4, IntegrationCancelledBack
  <2>7. \A d \in N : IntCall(d) /\ ~IntBinds(d) /\ d.tool = tool /\ d.slot = Default
    <3> SUFFICES ASSUME NEW d \in N
                 PROVE  IntCall(d) /\ ~IntBinds(d) /\ d.tool = tool /\ d.slot = Default
      OBVIOUS
    <3>1. d = [no |-> v12 + 1, what |-> "generate", tool |-> tool, slot |-> Default,
               live |-> TRUE, got |-> FALSE, models |-> {}]
      BY <2>2 DEF Integration!Generating, Integration!Call
    <3> QED
      BY <3>1 DEF IntCall, IntBinds
  <2>8. /\ \A t \in Tools : IntCard(v8'[t], v9'[t], v3')
        /\ IntPanel(v10') /\ v10'.tool = tool /\ v10'.slot = Default
    <3>1. CASE v5
      <4>1. Integration!Opened(v4) /\ tool = FirstTool
        BY <1>4, <2>1, <3>1 DEF Integration!GetIntegrations
      <4> QED
        BY <1>1, <4>1, IntegrationOpened
    <3>2. CASE ~v5
      <4>1. v9' = v9 /\ tool = v10.tool
        BY <1>4, <2>1, <3>2 DEF Integration!GetIntegrations
      <4>2. v8' = [t \in Tools |-> IF v8[t].open
                                   THEN [v8[t] EXCEPT !.slot = Integration!Slot(Default, v3)]
                                   ELSE v8[t]]
        BY <1>4, <3>2 DEF Integration!GetIntegrations
      <4>3. v10' = [v10 EXCEPT !.slot = Default, !.loading = v10.open]
        BY <1>4, <3>2 DEF Integration!GetIntegrations
      <4> QED
        BY <1>1, <4>1, <4>2, <4>3, IntegrationRefreshed
    <3> QED
      BY <3>1, <3>2
  <2>9. \A d \in N : IntAsks(d, v10')
    BY <2>7, <2>8 DEF IntAsks
  <2>10. \A x \in v11' : IntCall(x) /\ IntAsks(x, v10')
    BY <2>3, <2>5, <2>7, <2>9
  <2>11. Integration!BindingIsUnderWay'
    <3>1. \A d \in v11' : IntBinds(d) => d \in v11 \ {c}
      BY <2>2, <2>3, <2>5, <2>7
    <3>2. \A d \in v11 \ {c} : d.what # "generate" => d \in v11'
      BY <2>2, <2>3, <2>6
    <3> QED
      BY <1>2, <3>1, <3>2
  <2> QED
    BY <2>8, <2>10, <2>11, IntegrationWhole
<1> QED
  BY <1>3, <1>4

LEMMA IntegrationChangeCatalog ==
    ASSUME Integration!Inv, NEW ms, Integration!ChangeCatalog(ms) PROVE Integration!Inv'
BY IntegrationSame DEF Integration!ChangeCatalog

LEMMA IntegrationBindDone ==
    ASSUME Integration!Inv, NEW c, Integration!Bound(c) PROVE Integration!Inv'
<1>1. PICK S, C : S = v11 \ {c} /\ C = Integration!Cancelled(S)
  OBVIOUS
<1>2. PICK e : e = [no |-> v12 + 1, what |-> "integrations", tool |-> c.tool,
                    slot |-> Integration!NoTool, live |-> TRUE, got |-> FALSE, models |-> {}]
  OBVIOUS
<1>3. PICK d : d = [e EXCEPT !.no = c.no]
  OBVIOUS
<1>4. /\ c \in v11 /\ c.what = "bind" /\ v7' = v7 /\ Integration!Closed
      /\ v11' = C \cup {d}
  BY <1>1, <1>2, <1>3 DEF Integration!Bound, Integration!Call
<1>5. d = [no |-> c.no, what |-> "integrations", tool |-> c.tool,
           slot |-> Integration!NoTool, live |-> TRUE, got |-> FALSE, models |-> {}]
  BY <1>2, <1>3
<1>6. c.tool \in Tools /\ Integration!NoTool \notin Tools
  BY <1>4, IntegrationParts, SetupAssumption DEF IntCall, Integration!IntegrationPageAssumption
<1>7. IntCall(d) /\ IntBinds(d) /\ IntBinds(c)
  BY <1>4, <1>5, <1>6 DEF IntCall, IntBinds
<1>8. \A x \in S : IntCall(x)
  BY <1>1, IntegrationParts
<1>9. \A x \in C : IntCall(x) /\ (IntBinds(x) => x \in S)
  BY <1>1, <1>8, IntegrationCancelled
<1>10. \A x \in v11' : IntCall(x) /\ IntAsks(x, v10')
  BY <1>4, <1>7, <1>9, IntegrationClosed
<1>11. Integration!BindingIsUnderWay'
  <2>1. c \in Integration!Bindings
    BY <1>4, <1>7 DEF Integration!Bindings, IntBinds
  <2>2. Integration!Bindings = {c} /\ v7 # Integration!NoTool
    BY <2>1 DEF Integration!Inv, Integration!BindingIsUnderWay
  <2>3. \A x \in v11' : IntBinds(x) <=> x = d
    <3>1. \A x \in S : ~IntBinds(x)
      BY <1>1, <2>2 DEF Integration!Bindings, IntBinds
    <3> QED
      BY <1>4, <1>7, <1>9, <3>1
  <2>4. Integration!Bindings' = {d}
    BY <1>4, <2>3 DEF Integration!Bindings, IntBinds
  <2> QED
    BY <1>4, <2>2, <2>4 DEF Integration!BindingIsUnderWay
<1> QED
  BY <1>4, <1>10, <1>11, IntegrationClosed, IntegrationWhole

LEMMA IntegrationNotBound ==
    ASSUME Integration!Inv, NEW c, Integration!NotBound(c) PROVE Integration!Inv'
<1>1. /\ c \in v11 /\ c.what = "bind" /\ v7' = Integration!NoTool /\ v11' = v11 \ {c}
      /\ UNCHANGED <<v3, v8, v9, v10>>
  BY DEF Integration!NotBound
<1>2. \A x \in v11' : IntCall(x) /\ IntAsks(x, v10')
  BY <1>1, IntegrationParts
<1>3. IntPanel(v10') /\ \A u \in Tools : IntCard(v8'[u], v9'[u], v3')
  BY <1>1, IntegrationParts
<1>4. IntBinds(c)
  BY <1>1 DEF IntBinds
<1>5. Integration!BindingIsUnderWay'
  BY <1>1, <1>4, IntegrationBound DEF Integration!Inv
<1> QED
  BY <1>2, <1>3, <1>5, IntegrationWhole

\* The answer to a request for a configuration, or that there is none.
LEMMA IntegrationAnswered ==
    ASSUME Integration!Inv, NEW c \in v11, ~IntBinds(c), v11' = v11 \ {c},
           UNCHANGED <<v3, v7, v8, v9>>, NEW code,
           v10' = v10 \/ (/\ v10' = [v10 EXCEPT !.loading = FALSE, !.code = code]
                          /\ v10.open => code \in {<<>>, <<v10.tool, v10.slot>>})
    PROVE  Integration!Inv'
<1>1. PICK f1, f2, f3, f4, f5 :
        /\ v10 = [open |-> f1, tool |-> f2, slot |-> f3, loading |-> f4, code |-> f5]
        /\ f1 \in BOOLEAN
  BY IntegrationParts DEF IntPanel
<1>2. v10' = v10 \/ (/\ v10' = [open |-> f1, tool |-> f2, slot |-> f3, loading |-> FALSE,
                               code |-> code]
                     /\ f1 => code \in {<<>>, <<f2, f3>>})
  BY <1>1
<1>3. IntPanel(v10)
  BY IntegrationParts
<1>4. IntPanel(v10')
  BY <1>1, <1>2, <1>3 DEF IntPanel
<1>5. v10'.open = v10.open /\ v10'.tool = v10.tool /\ v10'.slot = v10.slot
  BY <1>1, <1>2
<1>6. ASSUME NEW x \in v11' PROVE IntCall(x) /\ IntAsks(x, v10')
  <2>1. IntCall(x) /\ IntAsks(x, v10)
    BY IntegrationParts
  <2> QED
    BY <1>5, <2>1 DEF IntAsks
<1>7. Integration!BindingIsUnderWay'
  BY IntegrationBinds DEF Integration!Inv
<1>8. \A u \in Tools : IntCard(v8'[u], v9'[u], v3')
  BY IntegrationParts
<1> QED
  BY <1>4, <1>6, <1>7, <1>8, IntegrationWhole

LEMMA IntegrationGenerated ==
    ASSUME Integration!Inv, NEW c, Integration!Generated(c) PROVE Integration!Inv'
<1>1. PICK code : code = <<c.tool, c.slot>>
  OBVIOUS
<1>2. /\ c \in v11 /\ c.what = "generate" /\ v11' = v11 \ {c} /\ UNCHANGED <<v3, v7, v8, v9>>
      /\ v10' = v10 \/ (c.live /\ v10' = [v10 EXCEPT !.loading = FALSE, !.code = code])
  BY <1>1 DEF Integration!Generated, Integration!Stale
<1>3. IntAsks(c, v10)
  BY <1>2, IntegrationParts
<1>4. c.live => (v10.open => code \in {<<>>, <<v10.tool, v10.slot>>})
  BY <1>1, <1>2, <1>3 DEF IntAsks
<1>5. ~IntBinds(c)
  BY <1>2 DEF IntBinds
<1> QED
  BY <1>2, <1>4, <1>5, IntegrationAnswered

LEMMA IntegrationFail ==
    ASSUME Integration!Inv, NEW c, Integration!Fail(c) PROVE Integration!Inv'
<1>1. c \in v11 /\ v3' = v3
  BY DEF Integration!Fail
<1>2. IntCall(c)
  BY <1>1, IntegrationParts
<1>3. CASE c.what \in {"integrations", "bind"}
  <2>1. PICK S, C : S = v11 \ {c} /\ C = Integration!Cancelled(S)
    OBVIOUS
  <2>2. /\ v11' = C /\ Integration!Closed
        /\ v7' = IF c.tool = Integration!NoTool THEN v7 ELSE Integration!NoTool
    BY <1>3, <2>1 DEF Integration!Fail
  <2>3. \A x \in S : IntCall(x)
    BY <2>1, IntegrationParts
  <2>4. \A x \in C : IntCall(x) /\ (IntBinds(x) => x \in S)
    BY <2>1, <2>3, IntegrationCancelled
  <2>5. \A x \in S : x.what # "generate" => x \in C
    BY <2>1, <2>3, IntegrationCancelledBack
  <2>6. \A x : IntBinds(x) => x.what # "generate"
    BY DEF IntBinds
  <2>7. Integration!BindingIsUnderWay'
    <3>1. CASE c.tool = Integration!NoTool
      <4>1. ~IntBinds(c)
        BY <1>2, <1>3, <3>1, SetupAssumption
        DEF IntBinds, IntCall, Integration!IntegrationPageAssumption
      <4> QED
        BY <2>1, <2>2, <2>4, <2>5, <2>6, <3>1, <4>1, IntegrationBinds DEF Integration!Inv
    <3>2. CASE c.tool # Integration!NoTool
      <4>1. IntBinds(c)
        BY <1>3, <3>2 DEF IntBinds
      <4> QED
        BY <1>1, <2>1, <2>2, <2>4, <3>2, <4>1, IntegrationBound DEF Integration!Inv
    <3> QED
      BY <3>1, <3>2
  <2>8. \A x \in v11' : IntCall(x) /\ IntAsks(x, v10')
    BY <2>2, <2>4, IntegrationClosed
  <2> QED
    BY <2>2, <2>7, <2>8, IntegrationClosed, IntegrationWhole
<1>4. CASE c.what \notin {"integrations", "bind"}
  <2>1. PICK code : code = <<>>
    OBVIOUS
  <2>2. /\ v11' = v11 \ {c} /\ UNCHANGED <<v3, v7, v8, v9>>
        /\ v10' = v10 \/ v10' = [v10 EXCEPT !.loading = FALSE, !.code = code]
    BY <1>4, <2>1 DEF Integration!Fail
  <2>3. ~IntBinds(c)
    BY <1>4 DEF IntBinds
  <2>4. code \in {<<>>, <<v10.tool, v10.slot>>}
    BY <2>1
  <2> QED
    BY <1>1, <2>2, <2>3, <2>4, IntegrationAnswered
<1> QED
  BY <1>3, <1>4

LEMMA IntegrationNext == ASSUME Integration!Inv, Integration!Next PROVE Integration!Inv'
<1>1. CASE Integration!Reopen \/ \E tb \in {"auto", "manual"} : Integration!SetActiveTab(tb)
  BY <1>1, IntegrationReopen, IntegrationSetActiveTab
<1>2. ASSUME NEW t \in Tools,
             \/ \E ms \in SUBSET v3 : Integration!Select(t, ms)
             \/ \E m \in v3 : Integration!SetSlot(t, m)
             \/ Integration!HandleBind(t)
      PROVE  Integration!Inv'
  BY <1>2, IntegrationSelect, IntegrationSetSlot, IntegrationHandleBind
<1>3. ASSUME \/ \E t \in Tools : Integration!ChooseTool(t)
             \/ \E m \in v3 : Integration!ChooseSlot(m)
      PROVE  Integration!Inv'
  BY <1>3, IntegrationChoose DEF Integration!ChooseTool, Integration!ChooseSlot
<1>4. ASSUME NEW c \in v11,
             \/ Integration!Serve(c) \/ Integration!GetModels(c)
             \/ Integration!GetIntegrations(c) \/ Integration!Bound(c)
             \/ Integration!NotBound(c) \/ Integration!Generated(c) \/ Integration!Fail(c)
      PROVE  Integration!Inv'
  BY <1>4, IntegrationServe, IntegrationGetModels, IntegrationGetIntegrations,
     IntegrationBindDone, IntegrationNotBound, IntegrationGenerated, IntegrationFail
<1> QED
  BY <1>1, <1>2, <1>3, <1>4, IntegrationChangeCatalog DEF Integration!Next

-----------------------------------------------------------------------------
(* The settings pages: kind v1, settings v2, config v3, busy v4, loading   *)
(* v5, mount v6, tasks v7, begun v8, served v9, order v10, clean v11.      *)

\* A handler of a page that was opened m times, when n requests were answered.
SetTask(t, m, n) ==
    /\ t = [n |-> t.n, doing |-> t.doing, item |-> t.item, value |-> t.value,
            adds |-> t.adds, mount |-> t.mount, at |-> t.at, no |-> t.no, got |-> t.got]
    /\ t.doing \in {"call", "list", "after"} /\ t.at \in {"out", "read", "answered"}
    /\ t.item \in Items /\ t.value \in {"on", "off", "gone"}
    /\ t.mount \in Nat /\ t.mount <= m /\ t.no \in Nat /\ t.no <= n
    /\ t.at # "out" => t.got \in [Items -> Settings!Values]

\* It commands or follows a command.
SetCalls(t) == t.doing \in {"call", "after"}

\* What the page is right to show in the end.
SetSound == Settings!Overtaken \/ Settings!Due \/ Settings!Orderly
SetHere == \A t \in v7 : t.doing = "call" => ~Settings!Left(t)

SetConfigs == [Items -> Settings!Values \cup {"unknown"}]

LEMMA SettingsParts ==
    ASSUME Settings!Inv
    PROVE  /\ v1 \in Settings!Kinds /\ v2 \in [Items -> Settings!Values] /\ v3 \in SetConfigs
           /\ v6 \in Nat /\ v9 \in Nat /\ v10 \in Nat
           /\ \A t \in v7 : SetTask(t, v6, v9)
BY DEF Settings!Inv, Settings!Types, SetTask, SetConfigs

LEMMA SettingsSingle == Single \in Items
BY SetupAssumption DEF Settings!SettingsPageAssumption

LEMMA SettingsWhole ==
    ASSUME Settings!Inv, v1' = v1, v4' \in BOOLEAN, v11' \in BOOLEAN, v6' \in Nat, v6 <= v6',
           v9' \in Nat, v9 <= v9', v10' \in Nat, v2' \in [Items -> Settings!Values],
           v3' \in SetConfigs, \A t \in v7' : t \in v7 \/ SetTask(t, v6', v9'),
           Settings!OneCall', v11' => SetSound' /\ SetHere'
    PROVE  Settings!Inv'
<1>1. \A t \in v7' : SetTask(t, v6', v9')
  <2> SUFFICES ASSUME NEW t \in v7' PROVE SetTask(t, v6', v9')
    OBVIOUS
  <2>1. CASE t \in v7
    <3>1. SetTask(t, v6, v9) /\ v6 \in Nat /\ v9 \in Nat
      BY <2>1, SettingsParts
    <3> QED
      BY <3>1 DEF SetTask
  <2> QED
    BY <2>1
<1>2. v1' \in Settings!Kinds
  BY SettingsParts
<1>3. Settings!Types'
  BY <1>1, <1>2 DEF Settings!Types, SetTask, SetConfigs
<1> QED
  BY <1>3 DEF Settings!Inv, SetSound, SetHere

-----------------------------------------------------------------------------
(* What follows a command, and what the server makes of it.                *)

LEMMA SettingsFollow ==
    ASSUME v1 \in Settings!Kinds, NEW t
    PROVE  /\ Settings!Follow(t) \in {"list", "put", "patch"}
           /\ Settings!Follow(t) = "patch" => v1 \in {"filters", "models"}
BY DEF Settings!Follow, Settings!Kinds, Settings!OneAtATime, Settings!FileKinds

LEMMA SettingsLike ==
    ASSUME NEW t, NEW u, v1' = v1, v6' = v6, u.doing = t.doing, u.adds = t.adds, u.item = t.item,
           u.mount = t.mount
    PROVE  /\ Settings!Follow(u)' = Settings!Follow(t) /\ Settings!Follow(u) = Settings!Follow(t)
           /\ Settings!Left(u)' <=> Settings!Left(t)
           /\ Settings!Left(u) <=> Settings!Left(t)
           /\ Settings!Whole(u)' <=> Settings!Whole(t)
           /\ Settings!Whole(u) <=> Settings!Whole(t)
<1>1. Settings!Follow(u)' = Settings!Follow(t) /\ Settings!Follow(u) = Settings!Follow(t)
  BY DEF Settings!Follow
<1>2. (Settings!Left(u)' <=> Settings!Left(t)) /\ (Settings!Left(u) <=> Settings!Left(t))
  BY DEF Settings!Left
<1> QED
  BY <1>1, <1>2 DEF Settings!Whole

LEMMA SettingsFrame ==
    ASSUME v1' = v1, v6' = v6
    PROVE  \A t : /\ Settings!Follow(t)' = Settings!Follow(t)
                  /\ Settings!Left(t)' <=> Settings!Left(t)
                  /\ Settings!Whole(t)' <=> Settings!Whole(t)
                  /\ \A i : /\ Settings!Affects(t, i)' <=> Settings!Affects(t, i)
                            /\ Settings!Brings(t, i)' = Settings!Brings(t, i)
<1> SUFFICES ASSUME NEW t
             PROVE  /\ Settings!Follow(t)' = Settings!Follow(t)
                    /\ Settings!Left(t)' <=> Settings!Left(t)
                    /\ Settings!Whole(t)' <=> Settings!Whole(t)
                    /\ \A i : /\ Settings!Affects(t, i)' <=> Settings!Affects(t, i)
                              /\ Settings!Brings(t, i)' = Settings!Brings(t, i)
  OBVIOUS
<1>1. /\ Settings!Follow(t)' = Settings!Follow(t)
      /\ Settings!Left(t)' <=> Settings!Left(t)
      /\ Settings!Whole(t)' <=> Settings!Whole(t)
  BY SettingsLike
<1>2. \A i : Settings!Affects(t, i)' <=> Settings!Affects(t, i)
  BY <1>1 DEF Settings!Affects
<1>3. \A i : Settings!Brings(t, i)' = Settings!Brings(t, i)
  BY <1>1 DEF Settings!Brings
<1> QED
  BY <1>1, <1>2, <1>3

LEMMA SettingsWith ==
    ASSUME NEW s \in [Items -> Settings!Values], NEW t, t.item \in Items,
           t.value \in {"on", "off", "gone"}
    PROVE  /\ Settings!With(s, t) \in [Items -> Settings!Values]
           /\ t.doing # "call" => Settings!With(s, t) = s
           /\ t.doing = "call" /\ v1 \in {"filters", "models", "tunnel"} =>
                Settings!With(s, t) = [s EXCEPT ![t.item] = t.value]
<1>1. t.value \in Settings!Values /\ "off" \in Settings!Values
  BY DEF Settings!Values
<1>2. /\ [s EXCEPT ![t.item] = t.value] \in [Items -> Settings!Values]
      /\ [i \in Items |-> IF i = t.item THEN t.value ELSE "off"] \in [Items -> Settings!Values]
  BY <1>1
<1> QED
  BY <1>2 DEF Settings!With

-----------------------------------------------------------------------------
(* How the page stays right.                                               *)

\* A step that answers nothing and takes no answer.
LEMMA SettingsQuiet ==
    ASSUME SetSound, UNCHANGED <<v1, v3, v6, v10>>,
           \A i \in Items : Settings!Right(i) \subseteq Settings!Right(i)',
           \A t : t.at = "answered" => (t \in v7 <=> t \in v7'),
           \A t \in v7 : t.at = "out" /\ t.doing # "call" => t \in v7'
    PROVE  SetSound'
<1>1. CASE Settings!Overtaken
  <2>1. Settings!Overtaken'
    BY <1>1 DEF Settings!Overtaken
  <2> QED
    BY <2>1 DEF SetSound
<1>2. CASE Settings!Due
  <2>1. PICK t \in v7 : /\ ~Settings!Left(t)
                        /\ \/ t.at = "out" /\ t.doing # "call"
                           \/ t.at = "answered" /\ t.doing = "call" /\ Settings!Follow(t) = "list"
    BY <1>2 DEF Settings!Due
  <2>2. t \in v7'
    BY <2>1
  <2>3. Settings!Follow(t)' = Settings!Follow(t) /\ (Settings!Left(t)' <=> Settings!Left(t))
    BY SettingsFrame
  <2>4. Settings!Due'
    BY <2>1, <2>2, <2>3 DEF Settings!Due
  <2> QED
    BY <2>4 DEF SetSound
<1>3. CASE Settings!Orderly
  <2>1. ASSUME NEW i \in Items PROVE Settings!Agrees(i)'
    <3>1. \A t : /\ Settings!Affects(t, i)' <=> Settings!Affects(t, i)
                 /\ Settings!Brings(t, i)' = Settings!Brings(t, i)
                 /\ Settings!Affects(t, i) => (t \in v7 <=> t \in v7')
      BY SettingsFrame DEF Settings!Affects
    <3>2. \A t \in v7' : Settings!Newest(t, i)' => t \in v7 /\ Settings!Newest(t, i)
      BY <3>1 DEF Settings!Newest
    <3>3. Settings!Agrees(i) /\ Settings!Right(i) \subseteq Settings!Right(i)' /\ v3' = v3
      BY <1>3 DEF Settings!Orderly
    <3>4. \A t \in v7' : Settings!Newest(t, i)' => Settings!Brings(t, i)' \in Settings!Right(i)'
      BY <3>1, <3>2, <3>3 DEF Settings!Agrees
    <3>5. (\A t \in v7' : ~Settings!Affects(t, i)') => v3'[i] \in Settings!Right(i)'
      BY <3>1, <3>3 DEF Settings!Agrees
    <3> QED
      BY <3>4, <3>5 DEF Settings!Agrees
  <2>2. ASSUME v3' = Settings!Unknown
        PROVE  \E t \in v7' : t.at = "answered" /\ t.doing # "call" /\ ~Settings!Left(t)'
    <3>1. PICK t \in v7 : t.at = "answered" /\ t.doing # "call" /\ ~Settings!Left(t)
      BY <1>3, <2>2 DEF Settings!Orderly
    <3> QED
      BY <3>1, SettingsFrame
  <2>3. Settings!Orderly'
    BY <2>1, <2>2 DEF Settings!Orderly, Settings!Unknown
  <2> QED
    BY <2>3 DEF SetSound
<1> QED
  BY <1>1, <1>2, <1>3 DEF SetSound

\* The server answers t with the settings, or with what became of the one that u
\* is about.
LEMMA SettingsServed ==
    ASSUME Settings!Inv, SetSound, SetHere, UNCHANGED <<v1, v3, v6, v10>>,
           NEW t \in v7, t.at # "answered", NEW u, v7' = (v7 \ {t}) \cup {u},
           u.at = "answered", u.no = v9 + 1, u.doing = t.doing, u.adds = t.adds,
           u.item = t.item, u.mount = t.mount,
           \A i \in Items : \/ Settings!Affects(u, i) /\ Settings!Brings(u, i) = v2'[i]
                            \/ Settings!Due'
                            \/ ~Settings!Affects(u, i) /\ v2'[i] = v2[i]
    PROVE  SetSound'
<1>1. CASE Settings!Due'
  BY <1>1 DEF SetSound
<1>2. CASE Settings!Overtaken
  <2>1. Settings!Overtaken'
    BY <1>2 DEF Settings!Overtaken
  <2> QED
    BY <2>1 DEF SetSound
<1>3. ASSUME NEW i \in Items, ~Settings!Due', Settings!Affects(u, i) PROVE Settings!Agrees(i)'
  <2>1. \A x \in v7 : x.no \in Nat /\ x.no <= v9 /\ v9 \in Nat
    BY SettingsParts DEF SetTask
  <2>2. Settings!Affects(u, i)'
    BY <1>3, SettingsFrame
  <2>3. \A x \in v7' : Settings!Newest(x, i)' => x = u
    BY <2>1, <2>2 DEF Settings!Newest
  <2>4. Settings!Brings(u, i)' = v2'[i]
    BY <1>3, SettingsFrame
  <2>5. v2'[i] \in Settings!Right(i)'
    BY DEF Settings!Right
  <2>6. \A x \in v7' : Settings!Newest(x, i)' => Settings!Brings(x, i)' \in Settings!Right(i)'
    BY <2>3, <2>4, <2>5
  <2>7. ~(\A x \in v7' : ~Settings!Affects(x, i)')
    BY <2>2
  <2> QED
    BY <2>6, <2>7 DEF Settings!Agrees
<1>4. CASE Settings!Due /\ ~Settings!Due'
  <2>1. PICK d \in v7 : /\ ~Settings!Left(d)
                        /\ \/ d.at = "out" /\ d.doing # "call"
                           \/ d.at = "answered" /\ d.doing = "call" /\ Settings!Follow(d) = "list"
    BY <1>4 DEF Settings!Due
  <2>2. d = t
    <3>1. SUFFICES ASSUME d # t PROVE Settings!Due'
      BY <1>4
    <3>2. d \in v7' /\ Settings!Follow(d)' = Settings!Follow(d) /\ ~Settings!Left(d)'
      BY <2>1, <3>1, SettingsFrame
    <3> QED
      BY <2>1, <3>2 DEF Settings!Due
  <2>3. ~Settings!Left(u) /\ u.doing # "call"
    BY <2>1, <2>2, SettingsLike
  <2>4. \A i : Settings!Affects(u, i)
    BY <2>3 DEF Settings!Affects, Settings!Whole
  <2>5. \A i \in Items : Settings!Agrees(i)'
    BY <1>3, <1>4, <2>4
  <2>6. ~Settings!Left(u)' /\ u \in v7'
    BY <2>3, SettingsFrame
  <2>7. Settings!Orderly'
    BY <2>3, <2>5, <2>6 DEF Settings!Orderly
  <2> QED
    BY <2>7 DEF SetSound
<1>5. CASE Settings!Orderly /\ ~Settings!Due'
  <2>1. ASSUME NEW i \in Items, ~Settings!Affects(u, i) PROVE Settings!Agrees(i)'
    <3>1. v2'[i] = v2[i]
      BY <1>5, <2>1
    <3>2. Settings!Right(i)' = Settings!Right(i)
      BY <3>1 DEF Settings!Right
    <3>3. \A x : /\ Settings!Affects(x, i)' <=> Settings!Affects(x, i)
                 /\ Settings!Brings(x, i)' = Settings!Brings(x, i)
                 /\ Settings!Affects(x, i) => (x \in v7 <=> x \in v7')
      BY <2>1, SettingsFrame DEF Settings!Affects
    <3>4. \A x \in v7' : Settings!Newest(x, i)' => x \in v7 /\ Settings!Newest(x, i)
      BY <3>3 DEF Settings!Newest
    <3>5. Settings!Agrees(i) /\ v3' = v3
      BY <1>5 DEF Settings!Orderly
    <3>6. \A x \in v7' : Settings!Newest(x, i)' => Settings!Brings(x, i)' \in Settings!Right(i)'
      BY <3>2, <3>3, <3>4, <3>5 DEF Settings!Agrees
    <3>7. (\A x \in v7' : ~Settings!Affects(x, i)') => v3'[i] \in Settings!Right(i)'
      BY <3>2, <3>3, <3>5 DEF Settings!Agrees
    <3> QED
      BY <3>6, <3>7 DEF Settings!Agrees
  <2>2. \A i \in Items : Settings!Agrees(i)'
    BY <1>3, <1>5, <2>1
  <2>3. ASSUME v3' = Settings!Unknown
        PROVE  \E x \in v7' : x.at = "answered" /\ x.doing # "call" /\ ~Settings!Left(x)'
    <3>1. PICK x \in v7 : x.at = "answered" /\ x.doing # "call" /\ ~Settings!Left(x)
      BY <1>5, <2>3 DEF Settings!Orderly
    <3> QED
      BY <3>1, SettingsFrame
  <2>4. Settings!Orderly'
    BY <2>2, <2>3 DEF Settings!Orderly, Settings!Unknown
  <2> QED
    BY <2>4 DEF SetSound
<1> QED
  BY <1>1, <1>2, <1>4, <1>5 DEF SetSound

\* The page takes the answer to t, in order.
LEMMA SettingsTaken ==
    ASSUME Settings!Inv, SetSound, UNCHANGED <<v1, v2, v6>>, v3' \in SetConfigs,
           NEW t \in v7, t.at = "answered", v7' = v7 \ {t}, t.no > v10, v10' = t.no,
           ~(t.doing = "call" /\ Settings!Follow(t) = "list"),
           \A i \in Items :
               v3'[i] = IF Settings!Affects(t, i) /\ (v3 # Settings!Unknown \/ Settings!Whole(t))
                        THEN Settings!Brings(t, i) ELSE v3[i]
    PROVE  SetSound'
<1>1. CASE Settings!Overtaken
  <2>1. PICK x \in v7 : x.at = "answered" /\ x.no <= v10
    BY <1>1 DEF Settings!Overtaken
  <2>2. x.no \in Nat /\ t.no \in Nat /\ v10 \in Nat
    BY SettingsParts DEF SetTask
  <2>3. x \in v7' /\ x.no <= v10'
    BY <2>1, <2>2
  <2>4. Settings!Overtaken'
    BY <2>1, <2>3 DEF Settings!Overtaken
  <2> QED
    BY <2>4 DEF SetSound
<1>2. CASE Settings!Due
  <2>1. PICK d \in v7 : /\ ~Settings!Left(d)
                        /\ \/ d.at = "out" /\ d.doing # "call"
                           \/ d.at = "answered" /\ d.doing = "call" /\ Settings!Follow(d) = "list"
    BY <1>2 DEF Settings!Due
  <2>2. d \in v7' /\ Settings!Follow(d)' = Settings!Follow(d) /\ ~Settings!Left(d)'
    BY <2>1, SettingsFrame
  <2>3. Settings!Due'
    BY <2>1, <2>2 DEF Settings!Due
  <2> QED
    BY <2>3 DEF SetSound
<1>3. CASE Settings!Orderly /\ ~Settings!Overtaken'
  <2>1. \A x \in v7' : x.at = "answered" => x.no > t.no
    <3>1. \A x \in v7 : x.no \in Nat
      BY SettingsParts DEF SetTask
    <3> QED
      BY <1>3, <3>1 DEF Settings!Overtaken
  <2>2. ASSUME NEW i \in Items PROVE Settings!Agrees(i)'
    <3>1. Settings!Right(i)' = Settings!Right(i) /\ Settings!Agrees(i)
      BY <1>3 DEF Settings!Right, Settings!Orderly
    <3>2. \A x : /\ Settings!Affects(x, i)' <=> Settings!Affects(x, i)
                 /\ Settings!Brings(x, i)' = Settings!Brings(x, i)
                 /\ Settings!Affects(x, i) => x.at = "answered"
      BY SettingsFrame DEF Settings!Affects
    <3>3. \A x \in v7 : x.no \in Nat
      BY SettingsParts DEF SetTask
    <3>4. ASSUME NEW x \in v7', Settings!Newest(x, i)' PROVE Settings!Newest(x, i)
      <4>1. Settings!Affects(x, i) /\ x.no > t.no
        BY <2>1, <3>2, <3>4 DEF Settings!Newest
      <4>2. \A u \in v7' : Settings!Affects(u, i) => u.no <= x.no
        BY <3>2, <3>4 DEF Settings!Newest
      <4>3. \A u \in v7 : Settings!Affects(u, i) => u.no <= x.no
        BY <3>3, <4>1, <4>2
      <4> QED
        BY <4>1, <4>3 DEF Settings!Newest
    <3>5. \A x \in v7' : Settings!Newest(x, i)' => Settings!Brings(x, i)' \in Settings!Right(i)'
      BY <3>1, <3>2, <3>4 DEF Settings!Agrees
    <3>6. ASSUME \A x \in v7' : ~Settings!Affects(x, i) PROVE v3'[i] \in Settings!Right(i)
      <4>1. CASE ~Settings!Affects(t, i)
        <5>1. \A x \in v7 : ~Settings!Affects(x, i)
          BY <3>6, <4>1
        <5> QED
          BY <3>1, <4>1, <5>1 DEF Settings!Agrees
      <4>2. CASE Settings!Affects(t, i)
        <5>1. Settings!Newest(t, i)
          BY <3>3, <3>6, <4>2 DEF Settings!Newest
        <5>2. Settings!Brings(t, i) \in Settings!Right(i)
          BY <3>1, <5>1 DEF Settings!Agrees
        <5>3. v3 # Settings!Unknown \/ Settings!Whole(t)
          <6>1. SUFFICES ASSUME v3 = Settings!Unknown, ~Settings!Whole(t) PROVE FALSE
            OBVIOUS
          <6>2. PICK x \in v7 : x.at = "answered" /\ x.doing # "call" /\ ~Settings!Left(x)
            BY <1>3, <6>1 DEF Settings!Orderly
          <6>3. Settings!Whole(x) /\ Settings!Affects(x, i)
            BY <6>2 DEF Settings!Whole, Settings!Affects
          <6> QED
            BY <3>6, <6>1, <6>2, <6>3
        <5> QED
          BY <4>2, <5>2, <5>3
      <4> QED
        BY <4>1, <4>2
    <3> QED
      BY <3>1, <3>2, <3>5, <3>6 DEF Settings!Agrees
  <2>3. ASSUME v3' = Settings!Unknown
        PROVE  \E x \in v7' : x.at = "answered" /\ x.doing # "call" /\ ~Settings!Left(x)'
    <3>1. \A i \in Items : v3'[i] = "unknown"
      BY <2>3 DEF Settings!Unknown
    <3>2. \A i \in Items : Settings!Affects(t, i) => Settings!Brings(t, i) # "unknown"
      <4>1. /\ t.value # "unknown"
            /\ \A i \in Items : t.got[i] \in Settings!Values
        BY SettingsParts DEF SetTask
      <4> QED
        BY <4>1 DEF Settings!Brings, Settings!Values
    <3>3. \A i \in Items :
              v3[i] = "unknown" /\ ~(Settings!Affects(t, i) /\ (v3 # Settings!Unknown \/ Settings!Whole(t)))
      BY <3>1, <3>2
    <3>4. v3 = Settings!Unknown
      <4>1. v3 \in SetConfigs
        BY SettingsParts
      <4> QED
        BY <3>3, <4>1 DEF Settings!Unknown, SetConfigs
    <3>5. PICK x \in v7 : x.at = "answered" /\ x.doing # "call" /\ ~Settings!Left(x)
      BY <1>3, <3>4 DEF Settings!Orderly
    <3>6. x # t
      <4>1. SUFFICES ASSUME x = t PROVE FALSE
        OBVIOUS
      <4>2. Settings!Whole(t) /\ Settings!Affects(t, Single)
        BY <3>5, <4>1 DEF Settings!Whole, Settings!Affects
      <4> QED
        BY <3>3, <4>2, SettingsSingle
    <3> QED
      BY <3>5, <3>6, SettingsFrame
  <2>4. Settings!Orderly'
    BY <2>2, <2>3 DEF Settings!Orderly, Settings!Unknown
  <2> QED
    BY <2>4 DEF SetSound
<1> QED
  BY <1>1, <1>2, <1>3 DEF SetSound

-----------------------------------------------------------------------------
(* The flag of a page belongs to its command.                              *)

\* t goes on as u.
LEMMA SettingsKept ==
    ASSUME Settings!OneCall, v1' = v1, v6' = v6, v4' = v4, NEW t \in v7, NEW u,
           v7' = (v7 \ {t}) \cup {u}, SetCalls(u) <=> SetCalls(t), u.mount = t.mount
    PROVE  Settings!OneCall'
<1>1. \A x : Settings!Left(x)' <=> Settings!Left(x)
  BY SettingsFrame
<1>2. Settings!Left(u) <=> Settings!Left(t)
  BY DEF Settings!Left
<1>3. \A x : x \in Settings!Calls' <=> \/ x \in Settings!Calls /\ x # t
                                       \/ x = u /\ t \in Settings!Calls
  BY <1>1, <1>2 DEF Settings!Calls, SetCalls
<1>4. Settings!Calls' # {} <=> Settings!Calls # {}
  BY <1>3
<1>5. (\A x, y \in Settings!Calls : x = y) => \A x, y \in Settings!Calls' : x = y
  BY <1>3
<1> QED
  BY <1>4, <1>5 DEF Settings!OneCall

\* Requests that are no commands come.
LEMMA SettingsAsked ==
    ASSUME Settings!OneCall, v1' = v1, v6' = v6, v4' = v4, NEW u, v7' = v7 \cup {u}, ~SetCalls(u)
    PROVE  Settings!OneCall'
<1>1. \A x : Settings!Left(x)' <=> Settings!Left(x)
  BY SettingsFrame
<1>2. Settings!Calls' = Settings!Calls
  BY <1>1 DEF Settings!Calls, SetCalls
<1> QED
  BY <1>2 DEF Settings!OneCall

\* t is over, or goes on as a request that is no command.
LEMMA SettingsFreed ==
    ASSUME Settings!OneCall, v1' = v1, v6' = v6, NEW t \in v7, NEW U,
           v7' = (v7 \ {t}) \cup U, \A u \in U : ~SetCalls(u),
           v4' <=> v4 /\ (~SetCalls(t) \/ Settings!Left(t))
    PROVE  Settings!OneCall'
<1>1. \A x : Settings!Left(x)' <=> Settings!Left(x)
  BY SettingsFrame
<1>2. Settings!Calls' = Settings!Calls \ {t}
  BY <1>1 DEF Settings!Calls, SetCalls
<1>3. t \in Settings!Calls <=> SetCalls(t) /\ ~Settings!Left(t)
  BY DEF Settings!Calls, SetCalls
<1>4. ASSUME v4 => Settings!Calls # {} PROVE v4' => Settings!Calls' # {}
  BY <1>2, <1>3, <1>4
<1>5. ASSUME \A x, y \in Settings!Calls : x = y, v4 <=> Settings!Calls # {}
      PROVE  (\A x, y \in Settings!Calls' : x = y) /\ (v4' <=> Settings!Calls' # {})
  BY <1>2, <1>3, <1>5
<1> QED
  BY <1>4, <1>5 DEF Settings!OneCall

-----------------------------------------------------------------------------
LEMMA SettingsInit == ASSUME Settings!Init PROVE Settings!Inv
<1>1. PICK t : v7 = {t} /\ t = [n |-> 1, doing |-> "list", item |-> Single, value |-> "on",
                               adds |-> FALSE, mount |-> 1, at |-> "out", no |-> 0,
                               got |-> Settings!Unknown]
  BY DEF Settings!Init
<1>2. SetTask(t, 1, 0)
  BY <1>1, SettingsSingle DEF SetTask
<1>3. /\ v1 \in Settings!Kinds /\ v2 \in [Items -> {"on", "off"}] /\ v3 = Settings!Unknown
      /\ v4 = FALSE /\ v6 = 1 /\ v9 = 0 /\ v10 = 0 /\ v11 = TRUE
  BY DEF Settings!Init
<1>4. v2 \in [Items -> Settings!Values] /\ v3 \in [Items -> Settings!Values \cup {"unknown"}]
  BY <1>3 DEF Settings!Values, Settings!Unknown
<1>5. Settings!Types
  BY <1>1, <1>2, <1>3, <1>4 DEF Settings!Types, SetTask
<1>6. Settings!Calls = {}
  BY <1>1 DEF Settings!Calls
<1>7. Settings!OneCall
  BY <1>3, <1>6 DEF Settings!OneCall
<1>8. ~Settings!Left(t)
  BY <1>1, <1>3 DEF Settings!Left
<1>9. Settings!Due
  BY <1>1, <1>8 DEF Settings!Due
<1> QED
  BY <1>1, <1>5, <1>7, <1>9 DEF Settings!Inv

LEMMA SettingsShows == ASSUME Settings!Inv PROVE Settings!SettingsAgree
<1>1. ASSUME v7 = {}, v11
      PROVE  v3 = v2 \/ (v1 = "tunnel" /\ v2[Single] \in Settings!Further(v3[Single]))
  <2>1. ~Settings!Overtaken /\ ~Settings!Due
    BY <1>1 DEF Settings!Overtaken, Settings!Due
  <2>2. \A i \in Items : v3[i] \in Settings!Right(i)
    BY <1>1, <2>1 DEF Settings!Inv, Settings!Orderly, Settings!Agrees
  <2>3. SUFFICES ASSUME ~(v1 = "tunnel" /\ v2[Single] \in Settings!Further(v3[Single]))
                 PROVE  v3 = v2
    OBVIOUS
  <2>4. \A i \in Items : v3[i] = v2[i]
    BY <2>2, <2>3 DEF Settings!Right
  <2>5. v2 \in [Items -> Settings!Values] /\ v3 \in SetConfigs
    BY SettingsParts
  <2> QED
    BY <2>4, <2>5 DEF SetConfigs
<1>2. Settings!OneCall
  BY DEF Settings!Inv
<1> QED
  BY <1>1, <1>2 DEF Settings!SettingsAgree, Settings!OneCall

\* A step that changes nothing of the page that matters here.
LEMMA SettingsSame ==
    ASSUME Settings!Inv, UNCHANGED <<v1, v2, v3, v4, v6, v7, v9, v10, v11>> PROVE Settings!Inv'
<1>1. SetSound /\ SetHere => SetSound' /\ SetHere'
  <2>1. SetSound => SetSound'
    BY SettingsQuiet DEF Settings!Right
  <2>2. SetHere => SetHere'
    BY SettingsFrame DEF SetHere
  <2> QED
    BY <2>1, <2>2
<1>2. Settings!OneCall'
  <2>1. Settings!Calls' = Settings!Calls
    BY SettingsFrame DEF Settings!Calls
  <2> QED
    BY <2>1 DEF Settings!Inv, Settings!OneCall
<1>3. v4' \in BOOLEAN /\ v11' \in BOOLEAN
  BY DEF Settings!Inv, Settings!Types
<1>4. v11' => SetSound' /\ SetHere'
  BY <1>1 DEF Settings!Inv, SetSound, SetHere
<1>5. /\ v6' \in Nat /\ v6 <= v6' /\ v9' \in Nat /\ v9 <= v9' /\ v10' \in Nat
      /\ v2' \in [Items -> Settings!Values] /\ v3' \in SetConfigs
  BY SettingsParts
<1> QED
  BY <1>2, <1>3, <1>4, <1>5, SettingsWhole

\* A command, or another request for the settings.
SetNew(u, doing, i, v, m) ==
    u = [n |-> v8 + 1, doing |-> doing, item |-> i, value |-> v, adds |-> v3[i] = "gone",
         mount |-> m, at |-> "out", no |-> 0, got |-> Settings!Unknown]

LEMMA SettingsNew ==
    ASSUME Settings!Inv, NEW u, NEW doing \in {"call", "list"}, NEW i \in Items,
           NEW v \in {"on", "off", "gone"}, NEW m \in Nat, SetNew(u, doing, i, v, m)
    PROVE  /\ SetTask(u, m, v9) /\ u.doing = doing /\ u.at = "out" /\ u.mount = m
           /\ SetCalls(u) <=> doing = "call"
<1>1. v9 \in Nat /\ 0 <= v9
  BY SettingsParts
<1>2. PICK a : a = (v3[i] = "gone")
  OBVIOUS
<1>3. PICK n : n = v8 + 1
  OBVIOUS
<1>4. u = [n |-> n, doing |-> doing, item |-> i, value |-> v, adds |-> a,
           mount |-> m, at |-> "out", no |-> 0, got |-> Settings!Unknown]
  BY <1>2, <1>3 DEF SetNew
<1> QED
  BY <1>1, <1>4 DEF SetTask, SetCalls

LEMMA SettingsCommand ==
    ASSUME Settings!Inv, NEW i \in Settings!Mine, NEW v \in {"on", "off", "gone"},
           Settings!Command(i, v)
    PROVE  Settings!Inv'
<1>1. PICK u : SetNew(u, "call", i, v, v6)
  BY DEF SetNew
<1>2. /\ v7' = v7 \cup {u} /\ UNCHANGED <<v1, v2, v3, v6, v9, v10>>
      /\ ~Settings!Disabled \/ v1 = "api-key"
      /\ v4' <=> v4 \/ v1 \in Settings!OneAtATime
  BY <1>1 DEF Settings!Command, Settings!Task, SetNew
<1>3. UNCHANGED v11 /\ v4' \in BOOLEAN
  BY DEF Settings!Command
<1>4. i \in Items /\ v6 \in Nat
  BY SettingsSingle, SettingsParts DEF Settings!Mine
<1>5. SetTask(u, v6, v9) /\ u.doing = "call" /\ u.at = "out" /\ u.mount = v6
  BY <1>1, <1>4, SettingsNew
<1>6. ~Settings!Left(u)
  BY <1>5 DEF Settings!Left
<1>7. Settings!OneCall'
  <2>1. Settings!Calls' = Settings!Calls \cup {u}
    <3>1. \A x : Settings!Left(x)' <=> Settings!Left(x)
      BY <1>2, SettingsFrame
    <3> QED
      BY <1>2, <1>5, <1>6, <3>1 DEF Settings!Calls
  <2>2. v1 \in Settings!OneAtATime \ {"api-key"} => ~v4 /\ Settings!Calls = {}
    BY <1>2 DEF Settings!Disabled, Settings!Inv, Settings!OneCall
  <2>3. Settings!Calls' # {}
    BY <2>1
  <2>4. v1 \in Settings!OneAtATime \ {"api-key"} => v4' /\ \A x, y \in Settings!Calls' : x = y
    BY <1>2, <2>1, <2>2
  <2> QED
    BY <1>2, <2>3, <2>4 DEF Settings!OneCall
<1>8. SetSound /\ SetHere => SetSound' /\ SetHere'
  <2>1. SetSound => SetSound'
    BY <1>2, <1>5, SettingsQuiet DEF Settings!Right
  <2>2. SetHere => SetHere'
    BY <1>2, <1>6, SettingsFrame DEF SetHere
  <2> QED
    BY <2>1, <2>2
<1>9. v11 \in BOOLEAN /\ (v11 => SetSound /\ SetHere)
  BY DEF Settings!Inv, Settings!Types, SetSound, SetHere
<1>10. /\ v6' \in Nat /\ v6 <= v6' /\ v9' \in Nat /\ v9 <= v9' /\ v10' \in Nat
       /\ v2' \in [Items -> Settings!Values] /\ v3' \in SetConfigs
       /\ \A t \in v7' : t \in v7 \/ SetTask(t, v6', v9')
  BY <1>2, <1>5, SettingsParts
<1>11. v11' \in BOOLEAN /\ (v11' => SetSound' /\ SetHere')
  BY <1>3, <1>8, <1>9
<1> QED
  BY <1>2, <1>3, <1>7, <1>10, <1>11, SettingsWhole

LEMMA SettingsFetch == ASSUME Settings!Inv, Settings!Fetch PROVE Settings!Inv'
<1>1. PICK u : SetNew(u, "list", Single, "on", v6)
  BY DEF SetNew
<1>2. v7' = v7 \cup {u} /\ UNCHANGED <<v1, v2, v3, v6, v9, v10>>
  BY <1>1 DEF Settings!Fetch, Settings!Task, SetNew
<1>3. UNCHANGED <<v4, v11>>
  BY DEF Settings!Fetch
<1>4. SetTask(u, v6, v9) /\ u.doing = "list" /\ u.at = "out" /\ u.mount = v6 /\ ~SetCalls(u)
  BY <1>1, SettingsNew, SettingsSingle, SettingsParts
<1>5. Settings!OneCall'
  BY <1>2, <1>3, <1>4, SettingsAsked DEF Settings!Inv
<1>6. SetSound'
  <2>1. ~Settings!Left(u)' /\ u \in v7'
    BY <1>2, <1>4 DEF Settings!Left
  <2>2. Settings!Due'
    BY <1>4, <2>1 DEF Settings!Due
  <2> QED
    BY <2>2 DEF SetSound
<1>7. SetHere => SetHere'
  BY <1>2, <1>4, SettingsFrame DEF SetHere
<1>8. v4 \in BOOLEAN /\ v11 \in BOOLEAN /\ (v11 => SetHere)
  BY DEF Settings!Inv, Settings!Types, SetHere
<1>9. /\ v6' \in Nat /\ v6 <= v6' /\ v9' \in Nat /\ v9 <= v9' /\ v10' \in Nat
      /\ v2' \in [Items -> Settings!Values] /\ v3' \in SetConfigs
      /\ \A t \in v7' : t \in v7 \/ SetTask(t, v6', v9')
  BY <1>2, <1>4, SettingsParts
<1>10. v4' \in BOOLEAN /\ v11' \in BOOLEAN /\ (v11' => SetSound' /\ SetHere')
  BY <1>3, <1>6, <1>7, <1>8
<1> QED
  BY <1>2, <1>5, <1>9, <1>10, SettingsWhole

LEMMA SettingsReopen == ASSUME Settings!Inv, Settings!Reopen PROVE Settings!Inv'
<1>1. PICK e : SetNew(e, "list", Single, "on", v6)
  BY DEF SetNew
<1>2. PICK m, a, n : m = v6 + 1 /\ a = (v3[Single] = "gone") /\ n = v8 + 1
  OBVIOUS
<1>3. PICK u : u = [e EXCEPT !.mount = m]
  OBVIOUS
<1>4. /\ v7' = v7 \cup {u} /\ v6' = m /\ UNCHANGED <<v1, v2, v9, v10>>
      /\ v3' = IF v1 \in Settings!OwnState THEN Settings!Unknown ELSE v3
  BY <1>1, <1>2, <1>3 DEF Settings!Reopen, Settings!Task, SetNew
<1>5. v4' \in BOOLEAN /\ (v4' <=> v4 /\ v1 \notin Settings!OwnState)
  BY DEF Settings!Reopen
<1>6. e = [n |-> n, doing |-> "list", item |-> Single, value |-> "on", adds |-> a,
           mount |-> v6, at |-> "out", no |-> 0, got |-> Settings!Unknown]
  BY <1>1, <1>2 DEF SetNew
<1>7. u = [n |-> n, doing |-> "list", item |-> Single, value |-> "on", adds |-> a,
           mount |-> m, at |-> "out", no |-> 0, got |-> Settings!Unknown]
  BY <1>3, <1>6
<1>8. m \in Nat /\ v6 < m /\ v9 \in Nat /\ 0 <= v9
  BY <1>2, SettingsParts
<1>9. SetTask(u, m, v9) /\ ~SetCalls(u)
  BY <1>7, <1>8, SettingsSingle DEF SetTask, SetCalls
<1>10. \A t \in v7 : Settings!Left(t)' <=> v1 \in Settings!OwnState
  <2>1. \A t \in v7 : t.mount \in Nat /\ t.mount <= v6 /\ v6 \in Nat
    BY SettingsParts DEF SetTask
  <2> QED
    BY <1>4, <1>8, <2>1 DEF Settings!Left
<1>11. ~Settings!Left(u)'
  BY <1>4, <1>7 DEF Settings!Left
<1>12. SetSound'
  <2>1. Settings!Due'
    BY <1>4, <1>7, <1>11 DEF Settings!Due
  <2> QED
    BY <2>1 DEF SetSound
<1>13. v11' \in BOOLEAN /\ (v11' => SetHere')
  <2>1. PICK own \in BOOLEAN : own <=> v1 \in Settings!OwnState
    OBVIOUS
  <2>2. PICK c \in BOOLEAN : c <=> \E t \in v7 : t.doing = "call"
    OBVIOUS
  <2>3. v11' = (v11 /\ ~(own /\ c))
    BY <2>1, <2>2 DEF Settings!Reopen
  <2>4. ~(own /\ c) => SetHere'
    BY <1>4, <1>7, <1>10, <2>1, <2>2 DEF SetHere
  <2> QED
    BY <2>3, <2>4
<1>14. Settings!OneCall'
  <2>1. CASE v1 \in Settings!OwnState
    <3>1. Settings!Calls' = {}
      BY <1>4, <1>9, <1>10, <2>1 DEF Settings!Calls, SetCalls
    <3> QED
      BY <1>5, <2>1, <3>1 DEF Settings!OneCall
  <2>2. CASE v1 \notin Settings!OwnState
    <3>1. \A t : ~Settings!Left(t) /\ ~Settings!Left(t)'
      BY <1>4, <2>2 DEF Settings!Left
    <3>2. Settings!Calls' = Settings!Calls
      BY <1>4, <1>9, <3>1 DEF Settings!Calls, SetCalls
    <3> QED
      BY <1>4, <1>5, <2>2, <3>2 DEF Settings!Inv, Settings!OneCall
  <2> QED
    BY <2>1, <2>2
<1>15. v3' \in SetConfigs
  BY <1>4, SettingsParts DEF Settings!Unknown, SetConfigs
<1>16. /\ v6' \in Nat /\ v6 <= v6' /\ v9' \in Nat /\ v9 <= v9' /\ v10' \in Nat
       /\ v2' \in [Items -> Settings!Values]
       /\ \A t \in v7' : t \in v7 \/ SetTask(t, v6', v9')
  BY <1>4, <1>8, <1>9, SettingsParts
<1> QED
  BY <1>4, <1>5, <1>12, <1>13, <1>14, <1>15, <1>16, SettingsWhole

\* t once it has read the file, with s, and once it is answered with s as no k.
SetRead(t, s) ==
    [n |-> t.n, doing |-> t.doing, item |-> t.item, value |-> t.value, adds |-> t.adds,
     mount |-> t.mount, at |-> "read", no |-> t.no, got |-> s]
SetAnswered(t, k, s) ==
    [n |-> t.n, doing |-> t.doing, item |-> t.item, value |-> t.value, adds |-> t.adds,
     mount |-> t.mount, at |-> "answered", no |-> k, got |-> s]

LEMMA SettingsRead ==
    ASSUME Settings!Inv, NEW t, Settings!Read(t) PROVE Settings!Inv'
<1>1. PICK u : u = [t EXCEPT !.at = "read", !.got = v2]
  OBVIOUS
<1>2. /\ t \in v7 /\ t.at = "out" /\ t.doing = "call" /\ v7' = (v7 \ {t}) \cup {u}
      /\ UNCHANGED <<v1, v2, v3, v6, v9, v10>>
  BY <1>1 DEF Settings!Read
<1>3. UNCHANGED <<v4, v11>>
  BY DEF Settings!Read
<1>4. SetTask(t, v6, v9)
  BY <1>2, SettingsParts
<1>5. u = SetRead(t, v2)
  BY <1>1, <1>4 DEF SetTask, SetRead
<1>6. SetTask(u, v6, v9) /\ u.doing = "call" /\ u.mount = t.mount /\ u.at = "read"
  BY <1>2, <1>4, <1>5, SettingsParts DEF SetTask, SetRead
<1>7. Settings!OneCall'
  BY <1>2, <1>3, <1>6, SettingsKept DEF Settings!Inv, SetCalls
<1>8. SetSound => SetSound'
  BY <1>2, <1>6, SettingsQuiet DEF Settings!Right
<1>9. SetHere => SetHere'
  <2>1. Settings!Left(u)' <=> Settings!Left(t)
    BY <1>2, <1>6 DEF Settings!Left
  <2> QED
    BY <1>2, <2>1, SettingsFrame DEF SetHere
<1>10. v4 \in BOOLEAN /\ v11 \in BOOLEAN /\ (v11 => SetSound /\ SetHere)
  BY DEF Settings!Inv, Settings!Types, SetSound, SetHere
<1>11. v4' \in BOOLEAN /\ v11' \in BOOLEAN /\ (v11' => SetSound' /\ SetHere')
  BY <1>3, <1>8, <1>9, <1>10
<1>12. /\ v6' \in Nat /\ v6 <= v6' /\ v9' \in Nat /\ v9 <= v9' /\ v10' \in Nat
       /\ v2' \in [Items -> Settings!Values] /\ v3' \in SetConfigs
       /\ \A x \in v7' : x \in v7 \/ SetTask(x, v6', v9')
  BY <1>2, <1>6, SettingsParts
<1> QED
  BY <1>2, <1>7, <1>11, <1>12, SettingsWhole

\* The server answers t, with s, of which the settings are right.
LEMMA SettingsAnswers ==
    ASSUME Settings!Inv, NEW t \in v7, t.at # "answered", NEW s \in [Items -> Settings!Values],
           v7' = (v7 \ {t}) \cup {SetAnswered(t, v9 + 1, s)}, v9' = v9 + 1,
           v2' \in [Items -> Settings!Values], UNCHANGED <<v1, v3, v6, v10>>, UNCHANGED v4,
           v11' \in BOOLEAN,
           v11' => /\ v11 /\ s = v2' /\ (t.doing # "call" => v2' = v2)
                   /\ t.doing = "call" /\ v1 \in {"filters", "models"} =>
                        v2' = [v2 EXCEPT ![t.item] = t.value]
    PROVE  Settings!Inv'
<1>1. PICK u : u = SetAnswered(t, v9 + 1, s)
  OBVIOUS
<1>2. PICK k : k = v9 + 1
  OBVIOUS
<1>3. SetTask(t, v6, v9) /\ v9 \in Nat
  BY SettingsParts
<1>4. u = [n |-> t.n, doing |-> t.doing, item |-> t.item, value |-> t.value, adds |-> t.adds,
           mount |-> t.mount, at |-> "answered", no |-> k, got |-> s]
  BY <1>1, <1>2 DEF SetAnswered
<1>5. k \in Nat
  BY <1>2, <1>3
<1>6. SetTask(u, v6, k)
  BY <1>3, <1>4, <1>5 DEF SetTask
<1>7. /\ v7' = (v7 \ {t}) \cup {u} /\ u.at = "answered" /\ u.no = v9 + 1 /\ u.doing = t.doing
      /\ u.adds = t.adds /\ u.item = t.item /\ u.mount = t.mount /\ u.got = s
      /\ u.value = t.value
  BY <1>1, <1>2, <1>4
<1>8. Settings!OneCall'
  BY <1>7, SettingsKept DEF Settings!Inv, SetCalls
<1>9. ASSUME v11' PROVE SetSound' /\ SetHere'
  <2>1. SetSound /\ SetHere
    BY <1>9 DEF Settings!Inv, SetSound, SetHere
  <2>2. /\ Settings!Follow(u) = Settings!Follow(t) /\ Settings!Follow(u)' = Settings!Follow(t)
        /\ Settings!Left(u)' <=> Settings!Left(t)
        /\ Settings!Left(u) <=> Settings!Left(t)
        /\ Settings!Whole(u) <=> Settings!Whole(t)
    BY <1>7, SettingsLike
  <2>3. SetHere'
    BY <1>7, <2>1, <2>2, SettingsFrame DEF SetHere
  <2>4. Settings!Follow(t) \in {"list", "put", "patch"}
        /\ (Settings!Follow(t) = "patch" => v1 \in {"filters", "models"})
    BY SettingsParts, SettingsFollow
  <2>5. ASSUME NEW i \in Items
        PROVE  \/ Settings!Affects(u, i) /\ Settings!Brings(u, i) = v2'[i]
               \/ Settings!Due'
               \/ ~Settings!Affects(u, i) /\ v2'[i] = v2[i]
    <3>1. CASE Settings!Left(t)
      <4>1. ~Settings!Affects(u, i)
        BY <2>2, <3>1 DEF Settings!Affects
      <4>2. t.doing # "call"
        BY <2>1, <3>1 DEF SetHere
      <4> QED
        BY <1>9, <4>1, <4>2
    <3>2. CASE ~Settings!Left(t) /\ Settings!Whole(t)
      <4>1. Settings!Affects(u, i)
        BY <1>7, <2>2, <3>2 DEF Settings!Affects
      <4>2. Settings!Brings(u, i) = s[i]
        BY <1>7, <2>2, <3>2 DEF Settings!Brings
      <4> QED
        BY <1>9, <4>1, <4>2
    <3>3. CASE ~Settings!Left(t) /\ ~Settings!Whole(t)
      <4>1. t.doing = "call" /\ Settings!Follow(t) # "put"
        BY <3>3 DEF Settings!Whole
      <4>2. CASE Settings!Follow(t) = "list"
        <5>1. Settings!Due'
          BY <1>7, <2>2, <3>3, <4>1, <4>2 DEF Settings!Due
        <5> QED
          BY <5>1
      <4>3. CASE Settings!Follow(t) = "patch"
        <5>1. v2' = [v2 EXCEPT ![t.item] = t.value] /\ v2 \in [Items -> Settings!Values]
          BY <1>9, <2>4, <4>1, <4>3, SettingsParts
        <5>2. CASE i = t.item
          <6>1. Settings!Affects(u, i)
            BY <1>7, <2>2, <3>3, <4>1, <4>3, <5>2 DEF Settings!Affects
          <6>2. Settings!Brings(u, i) = t.value
            BY <1>7, <2>2, <3>3 DEF Settings!Brings
          <6> QED
            BY <5>1, <5>2, <6>1, <6>2
        <5>3. CASE i # t.item
          <6>1. ~Settings!Affects(u, i)
            BY <1>7, <2>2, <3>3, <5>3 DEF Settings!Affects
          <6> QED
            BY <5>1, <5>3, <6>1
        <5> QED
          BY <5>2, <5>3
      <4> QED
        BY <2>4, <4>1, <4>2, <4>3
    <3> QED
      BY <3>1, <3>2, <3>3
  <2>6. SetSound'
    BY <1>7, <2>1, <2>5, SettingsServed
  <2> QED
    BY <2>3, <2>6
<1>10. v4' \in BOOLEAN
  BY DEF Settings!Inv, Settings!Types
<1>11. /\ v6' \in Nat /\ v6 <= v6' /\ v9' \in Nat /\ v9 <= v9' /\ v10' \in Nat
       /\ v3' \in SetConfigs
       /\ \A x \in v7' : x \in v7 \/ SetTask(x, v6', v9')
  BY <1>2, <1>5, <1>6, <1>7, SettingsParts
<1> QED
  BY <1>8, <1>9, <1>10, <1>11, SettingsWhole

LEMMA SettingsWrite ==
    ASSUME Settings!Inv, NEW t, Settings!Write(t) PROVE Settings!Inv'
<1>1. PICK s, k : s = Settings!With(t.got, t) /\ k = v9 + 1
  OBVIOUS
<1>2. PICK u : u = [t EXCEPT !.at = "answered", !.no = k, !.got = s]
  OBVIOUS
<1>3. /\ t \in v7 /\ t.at = "read" /\ v7' = (v7 \ {t}) \cup {u} /\ v9' = k
      /\ UNCHANGED <<v1, v3, v6, v10>>
  BY <1>1, <1>2 DEF Settings!Write
<1>4. UNCHANGED v4
  BY DEF Settings!Write
<1>5. SetTask(t, v6, v9)
  BY <1>3, SettingsParts
<1>6. u = SetAnswered(t, k, s)
  BY <1>2, <1>5 DEF SetTask, SetAnswered
<1>7. /\ t.got \in [Items -> Settings!Values] /\ t.item \in Items
      /\ t.value \in {"on", "off", "gone"}
  BY <1>3, <1>5 DEF SetTask
<1>8. v2 \in [Items -> Settings!Values]
  BY SettingsParts
<1>9. s \in [Items -> Settings!Values]
  BY <1>1, <1>7, SettingsWith
<1>10. PICK same \in BOOLEAN : same <=> v2 = t.got
  OBVIOUS
<1>11. \/ v2' \in Settings!Written(t) /\ v11' = (v11 /\ same)
       \/ v11' = FALSE /\ v2' \in {v2, Settings!With(v2, t)}
  BY <1>10 DEF Settings!Write
<1>12. v11 \in BOOLEAN
  BY DEF Settings!Inv, Settings!Types
<1>13. v2' \in Settings!Written(t) => v2' \in [Items -> Settings!Values]
  <2>1. \A v \in {"on", "off", "gone"} : [s EXCEPT ![Single] = v] \in [Items -> Settings!Values]
    BY <1>9 DEF Settings!Values
  <2> QED
    BY <1>1, <1>9, <2>1 DEF Settings!Written
<1>14. v2' \in [Items -> Settings!Values]
  BY <1>7, <1>8, <1>11, <1>13, SettingsWith
<1>15. v11' \in BOOLEAN
  BY <1>11, <1>12
<1>16. ASSUME v11'
       PROVE  /\ v11 /\ s = v2' /\ (t.doing # "call" => v2' = v2)
              /\ t.doing = "call" /\ v1 \in {"filters", "models"} =>
                   v2' = [v2 EXCEPT ![t.item] = t.value]
  <2>1. v11 /\ v2 = t.got /\ v2' \in Settings!Written(t)
    BY <1>10, <1>11, <1>12, <1>16
  <2>2. v2' = s
    BY <1>1, <2>1 DEF Settings!Written
  <2>3. s = Settings!With(v2, t)
    BY <1>1, <2>1
  <2> QED
    BY <1>7, <1>8, <2>1, <2>2, <2>3, SettingsWith
<1>17. v7' = (v7 \ {t}) \cup {SetAnswered(t, v9 + 1, s)} /\ v9' = v9 + 1
  BY <1>1, <1>3, <1>6
<1> QED
  BY <1>3, <1>4, <1>9, <1>14, <1>15, <1>16, <1>17, SettingsAnswers

LEMMA SettingsServe ==
    ASSUME Settings!Inv, NEW t, Settings!Serve(t) PROVE Settings!Inv'
<1>1. PICK s, k : s = v2' /\ k = v9 + 1
  OBVIOUS
<1>2. PICK u : u = [t EXCEPT !.at = "answered", !.no = k, !.got = s]
  OBVIOUS
<1>3. /\ t \in v7 /\ t.at = "out" /\ v7' = (v7 \ {t}) \cup {u} /\ v9' = k
      /\ UNCHANGED <<v1, v3, v6, v10>>
      /\ t.doing = "call" => v1 \notin Settings!FileKinds
  BY <1>1, <1>2 DEF Settings!Serve
<1>4. UNCHANGED <<v4, v11>>
  BY DEF Settings!Serve
<1>5. SetTask(t, v6, v9)
  BY <1>3, SettingsParts
<1>6. u = SetAnswered(t, k, s)
  BY <1>2, <1>5 DEF SetTask, SetAnswered
<1>7. t.item \in Items /\ t.value \in {"on", "off", "gone"} /\ v2 \in [Items -> Settings!Values]
  BY <1>5, SettingsParts DEF SetTask
<1>8. \/ v2' = Settings!With(v2, t)
      \/ t.doing = "call" /\ v2' = [v2 EXCEPT ![t.item] = "starting"]
  BY DEF Settings!Serve
<1>9. v2' \in [Items -> Settings!Values]
  <2>1. [v2 EXCEPT ![t.item] = "starting"] \in [Items -> Settings!Values]
    BY <1>7 DEF Settings!Values
  <2> QED
    BY <1>7, <1>8, <2>1, SettingsWith
<1>10. t.doing # "call" => v2' = v2
  BY <1>7, <1>8, SettingsWith
<1>11. ~(t.doing = "call" /\ v1 \in {"filters", "models"})
  BY <1>3 DEF Settings!FileKinds
<1>12. v11 \in BOOLEAN
  BY DEF Settings!Inv, Settings!Types
<1>13. UNCHANGED v4 /\ v11' \in BOOLEAN /\ (v11' => v11)
  BY <1>4, <1>12
<1>14. v7' = (v7 \ {t}) \cup {SetAnswered(t, v9 + 1, s)} /\ v9' = v9 + 1
  BY <1>1, <1>3, <1>6
<1>15. s \in [Items -> Settings!Values] /\ s = v2'
  BY <1>1, <1>9
<1>16. v11' => /\ v11 /\ s = v2' /\ (t.doing # "call" => v2' = v2)
               /\ t.doing = "call" /\ v1 \in {"filters", "models"} =>
                    v2' = [v2 EXCEPT ![t.item] = t.value]
  BY <1>10, <1>11, <1>13, <1>15
<1>17. t.at # "answered"
  BY <1>3
<1> QED
  BY <1>3, <1>9, <1>13, <1>14, <1>15, <1>16, <1>17, SettingsAnswers

LEMMA SettingsStarted ==
    ASSUME Settings!Inv, NEW v \in {"on", "off"}, Settings!Started(v) PROVE Settings!Inv'
<1>1. /\ v1 = "tunnel" /\ v \in Settings!Further(v2[Single]) /\ v2' = [v2 EXCEPT ![Single] = v]
      /\ UNCHANGED <<v1, v3, v6, v7, v9, v10>>
  BY DEF Settings!Started
<1>2. UNCHANGED <<v4, v11>>
  BY DEF Settings!Started
<1>3. v2 \in [Items -> Settings!Values]
  BY SettingsParts
<1>4. v2' \in [Items -> Settings!Values]
  BY <1>1, <1>3 DEF Settings!Values
<1>5. ASSUME NEW i \in Items PROVE Settings!Right(i) \subseteq Settings!Right(i)'
  <2>1. CASE i = Single
    <3>1. v2'[i] = v /\ v2[i] \in Settings!Values /\ v \in Settings!Further(v2[i])
      BY <1>1, <1>3, <2>1
    <3>2. \A a \in Settings!Values :
             v2[i] \in Settings!Further(a) => v \in Settings!Further(a)
      BY <3>1 DEF Settings!Further, Settings!Values
    <3> QED
      BY <1>1, <2>1, <3>1, <3>2 DEF Settings!Right
  <2>2. CASE i # Single
    BY <1>1, <1>3, <2>2 DEF Settings!Right
  <2> QED
    BY <2>1, <2>2
<1>6. SetSound => SetSound'
  BY <1>1, <1>5, SettingsQuiet
<1>7. SetHere => SetHere'
  BY <1>1, SettingsFrame DEF SetHere
<1>8. Settings!OneCall'
  <2>1. Settings!Calls' = Settings!Calls
    BY <1>1, SettingsFrame DEF Settings!Calls
  <2> QED
    BY <1>1, <1>2, <2>1 DEF Settings!Inv, Settings!OneCall
<1>9. v4 \in BOOLEAN /\ v11 \in BOOLEAN /\ (v11 => SetSound /\ SetHere)
  BY DEF Settings!Inv, Settings!Types, SetSound, SetHere
<1>10. v4' \in BOOLEAN /\ v11' \in BOOLEAN /\ (v11' => SetSound' /\ SetHere')
  BY <1>2, <1>6, <1>7, <1>9
<1>11. /\ v6' \in Nat /\ v6 <= v6' /\ v9' \in Nat /\ v9 <= v9' /\ v10' \in Nat
       /\ v3' \in SetConfigs /\ \A x \in v7' : x \in v7 \/ SetTask(x, v6', v9')
  BY <1>1, SettingsParts
<1> QED
  BY <1>1, <1>4, <1>8, <1>10, <1>11, SettingsWhole

\* The page takes an answer and is done with it.
LEMMA SettingsTakes ==
    ASSUME Settings!Inv, NEW t \in v7, t.at = "answered", v7' = v7 \ {t}, v10' = t.no,
           UNCHANGED <<v1, v2, v6>>, UNCHANGED v9, v3' \in SetConfigs,
           v11' \in BOOLEAN, v11' => v11 /\ t.no > v10,
           v4' \in BOOLEAN, v4' <=> v4 /\ (~SetCalls(t) \/ Settings!Left(t)),
           ~(t.doing = "call" /\ Settings!Follow(t) = "list"),
           \A i \in Items :
               v3'[i] = IF Settings!Affects(t, i) /\ (v3 # Settings!Unknown \/ Settings!Whole(t))
                        THEN Settings!Brings(t, i) ELSE v3[i]
    PROVE  Settings!Inv'
<1>1. PICK N : N = {}
  OBVIOUS
<1>2. v7' = (v7 \ {t}) \cup N /\ \A u \in N : ~SetCalls(u)
  BY <1>1
<1>3. Settings!OneCall'
  BY <1>2, SettingsFreed DEF Settings!Inv
<1>4. SetSound /\ SetHere /\ t.no > v10 => SetSound' /\ SetHere'
  <2>1. SetSound /\ t.no > v10 => SetSound'
    BY SettingsTaken
  <2>2. SetHere => SetHere'
    BY SettingsFrame DEF SetHere
  <2> QED
    BY <2>1, <2>2
<1>5. v11' => SetSound' /\ SetHere'
  BY <1>4 DEF Settings!Inv, SetSound, SetHere
<1>6. SetTask(t, v6, v9)
  BY SettingsParts
<1>7. /\ v6' \in Nat /\ v6 <= v6' /\ v9' \in Nat /\ v9 <= v9' /\ v10' \in Nat
      /\ v2' \in [Items -> Settings!Values] /\ \A x \in v7' : x \in v7 \/ SetTask(x, v6', v9')
  BY <1>6, SettingsParts DEF SetTask
<1> QED
  BY <1>3, <1>5, <1>7, SettingsWhole

\* What a page gets that frees its flag.
LEMMA SettingsFree ==
    ASSUME Settings!Inv, NEW t \in v7, Settings!Free(t)
    PROVE  v4' \in BOOLEAN /\ (v4' <=> v4 /\ (~SetCalls(t) \/ Settings!Left(t)))
<1>1. t.doing = "list" <=> ~SetCalls(t)
  BY SettingsParts DEF SetTask, SetCalls
<1>2. v4 \in BOOLEAN
  BY DEF Settings!Inv, Settings!Types
<1>3. PICK l \in BOOLEAN : l <=> t.doing = "list" \/ Settings!Left(t)
  OBVIOUS
<1>4. v4' = (v4 /\ l)
  BY <1>3 DEF Settings!Free
<1> QED
  BY <1>1, <1>2, <1>3, <1>4

LEMMA SettingsInOrder ==
    ASSUME Settings!Inv, NEW t, Settings!InOrder(t)
    PROVE  v11' \in BOOLEAN /\ (v11' => v11 /\ t.no > v10) /\ v10' = t.no
<1>1. PICK l \in BOOLEAN : l <=> t.no > v10
  OBVIOUS
<1>2. v11' = (v11 /\ l) /\ v10' = t.no
  BY <1>1 DEF Settings!InOrder
<1>3. v11 \in BOOLEAN
  BY DEF Settings!Inv, Settings!Types
<1> QED
  BY <1>1, <1>2, <1>3

LEMMA SettingsDeliver ==
    ASSUME Settings!Inv, NEW t, Settings!Deliver(t) PROVE Settings!Inv'
<1>1. /\ t \in v7 /\ t.at = "answered" /\ t.doing # "call" /\ v7' = v7 \ {t}
      /\ UNCHANGED <<v1, v2, v6>> /\ UNCHANGED v9
      /\ v3' = IF Settings!Left(t) THEN v3 ELSE t.got
  BY DEF Settings!Deliver, Settings!Ended, Settings!Shown
<1>2. Settings!Free(t) /\ Settings!InOrder(t)
  BY DEF Settings!Deliver, Settings!Ended
<1>3. SetTask(t, v6, v9) /\ v3 \in SetConfigs
  BY <1>1, SettingsParts
<1>4. v3' \in SetConfigs
  BY <1>1, <1>3 DEF SetTask, SetConfigs
<1>5. ASSUME NEW i \in Items
      PROVE  v3'[i] = IF Settings!Affects(t, i) /\ (v3 # Settings!Unknown \/ Settings!Whole(t))
                      THEN Settings!Brings(t, i) ELSE v3[i]
  BY <1>1 DEF Settings!Affects, Settings!Whole, Settings!Brings
<1>6. /\ v4' \in BOOLEAN /\ (v4' <=> v4 /\ (~SetCalls(t) \/ Settings!Left(t)))
      /\ v11' \in BOOLEAN /\ (v11' => v11 /\ t.no > v10) /\ v10' = t.no
  BY <1>1, <1>2, SettingsFree, SettingsInOrder
<1> QED
  BY <1>1, <1>4, <1>5, <1>6, SettingsTakes

LEMMA SettingsAnswer ==
    ASSUME Settings!Inv, NEW t, Settings!Answer(t) PROVE Settings!Inv'
<1>1. /\ t \in v7 /\ t.at = "answered" /\ t.doing = "call"
      /\ UNCHANGED <<v1, v2, v6>> /\ UNCHANGED v9 /\ Settings!InOrder(t)
  BY DEF Settings!Answer
<1>2. v11' \in BOOLEAN /\ (v11' => v11 /\ t.no > v10) /\ v10' = t.no
  BY <1>1, SettingsInOrder
<1>3. SetTask(t, v6, v9) /\ v3 \in SetConfigs /\ v1 \in Settings!Kinds
  BY <1>1, SettingsParts
<1>4. CASE Settings!Follow(t) = "list"
  <2>1. PICK u : u = [t EXCEPT !.doing = "after", !.at = "out", !.no = 0]
    OBVIOUS
  <2>2. v7' = (v7 \ {t}) \cup {u} /\ v3' = v3
    BY <1>4, <2>1 DEF Settings!Answer, Settings!Fetching
  <2>3. UNCHANGED v4
    BY <1>4 DEF Settings!Answer, Settings!Fetching
  <2>4. u = [n |-> t.n, doing |-> "after", item |-> t.item, value |-> t.value,
             adds |-> t.adds, mount |-> t.mount, at |-> "out", no |-> 0, got |-> t.got]
    BY <1>3, <2>1 DEF SetTask
  <2>5. v9 \in Nat /\ 0 <= v9
    BY SettingsParts
  <2>6. SetTask(u, v6, v9) /\ u.doing = "after" /\ u.at = "out" /\ u.mount = t.mount
    BY <1>3, <2>4, <2>5 DEF SetTask
  <2>7. Settings!OneCall'
    BY <1>1, <2>2, <2>3, <2>6, SettingsKept DEF Settings!Inv, SetCalls
  <2>8. SetHere => SetSound' /\ SetHere'
    <3>1. SetHere => ~Settings!Left(u)'
      BY <1>1, <2>6 DEF SetHere, Settings!Left
    <3>2. SetHere => Settings!Due'
      BY <2>2, <2>6, <3>1 DEF Settings!Due
    <3>3. SetHere => SetHere'
      BY <1>1, <2>2, <2>6, SettingsFrame DEF SetHere
    <3> QED
      BY <3>2, <3>3 DEF SetSound
  <2>9. v11' => SetSound' /\ SetHere'
    BY <1>2, <2>8 DEF Settings!Inv, SetHere
  <2>10. v4' \in BOOLEAN
    BY <2>3 DEF Settings!Inv, Settings!Types
  <2>11. /\ v6' \in Nat /\ v6 <= v6' /\ v9' \in Nat /\ v9 <= v9' /\ v10' \in Nat
         /\ v2' \in [Items -> Settings!Values] /\ v3' \in SetConfigs
         /\ \A x \in v7' : x \in v7 \/ SetTask(x, v6', v9')
    BY <1>1, <1>2, <1>3, <2>2, <2>6, SettingsParts DEF SetTask
  <2> QED
    BY <1>1, <1>2, <2>7, <2>9, <2>10, <2>11, SettingsWhole
<1>5. ASSUME v7' = v7 \ {t}, Settings!Free(t), Settings!Follow(t) # "list", v3' \in SetConfigs,
             \A i \in Items :
                 v3'[i] = IF Settings!Affects(t, i) /\ (v3 # Settings!Unknown \/ Settings!Whole(t))
                          THEN Settings!Brings(t, i) ELSE v3[i]
      PROVE  Settings!Inv'
  <2>1. v4' \in BOOLEAN /\ (v4' <=> v4 /\ (~SetCalls(t) \/ Settings!Left(t)))
    BY <1>1, <1>5, SettingsFree
  <2> QED
    BY <1>1, <1>2, <1>5, <2>1, SettingsTakes
<1>6. CASE Settings!Follow(t) = "put"
  <2>1. /\ v7' = v7 \ {t} /\ Settings!Free(t)
        /\ v3' = IF Settings!Left(t) THEN v3 ELSE t.got
    BY <1>6 DEF Settings!Answer, Settings!Ended, Settings!Shown
  <2>2. v3' \in SetConfigs
    BY <1>1, <1>3, <2>1 DEF SetTask, SetConfigs
  <2>3. ASSUME NEW i \in Items
        PROVE  v3'[i] = IF Settings!Affects(t, i) /\ (v3 # Settings!Unknown \/ Settings!Whole(t))
                        THEN Settings!Brings(t, i) ELSE v3[i]
    BY <1>1, <1>6, <2>1 DEF Settings!Affects, Settings!Whole, Settings!Brings
  <2> QED
    BY <1>5, <1>6, <2>1, <2>2, <2>3
<1>7. CASE Settings!Follow(t) = "patch"
  <2>1. PICK p : p = Settings!Patched(t)
    OBVIOUS
  <2>2. /\ v7' = v7 \ {t} /\ Settings!Free(t)
        /\ v3' = IF Settings!Left(t) THEN v3 ELSE p
    BY <1>7, <2>1 DEF Settings!Answer, Settings!Ended, Settings!Shown
  <2>3. t.item \in Items /\ t.value \in Settings!Values
    BY <1>3 DEF SetTask, Settings!Values
  <2>4. p = IF v3 = Settings!Unknown THEN v3 ELSE [v3 EXCEPT ![t.item] = t.value]
    BY <2>1 DEF Settings!Patched
  <2>5. v3' \in SetConfigs
    BY <1>3, <2>2, <2>3, <2>4 DEF SetConfigs
  <2>6. ASSUME NEW i \in Items
        PROVE  v3'[i] = IF Settings!Affects(t, i) /\ (v3 # Settings!Unknown \/ Settings!Whole(t))
                        THEN Settings!Brings(t, i) ELSE v3[i]
    <3>1. ~Settings!Whole(t) /\ (Settings!Affects(t, i) <=> ~Settings!Left(t) /\ t.item = i)
      BY <1>1, <1>7 DEF Settings!Affects, Settings!Whole
    <3>2. Settings!Brings(t, i) = t.value
      BY <3>1 DEF Settings!Brings
    <3>3. v3'[i] = IF ~Settings!Left(t) /\ v3 # Settings!Unknown /\ i = t.item
                   THEN t.value ELSE v3[i]
      BY <1>3, <2>2, <2>3, <2>4 DEF SetConfigs
    <3> QED
      BY <3>1, <3>2, <3>3
  <2> QED
    BY <1>5, <1>7, <2>2, <2>5, <2>6
<1> QED
  BY <1>3, <1>4, <1>6, <1>7, SettingsFollow

LEMMA SettingsFail ==
    ASSUME Settings!Inv, NEW t, Settings!Fail(t) PROVE Settings!Inv'
<1>1. /\ t \in v7 /\ UNCHANGED <<v1, v3, v6, v10>> /\ UNCHANGED v9 /\ Settings!Free(t)
  BY DEF Settings!Fail
<1>2. v4' \in BOOLEAN /\ (v4' <=> v4 /\ (~SetCalls(t) \/ Settings!Left(t)))
  BY <1>1, SettingsFree
<1>3. SetTask(t, v6, v9) /\ v2 \in [Items -> Settings!Values]
  BY <1>1, SettingsParts
<1>4. v2' \in [Items -> Settings!Values]
  <2>1. PICK s : s = IF t.at = "read" THEN t.got ELSE v2
    OBVIOUS
  <2>2. s \in [Items -> Settings!Values]
    BY <1>3, <2>1 DEF SetTask
  <2>3. v2' = v2 \/ v2' = Settings!With(s, t)
    BY <2>1 DEF Settings!Fail
  <2> QED
    BY <1>3, <2>2, <2>3, SettingsWith DEF SetTask
<1>5. /\ v11' \in BOOLEAN
      /\ v11' => /\ v11 /\ t.at = "out" /\ t.doing = "call" /\ v1 # "tunnel" /\ v2' = v2
  <2>1. PICK l \in BOOLEAN : l <=> t.at = "out" /\ Settings!Refused(t)
    OBVIOUS
  <2>2. v11' = (v11 /\ l)
    BY <2>1 DEF Settings!Fail
  <2>3. v11 \in BOOLEAN
    BY DEF Settings!Inv, Settings!Types
  <2>4. Settings!Refused(t) => t.doing = "call" /\ v1 # "tunnel" /\ v2' = v2
    BY DEF Settings!Refused, Settings!FileKinds, Settings!Fail
  <2> QED
    BY <2>1, <2>2, <2>3, <2>4
<1>6. PICK U : /\ v7' = (v7 \ {t}) \cup U
               /\ \A u \in U : ~SetCalls(u) /\ SetTask(u, v6, v9)
               /\ v1 # "tunnel" => U = {}
  <2>1. CASE v1 = "tunnel" /\ t.doing = "call"
    <3>1. PICK u : u = [t EXCEPT !.doing = "list", !.at = "out", !.no = 0]
      OBVIOUS
    <3>2. v7' = (v7 \ {t}) \cup {u}
      BY <2>1, <3>1 DEF Settings!Fail
    <3>3. u = [n |-> t.n, doing |-> "list", item |-> t.item, value |-> t.value,
               adds |-> t.adds, mount |-> t.mount, at |-> "out", no |-> 0, got |-> t.got]
      BY <1>3, <3>1 DEF SetTask
    <3>4. v9 \in Nat /\ 0 <= v9
      BY SettingsParts
    <3>5. ~SetCalls(u) /\ SetTask(u, v6, v9)
      BY <1>3, <3>3, <3>4 DEF SetTask, SetCalls
    <3>6. PICK U : U = {u}
      OBVIOUS
    <3>7. v7' = (v7 \ {t}) \cup U /\ \A x \in U : ~SetCalls(x) /\ SetTask(x, v6, v9)
      BY <3>2, <3>5, <3>6
    <3> QED
      BY <2>1, <3>7
  <2>2. CASE ~(v1 = "tunnel" /\ t.doing = "call")
    <3>1. v7' = (v7 \ {t}) \cup {}
      BY <2>2 DEF Settings!Fail
    <3> QED
      BY <3>1
  <2> QED
    BY <2>1, <2>2
<1>7. Settings!OneCall'
  BY <1>1, <1>2, <1>6, SettingsFreed DEF Settings!Inv
<1>8. ASSUME v11' PROVE SetSound' /\ SetHere'
  <2>1. /\ SetSound /\ SetHere /\ t.at = "out" /\ t.doing = "call" /\ v2' = v2 /\ v7' = v7 \ {t}
    BY <1>5, <1>6, <1>8 DEF Settings!Inv, SetSound, SetHere
  <2>2. SetSound'
    BY <1>1, <2>1, SettingsQuiet DEF Settings!Right
  <2>3. SetHere'
    BY <1>1, <2>1, SettingsFrame DEF SetHere
  <2> QED
    BY <2>2, <2>3
<1>9. /\ v6' \in Nat /\ v6 <= v6' /\ v9' \in Nat /\ v9 <= v9' /\ v10' \in Nat
      /\ v3' \in SetConfigs /\ \A x \in v7' : x \in v7 \/ SetTask(x, v6', v9')
  BY <1>1, <1>6, SettingsParts
<1> QED
  BY <1>1, <1>2, <1>4, <1>5, <1>7, <1>8, <1>9, SettingsWhole

LEMMA SettingsNext == ASSUME Settings!Inv, Settings!Next PROVE Settings!Inv'
BY SettingsCommand, SettingsFetch, SettingsReopen, SettingsStarted, SettingsRead,
   SettingsWrite, SettingsServe, SettingsAnswer, SettingsDeliver, SettingsFail
DEF Settings!Next
=============================================================================
