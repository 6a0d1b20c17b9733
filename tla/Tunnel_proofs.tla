---------------------------- MODULE Tunnel_proofs ----------------------------
(***************************************************************************)
(* Proofs about the tunnel manager, for any sets of start requests.        *)
(***************************************************************************)
EXTENDS Tunnel, TLAPS

LEMMA InitType == Init => TypeOK
BY TunnelAssumption DEF Init, TypeOK, State, Report, Starters

\* The reports that the sections save are well formed.
LEMMA Reports ==
    ASSUME NEW s \in Starters, tunnelState \in State
    PROVE  /\ Report("starting", s, None) \in State
           /\ Report("starting", None, None) \in State
           /\ Report("running", s, s) \in State
           /\ Report("error", None, None) \in State
           /\ Report("stopped", None, None) \in State
           /\ [tunnelState EXCEPT !.status = "error"] \in State
BY TunnelAssumption DEF Report, State

LEMMA StoppedReport == Report("stopped", None, None) \in State
BY DEF Report, State

LEMMA RequestType ==
    ASSUME TypeOK, NEW s \in Starters, Request(s)
    PROVE  TypeOK'
<1> USE DEF TypeOK, Killed
<1>1. CASE AlreadyStarted(s)
  BY <1>1 DEF AlreadyStarted
<1>2. CASE NotInstalled(s)
  BY <1>2, Reports DEF NotInstalled
<1>3. CASE StartQuick(s)
  BY <1>3, Reports DEF StartQuick
<1>4. CASE GotURL(s)
  BY <1>4, Reports DEF GotURL
<1>5. CASE TimeOut(s)
  BY <1>5, Reports DEF TimeOut
<1>6. CASE StartNamed(s)
  BY <1>6, Reports DEF StartNamed
<1>7. CASE NotAuthenticated(s)
  BY <1>7, Reports DEF NotAuthenticated
<1>8. CASE RunNamed(s)
  BY <1>8, Reports DEF RunNamed
<1> QED
  BY <1>1, <1>2, <1>3, <1>4, <1>5, <1>6, <1>7, <1>8 DEF Request

LEMMA NextType == TypeOK /\ [Next]_vars => TypeOK'
<1> SUFFICES ASSUME TypeOK, [Next]_vars
             PROVE  TypeOK'
  OBVIOUS
<1> USE DEF TypeOK
<1>1. ASSUME NEW s \in Starters, Request(s)
      PROVE  TypeOK'
  BY <1>1, RequestType
<1>2. ASSUME NEW s \in Starters, PrintURL(s) \/ Exit(s) \/ Monitor(s)
      PROVE  TypeOK'
  BY <1>2, StoppedReport DEF PrintURL, Exit, Monitor
<1>3. CASE StopTunnel
  BY <1>3, StoppedReport DEF StopTunnel, Killed
<1>4. CASE Restart
  <2>1. tunnelState' \in State
    BY <1>4, StoppedReport DEF Restart
  <2>2. restarts' \in 0..MaxRestarts
    BY <1>4, TunnelAssumption DEF Restart
  <2>3. pc' \in [Starters -> {"new", "wait", "create", "done"}]
    BY <1>4 DEF Restart
  <2> QED
    BY <1>4, <2>1, <2>2, <2>3 DEF Restart
<1>5. CASE UNCHANGED vars
  BY <1>5 DEF vars
<1> QED
  BY <1>1, <1>2, <1>3, <1>4, <1>5 DEF Next

\* The variables keep their types, and a report never has a URL without a
\* process or a process when it is stopped.
THEOREM TypeCorrect == Spec => []TypeOK
<1>1. Init => TypeOK
  BY InitType
<1>2. TypeOK /\ [Next]_vars => TypeOK'
  BY NextType
<1> QED
  BY <1>1, <1>2, PTL DEF Spec

-----------------------------------------------------------------------------
\* The status "starting" never outlives the start requests at work, whatever
\* quick and named starts, stops, exits and restarts interleave.
THEOREM StartingEnds == Spec => []StartingIsTemporary
<1> USE DEF StartingIsTemporary
<1>1. Init => StartingIsTemporary
  BY DEF Init, Report
<1>2. TypeOK /\ StartingIsTemporary /\ [Next]_vars => StartingIsTemporary'
  <2> SUFFICES ASSUME TypeOK, StartingIsTemporary, [Next]_vars,
                      tunnelState'.status = "starting"
               PROVE  \E s \in Starters : pc'[s] \in {"wait", "create"}
    OBVIOUS
  <2>0. pc \in [Starters -> {"new", "wait", "create", "done"}] /\ tunnelState \in State
    BY DEF TypeOK
  <2>1. ASSUME NEW s \in Starters, AlreadyStarted(s)
        PROVE  \E t \in Starters : pc'[t] \in {"wait", "create"}
    <3>1. PICK t \in Starters : pc[t] \in {"wait", "create"}
      BY <2>1 DEF AlreadyStarted
    <3>2. pc'[t] = pc[t]
      BY <2>0, <2>1, <3>1 DEF AlreadyStarted
    <3> QED
      BY <3>1, <3>2
  <2>2. ASSUME NEW s \in Starters, StartQuick(s) \/ StartNamed(s)
        PROVE  \E t \in Starters : pc'[t] \in {"wait", "create"}
    BY <2>0, <2>2 DEF StartQuick, StartNamed, Report
  <2>3. ASSUME NEW s \in Starters, NotInstalled(s) \/ NotAuthenticated(s)
        PROVE  FALSE
    BY <2>0, <2>3 DEF NotInstalled, NotAuthenticated, State
  <2>4. ASSUME NEW s \in Starters, GotURL(s) \/ TimeOut(s) \/ RunNamed(s)
        PROVE  FALSE
    BY <2>4 DEF GotURL, TimeOut, RunNamed, Report
  <2>5. ASSUME NEW s \in Starters, PrintURL(s) \/ Exit(s) \/ Monitor(s)
        PROVE  \E t \in Starters : pc'[t] \in {"wait", "create"}
    BY <2>5 DEF PrintURL, Exit, Monitor, Report
  <2>6. CASE StopTunnel \/ Restart
    BY <2>6 DEF StopTunnel, Restart, Report
  <2>7. CASE UNCHANGED vars
    BY <2>7 DEF vars
  <2> QED
    BY <2>1, <2>2, <2>3, <2>4, <2>5, <2>6, <2>7 DEF Next, Request
<1> QED
  BY <1>1, <1>2, TypeCorrect, PTL DEF Spec

-----------------------------------------------------------------------------
(* No process is lost before a named start or a restart.                   *)

OnlyNamedCreate == \A s \in Starters : pc[s] = "create" => s \in Named

LEMMA NextOnlyNamed == TypeOK /\ OnlyNamedCreate /\ [Next]_vars => OnlyNamedCreate'
BY DEF TypeOK, OnlyNamedCreate, Next, Request, AlreadyStarted, NotInstalled,
       StartQuick, GotURL, TimeOut, StartNamed, NotAuthenticated, RunNamed,
       PrintURL, Exit, Monitor, StopTunnel, Restart, vars

\* A process starts only when none is current, and stops being current only
\* when it is killed or gone.
LEMMA NextKeepsProcess ==
    ASSUME TypeOK, OnlyNamedCreate, NoOrphan, [Next]_vars, Undisturbed'
    PROVE  /\ NoOrphan'
           /\ (/\ tunnelState.status = "running" /\ tunnelCmd # None
               /\ proc[tunnelCmd] = "live" /\ proc'[tunnelCmd] = "live")
                 => tunnelState'.status = "running"
<1> USE DEF NoOrphan, Killed
<1>0. /\ proc \in [Starters -> {"none", "live", "gone"}]
      /\ pc \in [Starters -> {"new", "wait", "create", "done"}]
      /\ tunnelCmd \in Starters \cup {None} /\ None \notin Starters
      /\ restarts \in Nat
  BY TunnelAssumption DEF TypeOK
<1>r. ~Restart
  BY <1>0 DEF Restart, Undisturbed
<1>n. ASSUME NEW s \in Starters, StartNamed(s) \/ NotAuthenticated(s) \/ RunNamed(s)
      PROVE  FALSE
  BY <1>0, <1>n DEF StartNamed, NotAuthenticated, RunNamed, Undisturbed, OnlyNamedCreate
<1>u. Undisturbed
  <2> SUFFICES ASSUME NEW n \in Named
               PROVE  restarts = 0 /\ pc[n] = "new"
    BY <1>0, <1>r DEF Undisturbed, Next, Request, AlreadyStarted, NotInstalled,
       StartQuick, GotURL, TimeOut, StartNamed, NotAuthenticated, RunNamed,
       PrintURL, Exit, Monitor, StopTunnel, vars
  <2> n \in Starters /\ pc'[n] = "new" /\ restarts' = 0
    BY DEF Undisturbed, Starters
  <2> QED
    BY <1>0, <1>r DEF Next, Request, AlreadyStarted, NotInstalled,
       StartQuick, GotURL, TimeOut, StartNamed, NotAuthenticated, RunNamed,
       PrintURL, Exit, Monitor, StopTunnel, vars
<1>1. ASSUME NEW s \in Starters, AlreadyStarted(s) \/ NotInstalled(s) \/ GotURL(s)
      PROVE  /\ NoOrphan'
             /\ tunnelState'.status = "running" \/ tunnelCmd = None
                   \/ UNCHANGED tunnelState
  BY <1>0, <1>u, <1>1 DEF AlreadyStarted, NotInstalled, GotURL, Report
<1>2. ASSUME NEW s \in Starters, StartQuick(s)
      PROVE  NoOrphan' /\ tunnelCmd = None
  BY <1>0, <1>u, <1>2 DEF StartQuick
<1>3. ASSUME NEW s \in Starters, TimeOut(s)
      PROVE  NoOrphan' /\ (tunnelCmd = None \/ proc'[tunnelCmd] # "live")
  BY <1>0, <1>u, <1>3 DEF TimeOut
<1>4. ASSUME NEW s \in Starters, PrintURL(s) \/ Exit(s)
      PROVE  NoOrphan' /\ UNCHANGED tunnelState
  BY <1>0, <1>u, <1>4 DEF PrintURL, Exit
<1>5. ASSUME NEW s \in Starters, Monitor(s)
      PROVE  NoOrphan' /\ (proc[tunnelCmd] # "live" \/ UNCHANGED tunnelState)
  BY <1>0, <1>u, <1>5 DEF Monitor
<1>6. CASE StopTunnel
  <2>1. NoOrphan'
    BY <1>0, <1>u, <1>6 DEF StopTunnel
  <2>2. tunnelCmd = None \/ proc'[tunnelCmd] # "live"
    BY <1>0, <1>6 DEF StopTunnel
  <2> QED
    BY <2>1, <2>2
<1>7. CASE UNCHANGED vars
  BY <1>u, <1>7 DEF vars
<1> QED
  BY <1>r, <1>n, <1>1, <1>2, <1>3, <1>4, <1>5, <1>6, <1>7 DEF Next, Request

LEMMA ProcessKept == Spec => [](OnlyNamedCreate /\ NoOrphan)
<1>1. Init => OnlyNamedCreate /\ NoOrphan
  BY DEF Init, OnlyNamedCreate, NoOrphan
<1>2. TypeOK /\ OnlyNamedCreate /\ NoOrphan /\ [Next]_vars => OnlyNamedCreate' /\ NoOrphan'
  <2> SUFFICES ASSUME TypeOK, OnlyNamedCreate, NoOrphan, [Next]_vars
               PROVE  NoOrphan'
    BY NextOnlyNamed
  <2> CASE Undisturbed'
    BY NextKeepsProcess
  <2> CASE ~Undisturbed'
    BY DEF NoOrphan
  <2> QED
    OBVIOUS
<1> QED
  BY <1>1, <1>2, TypeCorrect, PTL DEF Spec

\* Before a named start or a restart, the process that runs is the current
\* one, so Stop always kills it.
THEOREM ProcessNotLost == Spec => []NoOrphan
BY ProcessKept, PTL

\* ... and a running tunnel keeps its status as long as its process lives.
THEOREM RunningIsKept == Spec => StaysRunning
<1>1. TypeOK /\ OnlyNamedCreate /\ NoOrphan /\ [Next]_vars =>
        [(/\ Undisturbed' /\ tunnelState.status = "running" /\ tunnelCmd # None
          /\ proc[tunnelCmd] = "live" /\ proc'[tunnelCmd] = "live")
            => tunnelState'.status = "running"]_vars
  BY NextKeepsProcess
<1> QED
  BY <1>1, ProcessKept, TypeCorrect, PTL DEF Spec, StaysRunning
=============================================================================
