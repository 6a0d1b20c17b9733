-------------------------------- MODULE Tunnel --------------------------------
(***************************************************************************)
(* The cloudflared tunnel manager of proxy/tunnel.go.  Start requests, the *)
(* stop request, the monitors of started processes and the processes       *)
(* themselves run concurrently; each section that holds tunnelMu is one    *)
(* step.  A start request starts at most one process, so the process has   *)
(* the name of its request.  Every section saves the state it leaves to    *)
(* data/tunnel-state.json, so the file is the state a restart begins with. *)
(***************************************************************************)
EXTENDS Naturals

CONSTANTS Quick, Named,   \* requests that start a quick or a named tunnel
          None,           \* nil
          MaxRestarts     \* bound on crashes of the server

Starters == Quick \cup Named

ASSUME TunnelAssumption ==
    Quick \cap Named = {} /\ None \notin Starters /\ MaxRestarts \in Nat

VARIABLES proc,           \* the process of each start request
          tunnelCmd,      \* the current process
          tunnelState,    \* its status, pid and URL, as the API reports them
          pc,             \* what each start request is doing
          printed,        \* processes that have printed their URL
          monitored,      \* processes with a monitorTunnelExit
          restarts

vars == <<proc, tunnelCmd, tunnelState, pc, printed, monitored, restarts>>

\* A report without a process has no URL, and one that is stopped has neither.
State == {r \in [status: {"stopped", "starting", "running", "error"},
                 pid: Starters \cup {None}, url: Starters \cup {None}] :
             /\ r.url \in {None, r.pid}
             /\ r.status = "stopped" => r.pid = None
             /\ r.status = "starting" => r.url = None
             /\ r.status = "running" => r.url # None}

Report(s, p, u) == [status |-> s, pid |-> p, url |-> u]

Init == /\ proc = [s \in Starters |-> "none"]
        /\ tunnelCmd = None
        /\ tunnelState = Report("stopped", None, None)
        /\ pc = [s \in Starters |-> "new"]
        /\ printed = {} /\ monitored = {} /\ restarts = 0

\* Mutant of Killed: the current process is forgotten but not killed.
Killed_Forgotten == proc

\* killTunnelLocked kills whatever process is current.
Killed == [s \in Starters |-> IF s = tunnelCmd /\ proc[s] = "live" THEN "gone"
                              ELSE proc[s]]

-----------------------------------------------------------------------------
(* Both kinds of start leave a current process alone.                      *)

AlreadyStarted(s) ==
    /\ pc[s] = "new" /\ tunnelCmd # None
    /\ pc' = [pc EXCEPT ![s] = "done"]
    /\ UNCHANGED <<proc, tunnelCmd, tunnelState, printed, monitored, restarts>>

\* cloudflared is missing: the other fields stay as they were.
NotInstalled(s) ==
    /\ pc[s] = "new" /\ tunnelCmd = None
    /\ tunnelState' = [tunnelState EXCEPT !.status = "error"]
    /\ pc' = [pc EXCEPT ![s] = "done"]
    /\ UNCHANGED <<proc, tunnelCmd, printed, monitored, restarts>>

\* StartQuickTunnel up to the wait for the URL.
StartQuick(s) ==
    /\ s \in Quick /\ pc[s] = "new" /\ tunnelCmd = None
    /\ \/ /\ proc' = [proc EXCEPT ![s] = "live"]
          /\ tunnelCmd' = s
          /\ tunnelState' = Report("starting", s, None)
          /\ pc' = [pc EXCEPT ![s] = "wait"]
       \/ /\ tunnelState' = Report("error", None, None)
          /\ pc' = [pc EXCEPT ![s] = "done"]
          /\ UNCHANGED <<proc, tunnelCmd>>
    /\ UNCHANGED <<printed, monitored, restarts>>

\* The scanner leaves the URL in the channel.
PrintURL(s) ==
    /\ s \in Quick /\ proc[s] = "live" /\ s \notin printed
    /\ printed' = printed \cup {s}
    /\ UNCHANGED <<proc, tunnelCmd, tunnelState, pc, monitored, restarts>>

\* The waiting request does not look again at what is current.
GotURL(s) ==
    /\ pc[s] = "wait" /\ s \in printed
    /\ tunnelState' = Report("running", s, s)
    /\ monitored' = monitored \cup {s}
    /\ pc' = [pc EXCEPT ![s] = "done"]
    /\ UNCHANGED <<proc, tunnelCmd, printed, restarts>>

\* Mutant of TimeOut: a request whose process was stopped waits on.
TimeOut_Current(s) ==
    /\ pc[s] = "wait" /\ tunnelCmd = s
    /\ proc' = Killed /\ tunnelCmd' = None
    /\ tunnelState' = Report("error", None, None)
    /\ pc' = [pc EXCEPT ![s] = "done"]
    /\ UNCHANGED <<printed, monitored, restarts>>

TimeOut(s) ==
    /\ pc[s] = "wait"
    /\ proc' = Killed /\ tunnelCmd' = None
    /\ tunnelState' = Report("error", None, None)
    /\ pc' = [pc EXCEPT ![s] = "done"]
    /\ UNCHANGED <<printed, monitored, restarts>>

-----------------------------------------------------------------------------
(* StartNamedTunnel releases the lock while cloudflared creates the tunnel *)
(* and its DNS route, and does not look at tunnelCmd when it is back.      *)

StartNamed(s) ==
    /\ s \in Named /\ pc[s] = "new" /\ tunnelCmd = None
    /\ tunnelState' = Report("starting", None, None)
    /\ pc' = [pc EXCEPT ![s] = "create"]
    /\ UNCHANGED <<proc, tunnelCmd, printed, monitored, restarts>>

\* Mutant of NotAuthenticated: the error is returned but not recorded.
NotAuthenticated_Unrecorded(s) ==
    /\ pc[s] = "create"
    /\ pc' = [pc EXCEPT ![s] = "done"]
    /\ UNCHANGED <<tunnelState, proc, tunnelCmd, printed, monitored, restarts>>

\* The login is missing, or the process cannot be started.
NotAuthenticated(s) ==
    /\ pc[s] = "create"
    /\ tunnelState' = [tunnelState EXCEPT !.status = "error"]
    /\ pc' = [pc EXCEPT ![s] = "done"]
    /\ UNCHANGED <<proc, tunnelCmd, printed, monitored, restarts>>

RunNamed(s) ==
    /\ pc[s] = "create"
    /\ proc' = [proc EXCEPT ![s] = "live"]
    /\ tunnelCmd' = s
    /\ tunnelState' = Report("running", s, s)
    /\ monitored' = monitored \cup {s}
    /\ pc' = [pc EXCEPT ![s] = "done"]
    /\ UNCHANGED <<printed, restarts>>

-----------------------------------------------------------------------------
\* Mutant of StopTunnel: the URL and the pid of the killed process stay.
StopTunnel_KeepsURL ==
    /\ proc' = Killed /\ tunnelCmd' = None
    /\ tunnelState' = [tunnelState EXCEPT !.status = "stopped"]
    /\ UNCHANGED <<pc, printed, monitored, restarts>>

StopTunnel ==
    /\ proc' = Killed /\ tunnelCmd' = None
    /\ tunnelState' = Report("stopped", None, None)
    /\ UNCHANGED <<pc, printed, monitored, restarts>>

\* A process ends by itself.
Exit(s) ==
    /\ proc[s] = "live"
    /\ proc' = [proc EXCEPT ![s] = "gone"]
    /\ UNCHANGED <<tunnelCmd, tunnelState, pc, printed, monitored, restarts>>

\* Mutant of Monitor: the exit of an old process stops the current one.
Monitor_AnyProcess(s) ==
    /\ s \in monitored /\ proc[s] = "gone"
    /\ monitored' = monitored \ {s}
    /\ tunnelCmd' = None
    /\ tunnelState' = Report("stopped", None, None)
    /\ UNCHANGED <<proc, pc, printed, restarts>>

\* monitorTunnelExit, once cmd.Wait returns.
Monitor(s) ==
    /\ s \in monitored /\ proc[s] = "gone"
    /\ monitored' = monitored \ {s}
    /\ IF tunnelCmd = s
       THEN tunnelCmd' = None /\ tunnelState' = Report("stopped", None, None)
       ELSE UNCHANGED <<tunnelCmd, tunnelState>>
    /\ UNCHANGED <<proc, pc, printed, restarts>>

\* The server crashes and comes back; its children are processes of their own.
Restart ==
    /\ restarts < MaxRestarts
    /\ restarts' = restarts + 1
    /\ tunnelCmd' = None
    /\ tunnelState' = IF tunnelState.status \in {"running", "starting"}
                      THEN Report("stopped", None, None) ELSE tunnelState
    /\ pc' = [s \in Starters |-> IF pc[s] = "new" THEN "new" ELSE "done"]
    /\ monitored' = {}
    /\ UNCHANGED <<proc, printed>>

-----------------------------------------------------------------------------
Request(s) == \/ AlreadyStarted(s) \/ NotInstalled(s)
              \/ StartQuick(s) \/ GotURL(s) \/ TimeOut(s)
              \/ StartNamed(s) \/ NotAuthenticated(s) \/ RunNamed(s)

Next == \/ \E s \in Starters : Request(s) \/ PrintURL(s) \/ Exit(s) \/ Monitor(s)
        \/ StopTunnel
        \/ Restart

Spec == Init /\ [][Next]_vars

\* Requests and monitors are goroutines; the wait for a URL times out and the
\* commands of a named start have timeouts.
FairSpec == Spec /\ \A s \in Starters : WF_vars(Request(s)) /\ WF_vars(Monitor(s))

-----------------------------------------------------------------------------
\* Every variable keeps its type.
TypeOK == /\ proc \in [Starters -> {"none", "live", "gone"}]
          /\ tunnelCmd \in Starters \cup {None}
          /\ tunnelState \in State
          /\ pc \in [Starters -> {"new", "wait", "create", "done"}]
          /\ printed \in SUBSET Quick /\ monitored \in SUBSET Starters
          /\ restarts \in 0..MaxRestarts

\* No named start has begun and the server has not been restarted: a named
\* start replaces the current process without killing it, and a restart
\* forgets it.
Undisturbed == restarts = 0 /\ \A n \in Named : pc[n] = "new"

\* As long as that is so no process is ever lost: the one that runs is the
\* current one, which Stop kills, whatever start, stop and timeout interleave
\* (tunnel.go:338-441, 531-554).
NoOrphan == Undisturbed => \A s \in Starters : proc[s] = "live" => tunnelCmd = s

\* "starting" is never left behind: some start request is still at work, even
\* when several overlap with a stop, an exit or a restart (tunnel.go:338-529).
StartingIsTemporary ==
    tunnelState.status = "starting" =>
        \E s \in Starters : pc[s] \in {"wait", "create"}

\* Until then a running tunnel is reported as running for as long as its
\* process lives: neither the exit of an earlier process nor a second start
\* request gets in the way (tunnel.go:338-345, 581-587).
StaysRunning ==
    [][(/\ Undisturbed' /\ tunnelState.status = "running" /\ tunnelCmd # None
        /\ proc[tunnelCmd] = "live" /\ proc'[tunnelCmd] = "live")
          => tunnelState'.status = "running"]_vars

\* "Tunnel is not running" is what the dashboard says when the status is
\* "stopped".
StoppedMeansNotRunning ==
    tunnelState.status = "stopped" => \A s \in Starters : proc[s] # "live"

\* Every start request returns, whatever happens to its process meanwhile
\* (tunnel.go:395-441).
StartsReturn == \A s \in Starters : pc[s] # "new" ~> pc[s] = "done"
=============================================================================
