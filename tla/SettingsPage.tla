----------------------------- MODULE SettingsPage -----------------------------
(***************************************************************************)
(* The pages of the dashboard that change settings of the server: API key, *)
(* tunnel, security, content filters, models, round robin and the pool of  *)
(* proxies.  They follow a change in three ways: fetch the settings again  *)
(* (stores/keys.ts, stores/auth.ts), show those in the answer              *)
(* (stores/tunnel.ts, accounts/page.tsx, proxy/page.tsx), or apply the     *)
(* change to what they show (filters/page.tsx, stores/models.ts).  The     *)
(* server reads, changes and writes filters, custom models, round robin,   *)
(* the settings of security and those of the pool with no lock over all    *)
(* three steps.                                                            *)
(*                                                                         *)
(* A setting is "on" or "off", or "gone" if it is a rule, a model or a key *)
(* that is not there; the tunnel may be "starting".  What a page keeps     *)
(* beside its settings and commands does not depend on (dialogs, the list  *)
(* of sessions, the path of cloudflared) is left out.  Of the settings of  *)
(* the pool of proxies these are the two of its automatic test: whether it *)
(* is enabled and, "off" for zero, its interval; of security, whether a    *)
(* password is asked for, "gone" while there is none, and the hours of a   *)
(* session.  A new password in place of one, and the flag of its form, are *)
(* left out.                                                               *)
(***************************************************************************)
EXTENDS Naturals

CONSTANTS Items,      \* settings of a page
          Single,     \* the setting of a page that has one
          MaxTasks,   \* bound on commands and fetches
          MaxMounts   \* bound on the times the page is opened

\* What the values of the constants have to be.
SettingsPageAssumption == Single \in Items /\ MaxTasks \in Nat /\ MaxMounts \in Nat

\* The pages with one setting and a flag that disables commands, those whose
\* settings the server copies before it writes them, and those whose settings
\* are their own state and not a store's.
OneAtATime == {"api-key", "tunnel", "routing"}
FileKinds == {"filters", "models", "routing", "proxy", "security"}
OwnState == {"filters", "routing", "proxy"}
Kinds == OneAtATime \cup FileKinds

VARIABLES kind,       \* which page this is
          settings,   \* the settings of the server
          config,     \* those the page shows
          busy,       \* saving, actionLoading, or routingLoading
          loading,
          mount,      \* how often the page was opened
          tasks,      \* handlers under way
          begun,      \* number of handlers begun
          served,     \* number of requests the server has answered
          order,      \* the last answer shown, by number
          clean       \* no request failed, no answer overtook another, no file
                      \* was written from a copy out of date or not at all, and
                      \* no page with a state of its own was left during a command

settingsVars == <<kind, settings, config, busy, loading, mount, tasks, begun, served, order,
                  clean>>

Mine == IF kind \in OneAtATime THEN {Single} ELSE Items
Unknown == [i \in Items |-> "unknown"]

\* What the page offers to change a setting to.  A key is generated or set by
\* hand, and disabled when one is shown.
KeyOffers(i) == {"on", "off"} \cup (IF config[i] \in {"on", "off"} THEN {"gone"} ELSE {})

\* The switch, Remove Password and Set Password.
SecurityOffers(i) == IF config[i] \in {"gone", "unknown"} THEN {"on"}
                     ELSE {"on", "off", "gone"} \ {config[i]}
TimeoutOffers == {"on", "off"}

TunnelOffers(i) == {v \in {"on", "off"} : {v, config[i]} = {"on", "off"}}
FilterOffers(i) == IF config[i] = "gone" THEN {"on"} ELSE {"on", "off", "gone"} \ {config[i]}
ModelOffers(i) == IF config[i] = "gone" THEN {"on"} ELSE {"on", "gone"}

\* A switch is shown as off until its setting is there; the intervals of the
\* select are not told apart.
RoutingOffers(i) == IF config[i] = "on" THEN {"off"} ELSE {"on"}
ProxyOffers(i) == IF i = Single /\ config[i] = "on" THEN {"off"} ELSE {"on"}

Offered(i) ==
    CASE kind = "api-key" -> KeyOffers(i)
      [] kind = "security" -> IF i = Single THEN SecurityOffers(i) ELSE TimeoutOffers
      [] kind = "tunnel" -> TunnelOffers(i)
      [] kind = "filters" -> FilterOffers(i)
      [] kind = "models" -> ModelOffers(i)
      [] kind = "routing" -> RoutingOffers(i)
      [] kind = "proxy" -> ProxyOffers(i)

\* What follows the answer to a command.
Follow(t) ==
    CASE kind \in {"api-key", "security"} -> "list"
      [] kind \in {"tunnel", "routing", "proxy"} -> "put"
      [] kind = "filters" -> IF t.adds THEN "list" ELSE "patch"
      [] kind = "models" -> "patch"

Task(doing, i, v) ==
    [n |-> begun + 1, doing |-> doing, item |-> i, value |-> v, adds |-> config[i] = "gone",
     mount |-> mount, at |-> "out", no |-> 0, got |-> Unknown]

Init ==
    /\ kind \in Kinds
    /\ settings \in [Items -> {"on", "off"}]
    /\ \A i \in Items : kind = "models" \/ (kind \in OneAtATime /\ i # Single) => settings[i] = "on"
    /\ config = Unknown /\ busy = FALSE /\ loading = TRUE /\ mount = 1
    /\ begun = 1 /\ served = 0 /\ order = 0 /\ clean = TRUE
    /\ tasks = {[n |-> 1, doing |-> "list", item |-> Single, value |-> "on", adds |-> FALSE,
                 mount |-> 1, at |-> "out", no |-> 0, got |-> Unknown]}

-----------------------------------------------------------------------------
(* What the user does.                                                     *)

\* Mutant of Disabled: the buttons ignore the flag.
Disabled_Never == FALSE

Disabled == busy /\ kind \in OneAtATime

\* Controls are there once the settings are: the filters page draws nothing
\* before, the models page nothing while it loads, the security page nothing
\* while it loads for the first time.  The flag does not disable the button that
\* confirms that the key is to be disabled.
Command(i, v) ==
    /\ begun < MaxTasks /\ begun' = begun + 1
    /\ ~Disabled \/ (kind = "api-key" /\ v = "gone")
    /\ v \in Offered(i)
    /\ kind \in {"filters", "models"} => config # Unknown
    /\ kind = "models" => ~loading
    /\ kind = "security" => ~(loading /\ config = Unknown)
    /\ busy' = (busy \/ kind \in OneAtATime)
    /\ tasks' = tasks \cup {Task("call", i, v)}
    /\ UNCHANGED <<kind, settings, config, loading, mount, served, order, clean>>

\* Refresh, Retry, and the poll of a tunnel that is starting.
Fetch ==
    /\ begun < MaxTasks /\ begun' = begun + 1
    /\ kind \in {"tunnel", "models"} /\ (~loading \/ config[Single] = "starting")
    /\ loading' = TRUE /\ tasks' = tasks \cup {Task("list", Single, "on")}
    /\ UNCHANGED <<kind, settings, config, busy, mount, served, order, clean>>

\* The page is left and opened again.  What it shows is the store's and stays,
\* but for what is the page's own.
Reopen ==
    /\ mount < MaxMounts /\ mount' = mount + 1
    /\ begun < MaxTasks /\ begun' = begun + 1
    /\ config' = IF kind \in OwnState THEN Unknown ELSE config
    /\ busy' = (busy /\ kind \notin OwnState)
    /\ loading' = TRUE
    /\ tasks' = tasks \cup {[Task("list", Single, "on") EXCEPT !.mount = mount + 1]}
    /\ clean' = (clean /\ ~(kind \in OwnState /\ \E t \in tasks : t.doing = "call"))
    /\ UNCHANGED <<kind, settings, served, order>>

-----------------------------------------------------------------------------
(* What the server does.                                                   *)

\* A change of the automatic test replaces all of it: what the request does not
\* tell is zero (SaveProxySettings).
With(s, t) ==
    CASE t.doing # "call" -> s
      [] t.doing = "call" /\ kind = "proxy" ->
            [i \in Items |-> IF i = t.item THEN t.value ELSE "off"]
      [] t.doing = "call" /\ kind = "security" /\ s[t.item] = "gone" /\ t.value = "off" -> s
      [] OTHER -> [s EXCEPT ![t.item] = t.value]

\* A rule or a model that is gone is not found, and no password that is gone can be
\* asked for.
Refused(t) == /\ t.doing = "call" /\ kind \in FileKinds /\ ~t.adds
              /\ settings[t.item] = "gone"
              /\ CASE kind = "filters" -> TRUE
                   [] kind = "models" -> t.value = "gone"
                   [] kind = "security" -> t.value = "on"
                   [] OTHER -> FALSE

\* The handler of a file has read it.
Read(t) ==
    /\ t \in tasks /\ t.at = "out" /\ t.doing = "call" /\ kind \in FileKinds /\ ~Refused(t)
    /\ tasks' = (tasks \ {t}) \cup {[t EXCEPT !.at = "read", !.got = settings]}
    /\ UNCHANGED <<kind, settings, config, busy, loading, mount, begun, served, order, clean>>

\* The settings once t has written its copy.  The password is in the configuration:
\* how it goes with a copy out of date is not told apart.
Written(t) ==
    IF kind = "security" /\ settings # t.got
    THEN {[With(t.got, t) EXCEPT ![Single] = v] : v \in {"on", "off", "gone"}}
    ELSE {With(t.got, t)}

\* It writes the copy it has, with its change: a change made since is undone.
\* Round robin, models and security are answered as changed even when the file could
\* not be written; the password may have changed by then.
Write(t) ==
    /\ t \in tasks /\ t.at = "read"
    /\ \/ settings' \in Written(t) /\ clean' = (clean /\ settings = t.got)
       \/ kind \in {"routing", "models"} /\ clean' = FALSE /\ UNCHANGED settings
       \/ kind = "security" /\ clean' = FALSE /\ settings' \in {settings, With(settings, t)}
    /\ tasks' = (tasks \ {t}) \cup {[t EXCEPT !.at = "answered", !.no = served + 1,
                                              !.got = With(@, t)]}
    /\ served' = served + 1
    /\ UNCHANGED <<kind, config, busy, loading, mount, begun, order>>

\* A request for the settings, and a change of those kept in the configuration.
\* A tunnel may be starting when the request is answered.
Serve(t) ==
    /\ t \in tasks /\ t.at = "out" /\ (t.doing = "call" => kind \notin FileKinds)
    /\ \/ settings' = With(settings, t)
       \/ kind = "tunnel" /\ t.doing = "call" /\ t.value = "on"
          /\ settings' = [settings EXCEPT ![t.item] = "starting"]
    /\ tasks' = (tasks \ {t}) \cup {[t EXCEPT !.at = "answered", !.no = served + 1,
                                              !.got = settings']}
    /\ served' = served + 1
    /\ UNCHANGED <<kind, config, busy, loading, mount, begun, order, clean>>

\* What a tunnel may become by itself: one that is starting runs or has stopped,
\* and the process of one that runs may exit.
Further(v) == CASE v = "starting" -> {"on", "off"}
                [] v = "on" -> {"off"}
                [] OTHER -> {}

\* The start of the tunnel ends, or its process is seen to exit.
Started(v) ==
    /\ kind = "tunnel" /\ v \in Further(settings[Single])
    /\ settings' = [settings EXCEPT ![Single] = v]
    /\ UNCHANGED <<kind, config, busy, loading, mount, tasks, begun, served, order, clean>>

-----------------------------------------------------------------------------
(* What the page does with an answer.                                      *)

InOrder(t) == clean' = (clean /\ t.no > order) /\ order' = t.no

\* The state of a page that was left is no longer shown.
Left(t) == kind \in OwnState /\ t.mount # mount
Shown(t, s) == IF Left(t) THEN config ELSE s

Free(t) == busy' = (busy /\ (t.doing = "list" \/ Left(t)))
Ended(t) == tasks' = tasks \ {t} /\ Free(t)

Fetching(t) ==
    /\ tasks' = (tasks \ {t}) \cup {[t EXCEPT !.doing = "after", !.at = "out", !.no = 0]}
    /\ loading' = IF kind = "filters" THEN loading ELSE TRUE
    /\ UNCHANGED busy

\* The change of one setting, applied to what the page shows now.
Patched(t) == IF config = Unknown THEN config ELSE [config EXCEPT ![t.item] = t.value]

Answer(t) ==
    /\ t \in tasks /\ t.doing = "call" /\ t.at = "answered" /\ InOrder(t)
    /\ CASE Follow(t) = "list" -> Fetching(t) /\ UNCHANGED config
         [] Follow(t) = "put" -> Ended(t) /\ config' = Shown(t, t.got) /\ UNCHANGED loading
         [] Follow(t) = "patch" -> Ended(t) /\ config' = Shown(t, Patched(t)) /\ UNCHANGED loading
    /\ UNCHANGED <<kind, settings, mount, begun, served>>

Deliver(t) ==
    /\ t \in tasks /\ t.doing \in {"list", "after"} /\ t.at = "answered" /\ InOrder(t)
    /\ config' = Shown(t, t.got) /\ loading' = FALSE /\ Ended(t)
    /\ UNCHANGED <<kind, settings, mount, begun, served>>

\* A request fails, is refused, or times out while the server goes on with it.
\* The tunnel's state is fetched after that, and nothing waits for it.
Fail(t) ==
    /\ t \in tasks
    /\ clean' = (clean /\ t.at = "out" /\ Refused(t))
    /\ settings' \in IF t.at = "answered" \/ Refused(t) THEN {settings}
                     ELSE {settings, With(IF t.at = "read" THEN t.got ELSE settings, t)}
    /\ Free(t)
    /\ IF kind = "tunnel" /\ t.doing = "call"
       THEN /\ tasks' = (tasks \ {t}) \cup {[t EXCEPT !.doing = "list", !.at = "out", !.no = 0]}
            /\ loading' = TRUE
       ELSE /\ tasks' = tasks \ {t}
            /\ loading' = (loading /\ t.doing = "call")
    /\ UNCHANGED <<kind, config, mount, begun, served, order>>

Next ==
    \/ \E i \in Mine, v \in {"on", "off", "gone"} : Command(i, v)
    \/ Fetch \/ Reopen
    \/ \E v \in {"on", "off"} : Started(v)
    \/ \E t \in tasks : Read(t) \/ Write(t) \/ Serve(t) \/ Answer(t) \/ Deliver(t) \/ Fail(t)

Spec == Init /\ [][Next]_settingsVars

-----------------------------------------------------------------------------

Calls == {t \in tasks : t.doing \in {"call", "after"} /\ ~Left(t)}

\* When nothing is under way, no answer was overtaken and nothing has failed (no
\* write that the server answers as done either), the page shows the settings of
\* the server, however it follows a change; only a tunnel may have got further
\* than the page shows, which does not ask again by itself once it shows a tunnel
\* that runs.  No page stays disabled when no command is under way, and the pages
\* of the tunnel and of round robin have one command under way at most (the key
\* can be disabled during another).
SettingsAgree ==
    /\ tasks = {} /\ clean => \/ config = settings
                              \/ kind = "tunnel" /\ settings[Single] \in Further(config[Single])
    /\ busy => Calls # {}
    /\ kind \in OneAtATime \ {"api-key"} =>
          /\ \A s, t \in Calls : s = t
          /\ busy <=> Calls # {}

(***************************************************************************)
(* Why SettingsAgree holds.                                                *)
(***************************************************************************)
Values == {"on", "off", "gone", "starting"}

Types ==
    /\ kind \in Kinds /\ busy \in BOOLEAN /\ clean \in BOOLEAN
    /\ mount \in Nat /\ served \in Nat /\ order \in Nat
    /\ settings \in [Items -> Values] /\ config \in [Items -> Values \cup {"unknown"}]
    /\ \A t \in tasks :
          /\ t = [n |-> t.n, doing |-> t.doing, item |-> t.item, value |-> t.value,
                  adds |-> t.adds, mount |-> t.mount, at |-> t.at, no |-> t.no, got |-> t.got]
          /\ t.doing \in {"call", "list", "after"} /\ t.at \in {"out", "read", "answered"}
          /\ t.item \in Items /\ t.value \in {"on", "off", "gone"}
          /\ t.mount \in Nat /\ t.mount <= mount /\ t.no \in Nat /\ t.no <= served
          /\ t.at # "out" => t.got \in [Items -> Values]

\* An answer brings all settings or the one it changes.
Whole(t) == t.doing # "call" \/ Follow(t) = "put"
Affects(t, i) == /\ t.at = "answered" /\ ~Left(t)
                 /\ Whole(t) \/ (t.doing = "call" /\ Follow(t) = "patch" /\ t.item = i)
Brings(t, i) == IF Whole(t) THEN t.got[i] ELSE t.value
Newest(t, i) == Affects(t, i) /\ \A u \in tasks : Affects(u, i) => u.no <= t.no

\* What the page may show of the setting i, and the newest answer about it brings
\* that, or the page shows it.
Right(i) == {settings[i]} \cup (IF kind = "tunnel" /\ i = Single
                               THEN {v \in Values : settings[i] \in Further(v)} ELSE {})
Agrees(i) == /\ \A t \in tasks : Newest(t, i) => Brings(t, i) \in Right(i)
             /\ (\A t \in tasks : ~Affects(t, i)) => config[i] \in Right(i)
Orderly == /\ \A i \in Items : Agrees(i)
           /\ config = Unknown =>
                 \E t \in tasks : t.at = "answered" /\ t.doing # "call" /\ ~Left(t)

\* An answer was overtaken, or the settings are fetched again.
Overtaken == \E t \in tasks : t.at = "answered" /\ t.no <= order
Due == \E t \in tasks : /\ ~Left(t)
                        /\ \/ t.at = "out" /\ t.doing # "call"
                           \/ t.at = "answered" /\ t.doing = "call" /\ Follow(t) = "list"

OneCall == /\ busy => Calls # {}
           /\ kind \in OneAtATime \ {"api-key"} => /\ \A s, t \in Calls : s = t
                                                 /\ busy <=> Calls # {}

Inv == /\ Types /\ OneCall
       /\ clean => /\ Overtaken \/ Due \/ Orderly
                   /\ \A t \in tasks : t.doing = "call" => ~Left(t)

===============================================================================
