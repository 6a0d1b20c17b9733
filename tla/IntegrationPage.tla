--------------------------- MODULE IntegrationPage ----------------------------
(***************************************************************************)
(* The integration page: one card per tool, with the models to include and *)
(* the model of a slot, that binds the tool to the gateway, and a panel    *)
(* that shows a tool's configuration for copying (integration/page.tsx,    *)
(* stores/integrations.ts).  Cards and panel exist only while the list of  *)
(* tools is neither loading nor in error: a list that is fetched again     *)
(* after a binding closes them, and they open anew, without the choices    *)
(* made in them.                                                           *)
(*                                                                         *)
(* Each tool has one slot.  What the server writes into a tool's files is  *)
(* not modelled.                                                           *)
(***************************************************************************)
EXTENDS Naturals, FiniteSets

CONSTANTS Tools, FirstTool,    \* the tools, and the one the panel opens with
          Models, Default,     \* the models, and what a slot names at first
          MaxCatalogs,         \* bound on the changes of the models of the server
          MaxRequests          \* bound on requests

NoTool == "none"
NoCard == [selected |-> {}, slot |-> "none", touched |-> FALSE, open |-> FALSE]

\* What the values of the constants have to be.
IntegrationPageAssumption ==
    /\ FirstTool \in Tools /\ NoTool \notin Tools /\ Default \notin {"none"} /\ IsFiniteSet(Models)
    /\ MaxCatalogs \in Nat /\ MaxRequests \in Nat

VARIABLES catalog, changes,          \* the models of the server
          models,                    \* the models of the store
          tab, loading, error,       \* the page
          bindingId,
          cards, previousModelIds,   \* tool -> its card, and the models it has seen
          panel,                     \* the panel for copying
          calls, made                \* requests under way, and how many were made

integrationVars == <<catalog, changes, models, tab, loading, error, bindingId, cards,
                     previousModelIds, panel, calls, made>>

server == <<catalog, changes>>
NoPanel == [open |-> FALSE, tool |-> FirstTool, slot |-> Default, loading |-> FALSE,
            code |-> <<>>]

\* The first of the models offered, as the slots choose it.
First(ms) == CHOOSE m \in ms : TRUE

Slot(slot, ms) == IF ms = {} \/ slot \in ms THEN slot ELSE First(ms)

NewCard == [selected |-> models, slot |-> Slot(Default, models), touched |-> FALSE, open |-> TRUE]

Closed == cards' = [t \in Tools |-> NoCard] /\ panel' = NoPanel

\* The effect on the models: a selection of all stays one, an empty one becomes
\* one.
Selection(selected, previous, ms) ==
    IF ms = {} THEN selected
    ELSE IF selected = {} THEN ms
    ELSE (selected \cap ms) \cup (IF previous \subseteq selected THEN ms ELSE {})

Call(what, tool, slot) == [no |-> made + 1, what |-> what, tool |-> tool, slot |-> slot,
                           live |-> TRUE, got |-> FALSE, models |-> {}]
Request(cs) == /\ made + Cardinality(cs) <= MaxRequests
               /\ made' = made + Cardinality(cs)
               /\ calls' = calls \cup cs

\* The requests for a configuration that the effect's cleanup cancels.
Cancelled(cs) == {[c EXCEPT !.live = @ /\ c.what # "generate"] : c \in cs}

\* Cards or panel, whichever the tab has, open.
Opened(tb) ==
    IF tb = "auto"
    THEN /\ cards' = [t \in Tools |-> NewCard]
         /\ previousModelIds' = [t \in Tools |-> models]
         /\ panel' = NoPanel
    ELSE /\ panel' = [NoPanel EXCEPT !.open = TRUE, !.loading = TRUE]
         /\ cards' = [t \in Tools |-> NoCard] /\ UNCHANGED previousModelIds

\* The request that opening the tab makes.
Generating(tb, tool, slot) == IF tb = "manual" THEN {Call("generate", tool, slot)} ELSE {}

Init ==
    /\ catalog \in SUBSET Models /\ changes = 0 /\ models = {}
    /\ tab = "auto" /\ loading = TRUE /\ error = FALSE /\ bindingId = NoTool
    /\ cards = [t \in Tools |-> NoCard] /\ previousModelIds = [t \in Tools |-> {}]
    /\ panel = NoPanel
    /\ calls = {[no |-> 1, what |-> w, tool |-> NoTool, slot |-> NoTool, live |-> TRUE,
                 got |-> FALSE, models |-> {}] : w \in {"integrations", "models"}}
    /\ made = 2

-----------------------------------------------------------------------------

\* The page is opened again.
Reopen ==
    /\ calls' = Cancelled(calls) \cup {Call("integrations", NoTool, NoTool),
                                      Call("models", NoTool, NoTool)}
    /\ made + 2 <= MaxRequests /\ made' = made + 2
    /\ tab' = "auto" /\ loading' = TRUE /\ error' = FALSE /\ Closed
    /\ UNCHANGED <<server, models, bindingId, previousModelIds>>

SetActiveTab(tb) ==
    /\ tb # tab /\ tab' = tb
    /\ IF loading \/ error
       THEN UNCHANGED <<cards, previousModelIds, panel, calls, made>>
       ELSE /\ Opened(tb)
            /\ made' = made + Cardinality(Generating(tb, FirstTool, Default)) /\ made' <= MaxRequests
            /\ calls' = Cancelled(calls) \cup Generating(tb, FirstTool, Default)
    /\ UNCHANGED <<server, models, loading, error, bindingId>>

CardSet(t, c) ==
    /\ cards[t].open
    /\ cards' = [cards EXCEPT ![t] = [c EXCEPT !.touched = TRUE]]
    /\ UNCHANGED <<server, models, tab, loading, error, bindingId, previousModelIds, panel, calls,
                   made>>

\* The checkboxes, and All and None.
Select(t, ms) == ms \subseteq models /\ CardSet(t, [cards[t] EXCEPT !.selected = ms])
SetSlot(t, m) == m \in models /\ CardSet(t, [cards[t] EXCEPT !.slot = m])

HandleBind(t) ==
    /\ cards[t].open /\ bindingId = NoTool /\ bindingId' = t
    /\ Request({Call("bind", t, cards[t].slot)})
    /\ UNCHANGED <<server, models, tab, loading, error, cards, previousModelIds, panel>>

\* A tool or a model is chosen in the panel: the configuration is asked again.
Choose(tool, slot) ==
    /\ panel.open
    /\ panel' = [panel EXCEPT !.tool = tool, !.slot = slot, !.loading = TRUE]
    /\ made < MaxRequests /\ made' = made + 1
    /\ calls' = Cancelled(calls) \cup {Call("generate", tool, slot)}
    /\ UNCHANGED <<server, models, tab, loading, error, bindingId, cards, previousModelIds>>

ChooseTool(t) == t # panel.tool /\ Choose(t, Default)
ChooseSlot(m) == m \in models \ {panel.slot} /\ Choose(panel.tool, m)

-----------------------------------------------------------------------------

\* The models of the server change.
ChangeCatalog(ms) ==
    /\ changes < MaxCatalogs /\ ms # catalog
    /\ catalog' = ms /\ changes' = changes + 1
    /\ UNCHANGED <<models, tab, loading, error, bindingId, cards, previousModelIds, panel, calls,
                   made>>

Serve(c) ==
    /\ c \in calls /\ c.what = "models" /\ ~c.got
    /\ calls' = (calls \ {c}) \cup {[c EXCEPT !.got = TRUE, !.models = catalog]}
    /\ UNCHANGED <<server, models, tab, loading, error, bindingId, cards, previousModelIds, panel,
                   made>>

\* The models come: open cards adjust their selections and slots.
GetModels(c) ==
    /\ c \in calls /\ c.what = "models" /\ c.got /\ calls' = calls \ {c}
    /\ models' = c.models
    /\ cards' = [t \in Tools |->
           IF cards[t].open
           THEN [cards[t] EXCEPT !.selected = Selection(@, previousModelIds[t], models'),
                                 !.slot = Slot(@, models')]
           ELSE cards[t]]
    /\ previousModelIds' = [t \in Tools |-> IF cards[t].open /\ models' # {} THEN models'
                                            ELSE previousModelIds[t]]
    /\ UNCHANGED <<server, tab, loading, error, bindingId, panel, made>>

\* The tools come, after the page was opened or a tool bound.  Cards and panel
\* that are open already start their slots anew.
GetIntegrations(c) ==
    /\ c \in calls /\ c.what = "integrations"
    /\ loading' = FALSE
    /\ bindingId' = IF c.tool = NoTool THEN bindingId ELSE NoTool
    /\ IF error THEN calls' = calls \ {c} /\ UNCHANGED <<cards, previousModelIds, panel, made>>
       ELSE LET tool == IF loading THEN FirstTool ELSE panel.tool
                asks == Generating(tab, tool, Default)
            IN /\ made' = made + Cardinality(asks)
               /\ calls' = Cancelled(calls \ {c}) \cup asks
               /\ IF loading THEN Opened(tab)
                  ELSE /\ cards' = [t \in Tools |-> IF cards[t].open
                                       THEN [cards[t] EXCEPT !.slot = Slot(Default, models)]
                                       ELSE cards[t]]
                       /\ panel' = [panel EXCEPT !.slot = Default, !.loading = panel.open]
                       /\ UNCHANGED previousModelIds
    /\ UNCHANGED <<server, models, tab, error>>

\* A tool is bound: the tools are fetched, which closes cards and panel.
Bound(c) ==
    /\ c \in calls /\ c.what = "bind"
    /\ calls' = Cancelled(calls \ {c}) \cup {[Call("integrations", c.tool, NoTool) EXCEPT !.no = c.no]}
    /\ loading' = TRUE /\ error' = FALSE /\ Closed
    /\ UNCHANGED <<server, models, tab, bindingId, previousModelIds, made>>

\* The server refuses to bind.
NotBound(c) ==
    /\ c \in calls /\ c.what = "bind" /\ calls' = calls \ {c} /\ bindingId' = NoTool
    /\ UNCHANGED <<server, models, tab, loading, error, cards, previousModelIds, panel, made>>

\* Mutant of Stale: an answer is shown whatever was asked since.
Stale_Never(c) == FALSE

Stale(c) == ~c.live

\* The configuration comes; the answer to a cancelled request is dropped.
Generated(c) ==
    /\ c \in calls /\ c.what = "generate" /\ calls' = calls \ {c}
    /\ panel' = IF Stale(c) THEN panel
                ELSE [panel EXCEPT !.loading = FALSE, !.code = <<c.tool, c.slot>>]
    /\ UNCHANGED <<server, models, tab, loading, error, bindingId, cards, previousModelIds, made>>

\* A request fails.  An error of the list or of a binding takes the place of
\* cards and panel; a configuration that fails to come shows none.
Fail(c) ==
    /\ c \in calls
    /\ IF c.what \in {"integrations", "bind"}
       THEN /\ error' = TRUE /\ Closed /\ calls' = Cancelled(calls \ {c})
            /\ loading' = (loading /\ c.what = "bind")
            /\ bindingId' = IF c.tool = NoTool THEN bindingId ELSE NoTool
       ELSE /\ UNCHANGED <<loading, error, bindingId, cards>> /\ calls' = calls \ {c}
            /\ panel' = IF c.what = "generate" /\ c.live
                        THEN [panel EXCEPT !.loading = FALSE, !.code = <<>>] ELSE panel
    /\ UNCHANGED <<server, models, tab, previousModelIds, made>>

Next ==
    \/ Reopen \/ \E tb \in {"auto", "manual"} : SetActiveTab(tb)
    \/ \E t \in Tools : \/ \E ms \in SUBSET models : Select(t, ms)
                        \/ \E m \in models : SetSlot(t, m)
                        \/ HandleBind(t) \/ ChooseTool(t)
    \/ \E m \in models : ChooseSlot(m)
    \/ \E ms \in SUBSET Models : ChangeCatalog(ms)
    \/ \E c \in calls : \/ Serve(c) \/ GetModels(c) \/ GetIntegrations(c) \/ Bound(c)
                        \/ NotBound(c) \/ Generated(c) \/ Fail(c)

Spec == Init /\ [][Next]_integrationVars

-----------------------------------------------------------------------------

\* The configuration offered for copying is that of the tool and the model
\* chosen in the panel, in whatever order the answers come.
CodeIsChosen == panel.open /\ ~panel.loading => panel.code \in {<<>>, <<panel.tool, panel.slot>>}

\* A card offers and sends models that there are, and a card whose choices nobody
\* has touched all of them, whenever the models come or change.
SelectionOffered ==
    \A t \in Tools : cards[t].open /\ models # {} =>
        /\ cards[t].selected \subseteq models /\ cards[t].slot \in models
        /\ ~cards[t].touched => cards[t].selected = models

\* One tool is bound at a time.
Bindings == {c \in calls : c.what = "bind" \/ (c.what = "integrations" /\ c.tool # NoTool)}
OneBinding == Cardinality(Bindings) = IF bindingId = NoTool THEN 0 ELSE 1

IntegrationSound == CodeIsChosen /\ SelectionOffered /\ OneBinding
(***************************************************************************)
(* Why IntegrationSound holds.                                             *)
(***************************************************************************)
Types ==
    /\ \A t \in Tools : cards[t] = [selected |-> cards[t].selected, slot |-> cards[t].slot,
                                   touched |-> cards[t].touched, open |-> cards[t].open]
    /\ panel = [open |-> panel.open, tool |-> panel.tool, slot |-> panel.slot,
                loading |-> panel.loading, code |-> panel.code]
    /\ panel.open \in BOOLEAN
    /\ \A c \in calls : /\ c = [no |-> c.no, what |-> c.what, tool |-> c.tool, slot |-> c.slot,
                                live |-> c.live, got |-> c.got, models |-> c.models]
                        /\ c.live \in BOOLEAN /\ (c.what = "bind" => c.tool \in Tools)

\* Of the requests for a configuration only that of the panel is not cancelled.
AskedIsChosen ==
    \A c \in calls : c.what = "generate" /\ c.live /\ panel.open =>
        c.tool = panel.tool /\ c.slot = panel.slot

\* A card knows the last models there were, of which one that nobody touched has
\* all.
ModelsAreSeen ==
    \A t \in Tools : cards[t].open =>
        /\ models # {} => previousModelIds[t] = models
        /\ ~cards[t].touched => cards[t].selected = {} \/ previousModelIds[t] \subseteq cards[t].selected

\* What binds a tool is the page's binding.
BindingIsUnderWay == IF bindingId = NoTool THEN Bindings = {} ELSE \E c \in calls : Bindings = {c}

Inv == /\ Types /\ CodeIsChosen /\ AskedIsChosen
       /\ SelectionOffered /\ ModelsAreSeen /\ BindingIsUnderWay

===============================================================================
