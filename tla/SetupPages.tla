------------------------------- MODULE SetupPages -----------------------------
(***************************************************************************)
(* The pages of the dashboard that set the gateway up: settings, tools,    *)
(* logins, and the pool of proxies with its scraper.  v1 to v17 hold the   *)
(* variables of the page that is open, in the order of its module.         *)
(***************************************************************************)
EXTENDS Naturals, Sequences, FiniteSets

CONSTANTS None, MaxMounts, MaxRequests,
          \* SettingsPage
          Items, Single, MaxTasks,
          \* IntegrationPage
          Tools, FirstTool, Models, Default, MaxCatalogs,
          \* LoginPage
          MaxSessions, MaxCalls,
          \* ProxyPage and ScraperPage
          Urls, FirstUrl, MaxFailCount, MaxIds, MaxProxyCalls, MaxFaults,
          Sources, MaxJobs, MaxBatches

VARIABLES v1, v2, v3, v4, v5, v6, v7, v8, v9, v10, v11, v12, v13, v14, v15, v16, v17

Settings == INSTANCE SettingsPage WITH
    kind <- v1, settings <- v2, config <- v3, busy <- v4, loading <- v5, mount <- v6,
    tasks <- v7, begun <- v8, served <- v9, order <- v10, clean <- v11

Integration == INSTANCE IntegrationPage WITH
    catalog <- v1, changes <- v2, models <- v3, tab <- v4, loading <- v5, error <- v6,
    bindingId <- v7, cards <- v8, previousModelIds <- v9, panel <- v10, calls <- v11,
    made <- v12

Login == INSTANCE LoginPage WITH
    kind <- v1, consent <- v2, held <- v3, redeemed <- v4, accounts <- v5, started <- v6,
    login <- v7, busy <- v8, mount <- v9, tab <- v10, busyId <- v11, connections <- v12,
    calls <- v13, sleeping <- v14, made <- v15, strayed <- v16, clean <- v17

Proxy == INSTANCE ProxyPage WITH
    MaxCalls <- MaxProxyCalls, proxies <- v1, file <- v2, issued <- v3, faults <- v4,
    rows <- v5, checkingAll <- v6, batchLoading <- v7, autoPoll <- v8,
    autoRemoveDead <- v9, initialCheckDone <- v10, calls <- v11, made <- v12,
    clean <- v13

Scraper == INSTANCE ScraperPage WITH
    currentJob <- v1, goroutines <- v2, cancelled <- v3, strayed <- v4, job <- v5,
    loading <- v6, autoPoll <- v7, selected <- v8, calls <- v9, made <- v10

ASSUME SetupAssumption ==
    /\ Settings!SettingsPageAssumption
    /\ Integration!IntegrationPageAssumption
    /\ Login!LoginPageAssumption
    /\ Proxy!ProxyPageAssumption
    /\ Scraper!ScraperPageAssumption
=============================================================================
