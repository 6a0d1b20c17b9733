# Cybx Gateway: TLA+ models, checks and proofs

The gateway (`src/Backend`, Go) exposes Claude- and OpenAI-style endpoints and forwards every request to
the Kiro API on one of many accounts. Accounts run out of quota, get rate limited, suspended or expire, and
the gateway's core logic is what it does about that: a pool hands accounts out by weighted round robin, a
loop fails over from one account to the next, and the outcome of every attempt goes back into the pool or
into the configuration, while an admin API, a dashboard and several timers edit the same accounts.

The dashboard (`src/Dashboard`, TypeScript) is a browser application of its own: pages that call the admin API,
stores that keep what the API answered, and a chat that streams from the gateway. What is hard about it is
what is hard about any client: answers that overtake each other, pages left while a call is under way,
commands that fail after the server did what they asked.

The modules here model the gateway's core, the tunnel manager, and the dashboard with the part of the server each
page talks to. Paths of the form `pool/...`, `proxy/...`, `config/...`, `auth/...` are relative to
`src/Backend`; `app/...`, `components/...`, `stores/...` are relative to `src/Dashboard/src`, and pages of the
dashboard are named without their `app/(dashboard)/`.

## 1. Inventory

| Component | State | Operations | Hard behaviour | What makes it correct |
|---|---|---|---|---|
| Account pool, `pool/account.go` | weighted slots (copies of accounts), shared atomic cursor, cooldowns, error counts, model lists, account count | `Reload`, `GetNextForModelExcluding`, `RecordSuccess/Error/RateLimit`, `SetModelList`, `UpdateToken`, `UpdateStats`, `Count` | selections share a read lock and one cursor, so their draws interleave; `Reload` reads the configuration under two separate locks | a ready account is never passed over, nil only if nothing is eligible, no starvation, slot shares respect the overage clamp, failures cool |
| Account failover, `proxy/handler.go:1305-1356`, `proxy/account_failover.go` | per request: account, accounts tried, attempts left, whether output was streamed | select, try, classify the failure, cool down / ban / snapshot overage, clear a ban | requests ban accounts under each other, budget counted once, records written back from old copies | one client sees one account, gives up last, ends; pool and configuration agree afterwards; disabled accounts stay unused |
| Configuration store, `config/config.go` | accounts and settings in memory, `config.json` | add, update, delete, update one field, `Save` | callers write whole records from copies; some write the list without the lock; `Save` rewrites in place | deleted stays deleted, nobody else lost, tokens never go back |
| Admin API for accounts, `proxy/handler.go`, `proxy/handler_cybxai.go` | none of its own (works on the two above) | edit, bulk actions, delete, three clean-ups, add/import, five manual refreshes | each handler is a read, a slow call and a write | as above |
| Background refresh and account information, `proxy/handler.go:251-288`, `proxy/kiro_api.go` | a snapshot of the accounts | refresh tokens that are due, query usage, write or lift a ban, reload | runs for minutes on its snapshot while everyone else writes | as above |
| Tunnel manager, `proxy/tunnel.go` | current `cloudflared` process, reported status/pid/URL, state file | start quick, start named, stop, monitor, restore at start-up | waits without the lock for a URL or for `cloudflared` commands; processes exit by themselves; crash | no orphan process, status true of the process, starts return |
| Kiro API client, `proxy/kiro.go` | endpoint index, attempt | endpoints in order, three attempts each, fallback endpoint for temporary limits, event-stream decoding | an error in the middle of a stream is followed by the next endpoint with the same callback | no output twice, the last error is the reported one |
| Proxy pool, `proxy/proxypool.go` | proxies with status and fail count, file | add, remove, check one or all | health checks run unlocked between two writes of the status; the file is saved after each step and read at a restart | unique URLs, dead only after three failures, nothing stays "checking" |
| Proxy scraper, `proxy/proxyscraper.go` | one job with counters and results | start, cancel, status, integrate | a cancelled run may still write to the job started after it | a job shown as running will end, a job's end is its own |
| Usage records, `proxy/handler_cybxai.go:2474-2890` | contexts by account, 500 records | begin, rebind after failover, record, finish, clear | two requests on one account share a key; the server restarts with records unsaved | a record names the account that answered, nothing is counted twice |
| Global statistics, `proxy/handler.go:1214-1300` | atomic counters, saved every 30 s | count, save, reset | the reset races the save | totals never go back except by reset |
| Prompt cache tracker, `proxy/cache_tracker.go` | prefixes with expiry | look up, extend, evict | expiry between look-up and use | never reports more cached tokens than the prompt has |
| Stream handlers, `proxy/handler.go` | open content block, stop reason | translate upstream events into SSE | order of thinking, text and tool blocks | blocks open and close in order, one end |
| Translation, `proxy/translator.go` | none | three message formats into one | pairing of tool calls and results | alternation and pairing preserved |
| Login sessions, `auth/`, `proxy/handler.go` | device-code and PKCE sessions | start, poll, complete | the session is taken, redeemed and the account added in three steps; two polls at once | a session completes once |
| Content filter, `contentfilter/` | rule list | apply | none | pure function |
| Tool integrations, `integration/` | none | rewrite other tools' config files | partial writes | I/O |
| Overage switch, `proxy/kiro_overage.go` | a field of the account | fetch, set | write of a stale field | part of failover |
| Logger, static files, `main.go` | none | - | - | I/O |
| Chat, `components/chat/`, `stores/chat.ts` | sessions in local storage, messages on screen, refs of each mount | send, stop, new, open, delete, attach, title, lock and unlock | a reply outlives the mount, the session or the key it was asked with; a write to local storage fails in silence | the screen lacks nothing that is stored and is the same while writes succeed, a spinner has a stream, a reply is saved once and is its own, one title |
| Message rendering, `components/chat/ChatMessage.tsx` | text so far, timer, highlighter queue | split into parts, highlight | chunks cut fences anywhere; the highlighter answers late | what is shown is the code; the end of it is highlighted |
| Accounts page, `accounts/`, `stores/connections.ts` | list, page, filters, busy flags | 14 commands | lists and answers overtake each other; a command fails after it was done | the table and the cards are the server's, no flag stays |
| Usage and logs, `page.tsx`, `logs/page.tsx`, `stores/usage.ts`, `stores/dashboard.ts` | answers by slot, limit and range, timers | fetch, poll, change limit or range, clear, leave | stores outlive pages, polls race choices and Clear All | what is shown is what is selected |
| Settings pages, `api-key/`, `tunnel/`, `security/`, `filters/`, `models/`, routing, `proxy/` | settings shown, one flag | change, fetch | three ways of following a change; the server reads and writes files without a lock over both, and answers failed writes as done; the tunnel exits by itself | page and server agree unless a write failed or the tunnel went on by itself, one command at a time |
| Integrations, `integration/page.tsx`, `stores/integrations.ts` | cards, panel, binding flag | list, bind, generate, choose | models arrive late or change under a card; two generations at once | offers what there is, code is of what is chosen |
| Login page, `providers/kiro/page.tsx`, `stores/kiro.ts` | one login, its status, forms | start, poll, cancel, complete, add | a login left behind still answers | completed means added; awaited means polled |
| Proxy pages, `proxy/`, `stores/proxy.ts`, `stores/scraper.ts` | rows, switches, job | add, remove, check, poll, scrape, cancel | the page changes rows by itself and polls meanwhile | rows are the pool's members |
| API playground, `docs/page.tsx`, `components/docs/` | fields, result, stream | run, cancel, edit, scroll | cancel, failure and end race the pieces; the reader of a stream looks at no status | shows all that came but for what the reader passes over, nothing older |
| Frame, theme, sign-in, `components/animate-ui`, `components/ui`, `lib/` | view state | - | - | library code |

How they interact: a request calls the pool (`GetNextForModelExcluding`, `Count`, `Record*`); the failover loop
and the admin API write the configuration through `config.*` and then call `pool.Reload`, always as two steps;
`Reload` copies the enabled accounts, so the pool may be behind the configuration; the request keeps a pointer
into those copies. Everything runs in goroutines and shares only the pool's lock, `cfgLock` and `tunnelMu`.
The dashboard is one thread: a handler runs until it awaits an answer, and everything else may happen there. Its
pages share no state with each other except through the server; a store outlives the page that shows it.

The hazards behind this table are listed one by one, at their lines, in `PROJECT.json`.

## 2. Modules

| Module | Models | Composition |
|---|---|---|
| `Selection` | which accounts a request may be given (constant operators) | used by all three below |
| `PoolContract` | **abstract**: a selection is one step with one allowed answer | extends `Selection` |
| `AccountPool` | slots, reload, the cursor, the two-pass scan, cooldowns | extends `Selection`; instantiates `PoolContract` with a refinement mapping |
| `Failover` | the failover loop of each request, bans, the administrator | extends `Selection`; uses its `Choices` as the pool's answer, which `AccountPool` implements |
| `AccountStore` | every writer of `config.Accounts`, tokens, the pool's copies | stands alone |
| `Tunnel` | the tunnel manager and its processes | stands alone |
| `UsageRecords` | contexts and records of requests on the server | instantiated by `Dashboard` |
| `ChatPage`, `MessageView` | the chat and a reply on screen | instantiated by `Dashboard` |
| `AccountsPage`, `UsagePages`, `Playground` | pages of the dashboard, each with the handlers of the server it calls | instantiated by `Dashboard` |
| `SettingsPage`, `IntegrationPage`, `LoginPage`, `ProxyPage`, `ScraperPage` | the pages that set the gateway up, likewise | instantiated by `SetupPages` |
| `SetupPages` | the instances of those five, over the variables of the dashboard | instantiates them |
| `Dashboard` | all pages, one at a time: the specification and what it promises | extends `SetupPages`, instantiates the other six |
| `AccountPool_proofs`, `Failover_proofs`, `Tunnel_proofs`, `AccountStore_proofs` | theorems and proofs of the gateway | extend their module and `TLAPS` |
| `ChatPage_proofs` | of the chat and of the reply on screen | extends `ChatPage`, instantiates `MessageView` |
| `AccountsPage_proofs` | of the table of accounts | extends `AccountsPage` |
| `SetupPages_proofs` | lemmas about the five pages of `SetupPages` | extends `SetupPages` |
| `Dashboard_proofs` | lemmas about the other pages, and every theorem about the dashboard | extends `Dashboard` and `SetupPages_proofs`, instantiates the two above |
| `MCAccountPool`, `MCFailover`, `MCAccountStore`, `MCDashboard` | instances for TLC | extend their module |

### AccountPool

`slots`, `totalAccounts`, `currentIndex`, `cooldowns`, `errorCounts`, `modelLists` are the fields of the Go
struct; a missing map entry is 0 or `{}`. `reload` and `calls` are the local variables of a `Reload` and of each
`GetNextForModelExcluding` in progress. `Reload` is four actions, because it releases `cfgLock` between its
reads of the accounts and of the over-usage switch; a selection is `Begin`, up to n `Draw`s (one atomic
increment each), then possibly `Fallback`. What holds the write lock is one action guarded by `LockFree`. The
clock and the over-usage switch are read when a selection begins and are part of its query `q`; the code reads
the clock once and the switch per slot, so an edit of the switch in the middle of a scan is not modelled.
Weights are integers; an account's usage is the flag `over`. `CursorMod` is 2^64 in the code.

### Failover

The pool's answer is any of `Choices` (what `AnswerAllowed` and `ContractSpec` establish), so the slots are
gone and the cooldowns are ranks. `pc` follows the code: first selection ("new"), `pool.Count()` ("count"), the
attempt loop ("attempt"), `ensureValidToken` ("token"), `CallKiroAPI` ("call"), then the class of the failure
(`settle`) as `handleAccountFailure` distinguishes them by message: overage, quota, rate limit, banned, expired,
other; `failover` says whether the loop may go on. Each write of the configuration and the reload that
follows it are two actions. `steady`, `calm`, `sources` and `off` are history variables of the properties.

### AccountStore

One session is one goroutine with one operation: an edit (the PUT of an account or a bulk action), a deletion
under the lock, a deletion that filters a copy of the list and assigns it without `cfgLock` ("remove":
`deleteConnection` and the three clean-ups), an addition, one of the six refreshes, or a request ("serve"). The
six refreshes differ in which accounts they take, when they ask for a token, where they go on after a failure
and whether they reload; `Plans` is that table and one set of actions serves all. `snap` is the copy an operation
works on; `live` marks a request's pointer into the pool's slots, which `Reload` detaches. A token is its number.

The identity provider is external and modelled from its use: a refresh token is exchanged once, and an access
token outlives the refresh that brought it (`Lapse` waits). Two simplifications: an unlocked assignment
of the list is one atomic write (torn reads and the position race at `config.go:253` are not modelled), and
copies detached from the slots are private to their request.

### Tunnel

Each section that holds `tunnelMu` is one action; a process has the name of the request that started it.
`Exit` and `PrintURL` are the process's own steps, `Monitor` is `monitorTunnelExit` after `cmd.Wait`. Every section
saves its state to the file, so `Restart` reads `tunnelState` back as `loadTunnelState` does, without processes.

### The dashboard modules

A module of a page has the variables of its store and of the component's state under their own names, and one
action for what a handler does between two awaits. A call is a record in a set (`tasks`, `calls`, `streams`); the
server answers the calls in any order, and the answers come in any order, unless the code awaits them one by
one. A call may fail before the server has done it or after. Variables such as `clean`, `straight`, `strayed`,
`shared` and `summed` are history variables: they remember that something happened which the code does not
protect against (listed in section 3), so that a property can say what holds otherwise.

- `ChatPage`. `stored` is local storage, `activeMessages` what is on screen; `abortRef` and `fullContentRef` belong
  to a mount of `ChatArea`. A reply's text is the sequence of exchanges its chunks came from, so that text of
  another reply is visible as such. `Send` is `sendMessage` up to the first await; then `Answered`, chunks, and
  one of end, error or stop, each with the save of the store. A write to local storage may fail, which `writeSessions`
  ignores (`stores/chat.ts:73`): the store goes on with the sessions it has just changed, so `activeMessages` and `sessions`,
  the list of the sidebar, may have what `stored` has not, and the next operation reads `stored` again. `Send`
  makes three writes, `saved` says which succeed. `unsaved` and `untitled` are history variables: the screen has
  something of this session that was not stored; the first title of a session was not stored, or is "New Chat" itself. A
  title is "New Chat" or any other (`Titles`), whoever makes it.
- `MessageView`. `parseIntoParts` is modelled on sequences of backticks, newlines and other characters: `Reading(s, c)` is
  one pass of its loop, what is read at the cursor and where the cursor goes. The closed blocks are highlighted
  once, the open one through timer, `busy` and `pendingRef`. The rest that is not highlighted yet is put in by
  `String.replace` (`ChatMessage.tsx:310`), which reads `$&`, `$$` and the like as patterns; the characters of the model have no `$`.
- `AccountsPage`. The server's list, filter and paging (`handler_cybxai.go`) with all commands of table and
  toolbar; each is a task: a call, an answer, a fetch of the list and, for some, of the summary.
- `UsageRecords`. `at` follows a request through `proxy/handler.go`: begin, failed attempts, success, rebinding of its
  context, the record, the flush, the end. Contexts are found by account, as in the code.
- `UsagePages`. Every slot of the two stores holds the answer delivered last; polls are fetches like any other.
- `SettingsPage`. One module for seven pages, which differ in how they follow a change (`kind`). A setting is
  "on", "off" or "gone". `Further` is what the tunnel becomes by itself: one that starts runs or stops, and the process of one
  that runs may exit (`monitorTunnelExit`). Round robin, models and security write a file whose error is dropped.
  The confirmation that disables the key is not disabled by the page's flag, so it can be given during another command.
- `IntegrationPage`. Cards and panel exist only while the list of tools is there; an untouched card follows the
  models.
- `LoginPage`. The two kinds of login with their sessions on the server; redeeming a session and adding its
  account are separate steps, as in `handler.go`.
- `ProxyPage`, `ScraperPage`. Each operation of the pool under its lock with its save is one action, a check is two;
  `file` is what a restart reads. A goroutine of the scraper looks at its context only where the code does, so
  the source or batch at hand when it is cancelled ("cancelling") still counts; it may also panic.
- `Playground`. The executor with its abort and the fields that scrolling fills anew. What comes of a stream is content or
  something the reader passes over (`skipped`): a line that is no delta, an error event among them, a last line cut
  off, or the body of a refused request, since `readOpenAIStream` and `readAnthropicStream` look at no status.

`Dashboard` is all of them in one specification. Its first state picks a `page`, and only that page's module acts: the
product of pages that share nothing would repeat each of them for every state of the others. `v1` to `v21` hold the
variables of the page that was picked; `MCDashboard` gives the constants. Each page's property is stated again in
`Dashboard` under the condition that the page is the one picked.

## 3. Runs

All runs finish in well under five minutes with two workers.

| Run | Instance | Shows |
|---|---|---|
| `pool_select` | 2 accounts, 2 concurrent callers, first attempt and retry, model lists, cursor mod 3, cooldowns that run out | `AnswerAllowed`: the answer is one the contract allows, whatever the interleaving. `ContractSpec`: refinement of `PoolContract`. `RoundRobin`: an account that stays ready is handed out infinitely often |
| `pool_slots` | 2 accounts with four kinds of configuration, scale 2, three errors, one edit at any point of a reload | `FailuresCool`, `CooldownCapped`, `OverageShare`, `CountCoversMembers` |
| `failover` | 2 requests, 2 accounts (one over its limit, possibly one reopened with its ban), 1 edit, four classes of failure | `OneSource`, `GivesUpLast`, `PoolFollowsConfig` |
| `failover_ends` | the same, three classes, no edit, `FairSpec` | `EveryRequestEnds` |
| `failover_disabled` | the same with a 401 and one edit | **violated** `DisabledNotUsed`, see below |
| `store` | 2 accounts (one healthy), any 2 of the 11 operations, suspensions | `Membership`, `TokenKept`, `PoolHasToken`, `PoolFollowsStore` |
| `store_deleted` | 2 accounts, 2 list-replacing deletions | **violated** `DeletedStaysDeleted` |
| `tunnel` | 2 quick and 2 named starts, 1 restart, any number of stops, `FairSpec` | `NoOrphan`, `StaysRunning`, `StartingIsTemporary`, `StartsReturn` |
| `tunnel_stopped` | 1 quick and 2 named starts | **violated** `StoppedMeansNotRunning` |
| `dashboard` | chat: 2 sessions, 2 exchanges, 2 mounts, replies of 1 chunk, 1 image, 1 step with a failed write; rendering: 5 chunks that cut fences anywhere; accounts: 2, one row per page, any 2 of the 14 commands; records: 2 requests, 2 accounts, buffer of 2; usage: 4 fetches, 1 Clear All; settings: 2 settings, 3 calls, 2 openings; integrations: 2 tools, 2 models, 4 calls, 1 change of the models; login: 2 sessions, 5 calls, 2 changes of tab; proxies: 2 URLs, 2 ids, 3 calls, 1 crash or failed save; scraper: 2 jobs, 5 calls; playground: 2 runs, 2 pieces, 2 edits | `ViewMatchesStorage`, `ProgressHasStream`, `OneTitle`, `SavedOnce`, `HighlightSound`, `StreamStable`, `TableIsCurrent`, `BusyHasTask`, `UsageAccounted`, `ShownIsSelected`, `SettingsAgree`, `IntegrationSound`, `LoginSound`, `ProxiesSound`, `AnswerIsShown` |
| `chat_cancelled` | the chat with 1 session and 2 exchanges | **violated** `OwnContent`, see below |
| `accounts_emptied` | 4 accounts, two rows per page, 3 removals or changes of page | **violated** `EmptyPageLeft` |

Why these bounds are enough: the pool's hazards need two interleaved callers, two different slots and a wrap of
the cursor; cursor modulus 3 with two slots makes the wrap land between the slots, as 2^64 does for any
number of slots that is not a power of two. In `pool_slots`, three errors reach the threshold, `Hour = 2` exceeds
`Minute = 1` so the cap can be missed, and `Scale = 2` leaves room below and above the clamp. The failover hazards are of two
requests about the same account and one edit; a budget of two already distinguishes the accounts counted. In
the store every hazard is a pair of operations, one of which works on a copy the other makes stale; more
sessions only repeat pairs. The tunnel needs two starts of each kind, since the second is what the first
overlooks. On the dashboard a hazard is one answer that comes in the wrong place: two commands, or one command and
what it left behind, are enough, and the bounds on calls allow each of them its follow-up fetches. Two sessions of
the chat and two mounts let a reply end in another session and another mount than its own; five chunks
suffice to open a fence, write code, cut the closing fence in two and go on after it. One failing write (`MaxFailures`)
comes at any save, and everything else may follow it. Images are attached only while messages can still be sent.
A new session takes the first id that is free (`NewId`): ids are random, and nothing tells them apart. Bounds of the models, not of the code: `MaxTime`, `MaxErrs`, `MaxEdits`, `MaxRank`,
`MaxTokens`, `MaxRestarts`, and on the dashboard the constants named `Max...`, except
`MaxRecords` (500) and `MaxFailCount` (3), which are of the code. Symmetry is used only in runs without liveness and only over sets the instance
treats alike. Deadlock checking is off where requests, sessions and edits may simply be used up.

Fairness. `AccountPool!FairSpec`: a selection that holds the read lock runs on (a goroutine in a bounded loop).
`Failover!FairSpec`: a request's goroutine runs and its upstream call ends, which the HTTP client's timeout
ensures; nothing is assumed about other requests, cooldowns or the administrator. `Tunnel!FairSpec`: start
requests and monitors run; the wait for a URL has a 30 s timer and `cloudflared` commands have timeouts.
No fairness is assumed of processes, stops or printed URLs. The properties of the dashboard are invariants and
action properties and need none: what must end is stated of the states in which nothing is under way. Deadlock
checking is off in its runs, since commands and calls are used up.

### Where code and documentation disagree

- `failover_disabled`: `clearAccountAuthBanOnSuccess` writes back the whole record the request was given, enabled: an
  account disabled meanwhile comes back, against the dashboard's "will not be used until enabled again".
- `store_deleted`: of two overlapping deletions through `deleteConnection`, the later assigns a list that still
  holds the account the earlier one removed, against "This action cannot be undone".
- `tunnel_stopped`: a named start overwrites the current process without killing it, so after a stop the status
  is "stopped" while a `cloudflared` process still serves.

- `chat_cancelled`: a stopped reply is saved with what `fullContentRef` holds, and that is emptied only when the
  response begins (`ChatArea.tsx:377`), so a reply stopped before saves the text of the one before it, against
  "User cancelled - save what we have" (`ChatArea.tsx:453`).
- `accounts_emptied`: a removal looks at the rows of the store when its answer comes (`stores/connections.ts:183`), so of two
  removals that empty the last page neither goes back a page, against "go back a page if current page
  is now empty" (`stores/connections.ts:181`).

The premises of the conditional properties come from further behaviour of the same kind, each seen in TLC when
its premise is dropped:

- `GivesUpLast` asks that the pool did not change around the count (`calm`): the budget is counted once, after
  the first selection, so a concurrent ban makes it too small and a joining account is not waited for.
- `TokenKept` asks that only fields are written and that the account was never banned: an edit, a ban and
  the lifting of a ban write a whole record and with it the token of their copy.
- `PoolHasToken` asks that only the timer refreshes: `ensureValidToken` writes the pool before the
  configuration (`handler.go:2128`), so a reload in between puts the replaced token back into the pool; two overlapping
  manual refreshes may finish in the other order in the pool than in the configuration.
- `PoolFollowsStore` excepts the refresh and the check of one account (`handler.go:2930`,
  `handler_cybxai.go:500`), which may ban the account without a reload.
- `Membership` excepts the list-replacing deletions.
- `NoOrphan` and `StaysRunning` hold until a named start begins or the server restarts (`Undisturbed`). A stop just
  before the URL of a quick tunnel is read leaves the status "running" without a process (`tunnel.go:403`).
- Two requests that refresh one account at once present the same token; the second is refused and
  bans an account whose new token is valid (`handler.go:2123`). No property is stated about this.

And on the dashboard:

- `ViewMatchesStorage` (`unsaved`): a write to local storage that fails leaves on screen what is not stored, a reply, a
  message or a deletion; the property then says that the screen lacks nothing of what is stored. With images
  in the messages the quota is soon exceeded, and nothing tells the user (`stores/chat.ts:73`).
- `OneTitle` (`untitled`): a session whose first title is "New Chat", typed by the user (`ChatArea.tsx:238`) or generated
  (`:269`), or was not stored, is taken for a new one and asked for its title again. The comment "never stuck on New Chat"
  (`:240`) does not hold of these.
- `HighlightSound`: code with a `$` in the rest that is not highlighted yet (see `MessageView`).
- `AnswerIsShown` (`skipped`): of a streaming request that is refused, and of an error event in a stream, nothing is
  shown, no error either (`useApiExecutor.ts:110`, `:157`); an endpoint that does not stream shows the error.
- `TableIsCurrent` (`clean`), `ShownIsSelected` (`straight`), `SettingsAgree` and `ListIsCurrent` (`clean`): of two
  fetches under way at once the answer that comes last stays on screen, whichever was asked last; no
  request is numbered or aborted. The summary cards (`summed`) are not fetched again after a toggle, a check, a
  removal or an import. Clear All fetches with the limit of the moment it was given.
- `SettingsAgree` also asks that no file was written from an old copy: filters and settings are read, changed and written
  without a lock over the three steps (`handler_cybxai.go:1832`, `:2221`), and a write that fails is answered as a
  success (`:2385`, `:2341` for the models). An update of the automatic test replaces the whole structure
  (`proxypool.go:595`). A tunnel that runs may exit by itself, and the page asks by itself only while it shows one that is
  starting (`tunnel/page.tsx:51`): it goes on showing "running" until something else makes it fetch. The property
  says that what the page shows is what the tunnel was before it went on.
- `AwaitedIsPolled` (`strayed`): the answer to slow down changes the status of whatever login is there
  (`stores/kiro.ts:246`), one that has ended included.
- `JobIsItsOwn` (`strayed`): a goroutine that was cancelled writes the job that is current (`proxyscraper.go:230`), with the
  results of the batch it had at hand (`:298`).
- `CheckingIsChecked` (`faults`): a crash during a check leaves "checking" in the file, and nothing resets it
  (`proxypool.go:405`). `RowsAgree` (`clean`): the page takes a proxy for dead after one failure, and drops the rows of dead
  proxies the server may have kept (`stores/proxy.ts:107`). Rows are compared as a set: one whose URL is added again
  is shown twice (`stores/proxy.ts:65`).
- `UsageAccounted` (`shared`): requests on one account find each other's contexts (`handler_cybxai.go:2846`); their records
  may carry the body of the other or be lost.

Seen while modelling, and stated by no property: a change of the range of the dashboard asks for the chart twice
(`page.tsx:307`, `:318`); the id of a session that does not exist stays in the URL
(`app/(chat)/chat/page.tsx:19`); `~~~` blocks, which only ReactMarkdown knows, can show a stale highlight
(`ChatMessage.tsx:222`); deselecting the last source of the scraper selects all (`proxy/scraper/page.tsx:76`); scrolling
the documentation discards edits in a playground (`docs/page.tsx:463`); a removal that failed is announced as done
(`accounts/page.tsx:195`); a third plain error shortens the cooldown of an hour after a quota error to a minute
(`pool/account.go:216`); `UpdateAccount` writes to an index looked up before an unlocked replacement of the list
(`config/config.go:253`); a usage query that lifts a ban writes the `Enabled` of its copy (`proxy/kiro_api.go:227`); a
request changes fields of an account through its pointer into the pool without the lock (`proxy/handler.go:2129`).

## 4. Proofs

TLAPS proves 43 theorems and 490 lemmas, for every value of the constants that satisfies the modules' named assumptions:
any number of accounts, requests, sessions, callers, operations, commands, and texts of any length. Every invariant
and action property a passing run checks is proved, and so is the refinement of `PoolContract`; TLC adds what only
runs can say (liveness) and shows that the premises of the conditional ones do occur.

Assumptions. Those of the gateway are `SentinelAssumption` (a marker is no value), `PoolAssumption`,
`OrderAssumption` (the configuration lists every account once: ids are generated and the import skips those it knows; an
id given to `POST /accounts` is not looked up by the code, and such duplicates are outside the model),
`FailoverAssumption`, `StoreAssumption`, `TunnelAssumption`. Each page names its own (`ChatAssumption`,
`MessageAssumption`, ...): types of its constants and that the value for "nothing" is none of the values;
`SetupAssumption` and `DashboardAssumption` assume them of the instances. TLC evaluates all of them in the runs.

How the invariants are found is always the same: what the property says of now is true because of something still
under way, or something that can no longer happen, and the strengthening says what. In most cases it
was checked by TLC on a small instance before it was proved.

### The gateway

**AccountPool_proofs**
- `TypeCorrect`: `[]TypeOK`.
- `ThreeFailuresCool`, `CooldownsAreCapped`: inductive with `TypeOK` alone. The first needs `now + Minute > 0`, the
  second that `now` never goes back.
- `AnswersAreAllowed`: `[]AnswerAllowed`. The invariant is not inductive. Its strengthening, proved for each
  action, says that (1) a reload is alone: while one is in progress no selection is, because it holds the write
  lock; hence slots, model lists and cooldowns are what they were when a selection began; and (2) a finished
  selection's answer is one of the `Choices` of the present pool. `Draw` establishes (2) because the slot it
  stops at fits and is out of cooldown, `Fallback` because the first open slot, or the first of those that end
  earliest, is the best of the slots considered. That nil is returned only when nothing is eligible follows from the
  second pass alone, which is why other callers' draws cannot spoil the answer.
- `PoolImplementsContract`: `Spec => Contract!Spec`. Initial states map to initial states; `Begin` maps to
  `Request`, the final `Draw` and `Fallback` to `Answer`, `Return` to `Deliver`, `ReloadCommit`, `SetModelList` and
  the `Record...` actions to `Rewrite` (allowed because `LockFree` means every caller is idle), edits of the
  switch and the clock to `Outside`, the rest to stutters.
- `OverageIsBounded`: `[]OverageShare`, and `CountIsEnough`: `[]CountCoversMembers`. Both are about what `Reload` appends, one
  account at a time. `Filled(seq, c, allow, S)` says that `seq` holds for every account of `S` as many copies as
  `SlotCount` gives, and nothing else; `SlotsInv` says it of the slots under construction for the accounts before `k` in
  `Order`, and of the slots in use for some configuration and some set of accounts. `AppendFills` is the step; it is here that
  an account listed twice would break the bound (`OrderAssumption`).

**Failover_proofs** - `IInv` gives four theorems: `TypeCorrect` (`[]TypeOK`), `OutputOfOneAccount` (`[]OneSource`),
`NoAccountLeftOut` (`[]GivesUpLast`) and `ReloadsConverge` (`[]PoolFollowsConfig`). `IInv` says `Good` of every request:
- `Sound`: what was streamed came from the account of the request, and a request that looks for an account has
  streamed nothing; so `Settled`, which alone lets go of an account, does it only before any output.
- `Counted`: the number of accounts tried is the number of attempts (one more during an attempt), because a
  selection excludes the accounts tried.
- `Watched`: while the request is `calm`, the accounts tried, its own and all that are enabled lie in one set no larger than
  its budget. So when the attempts are used up the accounts tried are that whole set, by cardinality;
  and when the pool answers nil, `Picked` (from the definition of `Choices`) says that every account with slots was
  tried. Either way `steady`, which is part of the slots, was. A reload keeps `Watched` because it ends `calm` as soon as an
  account joins.

`PoolFollowsConfig` is inductive with the types: who writes the configuration is then at a place from which only
a reload leads away.

**Tunnel_proofs**
- `TypeCorrect`, which includes that each status determines what the report may hold.
- `StartingEnds`: `[]StartingIsTemporary`, inductive with `TypeOK`.
- `ProcessNotLost`: `[]NoOrphan`, with the strengthening that only named starts are ever in "create"; so while
  `Undisturbed` no action but `StartQuick` makes a process, and that one needs `tunnelCmd = None`.
- `RunningIsKept`: the action property `StaysRunning`, from the same invariant.

**AccountStore_proofs**
- `TypeCorrect`: `[]TypeOK`, which says that the place of an account never holds part of a record. It is proved
  together with the next one, since what is written back is somebody's earlier copy.
- `MembersAreKept`: `[]Membership`, for any set of accounts and any number of concurrent sessions. `IInv` adds
  `Sound` for every session: the copy an operation will write back is a whole record, taken from an account that
  was there; the pool holds the record behind a request's live pointer until `Reload` detaches it; only a session
  of kind "remove" reaches `Replace`, and only one of kind "delete" reaches `DeleteAccount`. The writers of records
  and of tokens look the account up again under the lock, so with `Sound` they neither add nor drop one.
- `TokenIsKept`: `[]TokenKept`. `Kinded` fixes which kind of session is at which place, and that a kind never changes, so that
  the premise "only such operations ran" carries over to every step. `TokenInv` then says: no record and no copy has a
  token newer than the last one issued (`NoneAhead`); the last one issued is in the store, or in the hands of one
  session about to write it, while nobody else has it (`OneGrant`, `UpToDate`). The refresh of a copy that is behind is
  refused, because the identity provider takes each refresh token once; hence two sessions cannot both have a grant.
- `PoolGetsToken`: `[]PoolHasToken`. `PoolInv` adds that a session that has refreshed an account and not yet brought the token
  to the pool is the only one (`OneRefresh`: who asks for a token was given one that had lapsed, and one lapses
  only after it was stored), and that but for it pool and store have the same token (`PoolUpToDate`).
- `PoolCatchesUp`: `[]PoolFollowsStore`. `FInv`: store and pool agree, or some session has still to reload (`Dirty`). Every
  step either leaves who is enabled and banned alone, or keeps its own session dirty, or is the reload.

### The dashboard

Every theorem about a page is one about `Dashboard!Spec`. `ChatOrOther`, `MessageOrOther` and `TableOrOther` show that the page
picked never changes and that every step is one of that page, so that a behaviour of the dashboard is one of the page
or never shows it; for the other pages the argument is the invariant "if the page is this one, its `Inv` holds".
The invariants named `Inv` are in the modules of the pages, after their properties.

- Chat: `ChatShowsStorage`, `ChatProgressEnds`, `ChatTitledOnce`, `ChatSavesOnce`. An exchange has a number no later one gets
  (`Numbered`), one stream at most (`OneStream`) and all its messages in one session (`OwnSession`); while its stream is alive its
  reply is empty in storage (`Unwritten`). So the end of a stream writes the text of a reply that has none, which is
  `SavesOnce`. `TitledInv`: a session stored as "New Chat" was never asked for its title, or is `untitled`, and so is a session
  that is listed without being stored. `OnScreen`: the screen has every message that is stored of its session (`Covers`),
  with its text or before it had one, and is the list in storage unless `unsaved`; that a stored reply may be behind
  the one on screen, but never ahead of it, is what `Unwritten` and `OneText` are needed for when a write fails.
- Message: `HighlightsAreSound`, `MessagesAreStable`. The first half of the proof is about the parser: a text with more behind
  it has the same parts, but for what the last of them becomes (`Continues`, `Becomes`), and an open block that stays open has
  more code; this needs that the first fence, line end or closing fence found from the cursor on stays the first. The
  second half is the invariant `ViewInv`: what is shown, what is in the highlighter and what waits are beginnings of the
  code (`Covered`), and the one that comes last is all of it unless the timer runs (`InTime`). With the types, that
  none of the waiting texts is empty, and `ClosedIsCode`, this is inductive.
- Accounts: `AccountsAreCurrent`, `AccountsAreReleased`. As long as no list overtook another, either a handler is due to ask for
  the list, or the newest list on its way was not served yet or is what the server has, or what is shown is that
  (`ListFollows`); the same of the cards (`CardsFollow`). `BusyHasTask` is inductive.
- Usage records: `UsageIsAccounted`. The property says nothing of contexts. `RecInv` adds `RecOnce` (no request has two
  records in the log or two pending; one that is in both is in a context already stored, which is only cleared), `RecPlaced`
  (where a request is determines which accounts it holds and whether it has a context), `RecApart` (the accounts of a
  request that met nobody are used by no other) and `RecAllOwn` (the context of such a request is found under its
  accounts only, and its record is pending or stored). `RecApart` is what makes looking contexts up by account harmless.
- Usage and logs: `SelectionIsShown`. For a slot whose answers came in order, the newest request is under way and asks for what is
  selected, or its answer is shown (`Answers`).
- Playground: `AnswersAreShown`. What is displayed and what was passed over are together what was received, at every stage of
  the call.
- Settings: `SettingsAreShown`. As long as all goes well, an answer was overtaken, or a fetch is still to be served, or the newest
  answer about each setting brings what the server has and a setting without an answer under way shows it (`Orderly`).
- Logins: `LoginsAreSound`. A session is redeemed for one request at a time, which is answered when its account was added
  (`RedeemedOnce`), so a "completed" cannot be that of a login whose account is still to come; `ListComes` is the
  argument of the accounts page for the list of connections.
- Proxies: `ProxiesAreSound`. Members of the pool have one URL each and are dead at the threshold, in memory and in the
  file; one that is marked is in a check under way. The rows agree but for one request, or checks of different proxies,
  under way (`Orderly`), or the answer that will make the page unsure of its rows is there (`Doomed`). Of the scraper:
  one goroutine for each job, and all but that of the current job are cancelled (`OnePerJob`); the goroutine of the
  current job has counted what it has not left (`Counted`).
- Integrations: `IntegrationsAreSound`. Of the requests for a configuration only that of the panel is not cancelled
  (`AskedIsChosen`); a card has seen the last models there were (`ModelsAreSeen`); the binding of the page is the one under
  way (`BindingIsUnderWay`).

Two definitions changed because a proof failed. `RowsAgree` held in TLC with three requests and was false with four, when
more requests follow a check whose one failure the page took for death; it now excepts a page that did. And a failed request of the integrations page had been modelled as cancelling every request for a
configuration, which the code does only when the error takes the place of the panel. `IntegrationPageAssumption` asks
that no tool is the one that stands for none.

### How some of it is proved

`tlapm` cannot use the induction theorems of its library, which take an operator as a parameter. Where an argument
is by induction over data, the proofs reason with a least element instead: that the natural numbers are well founded
(`NatLessThanWellFounded`, `WFMin`) gives the least number of a non-empty set. In `ChatPage_proofs`, `Downward` makes of it
induction over a set of numbers from above, from which follow that the recursive function of `parseIntoParts` exists and
what it returns. The parser is a recursive function and no `RECURSIVE` operator for that reason.

In `SetupPages_proofs` and `Dashboard_proofs` the variables are `v1` to `v21`: an `Inv` of a page is taken through the
instance, and what a call or a row must be is stated in predicates with parameters (`ProxyCall`, `SetTask`, ...), whose
lemmas say that each action keeps it.

### Only model-checked

Everything about liveness: `RoundRobin`, `EveryRequestEnds` and `StartsReturn`. They need fairness and `ENABLED`, which is
beyond the prover. The five violated properties are counterexamples of TLC and hold nowhere.

## 5. Plan

Written: `Selection`, `PoolContract`, `AccountPool`, `Failover`, `Tunnel`, `AccountStore`, and the dashboard with the server's
proxy pool, scraper, usage records and login sessions, each with its proofs. Left, with the properties each would be
for:

1. `AccountPool`: `UpdateStats` and its out-of-order writes.
2. `KiroClient` with the stream handlers: endpoints, attempts, fallback; output at most once before a retry.
   Its abstract specification is the one-step call `Failover` uses.
3. `ConfigFile`: `Save` in place, unlocked saves, a crash in the middle, the positions behind `UpdateAccount`.
4. `PromptCache` and the global statistics: longest cached prefix, the reset that races the save.

### Not modelled

Translation between message formats and the content filter (pure data, no state); what the integrations write
into the files of other tools, logging, static files and start-up (I/O); exporting and importing files. Of the
dashboard: `components/animate-ui` and `components/ui` (library code), layout, theme and animation, sign-in and the list of
its sessions, charts drawn from an answer, privacy mode, the choice of a model in the chat, renaming and
searching chats, and connecting in batches, which the page's buttons never
start (they show a notice) and the server refuses. The built copy of the dashboard
(`out/`) is generated.
