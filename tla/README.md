# Verification of Ultron-AP

Ultron-AP is a self-hosted monitoring panel: one Go process that samples the
machine, polls the Docker daemon and systemd, evaluates alert rules into a SQLite
file, and serves a dashboard with a live stream over HTTP. This directory holds
TLA+ specifications of its concurrent parts, the configurations with which TLC
checks them, and proofs for TLAPS. File and line numbers are those of the commit
this directory lives beside; `PROJECT.json` maps every definition to its lines.

## 1. The system

### Components

| Component | Code | State | Operations |
|---|---|---|---|
| Alert engine | `internal/alerts/engine.go` | `cooldowns`, `prevDocker`, `prevSystemd`, `recentAlerts` | `Start`, `Stop`, `RecentAlerts`; its loop: `evaluate`, `evaluateMetricRule`, `evaluateDockerChanges`, `evaluateSystemdChanges` |
| Alert store | `internal/database/alerts.go`, `sqlite.go` | tables `AlertConfig`, `Alert` | create, list, toggle, delete rules; create and list alerts; seeding of the defaults |
| Settings page | `internal/server/handlers_settings.go`, `render.go`, `internal/database/notifications.go` | table `NotificationConfig`; each tab of a browser has a page of its own | `handleSettings`; `handleAlertRuleCreate`, `Toggle`, `Delete`; `handleNotificationSave`; `validateCSRF` |
| Metrics history | `internal/metrics/ringbuffer.go` | `data`, `writeIdx`, `count`, an RWMutex | `Add`, `Latest`, `History`, `All` |
| Collector | `internal/metrics/collector.go` | the ring | `Start`, `Stop`, `Latest`, `History`; its loop: `collect` |
| Metrics reader | `internal/metrics/reader.go` | previous network counters | `Read` |
| Sign-in | `internal/auth/bruteforce.go`, `internal/server/handlers_auth.go`, `middleware.go` | failures by address, in memory | login, logout, `requireAuth` |
| Sessions and users | `internal/database/auth.go`, `internal/auth/csrf.go` | tables `Session`, `User` | create, get and delete a session; create and get a user; tokens |
| Live dashboard | `internal/server/sse.go` | the broker's clients, a channel of 8 payloads each | `handleSSE`, `startSSEBroadcast`, `addClient`, `removeClient`, `broadcast` |
| Docker monitor | `internal/docker/` | `client`, `available`, `containers` | `Start`, `Stop`, `Available`, `Containers`, `ContainerDetail`; its loop: `refresh` |
| Systemd monitor | `internal/systemd/` | `available`, `services` | `Start`, `Stop`, `Available`, `Services`, `Failed`; its loop: `refresh`; the parser of `systemctl` |
| Process | `cmd/ultron-ap/main.go`, `internal/server/server.go` | what is started, what is deferred | start-up, first account, signal, shutdown |
| Configuration | `internal/config/config.go` | none | `Load`, once |
| Other pages | `internal/server/handlers.go`, `web/` | none | rendering |

### How they interact

`main` starts four goroutines (collector, two monitors, engine), and the server
starts one that broadcasts and one per connection.

* The collector and the monitors each fill a cache under a mutex. The engine and
  the handlers read these caches, field by field: `Available()` and `Containers()`,
  or `Latest()` and `History()`, are two critical sections.
* The engine and the handlers share the database; the engine copies the enabled
  rules when an evaluation starts, the handlers change them meanwhile.
* The tabs of the settings page show copies of both tables, taken with one query
  each, and write back: a rule by a click, a channel's row by its whole form. The
  answer to a click is a new table of rules for that tab only.
* The broadcaster's payload goes through a text protocol of lines to the browser,
  which takes it apart again.
* Login requests share the failure counter, and a browser's requests its session.
* The broadcaster sends on the channels that the handlers of the streams create,
  drain and close.
* `main` stops everything in the reverse order of the starts, if it gets there.

### What is hard

* **Interleaving and atomicity.** Evaluations against edits of the rules; the two
  reads of a cache; the check of the lock and the recording of a failure, a bcrypt
  apart; a client that leaves during a broadcast; `ContainerDetail`, which reads
  the client twice and never under the mutex.
* **Partial failure.** Any query can fail, and the code does something different
  each time: the cooldown is set before the insertion, the counter is reset before
  the session is created, the deletion of a session is not looked at.
* **Crashes.** Cooldowns, previous states and failures live in memory, rules,
  alerts, sessions and the browsers' cookies do not.
* **Limits.** Channels that fill, a ring that wraps, a list of 50 alerts, a window,
  a cooldown and a mask at their boundary, a counter that wraps or goes back, a
  number too large for its unit, a chart of one point.
* **Stale copies.** A tab that shows what another has changed; a form saved over a
  row that was replaced, or could not be read; a listing left from before the
  daemon was lost.
* **Waiting.** A read lock taken twice, a list call and a command without a timeout,
  a stream without a write timeout, a shutdown with an open stream.

### What makes each part correct

| Part | Properties |
|---|---|
| Engine and store | two alerts of a key are its cooldown apart; an outage has one alert and, outside a cooldown, has it; nothing is silenced without an alert; an edited rule cannot keep firing; a breach that lasts is reported; the table only grows; the cache catches up |
| Ring | every history is made of the last snapshots, whole and in order; calls return, those of `All` excepted |
| Reader and partials | a rate is what the link carried, unless its counter went back; an error in one partial is neither for good nor the others'; the chart holds the newest loads and ends with the gauge's |
| Settings page | the mask shows no secret and is never stored as one; a form nobody touched changes nothing but the secret; the table that answers a click tells it |
| Sign-in | the number of guesses per window is bounded; no handler is reached after the end of a session; a cookie names a session; a lock ends |
| Dashboard | no send on a closed channel; pages catch up though payloads are dropped; charts and gauges fit |
| Monitors | what they list was so, and is never older than before; it catches up once the daemon, or `systemctl`, works for good; flag and client agree; requests survive the daemon's absence; both `Stop`s return |
| Process | nothing is used before it is started or after it is stopped; a signal ends it |

## 2. The modules

`X` `EXTENDS` or instantiates what is right of the arrow.

```
MCAlertEngine -> AlertEngine -> AlertLog (abstract)      AlertEngine_proofs -> AlertEngine
MCTelemetry -> Telemetry -> RingBuffer, SseStream        Telemetry_proofs -> Telemetry
RingBuffer -> SnapshotWindow (abstract)
MCRingLock -> RingLock -> RingBuffer                     RingLock_proofs -> RingLock
MCAuth -> Auth                                           Auth_proofs -> Auth
Dashboard                                                Dashboard_proofs -> Dashboard
MCMonitors -> Monitors -> DockerMonitor, SystemctlParser, SystemdMonitor
DockerMonitor, SystemdMonitor -> MonitorFeed (abstract)  Monitors_proofs -> Monitors
Lifecycle                                                Lifecycle_proofs -> Lifecycle
MCSettings -> Settings                                   Settings_proofs -> Settings
```

**AlertEngine** composes the engine with the tables, the rule handlers, the
caches it polls and the lives of the process. Each database call and each cache
read of the one engine goroutine is an action (`LoadConfigs`, `ReadSnapshot`,
`CheckRule`, `InsertAlert`, `CheckAvailable`, `TakeListing`, `CheckUnit`,
`EndPass`, `Refresh`), because handlers (`CreateRule`, `ToggleRule`,
`DeleteRule`), collector and monitors (`Collect`, `RefreshOk`, `RefreshFails`,
`Reconnect`) run in between; a call that may fail has a second action that fails.
`Crash` keeps the tables only; `Restart`, `SeedCheck`, `SeedInsert` and
`SeedDone` are the next life up to the server's first answer. A rule's metric,
operator and threshold are one *condition*, a snapshot is the set of conditions
that hold in it, and an alert's text is left out. Go's iteration over the listing
is any order here, as monitors may return any.

**AlertLog** is what the Alert table promises: an append-only log of decisions,
spaced by the cooldowns within a life. `AlertEngine` implements it
(`ImplementsLog`) with `log <- Decisions`, the rows without their payload.

**RingBuffer** is the ring with atomic methods; `History` and `All` are its pure
functions over `data`, `writeIdx` and `count`, translated with their index
arithmetic. **SnapshotWindow** is its abstract specification: a queue that drops
its oldest element; the ring implements it with `window <- All`.

**RingLock** runs the same methods one statement at a time under a model of
`sync.RWMutex` (a writer announces itself, then waits for the readers; a new
reader waits for an announced writer). Its `AddsAreAtomic` states that what the
writers leave behind is a behaviour of `RingBuffer`.

**Auth** has one slot per request in flight. `CheckLock`, `Lookup`, `Refuse`,
`Accept` and `SignIn` are the steps of a login between which others run (bcrypt
lies between `Lookup` and the two outcomes); `Authenticate`, `PurgeSession`,
`CheckForm`, `Write` and `Logout` those of a protected request. Time is kept as
ages, saturated past every comparison, so that the clock needs no bound.

**Dashboard** is the broker, the broadcaster and one handler per client. A payload
is the pair of samples its two reads of the collector found.

**SseStream** is the framing of a payload, `writeSSEEvent` and `buildSSEPayload`, and
the browser's reading of it, as functions over sequences of lines: a rendered
partial is its lines, of which only the empty ones matter to the protocol.

**Telemetry** composes the reader, the ring and the partials. The machine counts
the bytes of an interface modulo the width of a counter (`Tick`), resets it,
removes it and adds it again (`Reset`, `Return`); a collection (`ReadCounter`, or
`ReadNoCounter` when the listing fails or lacks the interface) computes the rate
from the counter it remembers and adds the snapshot; `CardsRender`, `Chart` and
`Rendered` are what the payload of that moment is made of. `sent` and `back` keep
the truth to compare with.

**MonitorFeed** is what a monitor promises to those who poll it: a flag and a
listing that is never made up and never goes back; the flag may rise over an old
listing. It is the environment that `AlertEngine` assumes in `RefreshOk`,
`RefreshFails` and `Reconnect`, and both monitors implement it.

**DockerMonitor** is the refresh with its reconnection, `Stop`, and
`ContainerDetail` against a daemon that goes, comes back and hangs. `client` is an
interface of two words, so its store has a state in the middle that only the
unguarded readers see.

**SystemdMonitor** is the other monitor, whose one call, `systemctl`, has no timeout
of its own: only the context that `Stop` cancels ends it. **SystemctlParser** is
that call's output, with header, legend and count, and `parseListUnits` over it, a
line being its words. **Monitors** puts the two monitors side by side as `main`
does, the systemd monitor listing what the parser makes of each state of the
units; the deferred calls stop it first.

**Settings** has the tables of rules and channels, the tabs that show them, and the
requests being answered, one query at a time: between two queries, or a click and
the table that answers it, other tabs write. A form has a secret, its mask (the
placeholder of `settings.html:75`), a text and a box. `Read` and `ShowPage` go on
without what they could not read, as the handlers do; a click whose answer nobody
waits for is `Click` with no request. `SignIn` replaces the session, after which
the tabs that were open carry a token that is no longer valid.

**Lifecycle** is one life of the process, with the stack of deferred calls, the
goroutines as busy or not, the server with its requests and every way to end:
exit 0, `log.Fatal`, a signal before `signal.Notify`.

Operators named as variants ("for the mutation runs") are plausible wrong versions
of the definition below them. No specification uses them: each replaces the
definition it is a variant of to see that a property notices.

## 3. The runs

Where a property holds by a run, a variant of the code that breaks it is recorded
with it in `PROJECT.json`. Sizes are distinct states.

| Run | Module | Shows |
|---|---|---|
| `alert_rules` (303,000) | AlertEngine | Against creations, toggles and deletions at every point of an evaluation, a failing query and a crash: `CooldownRespected`; `LateFiringBounded` (a disabled rule fires at most once more, from the copy); `NoSilenceWithoutAlert`; `RowsNameTheirRule` (an id in an alert never comes to mean another rule, thanks to AUTOINCREMENT); `RecentsComplete`; `ImplementsLog`; and, under fairness, `AlertsReachTheCache` and `LastingBreachIsReported` (a breach that lasts gets its row, through failed queries, a failed insertion that left the key silenced, toggles and a crash) |
| `alert_units` (1,100,000) | AlertEngine | A container and a service, listings that lack a unit, are stale, or are published between the flag and the list, and a crash: `OneAlertPerOutage`, `OutageCovered` |
| `telemetry` (185,000) | Telemetry | `RatesAreTrue` through the wrap of a counter, failing readings and listings without the interface; `CardsComeBack`: cards emptied time and again need a counter that goes back time and again; `ChartShowsTheNewest`: from the first sample on, the newest loads in order, up to the gauge's; `HistoriesAreWritten` and `ImplementsWindow` through every filling and wrap of the ring; `EventsKeepStep`: with any partial failing, a payload is taken apart into its four events |
| `ring_lock` (30,000) | RingLock | `ReadsAreWhole` and `AddsAreAtomic` with two adders and a reader of `History` and `All`; `OnlyAllBlocks`: every call returns, unless the ring ends in the deadlock of `All`'s two read locks with a writer in between |
| `auth` (71,000) | Auth | `OvershootBounded`, `NothingAfterTheEnd`, `CookieNamesASession`, `LockEnds`, with restarts, expiry and a failing query |
| `dashboard` (1,370,000) | Dashboard | `NoSendOnClosed`, `OnlyEarlyPayloadsGoBack`, and `PagesCatchUp` although a payload for a full channel is dropped and the other client may stall for ever |
| `monitors` (119,000) | Monitors | `FlagMeansClient`, `PanicsOnlyInARace`, `ContainersAreAFeed`, `ServicesAreAFeed`; and, under fairness, `PicksUpTheDaemon`, `ServicesCatchUp`, `StopsEnd`, each monitor whatever happens to the other |
| `lifecycle` (5,000) | Lifecycle | `UsersFindLiveParts`, `ExitIsClean`, `SignalEndsTheProcess` |
| `settings` (1,330,000) | Settings | `MaskNeverStored`, `SecretsStayMasked`, `TablesTellTheirClick`, `FreshSavesKeepTheRest`, with two tabs, a second login and a failing query |

Three runs are there to show a disagreement between the code and a text beside it;
TLC finds the counterexample.

| Run | The text | The behaviour |
|---|---|---|
| `claim_seed` | alerts.go:212 "inserts default alert rules if none exist" | The process dies between two of the four inserts; the next start finds one rule and adds no other, ever (`DefaultsSeeded`) |
| `claim_graceful` | US0001-project-scaffolding.md:116 "Graceful shutdown: close DB, drain connections, exit 0" | With a dashboard open, `Shutdown` waits for a stream nothing ends, gives up after ten seconds, and `log.Fatalf` skips every deferred call (`GracefulShutdown`) |
| `claim_live` | US0007-dashboard-view.md:53 "the dashboard updates automatically via SSE without page reload" | Every partial begins with the line feed after its `define`, and `writeSSEEvent` (sse.go:157) puts the whole text after one `data: `: the browser hands htmx the empty first line and drops the rest, so each section is emptied (`EventsCarryThePartials`) |

### Bounds

* `alert_rules`: two rules of one condition, a cooldown of a tick, a clock of two
  instants, 2 alerts, 2 lives, 1 fault: an id to reuse, and two triggers of a key
  with a crash, a disabling or a failure between them. At the last instant a key may
  be left cooling down, which `LastingBreachIsReported` exempts; at the first it is not. The properties are about
  one key, or, in the cache, about one list: more rules only add evaluations in
  between.
* `alert_units`: one unit of each source, up or down or missing; cooldown 1 over
  a clock of 2 instants, so that an outage can fall inside the cooldown and
  outside it. Units of one source do not interact: each has its own key.
* `telemetry`: a ring of 3 with a chart of 2 points, so that a history is cut and
  the ring wraps; counters that go round at 5, a unit of 2 with one name past it,
  so that a true rate has a unit and a wrapped one has none; readings 2 ticks
  apart at most. The theorems are for every capacity, width and unit.
* `ring_lock`: 2 slots, two writers and a reader; histories shorter and longer
  than the ring. The theorems are for all.
* `auth`: a limit of 2 with 2 requests in flight exceeds it; 2 browsers and 2
  tokens let sessions be taken for each other. The theorems are for all.
* `dashboard`: channels of 2 and a single new sample: a channel with an old and a
  new payload, and a full one.
* `monitors`: one change of the containers and one of the services, whose second
  state has a failed unit and one without a description; one request, any number
  of outages. The theorems are for all.
* `settings`: one request at a time is answered in steps, since the properties
  speak of a request and the tables, and the other tab writes in between all the
  same, as clicks and saves whose answers are lost; a secret of four characters,
  the boundary of the mask. The theorems are for every number of tabs, requests,
  channels and secrets.
* `lifecycle`: 2 requests; the rest of the process is of its real size.

### Fairness

* *Goroutines run* (`WF` on an engine step, a handler step, the broadcaster, the
  monitor's work): Go's scheduler is preemptive and none of these waits on another
  part without a bound, except where the model says so: a listing of a hung
  daemon or a hung `systemctl`, a write to a stalled client, a lock.
* *Tickers fire* (`WF` on `Tick`, on the start of an evaluation, and on `Collect`).
* *systemd restarts the process* (`WF` on `Restart`): `Restart=on-failure` in
  `deploy/ultron-ap.service:11`; lives are bounded, so crashes end.
* *Locks are handed on* (`SF` in `RingLock`): Go's mutex goes to starvation mode
  and admits its oldest waiter. Nobody is obliged to call.
* *A select takes each of two ready cases at last* (`SF` on `Leave` and `Quit`):
  Go chooses among ready cases at random, and the code asks again at every tick.
* Nothing is assumed of administrators, browsers, clients of a stream, the Docker
  daemon, `systemctl`, network interfaces or the faults of the database. The
  properties on settings are safety properties.
* `lifecycle`, `claim_graceful` and `ring_lock` do not check for deadlock: the
  process ends in the first two, and in the last the wait of `All` is the subject.

## 4. The proofs

TLC checks small instances; the following hold for every value of the constants
that satisfies the modules' assumptions. Type correctness is proved and not run, and
so are `NoRequestBeforeTheAccount` and `ChartsKeepUp`: no configuration lists them.

| Theorem | Says |
|---|---|
| `AlertEngine_proofs!TypeCorrect`, `CooldownSafe`, `LogRefined` | type; `Spec => []CooldownRespected`; the tables refine the log |
| `AlertsNameTheirRule`, `LateFiring`, `SilenceHasAnAlert` there | the id of an alert means one rule for ever; a disabled rule fires at most once more; nothing but an alert silences a key |
| `OneAlertForAnOutage`, `OutagesCovered`, `RecentsAreComplete` there | an outage has at most one alert; it has one, or is within a cooldown; the cache misses only what others displace |
| `RingLock_proofs!MutexExcludes`, `ReadersSeeWholeRings`, `AddsAtomic` | the lock excludes; a history read under it is of one ring; its statements refine the ring with atomic methods |
| `Telemetry_proofs!TypeCorrect`, `ReadersSeeSnapshots`, `RingIsWindow` | of the ring: type; no reader sees an unwritten slot; it refines the window |
| `CollectorUsesTheRing`, `PagesSeeSnapshots`, `HistoryIsWindow` there | the collector keeps to the ring's specification, and so inherits these |
| `RatesTrue`, `ChartIsTrue` there | a rate is what the link carried and has a unit; the chart holds the newest loads, up to the gauge's |
| `FourEvents`, `StreamKeepsStep` there | of any four texts the browser reads four events and keeps nothing; the dashboard's payloads are such |
| `Auth_proofs!TypeCorrect`, `NothingServedAfterTheEnd`, `CookiesNameSessions`, `OvershootIsBounded` | type; the three safety properties of sign-in |
| `Dashboard_proofs!TypeCorrect`, `SendsOnOpenChannels`, `ChartsKeepUp`, `PagesGoForward` | type; no send on a closed channel; charts as new as the gauges beside them; after the first few payloads a page only goes forward |
| `Monitors_proofs!TypeCorrect`, `FlagTellsTheClient`, `OnlyRacesPanic`, `ListingIsAFeed` | of the Docker monitor: type; flag and client agree; only races panic; it refines the feed |
| `ParserReadsTheUnits`, `ServicesAreListed`, `SideBySide` there | the parser returns the units printed; the systemd monitor refines the feed; beside it the Docker monitor is what it is alone |
| `Settings_proofs!TypeCorrect`, `MasksStayOut`, `NoSecretOnAPage`, `FreshSavesAreHarmless`, `TablesAreCurrent` | type; a mask is never stored as a secret; no page carries one; a form as it was read changes nothing else; an answered click tells the table |
| `Lifecycle_proofs!TypeCorrect`, `NothingUsedOutOfTime`, `NoRequestBeforeTheAccount`, `ExitLeavesNothing` | type; the three safety properties of the process |

**Cooldowns.** `CooldownRespected` speaks of rows, the code of a map in memory, so
it is not inductive. `CooldownInv` adds: nothing is later than the clock and
nothing survives in memory while the process is down (`PastInv`); a row of this
life is not later than the map's entry for its key (`RowsInv`); the alert about to
be inserted has the time of its key's entry and may follow every row (`PendInv`).
A step that touches neither rows, map, pending alert nor life keeps it (`Quiet`);
deciding uses the test of the code, inserting uses `PendInv`. `LogRefined` then is
short: an insertion is `Record`, a restart is `NewLife`, the rest stutters. Type
correctness itself needs `LifeLeft`: a process that is down has a life left.

**Rules in alerts.** A row is written from a copy of its rule, so `RuleInv` says of
each station, the engine's copy, the alert about to be inserted, the row, that its
key names the rule as it is stored, or one that is gone and whose id is below the
next one. A late firing consumes the copy: `LateInv` has a rule that fired late
disabled, out of the copy, and its id never to be given again. What silences a key
is followed the same way from the map to the alert being inserted to its row.

**Outages.** `OneAlertPerOutage` needs to know when the previous states are those of
the last pass and when the pass is half done. `WellInv` says that a unit whose
previous state is up has been seen up since its last alert, or is one whose turn in
this pass is over; its turn comes once, since `PlaceInv` keeps `todo` to the units
of the source being walked, and `KindInv` keeps every state to those its source can
report. `AlarmIsAFall` is the fact about the state tests: what raises an alarm was
up before and is down now.

**The cache.** The query returns distinct rows, as many as there are or as the
limit, none older than one it leaves out. `MostRecentComplete` is the pigeonhole
that follows: a result shorter than the limit is as long as the table, so it is a
bijection and misses nothing.

**The ring.** `Filling` (while not full, `writeIdx = count`) and `Written` (slots
below `count` hold snapshots) make the type inductive and put every index of a
history on a written slot. For the refinement, `SlotBySlot` gives `All` without
the remainder, and `AddSlides` compares the two sides slot by slot, in the cases
of a part-filled ring, a full one, and the wrap.

**The lock.** `LockInv` ties the statement a goroutine is at to what it holds: the
one past its announcement is the owner, one that reads holds a read lock, and while
a writer is inside nobody holds one. `DataInv` then says what the ring is at each
statement of the writer: the ring as the last writer left it, `whole`, plus the
statements done so far (`Halfway`); a reader's slot and copy are computed from a
ring no writer is inside of, hence from `whole`. At its unlock a writer has done
one `Add` on `whole`, which is the step of the refinement.

**Rates.** `CounterInv`: since its last reading the counter, unless it went back,
moved by `sent` modulo its width, and `sent` is at most what the link carries in
that time. That is less than a round, so the wrapped difference of the code is
`sent` itself. That the rate has a unit is a fact about the loop of `formatBytes`:
its rounds number less than the names as long as the rate is below the product of
the units (`RoundsBelow`), by induction on the rounds.

**The chart.** `LastPointsOfAll` compares the last points of the last 720 with the
end of the whole ring; the chart's abscissae divide evenly at its end. How many points
there are is part of the lemma and not of the theorem.

**The stream.** `ParseLineByLine` turns the browser's recursion into a sequence of
states, one per line, by induction. `EventIsRead` takes one event through it: the
type and the data are set by its first two lines, then every line either is ignored
or dispatches, the first empty one with the event and later ones with nothing. The
lines of the four events stand one after the other (`FourJoined`), so four uses of
it give `FourEvents`. The texts are arbitrary; the data of an event is the first
line of its text, which is the finding of `claim_live`.

**Sessions.** A token in `over` was issued and its session is gone for good
(`Ended`), since tokens are fresh; a late request has passed no check and never
will (`Late`). Both cookies and late requests follow.

**The limit.** `OvershootBounded` is proved from `Within`: the failures of an
address and its passwords being compared sum to less than the limit plus the
slots. `CheckLock` admits below the limit only, and the requests being compared
are at most the slots; recording a failure moves one from one term to the other.

**The dashboard.** `Known` says that the broker knows exactly the clients whose
handler runs, with their channels open, and that the broadcaster's remaining list
lies within it: so no send meets a closed channel. `MadeInv` says of every payload,
wherever it waits, that its charts were read after its gauges and that nothing is
newer than the newest sample. `OrderInv` orders what a client has yet to see: its
queue is sorted, the broadcast under way is no older than the end of any queue,
and only payloads counted as early, made before the page was, may be older than
what the page shows.

**The Docker client.** The goroutine's place tells whether the client is nil, whole
or half stored (`Placed`). A request past its check while the client is not whole
is one that the store's first half marked (`Witnessed`): nothing else makes a
client less than whole.

**The feed.** What the Docker monitor publishes is what its last listing fetched,
which the daemon had once, and no listing is fetched that is older than the one
published: numbered by the changes of the containers, published is at most fetched,
which is at most the world's (`ListingIsAFeed`). The systemd monitor's argument has
the same shape (`SdInv`), with a state told by its listing: that needs the parser's
listing to be the units themselves, `ParserReadsTheUnits`, an induction over the
lines: after the header and n units the loop has kept those n, and nothing of the
legend is added to them.

**The settings page.** `TypeInv` adds `Filled` to the type: what a page being built
lacks is a query still to come. `Kept` relates every form to its row: while the
form is fresh, its text and box are the row's, and what stands in its mask is no
secret. With it `FreshSavesKeepTheRest` and `MaskNeverStored` follow step by step.
`SecretsStayMasked` needs a fact on sequences: the mask of a secret contains an
asterisk, which no secret does. `Listed` says that the table an answered click
will show was the rules' at some moment since the click, so that the answer tells
it.

**The process.** The stage of `main` tells the stack of deferred calls (`Shape`).
On the way up the stack tells what runs (`Ascent`); on the way down a goroutine is
gone if its `Stop` is no longer on the stack, and only the one on top may be ending
(`Descent`). The server is started when the stack is full (`Served`), so a handler,
and likewise a busy engine, means a full stack, and with it everything they use.
The lemmas on pushes and pops of the six stacks come first.

**Induction.** The theorems of the libraries on induction take an operator, which
the installed provers cannot instantiate. What is said here of recursive functions
(`UnitSize`, `Rounds`, `Parse`, `ParseListUnits`) rests on `FromZero`, the same
principle for a set: it follows from the least element of the complement, by the
well-foundedness of the naturals. Where a function is defined recursively, its
existence is proved first, for every length, and the definition's choice is then
one that satisfies the equations. No module uses a RECURSIVE operator.

The assumptions are named in the modules: bounds are naturals, units of the two
sources have different names and are no numbers (the code prefixes them), Nil is
none of the values, a container in error has exited (docker/models.go:53-67),
secrets contain no asterisk, a link is slower than the last unit's end and does not
carry a round of its counter between two readings (`TelemetryAssumption`), the
methods of the ring are three (`LockAssumption`). `UnitsAssumption` has units that
are services, a state of the units to tell from the others by its listing, and no
unit named or described in the words of systemctl's legend: such a unit the parser does
skip (parser.go:21).

Only model-checked: everything under fairness, since TLAPS does not reason about
`ENABLED`, that is `AlertsReachTheCache`, `LastingBreachIsReported`, `CardsComeBack`,
`OnlyAllBlocks`, `LockEnds`, `PagesCatchUp`, `PicksUpTheDaemon`,
`ServicesCatchUp`, `StopsEnd` and `SignalEndsTheProcess`. Every other property of a
passing run is a theorem.

## 5. What is not modelled

* The text of alerts, their severities, and the layout of the pages.
* Readings that are copied and nothing else: memory, disks, temperature. A
  container's CPU percentage (docker/monitor.go:282) is printed only.
* A cooldown that overflows the 64-bit Duration (engine.go:153): only at its true
  width, which no run can enumerate.
* Configuration parsing, random tokens, bcrypt.
* A unit whose name begins with `LOAD` (`LoadWords`), or that is described in the
  words of the legend: the parser takes it for the legend and loses it
  (parser.go:21). `Footer` says so, and `UnitsAssumption` leaves such units out.
* Of what `formatBytes` writes on the cards, memory and disks: 1024 TB of either
  would empty the cards as a wrapped rate does (sse.go:224).
* `Len` of the ring, which only reads the count under the lock.
* `UpdateAlertConfig`, `DeleteExpiredSessions`, `RecentAlerts` and `Failed`, and
  `ListNotificationConfigs`: no caller outside tests.
* In `Lifecycle`, the broadcaster: it has no way to stop, reads only the caches,
  and is cut off with the process.

Read off the code while modelling, and not part of a run:

* Alerts. `ListAlerts` orders by a time of one second's resolution and nothing else
  (alerts.go:125), so alerts of one second come in any order. A breach that lasts
  is reported again after every cooldown, where prd.md:241 asks for crossings only:
  no property says that it is; `LastingBreachIsReported` asks for one report. An
  alert whose insertion fails is not tried again (engine.go:168): a change of a
  container or a service is then never reported.
  Foreign keys are declared and not enabled (sqlite.go:39), so a deleted rule
  leaves its alerts behind. A container that turns unhealthy raises nothing
  (US0008-alert-engine.md:44). A service that fails again within the cooldown is
  never reported for that failure (US0008:49-50). Whoever deletes all rules gets
  the defaults back at the next start (PL0008-alert-engine.md:38 speaks of the
  first run).
* Sign-in. The lock is counted from the first failure (bruteforce.go:50;
  PL0002-authentication.md:20), a login past the check is accepted while its
  address gets locked (US0002:61), a failed deletion at the logout goes unnoticed
  (handlers_auth.go:135; US0002:72), and expired sessions that nobody presents
  stay (auth.go:109; PL0002:170). A restart unlocks every address (bruteforce.go:23;
  PL0002:48 accepts it), and a request in flight at a logout may still be served (middleware.go, then
  handlers_settings.go:247).
* Metrics. A reading that fails becomes a zero (reader.go:62), where
  US0004-system-metrics-collector.md:112 has the last known value. An interface
  that reappears has the rate of its whole absence, or a wrapped one
  (reader.go:129-132), where PL0004-system-metrics-collector.md:229 has 0 for the
  first reading. `All` takes its read lock twice (ringbuffer.go:69-72) and blocks
  for ever if a writer comes in between, the one exception of `OnlyAllBlocks`; only
  tests call it.
* Dashboard. Charts hold 120 points (sse.go:283), ten minutes of samples, where
  US0007-dashboard-view.md:47 says 60 minutes and sse.go:168 fetches them: no property
  fixes their number. The single point of a first sample is placed at 0/0 (sse.go:306). A stream stays open after its
  session ends (sse.go:104).
* Settings. A toggle inverts what is stored (alerts.go:195), so the clicks of two
  tabs cancel out. A channel that could not be read is shown as one that does not
  exist (handlers_settings.go:37), and a list that failed as a table without rules
  (handlers_settings.go:221). Saving a form with its secret left empty erases
  the stored one (handlers_settings.go:189-203).

## 6. Plan

Done, in order: AlertLog and AlertEngine; SnapshotWindow, RingBuffer, RingLock;
Auth; Dashboard; DockerMonitor; Lifecycle; SseStream and Telemetry; MonitorFeed,
SystemctlParser, SystemdMonitor and Monitors; Settings; the proofs of section 4.

Next: the cooldown of engine.go:153 at 64 bits, for which a proof is the tool and
not a run; a theorem that the environment `AlertEngine` assumes of its monitors is
what `MonitorFeed` promises; the safety halves of the liveness properties
(what a waiting goroutine waits for is held by one that is not waiting).
