# Stomatopod in TLA+

Stomatopod is a self-hosted web-analytics server in one process: HTTP beacons
come in, are batched, logged, buffered and written to Parquet files, and the
dashboard and an API query them.  This directory holds TLA+ modules of its
stateful parts, TLC runs that check them on small instances, and proofs, checked
by TLAPS, of theorems that hold for every instance.

Paths below are relative to `src/crates/`.

## 1. The system

| | Component | State | Operations | Talks to |
|-|-----------|-------|------------|----------|
| A | Event store: `store/src/embedded/{mod,writer,wal,wal_common,buffer}.rs` | mpsc channel of batches, `EventBuffer`, WAL segments (active, sealed, unreplayed), Parquet partitions | `ingest_events`, the writer's `select!` loop, `flush_buffer`, `write_partition`, `Wal::append/rotate/reclaim_sealed`, `open` with `replay_all` | B hands it batches; after each file it calls D |
| B | Ingest pipeline: `ingest/src/{handler,batch}.rs` | bounded channel of events, the batcher's buffer, the batch in flight | beacon handlers (`try_send`), `run_batcher` | HTTP in; A's `ingest_events` out |
| C | Credential caches: `api/src/state.rs`, `ingest/src/handler.rs`, `api/src/routes/{api,sites,api_keys}.rs` | `site_cache`, `api_key_cache`, the `sites` and `api_keys` rows | look up and fill; PATCH site and DELETE key, which write the row and evict | B's handlers and J read them; F holds the rows |
| D | Query registry and retention: `store/src/embedded/reader.rs`, `web/src/server/launch.rs` | the DataFusion table of each site, the `registered` set, partitions on disk | `ensure_site_registered`, `register_site`, `prune_before`, `reregister_site`, queries | the writer of A, the queries of E, the daily retention loop |
| E | Analytics queries: `reader.rs`, `core/src/query/*.rs`, `api/src/routes/analytics.rs` | none of their own | pageviews, top lists with trends, events, UTM reports, campaigns, funnels, entry and exit pages, exports | D |
| F | Metadata (SQLite): `store/src/embedded/meta.rs` | orgs, users, sites, keys, alerts and their fires, channels, funnels, digests, `schema_version` | migrations, create, update and delete of each | C, G, H, I, J |
| G | Analytics alerts: `alerts/src/analytics.rs` (sinks: `sinks.rs`, `ssrf.rs`) | fire records, alert and channel rows | one pass over the alerts per tick, cooldown, record, dispatch | E, F, HTTP out |
| H | Digests: `api/src/digest/mod.rs`, `api/src/routes/digest.rs`, `core/src/domain/digest.rs` | subscriptions with `bounce_count` and `enabled`, the interval's ticks | the hourly task, delivery, bounces, subscription handlers | E, F, the sinks of G |
| I | Accounts: `api/src/middleware/auth.rs`, `api/src/routes/{auth,api}.rs`, `web/src/server/launch.rs` | signed sessions with a password version, `login_failures`, the first org and owner | login, password change, `bootstrap_self_hosted` | F |
| J | The JSON API: `api/src/routes/{analytics,insights,api_keys,digest,sites}.rs` | none of its own; requests between their awaits | resolve the site of the path, check the credential, find the row, act | E, F |
| K | The dashboard: `web/src/ui/**` | per tab: the route, the card on screen, its resource, changes in flight, the refresh interval | load, change, navigate, auto-refresh | J over HTTP |

The landing site, beacon enrichment (user agent, geo, session hash), the
configuration checks, CORS, headers, OpenAPI, the CLI and the seeder keep no
state that outlives a call; they are listed in `PROJECT.json` and not modelled.

### What is hard, and what makes each part correct

* **A** - crashes between any two file operations of a flush, a reclaim or a
  replay; I/O errors that are only logged; a buffer at its cap; progress with no
  traffic.  Correct: a logged event is on disk or in Parquet; it is published;
  its rows are not duplicated without bound; the log empties.
* **B** - a slow or dead writer behind two bounded queues, partial batches, a
  closed channel.  Correct: each answered event is in one place and in order,
  memory is bounded, every event moves on, a closed channel is drained.
* **C** - a cache filled after an `await` that an eviction may overtake, two
  handlers writing the same row, a client that hangs up half way.  Correct: a
  revoked credential is refused, now and later.
* **D** - one fact kept in two places under two locks, changed by three kinds of
  actors.  Correct: the two agree, and a file that was renamed is queryable.
* **E** - reports that are separate SQL statements over rows with tied and
  unordered timestamps, some of them written twice; reports that read the table
  twice; three ways to narrow a list, each parsed and capped on its own.  Correct:
  the reports count the same sessions, and two ways of asking agree.
* **F** - operations of several statements outside a transaction, foreign keys,
  migrations that must run once.  Correct: an operation is never refused half
  way, a site gets its starter alerts, and deleted ones stay away.
* **G** - a pass that is slow, restarts half way, or works on a list the dashboard
  has changed since; fires that cannot be recorded; a clock that is set back.
  Correct: a cooldown between announcements, and no silence for good.
* **H** - a monotonic ticker that reads a wall clock; ticks made up for in a burst
  after a slow dispatch; restarts, stalls and failures within the due hour.
  Correct: one digest of a cadence per due hour, digests keep coming, a dead site
  is given up.
* **I** - counting that straddles a slow hash, logins and password changes that
  overlap, a crash in the first boot.  Correct: failures are bounded and a
  lock-out ends, a session follows the password, a server that answers has an
  owner.
* **J** - a domain resolved to a site, a check and an action with awaits between,
  while domains move and rows are made and deleted; two first PUTs at once.
  Correct: a key bound to a site reads and changes that site only.
* **K** - answers that are late, lost or overtaken; a route that changes under a
  card that is kept; refresh loops that outlive their interval.  Correct: a card
  at rest is fresh, a change alters what the user changed, live pages keep up.

`PROJECT.json` "hazards" names each of these at its line.

## 2. The modules

| Module | Models | Proofs |
|--------|--------|----------------|
| `EventStore` | A | `EventStoreProofs` |
| `DurableLog` | what A promises, abstractly | `EventStoreProofs` (that A implements it) |
| `IngestPipeline` | B, with A reduced to its channel | `IngestPipelineProofs` |
| `KeyCaches` | C | `CredentialsProofs` |
| `SiteRegistry` | D, with A reduced to the renames and E to when it touches the table | `SiteStoreProofs` |
| `QueryReports` | E, over the rows A and D leave in Parquet | `ReportingProofs` |
| `MetaStore` | F | `SiteStoreProofs` |
| `AlertEvaluator` | G, with E reduced to whether a metric is past its threshold | `AlertEvaluatorProofs` |
| `DigestScheduler` | H, with the sinks reduced to whether they accept | `ReportingProofs` |
| `Accounts` | I | `CredentialsProofs` |
| `SiteScope` | J, with E reduced to the sites an answer is about | `SiteScopeProofs` |
| `Dashboard` | K, with J reduced to a stored value for each site | `DashboardProofs` |
| `MC*` | the constants of the runs | - |

### EventStore

The writer task owns the buffer and the WAL once the server runs, so the state
is one program counter and the data it works on:

* `pc = "idle"` is the `select!` of `ParquetWriter::run` (writer.rs): `Receive`
  takes the recv branch, `Tick` the interval branch.  `"fit"` is the `while` that
  drains until the batch fits the hard cap (`FlushToFit`), then the append and
  push (`StoreBatch`); `"above"` is the threshold flush.
* `flush_buffer` runs from its drain (`DrainBuffer`) through one
  `WritePartition` per (site, date) in any order - the code iterates a
  `HashMap` - to `FinishFlush`, which reclaims the WAL when the buffer is empty.
  `ret` is the place it returns to.
* `Wal::reclaim_sealed` is one action per file operation: `DeleteSealed`,
  `RotateActive`, `DropActive`.  Sealed segments it has taken and not yet deleted
  are `doomed`; after an error they are files nobody tracks, `kept`.
* `Crash` turns every file into an `old` segment and clears memory; `Open`,
  `ReplaySegment`, `ReplayFails` and `StartWriter` are `EmbeddedBackend::open` with
  `replay_all`.
* A failing append (`AppendFails`) leaves nothing, a torn record, or the whole
  record with a failed rotation.  What follows a torn record in its segment is
  not read by a replay: `WithRecord` drops it.

A segment is abstracted to what a replay reads from it, a record to its events,
a Parquet partition to a number of rows per event.  Kept as in the code:
`Capacity` (4 x `FlushRows`), `Threshold` (nine tenths), the drain of at most
`FlushRows`, the batch larger than the capacity that is let through.

Actions merge what no other actor or crash can tell apart: the append and the
push run in the writer with nothing else to see them, and a crash between them
leaves the same files.  Everything that leaves a different disk is a step.

Left out: `fsync` (a process crash keeps the OS's pages), the Arrow conversion,
and two pieces of code that never run: the retry after a rejected push
(writer.rs 95-111; the `while` before it has made room) and the `else => break`
of the loop (writer.rs 123; `interval.tick()` is always a live branch, so the
task does not end when its channel closes).

`DurableLog` is the abstract store: each event is new, queued, durable, visible
or lost, and a crash loses the queued ones, all and only them.  `EventStore`
implements it through `StatusOf`, with working I/O and one crash: TLC checks it with
its fairness on an instance, and `StoreRefinesLog` proves the steps for all.

### IngestPipeline

`HandleIngest` is `handle_ingest_inner` and `handle_server_ingest` from the point
where the key is known (that part is KeyCaches): `try_send` accepts, is full
(429), or the request is filtered.  `Recv`, `Tick`, `Leave` and `FlushDone` are
the arms of `run_batcher`; while `FlushDone` is awaited (`phase` "send" or
"final") the loop polls nothing.  The store is its channel and whether the writer
task still holds the receiver; `WriterDies` is a panic in it, which nobody
watches.  Events are numbered by request.  `accepted`, `handed`, `lost` and `received`
are history variables: the events answered with 204, those of batches the store's
channel took or refused, and those the writer has received.

`DropSenders` is what tests and embedders of the crate do.  `launch.rs` serves
without graceful shutdown, so in production the process just ends: that is the
`Crash` of EventStore.

### KeyCaches

Every handler is cut where it awaits: `Miss` / `Lookup` / `Fill` for a request,
`ReadSite` or `BeginDelete` / `Write` / `Evict` for a dashboard handler.  The
PATCH handler writes back the whole row it read, so `Patched` carries the old
`is_active` when the body does not set it.  A handler whose client leaves is
dropped at its await, but the statement already given to `spawn_blocking` runs:
`"gone"`.  `revoked` is a history variable: keys whose row was dead at the eviction,
with no lookup about to insert the key (`Filling`) and no dashboard handler about to
write the row live (`Reviving`).  A key leaves it only when a body that asks for its
activation is written.

### SiteRegistry

One site (sites share nothing here), any number of queries, the writer and the
pruner.  `at[a]` is the place of an actor between two locks or awaits:
`probe`/`infer`/`add`/`mark` are `register_site`, `reread`/`plan` the rest of a
query, `touched`/`forget` the pruner.  `DropTable` and `Forget` are the two
halves of `reregister_site` that precede its `register_site`.  DataFusion is
external, used as the code uses it: `register_table` refuses a name that is taken
and a query of a missing table fails.  `clean` and `faulted` are history
variables that say when the guarantees below are off.

### QueryReports

A state is a set of rows, and a query an operator over it, clause by clause:
`Pageviews` and `Where` are the WHERE, `Visits` the GROUP BY session, `First` and
`Last` are `rn = 1` of a ROW_NUMBER, which picks one of several tied rows,
`Foremost` is ORDER BY ... DESC LIMIT with ties in any order.  The table changes as
the other components change it: `Flush` (one event at a time, with any timestamp,
since clients set them), `Replay` (a row a second time, which EventStore shows can
happen) and `Prune`.

A handler is the request it makes of the reader: `top_list_response`, `events`
(which takes an `event_name` filter for the name it is confined to), `utm` (whose
restrictions are appended to the filters and cut with them), `campaigns`,
`top_entry_pages`, `top_exit_pages`, `export_sessions`, `export_events`.
`parse_filters` drops what is malformed and cuts to `MAX_FILTERS`; a filter is a
column, an operator, and the set of values its text picks out; NULL satisfies none.
Filters are kept at the places they had in the request, so that dropping and cutting
are restrictions of a function.  `Total`, the sum behind every total, is the size of a
disjoint union: a definition without recursion, which the prover can reason about.
Two requests read the table twice and are two actions: `query_pageviews`
(`StartReport`, `FinishReport`) and a top list with trends (`StartList`,
`FinishList`), the second read of which ranks the values again and passes on the
filters and not the name.  Percentages are kept as counts, so nothing is rounded.
Left out: the CSV and JSON formats, the hour, week and month buckets.

### MetaStore

One connection behind a mutex: `job` is the operation that holds it, as the
statements it has `left`; `RunStatement` runs the next one, and each commits by
itself, since the code opens no transaction.  `create_site`, `delete_site` and the
`Migrations` of `open` are such lists; the seed of version 2 unfolds into the rows of
the sites that a query finds bare.  `StatementFails` (a refused statement, or an
error) and `Crash` fall between any two of them.  `Refused` is what SQLite refuses
under `foreign_keys=ON`, and the NOT NULL of the legacy column `channel_id`.  The
operations of one statement are actions of their own, and change nothing when
they are refused.  The initial states are a new database and those that older
builds leave behind: version 1 or 2, with or without `channel_id`, with alerts
that have fired.  `removed` and `exempt` are history variables: starter alerts a
user has deleted, and sites whose seeding was cut short or was never owed.

Left out: reads, and updates of one row that no key refers to, which the modules of
their callers have (KeyCaches for `is_active`, DigestScheduler for `bounce_count`,
AlertEvaluator for `enabled`).

### AlertEvaluator

`at` is the await of `process_alert` the evaluator is at: `Evaluate` ("measure"),
`CheckCooldown`, `Record`, `ListChannels`, one `Dispatch` per channel, in any
order; `Tick` lists the enabled alerts, once per pass.  Between them the handlers
of the dashboard run (`CreateAlert`, `SetEnabled`, `DeleteAlert`,
`ToggleChannel`), the metric moves, time passes and the server restarts.

Times are ages: `fired` is how long ago the last fire is dated, `lag` how long ago
the `now` of the pass was taken.  `InCooldown` compares the two as
`to_std().map(..).unwrap_or(false)` does: a fire dated after `now` is a negative
age and does not count.  Ages older than any cooldown are one value.  Between
passes `lag` is 0.  What a sink sends, and whether it is received, is left out:
a failure is logged and the next channel follows.

### DigestScheduler

`run_digest_scheduler` is `Tick`, `ListSubscriptions` for each due cadence,
`ListChannels`, `Send` and `RecordBounce` for each site.  `ticks` are those of the
tokio interval that are due and not taken, the first at once and missed ones made
up for; `hour` is the wall clock that a tick reads, a cycle of hours in which a
week and a month are whole numbers of days.  `HourPasses` lets a dispatch take up
to `MaxSlow` hours; `ClockStepsBack`, `ClockStepsForward`, `Stop` and `Start` do what
their names say.  `SiteSubs` is the list of deliveries: the oldest enabled
subscription of a site that wants the cadence.  A channel accepts or fails;
`SendPanics` is the slice of a long text at a byte inside a character (sinks.rs),
which kills the task.  `sent` and `behind` are history variables: digests of the
latest due hour, and hours the clock has been set back.  `mishaps` counts errors,
panics, stops, stalls and clock steps, and `edits` changes to subscriptions.  The
figures in a message are data.

### Accounts

`Boot` and `CreateOwner` are the two rows `bootstrap_self_hosted` stores, with errors
and crashes between; a boot that finds an organisation looks no further.  A login
is `LoginArrives` (the limiter is asked), `LoginLooksUp` (the row is read) and
`LoginVerifies` (the hash is computed, then the failure counted or the session
signed for the row that was read); a password change is `ChangeArrives`,
`ChangeReads`, `ChangeUpdates`.  `Limited`, `is_login_rate_limited`,
`record_login_failure` and `clear_login_failures` are the functions of auth.rs, on the
entry of one address.  A password is named by the number of the hash that was
stored for it; a session remembers, as a ghost, the password its holder has
`proved`, beside the `pwd_v` that is signed into it.  Sessions live in cookies and
outlive the process, the limiter does not.

### SiteScope

Each handler of the JSON API on sites and their rows is a record: whom it serves,
what its path may name a site by, the table it works on, and what it does there.
A request goes through `Arrive` (`require_api_auth`), `resolve_site_id`,
`resolve_authorized_site`, `Find` (the row it is asked about, or the checks before a
change) and one of the actions `Read`, `Create`, `Change`, `Put`, `Clear`, `CreateSite`,
`PatchSite`; each is what happens between two awaits.  `Finds` says, handler by
handler, what is looked for: `delete_key_api` looks for nothing, `delete_site_key_api`
accepts keys of the organisation.  `BreaksOff` is an error or a lost client at any
await.  An answer is abstracted to the sites of the rows it is about, `saw`.  A row that
is to be run (a funnel, a channel, a subscription) is read in `Find`, where `RowFor`
compares its site with that of the path, and is kept: it is run and answered even if it
is deleted before `Read`.

### Dashboard

A tab shows one card.  What the components differ in is a record (`Component`):
whether the resource follows the route (`reactive`) or keeps the site the card was
mounted for, whether a change carries every control (`whole`), and whether it makes
the resource load again (`reloads`) or leads elsewhere (`leaves`).  `get` is the
request of `use_resource`: started by `Reload`, answered in two steps
(`ServerReads`, `get_json`) so that a change can come between, dropped when the
resource restarts, or failed.  `writes` are the changes the tab has spawned: they
are applied and answered in any order, and outlive the page they were sent from.
`Navigate`, `with_query` and `HistoryJump` change the route; a jump in the history
between two sites' pages keeps the component.  `ChooseInterval` and `AutoRefresh` are
the loops with their generation: those of an earlier interval sleep on, and end when
they wake.
`behind` and `calm` are ghosts: the card missed a change that nothing will tell it
of, and a change was made at rest.

Left out: the cached list of sites behind page titles (`SITES_CACHE`), charts,
formatting, and which of several panels of a page is which: they do not share state.

## 3. What the runs check

| Run | Shows |
|-----|-------|
| `store_faults` | Two crashes and two I/O failures anywhere: a logged event is lost only through the three named gaps (`NoOtherGap`), never by the first restart with working I/O (`SurvivesOneCrash`), rows duplicate at most once per restart (`OneRowPerIncarnation`), and the one flush behind a push keeps the buffer below its threshold, but for a replay and a batch that can never fit (`BufferStaysLow`) |
| `store_live` | Working I/O, a batch larger than the capacity, one crash: each event has exactly one copy before the crash (`ExactlyOneCopy`), the store implements `DurableLog` with its liveness, the log empties when traffic stops |
| `ingest` | An answered event is in one place, in order (`InOrderOnce`); the writer has received a prefix of the answered events, and while it lives trails by the queues and one batch at most (`NoGapAtTheWriter`); queues and batches keep to their sizes (`BacklogBound`); every event moves on without further traffic (`EventuallyHanded`); a closed channel is drained (`ShutdownDrains`) |
| `key_caches` | After a revocation is answered, with no lookup about to insert the key and no PATCH about to write back what it read before, the key is refused until a body asks for its activation (`RevokedStaysOut`), with hang-ups, failing statements and restarts.  Findings 4, 20 and 21 are what the provisos leave out |
| `site_registry` | Set and table disagree only after a prune that overlapped a registration (`OnlyOverlapConfuses`); renamed files become queryable (`FilesBecomeVisible`) |
| `alerts` | While clock and records work, announcements of an alert are a cooldown apart, less the length of a pass (`CooldownHolds`); a disabled alert is announced at most once more (`OneLateAnnouncement`); an alert that stays past its threshold is announced again and again (`AnnouncedAgain`) |
| `query_reports` | Under any filters entry pages, exit pages, exports, lists and totals agree (`ReportsAgree`); replayed rows move no session and no funnel (`ReplayKeepsSessions`); a report read in two parts is off only by what came between (`TilesAgree`), and so are the trends beside a list (`TrendsMatchRows`); the ways to narrow a list agree (`RestrictionsAgree`) |
| `digests` | A due hour is served once per site; a restart, a stall or a step of the clock adds one, and one for each hour a slow dispatch has run over (`OneDigestPerDueHour`); digests keep coming whatever fails elsewhere (`DigestsKeepComing`); a site no channel of which accepts is given up (`DeadSitesAreGivenUp`) |
| `metastore` | No statement of a longer operation is refused (`NoStatementIsRefused`); every path that makes or upgrades a site seeds it (`StartersAreThere`); deleted starter alerts do not come back (`DeletedStartersStayAway`) |
| `accounts` | Failed logins in any window are bounded (`FailuresBounded`); a session that is let in was handed out for the stored password (`SessionsFollowThePassword`); a server that answers has an owner, unless its first boot was cut between the two rows (`ServingHasOwner` excepts exactly that, `torn`); a lock-out ends (`LimitLifts`) |
| `scope` | Whatever moves between the steps of a handler, a bound key is told, runs and changes its own site's rows only, and a request under the path of a site that site's, the funnel or channel it runs included (`ConfinedToSite`); one subscription per site (`OneSubscription`) |
| `dashboard` | A card at rest shows what is stored (`SettledIsFresh`); a change made at rest alters the one thing changed (`CalmChangesAreExact`); one refresh loop at most goes on, within the interval chosen last, none under "Manual", one on a live page (`RefreshFollowsChoice`); live pages catch up (`LivePagesKeepUp`) |

Each property is broken by a mutant of the model listed in `PROJECT.json`; the
`_Bug` definitions beside the real ones are those mutants.  The type invariants are
proved (section 4), and that of `DigestScheduler` is checked in its run as well; that of
`QueryReports`, whose state is a set of rows, is `RowsFine` in `ReportingProofs`.

Where the code does not meet a hazard, a property that must hold excepts it, and the
hazard's note in `PROJECT.json` says so: the gaps of `NoOtherGap` (`atRisk`), the
provisos of `RevokedStaysOut`, `clean` in `OnlyOverlapConfuses` and `CooldownHolds`,
`exempt` in `StartersAreThere`, `torn` in `ServingHasOwner`, `calm` in
`CalmChangesAreExact`.  What these runs show is that nothing else goes wrong.

The bound of `OneDigestPerDueHour` is `1 + mishaps * (1 + MaxSlow)`, and no smaller one
is true of every instance.  The ticks that a dispatch of several hours has missed are
made up for in a burst, all at one hour of the clock.  That hour is harmless while the
clock moves by itself: it is an hour after the due one.  A clock that is stepped while
the burst is pending (by an NTP correction, or a resumed machine) can make it the due
hour, and each tick of the burst then sends.

### Bounds, and why they are enough

* EventStore: six events in three batches of two, two partitions, `FlushRows` 1
  (so `Capacity` 4, `Threshold` 3), segments of two records, a channel of two
  batches, at most two crashes and two faults.  The third batch has to wait for
  room, a batch crosses the threshold, a segment is sealed and another is active
  when a flush starts, a drain spans both partitions after a replay, and a crash
  can hit the replay of an earlier crash.  `store_live` has a batch of five, above
  the capacity.
* IngestPipeline: two places in the ingest channel, batches of two, one batch in
  the store's channel: seven requests fill every queue (2 + 2 + 2) with one
  left over to be turned away.
* KeyCaches: one key of each kind, two requests, two dashboard handlers: two
  PATCHes that overwrite each other and a lookup on either side.  The keys never
  interact.  Symmetry over the handlers; the run has no liveness property.
* SiteRegistry: two queries, one partition to keep and one to prune.
* AlertEvaluator: two alerts, so that one can be changed while the other is
  processed; one channel; a cooldown of two units and a pass of at most one, so
  that a slow pass and the end of a cooldown can meet; one mishap.
* QueryReports: three events of two sessions, pageviews on two pages and two custom
  events, with referrers and sources that may be missing, on two days with
  timestamps that tie, and at most four rows: an event can be there twice while its
  session has another page before or after it.  The ranges cut a session at its
  start, at its end and not at all.  `MAX_FILTERS` 2 and `EXPORT_MAX_ROWS` 3, so that
  the cuts are reached; limits of one row, so that lists are cut among ties.
  1.4 million states.
* DigestScheduler: two users of one site (sites share only the order they are
  served in), days of two hours of which one is due, weeks of one day and months
  of two, so that one due hour has both cadences and one has the weekly alone;
  dispatches of up to an hour, one mishap, two edits, two bounces to give up.
* MetaStore: two sites, so that the seed has an order and one site's statements
  cannot stand for another's; one fault, three edits (an alert that fires, is
  left, or is deleted, beside another row).
* Accounts: two handlers, a limit of two in a window of two units, three hashes (two
  changes that overlap, then a login with either), two mishaps.
* SiteScope: two sites, two domains, two rows; one request for any route and one for
  the routes that change what the other has read.  Symmetry over sites, domains
  and rows; the run has no liveness property.
* Dashboard: two sites, two things to change, a card of each kind of component, one
  interval of two units against a latency of one, two changes, two moves, one
  failed request.

`ingest` and `dashboard` run with `CHECK_DEADLOCK FALSE`: with the senders dropped,
the batcher ended and the store's channel empty, or with a card at rest and no
refresh chosen, nothing is left to happen but new input, which is bounded.  Every
other run checks deadlock.

### Fairness, and why the code justifies it

* EventStore: weak fairness on each step of the writer and of the restart, since
  the runtime polls a ready task and a supervisor restarts a dead server.
  Strong fairness on `Tick`: `select!` picks among ready branches at random, so an
  interval that is due again and again is taken although `Receive` keeps
  disabling it.  None on clients, crashes or faults.
* IngestPipeline: weak fairness on the batcher's arms and on the writer's
  receive.  None on requests or on dropping the senders.  A writer that panics is
  the alternative to one that receives, and both are in the run.
* SiteRegistry: weak fairness on the steps of the writer and the pruner once they
  have begun, and on a query between adding the table and marking the site, where
  it does not await.  A query may be dropped elsewhere, and none has to start.
* AlertEvaluator: weak fairness on the evaluator, whose every wait ends (a query, a
  SQLite call, or a request whose client has a timeout of five seconds), and
  on time.  None on the dashboard, the metric, the clock's steps or restarts.
  `AnnouncedAgain` assumes that the alert stays enabled and past its threshold and
  that a channel is there.
* DigestScheduler: weak fairness on the task, on the hours, and on the restart of a
  stopped server.  None on the dashboard, the channels or the mishaps; a task that has
  panicked stays dead, and the liveness properties exclude it.
* Accounts: weak fairness on the passing of time only; no request has to arrive.
* Dashboard: weak fairness on the server's reads and answers, on the delivery of
  changes, on timers that are due and on time.  None on the user, on other tabs or
  on failures.  `LivePagesKeepUp` needs an answer to take less than the interval:
  each tick drops the request before it (section 5).

## 4. What is proved

TLAPS checks these for every value of the constants that meets the named
assumptions of the modules (capacities positive, `Input` a sequence of sequences of
events, `PartitionOf` total, actors distinct, and so on): no bound on events,
batches, crashes, faults, handlers, requests, sites or queries.

* `EventStoreProofs`: `TypeCorrect`, `OnlyKnownGaps` (`NoOtherGap`),
  `FirstRestartSafe` (`SurvivesOneCrash`), `BufferLow` (`BufferStaysLow`), and
  `StoreRefinesLog`: every run of the store is one of `DurableLog`.
  `NoOtherGap` is not inductive.  A reclaim deletes files and is safe only because
  the buffer and the drained events were empty when it began and because every
  tracked event that is not at risk was by then in Parquet.  The invariant says
  it phase by phase: `Phase` (what is empty at each `pc`), `LogCovered` (each event of
  a tracked segment is in memory, in Parquet, or at risk), `NoOtherGap`
  itself, and `FirstLife`, which carries `SurvivesOneCrash` through the
  replay.  The lemmas before it say what the sequence operators keep (the drained
  prefix and the popped rest are the buffer; the events of a segment after a record).
  `BufferInv` adds what `BufferStaysLow` needs: the batch in hand is one of the input
  (`BatchesAreInput`), and a restarted writer has no log of its own until its first
  append (`ReplayStartsAfresh`), before which its buffer has been drained to fit.
  `StoreRefinesLog` assumes what `DurableLog` is about, working I/O and at most one
  crash (`MaxFaults = 0`, `MaxCrashes <= 1`), and that no event is sent twice
  (`EachEventOnce`).  The statuses are rings: `Visible` within `Stored` (on disk or in
  memory), within `Present` (or in the channel or the writer's hand), within
  `SentEvents`, so a step is described by what it does to the four sets, and four
  lemmas turn that into a step of `DurableLog` or a stutter (`Steady`, `Accepted`,
  `Persisted`, `Published`, and `CutOff` for the crash).  `LInv` adds to the invariant
  above that the hand is empty between two batches (`HandInUse`), that the rings are
  nested (`Nested`), and that what is buffered is in the log before the crash
  (`BufferLogged`), so that the crash takes the queued events and no others.
  `RowsPerIncarnation` (`OneRowPerIncarnation`) and `OneCopyEach` (`ExactlyOneCopy`)
  count: they assume that events are distinct (`EventsAreDistinct`: an event is one
  object, with one ULID).  The copies of an event are the size of the set of places that
  hold it, and `CopiesAt` bounds them with the log: an event in the log or on its way to
  it is there once; its copies and those that a replay still has to make are at most one
  more than the crashes; and before the first crash or failure there is exactly one.
* `IngestPipelineProofs`: `PipelineTyped`, `AcceptedInOrderOnce` (`InOrderOnce`),
  `WriterHasNoGap` (`NoGapAtTheWriter`), `BacklogIsBounded` (`BacklogBound`).
  `InOrderOnce` says that the accepted events are the concatenation of what the
  places hold; `OneHolder` is needed beside it (the batch awaited and the buffer are
  never both in use, so moving one does not overtake the other), and
  `LossNeedsDeadWriter` (only a store whose writer is gone refuses), because what is
  refused must not be followed by what is taken.  `BacklogInv` adds that the loop never
  rests on a full buffer.  `WriterInv` relates the writer to the batcher: what was
  received is a prefix of what was handed over, and the batches in the store's channel
  cut the rest of it into pieces (`Cuts`), which makes their order and their total size
  one fact, kept when a batch is appended (`CutsAppend`) or taken (`CutsTail`).
* `CredentialsProofs`, about KeyCaches: `TypeCorrect`, `CleanRevocationHolds`
  (`RevokedStaysOut`).  Its third conjunct (no lookup that found the key is about to
  insert it) is the strengthening that "a revoked key is not cached" needs;
  `RevivalsAreAsked` is the one for the row: whoever is about to write a revoked key
  live does so because a body asks for it, since whatever a PATCH reads after the
  revocation is dead.  About Accounts: `AccountsTyped`,
  `PasswordSessions` (`SessionsFollowThePassword`), `OwnerWhenServing`
  (`ServingHasOwner`), `FailedLoginsBounded` (`FailuresBounded`).  The strengthening of
  the first says that every token, valid or not, was signed for the hash its holder had
  proved, whatever is stored by then; of the second, that an organisation without an
  owner is one whose boot is at the owner or was cut there.  The last needs `RoomLeft`
  (the count and the logins that are past the limiter fit the burst) and `Windows` (what
  failed since the entry began is counted in it, and what failed before fits one
  window).  A sum over ages is a function, and its properties are shown for the least
  age that would break them.
* `SiteStoreProofs`, about SiteRegistry: `TypeCorrect`, `OnlyOverlapConfusesHolds`
  (`OnlyOverlapConfuses`).  The invariant adds, all while the history is
  clean, `DropAlone` (between the pruner's two steps there is no table and nobody
  is half way through a registration), `OneRegistrar` (at most one actor is) and
  `HalfDone` (while one is, the table is there and the mark is not).  About MetaStore:
  `DeletionsStick` (`DeletedStartersStayAway`), `OperationsAreAccepted`
  (`NoStatementIsRefused`), `EverySiteIsSeeded` (`StartersAreThere`).  For the first, the
  invariant says what each operation may still have to run (`Creates`, `Deletes`,
  `Migrates`): starter alerts are written for a new ULID, or by the seed while the schema
  is older than version 3, when the store has never been open to a user who could delete
  anything; and the last statement of a migration is the one that makes it version 3.
  For the second, `PlanInv` says that what is left of an operation is a suffix of its
  plan, and that the part that has run made true what the constraints ask of the next
  statement: a site before its starters, no child of a site before its row goes (and none
  made meanwhile), and no `channel_id` on alerts once the store is open.  For the third,
  `SeedInv` says of each site that is owed its starter alerts that they are there, deleted
  since or still to be written, or that the site is being deleted, or that the seed is
  still to come and will find it bare.
* `AlertEvaluatorProofs`: `TypeCorrect`, `OneLateAnnouncementHolds`
  (`OneLateAnnouncement`), `CooldownHoldsAlways` (`CooldownHolds`).  The cooldown
  check reads a row that says when the alert last fired; the property is about
  when it was last announced.  `Gap` relates the two, at most a pass apart, for
  every alert that could still be announced without another check; `Ages` and
  `CleanAges` say that no fire is dated after the present pass while the clock
  works, `Fresh` that the record is there before the first sink is called, and
  `Rested` carries the result of the check to the announcement.  `Lateness` is the
  strengthening of `OneLateAnnouncement`: an alert that has been announced late
  is off the list, or is the one in hand.
* `SiteScopeProofs`: `SiteConfinement` (`ConfinedToSite`), `SubscriptionsAreSingle`
  (`OneSubscription`).  `Carries` says what a request knows at each await: past the
  check a bound key is under the path of its own site or lists the sites.  `Holds`
  says that a row that was found is still of the table and the site it was found
  in, or deleted, whatever others have done since: a ULID is used once, and no
  handler moves a row.  A row that is to be run is carried, and `FoundToRun` says that
  it was read in the site of the path, for each handler that runs one.
* `DashboardProofs`: `DashTyped`, `SettledShowsTheServer` (`SettledIsFresh`),
  `CalmChangesAlterOne` (`CalmChangesAreExact`), `RefreshIsAtPace`
  (`RefreshFollowsChoice`).  What a card shows was read some steps
  ago, so the invariant is about what it has read or shows as long as no change of its
  own is applied and unanswered (`ReadIsFresh`); a card that never loads again shows what
  was typed, and has at most one change under way that will make that the stored value
  (`FormFollows`); a reactive one asks for, and shows, what its route says
  (`FollowsRoute`).  `CalmIsAlone` (a change made at rest is the only one) carries the
  second property.  The last is inductive once loops and intervals are typed; TLC has one
  interval beside "Manual", the theorem any number.
* `ReportingProofs`, about DigestScheduler: `DigestTyped` (`DigestTypeOK`),
  `OnePerDueHour` (`OneDigestPerDueHour`).  The invariant is a potential: for each site and
  cadence, the digests sent in the latest due hour, the one being served and the hours
  the clock still goes through again (`Owed`), together with the ticks not yet taken
  (`Load`), stay below what the mishaps so far allow (`Allowed`), place by place.  While the
  clock is where the dispatch has brought it (`InPhase`) the ticks of a slow dispatch
  weigh nothing.
* `ReportingProofs`, about QueryReports: `ReplayKeeps` (`ReplayKeepsSessions`),
  `TilesHold` (`TilesAgree`), `TrendsMatch` (`TrendsMatchRows`), `RestrictionsHold`
  (`RestrictionsAgree`), `ReportsHold` (`ReportsAgree`), for any events, ranges, filters,
  lists and limits.  What holds of every table is `RowsFine`: it is finite, and rows of
  one event are alike but for the copy.  The first theorems rest on counting: a sum over
  the parts of a finite set is its cardinality (`Partition`), a visit has a first and a
  last row (`Ends`), and taking one row per session counts sessions (`PickCount`).  A
  report in two parts is compared with the table through what came between: as long as
  nothing was pruned (added) the table has at least (at most) what was counted
  (`SummaryFine`, `ListFine`).  Cutting filters and lists is by rank: `FewKeptMeansAll` and
  `RoomForOneMore` say when a cut loses nothing, `TiedForTheLast` what a list that was
  ranked twice may differ in.

Every safety invariant and every action property that a run checks is proved.  Only
model-checked is liveness: `EventuallyHanded`, `ShutdownDrains`, `LogEventuallyEmpty`,
`FilesBecomeVisible`, `AnnouncedAgain`, `DigestsKeepComing`, `DeadSitesAreGivenUp`,
`LimitLifts`, `LivePagesKeepUp`, and the fairness of `DurableLog` in
`ImplementsDurableLog`.  They follow from fairness, for which the prover has no rule.

## 5. Where code and documentation disagree

Each was met while modelling; `PROJECT.json` "findings" quotes the lines.

1. `store/src/embedded/wal_common.rs:135` - `replay_all` deletes a segment once its
   events are in memory; nothing logs them again.  A restart before the next flush
   loses them: one of the gaps `NoOtherGap` names.
2. `store/src/embedded/writer.rs:155` - a failing `write_partition` is logged, its
   events are dropped, and the log that still had them is reclaimed: another gap.
3. `store/src/embedded/mod.rs:77` - `ingest_events` does not wait for the WAL, as
   `core/src/traits.rs:32` says it does: in EventStore, `IngestEvents` only fills the
   channel, and a crash before `StoreBatch` loses the batch.
4. `api/src/routes/api.rs:172`, `ingest/src/handler.rs:69` - a lookup overtaken by
   a revocation puts the dead key in the cache for good: a proviso of
   `RevokedStaysOut`.
5. `store/src/embedded/reader.rs:159` - a prune that overlaps a registration
   leaves `registered` and the table disagreeing (`OnlyOverlapConfuses`).
6. `store/src/embedded/writer.rs:123` - the writer task never ends when its channel
   closes; a test waits for it to.
7. `api/src/digest/mod.rs:308` - `bounce_count` is never reset by a delivery, so it
   does not count consecutive bounces.
8. `alerts/src/analytics.rs:110` - the share of the top referrer is computed over a
   list cut to one row, so it is always 100 percent.
9. `store/src/embedded/reader.rs:490` - funnel steps are counted independently:
   neither order nor prior steps nor `window_secs` matter (`query_funnel`).
10. `store/src/embedded/meta.rs:842` - an alert that has fired cannot be deleted: its
    fires reference it (the guard of `delete_analytics_alert`).
11. `api/src/routes/auth.rs:144` - the login window is fixed, not sliding: twice the
    limit can fall into one window (`FailuresBounded`).
12. `api/src/routes/analytics.rs:1592` - with ten filters the restriction to a source
    or medium is cut off: why `RestrictionsAgree` asks for room.
13. `api/src/routes/analytics.rs:717` - the trends of events that are confined to a
    name are those of the most frequent names: why `TrendsMatchRows` excepts names.
14. `store/src/embedded/meta.rs:547` - a deactivated site stays in the dashboard's list.
15. `web/src/ui/pages/funnel_detail.rs:20` - a custom range becomes the last 30 days, and
    filters are not applied (`range_only`).
16. `web/src/ui/components/refresh.rs:80` - with answers slower than the interval a live page
    never shows one: why `LivePagesKeepUp` needs `Latency` below it.
17. `web/src/ui/pages/site_keys.rs:17` - cards that captured their site show the old one
    after a jump in the history, and change the new one.
18. `web/src/ui/pages/site_settings.rs:121` - two quick changes of the digest card undo
    each other: why `CalmChangesAreExact` is about changes made at rest.
19. `api/src/routes/analytics.rs:1426` - the exports accept filters and drop them
    (`export_sessions`, `export_events`).
20. `api/src/routes/api_keys.rs:177` - a client that hangs up between the delete and the
    eviction leaves the key cached, and a retry under the site is answered 404 first: why
    `RevokedStaysOut` is about revocations that are answered.
21. `api/src/routes/sites.rs:130` - a PATCH of another field writes back the `is_active` it
    read, over a deactivation that came between: the other proviso of `RevokedStaysOut`.
22. `web/src/ui/components/table.rs:95` - a click on "Direct / None" filters by that text,
    which no row has: why `RestrictionsAgree` leaves the row of NULL out.

## 6. Not modelled, and what could come next

* Power loss in `EventStore`: what `fsync` covers and what it does not.
* `IngestPipeline` composed with `EventStore`, from the beacon to a row.  Each models the
  channel between them from its side.
* Finer buckets of time in `QueryReports`, and the traffic alerts that compare two
  windows.
* Beacon enrichment, configuration checks, CORS and headers, the CLI, the seeder, the
  landing site and the tracker script: they have no state of their own, and their
  tests reach them.  SQLite, DataFusion, the browser's router and Dioxus' resources
  are external, modelled by how the code uses them.
