# BETMAN Data in TLA+

TLA+ specifications of BETMAN Data, the racing data warehouse in this repository: models of its
stateful parts, TLC configurations that check them on small instances, and proofs, checked by TLAPS,
of the results that hold for every instance. Source paths below are relative to the repository root.

Contents: 1 the system, 2 the modules, 3 Race Day, 4 the API gate, 5 TAB ingestion, 6 scoring, 7 the
read API, 8 the assistant, 9 where the code disagrees with its documents, 10 what is proved, 11 what
is not modelled, 12 how to run everything.

## 1. The system

BETMAN Data polls the New Zealand TAB for race cards, odds and results, keeps them in PostgreSQL,
derives market signals and scores from them, and serves the lot through a multi-tenant FastAPI
service. Operators run a camera capture workflow ("Race Day") against the same race card.

| Component | Source | State it keeps | Operations | What is hard |
|---|---|---|---|---|
| Race Day workflow | `services/api/app/routers/race_day.py`, `infra/migrations/011_heatmap_race_day.sql` | meeting runs, race runs, scan sessions | `select_meeting`, `set_phase`, `skip`, `close_race` | row locks taken one after another by concurrent requests; the card changes underneath; rollbacks and deadlocks |
| API request gate | `services/api/app/middleware.py` | counters in Redis and in the process, `tenant_usage` | authenticate, limit, quota, usage row | Redis fails and recovers between requests; calls that were executed and whose answer was lost |
| Key administration | `services/api/app/routers/admin.py` | tenants, API keys, audit log | create, rotate, revoke | administration beside requests in flight |
| TAB ingestion | `scripts/poll_tab_events.sh`, `fetch_tab_event_history.py`, `load_tab_event_payloads.sql` | raw payloads, meetings, races, entries, results, outcomes | poll, fetch, load | overlapping pollers; listing and documents that change apart; loads that stop half-way; what is polled again |
| Market history and retention | the loader's market statements, `scripts/prune_data_retention.sql`, `infra/systemd/` | odds, ticks, pools, signals, daily summaries; the poller's timer | load, prune, compact | rows that return after they were summarised; two jobs that stop one poller |
| Feed consumer | `services/consumer/app/` | last sequence per feed, tenant cache, last prices | poll, route, dispatch, adapt | state recorded before the write it stands for; cache invalidation racing a load |
| Live fan-out | `services/api/app/routers/live.py` | websocket subscriptions | connect, forward, heartbeat | events between the greeting and the subscription |
| Scoring | `services/scoring/app/`, the loader's `horse_scores` statement | features, scores, the ledger of predictions | a cycle over the due races; an import | inputs read before the lock; two writers of one table; one error ends a cycle |
| Discovery | `services/discovery/app/` | insights | a nightly cycle | a schedule by the hour |
| Operator session cache | `race_day.py` 40-86 | digest to deadline | authenticate | time read before an await |
| Ingestion health check | `scripts/check_ingestion_health.sh` | none that is read | report | nothing: read-only |
| Read API | `services/api/app/routers/races.py`, `tracks.py`, `analytics.py` and the other routers | none | queries | answers put together from several statements while the loader writes; two formulas for one thing; rounding and paging |
| Assistant | `services/api/app/assistant_service.py`, `routers/assistant.py` | none | one question, one statement | an ordered list of substring rules; a language model's statement; placeholders numbered while filters are added |
| Web client | `services/webapp/` | the last answers | fetch, poll, post | stale pages |
| Schema, one-time repairs | `infra/migrations/`, `scripts/rebuild_*`, `scripts/remediate_*` | the tables | run once | nothing concurrent |
| Cameras, Heatmap identity, TAB, PostgreSQL, Redis | outside the repository | | | appear as external actions and as the rules of steps |

How they meet: in PostgreSQL (the poller writes the card that Race Day, scoring and the read API
read), in Redis (the gate counts there; the consumer publishes what the live sockets forward) and in
systemd (a timer starts the poller, retention stops and starts that timer). No component calls
another's functions, so each module below owns its tables and takes what others do to them as
external actions: `RaceDay` has the poller's card changes, `RequestGate` has the administrator,
`TabIngestion` has TAB and the calendar, `Scoring` has the import's prices,
scratchings, reinstatements and results.
`ReadApi` is a composition: it has the loader's statements as well as the handlers that read between
them.

What makes each part correct:

- **Race Day.** One meeting is active, one race of it open, one horse scanned; the races are worked
  in order; nothing archived changes; no scan is left that cannot be finished; every request ends.
- **Gate.** No key gets more than its limit and quota; a dead secret stays dead.
- **Ingestion.** Whatever polls fail, the tables of a race agree after a load, ended races stay
  ended, and everything TAB says in the end reaches the tables.
- **Retention** (not modelled). A summary counts each observation once; pruned rows stay pruned; the
  poller does not run under maintenance.
- **Consumer and live** (not modelled). No record is lost or delivered to a tenant without a
  license.
- **Scoring.** The scores of a race are comparable with each other and add up; the two writers never
  wait for each other; every prediction is on record; every due race is scored in the end.
- **Read API.** An answer of several statements may still be relied on for what it says: parts add
  up, nothing is counted that is not shown, records are of the past, a page has a place for each
  race.
- **Assistant.** Every question gets an answer from the table it names, by a guarded statement with
  its arguments in place.

## 2. The modules

| Module | What it is |
|---|---|
| `MeetingQueue` | abstract: what Race Day promises the operator, a queue of the races of one meeting |
| `RaceDay` | the capture workflow over PostgreSQL row locks; implements `MeetingQueue` |
| `MCRaceDay` + `MCRaceDay.cfg`, `MCRaceDayRequests.cfg`, `MCRaceDayCancelled.cfg` | its instances |
| `RaceDayProofs` | its invariant and refinement, proved |
| `RequestGate` | middleware and key administration |
| `MCRequestGate` + `MCRequestGate.cfg`, `...Quota.cfg`, `...Excess.cfg` | its instances |
| `RequestGateProofs` | its type, limit, fallback, key and quota theorems |
| `RaceCard` | abstract: what the tables `races` and `race_results` promise their readers |
| `TabIngestion` | poller, fetcher and loader; implements `RaceCard` |
| `MCTabIngestion` + `MCTabIngestion.cfg`, `...Progress.cfg`, `...Gaps.cfg` | its instances |
| `TabIngestionProofs` | its invariant and refinement, proved |
| `Scoring` | the scoring engine and the loader as writers of scores |
| `MCScoring` + `MCScoring.cfg` | its instance |
| `ScoringProofs` | types, lock, fields, sums of probabilities, ledger, proved |
| `ReadApi` | ten kinds of request of the read API, statement by statement, between the loader's |
| `MCReadApi` + `MCReadApi.cfg` | its instance |
| `ReadApiProofs` | zones, records, heatmaps and samples, proved |
| `ReadStatProofs` | types, odds analysis, series, pulse, people and pages, proved |
| `Assistant` | questions, rules, the language model's statements, validation, execution |
| `MCAssistant` + `MCAssistant.cfg` | its instance |
| `AssistantProofs` | its types and four safety properties, proved |
| `SumTheorems` | induction over finite sets and numbers, sums over finite sets: lemmas of two components |

Definitions marked `mutant` or `mutation` in a comment are wrong on purpose: each is a plausible bug
of the definition after it, used to see that the property named in `PROJECT.json` notices. No
specification refers to them. `PROJECT.json` also maps every definition to the lines it models and
lists the hazards of the code with the properties that cover them.

Three conventions hold throughout. A refusal that changes nothing is a step that is not taken. A
database transaction is one step when its first statement locks everything it decides on, and a step
per lock wait otherwise. Every bound of a model (clock, arrivals, edits, failures, row identities)
is a CONSTANT named `Max...`, or the size of a set, and only ever disables what comes from outside:
a request that begins, an edit, a failure, a tick. (In `ReadApi` the number of requests is `Asks`,
in `Assistant` the bound is the phrases of a question.)

## 3. Race Day

### Model

| Variable | Code |
|---|---|
| `runState`, `runMeeting` | `heatmap_race_day.meeting_runs` (state, meeting_id) |
| `raceRun[n][r]` | `race_runs.state` |
| `session[n][e]`, `activePhase[n][e]` | `runner_scan_sessions` (state, active_phase) |
| `frames[n][e]` | the phases of which `scan_frames` has a frame |
| `listed`, `declared`, `sched`, `actual` | `public.races`, `public.race_entries`: written by the poller |
| `now`, `edits` | the clock; how often the card was changed |
| `txn[t]` | the transaction request `t` is in: what it has read and locked and not committed |

The handlers run under READ COMMITTED. `set_phase` and `skip` select what they decide on `FOR
UPDATE` in one statement and are one step (`StartScan`, `FinishScan`, `Skip`). `select_meeting` is
`SelectBegin` (the active run is read), `SelectLock` (its row is had; the recheck of the WHERE
clause drops a run that is no longer active), `SelectInsert` (the one-active-meeting index waits
for, or refuses beside, another insert), one `SelectRace` per race of the listing, and
`SelectCommit`. `close_race` is `CloseBegin` (the race run is locked, the checks, the choice of the
next race), then `OpenNext` or `CloseLast`. A lock held by another transaction is a conjunct that
waits. `DeadlockVictim` is PostgreSQL aborting a request of a wait cycle, `ApiRestart` the loss of
all open transactions. `Capture` is the camera service; `SyncRace`, `SyncEntry`, `Reschedule` and
`Jump` are the poller, which may change the card between any two steps of a request.

The scanning phase of a race is computed from the clock as in `_phase` (`SCAN_WINDOW` before the
start is `pre`, after it `post`), and `StartAt` prefers the actual start. The model leaves the `one
open race` index out on purpose: that no two races are ever open is then a property of the handlers,
not of the index. The one-active-meeting and one-active-horse indexes are in it, because the
handlers run into them.

### Properties

| Property | Says | Run |
|---|---|---|
| `TypeOK` | types, and the states the CHECK constraints allow | `race_day` |
| `OneOpenRace` | an active meeting has exactly one open race; a completed one only archived races | `race_day` |
| `ActiveScanCanFinish` | one horse is scanned at a time over all meetings, and its race is open until the scan ends | `race_day` |
| `PastPhaseHasFrames` | a runner past a phase has frames of it | `race_day` |
| `LockedReadsHold` | what a transaction read under a lock is still so when it commits; no row is held twice | `race_day` |
| `ArchiveIsFinal` | no step changes an archived race or extends a completed meeting | `race_day` |
| `QueueSpec` | every step is a step of `MeetingQueue` or leaves the queue alone | `race_day` |
| `RequestsEnd` | every request that began a transaction ends it | `race_day_requests` |
| `SelectKeepsScans` | violated: section 9 | `race_day_cancelled` |

### Bounds

Two meetings, of two races and of one, four runners, two run identities, two concurrent requests,
clock 0..2 with a window of 1, one card edit, one race synced only after the day started, one race
without a start time. Two requests are enough for the one wait cycle the code can form: a
re-selection that holds the meeting run and wants a race run, and a close of the last race that
holds the race run and wants the meeting run. Two run identities allow a cancelled or completed run
beside an active one and one meeting opened twice. Three clock values put a race into `waiting`,
`pre` and `post`. Run identities and requests are interchangeable, hence the symmetry of the safety
runs; the liveness run has none. It keeps two requests and two runs but a single runner and clock
0..1. `CHECK_DEADLOCK FALSE`: a day ends, and the clock and the run identities are bounded.

### Fairness

Only requests that have begun are obliged to go on. PostgreSQL grants a contended row lock in the
order of the waiters, so a waiter is not overtaken for ever: strong fairness of the steps that take
a lock (`SelectLock`, `SelectInsert`, `SelectRace`, `OpenNext`, `CloseLast`). `SelectCommit` waits
for nobody, and `deadlock_timeout` breaks a cycle: weak fairness. Nothing makes an operator act, a
camera capture or the clock tick.

## 4. The API gate

### Model

| Variable | Code |
|---|---|
| `keyGen[k]`, `keyActive[k]` | `tenant_api_keys`: the secret whose hash is stored, `is_active` |
| `windowCount[b]` | the Redis counter of a tenant and path in bucket `b` of the clock |
| `local[w]` | the in-process window of a worker (`_RATE_LIMIT_WINDOWS`) |
| `dayCount[d]`, `expiry[d]` | the Redis quota counter of a day; whether it expires, and on which side of midnight |
| `usage[d]` | rows of `tenant_usage` of a day |
| `req[t]` | a request: its worker, secret, and the next thing the middleware does with it |
| `faults` | failed database calls, and requests that were served and leave no usage row |
| `passed`, `passedLocal`, `served`, `dead` | history: what was let through by Redis, by a worker's window, to the handler; whether the secret was dead on arrival |

`Arrive`, `Resolve`, `RateRedis` | `RateLocal`, `QuotaRedis` | `QuotaFails` then `QuotaDb`,
`Refuse403` | `Serve`, then `Record` | `RecordFails` are the awaits of the middleware in their
order; between any two of them other requests, `Create`, `Rotate`, `Revoke`, `Tick` and
`WorkerRestart` may run. A Redis call is answered, not reached, or executed with its answer lost:
`RateLocal` and `QuotaFails` choose whether the counter moved. `Serve` is the handler; the row is
written after it, or never: the handler raises, the INSERT fails (`RecordFails`), or the worker
stops in between. A failed count of the rows lets the request pass the quota unchecked. Each of
these is one of the `faults`, of which a run has at most `MaxFaults`. `EXPIRE` gets the whole
seconds to midnight, at least one, so a counter that was started before the last second of its day
is gone in that second (`QuotaExpires`) and the next request starts it again. Keys of one tenant
share the counters and each compares with its own limit.

The model is of one tenant and one path: other tenants and paths use other keys of Redis and other
rows. Public paths and the platform administrator's key do not reach these counters.

### Properties

| Property | Says | Run |
|---|---|---|
| `TypeOK` | types; only a key with a quota is ever at the quota | `gate` |
| `DeadSecretsStayDead` | a secret that was rotated away or revoked before it came never gets past the gate, even if a rotation activates its row again while the request waits | `gate` |
| `LimitHolds` | Redis lets no key through a window more often than its limit | `gate` |
| `FallbackBounded` | a worker without Redis lets through at most twice the limit less one in a bucket of the clock since it started | `gate` |
| `QuotaBounded` | what the two quota counters, which know nothing of each other, together let through on a day: at most `3 * Quota - 1 + Cardinality(Reqs) + faults` | `gate_quota` |
| `ExcessIsRefused` | violated: section 9 | `gate_excess` |

`QuotaBounded` is the honest bound of the quota: `Quota` through Redis, `Quota` more after the
counter has expired in the last second of its day, `Quota - 1` that are committed rows when the
database answers, every request then in flight, and one for each fault. `FallbackBounded` is twice
the limit because a worker's window starts with its first request and two of its windows can share a
bucket of the clock.

### Bounds

`gate`: two keys, one with limit 2 that exists and one with limit 1 that is created during the run
and expires, two secrets each, one worker, two requests at a time and four in all, window 2, clock
0..3 (two buckets), the license ending at 3. Four arrivals let the key of limit 2 be let through
once in a window that ends inside a bucket and twice in the one that follows it there, which is the
bound `2 * 2 - 1` (TLC finds a request over `2 * 2 - 2`). A dead secret passing needs one arrival,
one administration and one lookup, in any order. A second worker has windows of its own and shares
Redis as a second request does, so one is enough. No key of this run has a quota and every key may
use every path, so its states are compared without the rows, the quota counter and what a request no
longer needs (`VIEW WindowView`). `gate_quota`: quota 1, days of 2 ticks, clock 0..2 (a midnight,
and a last second of the first day), five arrivals, one fault; no limit is ever reached, so the
windows are left out of the comparison (`VIEW QuotaView`). The bound `3 - 1 + 2 + 1` is reached. The
theorems of section 10 carry all five properties to any number of keys, workers, requests and
windows. Requests and workers are interchangeable. Only safety is claimed; there is no fairness
here, since the client may always stop. Deadlock is checked: an administrator can always act.

## 5. TAB ingestion

### Model

| Variable | Code |
|---|---|
| `listing[r]`, `detail[r]` | external: TAB's meeting listing and event document of a race |
| `age` | how long ago the meeting was: in the window, in the window with races that started hours ago, older than `LOOKBACK_DAYS` |
| `lock` | the lock file of `poll_tab_events.sh` |
| `poll[p]` | a poller: its step, its targets, listing, documents |
| `payload[r]` | `tab_event_payloads` |
| `meeting`, `status[r]`, `starts[r]` | `meetings.status`, `races.status`, the start times of the race that are not NULL |
| `finalPos`, `result`, `outcome` | `race_entries.final_position`, `race_results.finish_position`, `barrier_outcomes.final_position` |
| `torn` | history: races whose last load stopped between their entries and their outcomes |

`Start` takes the lock and runs the target query; `ListDays` and `ListTargets` read the listings of
the window and of the targets' days; `Fetch` and `Miss` the event documents, in any order; `Fetched`
ends the fetcher. The loader is run with `psql -f` outside a transaction, so each of its statements
commits alone: `LoadPayloads`, `LoadMeeting`, `LoadRaces`, `LoadEntries`, `LoadResults`,
`RepairEntries`, `LoadOutcomes`. `Fail` ends a poll at any point and keeps what was committed. TAB
changes (`List`, `Revise`, `Remove`) at any time, and never the listing and the document together.

A position may be 0, which is neither NULL nor a placing. The loader stores it like any position,
also over a placing; the repair of the entries and the recheck for disagreement look at placings
only (`> 0`), and the recheck for missing results is about races without any row. `Null` is for NULL
and for a missing row. A race may be listed with an empty status, and its row may have no start
time: then it is polled in the window, and never rechecked after it.

Abstractions: one meeting of New Zealand, Australia or Hong Kong (the target query asks for no
other); the statuses of TAB are three (`open`, `final`, `abandoned`); statements of the loader that
write none of these tables (runners, pedigrees, odds, pools, signals, scores) are left out; every
entry has a barrier and none is scratched.

### Properties

| Property | Says | Run |
|---|---|---|
| `TypeOK` | types | `ingest_load` |
| `CompletedLoadAgrees` | once a load of a race went through, a placing of a result row is the position of its entry, and a position of an entry is that of its result row and its barrier outcome, whatever earlier polls left half-done and even if TAB dropped or revoked placings it had published | `ingest_load` |
| `CardKept` | the loader implements `RaceCard`: ended races stay ended, result rows may be corrected (a 0 may replace a placing) but are never taken away, and belong to races that are on the card | `ingest_load` |
| `EndsAreNoticed` | a race that TAB has ended does not stay scheduled, also when its day has left the window, unless its meeting counts as abandoned or its row has no advertised start | `ingest_progress` |
| `PlacingsArrive` | a race with a start time that was called finished before any position was out gets its result rows | `ingest_progress` |
| `NoHistoryGaps` | violated: section 9 | `ingest_gaps` |

The exceptions in `EndsAreNoticed` are the code's: the target query compares the start with the
clock, which a NULL never passes (`poll_tab_events.sh:98`, `:102`), and skips meetings that are
marked abandoned, and the meeting takes the status of some one race of the load (`DISTINCT ON
(meeting_id)` with no order among races), so one abandoned race can mark a meeting and end the
rechecking of its other races once they are older than the window. `CompletedLoadAgrees` and
`PlacingsArrive` promise no more than the code does either: when a placing is revoked (0) and the
poll stops before the outcomes, or when a poll brings some positions only, no later poll is bound to
ask again.

### Bounds

`ingest_load`: the timer's poller and an operator's, one race of two runners (open, won by one, or
won by the other with the first at 0), three changes by TAB, one failure. One race is enough, the
statements treat races independently except for the meeting's status; two changes are needed for a
document that disagrees with the listing and with what an earlier poll stored, the second poller for
what the lock excludes. `ingest_progress`: one poller, two races (one to abandon the meeting, one to
wait), two changes, one failure, ages 0 to 2. `ingest_gaps`: one race, three changes.

### Fairness

`WF(\E p \in Pollers : Work(p))`: the timer starts the poller a minute after the last one ended
(`OnUnitActiveSec=60s`), requests have timeouts and statements end, so some poller goes on. Failures
are bounded by `MaxFailures`: the liveness properties are about what happens after the last one. TAB
and the calendar owe nothing.

## 6. Scoring

### Model

| Variable | Code |
|---|---|
| `price[e]`, `running`, `status[r]` | the newest price of an entry, the entries that exist and are not `scratched`, `races.status`: written by the rest of an import |
| `features[e]`, `score[e]` | the rows of `race_analysis_features` and of `horse_scores`, with the model that wrote them |
| `late[t]` | entries that joined a race after its field was read for the rows table `t` has now (kept for the properties; no action reads it) |
| `ledger` | `race_prediction_snapshots` |
| `writer[w]` | the open transaction of the engine and of the loader: its time, its rows, the rows it has written and holds, and who joined since it read (`missed`) |
| `queue` | races left of the engine's cycle |
| `lock` | `pg_advisory_xact_lock(hashtext('betman_horse_scores_writer'))` |

`StartCycle` selects the due races, at most `CycleLimit` of them (400 in the code), `ReadRace` reads
the inputs of the next one and computes its rows (no lock, no transaction), `TakeLock`, `WriteRow`
per row and `Commit` are `_score_race`'s transaction. `BeginLoad`, `TakeLock`, `WriteRow`, `Commit`
are the loader's: `now()` is of the beginning, the rows are read after the lock, and the order of
its upserts is the planner's. `Fails` is an error in either, or a restart; in the engine it ends the
cycle. The rest of an import commits before its scores and changes what both read: `PriceMoves`,
`Withdraw` (`scratched` becomes true), `Join` (it becomes false again, or the entry is inserted).
`Finish` and `Tick` are the world.

Probabilities and stakes are in thousandths, rounded to the nearest as the code rounds to the eighth
digit, and prices whole, so that the sum of a field and the quarter-Kelly stake are computed and not
assumed; the arithmetic mean of the odds stands for the geometric one of the code, which TLC has no
roots for. Probabilities less than 0.0001 apart count as the same in the ledger's query; here that
is equality in thousandths. The de-duplication of the ledger looks at any row of the window, not the
last, as in the code.

### Properties

| Property | Says |
|---|---|
| `TypeOK` | types; a probability stays between zero and one whatever prices are missing |
| `WritersNeverDeadlock` | no engine row waits for a loader row that waits for an engine row |
| `FieldOfOneWriter` | the scores of the runners of a race are of one writer and one moment, fractions or percentages but never both; excepted are only those that joined after the field was read |
| `FieldAtMostCertain` | the engine's probabilities of a race add up to at most one and half a thousandth per runner (the rounding), with the same exception |
| `PredictionsRecorded` | the ledger has the prediction of the current features, from within its window, and stakes only on a price that pays |
| `RacesAreScored` | a race that is due, or finished without features, gets them unless it leaves the engine's window or a cycle is full of sooner races |

Without the exception of late joiners the two field properties are false of the code: an import that
puts a runner back commits it before its scores, so an engine that had read the smaller field may
write last and leave the runner with a percentage beside the fractions of the others, or with the
probability of an older field. The next cycle repairs both. The exception is exact: `late` names
those runners and a transaction that read them takes them out of it.

### Bounds and fairness

Three races of which two fit into a cycle, the middle one with two entries; the second of them is
entered late and without a price. Prices none, 2 and 4, two changes by imports, one failure, clock
0..1. So a price may go and come back within the ledger's window, a runner may be taken out and put
back, or be entered late with a price that then appears. Two runners are needed for a deadlock and
for a torn field, two races in a queue for an error that cuts it short, and a finished race with and
without features. The engine takes its next step again and again while it can, which includes the
lock when it is free often enough, because PostgreSQL hands an advisory lock out in the order of its
queue (strong fairness of its steps); the loader's statements end (weak fairness); failures are
bounded. Nothing obliges an import to begin. `CHECK_DEADLOCK FALSE`: the clock ends.

Seen while modelling, true of the code and of the model: the engine may write scores of older prices
over newer ones after it waited for an import; a runner without a price counts with prior 1.0 and
takes almost all of its field; one race that fails keeps all behind it waiting for the next cycle;
six equal runners add up to 1.00000002.

## 7. The read API

### Model

| Variable | Code |
|---|---|
| `db` | the committed rows of `meetings`, `races`, `runners`, `race_entries`, `race_results`, `track_condition_readings`, `barrier_outcomes`, `odds_snapshots`, `fixed_odds_ticks`, `odds_movements`, `odds_analytics`, `track_heatmap_cells` |
| `load` | the loader's run: race, document, next statement |
| `client`, `got`, `asking`, `answers` | one client: its request, what the statements so far returned, its answers |
| `known`, `loaded`, `moved` | history: outcomes there were when the request came; races loaded since the first request; the listed ones among them that got another day or track |

`fetch_all` and `fetch_row` take a connection each and no handler opens a transaction, so each
statement of a handler is a step (`Read`), and the steps of the loader (`StartLoad`, one step per
statement, `LoadFails` after any of them), which runs with `psql -f` and autocommit, come in
between. The twelve statements (`LoadMeetings` to `LoadAnalytics`) write what the loader overwrites
on every load: day and track of the meeting, which all its races share; number, distance and class
of the race; barrier, trainer, jockey, scratching and position of an entry; the going; and from
these the outcome. An answer is computed when its last statement returned. The ten kinds of request
are `get_race`, `get_race_odds` (and the drift of it), `get_odds_analysis`, `get_barrier_context`,
`get_external_runner_fit`, `list_races`, the win rates of trainers and jockeys, `get_racing_pulse`,
`get_barrier_analysis`, `get_heatmap`. An `ORDER BY` that does not order everything with a `LIMIT`
chooses among the rows that tie (`Tops`, `Orders`). The filters of the barrier analysis and of the
heatmap are `client.where`: for each column asked for, the values it may take.

The tables at the start are those of some earlier loads: `Before[k]` are the tables a request of
kind `k` may find, `About[k]` the requests. `Marketed` says what the loader's market statements
leave of an entry (prices in the order they were fetched, counters that are the movements counted),
`Document` what a document says of a race, and `ReadAssumption` asks both only of what the model is
given. That the loader keeps `Marketed` is proved, not assumed.

### Properties

| Property | Says |
|---|---|
| `TypeOK` | types of tables and answers |
| `AnalysisIsBacked` | an odds analysis counts no movement it does not list, unless bigger ones fill the list: this rests on the order of two statements in the handler and of two in the loader |
| `ZonesAgree` | the zone a runner is shown in before the race is the zone its result is counted in, when it kept its barrier, for the same field of two or more |
| `FitLooksBack` | a race never counts in the fit of its own runners: while only it is loaded, results included, a record changes only with the horse, or with the track, distance or going it is of |
| `PagesCover` | the pages of an unchanged list, when they are enough for it, have a place for each race; races that tie may take each other's, on pages that are cut apart |
| `SeriesSpans` | a thinned series keeps its order and first price and, while nothing is loaded, has as many prices as allowed and the last one (rounding half to even included) |
| `SplitsAddUp` | people split by track or barrier account for the same runners, wins, places and profit as unsplit |
| `PulseAddsUp` | the tables of the pulse account for what its totals say, and for at least that while a load runs, but for races that were moved to another day or track |
| `SampleCoversBarriers` | both statements of a barrier analysis speak of the sample there was when it was asked for, under the filters of the request, but for the races loaded meanwhile |
| `HeatmapIsNotBlank` | a track with results under the conditions asked for has a heatmap, whether or not the stored cells know of them |

### Bounds

A race of the day before with three runners, today's with four, two horses and several people in
both, one without entries. The documents bring a scratching with new prices and barriers (one of
them NULL), results with another going, results with a position 0, another distance, a barrier taken
away and another day of the meeting, and corrected results of the day before with another distance,
going and barrier. The lists have two races of the same number in one meeting, and in two meetings
of one track and day. The barrier and heatmap requests filter by track, going and distance, by
values that the documents change. One run of the loader around a request, two where a correction
matters, of which each may fail after each statement; one request of a kind, three pages for the
list, two for fit and people. Series of 1, 6, 7, 9 and 12 prices thinned to 5 meet both roundings of
a half. No fairness: nothing is claimed to happen. `CHECK_DEADLOCK FALSE`: requests and loads are
counted.

Seen while modelling: a race that is corrected between the two
statements of a barrier analysis may be in one of them and not in the other, so a barrier with one
runner may stand beside a sample of no race; races of one track, day and number may be on two pages
or on none; the context's zone counts scratched entries and the outcome's only unscratched
ones that were placed, so the two agree when both count the same; the stored heatmap's `win_rate` is
the share of a band's wins and the derived one a strike rate, and a band without wins gives a NULL
that ends in a 500 (`Answer.error`); the total of a page past the end is 0; sorting by ROI puts
people without prices first; a favourite may be scratched, and races that have not been run count in
`favourite_win_rate`; steamers and drifters ask for movement types (`market.py:133`) the loader
never writes (`load_tab_event_payloads.sql:702`); nothing writes `barrier_statistics`.

## 8. The assistant

### Model

A question is a set of phrases, with what the extractors find in it (a time, a track, a distance, a
condition, a search term, a runner). A phrase sets off all rule terms inside it: most tests of the
code are substring tests. A statement has what the validation sees (`seen`: the names its expression
finds after FROM and JOIN; the WITH names; `first`: the first LIMIT), what it does (`reads`: the
tables it reads; `limit`: the LIMIT of the whole), and for every placeholder the kind of value it
stands for beside the kinds of the arguments. The rules put every table after a FROM or JOIN of its
own, so `reads` is `seen` there, less WITH names and `lateral`. The statement of a language model is
under no such rule, and `reads` is any set.

Each of the 23 rules of `build_rule_based_plan` is an operator (`MarketMovers` to `RecentRaces`)
that gives its plan or `NoPlan`; `InOrder` is their order and `BuildRuleBasedPlan` takes the first
that applies. `ModelAnswers` and `ModelFails` are `OpenAIProvider.translate`, which validates its
own statement and answers None otherwise; `UseRules` and `Check` are `resolve_plan`, which validates
whatever it got; `Execute` and `ExecuteFails` are the router and `execute_readonly_query`.

### Properties

| Property | Says |
|---|---|
| `TypeOK` | types; a plan is always there when one is needed |
| `StatementsGuarded` | a rule's statement that runs reads allowed tables only and has a LIMIT of at most 200 on the whole; of a model's statement the names seen are allowed, WITH names or known expressions, and the first LIMIT is at most 200 |
| `NeverRefused` | no question ends in a 400: every rule's statement passes the validation |
| `RulesBind` | every placeholder of a rule stands for the argument of its number, for every combination of optional filters |
| `SummaryTableNamed` | a question that names a daily summary is answered from it, though the name contains other rules' words |

### Bounds

Questions of one or two of 36 phrases, one or two for every intent, among them all whose words are
inside those of another rule; two phrases are what two rules need to compete. Model statements:
good, without LIMIT, limit 0, too large, limited inside, a table that is not allowed, one that is
not seen, a WITH name, an expression name. A question is one run of at most five steps, without
fairness and with `CHECK_DEADLOCK FALSE`, since it ends.

`docs/api-spec.md:548` promises "allow-listed tables only". The validation finds one name after each
FROM or JOIN (`assistant_service.py:371-378`) and leaves out WITH names whatever else they name
(`:377`), so the promise is kept for the rules' statements and cannot be stated for a model's:
`StatementsGuarded` says what the check does establish there, and nothing about `reads`. It looks at
the first LIMIT of a text, so a model's statement may be limited only inside (`limit` is free for
it); the names of `TABLE_EXPRESSION_KEYWORDS` pass unchecked, none being a table. A model's
statement with placeholders has no arguments and ends in a 500; "market signals" is answered by the
odds rule; "today" does not narrow the rules for smart money, stables, patterns and people.

## 9. Where the code disagrees with its documents

Each of these runs checks one property, which states what the repository says, and ends with a
counterexample.

- `race_day_cancelled`, `SelectKeepsScans`. `select_meeting` refuses to abandon a meeting with
  progress ("Close the active meeting's races before selecting another meeting", `race_day.py:327`).
  It asks for progress after locking the meeting run only, and `set_phase` locks the session, the
  race run and the race: a scan that starts after the question and before the commit is abandoned
  with the cancelled meeting.
- `gate_excess`, `ExcessIsRefused`. `docs/security.md:44-46` says that quotas are counted in Redis,
  reconciled with `tenant_usage`, and that excess is answered with 429. The two are never
  reconciled: with a quota of 1 and one failed Redis call, two requests are served.
- `ingest_gaps`, `NoHistoryGaps`. `tests/test_tab_poller_lookback.py:9` says that a "transient poll
  failure must not leave history gaps". A load of an old race that stops between the repair of its
  entries and its barrier outcomes leaves a race with results and no outcomes which the target query
  (`poll_tab_events.sh:104-112`) does not ask for again.

## 10. What is proved

All proofs are for every value of the constants that satisfies the named assumptions, which TLC
evaluates on the instances.

**`RaceDayProofs`** (from `CardAssumption`: races belong to one meeting and have distinct numbers in
it, entries to one race; `NumberAssumption`; `NullAssumption`). `TypeCorrect`, `LocksCorrect`,
`OneRaceAtATime`, `ScansCanFinish`, `ScansHaveFrames`, `ArchiveKept`, `QueueImplemented`. None of
the four safety invariants is inductive alone. `OneOpenRace`, for one, is kept by `SelectCommit`
only because the races a re-selection read are still what they were, and by `OpenNext` only because
the race chosen in `CloseBegin` is still locked: both follow from `LockedReadsHold`, which says what
a transaction knows at each of its stages (`SelectOK`, `CloseOK`), that no row is held twice
(`LocksOK`), and what the committed tables satisfy between them (`TablesOK`). The inductive
invariant is the conjunction of `TypeOK`, `LockedReadsHold`, `OneOpenRace`, `ActiveScanCanFinish`
and `PastPhaseHasFrames`; one step per action shows that it is kept. `ArchiveKept` and
`QueueImplemented` are properties of steps and use the invariant of the state they start in:
`SelectCommit` maps to `Start` or `Extend` of `MeetingQueue`, `OpenNext` to `Advance`, `CloseLast`
to `Complete`, everything else to a stutter.

**`RequestGateProofs`** (from the assumptions of `RequestGate` on its constants). `GateTyped`.
`LimitCorrect`: what passed a bucket never exceeds the counter of it, nor the limit; the counter is
tenant-wide and the limit per key, and lost answers only push the counter up. `FallbackCorrect`: a
bucket of the clock meets at most two windows of a worker, since a window is as long as a bucket;
the invariant splits what passed in a bucket into what passed in an earlier window (at most the
limit) and in the current one, whose first request may have been before the bucket began (hence the
less one). `DeadSecrets`: a secret that was dead has a generation below the stored one or its row is
inactive; a later rotation activates the row with a new generation, so it never becomes valid again.

**`TabIngestionProofs`** (from `DocsAreDocuments`, `PlacesAreCounted`, `BoundsCounted`,
`NobodyPolls`). `IngestionTyped`. `LoadsAgree`: the invariant adds to `CompletedLoadAgrees` that
only the holder of the lock is past its start (`LockHeld`) and what each stage of a load has
established for the races of that load (`HalfLoaded`); races outside it agree unless they are
`torn`. `KeepsCard`: every step maps to `UpdateStatus`, `RecordPlacings` or a stutter of `RaceCard`;
the invariant `Declared` says that a poller past `LoadRaces` only has races that are on the card.

**`ScoringProofs`** (from `ScoringAssumption`). `NoDeadlock`: `LockOK` says that a transaction that
has written a row holds the advisory lock, and only one does; waiting for each other takes two.
`FieldsAreComparable`: `RowsOK` says that the rows of an open transaction are of its writer and its
time and, for each race they touch, of all runners in it but those in `missed`; `Join` adds to
`missed`, so it stays so until the commit, which leaves exactly those in `late`. `FeaturesOnRecord`
(the conjunct `OnRecord` of `PredictionsRecorded`): `LedgerOK` says that the ledger is never ahead
of the rows about to be written, so a row that is left out has a twin in the window before it.
`ScoringTypes`: `TypeOK` has no word on the rows a transaction holds, and needs `RowsTyped` for a
commit; that a probability is at most 1000 is the normalisation of a field by integer division, the
lemma `ProbabilitiesOfField`, for fields of any size with any prices missing. `FieldsAtMostCertain`:
a quotient rounded to the nearest is at most half a thousandth above the exact one
(`NearestRounds`), so a computed field adds up to at most that much per runner
(`ProbabilitiesOfField`); `RowsAtMostCertain` carries it from the reading of a race to the commit,
for every part of the field, since runners are withdrawn and put back meanwhile; and there `RowsOK`
is needed again, since a commit that replaced half a field could mix two sums: each race is replaced
whole but for those that joined. `PredictionsOnRecord`: the other conjunct, `StakesPay`, is
`StakeIsWorth`, arithmetic of the stake for every probability and price.

**`SumTheorems`** (no assumptions). The module the proofs about sums rest on. A theorem that takes
the claim as an operator cannot be instantiated by the provers, so each induction here is over a set
`G` of what the claim holds for, and is a case of the minimum principle of well-founded orders:
`SubsetInduction` and `ElementInduction` for finite sets, `NumberInduction` for numbers. From them
follows what `SumFunctionOnSet` of the community modules computes (a fold with a CHOOSE for the next
element): it does not depend on the order (`SumIsSum`), it grows with the set and with the function,
a filter may move into the function (`SumOfFilter`), a set may be renamed (`SumOfImage`), a sum of
ones counts (`SumCounts`), and a sum over parts is the sum of the parts' sums (`SumOfParts`).

**`ReadApiProofs`** (from `ReadAssumption`: documents are about runners of their race, and the
tables at the start are the loader's work). `ZonesStayed` and `RecordsAreOfThePast`, from one
inductive invariant: `TablesOK` (each outcome's zone is of `OutcomeZone` over its own barrier and
field), `LoadOK` (a run works on one race, with a document of it), `ClientOK` (nothing is held over
from one request to the next), `ContextOK` (a context's rows are of `ContextZone` over the barrier
and field they show) and `FitOK`. The step between the two zone formulas is arithmetic of thirds,
the lemma `SameZone` for all fields of two or more. `FitOK` says that an answer about a race is what
the tables say of its horse and conditions without the race: a load of the race touches no other
race's results, horse, distance or going, and another day or track of a meeting they share puts the
other races into `loaded`. `HeatmapsShown` and `SamplesCover` add `KnownOK`: the outcomes of races
that were not loaded since the request came are the ones there were then. So what each statement of
the request sees is those and outcomes of loaded races (`Sampled`), of which there are at most as
many as loaded races have entries (`SampleCounts`); `HeatmapOK` carries the same from the question
to the fallback's cells. Nothing is assumed of barriers: two runners of a race may have the same.

**`ReadStatProofs`** (from the same). `ReadTypes`, from the invariant `Base`, which adds to the one
above that the market of every entry is the loader's work at any point of a run (`MarketOK`: prices
fetched later come later in a series, except those a run in progress has yet to write, hence
`Latest`), the step of a run, the clock and how many answers there are. A step either leaves what
the client has read alone and takes nothing an answer is made of from the tables (`Quiet`), begins
the first request, where `loaded` is emptied (`Opened`), or is one statement of it (`Serve`), and
each result below is an invariant of what the statements read so far, kept case by case:

- `AnalysesAreBacked` (`AnalysisOK`). The counters read second count movements that were there
  (`Counted`), movements are never taken away (`Grown`), so those read third back the row. The order
  of the loader's two statements is in `Marketed`, that of the handler's in `Counted` and
  `RowBacked`: with either reversed the invariant is not kept. What a full list leaves out is an
  argument about a finite order: anything absent from a list that is not full was not there.
- `SeriesAreSpanned` (`OddsOK`). The indices of a thinned series are a recursive function. It equals
  its closed form (`IndexIsNear`, `SampleIndexIsNear`) by induction: the rounded steps are already
  increasing, so neither the correction of a repeated index nor the cut at the end ever applies
  (`NearGrows`, from rounding half to even keeping distances of one and more, `RoundGrows`). The
  limit is at least two, as `MAX_ODDS_SNAPSHOTS_PER_ENTRY` is: one price is not both ends.
- `PulsesAddUp` (`PulseOK`). The groups of a table partition the races of its window, so their sums
  are the window's (`GroupsCover`, from `SumOfParts`); while a load runs the window only grows, but
  for the races moved (`WindowGrows`), so tables read after the totals account for at least as much.
- `SplitsAreParts` (`PeopleOK`). The items of a split partition the rows of a person, and a column
  of an item is a sum over its rows (`ColumnIsSum`), profit included: rounding is of the rate shown,
  not of the sum.
- `PagesAreWhole` (`PagesOK`). The order of the list is a strict weak order (`RacesAreRanked`): the
  races before r, and those before r or level with it, are initial segments of every sequence a page
  may be cut from (`FirstPlaces`), so a group of ties has the same places in all of them
  (`PlacesOfTies`), whichever of them each page was cut from. A place is one place of one page
  (`PlacesOfPages`: quotient and remainder). Races may tie; no key is assumed.

**`RequestGateProofs.QuotaCorrect`**: `QuotaBounded` is not inductive. The invariant counts where a
request that is served can come from: what was served today, with the requests that have passed and
wait to be served, is within the quota less one, the requests in flight, the faults and what Redis
granted, which is its counter or the quota, and the quota more once the counter has expired
(`Room`). A request that was served today has left a row, is about to write it (`Recording`), or is
one of the faults (`RowsLeft`); those that are about to write and those that wait to be served are
different requests in flight, so the database lets nothing more pass than fits. Nothing is served
on a later day (`NoneTomorrow`), and midnight turns `Room` into the bound of the day that ended
(`PastDays`). `KeptToday` is the frame: what a step within a day cannot disturb.

**`AssistantProofs`** (from `AssistantAssumption`: rule tables and aliases are allowed tables; model
statements have no arguments; `NoPlan` is not a statement). `Guarded`, `AnswersAll`,
`RulesAreBound`, `SummariesAnswer`, for every vocabulary and whatever the language model answers.
One lemma for each shape of rule shows that its plan is `Good`: guarded and with its arguments in
step, which for optional filters is `InStep`, kept by `AddFilter`. `Built` shows that the rule
chosen is the first that applies and that one always does (the last). The invariant `Planned` says
that what is checked or run is the rules' plan of the question or a statement that was found
acceptable. `AssistantTypes` needs all of it: a plan is there when one is checked because `Built`
says a rule applied, and the limit the second validation puts is no change because the plan has
passed one.

**Only model-checked**: the liveness properties (`RequestsEnd`, `EndsAreNoticed`, `PlacingsArrive`,
`RacesAreScored`), since fairness and ENABLED are outside what TLAPS checks. Every type invariant,
safety invariant, action property and refinement the passing runs check is proved. The violations
are counterexamples and need no proof. No module declares a RECURSIVE operator: the proofs about
them would lose their SMT backend.

## 11. What is not modelled

- **Market history and retention** (the loader's pools, signals and smart money,
  `prune_data_retention.sql`, the services that stop and start the poller's timer). The next thing
  to model. The observations of the loader that `ReadApi` reads (snapshots, ticks, movements,
  analytics) are in that module, without pruning. Hazards seen there: ticks that TAB repeats in
  `last_six` are pruned and inserted again by every later poll, and added to the daily summary once
  more (the statement at 660-673 of the loader has no window); opening prices are recomputed from
  the ticks that are left; the windows of the signals are literals while retention periods are
  environment variables; a late fluctuation never revises the movement computed without it; a prune
  that is capped may fall behind; the first of two maintenance services to finish restarts the
  poller under the other.
- **Feed consumer and live fan-out**. Fetching, storing and writing are stubs that return constants;
  what is there is seen but not covered: `last_sequence` advances before segments are stored; a
  cache miss that races an invalidation stores its old answer; a price is replaced before its
  movement is written; segments are published on another channel than the sockets subscribe to; the
  greeting precedes the subscription.
- **Operator session cache**: the deadline is computed from a time taken before the identity call.
- **Discovery**: its scanners only log; its schedule sleeps 23 hours after each run.
- **Ledger outcomes** (`record_prediction_outcomes.sql`): attached once, a corrected result never
  reaches them.
- **Read API, the rest**: handlers of one statement, the race analysis package, replay, the
  endpoints of weather and condition readings, and handlers that return constants. They have no step
  between two statements.
- **Ingestion**: result rows are never deleted, so a runner disqualified later keeps its result; the
  loader's statements for pedigrees, weather and data quality. (Those for meetings, runners and
  conditions are in `ReadApi`, where something is read from them.)
- **Health check** (read-only), **web client** (shows answers), **migrations and repairs** (run once
  beside stopped services; their indexes, defaults and states are in the modules that use the
  tables), **media workers and providers** (placeholders).

Known limits of the models above: one tenant and one path in the gate; one meeting in ingestion; one
client in the read API, since requests share no state; there, a document names all runners of its
race, and condition readings come from the loader only; the Race Day dashboard's reads, which change
nothing; skips of runners whose race is complete, archived or of a cancelled meeting are allowed, as
in the code, and no property is claimed of them.

## 12. Running

In this directory:

```
tlc -config MCRaceDay.cfg MCRaceDay                     # race_day           about two minutes
tlc -config MCRaceDayRequests.cfg MCRaceDay             # race_day_requests
tlc -config MCRaceDayCancelled.cfg MCRaceDay            # race_day_cancelled (a counterexample)
tlc -config MCRequestGate.cfg MCRequestGate             # gate               over two minutes
tlc -config MCRequestGateQuota.cfg MCRequestGate        # gate_quota         under a minute
tlc -config MCRequestGateExcess.cfg MCRequestGate       # gate_excess        (a counterexample)
tlc -config MCTabIngestion.cfg MCTabIngestion           # ingest_load
tlc -config MCTabIngestionProgress.cfg MCTabIngestion   # ingest_progress    about one minute
tlc -config MCTabIngestionGaps.cfg MCTabIngestion       # ingest_gaps        (a counterexample)
tlc -config MCScoring.cfg MCScoring                     # scoring            under two minutes
tlc -config MCReadApi.cfg MCReadApi                     # reads              under a minute
tlc -config MCAssistant.cfg MCAssistant                 # assistant          under a minute
tlapm RaceDayProofs.tla
tlapm RequestGateProofs.tla
tlapm TabIngestionProofs.tla
tlapm ScoringProofs.tla
tlapm SumTheorems.tla
tlapm ReadApiProofs.tla
tlapm ReadStatProofs.tla                               # about two minutes
tlapm AssistantProofs.tla
```
