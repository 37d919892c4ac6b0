# trade-alert in TLA+

trade-alert collects market signals, lets a language model propose trade
playbooks, filters them through gates and sends what is left to Postgres, to the
trade-execute service and to Discord. These modules specify the parts of it in
which several processes share Redis, Postgres and two remote services, where a
call can fail, be repeated or take effect without its reply, and where a process
can be killed between any two calls; and, of the agent framework vendored under
`src/`, the chat page, whose requests, histories and stops overtake one another.

Paths below are relative to the repository.

## 1. The system

    cron (flock per timeframe) ----\
                                    >  pipeline_runner.py  workflows/*.yaml
    Discord bot  !scan (no lock) --/          |
                                              v
      flush queue -> 7 collectors in parallel -> merger -> decision -> notifier
                            |                      ^         |   |       |
                            v                      |         |   |       v
                     Redis snapshots:* ------------+         |   |   Redis notified:alert:*
                     Redis dedup:alert:*, watch:decay:* <----+   |   Postgres alerts, execution_deliveries
                                                   LLM <---------+   trade-execute (webhook), Discord
      cron: outcome tracker (reads and resolves Postgres alerts), healthcheck,
            state and end-of-day summaries, retention

Components, the state each keeps and what it does:

| component | state | operations | talks to |
|---|---|---|---|
| `notifier_and_logger.notify`, `alert_logger`, `execution_*`, `notifier` | Redis `notified:alert:*` keys (TTL), Postgres rows, dispatched flag, audit rows, Discord failure count per process | claim a dedup key, cap, insert, dispatch, POST, mark, send | Redis, Postgres, trade-execute, Discord |
| `pipeline_runner.run_workflow` | one frame per invocation: step, attempt, results | load, run, retry, give up, call, join, handlers | threads, other workflows |
| `validate_and_filter` with `gates/dedup`, `gates/watch`, `gates/redis_circuit` | Redis `dedup:alert:*` keys and `watch:decay:*` counters, a breaker per process | claim, rank, drop decayed, cap, count, graduate, clear | Redis |
| `gates/candidate_pipeline` | none (one candidate at a time) | 13 stages that reject or lower the confidence | - |
| collectors, `merger` | Redis lists `snapshots:15m`, `snapshots:1h` (TTL 1200 s) | flush, push, read up to a cap, merge per symbol | MCP servers, Redis |
| `outcome_tracker`, `outcome_queries` | `alerts.outcome` columns; forecast cache per cycle | read open rows, price, evaluate, write, expire | Postgres, price APIs, TimesFM |
| `resilience/*`, `telemetry/client` | failure counts, open-until times | check, record success or failure, back off | - |
| `discord_bot` | last message id, processed set (memory) | poll, run `!scan` as a subprocess with a 300 s limit, status commands | Discord, runner |
| `healthcheck` | `watchdog:zero_alerts:*` counters, a log file | probe each service, count alert droughts | all stores |
| prompts, LLM client, normalizers, embeds, charts, dashboards, telemetry, MCP servers | none that the others read back | arithmetic, text, views | external services |
| chat page of `src/frontend_workspaces/frontend`, `event_stream` and `/stop` of `src/cuga/backend/server/main.py` | selected, active and global thread id, a skip flag, the widget's transcript and lock; stop flags and saved conversations of the server | pick, new, restart, send, approve, stop; load a history; stream until an answer, card, error or stop | each other, over HTTP |
| the rest of `src/cuga` and of the frontends | - | the vendored agent framework; the pipeline does not run through it | - |

What is hard about it:

- Runs overlap. `flock` (crontab 10-15) keeps a cron pipeline from overlapping
  itself; the 15m and 1h pipelines overlap each other, and a `!scan`
  (`discord_bot.py` 147-196) overlaps anything. Redis keys are the only
  coordination between them.
- Runs die. The bot kills a scan after 300 s, whatever it is doing.
- Replies are lost. The Redis client is created with `retry_on_timeout`
  (`redis_client.py` 47-60) and sends a call again; the webhook and the Discord
  client have retry loops of their own.
- Most failures are swallowed and the next thing is done. Which state is
  then left behind is seldom tested.
- The chat page keeps one thread id in four places (two React states, a global of
  a module, the last rendered prop) and clears one flag in an effect and sets it in
  a callback; whatever was awaited comes back to a page that has moved on.

What makes each component correct is stated as properties, section 3; the
`hazards` of `PROJECT.json` name the lines where each could go wrong.

## 2. The modules

| module | models | runs |
|---|---|---|
| `AlertLedger` | what delivery promises per alert: recorded before ordered or announced, only LONG and SHORT ordered, nothing taken back | - |
| `AlertDelivery` | `notify()` and everything it calls, for any number of overlapping runs | `delivery`, `delivery_live`, `delivery_suppressed` |
| `AlertDelivery_proofs` | theorems about it | - |
| `WorkflowRunner` | `run_workflow()` and its tree of invocations | `runner`, `runner_total_failure` |
| `WorkflowRunner_proofs` | theorems about it | - |
| `CandidateGates` | the thirteen stages that decide on one candidate, and the thresholds they use | in `DecisionStep` |
| `GateState` | the Redis state of `validate_and_filter()` for one timeframe | in `DecisionStep` |
| `GateState_proofs`, `GateBudget_proofs` | theorems about it | - |
| `DecisionStep` | `validate_and_filter()` as a whole: both of them | `gate_state`, `gate_dedup` |
| `DecisionStep_proofs` | theorems about it | - |
| `SnapshotQueue` | the snapshot lists of both timeframes: flush, collectors, merge, for one symbol | `snapshots`, `snapshots_mixed` |
| `SnapshotQueue_proofs` | theorems about it | - |
| `OutcomeTracker` | the trackers that resolve open alerts, from cron and as a loop | `tracker` |
| `OutcomeTracker_proofs` | theorems about it | - |
| `ChatSession` | the chat page, its widget, and the streams and stops of the server | `chat`, `chat_history` |
| `ChatSession_proofs` | theorems about it | - |
| `MCDelivery`, `MCRunner`, `MCGate`, `MCSnapshots`, `MCTracker`, `MCChat` | the instances for TLC | |

### AlertDelivery

State: `held`/`epoch` are the `notified:alert:*` keys and how many of their
windows have closed; `rows`, `marked`, `audit` the Postgres tables `alerts`
(with `execution_dispatched`) and `execution_deliveries`; `orders` the
idempotency keys trade-execute has accepted; `announced` what is on Discord.
Per run: `pc`, the items not yet deduplicated (`inbox`), those admitted and not
finished (`queue`), the row being delivered (`cur`), the attempt of the current
HTTP call and the failure count of the Discord breaker. `won` and `suppressed`
are history.

One action per call with an effect others can see: `Claim` (SET NX EX, with a
lost reply and a RedisError that lets the alert through), `Cap`, `Persist`
(insert, or a failure whose INSERT may have committed), `Dispatch` (the flag is
read, the payload checked), `Post` (accepted, to be retried, given up; the
receiver may have accepted a POST that failed), `Mark`, `Send` (the breaker, the
retries, the answer) and `Return`. `Crash` may happen between any two of them and
`Expire` ends a dedup window at any time. A row id stands for the UUID
idempotency key, which is made once per row (`alert_logger.py` 146) and reused
by every attempt. Payloads, embeds and message texts are abstracted; that
building them may raise is kept.

Each alert is proposed to one run and once; a second proposal of the same
symbol and direction is another alert with the same key.

### WorkflowRunner

`frame[w]` is the latest invocation of workflow `w`; a frame has the index and
attempt of its step, whether it waits for called workflows, and a result per
step: `unset`, `ok`, or `none` when the step gave up. `Load`, `Skip`, `RunPlain`,
`RenderFails`, `Call`, `Join` and `EndLoop` are the branches of `run_workflow`
and `_execute_step`. A plain step returns or raises, nothing else is known of
it. The steps are a constant: `MCRunner` gives them the structure of
`orchestrator-15m.yaml`, `orchestrator-base.yaml` and the decision workflow.
`Root` is called by nobody and each workflow by one step, as in
`workflows/*.yaml`; that is `RunnerAssumption`.

### GateState

`key[c]` is the run that set the dedup key of candidate `c` (or `NoRun`),
`cycles[s]` the WATCH counter of a symbol. A batch is a sequence that may hold a
candidate twice, and `alerts[r]` are the positions of those the run still has
(`Held(r)` the candidates at them): with Redis failing, the same WATCH can be let
through and counted twice by one run. A run takes its candidates one by one
(`Evaluate`; those outside `Passing` are rejected and touch no key), drops its
WATCHes if one is directional (`Rank`), drops the decayed ones (`DropDecayed`), caps
the rest (`Cap`), counts what it keeps (`Count`), and clears the counters
(`Graduate`) and keys (`Clear`) of the symbols that went directional. Each step can
be skipped because the run's breaker is open, can raise, or can be sent twice.
`Retry` is the runner's second attempt after an exception, `Crash` a kill,
`Expire` the TTL of a key (300 s or 900 s, longer than the step, so it does not take
the key of a run at work), and `Forget` that of a counter, which `watch.py` 65
renews to 24 h with each count: it runs out under no run that has just counted.

The ranking of the WATCHes is left open: any subset of the right size may
be kept. The three deletes of `_reset_dedup_keys` are one step when all of them
succeed, and when one raises those before it have been made; each property speaks
of one key at a time or of the WATCH key, the last. Not modelled: the 60 s window
after which a breaker closes (the step is shorter; in `Open` it stays open to the
end of the run), the promotion text and session statistics.

### CandidateGates and DecisionStep

A candidate is a record of what the language model claims (direction, edge
probability, confidence, sources) and of what the snapshots say about it (where
each signal family points, how many signal types there are, the forecast, a
volume spike, reward to risk, drift of the entry). Each of the thirteen functions
of `DEFAULT_STAGES` is an operator that adds reasons or lowers a value, composed
in the order of the code; `Regime`, `DynamicGates` and `Gates` are the thresholds
of a run in its market (VIX, risk-off, balance of signals, session). Values are
hundredths, drift thousandths, both exact where the code has floats; tunables
have their defaults.

`DecisionStep` puts both together: what a run lets pass has to be accepted in one
market (`DecisionAssumption`), and `Accepted` is everything that may stand behind
an alert a run holds.

### OutcomeTracker

Rows are numbered in the order of their insertion; `age` is fresh, past the
window of the timeframe, or a week old; `outcome` is the column, open for NULL.
A tracker reads the newest `Limit` open rows (`Start`), passes over the skipped
ones, gets a quote for one row after the other and judges it (`Judge`, or
`JudgeByForecast` when the row is in profit and the forecast is asked), and
writes (`Write`), which does not look whether the row is still open. A loop then
expires what is a week old (`ExpireStale`), and does so too when the market is
closed or the query failed and there was no cycle (`SkipCycle`; a cron process
then does nothing). `LeaveOpen` is a missing quote or a
write that raised, `Kill` a process that ends. A quote is what it means to the row
it was fetched for. The tightened stop is not stored anywhere: it can only turn a
slight profit into a loss at once, which is what `Tightened` says.

### ChatSession

The page has the conversation selected and the one active (states of
`ChatLanding`), the prop the effect of `CarbonChat` last ran for, the global
thread id, and the flag that skips one history load. The widget has the threads
on display, the approval cards, and the button that is Send, Stop, or pressed. A
request is a record on the client (`customSendMessage`) and one on the server
(`event_stream`). Clicks act on what is rendered; everything else interleaves:
`Render` after a callback has changed the selection, the arrival of a history,
the end of a stream, the end of an aborted request, a `/stop` in any order or
never. `BeginStream` clears the flag of its thread, `SeeStop` and `Conclude` look
at it.

The widget is a package, not in the repository as source; its behaviour is
modelled from how the page uses it and from the copy bundled in
`frontend/dist` (version 1.6.0): the map calls those definitions external.
Left out: steps and texts of an answer, variables and policies, the other
pages, and the agent itself, which answers, asks, raises, or goes on.

### SnapshotQueue

`list[tf]` and `ttl[tf]` are the Redis list of a timeframe and whether it has a
TTL. A run picks a timeframe (`Start`), deletes its list (`Flush`; a failure is
logged and the run goes on), and starts its collectors, whose store steps run in
parallel: `Push` and `SetTtl` for 15m, then for 1h, whichever timeframe the run
has. A call that raises (`StoreRaises`) makes the step start again or give up,
and the collector returns either way. When all have returned (`Join`) the run
reads its list and keeps, of the signals with one source, type and sign, the
strongest (`Merge`). A guard (`merger.py` 211-264) then compares the price one
forecast was made from with the price of one trend signal; where they are too far
apart, the forecast is handed on with score 0 and confidence 0.10, which `muted`
records (`GuardMutes`; `Stale` says which pairs are too far apart). The guard looks at
the stronger of two forecasts of opposite sign only, the other passes unexamined,
and a tie is broken by their order in the list, here either way. `Crash` kills a run with its collectors, `Expire` is a TTL
that runs out.

A list is a set: the merge does not see the copies a retry leaves, and order
matters to it only when `LRANGE_CAP` cuts the list, which is modelled as a read
that may miss any entries. The ranking of symbols is the choice whether this
symbol is handed on; the code ranks by the scores before the guard. Not modelled:
strength and freshness of the merged symbol, its composite flags (one of them
raises the confidence of a trend signal by 0.10 and changes no score),
`universe:equities`, `macro:regime`.

## 3. What is checked

All instances are finite; every bound is named here and in the cfg.

**delivery** (2.5 million states). A cron run proposes two LONG alerts, one more
than the cap, and a WATCH; a scan proposes the same WATCH. Two POST and two Send
attempts, so each retry loop has a first and a last round; a breaker that opens
at the first failure, so that it is open for a later alert of the run; the
contended key expires once, so that the same WATCH is sent in two windows.
`PersistFirst`, `OneOrderPerAlert`, `WatchNeverOrdered`, `MarkedMeansAcked`,
`AuditIsTruthful`, `OneWinnerPerWindow`, `CapsHold` and the refinement
`ImplementsLedger` hold.

**delivery_live**. The same code under `FairSpec`, with one alert per run:
liveness concerns each run alone. `DiscordNotBlocked` (a row that enters the
execution branch comes out at the Discord send) and `EveryRunEnds`.
Fairness is weak and per run: a process that is not killed takes its next step.
The code justifies it, since each remote call has a timeout (webhook, Discord,
Redis, Postgres) and each loop a bound. Without a crash a run ends because of
the bounds, not because it is killed: the mutant whose send loop starts over is
caught.

**delivery_suppressed** (violation). `SuppressedOnlyIfNotified`, the docstring
of `_is_duplicate_alert`, fails: the key is set first and everything else comes
later. TLC's trace is the shortest of several: a SET whose reply is lost is
sent again by the client, finds the key of its first attempt, and the alert is
dropped as its own duplicate.

With `TRADE_EXECUTE_DRY_RUN` the row is marked dispatched although trade-execute
was not contacted: the flag does not tell a rehearsal from an order. The runs
have it off, and the theorem on the mark assumes so.

**runner** (54,134 states). An orchestrator, two parallel collectors (one of them
with `abort_on_failure`), a merger, a decision, a notifier that is called only
when there are alerts, and a failure handler; two attempts everywhere but in the
notifier. Two collectors are enough for a join to meet one that is done and one
that is not, and two levels of retry for one to be multiplied by the other.
`AttemptsHold`, `HandlersFollowFailure`, `NothingSkipped`, `AbortStops`,
`NoOrphans`, `InputsReady`, and `RunEnds` under weak fairness of each frame (a
thread that can move does; a plain step returns or raises because its calls have
timeouts).

**runner_total_failure** (violation). `orchestrator-base.yaml` 302 says of its
handler "On total pipeline failure, notify ops channel". A called workflow whose
steps all gave up returns its results as usual and a collector that raised
becomes `None`, so no step of the orchestrator fails and the handler is not run.

**gate_state** (546,458 states; the two cron runs are symmetric). Two cron
runs, one after the other, and a scan; three batches: a LONG; the same WATCH twice,
two of which fit the cap and one under stress; and the LONG of another symbol
beside a SHORT that the gates reject and a WATCH. One failure in all, one decay
cycle, a breaker that opens on the first failure, two expirations for one symbol, of
its keys or its counter. Wider settings (two failures, a breaker that opens at the
second) were run by hand for an earlier form of the module, without duplicates and
the expiry of the counter.
`RepeatsBounded`: since a symbol last went directional or its counter last expired,
a WATCH of it is let through by at most `WATCH_DECAY_CYCLES` runs, plus one per
failure and per key that a graduating run deletes under a run at work. The two
exceptions are real: take either out and TLC finds a trace. So is the expiry: each
count renews the TTL, but a decayed WATCH is no longer counted, and a day after
the last count it starts over.
`DirectionalKeyIsLive`: a run that returns in good order leaves no directional
key behind. A run that met a failure or was retried may leave one: the second attempt
finds the keys of the first and takes its own alerts for duplicates, and what it
drops it does not clear. That is in the model and no property forbids it.

The gates are evaluated on 2,496 proposals in 144 markets: each direction; edge
and confidence on either side of every threshold in force; the model's claim of
seven sources; no, weak, balanced and full evidence and its mirror image, with the
forecast for and against; VIX calm, raised and extreme; each session.
`WeakAlertsSuppressed`: with VIX above 25 no alert against the tape is weak. The
VIX gate itself cannot see to it for LONGs: it leaves out the regime every such
LONG is in, and only the thresholds raised in that regime stop them (with
`DYNAMIC_GATES_ENABLED` off nothing would).
`ExtendedHoursStricter`: pre- and after-market never admits what regular hours
reject, but for the wider drift gate and for one surprise: the confidence penalty
can take an alert below the bar from which more agreement is required, and so
admit it. Without that exception TLC finds it.
`OwnEvidence`: whatever is claimed, a LONG or SHORT rests on three signal types and
two families of its own. Two is what the code gives: the macro context of the
market and a forecast bonus each count as a source. No run of the instance holds a
SHORT (its market rejects the one proposed), so for the alerts of a run these three
say something of LONGs and WATCHes here, and of SHORTs by the theorems of section 4.

**gate_dedup** (violation). The CHANGELOG promises dedup of directional alerts
with a TTL; `validate_and_filter.py` 398 clears the keys of every directional
symbol, those the run has just set included, so the next run passes the same
alert. What still stops it is the notifier's key.

**snapshots** (2.5 million states). A cron run and a scan, which may take the
same timeframe or one each, with two collectors: one whose workflow has no
retry, as `collector-events.yaml`, one with a second attempt. The runs disagree on the sign
of one signal, the trend, and on the strength of the other, the forecast, so that
both cases of the merge's key occur, and each forecast is stale beside the trend of
the other run, so that one is muted when the two runs mix. One failure, cut read or kill in all, one expiry; two
failures (16 million states) were run by hand for an earlier form of the module
and hold as well. With a single cron run the lock of `crontab` never refuses
anyone: a scan beside it is the more permissive pair.
`OwnSignalsMerged`: what a run stored comes out of its own merge, or a stronger
signal of the same source, type and sign does, although the other run flushes and
pushes at the same time; and with the score it had, unless it is a forecast that is
stale beside a trend signal the run merged. The excuses are recorded as they happen (`robbed`): its list was flushed by a run of
the same timeframe, expired, was cut, or its symbol was outranked.
`TtlRestored`: a list without a TTL holds an entry whose store step is still under
way, or was given up or killed.

**snapshots_mixed** (violation). The flush step of `orchestrator-base.yaml` says
(line 33) that it keeps old and fresh data apart. With no failure at all a run
merges what a run of the other timeframe had pushed before the flush: every
collector goes on to push to the second list.

**tracker** (40,036 states). Three alerts of one symbol; a cron tracker alone that
meets one WATCH row or two, which fill its query of two, a standalone loop alone, or
both; two missing quotes, failed writes or kills in all.
`OverwriteNeedsOverlap`: a row that has its outcome is judged again only by a
tracker whose query was before the write. `FinalWhenAlone`: with one tracker an
outcome is final. `LossInProfitHasForecast`: a row in profit becomes a loss only
after the forecast disagreed in the same cycle; the answer may have been given for
another row of the symbol, of the other direction even, which it does not
exclude. `ResolvedOrOutOfReach`: every row
is resolved in the end, except a skipped row and those that `Limit` newer skipped
rows hide, and these only where no loop is deployed. Fairness is weak: time passes
and each tracker goes on (cron starts a cycle every 15 minutes, each call has a
timeout), where a loop may find the market closed every time. The rows end: that
WATCHes which keep arriving, `Limit` of them within a week, hide an older row from a
loop for ever is not explored.

**chat** (515,692 states). One saved conversation and two new ones, two messages or
approvals, three clicks (picks, new, restart, stop). Three requests with two
clicks (987,783 states) and two requests with four clicks (2,041,985 states)
were run by hand and hold as well.
`NoLeftoverStop`: a stream is stopped only by a stop that arrived while it ran.
`StopTakesEffect`: and such a stop ends it, unless another stream of the thread
begins first and clears the flag. Fairness: a running stream whose flag is set
gets to look at it, because its agent goes on producing events; a browser and a
user owe nothing. `InputComesBack`: the input stays locked only while a message on
display is under way or has ended without a final response, which errors,
cards and cancelled requests do: then only clearing the chat unlocks it. Those stuck
inputs are the code's behaviour, and the property excuses them.
`FinishKeepsPick` and `MessageGoesToPick`: requests of the past, which report the
global thread of a later moment against the selection of an earlier one, neither
take the user away from a picked conversation nor get what is typed there.

**chat_history** (violation). "Load history when threadId changes": the flag that
skips one load is set after every message and spent only by a change of the
selection. After a second message in a conversation it stays set, and the next
conversation picked is shown with the transcript of the last one. That conversation
is read-only at first; when a request still under way ends and reports it as the
active one, it becomes writable, and the answer to a card left on display then goes
to its thread, not to the one that asked. The counterexample stops at the
transcript. A history that arrives after the user has moved on (`HistoryArrives`)
would violate the same property and is not needed for it.

Every property of a passing run has a mutant in `PROJECT.json`: a definition
changed the way a mistake in that code would change it, under which TLC finds
the property violated. The mutants stand in the modules beside the definition
they replace and are used nowhere else.

## 4. What is proved

`AlertDelivery_proofs` proves, for every set of runs, alerts and keys, any cap
and any retry bound, from `DeliveryAssumption` alone:

| theorem | property |
|---|---|
| `TypeCorrect` | `TypeOK`, and `Pointers`: a run holds a row id exactly while it delivers that row |
| `PersistFirstHolds` | `PersistFirst` |
| `OneOrderPerAlertHolds` | `OneOrderPerAlert` |
| `WatchNeverOrderedHolds` | `WatchNeverOrdered` |
| `AuditIsTruthfulHolds` | `AuditIsTruthful` |
| `MarkedMeansAckedHolds` | `MarkedMeansAcked`, with the further assumption `~DryRun` |
| `OneWinnerPerWindowHolds` | `OneWinnerPerWindow` |
| `CapsHoldAlways` | `CapsHold` |
| `Refinement` | `ImplementsLedger` |

`PersistFirst`, `OneOrderPerAlert` and `WatchNeverOrdered` are not inductive: they
speak of the rows and say nothing of the alerts a run still holds. The invariant
`SafeInv` adds

- `Ownership`: an alert is in the hands of its own run only, and what is still in
  the inbox is neither admitted nor recorded;
- `InHand`: of the admitted alerts only the one being delivered has a row, and in
  the execution branch it is LONG or SHORT;
- `OneRowPerAlert`: no alert has two rows, of which `OneOrderPerAlert` is a
  consequence because the order carries the row's idempotency key.

Why two rows are impossible: an insert takes an alert of the queue that has no
row (`InHand`), and whether it succeeds, fails or commits with its reply lost,
the alert leaves the queue or becomes the one being delivered. The audit and
mark theorems rest on `AckInHand` (a run about to mark has an accepted order),
the dedup theorem on `Windows` (a key won in the present window is held), the
caps on `CapInv` (the queue of a run counted together with its rows is within the
caps once they are applied, and only shrinks; before that no row is its own), and
the refinement on `SafeInv`: every step of a run is one ledger step or leaves the
ledger as it is. The row lemmas `RowAppended`, `RowsKept` and `RowOfCur` are
stated once and cited.

`OutcomeTracker_proofs` proves, for any number of rows, symbols and trackers and
any limit, from `TrackerAssumption`:

| theorem | property |
|---|---|
| `TypeCorrect` | `TypeOK` |
| `OverwriteNeedsOverlapHolds` | `OverwriteNeedsOverlap` |
| `FinalWhenAloneHolds` | `FinalWhenAlone` |
| `LossInProfitHolds` | `LossInProfitHasForecast` |

`OverwriteNeedsOverlap` is inductive beside the types: a query takes up open rows
only, and a write tells everyone who still has the row to look at. That a lone
tracker never overwrites needs `Resting` besides (who is not deployed has
nothing to look at, and nobody else's write can be missed). The forecast
theorem needs `CacheIsHeard`: a disagreement in the cache was heard in the same
cycle, because both are dropped together.

`ChatSession_proofs` proves, for any conversations and any number of requests and
clicks, from `ChatAssumption`:

| theorem | property |
|---|---|
| `TypeCorrect` | `TypeOK` |
| `InputComesBackHolds` | `InputComesBack` |
| `FinishKeepsPickHolds` | `FinishKeepsPick` |
| `MessageGoesToPickHolds` | `MessageGoesToPick` |
| `NoLeftoverStopHolds` | `NoLeftoverStop` |

The types are strengthened by `Threaded`: a request that was sent has a thread,
and the server knows those alone. Both theorems on the selection rest on
`PickStands`: while a pick stands, the global thread is the conversation picked,
so a callback that reports the global can only confirm it. `NoLeftoverStop` rests
on `StopInv`: the flag of a running stream was set while it ran, since the stream
cleared it when it began.

`WorkflowRunner_proofs` proves, for any tree of workflows, any steps and any number
of attempts, from `RunnerAssumption`:

| theorem | property |
|---|---|
| `TypeCorrect` | `TypeOK` |
| `NoOrphansHolds` | `NoOrphans` |
| `InputsReadyHolds` | `InputsReady` |
| `AttemptsHoldHolds` | `AttemptsHold` |
| `HandlersFollowFailureHolds` | `HandlersFollowFailure` |
| `NothingSkippedHolds` | `NothingSkipped` |
| `AbortStopsHolds` | `AbortStops` |

`CallersWait` joins `NoOrphans` and `InputsReady` and is inductive beside the types.
It needs of them that a frame that waits is live: a step that is due has no live
callee, so a call resets no frame whose own callees are still at work. That each workflow
is called from one step is what makes the caller unique; without it the statement
would be false. `AdvanceCases` says that every other step of the runner changes
one frame, which was not waiting or whose callees are over.
The other four follow from `FrameInv`, which speaks of one frame: a plain step
behind the current one was tried at most `max_attempts` times, the current one
`attempt - 1` times or `attempt` times while it waits, and those ahead not at all;
a handler was tried once if the second loop has passed it. `TriedInv`,
`SucceededInv` and `FailedInv` take it through a try, whether a plain step or a
join ends it.

`GateState_proofs` and `GateBudget_proofs` prove, for any runs, symbols and batches,
any thresholds and any number of failures and expirations, from `GateAssumption`:

| theorem | property |
|---|---|
| `TypeCorrect` | `TypeOK` |
| `DirectionalKeysAreLive` | `DirectionalKeyIsLive` |
| `WatchesStopRepeating` | `RepeatsBounded` |
| `AlertsHavePassed` | a run holds no alert that its own gates have not let pass (`AlertsPassing`) |

The types are strengthened by `MemoryOK`: a run that is not at work holds nothing,
and the runs at work are finitely many, since they start one by one.
`OwnStep` says that a step changes the memory of its own run only.
`DirectionalKeyIsLive` rests on `HeldInv`: while its run has met nothing, a directional
key stands for an alert the run holds, and then for a symbol it has yet to clear.
That is where the order of the code matters: the ranking keeps every directional
alert, and the graduations are taken from what it kept.

`RepeatsBounded` is the subtle one, since the counter is read in one call and
incremented in another. `Budget` counts, per symbol, the runs in flight:
`Hopeful` may still let a WATCH through, `Certain` will do so whatever the counter
says, `Extra` are those that do not own the dedup key or whose breaker is open.
It says that the extra ones are paid for (a failure, or a key that was cleared
under its owner), that the repeats and the extra ones exceed the counter by no more
than what is paid, and that the repeats and the certain ones exceed
`WATCH_DECAY_CYCLES` by no more than that. A run that passes the check for decay
becomes certain: then the counter is low, and all hopeful runs but the owner of the
key are extra, so that the third part follows from the second. A count takes a run
out of the certain ones; a reset starts from the extra ones alone, with the owner
of the key as the one cycle there must be (`DecayCycles` is positive). The counter's
expiry is such a reset (`ForgetBudget`): it comes between the count of one run and the
next. Where a run holds a WATCH twice (`Copies`), the budget counts the run once: a
second copy was let in by a failure or an open breaker, and its count only raises the
counter. That a run at the decay check holds WATCHes alone is `WatchesOnly`.

`DecisionStep_proofs` proves, for every set of proposals and markets of the types of
`CandidateGates` and not only the sampled ones, from `GatesAssumption` (how a
proposal's types and families go together) and, for the last, `DecisionAssumption`:

| theorem | property |
|---|---|
| `WeakAlertsAreSuppressed` | `WeakAlertsSuppressed` |
| `AlertsHaveOwnEvidence` | `OwnEvidence` |
| `ExtendedHoursAreStricter` | `ExtendedHoursStricter` |
| `AlertsAreAccepted` | behind every alert of a run is a proposal all gates accept in its market |

The first three are about the gates: no proposal that the thirteen stages accept is
weak, unsupported or admitted by the session alone (`NoneWeak`, `NoneUnsupported`,
`NoneLooser`). That is shown stage by stage, first for a stage that only judges
(the lemmas `...Judges`), then for the three that change a value (`...Alters`);
`AcceptedUnchanged` sums up what an accepted proposal is when each stage looks at
it: only the reconciliation, the penalty of extended hours and the missing volume
have changed it, and none has left a reason. For the comparison of sessions,
`Follows` relates the candidate in extended hours to the same candidate in regular
hours, and the lemmas `...Follows` take it through every stage. The last theorem
joins the gates to the run, through `AlertsHavePassed`.

`SnapshotQueue_proofs` proves, for any runs, collectors, attempts and signals, from
`QueueAssumption`:

| theorem | property |
|---|---|
| `TypeCorrect` | `TypeOK` |
| `TtlAlwaysRestored` | `TtlRestored` |
| `OwnSignalsAreMerged` | `OwnSignalsMerged` |

`TtlRestored` needs to know who is behind an entry without a TTL; `TtlInv` names that
collector (`Behind`) and keeps it through retries and kills. `OwnSignalsMerged` rests on
`PushedInv` (what the collectors of a run have pushed is on the list it will read, unless
it was robbed) and on `Readable` (every entry of a list has a strongest one of its
kind, which is what a reading keeps); what the guard mutes is a forecast beside a
trend signal it is stale for, both of them merged (`GuardMutesStale`).

Two theorems state what liveness rests on besides fairness: that there is only so
much work.

| theorem | what it says |
|---|---|
| `RunsRunOut` (`AlertDelivery_proofs`) | `WorkBounded` and `WorkShrinks`: a run of `notify()` has a number of steps left, `Work`, which every step of its own reduces and nothing else raises; it is 0 exactly when the run has ended |
| `InvocationsRunOut` (`WorkflowRunner_proofs`) | `LeftBounded` and `LeftShrinks`: the same of the turns `Left` of an invocation, which starts afresh only when it is not live, by a call that costs its caller a turn |

`Work` weighs an alert in the inbox, one in the queue, and what remains of the one
in hand. It needs `WorkInv`: the alert being delivered is in the queue, so that
finishing it makes the queue shorter, and the attempts are within the bound of
the call they are attempts of. That the batch of a run is finite
(`BatchesAreFinite`; it is a list in memory) is used here only. `Left` weighs the loops, the steps and the
attempts ahead, with two turns for an attempt, since a step that calls workflows
waits for them; `CallersWait` is why a call resets no invocation that is live.

Only model-checked: liveness (`DiscordNotBlocked`, `EveryRunEnds`, `RunEnds`,
`ResolvedOrOutOfReach`, `StopTakesEffect`), which needs ENABLED. Every other property
of a passing run is a theorem. The five properties that the code violates are refuted
by TLC alone.

## 5. What is not modelled, and the plan

The notes of `components` in `PROJECT.json` give the reason for each part left
out; in short: views and texts, adapters to outside services, arithmetic over
floats, the framework beyond its chat page. Hazards without a property say why.

Of the lines of JavaScript and TypeScript in the repository more than half are
minified bundles of a browser extension's release, and most of the rest draws
forms, cards and tables. What keeps state across awaits is the chat page, which
`ChatSession` models; the pipeline, which is what this repository is for, is
Python and YAML.

Next, in this order:

1. Theorems: that a tracker and a chat session have only so much work left, as
   `RunsRunOut` and `InvocationsRunOut` state it of a run and of an invocation.
2. `Circuits` (`resilience/circuit_breaker.py`, `gates/redis_circuit.py`,
   `notifier.py` 91-118, `telemetry/client.py`): the breakers against one
   abstract breaker (open only after the threshold, not for ever). Three threads,
   a clock up to 6.
3. The polling loop of the bot.
