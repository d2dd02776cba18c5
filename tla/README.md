# A verification of provider-health-daemon in TLA+

The daemon is a proxy between chat clients and free-tier model providers. It
watches what the providers answer, keeps a registry of who may be asked, and
routes, retries, races and refuses requests accordingly. This directory models
the parts of it whose correctness depends on the order of events: TLA+ modules
translated from the Python source, configurations that TLC checks on small
instances, and theorems that TLAPS proves for every value of the constants.

## The system

All of it is one process; every component below is a thread or is called by
many threads. Line numbers are those of the files in the repository.

| component | state it keeps | operations | correct when |
|---|---|---|---|
| health registry (`health_registry.py`) | per provider and per model: status, until, reason, failures; a gateway-wide gate; `health.json` | `mark_error`, `mark_healthy`, `force_healthy`, `cleanup_expired`, gate calls, the readers, `_load` with its migrations | only a cause disables; every other quarantine ends |
| circuit breaker (same file) | per provider: state, failure times, successes, `half_open_requests` | `record_cb_failure`, `record_cb_success`, `can_execute_cb`, `acquire_cb`, `release_cb` | trips and recoveries are earned; slots are bounded and returned |
| cooldown calculator (`cooldown.py`) | none | `calculate`, `is_expired` | by the kind of error and its count |
| proxy request handling (`proxy_handler.py`) | per request: the models tried, hops, the deadline, leases | `do_POST`, `_forward`, `_race_forward`, `_handle_error`, the fallbacks | one answer per request, in time; the right party blamed and credited |
| router registry and probe (`router_registry.py`, `router_probe.py`) | per downstream router: status, strikes, probes in a row, catalog; `router_state.json` | mark healthy/unhealthy, probe loop, save, load | a router is used again when it works, and not before |
| selector (`meta_router.py`) | streaks and current weights per router | `select_router`, `on_success`, `on_failure` | eligible routers only, and never nobody while one is healthy |
| recovery prober (`daemon.py` 310-477) | a cursor per provider; a token while it probes | probe, compare the token, mark healthy | no newer error is overwritten; what works comes back |
| model prober, discovery (`model_prober.py`, `provider_discovery.py`, `catalog_sync.py`) | cursor, the batch, the gateway's catalog | due list, batch, apply outcome | every due model is tested |
| log monitors (`daemon.py` 173-267, 276-309, 473-633) | file offset, last row id | stat, read, parse, `mark_error`, begin again when something raises | each failure is reported, once if nothing raises |
| error parser (`error_parser.py`) | none | from a text and a status to what `mark_error` is told | a hint is kept, but softens nothing final |
| smart router (`smart_router.py`, `daily_usage.py`) | lists of candidates in memory and on disk; who was selected last; the day's usage | `get_default_combos`, `best_model` | fresh lists without blocked models; no monopoly |
| response cache (`proxy_handler.py`) | bytes, entries, class-wide | get, put, evict | bounded |
| alerter (`alerter.py`) | the previous status of each provider | poll, notify | no lasting change unnoticed |
| proxy manager, metrics, dashboard, catalogs and mappers, normalizers, scripts | pools, histories, tables | - | left out, see the end |

How they interact: handler threads, the log monitors, the recovery prober, the
model prober, discovery and the admin API all write to the health registry
through its locked methods. Each method is atomic; sequences of methods are not,
and the hard behaviours are in those sequences. The probe loop and the handler
threads share the router registry in the same way; requests, the refresher and
catalog sync share the lists of candidates without a lock.

What is hard here:

- a half_open breaker is a counter changed by four methods, called in many
  orders: a success gives a slot back, and so does the `finally` of the caller;
  a deadline that passes between reserving and sending gives back none; an
  outside success returns somebody else's slot; a restart resets it;
- an entry goes cooldown, probing, forgotten, driven by a periodic cleanup, and
  any of a dozen reporters may overwrite it in between;
- a request goes through routers, models and retries with exceptions raised
  inside exception handlers, and must be answered exactly once;
- three kinds of probe read, take seconds, and then write, while requests in
  flight report what they met before, during and after;
- a file is followed by its size while it is written, torn, rotated and reread
  after a restart; a table by its rowid while it is trimmed; whatever raises in
  between sends the monitor back;
- an exception that a loop does not expect ends a batch, a cycle or the loop;
- nine penalties, each with its own cap, are added into one score, and a band
  of scores is then shared out among threads that ranked at different times.

## Modules

| module | what it models |
|---|---|
| `Breaker` | the breaker's methods as operators on a record; timestamps are ages |
| `CircuitBreaker` | one breaker, the leases of handler threads, everybody else who records, time, restarts |
| `Cooldown` | `calculate` by kind of error |
| `HealthRegistry` | entries, gate and breakers under errors, successes, cleanup, time and restarts; uses `Breaker` and `Cooldown` |
| `Availability` | abstract: what a name's standing may become, for which causes; `HealthRegistry` implements it |
| `ProxyRequest` | one client connection: its requests through the gates, the fallback ladder and races |
| `RouterRegistry` | the record the router registry keeps of a router, and its marks, as operators |
| `MetaRouter` | the selector composed with that registry, the probe loop, handler threads with a first and a second router, restarts |
| `RecoveryProber` | the cleanup, the recovery prober and discovery over the provider entries, among all who report |
| `ModelProber` | the due list, the rotating batch and the outcomes, over the model entries and the gateway's catalog |
| `ErrorFeed` | abstract: what the registry is promised to hear of the gateway's failures |
| `Monitors` | `monitor_logs` and `monitor_sqlite` with the files they follow; implements `ErrorFeed` |
| `ErrorParser` | from the class of a text, a status and a hint to the mark and its quarantine; uses `Cooldown` |
| `ComboCache` | the lists of candidates in memory, on disk and at the gateway, requests and the refresher |
| `Selection` | `best_model`: scores, the band, the rotation, the day's usage |
| `*Proofs` | the theorems about the module they are named after; `HealthRegistryProofs` holds those about `ErrorParser` too, and `SelectionProofs` those about `ModelProber` |
| `MC*` | the instances that TLC checks, where the configuration alone does not say them |

How state and actions correspond to the code, where a name does not say it:

`CircuitBreaker`: `cb` is the entry of `circuit_breakers`; `pc[r]` is where the
handler thread `r` stands between `acquire_cb` and `release_cb`. `leases`,
`leaked`, `streak`, `fresh` and `silence` only observe: who really holds a slot
of the present half_open period, how many such slots ended without being
returned, and what happened since the last success, recovery or failure.

`HealthRegistry`: `entry[k]` is `providers[k]` or `models[k]`, `gate` the
`global_gate`, `breaker[p]` the breaker (leases are in `CircuitBreaker`).
`inARow[k]` only observes. A public method holds the lock throughout and is one
action. Until-timestamps are the ticks left of them, so that the state space is
finite with time running for ever. `Promise` maps an entry to the record that
`Availability` keeps of a name: `absent` and `healthy` are free, `cooldown` and
`probing` resting, `disabled` locked; the kind of the last error is a cause that
passes (rate limits), lasts, or is final (access). The fields of `left` and the
breakers have no counterpart: time alone is a stutter.

`ProxyRequest`: `pc` is where the handler thread stands (`forward` before the
call, `primary` and `second` while a router is asked, `failed` when both are
behind it, `race` and `net` in `_race_forward`), `model` is `body["model"]`,
`renamed` says that `_original_model` is set, `selected`, `hops`, `tried`,
`triedProviders` and `deadline` are the handler's attributes, and `answers`
counts the responses written. `_forward` calls itself from its exception
handlers; since nothing but the breaker lease is left to do after the inner
call, a hop is a jump back to `forward`. Handler objects live as long as their
connection, so a GET after a chat request inherits its attributes, as in the
code. What the registry, the catalog, the policy gate and the selector decide is
a free choice here; `seen` only observes.

`MetaRouter`: `registry[n]` is the `RouterState`, `streak` and `current` are the
selector's `_streaks` and `_current_weights`, `call[t]` is where a handler
thread stands, `verdict[n]` what a probe has seen and not yet recorded (the look
and the mark are two actions, because requests report in between), `up[n]`
whether the router answers. A verdict "raised" is an exception `probe_router`
does not catch; the pool still waits for the other probes of its round, which
record their own verdicts, and then the loop is dead (`LoopDied`). `proofs[n]` only observes: successful probes since
the last cooldown. `select_router` without its argument at the head of `do_POST`
charges the weights and drops the result, as in the code.

`RecoveryProber`: of an entry its status, whether its time is over, whether the
failures have reached `MAX_FAILURES`, and a stamp that stands for `updated_at`
and `last_probe_at`. A cycle is a snapshot, then per provider: choose the model,
take the token, ask, compare, write; an unexpected exception ends the cycle (`CycleAborts`). `recovery.news` only observes whether an
error was recorded before or after the comparison.

`ModelProber`: `queue` is the rest of the batch; its head is being asked while
everybody else goes on reporting. An exception drops the rest (`Abandons`). `catalog` is what `disable_models` leaves.

`Monitors`: places in the file are numbers, and a line fills two of them so
that it can be half written; `tail` holds `last_size` and `current_size`,
`poll` holds `last_rowid` and the rows fetched. The gateway (append, tear, rotate,
insert, trim) is external. `trouble` only observes whether anything happened
that loses failures. An exception may be raised at any line or row, before or
after its report (`HandlingFails`, `RowFails`): the monitor goes back to where its
round, or that row, begins, and `reports` begins again for what lies there.

`ErrorParser`: a text is the set of the patterns it matches, rows of
`ERROR_PATTERNS` that decide the same are one row; their order is the code's. Its names begin with `parser`, and the
prober's with `prober`, where a component proved in the same module has them too.
The two passes, the structural types, the free-tier rule and the hint follow.

`ComboCache`: `task[t]` is how far a thread has come in `get_default_combos`,
`_fetch_catalog_models` or `_write_combo_cache`; opening, filling and renaming
the temporary file are three steps, and a thread keeps the file it opened
wherever another has renamed it to (`at`). The registry of disabled models may
fail alone, and then leaves an empty set or the known one (`NoRegistry`).

`Selection`: `view[m]` is what metrics and registry say of a model and may
change at any time; ranking reads it without a lock, selecting holds one
(`_last_selected` is `recent`). `cached` is the usage cache of 60 s over `used`, which is what the look for a
provider's prefix finds in the log: a selected request may show under it or not
(`Logged`), and requests nobody selected may (`Direct`).

## Runs

| run | instance | distinct states | shows |
|---|---|---|---|
| `breaker` | 3 requests, 2 slots, thresholds 2, window 2, timeout 1 | 75,013 | types; a half_open breaker refuses only with a reason; it closes only after enough successes with no failure or restart between them; it trips only on fresh failures; once calls succeed it closes for good unless slots were lost |
| `breaker_overadmission` | 5 requests, the program's thresholds | - | **violated**: a success returns its slot twice, so more calls than slots are in flight |
| `registry` | one provider, one model, seven errors, `MaxFailures` 3 | 136,705 | types; rate limits never disable; a provider is disabled only for cause; `Availability` is implemented; when errors stop everything not disabled comes back |
| `request` | two providers with two models each, two routers, two hops | 268,169 | types; one response per request unless an exception escapes; at most two calls per hop and one after the deadline; a hop leads to a fresh model of a provider that has not failed; a 504 follows a cooldown; nobody who failed and was left is credited; every request ends |
| `routers` | two routers, one probed at a liveness page and one at its catalog; two strikes; a streak of one; one handler thread | 828,096 | types; a router probed at its catalog is in use only after two successful probes since its last cooldown; no permitted request is refused while a healthy router lists its model; weights sum to zero; while the probe loop is alive, live routers come back and dead ones leave |
| `recovery` | two providers, one with two test models | 266,384 | types; an error recorded before the tokens are compared is never overwritten; a provider that works again comes back, a disabled one too, unless aborted cycles go on taking its turn |
| `prober` | three models, batches of two | 290,304 | a scan that finds models due tests one of them, wherever earlier scans left the cursor; while no more models are due than fit a batch and none are dropped, each that stays due is tested |
| `monitors` | two failing calls, three rows | 373,914 | types; the feed is implemented: no failure reported early, or more than twice for each time a monitor is sent back to it; a row once, unless an exception follows its report; in quiet surroundings, once exceptions cease, each is reported |
| `errors` | one text per row of the table and the texts that match several; hints of nothing, seconds, a minute and a half, days; four statuses; three failures deep | 395,728 | hints shorten nothing structural; hints are kept to the minute; the generic rate limit of a `:free` model, and a 4xx of it that no pattern matches, never count against its provider |
| `errors_client` | the same | - | **violated**: what the client got wrong gives no cooldown but counts as a failure, and enough of them disable the provider |
| `candidates` | three models, one blocked, one that can be disabled; one request and the refresher | 82,356 | types; nothing blocked is served; a model that stays disabled leaves the candidates once gateway and registry answer |
| `selection` | three models of three providers, two threads | 139,200 | types; a model its account cannot use is never considered while a sound one is to be had; a provider that stays in the band is selected again and again while the log shows what is selected |

Deadlock is checked except in `monitors`, where a gateway that has no calls and
rows left, and monitors that wait, may really stand still.

The other configurations show, each by one counterexample, a place where the
program does not do what it says. They are described under "Divergences".

Why the bounds are enough. The breaker's rules compare counters with their
thresholds, and three requests compete for two slots, so refusal, double return
and loss all happen; ages stop at the window. In the registry, three failures
are enough for the counts that matter: transport errors stop counting at two,
and `MaxFailures` must be above that (30 in the program, 3 in the runs). Entries
of different providers do not influence each other except through the gate. In
`recovery` they share the cycle, which one can abort for the other: two are
enough, of which one rotates and meets every kind of error (`Errors`). In `request`, a hop may stay with the
provider (after an empty 200) or must leave it (after a failure): two providers
with two models allow every mixture of the two up to the program's own limit of
two hops; four models are enough for a race of two and a safety net of two. In
`routers`, two routers of the two kinds are the program's own configuration, and
the weights interfere only through their sum; strikes stop at the threshold. In
`prober`, three models and batches of two are the least where a batch is cut. In
`monitors`, a failure may fall before, between and after the steps of a round,
and a rowid can be used again after a trim. In `selection`, views are the corners
of what a view can be: good, shut out, slow, gone, proven; the theorem is for all. A bound on
rows, strikes, streaks, stamps or failures is always a constant or a set named
in its module. The properties that are also theorems do not depend on these
bounds at all.

Fairness. `CircuitBreaker`: handler threads are scheduled and upstream calls end
because sockets have timeouts; clients keep asking, which is what moves an open
breaker; time passes. `HealthRegistry`: `cleanup_expired` runs every five minutes
in its own thread (`daemon.py:287-308`), traffic asks `is_provider_healthy`,
time passes. `ProxyRequest`: the handler thread runs, and every socket it waits
for has a timeout; the client need not send anything more. `MetaRouter`: the
probe loop probes until it dies; a handler's call may be out for ever (`BusySpec`,
for the two divergences about requests, has calls end).
`RecoveryProber`, `ModelProber`: the loops catch what is raised and go on for
ever, each question has a timeout, time passes. `Monitors`: so do both loops, and
a line that was begun is finished. `ComboCache`: threads go on and lifetimes run
out. `Selection`: threads that rank and select go on, and the usage cache expires.
All of it is weak fairness. Nothing is assumed about success: the liveness
properties say what follows when errors stop, when a router answers from some
time on, when a model stays disabled.

Where an exception can undo progress, the actions that raise are in the model and
may happen at any time, in the safety properties for ever. The liveness properties
name the ones that must cease, and no others: `RoutersRecover` and
`DeadRoutersLeave` a probe that ends the loop (`KeepsProbing`; a loop that died is
alive again after a restart), `FewAreAllTested` an exception with models behind it
in the batch (`Dropped`), `ProvidersReturn` one with providers behind it in the
cycle (`TurnsLost`; one at the provider itself may go on, its rotation has moved),
`QuietLosesNothing` one at any line or row (`Raises`), `DisabledModelsLeave` a
registry that does not answer, `EveryEqualIsUsed` a log that does not show what
was selected, or shows what was not. None is implied by the code; what happens
without them is under "Divergences".

## Proofs

Every theorem is `Spec => []Inv`, `Spec => [][A]_vars` or `Spec => AbstractSpec`,
for every value of the constants that the modules' named assumptions allow.

`CircuitBreakerProofs` proves `TypeCorrect`, `RefusalsJustified`,
`RecoveryEarned` and `TripsFresh` for any finite set of requests and any
positive thresholds. The properties are not inductive: that a half_open breaker
refuses only with a reason needs that its counter never exceeds the leases plus
the lost slots (`SlotAccounting`), which needs that leases belong to the present
half_open period (`LeasesBelongToHalfOpen`) and to requests in progress
(`LeasesAreInProgress`); recoveries need that the streak covers the successes
counted (`StreakCoversSuccesses`); trips need that every failure still in the
window is among those counted since the last recovery or silence
(`FreshCoversFailures`, with `FailuresPrecedeSilence`). `IInv` is their
conjunction.

`HealthRegistryProofs` proves `RateLimitsPass` and `ProvidersLockedForCause` for
any providers, models, errors and any `MaxFailures`. The calculator and the
cleanup both compare the entry's own failure count with the limit, so the second
needs that this count never exceeds the failures that really happened in a row
(`CountsAreEarned`). `CausesDisable` is both, as the run checks them. For models the
same is false, which is what `HealthRegistry_consecutive.cfg` shows.

`RegistryTyped` types the whole registry, durations included. They contain a power
of two, `Doublings`, a recursive function: that it is one is proved from its
approximations up to n, by a least counterexample (`DoublingsExist`), after which
every outcome of `Calculate` is a number of ticks (`QuarantineType`).

`AvailabilityKept` is the refinement of `Availability`. One lemma says what each
operation makes of a record: an error is a `Strike` of the name it is about
(`ErrorStrikes`: which errors are permanent, and that the count grows by one at
most), a success a `Pardon` of a provider and at most one model, cleanup a `Review`
of every name, a restart a `Reload`; the gate, looks at a breaker and time change no
record. The types are the only invariant it needs.

The same module proves the three properties of `ErrorParser` and its types for any
set of texts, of statuses and of hints. `Decided` says what the row that decides, or
the lack of one, can be like (in particular, what is permanent shuts no gate and is
not about the size of a request), `Parsed` what the rules about hints and free models
may make of it, `KindsOf` how the calculator reads the result. The invariant `Handled`
says that a mark tells of the text in hand. Hints are kept to the minute only for a
jitter of at least 85 percent, which is the program's (`cooldown.py:161`, 0.85 to
1.15) and an assumption of the module. Its type invariant, `ParserTypeOK`, is proved
and not run.

`ProxyRequestProofs` proves all six safety properties of the run `request` for
any models, providers, routers and any `MaxRetries`. `IInv` adds how many calls
each place of the ladder may have made for the hops so far (`CallsFollowHops`),
that nothing is late before the deadline and only one call after it
(`LateCallIsLast`), that `_tried_models` and `_tried_providers` remember what
was asked and what failed (`EverythingTried`), so that whatever is about to be
asked is fresh (`NextIsFresh`), and that only the end of a request is answered
(`AnsweredAtTheEnd`). That nobody who failed is credited (`FailedUncredited`) needs
freshness too: who is credited is the provider of the model asked now, and that
one has not failed. One lemma covers each way a step can go on: respond,
escape, hop, or stay inside the ladder or the race.

`MetaRouterProofs` proves `HealthEarned` and `UsableRouters` for any routers,
weights, catalogs, thresholds and handler threads. A healthy router needs two
probes only because a probing one has had exactly one: the record and the number
of probes behind it go together (`Earned`), and requests can only take that away.
That a refusal means nobody could serve is an action property: each filter of
`select_router` is shown to fall back to what it filtered when it would leave
nobody. `CreditConserved` is that the current weights of the selector sum to zero
at every moment: a selection adds to every eligible router its weight and takes
their total from the chosen one. Sums over sets are a recursive function (`SumOf`);
that it is one, and that any summand may be taken out first, are proved from a
smallest counterexample (`SumExists`, `SumTakes`). `SelectorTyped` types the
composition.

`RecoveryProberProofs` proves `TokensTell` for any providers and any number of
test models: `NewsShows` says that after an error the entry differs from the
token or has lost its stamp to a success; `NewsIsOver` carries this past the
comparison. Stamps are what tells errors apart (`StampsTell`). `ProbersTyped`
types the rest: each rotation stays among its provider's test models, and who was
disabled in the snapshot is among those whose turn is to come.

`MonitorsProofs` proves that the monitors implement `ErrorFeed` (`FeedServed`),
for any calls and any number of rows, through rotation, torn lines, trimming,
restarts and exceptions. The refinement mapping is the identity on `failed` and `reports`; what
has to be shown is that a report is of something that failed and is not the
third since a monitor was last sent back to it. `OnceMore` is the heart: a line that has been reported lies before the
end of the batch read next, so only one more batch can contain it; `RowsOnce`
says that a failure has one row and that the poll is past it once it is
reported, which is also `RowReportedOnce`; `OneOrTheOther` that no failure is in both the file and the table.

`ComboCacheProofs` proves `TypeCorrect` and `BlockedStayOut` for any models,
any number of request threads and any content of the file. The file may hold
blocked models; what is inductive is that no thread has a list with one in its
hands at any step, and that none is remembered (`IInv`).

`SelectionProofs` proves `ShutModelsSink` for any models, priorities, sizes and
views: the least that a model without access collects exceeds the most that a
sound one can, by more than the band (`Penalties` bounds each of the terms).
`SelectionTyped` needs that no provider is noted twice in the list of recent
selections, which taking one out and adding it at the end keeps. The module also
proves of the model prober, for any dictionary of models and any batch size, that its
state keeps its types and that a scan with models due never tests nobody
(`ProberTyped`, which is proved and not run, `EveryScanTests`): the cursor is the end of the last slice of a list
that has since become shorter or longer, and what has to be shown is that it is
brought back to the start in time. The list is again a recursive function
(`DueUpTo`), whose existence and length are proved.

Every invariant and every action property of the passing runs is now a theorem, and
so are both refinements. Only model-checked: liveness (`RecoversWhenCalm`,
`EverythingComesBack`, `RequestsEnd`, `RoutersRecover`, `DeadRoutersLeave`,
`ProvidersReturn`, `FewAreAllTested`, `QuietLosesNothing`, `DisabledModelsLeave`,
`EveryEqualIsUsed`), since fairness is about what is ENABLED, which the prover does
not reach; and the values of recursive functions: that `Doublings[n]` is the power
of two it is meant to be is an induction over data, and no theorem needs more than
its type.

## Divergences seen while modelling

Two are runs of the project. Each of the following has a configuration that
shows it (`tlc -config X.cfg MCModule`, or the module itself where it needs no
instance, as `ComboCache`):

| configuration | property | what the code does |
|---|---|---|
| `CircuitBreaker_leak.cfg` | `CountersDescribeInFlightRequests` | a request whose deadline passes between reserving and sending (`proxy_handler.py:891`) never returns its slot |
| `HealthRegistry_longer.cfg` | `LongerOfTheTwo` | `mark_error` hands the calculator a datetime, `cooldown.py:170-173` swallows the TypeError, and a shorter cooldown replaces a longer one |
| `HealthRegistry_request_scoped.cfg` | `RequestScopedNeverDisables` | cleanup (`health_registry.py:882`) disables request-scoped types at `MAX_FAILURES`, which `cooldown.py:25-27` rules out |
| `HealthRegistry_consecutive.cfg` | `ConsecutiveFailuresDisable` | a success of a request resets the provider's entry and not the model's: a model's failures add up across its successes |
| `ProxyRequest_silent.cfg` | `NoSilentEnd` | an exception inside an exception handler (`proxy_handler.py:941`, 965, 1174) leaves the client without a response |
| `ProxyRequest_rotation.cfg` | `TimedOutModelsLeaveRotation` | a model that timed out is not marked when another takes over (`proxy_handler.py:1293`; the comment at 1295 says it is); `CooledBeforeTimeoutReply` is about the other case, where nobody does |
| `ProxyRequest_deadline.cfg` | `DeadlinesAreOwn` | a GET inherits the deadline of an earlier chat request on its connection and gets a 504 (`proxy_handler.py:886`) |
| `MetaRouter_dead.cfg` | `RoutersAlwaysRecover` | an exception outside the tuple of `router_probe.py:58` (a page that is not UTF-8, a body cut short, JSON that is a number) is raised again at 68 and ends `probe_loop` (77-82): no router recovers until the daemon is restarted |
| `MetaRouter_balance.cfg` | `TrafficIsBalanced` | picks whose result is dropped (`proxy_handler.py:2558`) charge the weights, so that one of two equal routers may get all the traffic |
| `MetaRouter_stable.cfg` | `ExcludedUntilStable` | a streak is cleared only by a success (`meta_router.py:168`), which an excluded router cannot have while another is eligible |
| `RecoveryProber_stale.cfg` | `NoNewsIsOverwritten` | comparing the token and marking healthy are two calls (`daemon.py:445`, 463): an error recorded between them is lost |
| `ModelProber_fair.cfg` | `EveryDueModelIsTested` | the cursor is a position in a list computed anew (`model_prober.py:237`): a due model may be passed over for ever |
| `Monitors_skip.cfg` | `NoRowIsSkipped` | `last_rowid` stands at the last failure; when older rows are trimmed the poll jumps to the end (`daemon.py:581`) over failures it has not read |
| `ComboCache_stale.cfg` | `OnlyCatalogsArePersisted` | with the gateway down the refresher writes the old list as a new one (`daemon.py:1036`), for ever |
| `ComboCache_torn.cfg` | `FileIsNeverTorn` | two writers share one temporary file (`smart_router.py:833`), and a half-written one is renamed into place |

More can be read off the definitions, or off code the models leave open.

Registry and cooldowns:
- `mark_error` replaces a disabled entry with whatever the next error says, so a
  timeout ends what the repository's README calls "Permanent (manual reset)"
  (`MarkEntry`);
- the jitter is applied after the 24 h cap (`Jittered`), so a cooldown may last
  27.6 h; the first failure is not capped at all, so a second one can shorten a
  hint or a limit of 168 h to 24 h (`Backoff`);
- a hint of less than a minute becomes a cooldown of zero (`error_parser.py:28-30`,
  `cooldown.py:155`);
- the gate's backoff reads a failure count that global errors never raise
  (`ShutGate`);
- `is_provider_healthy` says "probing counts as semi-available"; `_entry_is_healthy`
  rejects it (`Usable`);
- a save that fails is only logged, and `mark_error` saves twice;
- the thread of `cleanup_expired` is started by `monitor_logs` (`daemon.py:282-308`)
  and so only when error.log exists;
- a hint past what datetime holds overflows (`cooldown.py:164`), and a date after
  2100 counts as expired (197);
- the failures that disable a provider in `errors_client` need not all be the
  client's: whatever failed before counts with them.

Requests:
- the comments of `_on_upstream_timeout` speak of 5 and 15 minutes, but `timeout`
  is a transport type, and the calculator gives it 30 or 60 seconds;
- do_POST goes on "via direct gateway fallback" when no router is healthy
  (proxy_handler.py:2560), but `_forward` then answers 503 (840-842);
- `HTTPError` is a `URLError`, so the second router is penalised for a 4xx too,
  although the comment above says "ONLY on connection errors" (972-989);
- "the agent gets a generic 503" (1074), but an access error goes out with the
  upstream's own status (`Shielded`);
- after a substitution the second router is asked for what the client named, and
  the provider of `body["model"]` is credited for the answer (`SecondAsks`), although
  `mark_healthy` is "after a success" (health_registry.py): `CreditWhereDue`, put in
  the place of `NoSilentEnd` in `ProxyRequest_silent.cfg`, is violated;
- the second router's call may begin after the deadline, once
  (`EffortIsBounded` allows for it); the 504 of `DeadlinePassed` cools nothing
  down, although `_respond_timeout` says its caller does;
- the response cache counts an overwritten key twice and, with two threads
  evicting, may raise a KeyError.

Routers: `cooldown_until` is written and never read; lightweight routers get a
catalog only from `router_state.json`; a 200 with unexpected JSON empties a full
router's catalog; the state is saved only on a clean exit, and not atomically. Only clean
stops are modelled.

Probers: `run_discovery_once` computes the prior prefixes after the sync; a stale
snapshot lets a provider that was disabled during a recovery cycle be probed at
once; the model prober's success marks the provider healthy without a token, may
ask a model whose quarantine was renewed meanwhile, and drops rate-limited models
at `MAX_FAILURES` (against catalog_sync.py:41); `enable_models` is never called. An
exception that `_probe_model` or `_apply_outcome` does not expect drops the rest of
the batch (model_prober.py:227), so the model behind it may never be asked; in the
recovery prober one outside the tuple at daemon.py:466 ends the cycle (474), for the
providers behind it too. Discovery writes what it learnt 10 s ago over newer errors;
`ProvidersReturn` only says that the provider comes back. The recovery prober's test
models are fixed and not empty in the model; the code asks the catalog for them where
none are configured, and skips the provider if that gives none (daemon.py:393).

Monitors and parser: an empty table at the start, or a retention that empties it,
loses error rows. A line of error.log whose handling raises (a `provider` that is no
string, an overflow in the calculator) leaves `last_size` where it is
(daemon.py:531-533): the lines before it are reported again every ten seconds,
without bound, and those behind it wait; a row that raises is fetched again for
ever and the rows behind it wait (629-631). A 503 of a combo becomes
`generic_500`, a transport type, and a direct 503 `unknown_503`; the branch of
`parse_error` for a hint without hours and minutes is dead. Rate limits of `:free`
models that a pattern names (a daily or monthly limit, for instance) count against
the provider: only `generic_429` and `unknown_4xx` are scoped to the model
(error_parser.py:191-195).

Candidates: the fallback-only penalty does not put a provider at the bottom of
the pool, since others can collect more; a provider not used today attracts
every request until the usage cache of 60 s is refreshed, and all day if the log
never shows it: the log names the account where there is one (`github`,
daily_usage.py:46-49), the look is for the prefix (`gh`, smart_router.py:595), and
what another router served is not in it; a registry of disabled models that does not
answer counts as empty (catalog_sync.py:86-88), and the empty set is kept for 30 s
(smart_router.py:731), so that disabled models are served, for as long as it lasts;
the daily usage log has no dates, so today is whatever was written since it was
rotated; `_filter_static_models` says that PERMANENTLY_BLOCKED is excluded and does not
exclude it.

Around them: a recovery from disabled straight to healthy is not alerted, an
outage of the router up to twice; the metrics store has no lock and may lose
records.

## Plan

What would come next, in this order:

1. The leases of `CircuitBreaker` composed with `ProxyRequest`, which now meet
   only in their assumptions; the composition's invariant is that a lease is held
   by a request that is being answered.
2. `RegistryFile`: the two saves of `mark_error`, failing saves, a crash between
   them, merge at load; refinement of the atomic registry of `HealthRegistry`.
3. `RecoveryProber` as a client of `Availability`: what a success that is late
   does to the promise.
4. An abstract specification of a router's standing (out, on probation, in) that
   `MetaRouter` implements through its records and verdicts.
5. `ResponseCache` and `Alerter`: small modules.

## What is not modelled

Clients that hang up: a write that fails ends the request. In `ProxyRequest` any
order of candidates is allowed; `Selection` and `ComboCache` say which the code
has. Trivial replies and the prompt limit are one answer or none. `on_failure`
of the selector is one action, though it takes the registry's lock twice.
`sync_accounts` and the registry's file are left out, and so are
`monitor_access_log` and the latency anomalies it reports: it tails as
`monitor_logs` does. The regular expressions of the error parser are an input.
The policy gate (`data_policy.py`), normalizers, catalogs and mappers rewrite
text or look up tables; the dashboard presents; metrics only feed scores, whose
inputs are free; the proxy manager is a round robin in one thread around remote
services; the scripts are run by hand.
