# A verification of tg-getupdates-to-webhook

The bridge takes updates from the Telegram Bot API by long polling and posts
them to legacy back ends that only know webhooks. This directory holds TLA+
models of it, the configurations that check them with TLC, and theorems about
them that TLAPS proves. Line numbers refer to the files under `src/`.

## 1. Inventory

| Component | Source | State it keeps | Operations |
|---|---|---|---|
| Poller | `bridge/service.go` 100-264 | offset, batch, index, backoff (locals of a goroutine per bot) | `ensurePollingMode`, the poll loop, retry and save |
| Delivery | `bridge/service.go` 266-449 | none | `deliverUpdate`: POST, reply, proxied method |
| Backoff | `bridge/service.go` 451-514 | `current` | `Next`, `Reset`, `nextDelay`, `sleepWithContext` |
| Supervisor | `bridge/service.go` 67-98 | context, error channel, wait group | `Run` |
| Metrics | `bridge/health.go` | per-bot counters under a mutex | `setOffset`, `observeUpdate`, `inc...`, `snapshot` |
| Store | `storage/sqlite_store.go` | `bot_offsets`, `interaction_logs` | `LoadOffset`, `SaveOffset`, `LogInteraction` |
| Telegram client | `telegram/client.go` | none | one HTTP call with a timeout, classification of its answer |
| Process | `cmd/.../main.go` | store handle, health server, signal handlers | `runCommand`, `runBridge` |
| Configuration | `config/config.go` | none | `Load`: expand, parse, defaults, validation |
| Bootstrap | `bootstrap/generator.go`, `cmd/.../init_config.go` | the output file, the webhook | `GenerateConfigAndSwitch` |
| Telegram, back ends | external | queue of updates, webhook flag | `deleteWebhook`, `getUpdates`, methods, POST |

How they interact. `main` builds client, store and service, starts the health
server in a goroutine and blocks in `Service.Run`, which starts one poller per
bot. Pollers share the context, the error channel, the metrics and the one
SQLite connection, and, when the configuration gives two bots one token, the
queue at Telegram. An error that leaves a poller is put into the channel and
cancels the others. Every call to Telegram, to the back end and to SQLite takes
the context.

What is hard, and for what a component has to be correct:

- *Delivery.* Telegram forgets what is below the offset of the next poll, so an
  offset must never be sent, or saved for a later process to send, before
  everything below it was delivered. The POST, the proxied method, up to five
  log rows and the save can each fail alone or half, and a kill, a power loss or
  a signal can come between any two of them. Correct: nothing lost, nothing out
  of order, duplicates only with a cause.
- *Offset in memory, in the database, on disk.* Three values that may differ
  after a failed save, a crash, or a power loss under WAL with
  `synchronous(NORMAL)`. Correct: each is safe on its own, memory never runs
  ahead of the database, the database goes back only by a power loss.
- *Supervision.* Errors are sent before anybody receives; cancellation meets
  pollers anywhere. Correct: `Run` returns.
- *Starting.* `deleteWebhook` is retried and drops the queue each time it is
  asked to; `ensurePollingMode` returns nil when it is cancelled asleep.
  Correct: no poll in webhook mode, drops only by request.
- *Metrics.* Lag is derived from two values written at different times.
  Correct: no lag means delivered and saved; errors are counted.
- *Progress.* The loop has three ways back to the poll. Correct: what can be
  delivered is delivered and confirmed.
- *Time and answers.* One client timeout for long polls and short calls, a
  back off or a `retry_after` after a failure, proxies that answer in Telegram's
  place. Correct: no poll is cut short, delivery has a worst case, flood control
  is obeyed, a method is given up only when Telegram refused it.
- *Bootstrap.* `deleteWebhook` destroys the only record of the legacy URL before
  the config is written; checks are made long before their use; the legacy
  application, an editor or a second invocation interfere. Correct: nothing is
  taken away before a loadable config is ready, success means that the config
  loads and the bot is out of webhook mode, a retry works.
- *Configuration.* `$` expansion before the parser, defaults number by number,
  names by index, durations that overflow. Correct: what loads is safe to run.
- *Process.* The health goroutine, signals and deferred calls. Correct: teardown
  in order, in bounded time, an exit code that is 1 exactly after a failure.

`PROJECT.json` lists these hazards one by one with their lines.

## 2. Modules

| Module | What it models |
|---|---|
| `BridgeConfig` | what a loaded configuration guarantees (constants, `ConfigAssumption`) |
| `TelegramServer` | Telegram as the bridge uses it (external) |
| `StateStore` | the offsets and the rows of accepted updates: committed (`stored`, `logged`) and safe from power loss (`synced`, `syncedLog`) |
| `Backoff` | delays in two's complement, including what `newBackoff` repairs and that `retry_after` leaves the backoff alone |
| `HealthMetrics` | the per-bot metrics and the lag |
| `Bridge` | pollers, delivery, supervisor and process, composed of the five above |
| `AtLeastOnce` | the promise: create, settle in order, forget what is settled, drop |
| `BridgeProperties` | the properties of `Bridge`, the refinement mapping to `AtLeastOnce`, the inductive invariant |
| `TelegramClient`, `ClientProperties` | the calls of one poller in time: timeouts, classification, waits |
| `ConfigLoad` | `config.Load` as operators from file and environment to configuration |
| `Bootstrap`, `BootstrapProperties` | `init-config`, composed with `ConfigLoad` |
| `Process`, `ProcessProperties` | the program around `Run`: command line, health server, signals, deferred calls |
| `MCBridge`, `MCTelegramClient`, `MCBootstrap`, `MCProcess` | the small instances |
| `BridgeProofs` | lemmas on what a step can touch; type correctness |
| `BridgeDeliveryProofs` | nothing lost, in order; `Bridge` implements `AtLeastOnce` |
| `BridgeOffsetProofs` | offsets in memory, database and metrics |
| `BridgePaceProofs`, `BackoffProofs` | delays, polling mode, duplicates |
| `ClientProofs` | the calls of a poller in time |
| `ProcessProofs` | the teardown and the exit code |
| `BootstrapProofs` | texts of every length, `init-config`, `config.Load` |

`EXTENDS` composes the components: `Bridge` takes all their variables, and its
actions conjoin theirs. `TelegramClient` shares `Backoff` with `Bridge`, and
`Bootstrap` shares `ConfigLoad` with the start of the bridge. The seams between
the big modules are stated, not composed: `Process` assumes of a poller only
that it ends once it is cancelled, which `ShutdownTerminates` shows of `Bridge`;
`Bridge` and `TelegramClient` assume of the configuration what `LoadedIsSafe`
shows of `ConfigLoad`.

### How Bridge corresponds to the code

Each poller is at one label `pc[b]`. A label is a place where the goroutine calls
out or waits: `deleteWebhook`, `loadOffset`, `poll`, `post`, `callMethod`,
`saveOffset`, one label per kind of log row (`logPollOk`, `logResponse`, ...),
the two sleeps, `fail` (the error is to be sent) and `done`. What lies between
two calls is done by the step of the first one. So every interleaving of
pollers, crashes and arrivals with the calls is there, and nothing between two
lines that no one else can see.

| Variable | In the code |
|---|---|
| `offset`, `updates`, `pos` | `offset`, `updates` and the range index of `runBot` |
| `outcome` | the error or the reply kind the next lines branch on |
| `delay`, `backoff` | the running sleep; `exponentialBackoff.current` |
| `up`, `canceled`, `errCh` | the process; `ctx`; `errChannel` |
| `handled`, `attempts`, `faults` | history only: what was acted on, POSTs that arrived, faults so far |

A call is one action with its failures beside it, and a failure may or may not
have had its effect on the other side: `GetUpdatesFails` may confirm,
`DeleteWebhookFails` may drop, `PostFails` may deliver, `CallMethodFails` may
run the method, `SaveOffsetFails` may commit. The error paths follow the code: a
failed row outside `deliverUpdate` returns from `runBot` (`Abort`; ignored by
`Run` when it is `context.Canceled`), inside it makes the delivery be retried,
also after the back end had accepted (`LogFails`). Once the context is done no
SQLite call succeeds, while the no-op store still does. `Retry` is the path of
`retryCurrentOffset`: sleep, forget the batch, poll from the same offset. `Wake`
has both outcomes of the select in `sleepWithContext` and the `return nil` of
`ensurePollingMode` on a cancelled sleep. `Exit` is `Wait`, the end of `Run` and
of the process; `Crash` is a kill or, with `LoseUnsynced`, a power loss.

Replies are of four kinds: `plain` (no method), `invalid` (`parseWebhookReply`
fails), `method`, and `oddMethod`, a method no request URL can carry. Errors are
`temporary` or `flood` (with `retry_after`); a permanent one matters only to the
proxied method, as everything else is retried whatever the error.

Left out, and why it does not matter to the properties: payloads (update ids
stand for them), log texts, the rows themselves, time (a sleep may end at any
moment; that it has a positive length is part of `TypeOK`), the health server's
HTTP side. What the model assumes of the world is stated at the head of
`Bridge` and `TelegramServer`: batches hold what the queue holds, ids ascend,
nobody sets the webhook again while the process runs. A checkpoint may happen
after any commit, so rolling back to `synced` covers every prefix of commits
that a power loss can leave. A back end may refuse some updates for ever
(`Poison`), without a fault being spent.

### How TelegramClient corresponds to the code

`phase` is what the poller waits for: nothing (`ready`), Telegram holding the
call (`held`), the answer on its way (`returning`), nothing ever (`lost`), or the
end of a sleep. `Tick` lets time pass only when no step is due, so all durations
are exact. An answer is a record of an HTTP status, a kind of body and the
fields of `apiEnvelope`; `Succeeds`, `IsAPIError`, `Temporary` and `RetryAfter`
are what `call` and `GetUpdates` make of it, and `GivesUp` is the branch of
`deliverUpdate` on `APIError.Temporary`. The poller polls, runs the proxied
method of the update it got, and polls again; the back end answers at once and
the store works, because `Bridge` already has their failures.

### How Bootstrap and ConfigLoad correspond to the code

`step[r]` is the next call of invocation `r`: `parseFlags`, `getWebhookInfo`,
`getMe`, `preparePath`, `deleteWebhook`, `verify`, `open`, `write`. What is
decided between two calls is part of the step before. `StepFails` fails any of
them, with the effects a failed call can have had; `Kill` ends an invocation
anywhere; `SetWebhook` and `WriteForeign` are other people. Strings are
sequences of words, where a word may be a variable, white space or a quote,
because expansion, trimming and broken JSON are what matters; letters are not.
A bot's index in a default name is so many strokes, and `sanitizeName` writes one
dash for every word it cannot use, where the code merges them.
`ConfigLoad` follows `Load` operator by operator: `Expand`, `Parses`,
`NormalizeNumbers`, `NormalizeBot`, `ValidBots`, `Duration`. The file that
`Bootstrap` writes is loaded with it, in the environment of the bridge.
`setAgain` is history: the invocations that had seen the webhook gone when the
legacy application set it again.

### How Process corresponds to the code

`pc[p]` follows `runCommand` and `runBridge` from the command line over the
configuration, the store, `NotifyContext` and `Run` to the deferred calls in
their reverse order. `args[p]` is its command line, and `err[p]` the error on
which `runBridge` returns: that of the configuration, of the store, or the one
that `Run` takes from its channel (`RunError`); `ExitCode` is the code that the
`return` makes of it, which the deferred calls keep. `registered` says where a
signal goes; the `stop` function takes that back as it cancels, which matters
when it is the health server's failure that calls it. `ListenAndServe` and
`ServerFails` are the goroutine of the health server, which shares its address
with other processes and may be late, even for the shutdown. A request of
`/healthz` may last for ever.

## 3. Runs

Properties are defined, with their reasons, in the `...Properties` modules.

| Run | Instance | Checks | States |
|---|---|---|---|
| `bridge_one_bot` | 1 bot, SQLite, 3 ids, batches of 2, 3 faults | `TypeOK`, `NoLoss`, `InOrder`, `OffsetPersisted`, `OffsetAudited`, `RetryPace`, `LagHonest`, `RedeliveryPaid`, `OffsetNeverRegresses` | 1.4 M |
| `bridge_shared_token` | 2 bots, one token, one of them drops; 2 ids, 1 fault | the inductive `DeliveryInv`, the refinement `DeliversAtLeastOnce`, the offset, lag and redelivery properties again, and `DropsOnlyAtStart` | 3.7 M |
| `bridge_no_store` | 1 bot, no store, all reply kinds, 3 ids, 2 faults | `NoLoss`, `InOrder`, `PollingModeOnly`, `DeliversAtLeastOnce` | 0.3 M |
| `bridge_progress` | 1 bot, 2 ids, 2 faults, fairness | `EventuallyConfirmed` | 61 k |
| `bridge_shutdown` | 2 bots, 2 tokens, 1 id, one back end that always refuses, 2 faults, fairness | `ShutdownTerminates`, `EventuallyConfirmed` | 0.35 M |
| `telegram_client` | long poll 4, client timeout 6, ways of 1, 8 kinds of odd answers, 3 errors | `ClientTypeOK`, `PollsNotCutShort`, `DeliveredInTime`, `FloodObeyed`, `MethodFate` | 34 k |
| `bootstrap` | 2 invocations, 6 requests, 5 configs by hand, 3 faults, fairness | `BootstrapTypeOK`, `ReadyBeforeSwitch`, `SuccessIsUsable`, `SuccessInPollingMode`, `UrlNotForgotten`, `LoadedIsSafe`, `RetryRecovers` | 138 k |
| `process` | 2 processes, 2 pollers each, 6 command lines, fairness | `LifeCycleTypeOK`, `ShutdownInOrder`, `SignalsDrain`, `ExitCodeHonest`, `CancelledEnds`, `OneSurvives` | 60 k |
| `permanent_failure` | only `oddMethod` replies, no faults, fairness | finds `PermanentFailuresDelivered` violated | |
| `uncounted_read_error` | no store, 1 fault | finds `RetriesAreCounted` violated | |
| `long_poll_timeout` | the documented defaults, no errors | finds `PollsNotCutShort` violated | |
| `overwrite_without_force` | the instance of `bootstrap`, 1 fault | finds `OverwritesOnlyByForce` violated | |

In short: the offset protocol is right. Under any mix of the modelled failures,
restarts and even two bots on one token, no update is lost, each is delivered in
its turn, the audit log knows what a saved offset stands for, and a duplicate
always has a fault behind it (one fault, one more POST at most).
`RedeliveryPaid` leaves out `oddMethod` and `Poison`, whose retries have no
fault behind them; `EventuallyConfirmed` speaks of the bots without `Poison`,
so it also says that one bot's back end does not hold up the others. For
`NoLoss`, `DeliveryInv` and `AtLeastOnce` a dropped update is done with; that
the queue is dropped only while the asking process has not seen an update of the
bot, and by no retry of a poller at work, is `DropsOnlyAtStart`. `RetryPace`
matters for the seeding of a reset backoff. The model follows the overflow of
the doubled delay as well, whose damage is one wait of a second, but no process
lives to see it: the delay before is 146 years.

With a client timeout above that of the long poll, an update is delivered
within three ways of an answer plus, for every irregular answer, a timeout and
the longest wait (`DeliveredInTime`).

`init-config` asks for nothing that `config.Load` would refuse later
(`ReadyBeforeSwitch`, for requests without a stray `$`, see `Faithful`), and
when it reports success the bridge will load the right bot (`SuccessIsUsable`,
likewise) and a webhook that is set was set after the run had seen it gone
(`SuccessInPollingMode`). Whatever a failed attempt leaves behind, one with
`-force` and `-backend-url` gets through (`RetryRecovers`).

A process that was to run the bridge ends with 1 exactly when its
configuration, its store or a poller failed, and with 0 else (`ExitCodeHonest`;
a signal may kill it without a code). A second process on the same health
address does not stay (`OneSurvives`), but it does poll for a moment and it
ends with code 0, as does any process whose health server fails and whose
pollers do not; a signal after that failure kills it in the middle of a
delivery, which `SignalsDrain` therefore excepts and `Bridge` covers as a
crash.

The four violations are differences between the documentation and the code:

- README.md:216 says that permanent method failures are treated as delivered. A
  reply whose method does not fit into a URL (say `send%Message`) fails in
  `http.NewRequestWithContext`, `telegram/client.go` 205-208, with an error that
  is no `APIError`; `deliverUpdate` (388-394) returns it, and the update is
  posted again for ever while all later ones wait. TLC shows the loop.
- README.md:266 promises the total of back-end errors. When the body of a
  back-end answer cannot be read (306-309), the poller backs off without any
  counter having moved.
- README.md:118 and the help text (`main.go:233`) say that
  `telegram_timeout_seconds` does not apply to the long poll. The one HTTP client
  has it for every call (`client.go` 95-97), so with the defaults an idle poll
  ends after 10 of its 50 seconds in an error, is counted as one and is followed
  by a backoff.
- README.md:163 and `init_config.go:65` say that `-force` is what overwrites an
  existing config. Without it the path is looked at before three calls to
  Telegram and opened without `O_EXCL` after them (`generator.go` 190-221), so a
  config written in between is lost.

### Bounds

`UpdateIds`: three ids and batches of at most two give a poll that leaves
something behind, a batch cut in the middle and ids that arrive while a batch is
in hand. `MaxFaults` bounds everything that goes wrong, three being enough for a
failure during the recovery from a failure during a recovery; with it a lost
answer, a failed save and a power loss fit into one behaviour. For two bots one
fault is configured; the same instance with two faults (14 million states)
passes as well. `CounterCap` saturates the error counters, of which the
properties only ask whether they moved; `AttemptCap` saturates `attempts` above
every value `RedeliveryPaid` allows. The delays are chosen so that doubling, its cap
and a different `retry_after` all occur, in `bridge_one_bot` so that the largest
delay doubled does not fit (`DurationLimit`).

In `telegram_client`, three errors are enough for a failure in each of the two
calls of a delivery and one more after the backoff reached its cap; a way of
one tick makes answers meet timeouts and arrivals. `AgeCap` is above every age
that `DeliveredInTime` allows. In `bootstrap`, three faults allow a failed
attempt, a webhook set again and a foreign write in one behaviour; the requests
and files by hand each hold a case of their own (see `MCBootstrap`), and
`DurationLimit` there lets one of the numbers overflow. In `process`, two
processes are what one address needs, and one request that never ends is as bad
as many.

Deadlock is checked in every run of `Bridge` and `TelegramClient`. Invocations
of `init-config` and processes do end, so their runs do not check it.

### Fairness

`FairSpec` assumes weak fairness of each poller as a whole and of `Exit`. The Go
scheduler runs every goroutine, timers fire, and every call returns: both HTTP
clients have timeouts (`main.go` 72 and 84), SQLite has `busy_timeout(5000)`.
Fairness of the whole poller, not of its single actions: which way a call ends is
nobody's promise, and calls end well again only because faults are bounded.
Nothing is assumed of users, signals, crashes, checkpoints, or of whoever starts
the process; `EventuallyConfirmed` is therefore stated for behaviours in which
the process from some point on keeps running.

`Bootstrap` assumes weak fairness of the steps of an invocation, whose calls all
have the command's timeouts, and none of other people. `Process` assumes that
`main` and the start of the health goroutine go on and that a cancelled poller
ends, but not that a client ever finishes a request or that a server ever fails.
`TelegramClient` needs no fairness: `DeliveredInTime` is a bound on a clock that
only runs while nothing is due, so it is a safety property.

## 4. Proofs

Every safety invariant that a run checks is a theorem, for every value of the
constants that the named assumptions allow (`ConfigAssumption`,
`BackoffAssumption` and so on, in the module that declares the constants;
`WordAssumption` of `ConfigLoad` only tells the prover that the words the text
operators use are strings). So are the refinement of `AtLeastOnce` and the
action properties of the passing runs. What each theorem says is listed in
`PROJECT.json`.

| Module | Inductive invariant | Theorems |
|---|---|---|
| `BridgeProofs` | `TypeOK` | `TypeCorrect` |
| `BridgeDeliveryProofs` | `DeliveryInv` | `DeliveryInvariant`, `NothingLost`, `DeliveredInOrder`, `KeepsPromise` |
| `BridgeOffsetProofs` | `OffsetInv` | `OffsetInvariant`, `OffsetIsPersisted`, `OffsetIsAudited`, `OffsetOnlyGrows`, `DropsAtStart`, `LagIsHonest` |
| `BridgePaceProofs` | `PaceInv` | `PaceInvariant`, `RetriesArePaced`, `PollsInPollingMode`, `DuplicatesArePaid` |
| `ProcessProofs` | `LifeCycleInv` | `LifeCycleInvariant`, `StoreNeverLeaks`, `ShutsDownInOrder`, `SignalsAreDrained`, `ExitCodeIsHonest` |
| `ClientProofs` | `ClientInv` | `ClientInvariant`, `ClientTypeCorrect`, `LongPollsLast`, `UpdatesArriveInTime`, `FloodControlObeyed`, `MethodsEndAsTheyShould` |
| `BootstrapProofs` | `BootstrapInv` | `BootstrapInvariant`, `BootstrapTypeCorrect`, `ReadyToSwitch`, `SuccessMeansUsable`, `SuccessMeansPolling`, `UrlIsNotForgotten`, `LoadIsSafe` |

The parts of the invariants are defined, with their reasons, in the
`...Properties` modules; TLC has confirmed each of them as an invariant of the
component's runs before it was proved.

### Delivery

`NoLoss` is not inductive: that a poll loses nothing depends on its offset, the
offset on the update just delivered, and that on the batch it came from.
`DeliveryInv` adds the links of this chain:

1. `OffsetsSafe`: everything below `offset`, `stored` and `synced` is settled,
   and each lies just above an update that exists, so that later ones cannot
   slip below it. All three are needed: a restart loads `stored`, and a power
   loss turns `synced` into it.
2. `BatchesComplete`: what is older than an update of a batch is settled or
   comes earlier in it. It holds when the answer comes, by 1 and `NoLoss`, and
   stays true when another poller of the token confirms or drops meanwhile.
3. `PrefixSettled`: the updates before the one in hand are settled. With 2 this
   is `InOrder` (`InvInOrder`).
4. `DeliveredIsSettled`: at the labels from which `deliverUpdate` can only
   return nil, the update in hand is settled. With `InOrder` it makes the next
   offset safe (`NextOffsetSafe`), which closes the circle.

The proofs go through a few lemmas that say what a step of a poller can do to
one group of variables (`TelegramStep`, `StoreStep`, `OffsetStep`, `BatchStep`,
`PositionStep`, ...), so that the invariants are argued about three or four
cases each and not about thirty actions. For `KeepsPromise`, handling an update
is `Settle` the first time (it is still queued, by `NoLoss`, and its turn, by
`InOrder`) and a stutter the next times; a poll is `Forget` (by 1), and
`deleteWebhook` with dropping is `Drop`.

### Offsets

That a committed offset never goes back looks obvious, batches being ascending,
and is not. A save may commit and report an error; then the database is ahead of
memory, the poller polls again from the old offset, and saves whatever comes
first. `OffsetInv` therefore says how far ahead the database can be: nothing
that Telegram may still give to the poller (`CommitNotAhead`) or that is in its
batch (`BatchNotBehindCommit`) is more than one below it. Why the batch does not
start later than that: what is pending from the offset on, and older than an
update in the batch, is in the batch (`BatchHasOldest`), and another poller on
the same token only takes away. `OffsetAudited` adds that the update in hand has
its row once it was accepted (`InHandLogged`), and `DropsOnlyAtStart` that before
the poll loop no update was seen (`NothingSeenYet`).

### Pace and duplicates

A duplicate is a POST that repeats one whose update was not saved, so `attempts`
of an update may exceed the number of faults by one only as long as the update
is done with: below the offset, or accepted and on its way to the save
(`DoneWith`). The end of a process forgets the offset in memory; the fault that
ends it pays for the repetition by the next one. Since that fault happens when a
poller gives up and the cancellation only comes later, `Paid` speaks of three
phases: before (`Doomed` is false), between, and after (`canceled`).

`RetryPace` rests on lemmas about `Backoff` that the client uses as well: the
next delay is within the bounds or, when doubling overflows, negative, and the
one after a negative one is the initial delay. The proof found that a second must be
representable twice over (`BackoffAssumption`), which it is by far.

### The client in time

`DeliveredInTime` bounds the age of an update by the number of irregular answers.
`ClientInv` has the potential behind it: age plus what remains is at most the
schedule (`OnSchedule`). A tick moves time from one to the other; an irregular
answer adds at most the way to it, a full timeout and the longest wait
(`ErrorCost`). The rest is that regular calls are over before the client's
timeout (`CallsInTime`), that nothing fails before the first irregular answer
(`NoDetour`), and that a time for which Telegram asked is being slept out
(`BanHeeded`). The proof found two assumptions that the runs had satisfied
silently: an answer that is `ok` does not ask to wait, and `AgeCap` is positive.

### The process

Each part of `LifeCycleInv` is about one process, whose steps leave the others
alone, so the proof is that every step of a process keeps its own `Sound`. The
core is `PollsWhileWaiting`: `Wait` keeps `main` where it is, so the deferred
calls meet no poller. It also makes the exit code honest: once `Run` returned,
no poller can fail any more, so what it took from the channel stays true of the
pollers (`ErrOfRun`), and only a command line that runs the bridge gets that far
(`BridgeOnly`).

### Bootstrap and configuration

`BootstrapInv` records what an invocation has made sure of at each step
(`UrlChosen`, `NamesChosen`), that a finished one that is still the author
wrote all of the file (`Authentic`), that past the verification only a webhook
set since is there (`WebhookSeenGone`), and, as long as nothing fails, where
the URL is (`UrlKept`): only a run that will write the config takes the webhook
away, the webhook stays away, and once a run is done the URL is in the file or
about to be written again.

`ReadyBeforeSwitch` says that one module's checks imply another's, which is a
fact about texts: a name made by `sanitizeName` comes back from `Expand` and
`Trim` unchanged, so does a URL without a `$`, and the reference to the variable
becomes the token without breaking the JSON. `BootstrapProofs` proves what
`Trim`, `Expand` and `Sanitize` do to sequences of every length. Where a recursive
function is involved (`FlattenSeq` under `Expand`), the proof is by a least
counterexample: `SmallestExists` follows from the library's theorem on
well-founded relations without the induction theorems, which the provers cannot
instantiate.

`LoadIsSafe` covers every list of bots and all numbers, up to durations that
overflow.

### Only model-checked

Liveness (`EventuallyConfirmed`, `ShutdownTerminates`, `RetryRecovers`,
`CancelledEnds`, `OneSurvives`): it rests on fairness and `ENABLED`, which the
prover does not handle. The four violations are counterexamples, which need no
proof.

## 5. Not modelled

- Sizes of payloads: the limits of 4 MiB and 2 MiB show as the answer that is
  cut off and the reply that is `invalid`. Contents of updates, replies and log
  rows; the wording of errors; help texts.
- The totals, the status and the uptime of `/healthz`. The status is `degraded`
  from the first error to the end of the process, by a sum over counters that
  are modelled; the README only recommends an alert on it.
- `allowed_updates`, `sqlite_path`, `user_agent`: passed on, or defaulted when
  blank. A blank `-output` and the two timeouts of `init-config` that must be
  positive, which are refused with the other flags.
- A webhook set again while the bridge runs: the code does nothing about it, and
  every poll is refused until a restart. Power loss of the config file.
- Two bridges polling one bot at the same time, or on one database file:
  `Process` shows that this does not last on one health address, and `Bridge`
  has two pollers of one token in one process.

## 6. Plan

The safety properties are proved. What is left for the proofs:

1. The seams that section 2 only states: from `LoadedIsSafe` to the assumptions
   `BackoffAssumption` and `ConfigAssumption`, as theorems about `Load`; from
   `Process` to `Bridge`, that what `Process` assumes of a poller's steps is what
   `Run` does.
2. The safety half of the liveness properties: that no poller reaches a state
   in which none of its steps is possible, as a theorem that each label has a
   step whose guard holds.
3. Shorter proofs where several actions are argued about one by one.
