# Tuma in TLA+

Tuma takes webhooks from providers, stores them, and delivers them to a
destination with retries that Temporal drives. This directory models its core
and the parts around it as TLA+ state machines, checks them with TLC on small
instances, and proves with TLAPS, for every instance, all the safety properties
that the runs check but one (`TextAsMeant`).

Run everything in this directory: `tlc -config IngestSafety.cfg MCPipeline`
checks a run, `tlapm InboxProofs.tla` checks proofs. `PROJECT.json` lists the
runs, the source lines behind each definition (`map`), the hazards that the
properties are for, the disagreements found, and the theorems.

## The system

| Part | State | Operations | Meets |
|---|---|---|---|
| Ingest handler (`api/server.go`) | none of its own; the request in progress | verify, `InsertEvent`, `ExecuteWorkflow`, `SetEventWorkflowID`, 200 | tables, Temporal, cache |
| Adapters (`adapters/`) | none | verify a signature, extract the event id | ingest, simulator |
| Connections (`api/handlers.go`, `storage/store.go`) | `connections`; cache entries with an expiry (`api/server.go`) | patch as a read and two writes, load, store, delete of an entry | ingest, simulate |
| Playground simulator (`playground/simulate.go`, `api/playground.go`) | none | switch the source type, sign, post to the ingest endpoint | connections, cache, adapters |
| Delivery workflow (`workflow/delivery.go`) | Temporal history; semaphores in worker memory | `LoadEventMeta`, `DeliverActivity`, sleep, `RecordDelivered`, `RecordIssue` | tables, destination |
| Tables (`storage/`) | connections, events, deliveries, issues | one SQL statement each | everybody |
| Replay (`api/handlers.go`) | none | start another run of an event | Temporal, issues |
| Retention loop (`cmd/tuma/main.go`) | none | delete old events | events, cascading |
| Alert rules API (`api/alert_rules.go`) | `alert_rules` | create under a table lock, patch, delete | evaluator |
| Alert evaluator (`alerting/evaluator.go`) | a snapshot per pass; advisory lock; latch column | measure, send, record, latch | rules, notifications, mail and Slack |
| Notification settings (`notifysettings/`, `api/admin_settings.go`) | one row | read, keep or clear secrets, replace the row, merge with the environment | rules API, senders |
| Senders and templates (`notification/`) | none | render, load the settings, mail or Slack | evaluator, settings |
| Login sessions (`api/handlers.go`, `storage/`) | `sessions` rows; the cookie | login, `auth`, logout, expiry | the console's handlers |
| Startup (`cmd/tuma/main.go`) | schema, users, plain payloads | migrate, backfill, bootstrap the admin, dial | API and workers among themselves |
| Playground sessions (`api/playground.go`) | `playground_sessions` | bootstrap, touch, evict, collect | collector, handlers, rate limiter |
| Rate limiter (`api/ratelimit.go`) | a bucket per key | fill up, take or refuse | bootstrap, simulate, controls |
| Playground streams (`playground/hub.go`) | hub per session, channels, log, stream limiter | subscribe, publish, unsubscribe | stream handlers, receivers |
| Not modelled | | crypto, echo sink, statistics, configuration, console | see `components` |

What is hard here: an acknowledgement and a workflow start that are two steps;
activities that are tried once; replays that run beside the original run and
share its rows; a limit kept in process memory; a message that is sent before
it is recorded; a lock whose loss nobody notices; read-modify-write without a
transaction, on connections, rules and settings alike; caches filled by loads
that race invalidations; a source type that is switched under a signature;
settings read at send time and checked once, when a rule is made; text
substituted in the order of a map; processes that start together on an empty
database.

## Modules

    EventStore --> Temporal --> Ingest --------------+
                       |                             |
                       +------> DeliveryWorkflow ----+--> Pipeline --> MCPipeline
                                                     |       |
                                        Inbox  <-----+       +--> PipelineProofs --> InboxProofs
    AlertRules --> AlertEvaluator --> AlertPromise --> MCAlerts, AlertEvaluatorProofs
                                          |
                               Alarm <----+
    Adapters --> Connections --> MCConnections, ConnectionsProofs
    LoginSessions --> NotificationSettings --+--> Notifications --> MCNotifications,
                                 Templates --+                      NotificationsProofs
    RateLimiter --> PlaygroundSessions --> RateLimiterProofs
    Startup --> MCStartup, StartupProofs
    PlaygroundHub --> MCPlayground, PlaygroundHubProofs

An arrow is EXTENDS, except `Pipeline` to `Inbox`, which is
`INSTANCE Inbox WITH phase <- shownPhase, failed <- seenFailed`, and
`AlertPromise` to `Alarm`, which is an INSTANCE too.

* **EventStore**: `live` is the set of rows of `events`, `delivery` and
  `issue` the two dependent tables, `retryAttempts` a column of `connections`.
  An operator is one SQL statement and includes what the constraints make of
  it: `ON CONFLICT`, `UNIQUE (event_id, attempt_number)`, `ON DELETE CASCADE`,
  `GREATEST`. An id is drawn once; a provider may send a key again after the
  purge, and then gets a new id.
* **Temporal** (external): `run[r]` is a durable run of `DeliveryWorkflow`. The
  run of event `e` is named `e`, so a workflow id is started once; replays have
  ids of their own. `lost` marks a run that Temporal has given up although a
  worker still executes its activity.
* **Ingest**: a request is at `idle`, `start`, `setwf` or `reply`. Go's HTTP
  server sends the short answer when the handler returns, so the provider has
  its 200 at `Reply`.
* **DeliveryWorkflow**: one action per SQL statement, POST or workflow step.
  `accepted`, `failedAt` and `lastOutcome` are history: what the destination
  took, which attempts a worker saw fail, and the last answer a worker saw. A
  POST may be accepted and still look failed.
* **Pipeline** composes them and states the properties. `Disturbances` says
  what may go wrong beside the normal course: `apiCrash`, `startFail`,
  `disconnect`, `dbError`, `activityLost` (worker death and timeouts),
  `badRequest`, `purge`, `patch`.
* **Inbox** is what a user is promised of one event: absent, stored, open,
  resolved, purged; it becomes open only after a failure, resolved only after
  an acceptance, and nothing leaves `purged`. `shownPhase` and `seenFailed` of
  `Pipeline` are the refinement mapping.
* **AlertRules** and **AlertEvaluator**: handlers and evaluators on one table.
  A rule's `active` flag and `threshold` stand for the fields a PATCH may
  change; each rule has a type and a metric that moves freely; `firing` is the
  latch. `Disturbances` are `dbError`, `sendFails` and `lockLost` (the session of
  the advisory lock breaks). A send fails before the delivery, or after it (at
  `failed`): SMTP's Quit or Slack's answer may break when the message is out.
* **Alarm** is what the owner of a rule is promised, without workers, passes or
  snapshots: a rule speaks only when it has something else to say than it said
  last; it forgets what it said only on evidence that it was inactive or back to
  normal since (`Recover`), or when the sender was interrupted before the latch
  was shown (`Interrupt`: a crash, a failed UPDATE, an error of the send for a
  message that was delivered); it shows and records only what it told; and once
  deleted it sends at most the message that was under way.
* **AlertPromise** adds history variables to `AlertEvaluator` and the mapping to
  `Alarm`. `limits` and `values` are the limits and metric values a rule has met
  since its last message, `beat` is the parity of the number of its messages (so
  that a repeated message is a step of `Alarm` and not a stutter), `late` the
  rules that sent after they were deleted. No action reads them. The evidence is
  a limit and a value of that time that do not breach, not necessarily of one
  moment: the code lists the rules and then measures, and a PATCH may fall
  between the two, so nothing stronger is true of it.
* **Adapters**: operators only. A MAC is the secret it was made with, and
  verifies with no other; bodies are not altered on the way.
  `Verify` and `ExtractEventID` take the adapter by source type;
  `buildSignedRequest` is the simulator's side of the same conventions.
* **Connections**: one row and its cache entry. PATCHes read the row, write
  every field back and then the secret, and invalidate the cache; webhooks load
  through the cache; simulates switch the source type, read the row, and post
  signed requests one after the other. A value is named after the handler that
  wrote it, so that a lost update can be told apart. Time passes in ticks.
* **Templates**: operators only. A text is a sequence of words and placeholders;
  `substitute` visits its map in every order.
* **LoginSessions**: rows of `sessions`, cookies and ticks to the expiry. A
  logout clears the cookie whether or not its DELETE succeeds.
* **NotificationSettings**: the row, and PUTs that read it and replace it. Host,
  password and token stand for the fields: one that is always given, and two
  secrets that may be kept, cleared or set. `Merge` is the merge with the
  environment.
* **Notifications** composes them with rules and workers: a rule is created
  after one check of its channel; a worker lists the rules, renders, loads the
  settings and sends. `withdrawn` and `overtaken` are history: the channels that
  a save has switched off while something relied on them, and the workers that
  a save came after.
* **RateLimiter**: the bucket of one key in whole parts of a token; `credit` is
  history, a bucket that is filled up at every tick.
* **Startup**: one API and several workers from `main` to serving; `EmailOf` and
  `Pinned` say which process has which part of the admin's environment. A
  migration is three steps (mark the version dirty, apply, mark it clean); an API
  that dies between them finds a dirty version at each later start. `failures`
  bounds kills and failed statements; the INSERT of the admin may report an error
  and be committed.
* **PlaygroundHub**: one session's hub. Steps under the hub's mutex are atomic,
  the double-checked `get` is two steps.
* **PlaygroundSessions**: `rows` and the order `older` of their `last_seen_at`;
  new sessions pass the rate limiter. An eviction is two steps, the sub-select
  that chooses rows (`doomed`) and the DELETE of those that are still there, as
  READ COMMITTED allows: of two that chose one row the second removes nothing.
  `slips` is history: the counts that failed and the evictions that removed
  nothing.

Every state module has a `TypeOK`. Runs check it where it says more than the
types (foreign keys, that no value of the environment gets into the settings
row); in the others it documents the variables. That of `AlertEvaluator` is proved
(`TypesKept`).

A definition marked `mutant` in a comment is a plausible bug; it is used by no
specification. `PROJECT.json` pairs each with the property that detects it.

## Runs

Every configuration says `CHECK_DEADLOCK FALSE`: ids and crash budgets are
finite, so every instance comes to a rest that the program does not have.

| Run | Shows | Bounds |
|---|---|---|
| `ingest_safety` | acks follow commits; one request starts one workflow for an event, and none beside another row of its key | 2 requests, 1 key, 2 ids (so that a purge and a second life of the key happen), every disturbance of the ingest path |
| `delivery_safety` | run outcomes, truth of issue and delivery rows, refinement of Inbox, every run ends | 1 event, its run and a replay that compete for one slot, 2 attempts, policy changes, every disturbance of the worker |
| `pipeline_live` | settled acknowledgements, agreement of the tables with the last attempt | 2 events of one connection, 1 slot, 1 worker, nothing lost, no replay |
| `alert_safety` | one evaluator; latches are for sent messages; a message is repeated only after a crash or an error between its delivery and its latch; refinement of Alarm; the table lock has an owner | 2 interchangeable workers, 1 rule of a type that is measured with the pass and breaches below its threshold or of one that is measured on its visit and breaches above, 2 thresholds, crash, failing sends and statements, missing samples, a client; a send may fail before or after the delivery |
| `alert_live` | a lasting breach is notified | 2 workers, a crash or a lost advisory lock (then both evaluate), failing sends, a client that locks the table; a metric that recovers and breaches again |
| `connections` | a stale entry needs a race or a reported error and heals; a PATCH undoes another only if they overlapped; simulated events are accepted under the id that is shown; a type left switched was reported | 2 PATCHes (of one field; of the other with the secret), 2 simulates of 2 posts for 4 kinds of provider, 1 webhook, 3 handlers in all, TTL 1 tick, a load takes at most 1 |
| `notifications` | a secret is lost only by overlapping saves; a save applies on the next alert; an unset channel was withdrawn; text is the template in any map order; no dead session gets past `auth` | 3 saves, 1 login of 2 ticks, 1 create, 1 worker, 4 rules: defaults only; a body of its own; a placeholder in the name; a placeholder without a value |
| `startup` | readable payloads, who serves is ready, a password that was shown works and nobody is locked out but by a kill or an error after the INSERT, everybody serves unless a migration was cut short | API with a pinned password and the operator's address, 2 workers with neither, 2 legacy rows, 3 failures (kills and statements) |
| `playground_hub` | order, completeness, no leaks | 2 streams, channel of 2, log of 3, 4 messages of a kind: a channel has an order, and the log is longer than a channel, as in the code (50 and 32) |
| `playground_sessions` | overshoot of the limit is bounded, the collector ends it; the lazily filled bucket is exact | 2 visitors, limit 1, 3 sessions, 2 counts that fail or evictions that remove nothing, a collector that fails any number of times; a token is 3 parts and a tick adds 2, so that fills are partial and a full bucket overflows |

The bounds are the smallest at which every action happens and each mutant is
detected: two of whatever races, one slot or rule where contention matters,
two attempts so that there is a first and a last one, two ids of a key so that
a purged event can come back.

Two runs expect a violation: each states what a document or a comment of
the repository says and TLC finds a behaviour of the code that contradicts it
(quotations under `findings`):

| Run | Counterexample |
|---|---|
| `acked_crash` | the API dies between insert and workflow start; the provider's retry is a duplicate, and the event is neither delivered nor an issue |
| `replay_reopens` | the original run has used up its attempts; a replay is accepted and resolves the issue before the original's `RecordIssue` upserts it, which reopens it |

`AckedSettles` and `IssueReflectsLastAttempt` hold in `pipeline_live`, where the
disturbance that breaks them is off. Other properties hold only within limits
that the same models show when a configuration is changed:

* `AckedSettles` also fails with `activityLost`: a lost activity ends the run
  without a retry and without an issue.
* `DeliveryIsRecorded` fails with a replay: it counts from attempt 1 again and
  its row meets the unique constraint.
* The limit of deliveries per connection (`README.md:278`, "Max concurrent
  deliveries per connection") is one per worker process: `PerConnectionLimit` of
  `Pipeline` is no run's property. With two workers it is false, with one it is
  what `Acquire` asks for; it is proved for each worker.
* `TextAsMeant` is about rules whose name holds no placeholder: a name such as
  `over {{limit}}` is substituted in turn in some map orders and not in others.
* `StaleExpires` bounds the staleness by the TTL plus the length of a load.
* `OneEvaluator` and `OncePerBreach` fail with `lockLost`: nothing tells an
  evaluator that its session broke.

The repository's `README.md:276` says of `TUMA_ADMIN_PASSWORD` "Set before first
boot to pin password", and the compose file gives it to the API only. A worker
that gets to `bootstrapAdmin` first creates the admin with a password it draws
and prints; the API adds its own only if it too had counted no users and its
address differs. `startup` therefore checks `PasswordKnown`, not that the
password is the pinned one: every password is the operator's or was shown,
unless the process was killed before it could show it, or was told that an
INSERT failed that had been committed.

## Fairness

* `Pipeline`: weak fairness of each handler's next step and of each run's next
  step. A goroutine is scheduled, an HTTP call ends (15 s client timeout), and
  Temporal hands a scheduled activity to a worker. Nothing is assumed of
  providers, operators, the purge, or of which answer a destination gives.
* `AlertEvaluator`: weak fairness of a worker and of a handler inside its
  request; strong fairness of a send (the mail server does not refuse for ever,
  nor break for ever after taking the message) and of an UPDATE that waits for the table lock (PostgreSQL queues waiters).
* `Startup`: weak fairness of a process (containers restart unless stopped),
  strong fairness of the dial.
* `PlaygroundSessions`: weak fairness of handlers and of the collector's tick,
  strong fairness of its two statements that may fail.

## Proofs

The proofs are for every value of the constants: any number of connections,
events, replays, workers, handlers, visitors, streams and kills, every limit,
TTL, burst and channel size, and every set of disturbances unless a theorem
names one that is off. They use the named assumptions of the modules, which TLC
evaluates in the runs. Each rests on an inductive invariant that TLC has checked
on the run's instance; the listed theorems follow from it. There is one step per
action, and under it one per conjunct that the action can disturb.

**Pipeline** (`PipelineProofs`). That an issue shows an attempt that failed
depends on what the run about to write it has behind it. `Inv` adds

* `RunInv`: the attempt counter of a run is within its policy, all earlier
  attempts of the run failed, an answer it took for a success was one, and a
  run that is about to record an outcome has the attempts for it;
* `KeyInv`: one row per key, and a request past the insert has a stored key;
* `NoIssueInv`: an event without an issue has the blank record.

`StartsOnce` needs more: that a run of an event's own name is that event's
(`OwnRun`), and that a request about to start a workflow has an event nobody else
is starting and that has no run (`FreeToStart`). A duplicate does not get there,
and an id is drawn once, so a second request cannot have the same event; the rows
of one key are told apart by `KeyInv`. `SlotInv` adds that a run inside
an activity is at a worker (`AtWork`); then the semaphores bound the deliveries of
each worker (`LimitPerWorker`, for any number of workers), and
`PerConnectionLimit` is that statement for a single worker (`LimitOfOneWorker`
assumes that all workers are one). `StoryInv` follows one event
from its insert to the end of its run: which attempts its rows and its issue have
seen at each point. It holds as long as no replay of that event was started and
under `Calm`, that is without `dbError` and `activityLost`, for the code tries
activities once and ignores what a failed statement returns (`OutcomeIsShown`).
`IssuesFollowAttempts` and `AcceptedIsRecorded` are the two properties of the run
`pipeline_live`, which has no replays either; `replay_reopens` shows what a
replay does to the first of them.

**Inbox** (`InboxProofs`). `PipelineImplementsInbox` maps each action to a step of
`Inbox` or a stutter, with `Inv` available in both states: the guard of `Inbox`'s
resolve step is `RunInv`'s clause for `delivered`, that of its open step the
clauses for `note` and `exhausted`.

**Alerts** (`AlertEvaluatorProofs`). `RuleLimit` is not inductive: an insert keeps
it only because the count it was based on is still true, which the table lock
guarantees. `LimitInv` adds `LockHasOwner` and `CountIsCurrent`
(`LimitIsExact` of the handlers alone, `LimitBesideEvaluators` of the whole). That
a latch was sent (`LatchesAreSent`) needs that a worker past its send has sent what
it is about to record, which holds under every disturbance. One evaluator
(`OneWorkerEvaluates`) and one message per breach (`OneMessagePerBreach`) assume
that `lockLost` is off. `OnceInv` for the latter says why a stale snapshot does no
harm: what a rule sent last is latched or about to be, and the copy a pass works
from is still right about the latches of the rules it has yet to visit, because
nobody else is inside a pass and the handlers do not write latches.

`EvaluatorsKeepPromise` is the refinement of `Alarm`, also without `lockLost`, with
crashes and failing statements and sends. `PromiseInv` adds to `OnceInv` what the
steps of `Alarm` need: what a pass has read of a rule it has yet to visit was read
after the rule's last message, so the limit and the value that `clearFiring` acts on
are in the memory (`PassRemembered`; `RecoveredIsCalm`); a rule in the breach branch
does not show the threshold it breaches, so a crash there, or a send that breaks
after the delivery (`BrokenSendInterrupts`), is an `Interrupt`
(`LatchSeen`, `NotLatched`); a rule that spoke after its deletion is in no pass any
more (`LateIsLast`); notifications are of rules that are there (`RecordIsOfRule`).
`MemoryWatches` carries the other theorems over to the specification with history.
With two evaluators the promise is broken: the second pass may hold a snapshot from
before the first one's latch.

**Connections** (`ConnectionsProofs`). `CacheOK` relates a cache entry, and each
load under way, to the row: an entry that differs was loaded before a write whose
invalidation it missed, and is no older than the TTL and one load. `ReadsKnown`
says of the fields a PATCH has read and will write back that each is the one last
asked for, or an overlapping PATCH is on record for it. `Undisturbed` follows a simulate from the
switch of the source type to its post: as long as nothing came between, the row,
the entry that ingest would use and the signature belong together. The ids of
handlers are assumed to differ from the value that stands for none.

**Notifications** (`NotificationsProofs`). In `SecretInv`, a PUT that is
going to keep an older secret is on record (`KeepersKnown`); `UnsetInv` follows a channel from the check of a POST
through the rule, the pass and the loaded settings; `LogoutIsFinal` makes
`LetInOnlyLoggedIn`, an action property, provable: a session that was deleted or
has expired is not found again.

**Startup** (`StartupProofs`). `StartupInv` says for each point of `main` what a
process that got there has behind it (`ApiProgress`, `AdminProgress`): the schema
is current and the version clean once the API is past the migrations, and a user
whose password was neither the operator's nor shown belongs to a process that is
about to show it or is on record in `unshown`.

**Rate limiter and sessions** (`RateLimiterProofs`). `LimiterInv` adds the range of
the history variable: the minimum with the full bucket may be taken once after
many ticks, instead of at each, because nothing is negative. `BoundInv` counts the
visitors that have passed the count and not yet created: each of them may take
the table one beyond its limit, and so does each slip: an eviction that removes a
row makes room for its own session, one that finds its row gone does not.

**Streams** (`PlaygroundHubProofs`). `HubInv` says that whoever uses a hub has the
only one, that its lists hold exactly the streams between subscribe and
unsubscribe, and that the limiter counts the streams that are not idle. `BoxInv`
says of the log and of what a stream was given that it rises, and that without a
full channel it ends with the last message and has no gap. The proofs need a
finite set of streams, and the lemmas on sequences (what an append, a cut log or a
prefix keeps) that precede them.

Only model-checked: everything under fairness (`AckedSettles`, `RunsTerminate`,
`BreachNotified`, `AllServe`, `LimitRestored`), which is beyond the prover; and
`TextAsMeant`, which is about what a fold over the keys of a map computes and needs
induction over it.

## Not modelled

* HMAC, AES-GCM, JSON, hex: a MAC verifies with its own secret, a sealed payload
  opens with the key.
* The SMTP and Slack dialogues: a send succeeds, or fails before or after the
  delivery.
* Creating a connection, one INSERT of a fresh row.
* The playground's break, fix and replay: one flag per session, and runs that
  `Pipeline` has.
* Statistics: reads of aggregates, an arbitrary value per rule in the evaluator.
* The echo sink (a ring under one mutex on which nothing depends), the
  configuration (its values are the CONSTANTS) and the console.
* The length of a backoff: `Wake` may come at any time. Its overflow for very
  long policies, and a concurrency or interval of 0 from an unreadable variable,
  are hazards without a property.

Assumed throughout: API and workers are given the same mail and Slack
environment, as in the compose file, and a load of a connection takes at most
`MaxLoad` ticks. `components` in `PROJECT.json` gives the reason for each part.

## Plan

1. Done: the delivery pipeline and the alert evaluator with their refinements;
   alert rules; connections with their cache, the adapters and the simulator; login,
   notification settings, templates and senders; startup; playground streams;
   sessions with the rate limiter; proofs of their safety properties.
2. A worker that serves with an old schema, as a disturbance of the pipeline;
   the playground's break, fix and replay beside the pipeline.
