# AeroXe Bee: a TLA+ development

AeroXe Bee turns a fleet of Android phones into an SMS gateway. A Go server
accepts messages over HTTP, stores them in PostgreSQL, queues them in Redis
Streams, picks a phone for each and sends it a command over MQTT; the Android app
sends the SMS and reports back. A React console signs staff and members in and lets
them manage all of it. This directory models the parts of that system
whose correctness depends on the order in which things happen, checks the models
with TLC and proves the central invariants with TLAPS.

Paths in this file are relative to the repository root. `PROJECT.json` maps every
definition to the lines it stands for.

1. [Inventory](#inventory)
2. [How the parts interact](#how-the-parts-interact)
3. [What is hard](#what-is-hard)
4. [Modules](#modules)
5. [Runs](#runs)
6. [Fairness](#fairness)
7. [Proofs](#proofs)
8. [Where code and documents disagree](#where-code-and-documents-disagree)
9. [Not modelled](#not-modelled)
10. [Plan](#plan)

## Inventory

| Component | Code | State | Operations | Correct when |
|---|---|---|---|---|
| Message intake | `backend/internal/api/handlers/message_handler.go` | none of its own; rows, queue, counters | Send, MemberSend, BulkSend, ScheduleSend | answers account for every message, one message per idempotency key, quota respected |
| Idempotency store | `backend/internal/idempotency` | one Redis entry per key, with a TTL | CheckAndSet | at most one first request per window |
| Accounts and quota | `services/account_service.go`, `api/middleware/plan.go` | `usage_counters` row per account and day | CheckQuota(WithSub), IncrementUsage, EnforceQuota | each message counted once, overshoot bounded |
| Scheduled messages | `backend/internal/scheduler` | status of the `messages` row | ScheduleSend, poll, release, enqueue, revert | each due message queued exactly once |
| Queue and worker loop | `backend/internal/worker/queue.go` | three Redis streams, pending entries, dead-letter stream, `AntiStarvationCnt` | Enqueue, Dequeue, Acknowledge, DeadLetter, Consumer.Start | no message lost or handled twice, lanes served |
| Dispatch worker | `backend/cmd/server/main.go` (processMessage) | its candidates and `lastErr` | route, gate, limit, publish, record, count | one phone per message, outcome agrees with what was sent |
| Circuit breakers | `backend/internal/circuitbreaker` | per key: state, counts, trial, cooldown | RecordFailure, RecordSuccess, GetState, IsOpen, Reset | closed only within the threshold, closes only after a trial, recovers |
| Rate control | `backend/internal/ratecontrol` | Redis counters per minute and hour | CheckDeviceRate, IncrementDeviceCounters, throttles | limit passed by a bounded number |
| Routing | `backend/internal/routing` | none | FilterAndScore | - |
| Server MQTT client | `backend/internal/mqtt` | handlers by topic | Publish, Subscribe, SendSMSCommand, SendPong | reports reach their handler |
| Delivery reports | `cmd/server/main.go`, `device_handler.go`, `message_service.go` | status of the row, last pong of the device | status, ping, ack, HandleStatusUpdate | a late or repeated report does not undo a newer one |
| Delivery confidence | `backend/internal/deliveryconf` | none | Calculate | score within range |
| SIM health | `backend/internal/simhealth` | window of samples per device | RecordDelivery, EvaluateDevice, Cleanup | a recovered SIM becomes eligible again |
| Device registry | `services/device_service.go` | `devices` rows | Create, UpdateStatus, UpdatePong, GetEligibleDevices | - |
| QR pairing, MQTT credentials | `AddDeviceQRModal.tsx`, `qr_pairing_handler.go`, `mqtt_credential_service.go` | the modal's code, status and countdown; one-time tokens, credentials | open, refresh, close, count down; generate, log in, revoke | the code on screen works; a token pairs once |
| One-time passwords | `services/otp_service.go` | code, attempts and lockout keys in Redis | generate, VerifyCode | a code verifies once, attempts bounded |
| Webhooks | `backend/internal/webhook` | delivery states in memory | Dispatch, DispatchWithRetry | a failed event is retried up to the limit |
| Android intake and SMS | `android/.../worker/MqttService.kt`, `sms/` | Room `sms_tasks`, rate limiter | command, send, sent/delivered callbacks, retry | one SMS per command, every outcome reported |
| Android MQTT connection | `android/.../mqtt/MqttManager.kt` | client, subscribed topics, buffered flow | connect, subscribe, reconnect, publish | subscriptions survive reconnects |
| Releases | `services/release_service.go` | status of a release | submit, approve, reject, Release, cleanup | one released version |
| Review requests | `subscription_`, `payment_`, `plan_change_request_service.go` | status of a request | Create, Approve, Reject | reviewed once |
| Background jobs, FCM | `cmd/server/main.go`, `fcm/sender.go` | cooldown per device | minute tick | - |
| Console: session and routing | `frontend/src/store/authStore.ts`, `app/router.tsx`, `app/guards.tsx`, `services/api.ts`, `features/auth` | the zustand store, its copy in sessionStorage, the rendered location, effects, requests in flight | sign in, second factor, register, sign out, hydrate, redirect, reload | store and copy agree; a tab ends on a page it may show; a 401 ends the session |
| Console: query cache and pages | `app/providers.tsx`, `services/dashboard.ts`, 30 pages under `features/` | cache entries, loads, mutations in flight | visit, turn, click, load, retry, invalidate, poll | a page shows the changes made on it; loads end |
| Console: toasts, header, sidebar | `components/ui/Toast.tsx`, `components/layouts` | toasts, timers, history, what the header rendered | add, merge, expire, dismiss, bell, panel, menu | one timer per toast, no notice lost or counted twice, a bell that means something |
| Console: settings page | `features/settings/pages/SettingsPage.tsx` | per card: rows, busy flags, modals | load, change, revoke, save | a card at rest agrees with the server; flags fall |
| Console: staff users page | `features/users/pages/UsersPage.tsx`, `components/ui/DataTable.tsx` | page, search, filters, rows, selection, modal | load, search, filter, turn, save, delete | the table at rest is the page it says it is |
| The rest | auth handlers, sessions, API keys, request limits, fraud filter, administration, AI settings, SSE, configuration, the public site, migrations | rows, counters | per request | - |

## How the parts interact

    client --HTTP--> intake --XADD--> lanes --XREADGROUP--> worker --MQTT--> phone
                       |                ^                     |                |
                       v                |                     v                v
                  PostgreSQL <----- scheduler            breakers, rates   SMS network
                       ^                                                       |
                       +----------------- delivery reports <-------------------+

* A browser tab of the console talks to the server over HTTP and listens to one event
  stream. Within the tab there is one thread, but replies, timers, effects and
  navigations come between any two events, and a handler continues after its `await`
  with the values of the render that started it.
* HTTP handlers run concurrently and share PostgreSQL and Redis only; none of
  their sequences of calls is a transaction.
* All worker goroutines of a process share one `Queue` value (and its unlocked
  anti-starvation counter), one `StateManager` of breakers (under a mutex) and the
  Redis rate counters.
* Every server process runs the scheduler and the workers; they meet in the
  `messages` table and in one Redis consumer group.
* The handler's result is all the worker loop learns about a message: nil
  acknowledges, an error leaves the entry pending.

## What is hard

* **Check, then act**: the idempotency entry, the daily quota, the device rate and
  the scheduled row are read in one call and changed in a later one.
* **Partial failure**: a request or a dispatch is five to ten calls, each of which
  may fail, succeed without its reply arriving, or be the last one before a crash.
* **Retries nobody wrote**: the Redis client sends a command again when its reply is lost, an
  XADD or an INCR included.
* **Retries that are not**: the pending entries of the consumer group are never
  claimed, so what happens after a failed handler differs from what the loop seems
  to say.
* **Fairness between lanes**: a counter shared by all workers decides whether the
  lowest lane is read.
* **Uncertain sends**: a publish that times out may have reached the phone.
* **Late replies**: nothing in the console cancels a request. A reply acts on the page
  that is mounted when it arrives, or on a component that has asked again since.
* **Two writers of one screen**: effects and handlers both navigate after a sign-in; loads
  and replies of changes both write a list; a module variable and React state both hold
  the history of toasts.

`PROJECT.json` lists the hazards one by one, each at its line, with the property
that covers it or the reason none does yet.

## Modules

### CircuitBreaker

One `circuitState` record per key. `AfterFailure`, `AfterSuccess` and
`AfterGetState` are the three operations as functions of the record; the actions
apply them to a key, under the mutex, hence atomically. `Reset` is the admin
endpoint, `Restart` a new process with an empty map. Time is reduced to `cooling`,
which is what `CooldownUntil` is compared for. The rate is compared as a fraction
(`Exceeds`), never as a float. The history variable `streak` counts successes since
the last failure; properties compare the trial counter with it.

### LaneQueue, AtMostOnce, MCLaneQueue

`LaneQueue` holds the undelivered suffix of each stream (`backlog`), the pending
entries (`pel`), what was acknowledged, dead-lettered or trimmed, and for each
consumer where it is in `Consumer.Start` and `Dequeue`. `Enqueue` includes the
trimming that XADD MAXLEN does; `Read` is a served XREADGROUP, `ReadFails` an error
whose reply may have been lost, after which the Redis client sends the command again or
the loop starts over, `ReadTimesOut` an empty lane. `AntiStarvationCnt` is a field that
all workers access without a lock, so each access is a step of its own: `ResetSkips` the
two assignments of 0, `GateMarketing` the guard, `LoadSkips` and `StoreSkips` the two
halves of `++`. Between the guard and the load others may store, so the counter may
pass the ratio; it is only ever compared with it, and stops at `MaxSkips`. The history
`raised` holds the workers under which another one has stored the counter since their
own reset. `HandlerSucceeds` and `HandlerFails` are the two branches after the handler
returned.

`AtMostOnce` is what the queue promises about one message, as a graph of statuses
without any way back to "queued". `LaneQueue` implements it under the refinement
mapping `StatusOf`. `MCLaneQueue` assigns messages to lanes for TLC.

### Dispatch

`processMessage`, one action per call that matters: `Take`, `Route` or `Refuse`,
then per candidate `Gate` (the breaker), `Admit` or `Decline` (rate, throttle, SIM
health), `Confirm` or `PublishFails`, and after a confirmed publish `Record` (the two
row updates, each of which may fail), `Increment` and `Count`: the pipeline that
increments the rate counter is not idempotent, and go-redis, left at its default of three
retries, repeats it when the reply is lost, so Redis serves it up to `Attempts` times
for one message. `Exhaust` returns `lastErr`. The
queue is seen through `AtMostOnce`: a message that failed or was in hand at a crash is
stranded. `DispatchProofs` shows that this is all Dispatch assumes of the queue: each of its
steps is a move of `AtMostOnce`, which `LaneQueue` implements. The breaker's operations
are those of `CircuitBreaker`, by INSTANCE, so the two modules cannot drift apart. `confirmed`, `uncertain` and `inbox` record what
the broker acknowledged, what failed or timed out, and what really reached a phone.

### SendApi, MCSendApi

`Send`, `MemberSend` and `BulkSend` as handlers that move through the places gate,
check, set, quota, create, count, enqueue, one Redis or PostgreSQL call each; a bulk
request loops over its recipients from create to enqueue. `CheckKey` and `SetKey` are
the two calls of `CheckAndSet`. `CheckQuota` reads two rows: without the counter the
request ends in a 500, without the subscription it passes (`waived` counts those). An
INSERT whose reply is lost leaves a row that nobody counts or queues. `WorkerSends` is
the other party that increments the usage counter, `Expire` the end of a key's window,
`NextDay` midnight, `Crash` the death of the process. `today`, `made`, `uncounted` and
`waived` are histories. `MCSendApi` adds the symmetry of requests.

### Scheduler

`ScheduleSend` makes a row, `Poll` takes the earliest due rows, `Release` is the UPDATE
that succeeds also when no row matched, `Enqueue` and `EnqueueFails` the XADD and its
failure with the "revert", which calls the same UPDATE again. The Redis client repeats an
XADD whose reply is lost: a call that succeeds has added one to `Attempts` entries,
one that fails none to `Attempts`. Any number of replicas run
this loop; each may crash. A message is named by its due time, so that "the earliest"
needs no second variable.

### Session

One browser tab. What is on the screen is a function (`View`) of the rendered location
and the store; `Render` is a commit of React, which mounts and unmounts guards, forms and
the layout and leaves their effects to be run. `hydrate`, `OpenStream`, `Redirect` and
`Arrive` are what the browser has queued; `Navigate`, `Submit...`, `Back` and `Reload` are
the user; `LoginServed`, `Start2FA`, `VerifyServed`, `RegisterServed`, `SignsOut`,
`ProfileServed`, `ProfileUnauthorized` and `FormFails` are replies, which act also when the
page that sent the request is gone. `Carried` is the request interceptor: it reads
`store.token`, which does not exist, so only an `api_key` in localStorage, which the
console never writes, makes a request carry credentials.

### QueryCache, Console

`QueryCache` is TanStack Query as the console configures and uses it: entries with data
and staleness, loads with retries, invalidation by the first element of a key, polling.
Rows are versions that the server counts. `Mount`, `Turn` and `Click` are the user;
`Execute`, `Acknowledge` and `CallFails` the life of a mutation; `Read`, `Loaded` and
`LoadFails` that of a load. `Console` describes each page by its queries, its
mutations with what they change and what they invalidate, and its controls with what
disables them: adding a page is a few lines. The one fact about pages that the general
theorem needs, that a mutation invalidates the queries of its own page that it changes, is
`CoversAssumption`, which TLC evaluates on the thirty pages.

### Shell

Toasts merge by variant, each with a timer; a toast that leaves goes to the history, which
merges by variant and message and is capped. The header reads the history from a
module variable when it renders (`RenderHeader`), so what it shows (`shown`) may be old. A click
is a mousedown, which may dismiss the newest toast and close what is open, and the click
itself.

### Settings, Pairing, Staff, Portal

Three pages that keep server data in `useState` rather than in the query cache, each with
the part of the server they talk to. `Settings` follows one card of the settings page: a
card shows a set of rows, changes are accepted or lost, loads overwrite. What a load may
read (`Told`) is what the handlers answer: of keys and sessions the first page of
`PageLimit` rows (20 in the code) or fewer, since a row stream that breaks off is taken
for its end, and of 2FA "off" also when the database failed. The history `partial` says
that the load on screen read a part. `Pairing` is
the QR modal, `GenerateQRCode` and `QRLogin` with one step per SQL statement. `Staff` is the
users table: every load keeps the page, search and filter of the render that asked, and
is served by two statements, `Count` and `Select`. A page without rows comes as null, whose
length the table reads; then the error boundary replaces the page (`broken`).
`Portal` mounts one of the three, since a tab shows one page at a time.

### Proof modules

`CircuitBreakerProofs`, `LaneQueueProofs`, `DispatchProofs`, `SendApiProofs`,
`SchedulerProofs`, `SessionProofs`, `QueryCacheProofs` and `PortalProofs` extend the module they
are about; `SessionProofs` also extends `Shell`, the frame around every page of the tab, and ends with
its toasts, their history and the bell. See [Proofs](#proofs).

## Runs

| Run | Module | Checks | Bounds, and why they are enough |
|---|---|---|---|
| `breaker_device` | CircuitBreaker | ClosedWithinThreshold, TrialIsConsecutive, ClosesOnlyAfterTrial, RecoversOnceHealthy | one key (keys do not interact), threshold 1/2, trial of 3, up to 5 failures and 4 successes: every transition, and failures at every point of a trial |
| `queue_lanes` | MCLaneQueue | Accounted, OneHandler, OwnSkipsNeverAdmit, HandedOutAtMostOnce, UrgentLanesDrain | two workers, an OTP and two transactional messages, depth 1 (so the second of these may trim the first), ratio 2, the counter up to 3 (past the ratio), one crash: two workers suffice for every race on the counter and on one entry. Marketing has no message: once on that lane a worker reads it like any other, and the way there is what OwnSkipsNeverAdmit is about |
| `dispatch_fleet` | Dispatch | OneConfirmedSend, OutcomeMatchesSends, RowNamesSender, RateOvershootBounded, TakenIsSettled | two messages, two phones, two workers, limit 1, pipelines sent up to twice (4 times in the code), a crash and a new minute: both workers can try both phones in any order, and both can pass the rate check of one phone and count more than once; 1.8 million states, three minutes |
| `sendapi_concurrent` | MCSendApi | QuotaOvershootBounded, AnswersAccounted, MessagesPerKeyBounded | three requests, two at once, one key, bulk requests of two, limit 1, two failing calls (a waived quota and an uncounted row, or both items of a bulk request), a crash, a midnight; 6 million states |
| `sendapi_sequential` | MCSendApi | OneMessagePerKey | three requests one at a time over two keys, two failing calls, a crash |
| `scheduler_two` | Scheduler | PendingIsAccounted, EnqueuedPerProcess, DueIsEnqueued | two processes, three messages of which one is unreadable, batches of two, XADD sent up to twice, two failing calls, a crash: both processes may hold the same batch, and a reply may be lost in either |
| `session` | Session | TypeOK, StoreMirrorsStorage, RestsOnPage, LandsAtHome, ComesToRest | an administrator and a member with a second factor, four requests or reloads: enough for a late reply to meet a session that was ended or replaced |
| `session_unauthorized` | Session | UnauthorizedSignsOut (violated) | an administrator and two requests |
| `console` | Console | ReadYourWrites | every page in turn, with the pages that share its queries; two views of a table; one mutation, and loads that fail at the first error (retries are in `console_polling`; the theorem covers any number of both) |
| `console_polling` | Console | ReadYourWrites, LoadsEnd | the flags page beside the polling sidebar, with the code's two retries: one mutation and one change by somebody else. ReadYourWrites is checked again because `console` has neither |
| `shell` | Shell | ShellTypeOK, OneTimerPerToast, NoticesConserved, BellMeansNew, ToastsGo | two variants, two messages, three notices, a history of two, one visible toast, flag counts up to two: merges of toasts and of entries, a full history and a hidden toast all occur |
| `portal` | Portal | TypeOK, AtRestAgrees, TableAgrees, ShownCodeWorks, PairsOnce, PageSettles | four requests of a settings card (a reload that overtakes another load), three rows and a page limit of two (a list that is cut), two codes and two phones (a late reply to a modal that was reopened; two logins with one token), two users on pages of one and two requests of the staff page, not counting the reload after a change (a change between the two statements of a load; a reload that overtakes a load). With three requests, where the reload may ask for a filter that was left, Staff alone has 1.1 million states and TableAgrees holds too; the theorem covers any number |

The types of CircuitBreaker, Dispatch, SendApi, Scheduler and QueryCache are proved
(`TypeCorrect`) and are not checked again by a run.

What the passing runs show:

* `breaker_device`: whatever the order of outcomes, polls, resets and restarts, a closed
  breaker is within its threshold, a trial interrupted by a failure starts again from
  zero, and a device that stops failing gets its breaker closed.
* `queue_lanes`: no lost reply, failed acknowledgement, trimming or crash makes a message
  vanish from the accounts or lets two workers handle it. However the unlocked accesses to
  the counter fall together, a worker gets to the marketing lane only when another one has
  stored the counter since its own reset: its own passes over empty lanes are never enough. OTP and transactional messages always
  leave the backlog.
* `dispatch_fleet`: a message is confirmed by at most one phone, an error returned to the
  queue means nothing was confirmed, and the row names only a phone that was
  confirmed, although the row is written by two calls that fail independently. No message stays in
  hand for ever.
* `dispatch_fleet` and `sendapi_concurrent`: the two check-then-count races are real, and
  their overshoot is bounded; the bounds are the ones stated in the properties. They are
  wider than the races alone would make them: a repeated pipeline counts one send several
  times, and a quota check that cannot read the subscription lets a whole request through.
* `sendapi_concurrent` also: every answer but a 500 accounts for each message of its
  request. An accepted message is queued; an item of a bulk request is queued or listed as
  "stored for retry" or "failed", and what is listed as failed is never queued. A 500 says
  nothing. A row exists before a worker can see its message, and the race for a key is
  bounded: only requests that were open together can each make a message for it.
* `sendapi_sequential`: a client that waits for an answer before it repeats a request never
  gets two messages, whatever failed in between.
* `scheduler_two`: every way out of the loop is accounted for; processes that polled together
  may each queue a message, but none calls Enqueue for it twice, so its entries are at most
  the attempts of one XADD for each process; a due message is queued as long as
  unreadable rows do not fill a batch.
* `session`: late replies, reloads and redirects in any order leave the store and
  sessionStorage in agreement and the tab on a page. A member who signs in passes through
  `/dashboard` and its guard on some orders, and always ends at `/member`.
* `console`: thirty pages keep the rule "what I changed here and was told of, I see here",
  although loads that read before the change may answer after it. The two ways around it
  are named in the property.
* `console_polling`: retries and changes made by others do not hide a change of this tab, and
  the sidebar's polls keep no load going for ever.
* `shell`: the bookkeeping of toasts is exact under every interleaving of timers and clicks.
* `portal`: a settings card shows no row that the server no longer holds once things are
  quiet, and all rows unless its load read a part, except where the property says how it may
  not; the staff table comes to rest on the page it says it is; the code on screen works;
  flags and countdowns come down.

Every property of a passing run has a mutant: a definition changed as a plausible bug
would change it, with which TLC finds the property violated. The mutated forms stand
next to the definitions they alter, marked "Mistake".

CHECK_DEADLOCK is off where the bounded system really stops: every message handled
(`Dispatch`), every request answered (`SendApi`), everything sent (`Scheduler`), every
request of the bound used up and nothing on (`Console`, `Shell`, `Portal`), or the staff page
broken (`Portal`).

## Fairness

* CircuitBreaker: weak fairness of the cooldown, of the poll and of a recorded success,
  i.e. messages keep being dispatched to the device and the device has recovered
  (`RecoversOnceHealthy` assumes that failures stop). Without traffic nobody polls, and the
  breaker stays open: that is the code's behaviour and is not claimed otherwise.
* LaneQueue: weak fairness of each loop, since goroutines are scheduled, blocking reads
  carry a timeout and handlers a 30 s context; strong fairness of `Read`, since connection
  errors do not defeat a read for ever. Producers and crashes are not assumed.
* Dispatch: weak fairness of each step of `processMessage`: the publish waits at most 5 s
  and the other calls carry the handler's context.
* Scheduler: the ticker fires, the loop ends, time passes.
* SendApi: the checked properties are safety and use no fairness.
* Session: the browser runs queued effects and navigations. Users and replies are free.
* Console: a load that is on is served and answered, or fails; nothing is assumed of
  mutations, users or the failure itself.
* Shell: a timer that runs fires.
* Portal: requests of the mounted page are answered or fail, and the countdown's interval
  fires while it is registered. Only one page is mounted, so one weak fairness condition
  on these steps together says the same as one for each.

## Proofs

All theorems hold for every value of the constants that satisfies the module's assumption
(`BreakerAssumption`, `QueueAssumption`, `DispatchAssumption`, `SendApiAssumption`,
`SchedulerAssumption`, `SessionAssumption`, `ShellAssumption`, `NoneAssumption`, `QueryAssumption`,
`CoversAssumption`, `PairingAssumption`, `SettingsAssumption`, `StaffAssumption`), which TLC evaluates on every run.

| Module | Theorem | Statement | Inductive invariant |
|---|---|---|---|
| CircuitBreakerProofs | TypeCorrect, ClosedWithinThresholdHolds, TrialIsConsecutiveHolds, ClosesOnlyAfterTrialHolds | the safety half of `breaker_device` | per key: closed implies within the threshold; half-open implies trial at most `streak` and short of its length. The lemma that carries it is SuccessLowersRate: a success cannot push the rate over the threshold |
| CircuitBreakerProofs | FullThresholdNeverOpens | a threshold of 1 or more opens no breaker | every breaker is closed, since failures are never more than all outcomes |
| LaneQueueProofs | AccountedHolds, OneHandlerHolds, ImplementsAtMostOnce | the accounts and the handlers of `queue_lanes`, and that LaneQueue refines AtMostOnce | types and the accounts themselves, plus: every lane holds distinct messages of its own, a consumer handles exactly while it holds something, and what it holds has not failed |
| LaneQueueProofs | OwnSkipsNeverAdmitHolds | OwnSkipsNeverAdmit of `queue_lanes`, for any number of workers and any positive ratio | `CounterInv`: between its own reset and the guard a worker finds the counter at 0 unless another has stored it since. The property alone is not inductive: it says nothing of the counter before the guard |
| LaneQueueProofs | SingleWorkerNeverReadsMarketing | with one worker and a positive ratio, the marketing lane is never read | `CounterInv`: nobody else stores, so the counter is 0 whenever the only worker reaches the gate |
| DispatchProofs | TypeCorrect, OneConfirmedSendHolds, OutcomeMatchesSendsHolds, RowNamesSenderHolds | the safety half of `dispatch_fleet` | `Holding` (two workers never hold one message), `WorkerKnows` (a worker still trying has nothing confirmed; without an error it has tried nothing; one that records has exactly its current device confirmed), `MessageOK` (the same for a message nobody holds) |
| DispatchProofs | RateOvershootBoundedHolds | counter below limit plus attempts times workers | `RateInv`: the counter plus the increments that Redis may still serve for the workers past the check (`Open`, pairs of a worker and an attempt) stays below that bound; the code's counter alone is not inductive |
| DispatchProofs | CopiesBoundedHolds | the command of a message reaches at most `MaxResults` phones, whatever times out or crashes | `CopiesInv`: nothing was sent for a message that is queued or not routed yet; while a worker tries candidates, the phones reached plus its remaining candidates are at most `MaxResults` |
| DispatchProofs | SeesQueueAsPromised | started with its messages queued, every step of Dispatch is a move of AtMostOnce or leaves all statuses alone | the invariant of the row above it but one: what a worker returns is the message it holds, which is running (`Holding`) |
| SendApiProofs | TypeCorrect, AnswersAccountedHolds | types, and AnswersAccounted of `sendapi_concurrent`, for any interleaving and any bulk size | a handler's place tells which of its items have a row and which are settled; what failed or is still to come is not queued |
| SendApiProofs | QuotaOvershootBoundedHolds | the overshoot bound, for every bulk size and number of open requests | `QuotaInv`: the day's messages are covered by the counter, what nobody counted and the requests about to count; and the day's messages plus those open requests past the check may still make (`Left`) stay below the bound, whose slack grows with each waived check (`Slack`) |
| SendApiProofs | MessagesPerKeyBoundedHolds | at most `MaxOpen` messages per key and window, for any requests, keys and failures | `KeyInv`: a key with a message has its entry, so nobody else passes the check; its messages plus the requests between `set` and `create` are at most `MaxOpen`. When the first request passes the check, the second sum counts open requests, which `QuotaInv` bounds |
| SendApiProofs | SequentialRequestsMakeOneMessage | `MaxOpen = 1` implies one message per key (`sendapi_sequential`) | the theorem above, with a bound of one |
| SchedulerProofs | TypeCorrect, PendingIsAccountedHolds | the accounts of released rows, with any number of processes | the property itself plus types; well-foundedness of < gives that the loop takes a message of its batch |
| SchedulerProofs | EachProcessEnqueuesOneCall | EnqueuedPerProcess of `scheduler_two`: at most the entries of one XADD per message and process, for any finite number of processes and attempts | `PerProcessInv`: a message on the queue has left "scheduled" for good, so its entries are at most those of one call of each process that does not hold it (`Others`); what is held has a row, and what is about to be queued is released |
| SchedulerProofs | RevertReschedulesNothing | no step, the "revert" included, makes a released row scheduled again | types only |
| SessionProofs | TypeCorrect, StoreMirrors, TabRestsOnPage | types, StoreMirrorsStorage and RestsOnPage of `session`, for any users and any number of requests | StoreMirrorsStorage, `NamesUser` (who is authenticated has a name) and `ScreenInv`: a guard that is mounted and shows no page still has the effect that will end it, an open stream belongs to a mounted layout, and a store that differs from storage is about to be read again |
| SessionProofs | SignInLandsAtHome | LandsAtHome of `session`, for any users and any number of requests | `FormInv`: a form waits for a request only while it is on the screen, and for one of its own; `LandInv`: while a sign-in is landing, each screen has the navigation that leads on, until the page of the role is there |
| SessionProofs | ToastsHaveTheirTimers | OneTimerPerToast of `shell`, for any number of notices | `ToastInv`: toasts are numbered by the notices that made them and none has the number of another, so a timer that ends or is replaced is that of one toast |
| SessionProofs | ShellTypes, EveryNoticeCounted | ShellTypeOK and NoticesConserved of `shell`, for any number of notices and any cap | `HistoryInv`: a toast and an entry never stand for the same notice, no two entries have the same variant and message, and the notices on screen, in the history and gone are all that were made. A push either merges into one entry, adds one, or drops the oldest; `PushOne` says what each does to the count, and `AllPushed` carries it through a loop of pushes |
| SessionProofs | LitBellMeansNew | BellMeansNew of `shell` | `BellInv`: the length the header noted is at least the number of entries, in the history and in what it shows, that were ever listed; so more entries than that contain one nobody has seen. `OnwardBell` shows that merging and dropping keep this, since neither makes an unlisted entry a listed one |
| QueryCacheProofs | TypeCorrect, TabReadsItsWrites | the invariants of `console` and `console_polling`, for any pages that satisfy CoversAssumption | `EntryKept` and `EntryShape` per cache entry (fresh data, and what a load that was not overtaken has read, are at least the acknowledged version), `CallFromPage` (a call in flight was offered by the page it came from), `AckedInv` (no version is acknowledged that the server has not made) |
| PortalProofs | PairingTypes, ShownCodeHolds, TokenPairsOnce | the pairing invariants of `portal`, for any number of phones, codes, ticks and logins at once | `Numbered` (nothing is known of a token not asked for yet), `Alone` (a request that ran beside no other is the only one in flight and its token unused), `OnScreen` (a waiting code was made, and if it is withdrawn a request is in flight that replaces it), `Singles` (a token that was not raced for has one login past the check or one phone paired, never both) |
| PortalProofs | CardAtRestAgrees | AtRestAgrees of `portal`, for any number of rows, requests and rows per page | `SettingsInv`: a load that nothing overtook carries only what the server holds, and all of it if it is whole (`FreshLoads`), a change that ran stays in force until its reply comes (`InForce`), the switches on screen are those of the save in flight (`SavesShown`), and unless some request in flight will still decide what the card shows, it shows only what the server holds or is being revoked and, unless it is partial, all of it (`Agrees`). These rest on one request at a time holding a busy flag (`OneHolds`), ids and new rows not used twice (`NumberedRequests`, `NewRows`) and each card sending its own requests (`OfCard`) |
| PortalProofs | TableAtRestAgrees | TableAgrees of `portal`, for any users, page size and number of requests, unless the page broke | `StaffInv`: a load that no change has overtaken since it counted has the total of its view and, once it has selected, its rows (`FreshTables`); unless something in flight will decide what the table shows, it shows what search, filter and page ask for (`TableHolds`); ids are not used twice (`NumberedCalls`) |
| PortalProofs | TypeCorrect | Portal.TypeOK | the three pages' invariants, each kept by the steps of the others |

The assumptions exclude only degenerate values; `StaffAssumption`, for one, bounds the
number of users by at least one.

Two devices make the proofs about the history of `Shell` possible. `Total` counts notices by the cardinality of a set
(`Behind`), not by a sum over a sequence, so the library's facts about finite sets apply. And a loop
of pushes is a recursive function of the number of toasts pushed: that such a function exists, and
what holds along it, is proved from well-foundedness (`Reach`, `PushesByNumber`), because the
library's induction theorems take an operator that no installed prover can instantiate.

Some theorems state what no run checks. With the two phones of `dispatch_fleet`, CopiesBounded
holds by counting phones; SingleWorkerNeverReadsMarketing needs one worker where `queue_lanes` has
two; FullThresholdNeverOpens and RevertReschedulesNothing settle what is said of `SpikeOpensBreaker` and
`RevertedIsEnqueued` below.

Model-checked only, and why:

* RecoversOnceHealthy, UrgentLanesDrain, TakenIsSettled, DueIsEnqueued, ComesToRest, LoadsEnd,
  ToastsGo and PageSettles are liveness under fairness, outside what the installed provers do.
* UnauthorizedSignsOut is refuted, not proved.

## Where code and documents disagree

Shown by a run: `session_unauthorized`. `services/api.ts:33` calls `clearAuth()`, which the
store does not define, so a 401 throws inside the interceptor and the session stays, although
`api.ts:25` says "handle auth errors" and `:30` "Only clear auth for non-login requests".

Stated in the modules and without a run of their own; TLC refutes each at the constants given:

* `MarketingDrains` (LaneQueue, two workers, no crash): `queue.go:111` resets the counter on
  the way to the transactional lane, so the marketing lane may wait for ever, and with one
  worker always does (proved); `docs/requirement.md:257` gives it an allowance.
* `FailedIsRequeuedOrDead` (LaneQueue, one worker, three attempts): `queue.go:296` counts
  attempts on a copy; a failed entry stays pending and is never read again;
  `docs/requirement.md:635` says "Requeue with backoff; dead-letter after max attempts".
* `AcknowledgedWasSent` (Dispatch, no crash): `main.go:440` skips an open breaker without
  setting `lastErr`; if all are open the message is acknowledged unsent;
  `docs/requirement.md:627` wants it queued, then dead-lettered.
* `OneMessagePerKey` (SendApi, two open requests): `idempotency.go:28`, GET and SET are
  separate calls; `docs/requirement.md:304`.
* `SpikeOpensBreaker` (CircuitBreaker, threshold 1/1): the account scope compares
  a rate with 1.0 by ">", so its breaker never opens (proved).
* `QueuedJobsContinue` (LaneQueue, depth 1): the depth limit trims waiting messages.
* `SentOnce` (Dispatch): a publish that timed out may have arrived before the next
  candidate gets the message.
* `DuplicateHasOriginal` (SendApi, one failing call): a request that failed after its key was
  stored leaves a key whose repeats are all "duplicates" of nothing.
* `BlockedAboveGrace` (SendApi, two open requests), `UsageCountsMessages` (the handler
  and the worker both count a message), `StoredIsRetried` (an item of a bulk request that
  was only stored is never queued).
* `EmptyIsShown` (Staff, two users, a filter that neither matches): `user_service.go:103`
  returns a nil slice for a page without users, sent as `data: null`; `dashboard.ts:302` and
  `UsersPage.tsx:52` pass it on and `DataTable.tsx:56` reads its length, so the error boundary
  replaces the page. `UsersPage.tsx:192` has the text for the case, "No staff users match your
  filters.", which is never shown. Deleting the last row of the last page ends the same way.
* `DueIsEnqueued` (Scheduler, as many unreadable rows as a batch holds) and
  `RevertedIsEnqueued` (the revert looks for a scheduled row and finds none).

Shown by the models' actions, without a property that TLC refutes:

* Scheduler: nothing ensures the "Duplicate-send rate (target: 0%)" of `docs/requirement.md:697`
  on the horizontally scaled servers of `:105`. `scheduler.go:127`, an UPDATE that matched no row counts as
  success, so each process queues the message, and `queue.go:86`, the Redis client repeats an
  XADD whose reply is lost, so a single process may add it several times. EnqueuedPerProcess
  is the bound that remains.
* SendApi: `BulkSend` answers "queued" for an item whose Enqueue failed
  (`message_handler.go:524`), and "sent" is the number of results, those with status "failed"
  included (`:545`). The text "stored for retry" is the only trace.
* SendApi: an error when reading the subscription means no limit
  (`account_service.go:171`); Dispatch: a repeated pipeline counts a send twice.

Met while reading the console and named in the models:

* Session: a profile reply that comes after the sign-out sets `isAuthenticated` again
  (`renamed` excepts it); an administrator whose late sign-in reply arrives on `/register`
  lands at `/member`; a late second sign-out clears the pending second factor while the form
  stays at that step.
* Pages: `PlansPage` stores the active features under `['feature-catalog']`, the key under
  which `FeatureCatalogPage` keeps all of them; `SmishingFlagsPage.tsx:140` uses
  `filteredFlags` before its declaration at 157, so every render throws; the messages
  page may lack, for 30 seconds, a message just sent, since sending invalidates nothing.
* Header: the open panel does not follow new entries ("Notifications will appear here as
  they arrive", `Header.tsx:166`); entries that arrive at the cap, after Clear all or by
  merging do not light the bell; a rise of the flag count from 0 is not announced.
* Settings: a first load that arrives late overwrites switches already moved; a key revoked
  while a reload had read before reappears. Keys and sessions beyond the first 20 are never
  shown, and revoked keys, which the card drops, take up places of the 20
  (`account_handler.go:102`); a failed read of the 2FA status shows "off"
  (`twofa_service.go:121`).
* Pairing: closing and reopening the modal overlaps two requests, and the later reply wins
  though its token may be the withdrawn one; a code that arrives expired stays at 0:00; two
  logins may both pass the check of one token (`qr_pairing_handler.go:152`), and errors of
  marking and invalidating are ignored. `QRLogin` revokes credentials under the id with the
  SIM suffix and creates them under the plain one, against its comment "Revoke any existing
  active MQTT credentials for this device" (`qr_pairing_handler.go:227`).
* Staff: a filter changed during a deletion shows the rows of the old one; a save that
  returns after its modal was closed closes whichever modal is open.

## Not modelled

Routing scores, the delivery-confidence sum, fraud rules and SIM-health verdicts enter
the models as nondeterministic choices. The carrier throttle and the hourly rate windows
have the same effect on control as the device's minute rate and share its action. The
account breaker is left out of Dispatch because nothing records an account failure.
`ClaimStale` has no caller. The server's side of authentication, administration, reporting,
AI settings, live events, configuration and the schema hold no state whose ordering the
messaging path depends on; the console's models see them as requests that are served, refused
or lost. Of the console, texts, layout, charts, animation and form fields are left out, as are
the public site, the Firebase page (edits made during its save are dropped), the contact form,
the dialogs that show a webhook secret once, and the parts nothing uses (`uiStore`'s toasts,
`resolvedTheme`, `filterStore`). A stored user that is not JSON (`authStore.ts`, the catch of
hydrate) and React's StrictMode, which doubles updaters in development, are left out of
Session and Shell. `PROJECT.json` names every component with its reason.

## Plan

Ordered by how much of the messaging path each step completes.

1. **DeliveryReport**: MQTT status, ping and ack handlers, `HandleStatusUpdate`,
   `UpdateDeliveryStatus`, `MarkFailed`, with lost, repeated and reordered reports.
   Abstract specification: a message's delivery status only moves forward. Properties: a
   settled outcome is not undone; HTTP and MQTT reports agree on the device's status; a
   report published by a phone reaches its handler (`mqtt/client.go:122`).
2. **AndroidSms**: command intake, engine, sent and delivered callbacks, the Room table
   and the retry processor; redelivered commands and a full buffer. Properties: one SMS per
   command, every SMS reported, retries end. Composed with DeliveryReport and with the
   inbox of Dispatch, down to "one message, one SMS".
3. **Composition of SendApi, Scheduler and LaneQueue**: a scheduled message is never counted in
   the quota (`message_handler.go:621`) and enters the queue without an account
   (`scheduler.go:134`).
4. **OTP**: one-time use under concurrent requests and partial failure; device rows and
   credentials behind `Pairing`.
5. **SimHealth**: the window, the ratchet from HEALTHY to BLOCKED and the way back.
6. **Webhook**, **Release**, **ReviewRequests**: small protocols with few calls each.

To keep the number of runs readable, a new module brings one passing run, and a
violation run only where no stated property already tells the story; properties that are
proved for every value of the constants may share a run.

Hazards these steps are for, beyond those `PROJECT.json` lists: handlers are looked up by
concrete topic but registered under a wildcard (`mqtt/client.go:122`); two reports pass the
terminal check together (`device_handler.go:307`); the carrier's verdict resets the retry count
(`SMSDeliveryReceiver.kt:44`); retries read tasks nobody stored (`MqttService.kt:221`); a full
buffer drops commands (`MqttManager.kt:76`); a failed webhook is never retried
(`webhook.go:134`); reviews update by id only (`payment_request_service.go:132`); a blocked SIM
never recovers (`simhealth.go:53`); a release is published in two statements
(`release_service.go:127`).

Theorems worth proving next: that `DeliveryReport` implements its abstract specification;
the bound on attempts in AndroidSms; that a Scheduler of any number of processes, put in
front of LaneQueue, hands a message out at most as often as it has entries.
