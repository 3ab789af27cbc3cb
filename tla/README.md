# Tornmanager in TLA+

Tornmanager is a Rails 8.1 application for players of Torn: live war boards,
faction training statistics, subscriptions paid in xanax, public war lobbies,
an elimination tracker, chat rooms for a userscript, and a recruiter. It runs
as one web process group and one Solid Queue process group over SQLite, Solid
Cache and the Torn API. Nearly all of its hard behaviour comes from one fact:
**nothing locks**. A request or a job loads a row or a cache entry, calls Torn
for up to seconds, and writes from the copy it holds; long-lived activities are
*chains* of jobs, each of which enqueues its successor. The browser code has the
same habit: polls overlap, and an answer acts on whatever the page is by then.

This directory models that behaviour, checks it with TLC on small instances and
proves the main invariants with TLAPS for instances of every size.

## 1. Inventory

| Component | State | Operations | Hard behaviour | Correct when | Model |
|---|---|---|---|---|---|
| Rate limiter (`models/torn_api/rate_limiter.rb`) | counters in Rails.cache, a thread-local flag | `acquire!`, reserving block, `remaining` | two increments that nothing joins, minute boundary, refused calls are charged, counters the cache fails to keep | no counted minute exceeds its budget; flag scoped to its block | `RateLimiter` |
| War polling (`jobs/war_polling_job.rb`, `models/faction.rb`) | `war_polling_active`, ongoing war, board in the cache, queued jobs | start, stop, poll, page view | self-perpetuating chain, stale copy in the rescue, statements that raise, lost processes | a set flag is being polled, but for named faults; chains do not fork; stopping drains | `WarPolling` |
| Faction key (`factions_controller.rb`, `leadership/*`, `validate_faction_keys_job.rb`, `torn_api.rb:303`) | `torn_api_key`, `setup_completed` | save, delete, set up, validate, reject | validation and calls act on keys loaded earlier | only a key Torn has found fault with is removed (it is not so: finding 2) | `WarPolling` |
| Payments and subscriptions (`xanax_payments_job.rb`, `subscription.rb`, `user.rb`, two controllers) | `xanax_payments`, `subscriptions.expires_at` | fetch and credit, grant, set days, transfer | nightly and web-triggered runs at once, crash between record and credit, stale balance | credited at most once; no more time than is due, but for named races | `XanaxPayments`, `PaymentLedger` |
| Public lobbies (`public_wars_controller.rb`, `public_war_lobby.rb`, `public_war_polling_job.rb`) | row, three cache entries, queued jobs | open, submit stats, terminate, poll | key only in the cache, four-step termination, in-flight poll | a listed lobby is polled by one chain; a terminated one disappears | `PublicWarLobby` |
| Elimination tracker (`elimination_polling_job.rb`, `elimination/tracker.rb`) | setting row, tracker state and health in the cache | start, stop, poll, process, warn | double start, `reset!` against a poll in flight, crash between notification and save | one chain; each event announced once | not modelled |
| Torn client (`torn_api.rb`, `torn_api_health_check_job.rb`) | degraded flag in the cache | `get` with retries, outage and recovery notices | retries spend the budget, check-then-write of the flag, recheck chain | an outage is announced once and its end is | not modelled (its key rejection: `WarPolling`) |
| Chat rooms (`api/chat_rooms_controller.rb`, `api/chat_messages_controller.rb`, `data_retention_cleanup_job.rb`) | rooms, memberships, suspensions, messages, `emptied_at` | create, join, leave, suspend, send, page, clean up | join racing leave, limits checked before the insert, cleanup racing a join | a page has every message after the one asked for; a room in use is never deleted | `ChatBox`, `ChatDock` as one member meets them; limits and cleanup not modelled |
| Chat in the browser (`tm-chats/src/ui/ChatBox.js`, `ChatDock.js`, `core/ChatClient.js`) | boxes with `lastMessageId` and rows, list of rooms, four entries of localStorage, unread set | poll, append after decryption, send, open and close, refresh, follow an invite link, mark as seen | overlapping polls, decryption between fetching and showing, late lists, answers to boxes that are gone | each message shown once and in order; boxes follow rooms; unseen stays unread | `ChatBox`, `ChatDock` |
| Live board in the browser (`war_dashboard_controller.js`, its port `tm-chats/src/ui/TargetTable.js`) | members, filters, open inputs, data attributes of timer cells | poll, render, edit a statistic, tick, sort, filter | the table is replaced under an edit; blur handlers fire late; three computations of one deadline | edits are kept and submitted once; the page converges; timers agree | `WarDashboard`, `WarTimers` |
| Mugging helper (`tm-chats/src/ui/MugHelper.js`, `MuggingSection.js`, `core/Mug*.js`) | key, prices and results in localStorage, form, buttons, list of targets | fetch a price, check sellers, insert and remove targets, walk the log | a single-page market changes the item under calls in flight; pages of a growing log | prices are the item's; list sorted; buttons come back; no log entry lost | `MugHelper`, `MugLogs` |
| Armory news and war attacks (`backfill_armory_news_job.rb`, `fetch_armory_news_job.rb`, `fetch_war_attacks_job.rb`) | stored entries, cursor in the job's arguments | page backward, page forward | several entries per second at a page's edge, chain that ends on a refused call | no entry skipped; the pending flag ends | not modelled |
| Statistics backfill (`backfill_*_stats_job.rb`, `concerns/gap_backfill.rb`) | snapshots, `backfill_*` columns | find gaps, fetch, tombstone | retries, fan-out, cancelled jobs | every gap filled or tombstoned | not modelled |
| Faction life cycle (`daily/faction_member_sync_job.rb`, `Faction.stale`) | factions, members | sync, detach, delete when stale | deletion racing a setup | no faction in use is deleted | not modelled |
| Recruiter's search (`tm-recruiter/src/ui/SearchScreen.js`, `api/recruiter_status_controller.rb`, `recruiter/company_status_job.rb`) | filters, page, last response, statuses; cached statuses, one-minute markers, queued jobs | search, turn the page, poll statuses in chunks, force a refresh, fetch a company | flows of several requests over the same fields, a cache that is emptied and refilled under them | the page asked for is shown; a refresh leaves nothing older than itself | `RecruiterSearch` |
| Recruiter's rosters, hall of fame | companies, users | upserts | little: idempotent writes | | not modelled |
| Sessions, admin pages, key log, compliance, war reports, Discord, recon predictor, stocks, views, other browser code | single rows or none | request and response, computation, formatting | none that interleaves | | not modelled |

How the parts interact: every job and request that calls Torn goes through
`TornApi::Base#get`, which asks the rate limiter, and on a rejected key reaches
back into the faction (`invalidate_api_key!`), which stops war polling and
clears the key. Leaders' transfers and the payments job meet in
`Subscription`. Factions, lobbies and the elimination tracker share the pattern
"flag or row, cache entry, chain of jobs" but no state. A visitor's page polls
the board that the lobby's job writes and posts the statistics that the next poll
merges into it. The chat boxes poll the messages controller; the dock polls the
list of rooms and, for closed rooms, the same messages. The Mug helper and the
Mugging tab call Torn from the browser and share one key. The recruiter's screen
asks for statuses; the controller answers from the cache and queues a job for what
is missing, which the screen's next polls find.

`PROJECT.json` lists the hazards, one by one with their line, and for each the
property that covers it or why none does.

## 2. Assumptions about the platform

* **SQLite.** A statement, and a `transaction do` block, is atomic with respect
  to other writers (Rails opens it as an immediate transaction). What is read
  before the block is stale inside it. `save` and `create!` run their
  validations inside the transaction, but a request's query cache may answer a
  validation with a result from earlier in the request; the models allow both
  (`Validate`/`Insert` in `XanaxPayments`, the count in `Save` of
  `PublicWarLobby`).
* **Dirty tracking.** `update!` writes only columns that differ from the loaded
  copy. So `update!(war_polling_active: false)` on a copy that already says
  false writes nothing, whatever the row says (`Stop`, `HandleInvalidKey`). The
  copy has the new value before the row is written, and keeps it when the write
  raises (`JobStranded`).
* **Rails.cache.** Each operation is atomic; entries may expire and, in
  `PublicWarLobby`, where nothing else holds the key, and `RateLimiter`, which
  counts with them, be evicted. Two operations are never joined.
* **Solid Queue.** A due job is eventually claimed; `limits_concurrency to: 1`
  runs one job of a key at a time and keeps the others blocked. A worker that
  is killed leaves a failed job that nobody retries (`WorkerDies`); one that is
  shut down releases its claimed job, which runs again from the start
  (`WorkerReleases`).
* **Torn** may answer any call with an error. It rejects a key only when its
  owner has changed it.
* **Statements that raise.** The database, the cache or the queue may raise at any
  statement of the polling jobs, within the same budget of faults as lost processes.
  Where the rescue of `perform` reschedules, the step is `JobRaises`. Where it does
  not, it is `JobStranded`: before there is a row to ask (`war_polling_job.rb:9`,
  `public_war_polling_job.rb:9`), when `update!` of the flag raises
  (`war_polling_job.rb:14`, `:20`: the rescue asks the copy, which is already
  cleared), and inside a rescue. Requests have no rescue that goes on, and runs of the
  payments job only the one for a conflict on a unique index (`Insert`, `WriteFails`):
  there any other raise and a lost process leave the same state (`WebDies`,
  `CreatorDies`, `VisitorDies`, `RunDies`).
* **Browsers.** Code runs to its next `await`, timer or handler without
  interruption. Requests are answered in any order, or fail. Intervals may fire
  late. One tab of Torn is open.

## 3. Modules

One module per component; the `*Proofs` modules extend them; the `MC*` modules
add symmetry sets, the payments' log, flight times, and the compositions below.
`PublicWarLobby` needs no MC module.
Definitions introduced by a comment "Mutant" are used by no specification:
each is a plausible bug, kept to show that some property notices it.

### RateLimiter
`window[b]` is the cache entry of a budget with the minute in its name;
`Increment`, `Count`, `Age` are `increment` and `current` with `expires_in` two
windows. `KeyAccepted`/`KeyRefused` are `acquire!` up to line 30 and
`GlobalAccepted`/`GlobalRefused` the rest; `acquiring[t]` is the point between
them, at which any thread may run and the clock may tick. A cache that cannot
increment returns nil, which `|| 1` (`:52`) takes for a first call: `KeyUncounted` and
`GlobalUncounted`; a full cache drops a counter: `Evict`. `uncounted` names the budgets
and minutes that this happened to, and the budget properties speak of the others.
`flag` and `priors` are the thread-local and the values the enclosing `ensure`s
restore. The variables `live`, `background`, `granted`, `starved`, `uncounted` and
`faults` are histories.

### WarPolling
One faction. `job.pc` walks through `WarPollingJob#perform` with a step for
each read, call and write; `request[r].seen` is the copy of the faction's row that the
request loaded; `validator` holds the key and the copy that `find_each` loaded. A call
that Torn rejects is two steps, as in the code: `KeyRejected` and `ValidatorFetches`
find the key's record and load its faction (`found`), `JobInvalidates` and
`ValidatorRejects` destroy the key the faction has by then. So are the two lines of
`stop_war_polling!` (`StopPolling`, `DiscardBoard`; one step inside a transaction,
`Stop`) and the deletion of a key (`DestroyKey`, `ResetSetup`). Two keys are enough
for "an old key and its replacement". `lost` marks that a fault took a start or a poll
along since the last start: a process that died with it, or a statement that raised
where the rescue does not reschedule. With `setup` the module
also carries the way back after a deleted key: `SaveSetupKey` for the leadership
setup page, `CreateKey`/`CreateEnds` for `FactionsController#create`, which
`ACCEPTING_NEW_FACTIONS` (a constant of the code, false at this commit) turns
off. The safety run sets it to TRUE, so that the code behind the switch is
checked as well; the others leave it as the code has it.

### XanaxPayments and PaymentLedger
`PaymentLedger` is the promise: a payment is recorded once, and credited at most
once with what it is worth. `XanaxPayments` is the code: runs of the job (the
nightly one and those that web requests perform inline), each with its page of
entries and its position; the unique index on `log_id` in `Insert`; the read of
the subscription apart from its write; the admin's `grant` and `update_days`;
the leaders' transfer with its copy of the balance. Time is counted in ticks of
`WeekTicks` per week. The refinement maps `recorded` to the payments table,
`credited` and `total` to the histories of written extensions; a crash between
record and credit is a stutter that leaves the payment recorded and uncredited. The
history `due` is the expiry a subscription would have if every extension, grant,
setting and deduction had changed the row itself, each payment counted once;
`contested` are the subscribers from whom time was taken (by a transfer, or by an
admin who set it) while somebody else was about to write a copy with that time still
in it. `NoFreeTime` says that nobody else's row is ahead of what is due.
The log counts xanax payments only; other items received use up the page in the
same way, which a smaller `FetchLimit` represents.

### PublicWarLobby
`stored` is the set of rows and cache entries there are. `creator` walks through
`create`, `visitor` through `stats` and the four deletes of `terminate!`,
`job[i]` through `PublicWarPollingJob#perform`, which holds the loaded row to
its end (so its rescue reschedules even after the row is gone). A job that finds
no key, or whose key Torn rejects, runs the same four deletes. A statement of a job may raise: `JobRaises`, which the rescue
reschedules, and `JobStranded`, which it does not. Two creators may
open two lobbies for one faction, since `exists?` and `save` are apart
(`CheckFaction`, `Save`); no property forbids it.

### ChatBox and ChatDock
One room, its messages numbered as they are stored, and one browser. `ChatBox`
is the room's server side and the box: `poll[p]` is one of the overlapping polls
with the `since_id` it was sent with; `Receive` is `appendMessages` up to its
first await, which reserves the page's ids in `last`; `batches` are pages being
decrypted and `Render` the rest of `appendMessages`. A page with nothing to
decrypt is appended at once (`Sealed`). `mode` is what `render`, `showLocked`,
`showHouseRules` and `showSuspended` leave on screen. `ChatDock` EXTENDS it with
the list of rooms, localStorage (`open`, `hasKey`, `agreed`, `seen`) and the
unread dot; `SyncBoxes` and `MarkOpen` are called where the code calls them.
`Load` is the next page of Torn, which keeps localStorage only. `overtaken` and
`met` are histories. Private rooms stand for encrypted ones, public ones for
those in the clear.

### WarTimers and WarDashboard
`WarTimers` is one timer cell: `RenderTimer` (from the member's status), `Ticked`
(from the cell's attributes) and `TimerSeconds` (the sort) are three functions of
the code over the same deadlines. Time is counted in `Second` moments per second,
since the browser's clock is finer than the times it is compared with. Names
and formatting are left out. `TargetTable.js` is a port with the same
arithmetic; some definitions name its lines. `WarDashboard` is the board's
polling and the editing of statistics: `inputs` are the input elements in the
table, `ghosts` those a re-render removed, whose blur is still to be handled;
`Render` is `renderTable` with its capture and restoration of one input, and is
part of every action that calls it. `hidden` is what the filters leave out: with new
data they may come to hide or show any row they may hide at all (`Filterable`).
The subject's statistic is followed to the
server (`Saved`), into the board (`TornPoll`) and back (`Receive`).

### MugLogs and MugHelper
`MugLogs` is the walk through the mugging log: `NextPage` is an iteration of
`MugLogs.fetch`, with Torn's page computed from a log that grows meanwhile
(`Mug`). Several mugs may share a moment, and a page may end between them.
`MugHelper` EXTENDS it, since both act on the one key, and is the window on the
item market: `url` is the address, `shown` the item of the form, so that a call
of an old form (`fetch`, `run`) ends on a new one. `owner` says whose list of
targets is on screen; `rows` is its profits.

### RecruiterSearch
`flow[p]` is an asynchronous function and where it waits: fetchMatches with the
rounds of `refreshStatuses` that follow it (`Searches`), and `forceRefreshStatus`
with `pollStatusRefresh` (`Forced`). A round asks chunk by chunk (`Served`,
`StatusReceived`); `RoundEnds` is what each of the three does then. `Served` is one
request in one step: its cache operations concern different companies, and the
marker is written only if there is none. Of a status the model keeps whether it is
from before the last forced refresh: `LookUp` drops what is cached and `Age` marks
what the screen knows or is being told as old. A job's fetch and its store are one
step, so a status counts as new if it was stored after the drop; Torn may have been
asked a moment before. What the filters match is a constant (`Found`), how many pages
it fills may change from answer to answer.

`MCDashboard`, `MCMug` and `MCUserscripts` explore a sum: of each pair of parts, one
moves while the other is as it started. The parts of `MCDashboard` share no variable,
nor do those of `MCUserscripts` (the chat and the recruiter's search). Those
of `MCMug` share the key only, and each part may lose or regain it (`KeyRejected`,
`RemoveKey`, `Connect`) in either half, so that every reachable view of one part
occurs; no property relates the two. The proofs are about the full specifications.

## 4. Runs

| Run | Bounds | Shows |
|---|---|---|
| `rate_limiter` | 2 keys, 2 threads, 2 minutes of 2 ticks, limits 2/1/3 (hard limit 4), 3 charges per window, blocks nested 2 deep, 1 failure of the cache, in the first minute | `KeyBudget`, `GlobalBudget`, `HeadroomFlagScoped`, `TypeOK`. |
| `headroom` | 1 key, 2 threads, 1 minute, limits 3/2 | `HeadroomForLive` fails (finding 1). |
| `war_polling` | 2 keys, 1 request, a start only while no poll is queued, 1 fault | `ChainAlive`, `NoFork`, `TypeOK`. |
| `war_live` | 1 key, 1 request, a start only while no poll is queued, 2 faults | `KeepsPolling`, `StopDrains`, `PollingEnds` under `FairSpec`. |
| `war_rejected` | 2 keys, 1 request, no faults | `RemovesOnlyRejected` fails (finding 2). |
| `payments` | log of 3 payments of 2 users, page of 2, 2 runs, 2 transfers, 1 grant, 1 fault, 2 instants | `Accounted`, `NoFreeTime`, refinement `LedgerSpec`, `TypeOK`. |
| `payments_live` | the same log, 2 runs, 2 faults, no grants or transfers, 3 instants | `EveryPaymentRecorded` under `FairSpec`. |
| `transfers` | 2 transfers, 1 run | `TransferIsPaid` fails (finding 3). |
| `lobbies` | 2 lobby ids, limit 1, 1 creator, 1 visitor, 1 fault | `PolledOrGone`, `OneChain`, `NotEndedAtBirth`, `TerminatedDrains`, `UnkeyedEnds`, `TypeOK` under `FairSpec`. |
| `userscripts` | chat: 2 messages, page of 1, 1 draft, 2 overlapping polls, 1 list; recruiter: 2 companies in chunks of 1, 2 filters, 2 pages, 2 searches, 1 poll after each first round, 3 events | `RenderedOnce`, `ShownInOrder`, `BoxesFollowRooms`, `SeenWasRead`, `TypeOK`; `LatestShown`, `FreshAfterRefresh`, `SearchTypeOK`. |
| `dashboard` | 2 members, 1 value, 2 polls, 2 edits; one flight of up to 4 seconds in half seconds, 10 moments | `SubmittedOnce`, `EditKept`, `BoardConverges`, `TickedAsRendered`, `TypeOK`. |
| `mug` | 2 items, 2 profits, 2 sellers, 1 fetch, 2 runs; log of 4 in 3 moments, pages of 2, 4 pages | `StoredPriceIsTheItems`, `RowsSorted`, `ButtonComesBack`, `FetchedExactly`, `TypeOK`. |

Why these bounds are enough. Every race the properties are about is between two
actors over one datum, so two threads, runs or transfers, or a request and a
job or a validation, meet in all orders; two requests on the polling flag are in the
proofs only. A start while a poll is under way makes a second chain, so two chains
meet as well. Two keys tell an old from a new one; two minutes give one boundary; a
page of two in a log of three makes an entry fall off. The caps
(`MaxCharges`, `MaxPending`, `MaxGrants`, `MaxTransfers`, `MaxTime`, `LastId`,
`MaxFaults`, `MaxMessages`, `MaxDrafts`, `MaxPolls`, `MaxLists`, `MaxEdits`,
`Horizon`, `Statuses`, `MaxSellers`, `MaxFetches`, `MaxRuns`, `MaxMugs`, `LastMoment`,
`MaxWalks`, `MaxMatchPages`, `MaxSearches`, `MaxEvents`) are constants named in the modules and appear in guards and index sets only; where
a run limits how often something may happen the proofs, which leave the
constants arbitrary, do not. `lobbies` has a single creator because with two the
liveness check takes too long; two creators are in the proofs. In the chat two
polls of pages of one message overlap, are answered out of order and overtake each
other's decryption; larger pages are in the proofs. A walk of four mugs in pages of
two has a page that ends inside a moment, and is shorter than its page limit or
given up at it. In the recruiter's search three events open the screen, press Refresh and
leave one for another search, a page, another recruiter or an expiry while the
refresh is under way; two chunks are the least whose answers must be added up.
In `rate_limiter` the cache fails in the first
minute, if it does, and then one thread at most is in a block (`EarlyFaults`), which
leaves all of the second minute to see whether the failure lasts, and live and
background calls to meet; the view (`Unstarved`) leaves out a history that only `headroom` reads;
the proofs are about failures at any time. Deadlock is checked in the runs of `WarPolling`, which can always go on;
elsewhere the clock, the events, the log or the ids run out and the system really stops, so
`CHECK_DEADLOCK FALSE` stands in the cfg. Symmetry is used for safety only.

Fairness. `WF(Claim)` and `WF(JobStep)`: Solid Queue serves due jobs and started
code runs to its end. `WF` of `RequestStep`, `CreateStep`, `VisitStep`: a
request that has begun goes on. `WF(BoardExpires)`: the cache drops expired
entries. `WF(Fetch(Nightly))`: `config/recurring.yml` starts the payments job
every day. In the browser, `WF(Tick)` and `WF(Saved)` say that intervals fire and
a submission that was sent is handled, `SF(Receive \/ Leave)` that the network does
not lose every poll, `WF(TornPoll)` that the server goes on polling (which
`PolledOrGone` and `OneChain` are about), and the fairness of `MugHelper` that every
call is answered or fails. Nothing is assumed of users (nobody must open a page, press a button
or pay), of Torn (it may answer with errors for ever), of admins or of faults.

## 5. Findings

1. `headroom`: a refused background call is charged to the window
   (`rate_limiter.rb:27`), so background traffic does eat the share that the
   comment at `:11` reserves for live traffic.
2. `war_rejected`: the nightly validation removes a key that the leaders have
   saved after the validation loaded the old one
   (`validate_faction_keys_job.rb:24`). Any rejected call can do so too, in the smaller
   window between finding the key's record (`torn_api.rb:306`) and destroying whatever
   key the faction has (`faction.rb:95`), since a leader's update changes the value in
   that same record.
3. `transfers`: two transfers at once are paid for once
   (`leadership/subscriptions_controller.rb:10`).

Behaviour that the models show and no statement of the code or its docs
contradicts, so that it is not listed as a finding: a stop and a start within
one interval leave two war-polling chains (`NoFork` names starts as the way
chains are added); a process that dies between the two lines of
`start_war_polling!` strands the flag (`lost` in `ChainAlive`), and so does an
`update!` of the flag that raises in the polling job, or a `find_by` that does
(`JobStranded`); a cache that fails to count lets calls through, as the comment at
`rate_limiter.rb:50` says (`KeyUncounted`); a run that dies
after recording a payment forfeits its weeks (`forfeited` in `Accounted`);
two requests may open two lobbies for one faction, in spite of the message "A lobby
already exists for this faction's war."; a key saved on the setup page leaves
`setup_completed` false, whatever its notice says; a page of the chat that arrives
after a suspension is appended below the notice; a short encrypted page may be shown
above a longer one fetched before it (`overtaken` in `ShownInOrder`); a price fetched
for one item is written into the field of the item shown by then, although it is
stored for the right one (`FetchSucceeds`); a second open input of the board is not
restored by a re-render (`EditKept`); the answer of an earlier search may arrive last
and stay under the filters of a later one (`behind` in `LatestShown`); a forced refresh
drops a company's status but queues no job while the marker of an earlier job is
alive, up to a minute (`LookUp`), although a test is named "refresh drops the cache
and re-enqueues"; concurrent extensions overwrite each other to the subscriber's loss (that is why
`NoFreeTime` is an inequality); an extension computed from a copy that is older than a
deduction gives the deducted weeks back (`contested`), which finding 3 is one way of.

## 6. Proofs

TLAPS checks the eight `*Proofs` modules for every value of the constants, from
the `ASSUME`s of the modules (limits are naturals, background limit not above
the key limit, twice the key limit within Torn's; names such as `NoKey` are not
members of the sets they complete).

* **RateLimiterProofs.** `TypeOK` and `KeyBudget` are not inductive: that few
  calls were accepted follows only from what the cache entry counts. `IInv`
  relates the two: the accepted calls of the current minute are at most what the
  counter of their key says, those of every minute are bounded by the limits,
  and later minutes are empty (`KeyCounted`); the same for the global budget
  (`GlobalCounted`); both except a budget-minute that is `uncounted`, and a failure
  marks none but its own budget and minute (`MiscountMarks`). `CurrentEntry` is the lemma that `expires_in` never takes a
  counter away while its window lasts. `Counted` proves `IInv`;
  `KeyBudgetHolds`, `GlobalBudgetHolds`, `WithinHardLimitHolds` and
  `RemainingIsHonestHolds` follow from it. `HeadroomFlagIsScoped` needs an
  invariant of its own, what the stack of priors restores (`PriorsStacked`).
* **WarPollingProofs.** `ChainAlive` with `TypeOK` is inductive once it is known
  that every path of the job leads to `Reschedule`, clears the flag in the row or is a
  fault that sets `lost`; the proof goes through every action. It is proved of the code
  with its gaps: what `JobStranded` takes along is not covered, and the theorem says
  that nothing else strands the flag. `NeverForks` is an action property. Three liveness properties have their safety halves here, as
  variants over the pending jobs and the worker's place in `perform`:
  `DrainsWhenStopped` (`StopDrains`), `NearerToTorn` (`KeepsPolling`),
  `PollingRunsOut` and `RunOutIsOff` (`PollingEnds`), with `OnlyStartsAddWork`.
  `PollingEnds` needs two variants: without a war the job may still be on its way
  from the key to the call, without a key it may be on its way from the war to the
  key, and no single order of the steps falls in both cases. `RunOutIsOff` rests on
  `ChainAlive` and has its exceptions.
* **XanaxPaymentsProofs.** `IInv` adds to the types: a run's entries are in the
  log (`InLog`), a payment a run is crediting is recorded and neither credited
  nor forfeited (`Held`), and two runs never credit the same payment (`Apart`),
  which is where the unique index enters. `ImplementsLedger` proves the
  refinement step by step. For `TimeIsPaidFor` the bound by `due` is kept for the copies
  that runs, admin and transfers hold as well as for the rows (`Bounded`), and each step
  is shown to take nothing from `due`, to mark whom it takes from as `contested`, or to
  find no copy held (`DueMoves`). For `EveryPaymentRecorded`,
  `RunsEnd` gives the variant of a run (entries left and the step within one) and
  `NothingIsForgotten` names every way a fetched entry leaves it unrecorded.
* **PublicWarLobbyProofs.** `IInv`: two requests never open the same id and ids
  in use have been given (`Ided`), nothing has happened to an id that has not
  (`Fresh`), a lobby whose poll is queued or about to be has its key in the
  cache or had it dropped (`KeyFirst`), with `OneChain` and `PolledOrGone`.
  `NotEndedAtBirth` follows from `KeyFirst`. `DrainsWhenGone` and `UnkeyedRunsOut`
  are the variants of `TerminatedDrains` and `UnkeyedEnds`; `RunOutIsGone` says
  that a lobby whose variant is used up has no row, by `PolledOrGone`.
* **DashboardProofs.** Of the timers, `TimerInv` joins the types with "the cell is
  what a render would put there now". `TickIsRender` shows that a tick keeps it, by
  the order of the fast and the slow arrival (`EtaOrder`) and because what has run out
  stays so. `SortedAlways` is arithmetic: both numbers are roundings of one difference
  (`RoundedTwice`). Of the editing, `BoardInv` adds to the types that the edit of an
  open input is open (`InputsOpen`) and that two inputs never share one
  (`InputsApart`): without the second, saving one input could leave another, open
  in the invariant's eyes, with a submitted edit. `SubmittedOnceAlways` and
  `EditKeptAlways` follow; the latter also needs that `Cardinality(inputs)` is a
  number, which the injection of inputs into edits gives (`InputsFinite`).
  `SettledStays` is the stable half of `BoardConverges`.
* **MugHelperProofs.** `LogsInv` says of a walk over the log that it has seen
  every mug newer than its cursor that there was when it began; `NextPageKeeps` is
  the step, from the fact that a page is a suffix of the log up to the cursor
  (`OldestIsFirst`). `WindowInv` joins types, `StoredPriceIsTheItems`, `RowsSorted`
  and `GreyedIsBusy`; that insertion keeps a sequence descending is proved about
  positions (`PlaceSplits`, `InsertKeepsOrder`). `NoButtonIsLeftBehind` is the safety
  half of `ButtonComesBack`.
* **ChatDockProofs.** `DockInv`: the types, a box that is not in conversation has
  nothing under way (`AtRest`), the exactly-once invariant `RenderedOnce`, the order
  of everything shown and being decrypted (`InOrder`), `BoxesFollowRooms`, and that
  all ids up to `last` and `seen` are known (`AllKnown`). `RenderedOnce` is inductive
  only with `AtRest`, since a new conversation starts from an empty box; `SeenWasRead`
  needs `AllKnown` because `seen` is taken from `last`, which is ahead of the screen.
* **RecruiterSearchProofs.** `TypeInv` says more than `SearchTypeOK`: which fields of a
  flow mean something at which step (`Fits`), and that the page is one of the response
  (`InRange`). For `LatestShown`, `LatestInv` adds that the one search under way asks
  for what is chosen now (`AskedLast`) and that otherwise the response answers it, its
  page clamped (`ShownLast`). For `FreshAfterRefresh`, `FreshInv` follows the old
  statuses: none of a dropped company is in the cache (`CacheFresh`), hence none in
  what the refresh is told (`ReplyFresh`), hence what a later round without anything
  pending has gone through is new on the screen, or was overwritten by an answer to
  another flow from before the refresh (`RoundFresh`, the case `outrun`).

Every invariant and action property that a passing run checks is proved. Only
model-checked is liveness under fairness: `KeepsPolling`, `StopDrains`, `PollingEnds`,
`EveryPaymentRecorded`, `TerminatedDrains`, `UnkeyedEnds`, `BoardConverges` and
`ButtonComesBack`. Fairness and ENABLED are beyond the prover; what is proved of
these properties, for all values of the constants, is the part without fairness named
above (a variant that each step lowers, or a state that nothing leaves), and that a
fair step is enabled meanwhile is left to TLC. `WithinHardLimit`, `RemainingIsHonest`
and `SortedByWhatIsShown` are proved and in no run.

## 7. Not modelled

* **Built userscripts** (`src/userscript/*.user.js`, more than half of the
  JavaScript): the build generates them from `src/userscripts/*/src`, whose modules
  are what the models name. The map covers sources only.
* **Presentation.** About half of the userscripts' and controllers' own lines build
  elements, place and drag windows, format numbers or draw icons. No property is
  about them. This holds for images in the chat, the overlay's sections, the
  calculator of the Mugging tab, the other sort keys and the war clock of the board.
* **Recruiter's rosters.** Idempotent upserts on the server, swept by nightly jobs.
* **Bazaar scan** of the Mug helper (`runScan`): like the sellers' scan, over a cache of
  profiles that only saves calls.
* **Room limits, empty rooms and cleanup.** The limits are counted before the insert,
  and cleanup selects before it deletes; both races are real (two of the hazards), but no
  statement of the code promises more than it does.
* **Elimination tracker.** Its chain of polls has the shape of `WarPolling` and
  `PublicWarLobby`. What is its own, the comparison of two snapshots of Torn's
  elimination teams, is a function of data with many fields.
* **Torn client**: retries and the outage notices. Each retry is one more call to the
  limiter, which `RateLimiter` covers for any calls.
* **Armory news, war attacks, statistics backfill, faction life cycle**: cursors over
  Torn's lists and upserts. Their cursors can skip entries of the same second (a
  hazard in `PROJECT.json`); `FetchedExactly` shows how the userscript's walk avoids it.

The next modules worth writing are, in this order, the chat rooms' life cycle, the
armory cursors and the elimination tracker; the next proofs are theirs, the progress
behind `BoardConverges` and `ButtonComesBack` (so far only what is stable about them
is proved), and that the two chains of polls, `WarPolling`'s and a lobby's, implement
one abstract chain.

## 8. Running

    tlc -config MCWarPolling.cfg MCWarPolling
    tlapm WarPollingProofs.tla

Each run takes at most about three minutes on two workers; each proof module
a few minutes.
