# TripOps: specifications, model checks and proofs

This directory holds TLA+ modules for the TripOps code base (`core-api`, a
NestJS/TypeORM service over Postgres, and `client`, a Next.js application),
TLC configurations that check them on small instances, and TLAPS proofs of the
properties that matter most. `PROJECT.json` lists components, runs, mutants,
findings, hazards and theorems, and maps every definition to the source lines
it stands for.

    tlc -workers 2 -config MCOutbox.cfg MCOutbox.tla     # one run
    tlapm OutboxProofs.tla                               # one proof module

## 1. Inventory

### How the system works

Every HTTP call of `core-api` passes its guards and then runs one service
method. A method reads entities, changes them in memory and calls
`Repository.save` or `remove`; almost every method ends with
`EventsService.publish`, which inserts a row into `outbox_events` and emits the
event in the process. There is **no transaction, no lock and no version column
anywhere**: each `await` is a point where another call may run, a database
error may end the call, or the process may crash. Cron jobs
(`JobsService`) run besides the calls and do not wait for their own previous
run. The browser tabs of `client` share one refresh cookie and nothing else.

### Components

| Component | State | Operations that change it | What is hard | What makes it correct |
|---|---|---|---|---|
| Events (`events/`), outbox crons (`jobs/`) | `outbox_events` rows, in-memory copies held by runs | publish, process, retry, clean up | overlapping runs write stale copies back; crash between the PROCESSING mark and the outcome; the retry limit | delivered means handled; no retry beyond the limit; every event settles; a delivered event stays so |
| Rebooking (`rebooking/`) | cases, options, decisions, disruptions; writes bookings and items | simulate, generate, decide, apply | five tables, one save at a time; regeneration while deciding; two deciders | statuses never claim more than happened; a booking is only rewritten to a chosen option; linked items go along |
| Bookings (`bookings/`) | bookings | create, update, attach to item | stale write-back over a rebooking; an update may set any status, time and record | what is not a client's comes from a decision that was applied to this booking |
| Workspaces (`workspace/`), role guards | workspaces, member rows | create, update, invite, change role, remove | guard, check and save at three moments; re-insert of a removed row | there is always an owner; owners are neither demoted nor removed |
| Trips (`trips/`) | trips, trip members | create | two rows without a transaction | no trip is left without an owner |
| Auth (`auth/`) | refresh-token rows | register, login, refresh, logout | revoke and issue are two saves | one live token per session; logout ends the session |
| Client session (`lib/api/client.ts`, `AuthGuard`, `use-auth`, `auth-store`) | cookie, access token in memory, the shared refresh promise | page load, API call, refresh, logout | the promise lives in one tab, the cookie in all | no blank tab; a failed refresh means the session is over |
| Audit (`audit/`), Notifications (`notifications/`) | audit rows, notification rows | event handlers, mark read, clean up | fire-and-forget handlers; two emissions of one event | audited once; a notice reaches all it concerns |
| Reminder crons (`jobs/`) | notification rows | travel and booking reminders | partial runs; windows that meet to the millisecond; dates in two time zones; bookings that move | only active members, only of what is due; nobody left out, or told twice, by a run that went well, outside named boundaries |
| Collaboration (`collab/`) | comments, proposals, options, votes | create, add option, toggle vote | toggle is read-then-write | one vote per user and option |
| Itinerary (`itinerary/`) | days, items | create day or item, update, delete | `save` skips undefined properties; stale re-insert; the next index is a maximum read earlier | what is announced is what the row holds; deleted stays deleted; an item's day exists |
| Tasks (`tasks/`) | tasks | create, update, delete | completion is derived from a stale read | the last event tells the truth |
| Documents (`documents/`) | rows and objects in S3 | upload, update, delete | two stores without a transaction | a row has its object |
| Rules (`rules/`) | rule set, rules, evaluations | upsert, evaluate | delete and insert of the rules; an upsert inside an evaluation | the last rule list survives whole; undisturbed evaluations see it |
| Client queries and pages (`hooks/`, `app/(app)/`, `lib/query-*.ts`) | the query cache of a tab | navigation, fetches, mutations | answers that overtake an invalidation; callbacks of pages that were left | no refetch brings back the state before the user's own change |
| Client selection (`stores/`, `use-active-trip`) | active workspace and trip, per tab and in localStorage | select, create, reload | two stores under two keys, many tabs, late answers | the active trip is one of the active workspace |
| Seeding (`seed.ts`) | all tables of a development database | one script | 24 saves without a transaction | no row refers to one that is not there |
| Users, bootstrap and configuration | - | - | - | not modelled (see the end) |

`PROJECT.json` has the same list with its sources, and under `hazards` each
place in this code that is hard to test, at its line, with the properties that
watch it.

### What the models take from TypeORM and NestJS

These facts about the libraries are used wherever the code relies on them.

- `save(entity)` is atomic. It compares the entity with the row *as it is now*
  and writes every column that differs, so a copy that was read earlier
  overwrites later changes of any column; undefined properties are skipped; if
  the row has gone, it is inserted again. `save(array)` is one transaction.
  `remove(entity)` deletes by primary key and does nothing if the row has gone.
- Unique indexes reject a second row; the call then ends with an error.
- `@Cron` methods start by the clock, whether or not the last run has ended.
- `@nestjs/event-emitter` starts the `@OnEvent` handlers without awaiting them
  and swallows what they throw. As shipped nobody subscribes to `outbox.<type>`,
  so the FAILED branch of the processor is a contract for future subscribers;
  `Outbox` models it with the constant `Fallible` (empty in production).

## 2. Plan

| Order | Module | Composes / implements | State |
|---|---|---|---|
| 1 | `Outbox`, `OutboxProofs` | the crons of `JobsService` with `EventsService` | done |
| 2 | `Rebooking`, `RebookingContract`, `RebookingProofs` | `RebookingService` with `updateBooking`, the status of `updateItem`, and attaching; implements the contract | done |
| 3 | `Membership`, `MembershipProofs` | both role checks, `WorkspaceService`, `createTrip` | done |
| 4 | `AuthSession`, `AuthSessionProofs` | server, browser and tabs | done |
| 5 | `Fanout`, `FanoutProofs` | publish, processor, audit and notification handlers, clean-up | done |
| 6 | `TripCalls` | what the services of a trip's contents share: a call reads a row, holds a copy, saves it back | done |
| 7 | `Tasks`, `Documents`, `Itinerary`, `Collab`, `Rules`, `DocumentsProofs` | the services, over `TripCalls` | done |
| 8 | `Reminders` | the reminder crons, with trips and bookings that appear and change | done |
| 9 | `Seed` | the seeding script | done |
| 10 | `Pages`, `QueryCache` | the pages with their hooks; the cache under them | done |
| 11 | `Selection`, `ClientProofs` (of 10, too) | tabs and localStorage, over the same pages | done |
| 12 | `TripApp`, `TripAppProofs` | 6 to 11 | done |

Every type invariant, safety invariant and action property that a passing run
checks is proved as well (section 5). The modules are written for it: parameters
are constants with named assumptions, one action per stretch of code between two
awaits, no `RECURSIVE` operator. Left to TLC is what the prover cannot do.

## 3. The models

Common conventions. One action is the code between two awaits; `pc[q]` says at
which await a call or run is suspended and `loc[q]`/`copy[p]` what it holds.
`Cut` or `Fault`/`Crash` end calls early. Names of tables, statuses and methods
are those of the source. A variable called a *history* records what happened
and influences nothing. `disturbed` (`overlapped` in `Outbox`) is a history
that is set once calls have overlapped or one was cut short; properties that
the code keeps only for one call at a time say so by it.

### Outbox

`row` is the table, one key per event, numbered by `createdAt`. A run of
`processPendingEvents` is `StartRun` (loads a batch), then per event `Mark`
(line 70), `EmitOk`/`EmitFail` (72-95) and `Finish` (97); a run of
`retryFailedEvents` is `StartRetry` and a `Requeue` per event; `Cleanup` is one
statement. `copy[p]` holds the loaded entities, which is where stale writes
come from. `DbError` ends one run, `Crash` all of them and every publish that
has not emitted yet. `old` stands for "processed more than 30 days ago"; an
event becomes old only when no run holds it, since a run lasts seconds.

### Rebooking and RebookingContract

`booking`, `item`, `kase`, `opts`, `decision` are five tables, `outbox` the two
announcements that properties speak of. Of a booking the status, both times and
`details.lastRebookedFromCaseId` are kept; a time is that of an option, a
client's (`Entered`) or none. Of an itinerary item the status and the linked
booking are kept. Each method of `RebookingService` is one action per await
(`SimRead`, `SimOpen`, ... `AppCase`, `Publish`), in the order of the code, with
its 400, 404 and unique-index exits; linked items are found by one query
(`SimFind`, `AppFind`) and saved one by one.

Three methods of other services write the same tables. `EditRead`/`EditSave` are
`updateBooking` for any body (`Body`): a field that is absent writes back what
was read, a value is stored, null becomes undefined and is skipped by `save`
(`Column`). `ItemRead` and `AttachRead` with `ItemSave` are `updateItem`, which
may set a status, and `attachBookingToItineraryItem`. Bookings and items exist
from the start as `createBooking`, `createItem` and attachments may have left
them: with any status, times, record and link.

Two histories tell what is a client's and what is not: `claimed` has the
traceability records that clients entered, since the code checks none of
`details`; `synced` has the items that were linked when their booking was last
canceled or rebooked, until a client sets one of the statuses or the link.

`RebookingContract` is the promise without tables and awaits: only offered
options are decided, only decided options are applied.

### Membership

`member` is `workspace_members`, with the id of each row, because `save` and
`remove` look rows up by id; `rows` counts insertions. `Guard` is
`WorkspaceRoleGuard`, `AssertRole` the second check inside the service,
`ReadMember` the read before the save that `RoleSave` or `RemRemove` perform
one await later. `TripGuard` ... `TripPublish` are `createTrip`. Members of a
trip never change after its creation, so trip access checks are no steps
anywhere.

### AuthSession

`token` is the `auth` table of one user, `cookie` the browser's refresh cookie,
`page` and `access` the state of each tab, `req` the one `/auth` request a tab
has in flight (`refreshPromise`). Server steps are `Read`, `Revoke`, `Issue`,
`OutRead`, `OutRevoke`; `GotToken`, `LoggedOut` and `Failed` are the arrival of
the answer. Times are abstracted to "expired". `cleanupExpiredTokens` is called
from nowhere and therefore not an action.

### Fanout

The life of an event after it was saved: `Emit` starts the audit handler and,
depending on the kind of event, a notification handler; `Process` is a whole
pass of the outbox processor over it, which emits a name nobody listens to.
Handlers that differ only in their texts are one action. Notifications are then
read (`MarkAsRead`, `MarkAllAsRead`), grow old (`Age`) and are cleaned up.

### TripCalls and the services over it

`TripCalls` has the database as one function `row` from primary keys to rows
(`None`: no such row); keys are never used twice (`used`). `Begin` is the first
look-up of a call, up to its first suspended write; it notes in `gone` which
rows had been deleted by then. `Insert`, `SaveBack` and `RemoveRow` are the
three things that TypeORM does to a row. `Publish` ends a call and records in
`told` what its event says. `Cut` is an error in one call or a crash of all.
`assertTripAccess` is no step: it reads `trip_members`, which none of these
services changes.

- `Tasks`: `createTask`, `updateTask` (`TaskFind`, `TaskSave`), `deleteTask`
  (`TaskFindDoomed`, `TaskRemove`). `turned` is a history of completing saves.
- `Documents`: adds the bucket `stored`. An upload puts the object, then the
  row; a deletion removes the object, then the row.
- `Itinerary`: `createDay` (the index is computed when the call begins, the
  unique index on the date refuses), `createItem`, `updateItem` with its second
  look-up `ItemDay`, `deleteItem` with the foreign key that empties
  `comments.itemId`, `attachBookingToItineraryItem` (of the bookings service) and
  `createComment` (of the collaboration service), which all touch items. The
  line `item.dayId = undefined` is modelled as what `save` makes of it: the
  answer and the event lose the day, the row keeps it.
- `Collab`: `createProposal`, `addOption`, `vote`. A vote is `VoteCheck`
  (option and proposal), `VoteFind`, then `VoteSave` or `VoteRemove`. No operation
  closes a proposal; a closed one, as `seed.ts` inserts it, is there from the
  start.
- `Rules`: `upsertRuleSet` is `UpsertFind`, `UpsertSet`, `UpsertDelete`,
  `UpsertSave`; `evaluateItineraryItem` is `EvalItem`, `EvalSet`, `EvalRules`,
  `EvalSave`. Which rule types an item breaks is an input; every violation is a
  warning, so what an evaluation finds is which enabled rules are broken.
  Rows of the rules table carry the number of their upsert, so that the rules of
  two requests can be told apart.

### Reminders

`SendTravelReminders` (9 o'clock) and `SendBookingReminders` (8 o'clock) load
what is due; then `LoadMembers` per trip, `Remind` per member, `NextSubject`.
`JobFails` ends a run or replaces one that is due while the server is down.
Moments are minutes since midnight UTC of day 0. `utcOffset` is the server's
offset from UTC on each day, so that a night in which the clock changes is a day
of 23 or 25 hours; `Instant` is a moment of the server's clock, `UtcDay` what
`toISOString()` prints. A run begins at its hour or up to `MaxDelay` minutes
later (for the code: seconds), since `now` is the moment at which it looks at
the clock. The window of the bookings is inclusive at both ends, as in the query.

Trips and bookings appear and change at any moment, also inside a run: `NewTrip`
is `createTrip`, and `SaveBooking` stands for whatever saves a booking
(`createBooking`, `updateBooking`, `simulateDisruption`, `applyDecision`): it may
become CONFIRMED or cease to be, and gets any start. The history `steady` is the
first day whose run begins after the last change of a trip or booking; what
earlier runs sent was about another state of it.

### Seed

`Saves` is the script as a sequence of sets of rows, one per `save` call; a row
has the rows it refers to, the trip it belongs to and the users who wrote it.
`SeedSave` and `SeedFails` run it up to any point.

### Pages, QueryCache and Selection

`Pages` is the client's navigation as data: per page the queries it shows, the
mutations it offers with the page each leads to, and whether it is one of the
active trip's; per hook which lists its endpoint changes and which query keys its
`onSuccess` invalidates; per page the links of side bar, top bar and the page
itself.

`QueryCache` is one tab over one query key, chosen at the start (queries do not
influence each other). The list on the server is a version number that the tab's
own writes increase; other users' writes would only make the cache staler, which
polling and `staleTime` accept. `query` is the cached version, the invalidation
mark and the fetch in flight; `pending` are the mutations under way. The steps
are those of TanStack Query with the options of `query-client.ts`: opening a page
fetches what it shows if it is missing, marked or stale; an invalidation marks
and, if shown, fetches again, cancelling a fetch in flight unless it is the
first; callbacks given to `mutate()` are lost with their page, those of the hook
are not. `AddOption` and `OptionsAdded` are the new-proposal page, which calls
`addOption` behind its hook's back.

`Selection` is any number of tabs over one localStorage: what each tab believes
is active, what is stored, and the creations under way, whose answers select a
workspace or trip wherever the tab is by then. `late` and `crossed` are the two
races after which the stores may disagree; they are histories.

### TripApp

These parts share no variable, with the one exception of the itinerary, which is
exercised in two halves that overlap in the items ("days" moves items between
days, "items" attaches bookings to them and comments on them). An interleaving
of two parts would therefore show nothing that each part does not show alone,
and `TripApp` exercises one part per behaviour, `part`, chosen at the start.

## 4. The runs

| Run | Instance | Result |
|---|---|---|
| `outbox` | 2 events, one fallible; 2 processor runs, 1 retry run; 2 retries; 1 fault | 69,700 states, no error |
| `outbox_crash` | 1 event, 1 run of each kind, 1 fault | `AtLeastOnce` violated |
| `rebooking` | 1 booking, 1 item, 2 cases, 2 options, 2 calls, 1 edit or cut, symmetry | 4.1 million states, no error |
| `rebooking_reopen` | 1 case, 2 options, 1 call, no cut | `AppliedIsFinal` violated |
| `membership` | founder and 1 user, 1 trip, 2 calls, 2 rows per user, 1 cut, symmetry | 335,000 states, no error |
| `membership_race` | founder and 2 users, 2 calls, no cut | `OwnersKept` violated |
| `auth_session` | 2 tabs, 3 tokens, 1 fault | 1.2 million states, no error |
| `auth_tabs` | 2 tabs, 3 tokens, no fault | `DeadMeansDead` violated |
| `fanout` | 1 event, 3 members and an id nobody has, 1 fault | 261,000 states, no error |
| `fanout_missed` | 1 event, 1 fault | `MissedGetsAnotherChance` violated |
| `trip_app` | see below; symmetry of calls, tabs and slots | 1.9 million states, no error |
| `item_unassign` | days and items of `trip_app` | `UnassignedIsOnNoDay` violated |

Why these bounds are enough to be interesting. Two overlapping calls (or runs)
are the smallest number that can race, and every stale write needs exactly one
reader and one writer. Two cases of one booking let a case overwrite what
another one did; two options let a decision change. In `rebooking` a client may
send an empty body or one that sets the status, a time and a record and leaves
the other time null (`Bodies`; the booking was created CONFIRMED with a start,
`NewBodies`), and to an item an empty body or a status
(`ItemBodies`); one edit or cut (`MaxExtras`) may fall between any two awaits of
the two requests, or be one of them. Two retries let a row reach
the limit from below and from a stale copy. Three tokens are a login and two
rotations, or two logins and a rotation. Three members make "all but the
actor" more than one person, so that a partial notice would show.

The instance of `trip_app`: two calls (`Calls`), one of them cut short
(`MaxCuts`), over one task, one document, two days, one item and one comment (two
days let an item move; keys of one table do not interact otherwise), one open and
one closed proposal with an option each, two voters and three votes (a vote that
was toggled off needs a new key), one rule set with up to three upserts of three
rule lists that overlap in no rule, one evaluation. `MaxIndex` = 0 gives the
requests that name a day index a collision with the computed one. Reminders: one
trip, one booking, four days (`LastDay`), up to two changes (`MaxChanges`), one
failing run, runs that are up to a minute late (`MaxDelay`), and four clocks
(`MCClocks`): UTC, ten hours ahead of it (where 9 o'clock is still yesterday in
UTC), and the nights to winter and to summer time. The bookings start at the
minute at which a run is due, one and two minutes later, and in the hour that a
change of the clock leaves between two windows or in both (`StartMoments`), the
trips on two days (`StartDays`). The cache: each key that a mutation writes in turn
(`WatchedKeys`), three versions, two pending mutations (`Slots`). The selection:
two tabs, two workspaces, two trips, five pages that links and reloads open
(`OpenPaths`), besides `/workspace`, where creations lead.

Symmetry is used only where the properties are safety properties and the sets
are interchangeable (the founder is not).

All configurations switch the deadlock check off. The models really stop: their
primary keys (events, cases, options, tokens, rows) are bounded and run out.

### What the passing runs show

- **Outbox**: an event is never marked delivered, nor cleaned up, without a
  successful emission; the stale copies that overlapping crons write back never
  push a row past the retry limit; without faults each PROCESSING row has a run
  that will finish it, and every event settles. `AttemptsWithinBudget` and
  `DeliveredIsFinal` hold until two runs of a job have overlapped;
  with overlap an event may be emitted more often and a delivered row may go
  back, which the code accepts ("idempotent handlers required").
- **Rebooking**: through every interleaving and cut, DECIDED and APPLIED cases
  have a decision, and an APPLIED or announced case did rewrite its booking to one
  of its decisions. A time in a booking that no client entered comes from a
  decision that was applied to it; so does the traceability record, unless a
  client entered that. That the record names the case of the *times* beside it
  holds with one call at a time only: a stale save of `updateBooking` keeps the
  columns that its body leaves null and writes back the others, which mixes two
  rebookings. Nor does the record say anything about times that clients set
  later. The workflow implements its contract. Without cuts OPTIONS_READY means
  options. With one call at a time a decided case can be applied, and the items
  that a cancellation or a rebooking found linked have its status until a client
  sets one of the two or the link. Clients may set any pair of statuses, and
  `updateBooking` with a status, `updateItem` and attaching do not look at the
  other row: those items are out of step for good, and the property excludes
  them.
- **Membership**: the founder stays OWNER through every race; nothing is left
  without an owner unless a call was cut short (which does leave orphans, that
  nobody repairs); a trip is announced only when it has its owner.
  With one call at a time no owner is demoted and no removed member comes back;
  overlapping calls do both.
- **AuthSession**: an exchanged token is always revoked. Undisturbed, a login
  has one live token, the cookie is usable and logout leaves nothing live;
  overlapping refreshes or a lost answer break the first two. No
  tab stays blank, even when requests fail.
- **Fanout**: an event is in the audit log at most once although it is emitted
  twice; a trip-wide notice reaches everybody or nobody, mentions come after it;
  unread notifications are never cleaned up; without faults all are told.

- **TripApp**: an object in the bucket has its row or is being uploaded, however
  calls overlap, unless one is cut short; with one call at a time a listed
  document can be downloaded. A call never brings back a row that had been
  deleted when it began, although one that began earlier may. No row refers to
  one that is not there, nobody votes or adds options where the proposal is
  closed, and the seeding script keeps this at any point where it stops. With one
  call at a time the last event about a row says what the row is. The rules of
  the upsert that inserted last survive overlaps, and with one call at a time an
  evaluation judges by exactly these.
  *Reminders.* Only active members are reminded. A run that begins after the
  last change of a trip or booking reminds only of what is in its window, and if
  no run fails it leaves out nobody. On a clock that does not change, nobody is
  reminded twice of a booking, nor not at all of one that stays as it is between
  two runs and starts there. Four things are excepted because the code does
  not promise them: what a run that fails leaves out is never made up for;
  a booking that starts in the minute in which the runs begin may get no, one or
  two reminders, since the windows meet at whatever second a run looks at the
  clock; the same in a night when the clock changes; and a run may remind of what
  was changed after its query. Ten hours and more ahead of UTC "Tomorrow you
  travel" is sent on the day of the trip (`TravelDay`); the property takes that
  as the day the run looks for and does not judge the text.
  *Cache.* Of a list of which the page has data, the state before a change that
  the tab has made is not shown again once the change was answered, and whatever
  is shown without valid data is being fetched or its fetch has failed. Not so,
  and named by two histories, if an older answer comes to a first fetch or to the
  query of a page that was closed (`overtaken`: the invalidation does not stop
  these), or after the new-proposal page has added options without their hook
  (`unhooked`); then the old list may stay until the next answer.
  *Selection.* The active trip is one of the active
  workspace until one of two named races.

### Findings

Each is a run in which TLC finds a behaviour of the code that contradicts what
the code itself says.

1. `outbox_crash`: "at-least-once guarantee layer" (`events.service.ts:55`). A
   run that ends between the PROCESSING mark and the outcome leaves a row that
   no query selects again.
2. `fanout_missed`: "any subscriber that missed the synchronous emit gets
   another chance" (`events.service.ts:73`). The second emission has the name
   `outbox.<type>`, which no handler subscribes to.
3. `rebooking_reopen`: "Case already applied." (`rebooking.service.ts:233`).
   `generateOptions` sets an applied case back to OPTIONS_READY, after which
   `decide` accepts a new decision.
4. `membership_race`: "Cannot change the owner role."
   (`workspace.service.ts:210`). Of two overlapping changes the one that read the
   member before the promotion demotes the new owner.
5. `auth_tabs`: "Refresh itself failed — session is dead" (`client.ts:49`). The
   slower of two tabs that refresh together is sent to the login page while the
   browser holds a live token of its session.
6. `item_unassign`: "item.dayId = undefined; // unassign"
   (`itinerary.service.ts:179`). `save` skips undefined properties: the answer and
   the event say that the item is on no day, the row keeps its day.

Smaller things met on the way, which no run is about: `RULES_EVALUATED` events
never lead to a notification, because the handler looks for a field that
evaluations do not have; evaluations ignore whether the rule set is active; the
rules tab of `/workspace` sends the whole rule list of its last fetch, so that two
quick toggles lose the first; logging out keeps the selected workspace and trip
in localStorage; two days may get one `dayIndex`, which only affects their order.
In the seeded data a user who is only INVITED has voted, and the audit entry of
task 1 names another creator than the task.

### Fairness

Liveness is checked in three modules.

- `Outbox!Fairness`: the crons keep firing (weak fairness of `StartRun` and
  `StartRetry`) and the event loop resumes a suspended run or publish. Nothing
  is assumed of crashes. `EventuallySettled` is claimed for behaviours without
  faults; `AtLeastOnce` for all, and refuted.
- `AuthSession!Fairness`: server and network answer, and a mounted `AuthGuard`
  runs its effect. Nothing is assumed of users or expiry.
- `Fanout!Fairness`: handlers are resumed and the processor keeps running; users
  and the clean-up need never act.

`TripApp` has safety properties only. Its services promise nothing that must
happen later: a call that is cut short is not taken up again by anybody, a
reminder run that failed is not repeated. That the cache must fetch what it lacks
is stated as a safety property (`OwnWritesShown`: a fetch is in flight or has
failed), since nothing obliges the network to answer.

## 5. The proofs

Each theorem holds for every value of the constants that satisfies the module's
`ASSUME`; TLC evaluates those assumptions in the runs.

**`OutboxProofs`.** `TypeCorrect`; then `BudgetInv` == `TypeOK`, `RetryBudget`,
`CopyBudget` and `OutcomeKnown`: not only the rows but also the copies that
runs hold stay within the limit, which is needed because a copy becomes the row
when it is saved. `RetryBudgetHolds` follows. `HandledInv` adds that a copy
marked DELIVERED was emitted (`CopyHandled`) and gives
`DeliveredWasHandledHolds`. `ProcessingHasOwnerHolds` shows that each PROCESSING
row has a run with that event in hand, by following every step that changes
either. The lemmas `MarkStep`, `EmitStep` and `RequeueStep` restate the three
saves as updates of one row and one copy. `SerialInv` is about the time before
two runs of one job overlap: then at most one processor and one retrier are
active (`OneRunEach`), what each holds is what the table says, in statuses that
the other job does not touch (`AllFresh`), and so the counter in a row keeps up
with its emissions (`AllCounted`). `AttemptsWithinBudgetHolds` and
`DeliveredIsFinalHolds` follow; a run cut short after an emission leaves its row
PROCESSING, which no run takes up again.

**`RebookingProofs`.** `TypeInv` is `TypeOK` and, per call, which locals are set
at which step (`CallTyped`). `RebookingInv` adds `CallFacts` (what a call may rely
on at each await: the option it holds was offered for its case, it has saved the
decision, it has written the booking), `OfferFacts` (options present were
offered for that case) and `DecisionFacts` (a decision row was recorded). The
invariant is needed because a call acts on what it read before: the argument is
that what it relies on are *history* facts, which only grow (`Monotone`), so
that no other call can take them away (`FactsKept`); what another call can take
away (an option, a status) no property relies on. `RowsTrue` says of each booking,
and `CallFacts` of each copy of one that a call will save, that its times and
record are a client's or were written by a case of this booking (`Written`);
`EditedColumns` shows that a body, column by column, keeps it. It yields
`DecidedHasDecisionHolds`, `AppliedWroteBookingHolds`,
`BookingFromDecisionHolds`, and `RefinesContractHolds`: each step maps to a step
of `RebookingContract` or to a stutter.
`ReadyInv` is about calls that are not cut short: where a case says that options
are ready, or `GenCase` is about to say so, there are options or a `GenSave` is
still to come; a regeneration that clears them is itself such a call
(`ReadyHasOptionsHolds`). `SerialInv` is about one call at a time: what it has
read is still so (`Held`), a synced item differs from its booking only while the
call is about to find or write it (`ItemPending`), and the option of a DECIDED
case is missing only while the call regenerates (`DecidedIsApplicableHolds`,
`ItemFollowsBookingHolds`). `PairedInv`, on top of it, says that the record and
the times are of one case, the last half of `BookingFromDecisionHolds`.

**`MembershipProofs`.** `MembershipInv` is `TypeInv` (types, and what a call
holds at each step) and `FounderInv`. `FounderStaysOwner` is not inductive by
itself: an update or a removal acts on a row it read one await earlier. The
strengthening says that until the founder's row is inserted there is no member
row, so nobody passes the guard, and that no call about to save or remove aims
at the founder, because `ReadMember` refuses owners; a call that starts later
finds the founder an OWNER, too. `OrphanInv` leads to `NoOrphansHolds`: a trip's
OWNER row is its creator's or missing; while it is missing and nothing was cut
short, some call is about to save it, and likewise for the workspace; `createTrip`
publishes only after that save.
`SerialInv` is about one call at a time: until two calls overlap or one is cut
short there is only one, and the row that it is about to save or remove is still
the table's (`Fresh`), which `ReadMember` refused if it was an owner's.
`OwnersKeptSeriallyHolds` and `NoResurrectionSeriallyHolds` follow.

**`AuthSessionProofs`.** `RotationInv` adds to the types what a request relies on
(`RequestFacts`): the token it sent is in the table, a request about to issue has
revoked the one it sent, an answer carries a token of the table. The argument is
again that these facts cannot be taken back (`TokensKept`): tokens stay in the
table and revoked ones stay revoked. `ParentRevokedHolds` follows.
`SerialInv` is about undisturbed behaviour: at most one request is under way
(`OneBusy`), and a live token is the newest of its login (`Newest`) and its
login has not been logged out. `HeldFacts` says where a session is as its
request proceeds: the sent token revoked and about to be replaced, or its
successor on the way to the browser. `OneLivePerLoginHolds`,
`CookieUsableHolds` and `LogoutEndsSessionHolds` follow; overlapping requests
break each of them, which is why `disturbed` is their hypothesis.

**`FanoutProofs`.** `FanoutInv` is `TypeOK`, `AuditInv` (while the audit
handler has not started or not written there is no entry, and it starts only
from a publish that is about to emit) and `NoticeInv` (the notification handler
works through its audience in order: nobody is told before it runs, and while it
is at the mentions all members have been told by one save). It yields
`TypeCorrect`, `AuditedOnceHolds` and `NoticeAudienceHolds`. For
`UnreadKeptHolds`, `NoticeInv` says of those still to be mentioned that they have
no such notification yet: the handler writes only where there is none, so it
never puts an unread one over one that was read.

**`TripAppProofs`.** Seven theorems about every part of `TripApp`.
`CallsInv` says of each call that is about to save a row under a key that it has
known from its first step (`Holds`) that this key was not among the rows deleted
by then: `Begin` notes those, the look-up found the row or the key was new, and
a call never changes what it noted. The other writes are inserts under new keys
and removals. Each action is shown to be `Tame` and to leave the other calls
alone; `Begins` and `Continues` say once what follows from that.
`DeletedStaysDeletedHolds`.

`AppInv`, from which `AppTypeOKHolds` follows, is what the further proofs take as
known: `TypesInv` (which rows and locals a call has at each step, `Typed`, and
that at most one call is under way until something is disturbed), the types of
the histories, and an invariant of each part that is not a service. The lemmas
named `...Does` restate each action once as a move of one call (`Moved`, what it
then holds) and its effect on the tables; the later proofs use those instead of
the definitions.

- `RemindedOnceHolds`: `RemindersInv` says of a run under way how far it has come
  (`RunFacts`), of each reminder since `steady` that it was due on its day
  (`Rightly`), and, as long as nothing failed, that whoever was surely due has it
  or is still in the list of today's run (`Complete`). A change moves `steady`
  behind whatever was sent or loaded (`ChangeStep`). That two windows have at
  most the minutes after 8 in common, and leave at most those uncovered, is
  arithmetic about `Instant` on a clock that does not change (`OneDay`,
  `SomeDay`).
- `WholeRuleSetHolds`: without cuts, an upsert that has deleted the rules will
  still insert its own; one call at a time, the table is what was inserted last.
- `ReferencesHoldHolds`: `RefsInv` adds to the references of the rows what a call
  is sure of when it saves (`Sure`). Other calls cannot take that away because
  days, open proposals and options stay (`Grows`); of each row the seeding
  script saves it is shown that it refers only to rows saved before.
- `LastEventTrueHolds`: `LastInv` says of undisturbed behaviour that what a call
  read is what the table holds (`Fresh`), and that a row of which no true event
  was published is the one that a call has just written and is about to publish
  (`Untold`). `TrueOf` has the property's two exceptions.
- `OwnWritesShownHolds`: from `CacheInv` of `ClientProofs`.

They rest on the assumptions of the parts, among them `TripAppAssumption` (a key
belongs to one table), `ItemIsRow` and `DocumentIsRow` (`None`, which stands for
a row that is not there, is no row).

**`DocumentsProofs`.** `DocInv` is the two halves of `DocumentStored` and what
makes them inductive: what a call holds at each step (`CallHolds`: a row that is
about to be removed has lost its object; keys in use are never uploaded again)
and, as long as nothing was disturbed, that no two calls are under way (`Alone`)
and that what is about to be written has its object.

**`ClientProofs`.** `SelectionInv` extends `ActiveTripInWorkspace` to what
localStorage holds, from which any tab may be loaded at any time, and to the
pending creations: a trip is only created for a workspace. `WorkspaceSelected`
and `TripSelected` are the two setters of the stores.
`CacheInv` is about the watched query: unless it was `overtaken` or `unhooked`, an
answer that was read on the server has every mutation that has settled, and so has the cached
data if it is not marked stale (`Current`); on a page that uses the query, data
that is missing or marked is being fetched, or the fetch has failed (`Served`).
The invalidation keeps it: it marks the data and, if the page shows the query,
fetches it again in place of the fetch in flight; an older answer that it does
not stop, as that of a first fetch, makes the query `overtaken`.

`DocSpec` and `SelectionSpec`, about which `DocumentStoredHolds` and
`ActiveTripInWorkspaceHolds` are, are the documents and the tabs alone; `TripApp`
uses the same actions.

**Only model-checked.** Liveness (`EventuallySettled`, `AtLeastOnce`,
`GuardSettles`, `EventuallyFannedOut`) is out of the prover's reach. The
properties of the runs that expect a violation are false of the code; their
counterexamples are TLC's.

## 6. Not modelled

- `updateWorkspace` changes name, description and image, on which nothing
  depends. `listX`/`getX` methods read only, as does the signing of download
  URLs.
- Columns that no property tells apart: titles, notes, prices, assignees, due
  dates of tasks. Notifications about all these contents are in `Fanout`.
- Users (`users/`): one insert and two look-ups.
- Validation of request bodies (DTOs, pipes), throttling, password hashing,
  JWT signing, formatting and logging.
- Of the client: forms, rendering and filters; hooks that no page uses
  (rebooking, marking notifications, attaching bookings, updating documents,
  bookings and items, deleting items); the audit log in `OwnWritesShown`, since
  its entries are written after the answer; a list that another tab or user has
  changed.
- Time zones that are not a whole quarter of an hour from UTC, or beyond UTC-12
  and UTC+14 (there are none), and runs that begin a quarter of an hour late or
  more; `RemindersAssumption` states both.
- Hazards that a property excuses are still hazards: the notes in
  `PROJECT.json` say for each what the property leaves out.
- `add-cover-images.ts`, bootstrap and configuration.
