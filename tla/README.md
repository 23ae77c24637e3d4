# Jualin CRM: TLA+ verification

Jualin CRM is a multi-tenant sales CRM: a Go API on PostgreSQL
(`src/crm_be`), a Next.js dashboard, a Flutter app for employees, and design
documents in `docs/phases`. The API holds all state; the clients only call it.
The API runs as any number of instances against one database, every request in
a goroutine of its own, with a worker goroutine per instance that delivers
outbound webhooks. Transactions run at PostgreSQL's default, READ COMMITTED.

That last sentence is why this directory exists. Under READ COMMITTED each
statement sees what is committed when it starts, so a use case that reads,
decides and writes is correct only if a row lock, a guard in the `WHERE`, or a
constraint makes it so, and a unit test with a fake repository shows none of
it.

## 1. Inventory

| Part | State | Operations | Interacts with | What makes it correct |
|---|---|---|---|---|
| Leads (`internal/lead`) | `leads`, `organizations.next_lead_number` | create, edit, status, assign, delete, replay by key, key sweep | activities, webhooks, plan, notifications | dense numbers; no lost update; status moves only as the funnel allows |
| Customers (`internal/customer`) | `customers` | convert, edit, delete | locks and reads leads | one customer per lead, made only from a won lead that then stays won |
| Memberships (`internal/membership`) | `memberships` | change role, deactivate | open leads, refresh tokens | an owner is left; nobody leaves open leads behind |
| Invitations (`internal/invitation`) | `invitations` | create, accept, revoke, expire | memberships, accounts, seats of the plan | accepted exactly when somebody joined; a revoked one is closed; seats within their slack |
| Sessions (`internal/auth`) | `refresh_tokens`, `verification_tokens`, `users` | register, verify, login, refresh, logout, reset | memberships | a token is used once; reuse ends the family; logout and reset end what they should |
| Webhooks (`internal/webhook`) | `webhook_deliveries`, endpoints | enqueue, claim, send, record, release, reap, purge, retry | enqueued in the lead's transaction | nothing accepted is lost; a row is not sent twice without a failure; bounded tries; a deploy strands few rows |
| Plans (`internal/subscription`) | `subscriptions` | resolve, gate a channel, gate a quota, change | leads, invitations, keys, forms, webhooks | limits within their stated slack; unknown plans fail closed for channels |
| API keys, forms (`internal/apikey`, `internal/form`) | `api_keys`, `forms` | create, revoke, resolve, submit | leads | a lead's submission met its form; its token was of the right age; submissions are counted once; an address cannot use up a form for everybody; a key's last use is fresh |
| Tasks (`internal/task`) | `tasks` | create, edit, complete, delete | leads, activities | one change per version; the timeline tells what became of a task; an employee keeps to its leads |
| Devices, push (`internal/device`) | `device_tokens` | register, unregister, push | lead assignment | a token belongs to one membership, and leaves it only when signed out, dead, or pushed a message the provider calls malformed |
| Notifications, activities, audit | append or mark-read rows | record, list | written in others' transactions | written with what they tell |
| Limiters (`shared/ratelimit`, `auth/login_limiter.go`) | in-memory counters in two generations | take, record failure, roll | handlers | eviction never gives a live key a new budget |
| Authorization (`shared/authz`) | none | Require | every use case | the matrix |
| Transport, config, crypto, mail, captcha | none | - | - | outside the models |

The behaviours that are hard to test are listed, each at its line, under
`hazards` in `PROJECT.json`. In short: use cases that read before their
transaction or read twice in it; several workers draining one table with
stamps, guards and a reaper instead of locks; crashes between a commit and
what follows it; retries by integrators that lost an answer; and time: the
reaper's threshold, the key sweep, token expiry.

## 2. Modules

| Module | Kind | Of |
|---|---|---|
| `WebhookDelivery`, `DeliveryPromise` | detailed, abstract | the delivery table, its workers and the clock; what the queue promises about one delivery |
| `LeadDesk`, `LeadPipeline` | detailed, abstract | leads, customers and leaving members as concurrent requests; what the product promises about one lead |
| `FixedWindow`, `WindowBudget` | detailed, abstract | the rate limiter's maps, generations and callers; what it promises each key |
| `Sessions`, `TokenFamily` | detailed, abstract | one user's refresh tokens under concurrent requests; what a family of tokens promises |
| `Team` | detailed | the people of an organization: accounts, invitations, roles, removals, seats |
| `Intake` | detailed | public forms and API keys up to the creation of a lead |
| `Fieldwork` | detailed | tasks, timeline, assignments, notices, devices and pushes around one lead |
| `MC...` + `*.cfg` | instances | one `MC` module per detailed module, one or more configurations |
| `...Proofs` | theorems | one per detailed module; `LeadDesk` has two, `LeadDeskProofs` for types, conversion and the refinement, `LeadLedgerProofs`, which extends it, for what is counted and named |

How they compose. `LeadDesk` takes over where `Intake` calls
`lead.Usecase.Create`; `Fieldwork` has the same lead from the side of the people
who work on it, with the assignment's version compare left to `LeadDesk`.
`Team`'s `Deactivate` is one write here; what it does to open leads is
`LeadDesk`'s `Settle` and `Leave`, what it does to sessions is `Sessions`'
`Deactivate`. A delivery begins in `WebhookDelivery` where `LeadDesk` commits.

Definitions whose comment begins with "Mutant" are plausible bugs of the
definition that follows them: a run with the mutant in its place finds the
property listed for it in `PROJECT.json` violated. They are used nowhere else.

### 2.1 WebhookDelivery

State. `status`, `attempt`, `wait`, `age` are the columns of
`webhook_deliveries`; `wait` is the time left to `next_attempt_at`, `age` the
time since `delivering_since`. For each worker: where in `tick` it is, whether
its context is cancelled, the claimed rows not yet attempted (`todo`, with the
attempt count *as read at the claim*, which is what `record` computes from),
the one being attempted and its outcome. `sends` and `heard` are what the
receiver could observe since the row was last opened.

| Actions | Code |
|---|---|
| `Enqueue` | `Enqueuer.Enqueue` in the lead's transaction |
| `Reap`, `Purge`, `ClaimDue`, `ClaimFails` | the first half of `Worker.tick` and its statements |
| `Attempt`, `Respond`, `Record` | `deliver`, `retryOrFail`/`finish`, `record` with `MarkResult` |
| `BatchDone`, `BeginRelease`, `Release`, `ReleaseDone` | the loop's end and `releaseRemaining` |
| `Wake`, `Stopped`, `Stop`, `ClaimCut`, `Crash`, `Start` | `Run`'s select, `main`'s shutdown, the stop that meets a claim under way, the bounded wait, process death |
| `RetryDelivery` | the user's retry: `MarkForRetry` |
| `Tick` | one unit of time |

Each SQL statement is a step of its own. `ClaimFails` includes the commit
whose answer is lost to a failure, `ClaimCut` the one whose answer is lost to a
graceful stop: `ClaimDue` runs under the context that the stop cancels
(`webhook/worker.go:131`), so PostgreSQL may commit a claim whose caller
gets an error and returns without the rows. `cuts` counts these. Time is urgent in one place only: a worker does not
spend more than `Deadline` (request timeout plus write timeout) on a row.
The database's clock and the workers' are taken to agree.

### 2.2 LeadDesk

State. `row[l]` is a row of `leads`: status, version, assignee, deleted,
idempotency key, number and the principal it came through. `numberLock` and
`lock[l]` are the row locks on the organization and on a lead; `customers` the
leads with a customer row (never removed, as `IsConverted` and the unique index
do not look at `deleted_at`); `aged` the leads past 48 hours; `named` what
clients were told about a key; `alerts` the month's notices. A client's `pc`
is the next statement of its request and `req` what the use case holds in
memory between statements.

| Actions | Code |
|---|---|
| `Quota`, `SweepKeys`, `AlertCheck`, `AlertSend`, `Allocate`, `Insert`, `Replay` | `lead.Usecase.Create` statement by statement |
| `LockStatus`, `CheckConverted`, `ChangeStatus` | `UpdateStatus` |
| `ReadAssignee`, `Assign` | `UpdateAssignment` |
| `Edit`, `Delete` | `Update`, `Delete`: one statement each |
| `Convert`, `RecordConversion` | `customer.Usecase.Convert` |
| `Settle`, `Leave` | `membership.Usecase.Deactivate` |
| `Fail` | any statement fails or the process dies: rollback |
| `Age` | the clock, for the key sweep |

How SQL becomes steps. A statement that waits for a row lock is disabled until
the lock is free, and then sees the row as it is (PostgreSQL re-evaluates the
`WHERE` after the wait). `Leave` shows what that re-evaluation does *not* do: a
bulk `UPDATE` works on the rows its snapshot found (`Settle`) that still
qualify (`Leave`); rows that came to qualify in between are not seen. A last
write after which only inserts of the same transaction follow is joined with
the commit: its lock could only delay others. An access token's role and
membership are fixed, as `authn.resolve` trusts the claims, so a deactivated
member's requests still run.

Left out: field values, validation of input, the activity and webhook rows
written in the same transaction (they commit with the step that writes them),
and the turn of the month for the quota.

### 2.3 FixedWindow

State. `current`, `previous` and `genStart` are the fields of the Go struct, a
missing map entry being `None`. `asked[c]` is what a request holds between
reading the clock and getting the mutex; `got[c]` the answer. `watched`,
`from`, `passed` and `touched` are history: one key and one moment, chosen
freely at the start, the calls let through for it since then, and its last use.

| Actions | Code |
|---|---|
| `Ask` | `Take` up to the lock: `now := f.now()` |
| `Take` | the critical section, `rollLocked` included (`RolledCurrent`, `RolledPrevious`, `RolledStart`) |
| `Tick` | the clock |

The abstract `WindowBudget` has one window per key. It is replaced only by a
call read after its end and forgotten only when the clock is past its end; what
the code's maps stand for is `Effective`. Left out: the remaining count and the
reset time for the response headers.

### 2.4 Sessions

State. `tok[t]` is a row of `refresh_tokens` (membership, family, client,
revoked, the successor it was exchanged for), `lockedBy` its row lock, `active`
and `role` the user's memberships. `late` is history: the membership was gone
before the row was committed; so is `ended` of a request: its last revocation
went through.

| Actions | Code |
|---|---|
| `ChooseMembership`, `IssueSession` | `Login` after the password, with its transaction |
| `Reused`, `RoleRefused`, `Accept`, `Rotate` | `Refresh`: `FindByHashForUpdate` and its four outcomes |
| `Logout` | `Logout`: one row |
| `ResetPassword`, `Deactivate`, `FinishRevoking` | `RevokeAllByUserID`, `RevokeAllByMembershipID`, `RevokeFamily`: the rows the statement's snapshot found, then the wait for their locks and the commit |
| `UpdateRole` | the role a refresh re-reads |
| `Fail`, `DeadlockVictim` | rollback; PostgreSQL's choice in a cycle of waiting transactions |

A bulk `UPDATE` has two steps because its snapshot and its locks are taken at
different times: a token inserted in between by a transaction not yet
committed is missed. After a removal that does no harm, which is
`LateTokensAreDead`: `Refresh` reads the membership again. After a reset or a
detected reuse the missed token goes on working. `TokenFamily` says which
tokens that can be: a revocation gives an `order`, from then on it is `due` to
end every living family it is about, and the only things that take a family
out of `due` are its end, by this or another revocation or a logout, and an
exchange that was under way; a family begun by a login under way never was in
it. Section 6 has the sentences of the code this differs from.

### 2.5 Team

State. `account`, `member` (the role of the active membership), `invite`,
`plan`; `held[a]` the roles an access token of `a` may still name, since a
token outlives a change of role. A request holds what it read: the target's
role, the number of owners, the seats in use.

| Actions | Code |
|---|---|
| `Register`, `VerifyEmail` | `auth.Usecase.Register`, `VerifyEmail` |
| `CountMembers`, `CountPending`, `CreateInvitation` | `invitation.Usecase.Create`: two counts, the plan's limit, the insert |
| `FindInvitation`, `Accept` | `findActionable`, then the transaction of `acceptNewUser`, `acceptExistingUser` |
| `Revoke`, `Expire` | `MarkRevoked`, which has no guard; `expires_at` |
| `ReadForRole`, `UpdateRole` | `membership.Usecase.UpdateRole` |
| `ReadForRemoval`, `CountOwners`, `Deactivate` | `membership.Usecase.Deactivate` |
| `ChangePlan` | the operator's endpoint and the test checkout |
| `Fail` | a failed statement or a dead process |

### 2.6 Intake

State. `form` and `key` are the rows; `spent[x]` the calls a limiter has counted
for the address, form or key `x` in its window, `left[x]` what is left of that
window; `charged` is history, the calls of an address that were counted in the
window of a form; `throttle` the process's memory of the last write of
`last_used_at`; `page[v]` the token on the page a visitor has open; `req[v]` the
call under way, with its copy of what the row required. Time is finer than the
token's seconds.

Every limiter has the same length of window (`main.go:254`, `297-298`), but each
address, form and key a window of its own, which opens at its first call
(`Take`) and is over that long after (`Tick`). An address may therefore spend a
budget at the end of one of its windows and another at the start of the next
while one window of the form is open. That the code's two generations of
buckets are such windows, also for clock readings out of order, is
`FixedWindow`'s refinement of `WindowBudget`.

| Actions | Code |
|---|---|
| `CreateForm`, `UpdateForm`, `DeleteForm`, `CreateKey`, `RevokeKey` | the owner's endpoints |
| `Embed` | `embed` with `formtoken.Issue` |
| `Submit`, `AskForm` | the handler: address limiter, form limiter, body |
| `Screen`, `Captcha`, `CreateLead`, `Count` | `form.Usecase.Submit`: the single read of the row, origin, honeypot, token; the captcha call; the lead; `IncrementSubmitCount` |
| `PresentKey`, `Touch`, `AskKey` | `ResolveAPIKey` with `touchLastUsed`, the write, the key's limiter |
| `Restart`, `Tick` | process death; the clock |

`admitted`, `demanded` and `judged` of a call are history: which origins its
form admitted at some moment of the call, which fields it required at every
moment, and when the token was judged.

### 2.7 Fieldwork

State. `holder`, `removed` and `leadLock` are the lead; `task` and `lock` the
tasks and their row locks; `timeline` the activities; `notices` and `unread`
the notifications; `owner` the device tokens; `alive` the tokens the provider
accepts; `malformed` of a request says that the provider finds fault with the
message it pushes.

| Actions | Code |
|---|---|
| `CreateTask`, `RecordCreated` | `task.Usecase.Create`: the insert, the entry and the commit |
| `FindTask`, `Write`, `RecordCompleted` | `Update`, `Complete`, `Delete`: the statement starts, gets the row, writes the entry |
| `AddActivity` | `activity.Usecase.Create` |
| `Assign`, `CommitAssignment` | `lead.Usecase.UpdateAssignment` with `Notify` |
| `MarkRead`, `MarkAllRead`, `RemoveLead` | notifications; `lead.Usecase.Delete` |
| `Register`, `FindToken`, `Unregister` | `device.Usecase` |
| `FindTokens`, `Send`, `Clean`, `FinishPush` | `PushToMembership` |
| `TokenDies`, `Fail` | the provider; failures |

A statement that waited for a task's row checks that row again but not the lead
its `EXISTS` looked at, so `Write` asks nothing of the lead, and an employee may
finish a change of a lead that was taken away while it waited:
`EmployeesKeepToTheirs` says "during the request", which is what the code
gives. The entry of a completion is a statement of its own and asks again.

`Invalid` is `isUnregisteredError`: the token is unknown to the provider, or the
message was answered INVALID_ARGUMENT. A push carries the lead's name
(`lead/usecase.go:472`), so whether it is malformed is left open, per push.

## 3. Runs

All runs are exhaustive. A violation run checks one sentence of a comment or a
document that the code does not keep; section 6 says what to make of each.

| Run | Question | Result |
|---|---|---|
| `webhook_timely` | do batches that fit the threshold keep every claim exclusive and implement `DeliveryPromise`, through a crash or failed statement, a graceful stop and a user retry, and how many rows can those leave claimed by nobody? (2,094,200 states) | holds |
| `webhook_progress` | is every queued row settled under fairness? | holds |
| `lead_status` | status, convert and delete on one lead at once: does a converted lead stay won, and is `LeadPipeline` implemented? | holds |
| `lead_assign` | assign, edit, status, deactivate by three clients: is anything overwritten unseen, and is every request that waits for the lead's lock answered? | holds |
| `lead_create` | creations at the limit with one key, failures, deletes and the sweep: numbers, keys, quota (112,337 states) | holds |
| `lead_replay_lost` | a key whose lead was deleted: does a repeated creation get its answer? | violated |
| `rate_window` | are two generations of buckets one window per key, with late readings? how large can a burst be, how old a tracked key? | holds |
| `sessions` | login, refresh, logout, reset, removal and role change at once: is `TokenFamily` implemented, which families may a revocation miss, are late tokens dead, does every request end? (122,900 states) | holds |
| `team` | invitations, acceptances, revocations, roles, removals and plan changes at once: seats, owners, who joined (455,259 states) | holds |
| `team_last_owner` | two owners leave, or one leaves while the other is demoted: is one left? | violated |
| `intake` | submissions and keys against an owner who edits, the clock and a restart: age, form, count, an address's share of a form's window, last use (2,121,123 states) | holds |
| `fieldwork` | tasks, notes, assignments, notices and pushes around one lead: timeline, versions, reach, devices (1,410,997 states) | holds |

Bounds, and why they suffice:

- *Webhook.* Two workers are what exclusion is about, two rows make a batch in
  which the second waits for the first, and `ReapAfter = Batch * Deadline` is
  the tightest case of the theorem's assumption. One retry reaches both sides
  of "give up". `MaxFaults`, `MaxStops`, `MaxRequeues` are budgets for the
  environment, never for the workers.
- *Leads.* Two requests suffice for every race between two transactions;
  `lead_assign` has three, so that a stale client meets a deactivation and an
  edit. One lead has all races on a lead; three leads are for the counter and
  the limit. `MaxVersion` stops new requests on a lead after that many versions
  (6 in `lead_status`, which walks a lead through the whole funnel and back),
  `Kinds` and `Inlets` select which requests a run makes, so that each run is
  about one question; between them every action fires.
- *Limiter.* Two callers are what a late reading needs, two keys what a swap
  without touching a key needs. `Window = 3` is the smallest window that is
  longer than the interval `Window - Stall` of `BurstBounded` and lets that
  interval hold two units; `MaxTime = 6` reaches both kinds of swap. `Stall`
  bounds the time between reading the clock and the lock; the refinement and
  the types do not depend on it.
- *Sessions.* Three tokens are a login, its successor and a second family, or
  two exchanges; two requests are every pair of transactions, a cycle of two
  waiting ones included. One membership is enough for what the properties say of
  one; two, which differ only in what `RevokeAllByUserID` and
  `RevokeAllByMembershipID` reach, take longer than a run should. The theorems
  have any number of each.
- *Team.* `Starts` holds three teams, each with the kinds of request that meet
  in it: a founder who invites, a grown team of two owners and an admin, and a
  pair whose last seat is taken while the plan changes. Limits of two and three
  seats are the smallest that a second and a third person reach. Each team starts
  within the limit of its plan, since `ceiling` is the largest limit from there
  on.
- *Intake.* Two callers behind one address compete for its budget and for a
  form; two forms show that a token is good for one only. The address's limit is
  one, so its bound in a form's window is three, which is reached; the form's
  limit is four and does not get in the way. A window of two units is the
  smallest in which two windows of an address meet one of a form. Two units make a
  second, so that a stamp can be cut; the token's ages are ones that this cut
  matters to at both ends. The constraint `Apart` leaves out behaviours with a form and
  a key together, which share nothing but the callers. Three edits create, open
  and close or change a form; one restart separates a count from its lead.
- *Fieldwork.* `Scopes` holds three sets of kinds of request: tasks and notes,
  devices, and news, each with the lead's reassignment and deletion, since
  tasks and devices meet nowhere but in the lead. Two assignments take a lead
  from one employee to another and back.
- `CHECK_DEADLOCK FALSE` where bounds end the behaviours: in the lead, team,
  intake and fieldwork runs no request can arrive when rows, changes, edits or
  moves are used up. A request that waits forever would be found by
  `EveryRequestEnds` in the runs that have row locks to wait for. The webhook,
  limiter and session runs check deadlock.

Fairness. Webhook: time passes, a goroutine that can run does, a stopped
worker takes the done branch of its select sooner or later (Go picks among
ready branches at random, hence strong fairness), and a stopped instance is
restarted. Leads: strong fairness of each request's steps, because PostgreSQL
queues the waiters of a row lock, so one that waits while others come and go
gets its turn. Sessions: weak fairness of a request's own statements and of the
abort of a deadlock's victim, which PostgreSQL's deadlock detector does; strong
fairness of `FinishRevoking`, which waits for locks in their queue. The other
modules have no liveness properties: their requests wait for nothing but
a row lock of a request that always ends. Users, signals, crashes and failures
are never fair.

## 4. Theorems

All hold for every number of workers, rows, clients, leads, members, keys,
tokens, people, invitations, callers, forms, tasks and requests, and every value
of the numeric constants that satisfies the named assumption of the module
(`WebhookAssumption`, `LeadAssumption`, `LimiterAssumption`,
`SessionAssumption`, `TeamAssumption`, `IntakeAssumption`,
`FieldworkAssumption`), which every run's instance satisfies. `TeamAssumption`
has finitely many people, invitations and requests and a team that starts within
its plan's seats, `LeadAssumption` finitely many clients and leads, and
`IntakeAssumption` finitely many callers, because their properties count them.

| Theorem | States |
|---|---|
| `WebhookDeliveryProofs!TypeCorrect` | `Spec => []TypeOK` |
| `WebhookDeliveryProofs!ExclusiveClaims` | `TimelyBatches` implies `Spec => []ClaimsExclusive` |
| `WebhookDeliveryProofs!ReaperSpares` | `TimelyBatches` implies `Spec => []ReaperSparesRunning` |
| `WebhookDeliveryProofs!FewAreStranded` | `Spec => []FewStranded` |
| `WebhookDeliveryProofs!FewCalls` | `TimelyBatches` implies `Spec => []SendsBounded` |
| `WebhookDeliveryProofs!PromiseKept` | `TimelyBatches` implies `Spec => KeepsPromise`: `WebhookDelivery` implements `DeliveryPromise` |
| `LeadDeskProofs!TypeCorrect` | `Spec => []TypeOK` |
| `LeadDeskProofs!ConversionFinal` | `Spec => []ConvertedStaysWon` |
| `LeadDeskProofs!PipelineKept` | `Spec => KeepsPipeline`: `LeadDesk` implements `LeadPipeline` |
| `LeadLedgerProofs!DenseNumbers` | `Spec => []NumbersDense` |
| `LeadLedgerProofs!OneLeadPerKey` | `Spec => []KeyNamesOneLead` |
| `LeadLedgerProofs!QuotaIsSoft` | `Spec => []SoftQuota` |
| `LeadLedgerProofs!NothingOverwritten` | `Spec => SeenIsReplaced` |
| `FixedWindowProofs!TypeCorrect` | `Spec => []TypeOK` |
| `FixedWindowProofs!TrackedRecent` | `Spec => []TrackedAreRecent` |
| `FixedWindowProofs!BurstsAreBounded` | `Spec => []BurstBounded` |
| `FixedWindowProofs!ImplementsBudget` | `Spec => KeepsBudget`: `FixedWindow` implements `WindowBudget` |
| `SessionsProofs!TypeCorrect` | `Spec => []TypeOK` |
| `SessionsProofs!LateTokensDead` | `Spec => []LateTokensAreDead` |
| `SessionsProofs!FamiliesKept` | `Spec => KeepsFamilies`: `Sessions` implements `TokenFamily` |
| `TeamProofs!TypeCorrect` | `Spec => []TypeOK` |
| `TeamProofs!OwnersStay` | `Spec => []OwnerUnlessStale` |
| `TeamProofs!RevokedIsFinal` | `Spec => []RevokedStaysOut` |
| `TeamProofs!AcceptedJoined` | `Spec => []AcceptedMeansJoined` |
| `TeamProofs!SeatsHold` | `Spec => []SeatsBounded` |
| `IntakeProofs!TypeCorrect` | `Spec => []TypeOK` |
| `IntakeProofs!TimelyLeads` | `Spec => []LeadsAreTimely` |
| `IntakeProofs!FormMet` | `Spec => []LeadsMetTheirForm` |
| `IntakeProofs!LeadsCounted` | `Spec => []CountsItsLeads` |
| `IntakeProofs!AddressBounded` | `Spec => []AddressIsBounded` |
| `IntakeProofs!LastUseFresh` | `Spec => []LastUsedFresh` |
| `FieldworkProofs!TypeCorrect` | `Spec => []TypeOK` |
| `FieldworkProofs!TimelineTold` | `Spec => []TimelineTells` |
| `FieldworkProofs!ChangesChained` | `Spec => []ChangesChain` |
| `FieldworkProofs!EmployeesReach` | `Spec => EmployeesKeepToTheirs` |
| `FieldworkProofs!TokensStay` | `Spec => TokenStays` |
| `FieldworkProofs!PushesFollow` | `Spec => []PushFollowsNotice` |

*Claims.* No guard in the table names who claimed a row, so exclusion cannot
follow from the statements; it follows from time. `ClaimInv` adds to the
property that the age of every row a worker holds is at most the number of rows
it is done with times `Deadline`, plus the time on the current one. With
`Batch * Deadline <= ReapAfter` no held row is then ever overdue, so neither
the reaper nor, after it, another worker can touch it. `TimelyBatches` is an
assumption about configuration that the defaults meet and that start-up does
not check; without it TLC finds a row reaped under a running request in an
instance one unit short.

*Stops.* `FewStranded` is inductive beside the types: a row is stranded
(delivering, in no worker's memory) only by a claim nobody hears of, a crash
of its worker or a write of it that fails, each of which takes at most a batch
and is counted in `faults` or `cuts`. Every other step takes rows out of the
set or leaves it alone; in particular a stop that does not cut a claim short
hands every row back. It needs no condition on the threshold: a row the reaper
takes too early is no longer delivering.

*Sends.* `SendsInv` gives a row one call beyond its retries only while that call
has not been counted: an `Allowance` of one from the call to the retry it is
counted as, or for good once the row is closed, and of none while the row is
pending. A crash or failed statement between call and result leaves the row one
call ahead for ever, which is what `faults` pays for. The reaper would do the
same unpaid; `ClaimInv` keeps it from rows with a call running, so this
theorem needs `TimelyBatches` too.

*Promise.* `TriesCounted` (no more retries than calls) and `OutcomeHeard` (a
worker about to record has had that outcome of a call since the row was opened)
are the evidence the abstract `Succeed` and `Fail` ask for. With `ClaimInv` the row
that `Record` writes is still the one it read, so its statement is one abstract
move.

*Types of leads.* `TypeOK` alone is not inductive: that the counter stays a
natural number needs that a rollback gives back only what its transaction took
(`Counted`: while the counter is locked it is at least 2), and that a row's
assignee is a member needs that `req.want` fits the stage (`Staged`).

*Conversion.* `LockInv` says what each transaction knows while it holds a
lead's lock (`Guarded`): the lead exists, its status is what was read, it has no
customer from `CheckConverted` on, and it is won from `Convert` on. `LockedStill`
shows that nobody else changes a locked lead, `OwnGuard` that each transaction
establishes what it then relies on. `ConvertedStaysWon` follows because
`validateStatusTransition` is only reached under the lock without a customer.

*Refinement.* `TransitionAllowed` relates the code's index arithmetic to the
abstract funnel; `PipelineStep` maps `Insert`, `ChangeStatus`, `Delete` and
`RecordConversion` to `Enter`, `Move`, `Remove` and `Convert`, and every other
step to a stutter.

*Numbers, keys, quota.* `Issued` is the number of leads that exist: one less than
the counter stands at, and one less again while a transaction has taken a
number and not yet committed (`NumbersInv`); the counter's lock makes that one
transaction. `KeyInv` says that all leads that hold a key, deleted ones
included, are one, and that answers name holders; the sweep takes the key and
the answers together. For the quota, `Passing` are the requests that have
passed the check and not inserted yet: the check is passed with fewer leads
than the limit, and what is on its way then is at most everybody
(`QuotaBound`). `AlertBound` is the same argument for the notice.

*Lost updates.* `SeenOf` relates what a request saw to the row: the version it
saw is not later, and if it is the same then so are status and assignee, since
whatever changes one of them raises the version (`VersionSteps`). The version
compare of each write, or the lock that `LockInv` speaks of, gives the rest.

*Limiter.* `IInv` says where windows start: those of the current generation
before its end (`CurrentStarts`), those of the previous one before the current
one began (`PreviousStarts`). So whatever a swap drops is over (`GoneAreOver`),
even for a caller with an old reading, and `BucketIsWindow` reads the lookup,
carry-over and renewal of the code as one step of the abstract window. For the
burst, `BurstInv` says that a second window opened inside the interval starts
at most `Stall` before it, and is therefore still open when the interval ends.

*Sessions.* `Relies` says what each transaction knows between its statements:
while `Rotate` is next, the token is locked, can be exchanged and is not late;
the rows a revocation found exist. `OneLive` (at most one token of a family can
be exchanged) is then inductive because only the holder of the lock on that
one token inserts a successor, and `LateGone` because a removed membership is
never restored and `Accept` looks at it. The refinement maps `IssueSession` to
`Begin`, `Rotate` to `Exchange`, the arrival of a revocation to `Ask` and its
`FinishRevoking` to `End`, where `due` is what the rows it found stand for
(`Ending`: the families whose living token is among them). At its arrival that
is every living family it is about, since a snapshot misses no committed row;
from then on a family leaves it only with its living token, which `OneLive`
and the locks reduce to an exchange, a logout or another revocation. `End`
leaves no choice of what it ends, so a revocation that lost a family in any
other way would have no abstract step.

*Team.* `Starts` holds three teams, each with the kinds of request that meet
  in it: a founder who invites, a grown team of two owners and an admin, and a
  pair whose last seat is taken while the plan changes. Limits of two and three
  seats are the smallest that a second and a third person reach. Each team starts
  within the limit of its plan, since `ceiling` is the largest limit from there
  on.
- *Intake.* Two callers behind one address compete for its budget and for a
  form; two forms show that a token is good for one only. The address's limit is
  one, so its bound in a form's window is three, which is reached; the form's
  limit is four and does not get in the way. A window of two units is the
  smallest in which two windows of an address meet one of a form. Two units make a
  second, so that a stamp can be cut; the token's ages are ones that this cut
  matters to at both ends. The constraint `Apart` leaves out behaviours with a form and
  a key together, which share nothing but the callers. Three edits create, open
  and close or change a form; one restart separates a count from its lead.
- *Fieldwork.* `Scopes` holds three sets of kinds of request: tasks and notes,
  devices, and news, each with the lead's reassignment and deletion, since
  tasks and devices meet nowhere but in the lead. Two assignments take a lead
  from one employee to another and back.
- `CHECK_DEADLOCK FALSE` where bounds end the behaviours: in the lead, team,
  intake and fieldwork runs no request can arrive when rows, changes, edits or
  moves are used up. A request that waits forever would be found by
  `EveryRequestEnds` in the runs that have row locks to wait for. The webhook,
  limiter and session runs check deadlock.

Fairness. Webhook: time passes, a goroutine that can run does, a stopped
worker takes the done branch of its select sooner or later (Go picks among
ready branches at random, hence strong fairness), and a stopped instance is
restarted. Leads: strong fairness of each request's steps, because PostgreSQL
queues the waiters of a row lock, so one that waits while others come and go
gets its turn. Sessions: weak fairness of a request's own statements and of the
abort of a deadlock's victim, which PostgreSQL's deadlock detector does; strong
fairness of `FinishRevoking`, which waits for locks in their queue. The other
modules have no liveness properties: their requests wait for nothing but
a row lock of a request that always ends. Users, signals, crashes and failures
are never fair.

## 4. Theorems

All hold for every number of workers, rows, clients, leads, members, keys,
tokens, people, invitations, callers, forms, tasks and requests, and every value
of the numeric constants that satisfies the named assumption of the module
(`WebhookAssumption`, `LeadAssumption`, `LimiterAssumption`,
`SessionAssumption`, `TeamAssumption`, `IntakeAssumption`,
`FieldworkAssumption`), which every run's instance satisfies. `TeamAssumption`
has finitely many people, invitations and requests and a team that starts within
its plan's seats, `LeadAssumption` finitely many clients and leads, and
`IntakeAssumption` finitely many callers, because their properties count them.

| Theorem | States |
|---|---|
| `WebhookDeliveryProofs!TypeCorrect` | `Spec => []TypeOK` |
| `WebhookDeliveryProofs!ExclusiveClaims` | `TimelyBatches` implies `Spec => []ClaimsExclusive` |
| `WebhookDeliveryProofs!ReaperSpares` | `TimelyBatches` implies `Spec => []ReaperSparesRunning` |
| `WebhookDeliveryProofs!FewAreStranded` | `Spec => []FewStranded` |
| `WebhookDeliveryProofs!FewCalls` | `TimelyBatches` implies `Spec => []SendsBounded` |
| `WebhookDeliveryProofs!PromiseKept` | `TimelyBatches` implies `Spec => KeepsPromise`: `WebhookDelivery` implements `DeliveryPromise` |
| `LeadDeskProofs!TypeCorrect` | `Spec => []TypeOK` |
| `LeadDeskProofs!ConversionFinal` | `Spec => []ConvertedStaysWon` |
| `LeadDeskProofs!PipelineKept` | `Spec => KeepsPipeline`: `LeadDesk` implements `LeadPipeline` |
| `LeadLedgerProofs!DenseNumbers` | `Spec => []NumbersDense` |
| `LeadLedgerProofs!OneLeadPerKey` | `Spec => []KeyNamesOneLead` |
| `LeadLedgerProofs!QuotaIsSoft` | `Spec => []SoftQuota` |
| `LeadLedgerProofs!NothingOverwritten` | `Spec => SeenIsReplaced` |
| `FixedWindowProofs!TypeCorrect` | `Spec => []TypeOK` |
| `FixedWindowProofs!TrackedRecent` | `Spec => []TrackedAreRecent` |
| `FixedWindowProofs!BurstsAreBounded` | `Spec => []BurstBounded` |
| `FixedWindowProofs!ImplementsBudget` | `Spec => KeepsBudget`: `FixedWindow` implements `WindowBudget` |
| `SessionsProofs!TypeCorrect` | `Spec => []TypeOK` |
| `SessionsProofs!LateTokensDead` | `Spec => []LateTokensAreDead` |
| `SessionsProofs!FamiliesKept` | `Spec => KeepsFamilies`: `Sessions` implements `TokenFamily` |
| `TeamProofs!TypeCorrect` | `Spec => []TypeOK` |
| `TeamProofs!OwnersStay` | `Spec => []OwnerUnlessStale` |
| `TeamProofs!RevokedIsFinal` | `Spec => []RevokedStaysOut` |
| `TeamProofs!AcceptedJoined` | `Spec => []AcceptedMeansJoined` |
| `TeamProofs!SeatsHold` | `Spec => []SeatsBounded` |
| `IntakeProofs!TypeCorrect` | `Spec => []TypeOK` |
| `IntakeProofs!TimelyLeads` | `Spec => []LeadsAreTimely` |
| `IntakeProofs!FormMet` | `Spec => []LeadsMetTheirForm` |
| `IntakeProofs!LeadsCounted` | `Spec => []CountsItsLeads` |
| `IntakeProofs!AddressBounded` | `Spec => []AddressIsBounded` |
| `IntakeProofs!LastUseFresh` | `Spec => []LastUsedFresh` |
| `FieldworkProofs!TypeCorrect` | `Spec => []TypeOK` |
| `FieldworkProofs!TimelineTold` | `Spec => []TimelineTells` |
| `FieldworkProofs!ChangesChained` | `Spec => []ChangesChain` |
| `FieldworkProofs!EmployeesReach` | `Spec => EmployeesKeepToTheirs` |
| `FieldworkProofs!TokensStay` | `Spec => TokenStays` |
| `FieldworkProofs!PushesFollow` | `Spec => []PushFollowsNotice` |

*Claims.* No guard in the table names who claimed a row, so exclusion cannot
follow from the statements; it follows from time. `ClaimInv` adds to the
property that the age of every row a worker holds is at most the number of rows
it is done with times `Deadline`, plus the time on the current one. With
`Batch * Deadline <= ReapAfter` no held row is then ever overdue, so neither
the reaper nor, after it, another worker can touch it. `TimelyBatches` is an
assumption about configuration that the defaults meet and that start-up does
not check; without it TLC finds a row reaped under a running request in an
instance one unit short.

*Stops.* `FewStranded` is inductive beside the types: a row is stranded
(delivering, in no worker's memory) only by a claim nobody hears of, a crash
of its worker or a write of it that fails, each of which takes at most a batch
and is counted in `faults` or `cuts`. Every other step takes rows out of the
set or leaves it alone; in particular a stop that does not cut a claim short
hands every row back. It needs no condition on the threshold: a row the reaper
takes too early is no longer delivering.

*Sends.* `SendsInv` gives a row one call beyond its retries only while that call
has not been counted: an `Allowance` of one from the call to the retry it is
counted as, or for good once the row is closed, and of none while the row is
pending. A crash or failed statement between call and result leaves the row one
call ahead for ever, which is what `faults` pays for. The reaper would do the
same unpaid; `ClaimInv` keeps it from rows with a call running, so this
theorem needs `TimelyBatches` too.

*Promise.* `TriesCounted` (no more retries than calls) and `OutcomeHeard` (a
worker about to record has had that outcome of a call since the row was opened)
are the evidence the abstract `Succeed` and `Fail` ask for. With `ClaimInv` the row
that `Record` writes is still the one it read, so its statement is one abstract
move.

*Types of leads.* `TypeOK` alone is not inductive: that the counter stays a
natural number needs that a rollback gives back only what its transaction took
(`Counted`: while the counter is locked it is at least 2), and that a row's
assignee is a member needs that `req.want` fits the stage (`Staged`).

*Conversion.* `LockInv` says what each transaction knows while it holds a
lead's lock (`Guarded`): the lead exists, its status is what was read, it has no
customer from `CheckConverted` on, and it is won from `Convert` on. `LockedStill`
shows that nobody else changes a locked lead, `OwnGuard` that each transaction
establishes what it then relies on. `ConvertedStaysWon` follows because
`validateStatusTransition` is only reached under the lock without a customer.

*Refinement.* `TransitionAllowed` relates the code's index arithmetic to the
abstract funnel; `PipelineStep` maps `Insert`, `ChangeStatus`, `Delete` and
`RecordConversion` to `Enter`, `Move`, `Remove` and `Convert`, and every other
step to a stutter.

*Numbers, keys, quota.* `Issued` is the number of leads that exist: one less than
the counter stands at, and one less again while a transaction has taken a
number and not yet committed (`NumbersInv`); the counter's lock makes that one
transaction. `KeyInv` says that all leads that hold a key, deleted ones
included, are one, and that answers name holders; the sweep takes the key and
the answers together. For the quota, `Passing` are the requests that have
passed the check and not inserted yet: the check is passed with fewer leads
than the limit, and what is on its way then is at most everybody
(`QuotaBound`). `AlertBound` is the same argument for the notice.

*Lost updates.* `SeenOf` relates what a request saw to the row: the version it
saw is not later, and if it is the same then so are status and assignee, since
whatever changes one of them raises the version (`VersionSteps`). The version
compare of each write, or the lock that `LockInv` speaks of, gives the rest.

*Limiter.* `IInv` says where windows start: those of the current generation
before its end (`CurrentStarts`), those of the previous one before the current
one began (`PreviousStarts`). So whatever a swap drops is over (`GoneAreOver`),
even for a caller with an old reading, and `BucketIsWindow` reads the lookup,
carry-over and renewal of the code as one step of the abstract window. For the
burst, `BurstInv` says that a second window opened inside the interval starts
at most `Stall` before it, and is therefore still open when the interval ends.

*Sessions.* `Relies` says what each transaction knows between its statements:
while `Rotate` is next, the token is locked, can be exchanged and is not late;
the rows a revocation found exist. `OneLive` (at most one token of a family can
be exchanged) is then inductive because only the holder of the lock on that
one token inserts a successor, and `LateGone` because a removed membership is
never restored and `Accept` looks at it. The refinement maps `IssueSession` to
`Begin`, `Rotate` to `Exchange`, and every revocation to `End` of the families
whose live token is in the rows found, which may be none.

*Team.* `Relies` keeps the rules on ranks and oneself that were applied when a
request was read; `Holds` keeps of an acceptance that its invitation had not
been closed before it began, from which `RevokedStaysOut` follows. For the
owners: a write that is not stale finds the rows and the token as they were
read, so an admin does not touch an owner, nobody demotes themselves, and one
who leaves had counted more than one owner; `LastOfMany` turns that count into
an owner who is left.

*Seats.* Bounding members and pending invitations is not inductive, because an
acceptance under way outlives the revocation or expiry of its invitation and
the removal of its addressee. `Taken` counts these people too (`Late`), and the
requests that passed the limit and have not inserted yet (`Granted`); no
request is both, so the two together are at most the requests there are
(`SeatSets`). Every step but one then takes no further seat: it turns a granted
seat into an invitation, an invitation or a late seat into a member, or gives
one up. The one is `CountPending`, which compares a sum of two counts read at
different times with the limit; `CountedOrTorn` says how far the first
can be behind.

*Intake.* `Sound(v)` is what a call has passed: `Aimed` (its stage fits what it
targets), `Judged` (what the copy of the row and the token proved) and `Known`
(its history covers the row as it is now, so an edit in between only widens what
it admitted and narrows what it demanded). `StampBounds` is the arithmetic of
the truncated stamp, with the second by which it falls short of `MinAge`.
`Costs` adds to what a form has counted of an address the calls that have paid
the address and not yet the form, and says how much that can be while the
form's window is open (`Fits`): the calls under way when it opened, the address's
present window, and, once that window opened after the form's, the one before
it. Both windows are equally long, so there is no third. `Tally` adds to the
count the submissions under way; both are cardinalities that one call changes by
one. `Marked` adds
what makes `LastUsedFresh` inductive: the process's memory of a write is never
later than the write in the row, unless it is under way or failed.

*Fieldwork.* `Alone` (a task being created is nobody else's) and `Relies` (a
completion under way holds the lock and the version it saw) make
`TimelineTells` and `ChangesChain` inductive; `Registered` says that the row of
a token names somebody who once registered it, which is what `TokenStays` needs
of the row that moved between the lookup and the delete; that a push about to
delete the row of a token still alive found its message malformed is the rest. `PushInv` gives every
push sent and every request on its way to send one a notice of its own.

Every invariant, action property and refinement that a passing run checks is
also a theorem. Only model-checked are the liveness properties `EverySettled`
and `EveryRequestEnds` (of leads and of sessions): they need fairness and
`ENABLED`, which the prover does not do. `WithinReach` and the other
strengthenings were checked with TLC before they were proved.

## 5. What is not modelled

`PROJECT.json` lists every part with the reason. In short:

- *Login limiter.* Its map forgets in two generations like the rate limiter's,
  which is modelled and proved; the growing wait and the handler around it are
  next (section 7).
- *Reset and verification links.* Two resets with one link both find it unused
  and both write; each ends with the revocation `Sessions` has, and the later
  password stands. Which of two passwords of one user that is, no rule says.
- *Audit log, metrics, configuration, formats, cryptography, mail.* One insert in
  another component's transaction, reads that change nothing, or libraries.
- *Webhook endpoints, customers.* Creating, editing and removing their rows is
  one guarded statement each and touches nothing that a model has.
- *Dashboard, employee app, landing page.* Clients: their requests are the
  arrivals of the modules.

## 6. Where the code and its documents differ

Two runs check a sentence that does not hold:

- `lead_replay_lost`: a key whose lead was deleted answers with an error,
  since the index sees deleted rows and the lookup does not.
- `team_last_owner`: the comment on `CountActiveOwners`
  (`membership/repository_postgres.go:172-176`) says that both uses are inside
  the transaction that writes. `Deactivate` counts before its transaction and
  `UpdateRole` does not count, so two owners who leave at once, or one who
  leaves while being the last because the other was demoted, leave none.

Others, met while modelling:

- The reaper's threshold must cover a whole batch, not one request as the
  comment at `webhook/worker.go:17` has it; true of the defaults, not required of a
  configuration. Naming the claim in `MarkResult`'s guard would make a late
  result harmless.
- A graceful stop that meets `ClaimDue` under way may leave the rows it claimed to
  the reaper, since the statement runs under the context the stop cancels
  (`webhook/worker.go:131`). The comment at `webhook/worker.go:140-144` has only
  what comes after the claim in view, where rows go straight back. `FewStranded`
  counts these claims.
- A password reset or a detected reuse does not reach a token that a login or an
  exchange under way inserts after the `UPDATE` took its snapshot, and that token
  goes on working. The comments have every token of the user or the login stop
  (`auth/usecase.go:380-386`, `554-558`, `auth/repository_postgres.go:183-185`,
  `204-208`). `KeepsFamilies` says that no others are missed. A lock on the user's
  row, taken by the reset and by whoever issues a token, would close the gap.
- A form's token is refused under two seconds and not later than thirty
  minutes, say `shared/formtoken/formtoken.go:5-7`, `33-41` and
  `docs/phases/06-connect-form/td.md:199`, `236`. The stamp has whole seconds, so a
  page served late in a second passes when it is little more than one second
  old, and one served then is refused up to a second before its thirty minutes.
  `LeadsAreTimely` has the bound the code keeps.
- The window of an address's form limiter and that of the form open
  apart, so one address may have up to twice `FORM_SUBMIT_RATE_LIMIT_IP`
  counted in one window of a form, and a few slow calls. `AddressIsBounded` has
  the bound.
- The request in flight at shutdown is cancelled with the worker and counted as
  an attempt, where `cmd/api/main.go:117` says it is finished.
- Check and insert of the quota notice are not atomic: owners may be told twice.
- Open leads are settled in one statement, the member is removed in another,
  and assignment accepts a removed member: a lead may be left behind.
- `activity.Record` is "never expected to fail" on its `EXISTS`
  (`activity/repository_postgres.go:72-76`). It does when the lead is deleted or
  reassigned between a task's statement and its entry; the transaction is then
  rolled back, which is why `TimelineTells` holds.
- The provider's INVALID_ARGUMENT condemns a token (`shared/push/fcm.go:169`),
  although a malformed message is answered likewise; `device/usecase.go:114-123`
  then deletes the token of every working device the push went to, where its
  comment speaks of a token the provider will never accept again. `TokenStays`
  has this as the one way besides signing out in which a working token goes.
- Members and pending invitations are counted by two statements; an acceptance
  between them is in neither count. `SeatsBounded` has a term for it.
- An expired invitation still counts for the unique index on pending ones, so
  the address cannot be invited again until somebody revokes it.
- `UpdateRole` writes its audit entry in a statement of its own: a failure
  in between leaves a change the log does not have.
- `docs/phases/04.5-hardening/prd.md:168` (H4) says that forgetting a lapsed entry
  of the login limiter is the same as keeping it. Kept, its failures would
  lengthen the next wait; forgotten, the next failure starts from the base.

On the quota, `docs/phases/08.5-plan-enforcement` accepts that simultaneous
requests pass it; `SoftQuota` is the exact slack: one less than the requests
under way at once.

## 7. Plan

1. `LoginBackoff` (`auth/login_limiter.go`) with the login handler around it:
   attempts that run together, late readings, and what a swap forgets.
2. The reset link in `Sessions`, with two resets at once.
3. Abstract specifications for `Team` and `Fieldwork`, in the way `LeadPipeline` is
   one for a lead: what an organization promises about one seat, and what a
   task promises about its versions; with their refinements proved.
4. `LeadEvents`: `LeadDesk` and `WebhookDelivery` composed at the transaction
   that enqueues.
