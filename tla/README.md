# Espera: a TLA+ model of the virtual queue's backend

The repository is the backend of a virtual-queue service (TypeScript, Express,
Prisma over PostgreSQL, Socket.IO, Redis for counters). Businesses register,
are approved by an administrator and open queues; customers take turns from
the app, guests take them from the web, staff enter people at the counter or on
the phone; staff call, attend, redirect and close turns through service
windows. Paths below are relative to the repository, `queue/` stands for
`src/modules/queue/`, `business/`, `auth/` and `organization/` likewise.

All state that matters is in PostgreSQL. A request is a use case object whose
`execute` awaits several database calls; between two awaits any other request,
of this process or of another one, may run. What makes the system hard is
therefore not a protocol but the gap between a read and the write it justifies,
and which of the database's own guards (row lock, compare-and-set, partial unique
index, foreign key) closes the gap.

## 1. Inventory

### Turns (`queue/`)

* **State**: table `turns`: queue, business, customer (null for guests and staff
  entries), source, priority, status, service window, day and number of the day,
  `queueJoinedAt`, five audit dates, `updatedAt`.
* **Operations**: `CreateTurn`, `CreateGuestTurn`, `CreateManualTurn` (counter and
  phone), `CallNext`, `AttendTurn` (the same endpoint completes a turn being
  attended), `RedirectTurn`, `MarkTurnNoShow`, `CancelTurn`, `CancelGuestTurn`,
  `CancelTurnByEmployee`, `ConfirmTurnStatus` (on the way, then here).
* **Guards of the database**: creation runs in a transaction that holds the queue's
  row (`SELECT ... FOR UPDATE`), counts the turns of the day and inserts; a save is
  an `updateMany` on id and `updatedAt`; at most one active turn per customer and
  at most one occupying turn per window by partial unique indexes; `serviceWindowId`
  is a foreign key `ON DELETE SET NULL`.
* **Hard**: two requests deciding on the same turn, the same window, the same
  customer; a window configured while it is being used; midnight between the
  computation of the day and the insert; reservations, which wait but are not due.
* **Correct when**: a turn walks one status graph and its audit dates agree; numbers
  of the day are dense; a window serves one turn; a customer holds one place;
  who is called is who was told to be next.

### Service windows and queues (`queue/`)

* **State**: `service_windows.isActive`, `queues.isActive`; a queue has one
  default window when it is created.
* **Operations**: create, toggle, update, delete a window; create, toggle a queue;
  list reads; `EnforceQueueLimitsForOrganization` turns off what a lapsed plan no
  longer pays for.
* **Hard**: the occupancy and plan checks are reads, the write is a separate
  upsert that also recreates a deleted row; enforcement works from a stale list.
* **Correct when**: no turn refers to a deleted window; a business keeps an
  active queue; the active windows and queues are within the plan.

### Reads of a queue (`queue/`)

Status, staff list, my turn, guest status, metrics and history. No state. The
order of service and the position are computed by different queries; the wait
estimate is an average with a fallback.

### Realtime and notifications (`queue/infrastructure/`)

A Socket.IO broadcast to the queue's room follows each save; the payload is a
hint to read again. The outbox and push notifier are stubs without behaviour.

### Business (`business/`)

* **State**: `businesses.status` (pending, approved, rejected, suspended),
  operational status, hours, profile; employees; invitations; QR codes.
* **Operations**: register, approve, reject, suspend,
  reactivate, operational status, profile, hours, invite, accept, cancel an
  invitation, revoke an employee, show, regenerate and resolve the QR code.
* **Hard**: suspension cancels the active turns it read before its
  transaction, each against concurrent saves and with bounded retries;
  operational status and profile save the whole row from a stale read, status
  included; accepting an invitation writes three tables without a transaction;
  a regeneration deactivates the old code and then saves the new one.
* **Correct when**: a suspended business stays suspended until it is reactivated
  and has no active turn; one acceptance per invitation; one active code.

### Organization and subscription (`organization/`)

* **State**: plan, status and end of the trial per organization.
* **Operations**: create with trial, activate, change plan, cancel, and a lazy expiry
  performed by whoever reads the subscription after its end.
* **Hard**: the lazy expiry saves a whole row from a stale read; creation
  checks of businesses, queues and windows count and insert separately, and
  switching a queue or a window back on is a second door to the same slot.
* **Correct when**: an activation is not undone by a reader; limits are passed by at
  most the requests in flight and are restored by enforcement.

### Accounts and sessions (`auth/`)

* **State**: users, refresh sessions (with the previous token's hash and a grace
  window), verification and reset tokens, failed-login counters in Redis or memory.
* **Operations**: register, verify, login, refresh, logout, block, unblock,
  request and perform a password reset.
* **Hard**: rotation racing rotation (a lost answer is retried), revocation
  racing rotation, a stale save of the user undoing a block, counters split between
  Redis and memory.
* **Correct when**: one rotation wins; a revoked session never comes back; a reset
  token is used once.

### Reports, HTTP layer, external services, scripts

Reports walk pending, then dismissed or resolved, possibly with a suspension. The HTTP
layer validates, routes and logs; e-mail, maps and Google sign-in are external;
the scripts run once.

`PROJECT.json` lists every hazard found, at its line, with the properties
that watch it, or why none does.

## 2. What is modelled

Four parts, each a model of its own; they meet where a row of one is an input of
another (below, *How the parts meet*).

| Module | Models |
| --- | --- |
| `TurnDomain` | The `turns` row, the queries of `PostgresTurnRepo` as operators over a table, the order of service (`turnPriority.ts`), the statuses each use case accepts. |
| `TurnQueue` | The eleven use cases that write a turn, the four that write a window, the row lock, compare-and-set, indexes and foreign key, the gate, the clock, crashes. |
| `TurnLifecycle` | The abstract promise: a board of turns moved along the status graph, one turn per desk, one place per person. No requests, versions or locks. |
| `TurnQueueProperties` | The properties, and `TurnQueue` as an implementation of `TurnLifecycle`. |
| `TurnQueueProofs`, `TurnRefinementProofs`, `TurnPlaceProofs` | Theorems about turns: what is written about them; the refinement; the places a queue gives out. |
| `Businesses` | One business: its review, its suspension with the turns and sessions it cuts off, reports on it, what the owner edits, who joins its queues meanwhile. |
| `Staff` | EXTENDS `Businesses` and composes it with the employees, invitations and QR codes of that business. |
| `Plans` | An owner's organization: the subscription, the plan's limits on businesses, queues and windows, and their enforcement. |
| `LoginAttempts` | The counters of failed logins in Redis or in memory, as operators. |
| `Accounts` | EXTENDS `LoginAttempts`: one address, its row in `users`, its refresh sessions, the cookies, the mailbox. |
| `BusinessesProperties`, `StaffProperties`, `PlansProperties`, `AccountsProperties` | What must hold of them. |
| `AccountsProofs`, `BusinessesProofs`, `StaffProofs`, `PlansProofs` | Theorems about the other three parts. |
| `MCTurnQueue`, `MCBusinesses`, `MCStaff`, `MCPlans`, `MCAccounts`, the `.cfg` files | Instances for TLC. |

`TurnPlaceProofs` extends `TurnRefinementProofs`, which extends `TurnQueueProofs`, which
extends `TurnQueueProperties`, `TurnQueue` and `TurnDomain` in that order; `TurnLifecycle` is
an INSTANCE inside `TurnQueueProperties`. `StaffProofs` extends `BusinessesProofs`.

### Turns: state

| Variable | Code |
| --- | --- |
| `turns` | table `turns`; `None` where an identifier was not inserted yet |
| `windows` | table `service_windows`: `unborn`, `active`, `inactive`, `deleted` |
| `gate` | per queue, `queues.isActive` with the business's status, operational status and hours as the creation use cases test them: `open`; `afterHours` (staff may enter people, customers may not); `paused` (nobody joins, call-next works); `inactive` (neither) |
| `lock` | holder of the row lock on `queues` taken by `createWithNextNumber` |
| `now`, `today` | `Date.now()` against `queueJoinedAt`, and `todayUTC()`; two variables, since only their order within one request matters |
| `req` | per request in flight: where it is (`pc`), the turn and window it is about, and `entity`, the row it will write, made from what it read |

### Turns: actions

Each use case is one `Begin...` action (its first read of the row it is about, with
all guards on what that read returns) and one action per further await. A
request refused by its first read changes nothing and has no step; a later
refusal is a step that answers (`Reply`). The saves are shared:

* `Save` / `SaveRefused`: `saveTurnOrThrowConflict` and `PostgresTurnRepo.save`.
  The compare-and-set on `updatedAt`, both indexes and the foreign key must
  admit the write; the columns written are those of the `updateMany`.
* `LockQueue`, `CountIssued`, `Insert` / `InsertRefused`: the transaction of
  `createWithNextNumber`. The lock is held from the `SELECT ... FOR UPDATE` to the
  commit or the rollback.
* `SaveWindow` is an upsert, so it also recreates a row deleted meanwhile;
  `DeleteWindow` clears `serviceWindowId` and leaves `updatedAt` as it was.
* `Abort`: a request dies between two awaits; its transaction is rolled back.

### Turns: abstractions

* `updatedAt` is a counter per row: each save gives a new version. Its real
  resolution is a millisecond, so two saves within one leave the
  version as it was; that outcome is not modelled (hazard at
  `PostgresTurnRepo.ts:355`).
* Audit dates are the set of columns filled in, not their values.
* The gate is one state per queue and changes at any time; which use case changes
  it is in `Businesses` and `Plans`. It is read in one step with the other first reads of a request; `CreateGuestTurn`, which
  counts the guests in between, reads it twice.
* Membership, ownership of the queue, token and input validation are left out: they
  refuse a request before it does anything. `source = "qr"` is in the schema, and no
  use case creates it.
* The reading of the subscription is merged into `BelowPlanLimit`.
* An insert blocked by another transaction's uncommitted index entry waits
  for it; insert and commit are one step here, so there is nothing to wait for.
* The emitter is left out: it runs after the save and keeps no state.

### The whole-row saves

The other three modules share one shape. A use case reads a row, decides, and
saves **every column** of it from what it read; nothing compares versions. Two
overlapping requests therefore lose one of the writes, and a promise about such a
row cannot hold without a condition. A history variable says when that has happened
(`clobbered`, `overwritten`, `overlapped`: a save wrote over a row, or was decided
by a count, other than the one the request had read), and the promises are stated
for behaviours in which it has not, for that row. What is left is not
sequential: every other table, transaction, index, crash, late cookie and lost
answer still interleaves. What the condition excludes is named in section 4.

A request is used once, and what it creates or writes (a session, a turn, a token, a
version) is named after it; `Seed` names what was there before. A request
refused by its first read changes nothing and has no step, except the failed login.

### Businesses and staff

| Variable | Code |
| --- | --- |
| `business` | the row of `businesses`: status, operational status, who suspended and reactivated it, and the profile as the request that wrote it |
| `turns` | the turns of its queues: status, and who wrote each one last, for `updatedAt` |
| `employees`, `sessions` | active rows of `business_employees`; refresh sessions of the owner and the staff that are not revoked |
| `report` | the row of a report on the business |
| `hours` | the requests whose opening hours are stored |
| `queues`, `subscription`, `ownerApproved` | what an approval writes besides the business |
| `lock` | the request whose transaction has written the row of the business |
| `req` | per request: where it is, the rows it read and will write, the turns it has still to read (`left`), to cancel (`copies`, with the attempts made) and has cancelled |
| `invitations`, `over`, `mailed` | `business_employee_invitations`: status, whose week has passed, whose link arrived |
| `role`, `qrCodes`, `jobs` | the role of the invited person's account; `business_qr_codes`; the requests of `Staff` |

* **Suspension** is `BeginSuspend` (or `FindApproved`, inside `SuspendReported`),
  `ListTurns`, one `CopyTurn` for each listed turn, which does not look at the status
  again, `Hold` (the transaction opens), one `CancelTurn` for each copy (cancelled;
  closed meanwhile; read again; or given up, which rolls everything back),
  `CommitSuspension`. Until the commit nobody else sees its writes; others who write
  the same rows wait for it.
* **Approval** is `BeginApprove`, `CheckApproval` (which may close a trial that has
  run out) and `CommitApproval`, one transaction over five tables.
* **Reports** reach `SaveVerdict` with the report they read first; a refused
  suspension is tolerated if the business is suspended by then (`Tolerate`).
* **Owner**: `BeginProfile`, `BeginOperational` and `SaveBusiness`; `DeleteHours` and
  `InsertHours` are the two statements of one transaction, which removes the rows it
  can see. **Visitors**: `BeginJoin`, `InsertTurn`, `MoveTurn`, `LogIn`.
* **Staff**: an acceptance is `BeginAccept`, `FindAccount`, `SaveAccount`,
  `SaveEmployee`, `SettleInvitation`, five awaits without a transaction; an invitation
  that has run out is marked by whoever tries to use it.
  `RetireCodes` and `InsertCode` are the two calls of a regeneration.
* `Abort` and `AbortJob` end a request at any await.

Abstractions: opening hours, alerts of the review, names and addresses are not
represented; the reads that open a suspension are merged, except the list of
turns and the copy of each. The second queue two concurrent approvals create
is in the model (it needs one of them to overwrite the other's row); so
are the two sets of hours of two concurrent replacements. `business.closed` has no
subscriber and is left out. Someone who becomes an employee after the suspension
listed the people keeps a session, as in the code.

### Plans

| Variable | Code |
| --- | --- |
| `organization`, `subscription` | the rows of the owner's organization and of its subscription |
| `trialOver` | `trialEndsAt` has passed |
| `businesses` | status and organization of each |
| `queues` | the queues of one business, oldest first, with their windows and which are active |
| `req` | per request: the subscription it read (`row`), the usage it counted (`seen`), what it will save, what enforcement has still to switch off (`keep`, `drop`) |

* Whoever needs the plan reads it (`ReadPlan`) and, if the trial is over, closes it
  first (`SaveLapse`), from the row it read. `Decide` is what each `Ensure...Allowed`
  then does: save, refuse, or, for a queue or a window without a plan, enforce first
  (`resolveActivePlanOrEnforceLapsed.ts`) and refuse.
* Enforcement is `ListQueues`, `DropQueue` one by one, `ListWindows` and `TrimWindow`
  for each queue that stays. A cancellation runs it after its save, and again
  when it is repeated (`BeginCancelAgain`).
* `BeginRegister`, `CreateOrganization`, `CountUsage`, `SaveBusiness`; `BeginApprove`,
  the reading of the plan, `FindQueue` and `CommitApproval`; `BeginReject` and
  `SaveRejection`; the two saves of `CreateQueue` are `SaveNew` twice.
* A change of plan counts the businesses (`BeginChangePlan`), then the queues
  (`CountQueues`), then the windows of the queues it found (`CountWindows`), and
  reads the subscription after all of them (`CheckUsage`).

Abstractions: the geocoder, slugs and queue prefixes (unique by a check only) are left
out; occupancy of a window that is switched off is in `TurnQueue`. The columns of a
review other than the status are in `Businesses`. Two active queues, which no plan
allows, are reached through two concurrent approvals; `Init` starts from there as
well.

### Accounts

| Variable | Code |
| --- | --- |
| `user` | the row of the address in `users`, or none |
| `sessions` | `refresh_sessions`: token hash, previous hash, when it was rotated, created and expires, revoked |
| `cookie` | the refresh token each device holds |
| `tracker` | the counters of failed logins, per client and for the address as a whole |
| `mailed` | the links that reached the mailbox |
| `req` | per request: the token, password or link it presents, the session it works on, the row it read and the one it will save |
| `raced` | history: logins between their read and their session when a block or a reset took effect |

* A login is `BeginLogin`, `FindForLogin`, then `Strike` or `OpenSession` and `Answer`,
  which may be lost. A refresh is `SendCookie` (it may reach the server much later),
  `FindForRefresh`, `ReadOwner`, `Rotate` with its compare-and-set, or `CheckStale` and
  `RevokeSession`.
* A change of the row is a `Begin...`, which fixes what will be written, and `SaveUser`;
  a block commits the row and the revocation together (`CommitBlock`), a reset revokes
  first (`RevokeForReset`). What follows a save: `SetUpBusiness`, `SendMail`, which may
  fail after the link was delivered, and then `RestoreLink` or `DeleteUser`.

Abstractions: one address; tokens and passwords are the names of the requests that made
them; access tokens are not stored and not modelled. The check of the absolute age
before a rotation (`RefreshTokenUseCase.ts:57-61`) can only fire when `expiresAt` has
passed as well, so it is merged with that. No code rejects an account, and no code
calls `deleteExpired`. A Google login of a user without a stored Google identifier
saves it; that save is left out. Registering a business with an account creates the
business, which is one step here that may fail (`SetUpBusiness`).

### How the parts meet

* `TurnQueue` sees the business and its queue as `gate`, and the plan's limit as a number;
  `Businesses` and `Plans` say how they change.
* `Businesses` sees a turn as its status and its version, `TurnQueue` as its row;
  the cancellation inside a suspension is one more writer that respects the
  compare-and-set `TurnQueue` is proved from, with one more edge of the status graph
  (a redirected turn is cancelled).
* `Businesses` approves against one subscription, `Plans` counts the
  businesses approved.
* `Staff` is the composition of its own requests with all of `Businesses`: they share
  `employees`, `sessions`, `business` and the rows a suspension holds.
* `Accounts` has the sessions in full, `Businesses` which ones are open.

## 3. Runs

| Run | Instance | Shows |
| --- | --- | --- |
| `JoinQueue` | 3 turns, 2 requests, 1 customer, no windows, a reservation one tick away, two days | `OneTurnPerCustomer`, `NumbersDense`, `PositionIsCallOrder`, `GuestOvershootBounded`, `NoEarlyCall` |
| `ServeQueue` | 2 turns, 2 requests, 2 windows, every operation on a turn | `OneTurnPerWindow`, `AuditTrail`, `DecisionsAreCurrent`, `PositionIsCallOrder`, `HistoryKept`, `ImplementsLifecycle` |
| `ConfigureQueue` | 2 turns, 2 requests, 2 windows still to be created, all window operations, crashes | `NoDanglingWindow`, `ImplementsLifecycle` |
| `FinishQueue` | 2 turns, 2 requests, crashes, the gate moving, fairness | `RequestsFinish` |
| `RunBusiness` | 3 requests, owner and 1 employee, every operation of `Businesses` and `Staff` | `SuspensionAllOrNothing`, `SuspendedTurnsRaced`, `LeavesSuspensionByReactivating`, `ReportedOnlyIfSuspended`, `VerdictIsFinal`, `ApprovalComplete`, `HoursOfOneRequest`, `InvitationSettledOnce`, `OneActiveCode` |
| `UsePlans` | 3 requests, every operation of `Plans`, the trial ending at any time | `GrowsWithinPlan`, `EnforcementRestores`, `KeepsActiveQueue`, `ActivationStands`, `OneOrganization` |
| `UseAccounts` | 3 requests, 1 device, 14 kinds of requests, 4 instants | `RedeemedOnce`, `RevokedIsFinal`, `AbsoluteAge`, `BlockedOnlyRaced`, `OldPasswordOnlyRaced`, `FailedRegistrationLeavesNothing`, `StrikeKeepsLock` |
| `TwoCalled`, `WindowInUse`, `GuestCap`, `CompletedTurn`, `ApprovedLater` | the smallest instances of section 4 | violations |

**Bounds.** `RoomForTurn` stops creations when no identifier is left for one;
`MaxNow` and `MaxDay` bound the clock and the calendar; `MaxStamp` stops redirecting
a turn saved that often, the only cycle of the status graph (3 lets a turn be
called, attended and redirected, then attended again); `MaxGuests` is 1 instead
of the constant of `CreateGuestTurnUseCase`, and `MaxActiveWindows` 2 or 1 instead of a
plan's limit, so that both are reached; `Ops` names the operations the clients
of an instance call. Two requests suffice for each race: the guards compare one
write with one other; three turns are needed in `JoinQueue` because order and
numbers are about pairs next to a third. Deadlock is not checked: an instance
stops when its identifiers, clock, saves or requests are used up.

Three requests, each used once, are the bound of the other three runs; each
starts from several states (a registration before its review or a business at work; no
plan, a trial or a paid plan; an unknown, an unverified or a signed-in address), which
stand for the calls before. Three are one race with somebody watching: a
suspension, somebody who joins or completes, and a reactivation; a block, a login and an
unblock; a cancellation, another one after a crash, and an activation. In `RunBusiness`
`MaxCancelAttempts` is 2 (the code has 3), so that two other writers make a
suspension give up. In `UsePlans` the limits are those of the plan grid with the
large ones cut to 2, so that each is reached. In `UseAccounts` the durations keep
the order that matters (a lock no longer than the window that counts, the sliding expiry
shorter than the absolute one, both within `MaxNow`), the attempts are 2 for a client and
3 for the address, and the store is Redis.

**Symmetry.** Turns, requests, customers, windows and devices are interchangeable in
the safety runs (no formula names one); the liveness run uses none.

**Fairness** (`FinishQueue` only). Weak on every step of a request that is under way:
the event loop resumes a request whose database call was answered, and no such step
can be disabled for ever without another of the same request being enabled.
Strong on `LockQueue`: PostgreSQL hands a row lock to its waiters, so a request
before which the lock is free again and again gets it. Nothing is assumed of
clients, of the clock or of crashes.

**Mutants.** For each property of a passing run, `PROJECT.json` names a bug a
change of the code could bring (the index dropped, `FOR UPDATE` forgotten, the update
keyed by id alone, the version not bumped, `CASCADE` for `SET NULL`, a lock kept after
a refusal, a cancellation given up but not rolled back, a report reviewed again, one queue
too many kept, the sliding expiry alone, ...) under which TLC finds the property violated. The mutated operators sit
before the ones they replace and say so.

### The refinement, and what it taught

`ImplementsLifecycle` maps a row to its status, its customer and, while it is being
served, its window. The abstract module has an action `Return` that looks out of
place: a turn whose desk was removed gets it back. Without it the refinement is
false. A turn is attended at a window; a confirmation by its customer reads the
turn; a rename of the window reads the window; the window, found free before,
is deleted and the turn's column cleared without a new version; the rename's upsert
recreates the window; the confirmation's save still passes the compare-and-set
and writes the window back. The index keeps the window from serving two turns all the
while, so the abstract promise holds with `Return` in it.

## 4. Where the sources and the code disagree

* **Two called turns** (`OneCalledPerQueue`). `CallNextUseCase.ts:48` says a called turn
  must be resolved before the queue advances. The check (line 54) and the choice (line
  62) are two reads, and the version protects only the turn chosen: when one
  request saves between the two reads of another, both call.
* **A window deactivated in use** (`WindowsInUseStay`).
  `ToggleServiceWindowUseCase.ts:54` refuses to deactivate a window that is attending;
  its check and its save are two calls and an attend fits in between. Deletion
  has the same gap.
* **The guest cap counts staff's turns** (`OnlyGuestsFillTheCap`).
  `CreateGuestTurnUseCase.ts:20` says manual turns are not counted;
  `countActiveGuestTurnsByQueue` counts every active turn without an account.
* **A completed turn is cancelled** (`CompletedStays`). `SuspendBusinessUseCase.ts:121-123`
  says there is nothing left to cancel in a turn that reached a terminal state. The list
  (line 71) and the copy of each turn (line 73) are two reads, and only a *conflict*
  makes it look at the status: a turn completed between the two is copied as it
  is by then, passes the compare-and-set and becomes cancelled.
* **Two businesses on a plan for one** (`BusinessesWithinPlan`), without any overlap. A
  rejected business does not count against the plan, so another one can be
  registered; the rejected one can then be approved after all, and the approval looks at
  the state of the subscription and not at its limit.

What the conditions of section 2 (*The whole-row saves*) leave out, each reachable in the
models and promised by no line of the sources, or promised only in general:

* a profile or operational save that began before a suspension restores `approved`,
  and a reader of a lapsed trial restores `expired` over an activation;
* two reviewers of a report each save a verdict; an `UpdateOrganization` that began
  before an approval undoes it;
* two creations pass a limit by one, two deactivations leave no queue active;
* an acceptance and a withdrawal of one invitation both succeed;
* a block saved over by a verification or a reset that read the row before.

Reachable and not about a row: a login admitted before a block, or before a reset
with the old password, opens its session after it; of two concurrent regenerations
of a QR code the second fails with the index's own error; a mail that fails leaves
an invitation pending, so the address cannot be invited again before it runs out; a logout
with a token another tab has just rotated answers that it is done and closes nothing
(`LogoutUseCase.ts:29`). In memory, a failed login that was under way when the lock was
set writes the entry without the lock; `StrikeKeepsLock` is about Redis.

## 5. Proofs

Every safety invariant and every action property the passing runs check is also a
theorem, for every value of the constants the assumptions admit: any number of requests,
turns, windows, queues, customers, devices and employees, any plan grid, any durations.

**Assumptions**, all named and evaluated by TLC in the runs:

| Assumption | Says |
| --- | --- |
| `NoneIsNull`, `NoneIsNotARow` (`TurnDomain`), `NoneIsNoEntry` (`TurnQueueProperties`), `NoneIsNoRow` (`Accounts`, `Businesses`, `Plans`) | SQL NULL is none of the values, and a missing row is no row |
| `TurnIdsFinite` (`TurnDomain`), `WorkersAssumption` (`TurnQueue`) | turns, and requests answered at once, are finitely many, and there is a server |
| `InstanceAssumption` (`TurnQueue`) | the constants have their types |
| `StoreAssumption` (`LoginAttempts`) | a lock lasts some time, and no longer than the window that counts (the constants of `loginAttemptTracker.ts`) |
| `AccountsAssumption` (`Accounts`) | at least one attempt, no fewer per address than per client; a sliding expiry no longer than the absolute one |
| `BusinessesAssumption`, `StaffAssumption` | the owner is a user, the candidate is another; a suspension tries at least once |
| `PlansAssumption` | every limit is at least one, and the basic plan has the smallest (`PLAN_LIMITS`) |

The bounds of the model (`MaxNow`, `MaxDay`, `MaxStamp`) are arbitrary numbers in the
theorems, so they limit nothing there. "A request is used once" stays.

### Turns: what is written (`TurnQueueProofs`, `TurnRefinementProofs`)

| Theorem | States |
| --- | --- |
| `Inductive` | the inductive invariant `IInv` |
| `TypeCorrect` | `TypeOK` |
| `AuditTrailHolds` | `AuditTrail` |
| `DecisionsHold` | `DecisionsAreCurrent` |
| `WindowsServeOne` | `OneTurnPerWindow` |
| `CustomersHoldOne` | `OneTurnPerCustomer` |
| `WindowsDoNotDangle` | `NoDanglingWindow` |
| `HistoryIsKept` | `HistoryKept` |
| `LifecycleImplemented` | `ImplementsLifecycle` |

None of these is inductive alone: that a save keeps the audit
trail depends on what the request knows. `IInv` adds to `TypeOK` and `AuditTrail`, for
each request, that what it will write is *good*: a request about to save read some
version of its turn, and if that version is still current then its entity is one
edge of the status graph from the row, with the stamps that edge asks for
(`Decides`, `Follows`); a request that will insert carries a draft that is waiting,
unstamped and without window (`IsDraft`). Another request's step can only
make the version older (`Save`), or clear a window and leave the version
(`DeleteWindow`), and the invariant is stated so that neither breaks it.

All steps are then reduced to four cases for the table of turns (`TurnsStep`):
a draft is inserted, a row is saved from a good entity, a window is detached from
every row, or the table is kept. Each theorem about turns is proved once per case
instead of once per action; the refinement maps the four to `Take`, to the
moves, `Attend`, `Redirect` and `Return`, to `Remove`, and to stuttering.

### Turns: the places a queue gives out (`TurnPlaceProofs`)

| Theorem | States |
| --- | --- |
| `PlacesInductive` | the invariant `IInv /\ PInv` |
| `NumbersAreDense` | `NumbersDense` |
| `NobodyCalledEarly` | `NoEarlyCall` |
| `PositionIsOrder` | `PositionIsCallOrder` |
| `GuestsBounded` | `GuestOvershootBounded` |

`PInv` says what each row and draft promises (`Booked`: it is of today or earlier, only a
reservation without an account joins later than now, whoever was called had joined) and
what a request knows of the tables (`Knows`): between the count and the insert it holds the
queue's lock, and its number is the count of its queue and day plus one; a decision about a row without an account
keeps its priority, and calls only who was due. Two holders of one lock
are impossible, so nobody else inserts between a count and its insert, and the numbers stay
dense, also over a midnight between the two.

The guest cap needs a count instead of a fact about one request: the guests of a queue plus
the requests that were let in and have not inserted yet (`LetIn`) are no more than the cap
plus the other requests (`GuestsAccounted`). A request is let in only while the
guests are fewer than the cap, and at most every request is let in; an insert moves one from
one summand to the other; everything else shrinks the sum.

### Accounts (`AccountsProofs`)

| Theorem | States |
| --- | --- |
| `AccountsInductive` | the invariant `IInv` |
| `AccountsTypeCorrect` | `TypeOK` |
| `AbsoluteAgeHolds` | `AbsoluteAge` |
| `RedeemedOnceHolds` | `RedeemedOnce` |
| `RevokedStaysRevoked` | `RevokedIsFinal` |
| `BlockedHolds` | `BlockedOnlyRaced` |
| `OldPasswordHolds` | `OldPasswordOnlyRaced` |
| `FailedRegistrationHolds` | `FailedRegistrationLeavesNothing` |
| `LocksAreKept` | `StrikeKeepsLock`, when the counters are in Redis |

Three layers, each proved from the ones below. `Inv1` (`RequestsFit`): which use case can be at which
step, and what it carries there (`InPlace`, `Carries`, `OnSession`). `Inv2`: a token is the
hash of at most one session, and of none once it has been redeemed (`TokensSpent`); it exists
only once its request was given it, so the hash a rotation writes is new.
`Inv3`: while a user is blocked, the logins that could still open a session have
raced with the block, like the sessions that are open (`BlockHolds`); a login about to open one has presented the
password in force or has raced (`OpeningKnowsPassword`); and between the two calls of a
reset only raced logins are open (`ResetRevoked`). The steps are reduced to those that
only read and nine kinds of writes; of a session a step can only close it, open
it or rotate it, and of the row of the user keep, create, rewrite or delete it.
`StrikeKeepsLock` is false in memory (section 4), hence the hypothesis.

### Businesses and staff (`BusinessesProofs`, `StaffProofs`)

| Theorem | States, of the composition `PanelSpec` |
| --- | --- |
| `BusinessInductive` | the invariant `BInv`, of `Businesses` on its own |
| `PanelInductive` | `BInv /\ SInv` |
| `BusinessTypeCorrect`, `StaffTypeCorrect` | `TypeOK`, `StaffTypeOK` |
| `SuspensionHolds` | `SuspensionAllOrNothing` |
| `SuspendedTurnsHold` | `SuspendedTurnsRaced` |
| `ReportedHolds` | `ReportedOnlyIfSuspended` |
| `ApprovalHolds` | `ApprovalComplete` |
| `HoursHold` | `HoursOfOneRequest` |
| `LeavingHolds` | `LeavesSuspensionByReactivating` |
| `VerdictHolds` | `VerdictIsFinal` |
| `SettledOnceHolds` | `InvitationSettledOnce` |
| `OneCodeHolds` | `OneActiveCode` |

The proof is compositional. `BusinessesProofs` proves `BInv` for the steps of the business's own requests *and* for
anything somebody else may do (`Outside`: employees come and go, sessions of people other
than the owner are closed). `StaffProofs` shows that every step of `Staff` is such a
step (`PanelSteps`), so that `BInv` carries over and only the invitations and the codes need an
invariant of their own. The heart of `BInv` is what a suspension has still to do: every turn
it listed is closed by now, is still to be read, has a copy to be cancelled with, or is one it has cancelled in
its open transaction (`Accounted`), which holds however the others move
the turns meanwhile and whatever the copies say. The conditions on `clobbered` enter in `RowTells` only.

### Plans (`PlansProofs`)

| Theorem | States |
| --- | --- |
| `PlansInductive` | the invariant `PInv` |
| `PlansTypeCorrect` | `TypeOK` |
| `OneOrganizationHolds` | `OneOrganization` |
| `KeepsActiveHolds` | `KeepsActiveQueue` |
| `EnforcementHolds` | `EnforcementRestores` |
| `ActivationHolds` | `ActivationStands` |
| `GrowthHolds` | `GrowsWithinPlan` |

`PInv1` says what a request has read (`Saw`), what it decided from that (`Decided`: who will
grow something saw room for it in the plan it read, who changes the plan saw the usage fit the new one, who switches a
queue off saw another one active) and that the queues, windows and rows it is about are there
(`Stands`). A save that notes no overlap has read what is still so (`NotesTell`), so its
decision holds when it is written; `GrowsWithinPlan` and `ActivationStands` follow
step by step. The rest is the progress of a cancellation (`Progress`): while it drops,
all active queues are among those it keeps or will drop, and it keeps no more than
the plan allows; later, every active queue but those it has still to look at is within
its windows. As long as the subscription is cancelled the others can only shrink the usage, or
give a queue that has just opened its first window (`CancelledShrinks`), so the progress of
one survives the steps of all; an attempt that failed says nothing, the one that answers says
it all. An activation in between may grow the queues under a cancellation that is still
running, hence the two invariants `OnceCancelled` (nobody activated: every cancellation has come as
far as it says) and `LastCancelled` (the last one has, unless it failed), which are the
two cases of `EnforcementRestores`. `Beyond` keeps at most the limit, and one at
least, by an injection of what stays into `0..n-1` (`BeyondKeeps`).

**Only model-checked**: `RequestsFinish`, since liveness under fairness is out of this prover's
reach. The violations of section 4 are counterexamples and stay with TLC.

## 6. Not modelled, and the plan

Left out, and why:

* **Wait estimate, metrics, platform metrics**: averages over closed turns, for
  display; no decision reads them. The other reads are projections.
* **Opening hours and availability**: which hours are sensible and whether a business
  is open now are functions of strings and dates; their result is `afterHours` in the
  gate.
* **A report on a user**: its suspension is the blocking of `Accounts`, tolerated when the
  user is blocked already, and then the same `SaveVerdict`.
* **Which store counts a failed login** is fixed in an instance: a Redis that
  comes and goes splits the counters, and nothing is promised then. The rate
  limits of the routes are counters of a library.
* **Resolving a QR code**: a read, with the end of a retiring code's validity.
* **The millisecond of `updatedAt`** and **attending through another queue's window**: see
  the hazards.
* The HTTP layer, e-mail, geocoding and sign-in services, logging, the realtime
  broadcast (no state), one-off scripts. That a mail fails or a geocoder is slow is
  modelled where it is called.

Next:

1. An abstract specification of what `Accounts` promises of its sessions (opened, renewed,
   closed; a closed one stays so, a token is redeemed once), with `Accounts` shown to implement
   it by a refinement mapping, as `TurnQueue` implements `TurnLifecycle`.
2. The same for a suspension: `Businesses` against one atomic step that closes turns and sessions.

## 7. Running

    tlc -workers 2 -config JoinQueue.cfg MCTurnQueue.tla
    tlc -workers 2 -config RunBusiness.cfg MCStaff.tla
    tlc -workers 2 -config UsePlans.cfg MCPlans.tla
    tlc -workers 2 -config UseAccounts.cfg MCAccounts.tla
    tlapm TurnQueueProofs.tla
    tlapm TurnRefinementProofs.tla
    tlapm TurnPlaceProofs.tla
    tlapm AccountsProofs.tla
    tlapm BusinessesProofs.tla
    tlapm StaffProofs.tla
    tlapm PlansProofs.tla

`PROJECT.json` says which module each configuration is for. The passing runs take from half a minute to three minutes with two workers.
