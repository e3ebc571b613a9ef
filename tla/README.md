# UniRide backend: specifications and proofs

TLA+ modules that model the UniRide v2 backend (NestJS, Prisma on PostgreSQL,
BullMQ on Redis, Socket.IO), the TLC configurations that check them on small
instances, and proofs that TLAPS checks for every instance. Paths are relative to
the root of the repository.

## How the system runs

Every HTTP handler is an async method of a service. It reads rows through a
repository, throws if a guard fails, and awaits database and queue calls one
after another. The calls are not wrapped in a transaction, except the writes of
`acceptRequestTx` and `verifyRider` (and a page is read together with its count),
and no write is conditional on what was read: an update names a row by primary key
and sets the columns of its object. Between two awaits every other handler, job and
socket event may run. Background work goes through BullMQ queues whose processors
live in the same process; jobs are tried once, and a job that was running when the
process died is handed out again (`maxStalledCount`, default 1).

So the hard part of this code is not any single function. It is what a handler
may still rely on when it writes, after others have written.

## Inventory

| Component | State | Operations | Interacts with | What makes it correct | Modelled in |
|---|---|---|---|---|---|
| Rides (`src/modules/rides`) | `rides`, `ride_requests` | create, update, cancel, request, respond, start, confirm; search and lists | notifications (call), queues `ride-expiry`, `ride-completion` | a ride has one driver and one passenger, moves SEARCHING → MATCHED → IN_PROGRESS → COMPLETED, is completed by both sides only; a search shows open rides only, and who is matched finds the ride | `Rides`, `RideViews` |
| Ride expiry (`src/jobs/processors/ride-expiry.processor.ts`) | queue `ride-expiry` | one job per ride | writes `rides` | an unmatched ride expires at its departure | `Rides` |
| Settlement (`ride-completion.processor.ts`) | `payments`, `user_stats` | one job per completed ride | reads `rides`, feeds `trust-score` | one payment per ride, nothing settled is lost, the books balance | `Settlement` |
| Payments (`src/modules/payments`) | `payments` (reads) | lists, earnings | settlement | what a driver is shown as earned is what was paid | `Settlement` |
| Trust score (`trust-score.processor.ts`) | `user_stats.trustScore` | one job per change of statistics | reads and writes `user_stats` | the score follows from the statistics and stays in 0..100 | `TrustScore`, `Settlement` |
| Ratings (`src/modules/ratings`) | `ratings`, `user_stats` | submit; lists | reads `rides`, notifications, `trust-score` | one rating per side, hidden until both have rated, the average is that of the revealed ratings | `Ratings` |
| Notifications (`src/modules/notifications`, `notification.processor.ts`) | `notifications`, `user_devices`, queue `notifications` | send, list, mark read, delete; push job | Firebase | what is pushed is marked, pushed once per attempt, and never after it was deleted | `Notifications` |
| Pagination (`src/shared/utils/pagination.util.ts`) | none | page, limit, skip, number of pages | every list | each row is on one page | `Paging` |
| Authentication (`src/modules/auth`) | `users`, `otp_verifications`, `refresh_tokens` | register, verify, login, refresh, logout, forgot and reset password | e-mail, cleanup, suspension | an address is verified by a code sent for it, guesses are limited, an exchanged token is dead, a reset ends old sessions | `Auth` |
| Cleanup (`src/jobs/cleanup.service.ts`) | `otp_verifications`, `refresh_tokens` | hourly purge | auth | handlers that hold a purged row stop | `Auth` |
| Users (`src/modules/users`) | `users`, `rider_profiles` | profile, delete account, apply as rider | admin | one application; a decided one is not reset | `Accounts` |
| Admin (`src/modules/admin`) | `users`, `rider_profiles`, `reports`, `audit_logs` | suspend, verify rider, resolve report; dashboard and lists | users, reports, notifications | role RIDER exactly with an approved profile; every action audited; figures agree with lists | `Accounts`, `RideViews` |
| Reports (`src/modules/reports`) | `reports` | submit, own reports | admin | a closed report stays closed | `Accounts` |
| Chat and gateway (`src/modules/chat`, `src/gateways`) | `ride_messages`, socket maps | connect, send, history | reads `rides` | only matched parties talk, the pages are the conversation | `Chat` |
| Matching (`src/modules/matching`) | none, no caller | score | | bounded, nearer is never worse | `Matching` |
| E-mail, Firebase | none | send | auth, notifications | never throw | as their callers rely on them |
| Uploads, health, configuration, guards, filters | none | pure I/O | | | not modelled |

## Plan

| # | Modules | Composes | State |
|---|---|---|---|
| 1 | `RideRules`, `Rides`, `RideLifecycle` and `RideCompletion` (abstract), `RidesInvariant`, `RidesProofs`, `RideViews` | rides + expiry worker + lists | checked and proved, both refinements included |
| 2 | `TrustScore`, `Settlement`, `SettlementProofs` | `RideCompletion` + completion worker + trust-score worker + earnings | checked and proved |
| 3 | `Ratings`, `RatingsProofs` | `Settlement` + ratings | checked and proved |
| 4 | `Paging`, `Notifications`, `NotificationsProofs` | service + push worker + devices | checked and proved |
| 5 | `Auth`, `AuthProofs` | auth + cleanup + suspension and deletion | checked and proved |
| 6 | `Accounts`, `AccountsProofs` | users + admin + reports + roles in tokens | checked and proved |
| 7 | `Chat`, `ChatProofs` | `Rides` + sockets + messages | checked and proved |
| 8 | `Matching` | `TrustScore` | proved, in `RatingsProofs` |
| 9 | `Counting` | division, counts, sums, ordered lists and their pages, which the proofs rest on | proved |

The order is that of importance: the ride first, then what a completed ride sets
off, then the services around it. Everything is written to be proved about: no
RECURSIVE operator, constants with named assumptions, one action per await.

## How the modules correspond to the code

**One action per await.** A handler occupies a call slot (`call[c]`), whose record
says which step comes next and what the handler remembers: ids, the decision
`bothConfirmed`, whom to notify. The first action is the read with the guards on
the row that was read; a call that fails its guards changes nothing and is left
out. Every later action is one write, queue call or notification, and works from
what is remembered, not from the row. Two calls that follow each other without a
state anybody could tell apart are one action; where that is done, a comment
says why. A Prisma transaction is one action: PostgreSQL may abort it, which is
`Abort`.

**Rows.** A table is a function from ids to records, with a value for "no row".
Columns that decide nothing (addresses, seats, texts, tags) are left out. An
UPDATE by primary key sets the columns of its object on the row as it is now.

**Queues.** A job is waiting, active, done (or skipped, on an early return) or
failed. BullMQ is external: the modules take from its documentation, as this code
configures it, that a job is tried once, that a delayed job does not run early,
and that a job whose process died is handed out again `MaxStalls` times.

### RideRules, Rides

| TLA+ | Code |
|---|---|
| `on[side]` | `riderId`, `passengerId` |
| `confirmed`, `stamps` | `riderConfirmed`, `passengerConfirmed`; `startedAt`, `completedAt`, `cancelledAt` not null |
| `request[r][u]` | the `ride_requests` row of the unique key (ride, user) |
| `MayPost` … `MayConfirm` | the guards of the seven handlers on the row and the caller |
| `Posted` … `Expired`, `Settled` | what their writes leave |
| `CreateRide`, `EnqueueExpiry`; `UpdateRide`, `WriteUpdate`; `CancelRide`, `WriteCancel`; `RequestRide`, `CreateRequest`; `RespondToRequest`, `ReadRequest`, `AcceptTx`, `WriteDecline`; `StartRide`, `WriteStart`; `ConfirmRide`, `WriteConfirm`, `EnqueueCompletion`; `Notify` | the handlers, await by await |
| `TakeExpiryJob`, `WriteExpiry` | `RideExpiryProcessor.process` |
| `Abort`, `JobFails`, `Crash`, `Tick` | a rejected call, a failed job, the death of the process, time |

`TokenRoles` gives each user the roles of the access tokens that are still valid
for them: guards use the role in the token, which may be older than the one in
the table.

`Overlap = TRUE` is the server as it is. `Overlap = FALSE` restricts the same
actions to one handler or job per ride at a time. It is not a claim about the
code; it separates two questions. Are the guards and writes of each handler the
right ones? (`RideLifecycle` is implemented, and failures half-way do not change
that.) And what is left of that when handlers overlap? (The invariants of
`rides_overlap`, which are proved. The properties of `rides_serial` do not hold
there: in `confirm_race` two confirmations overlap and complete nothing.)

### TrustScore, Settlement, Ratings

`TrustScore` holds the `user_stats` row, the formula and the writes. An average
and a count from one aggregate are kept as count and sum, so that the average is
exact. The code computes in doubles; where the exact bonus ends in one half the
double may fall on the other side, by one point.

`Settlement` has per server one completion worker (`settler`) and one trust-score
worker (`scorer`), each with one job at a time, BullMQ's default concurrency. What
becomes of a ride is `RideCompletion`, three actions: the second
confirmation, the completion job after it, and a stale write of another status.
With `Overlap = TRUE` there may be up to `MaxJobs` completion jobs for a ride.

**How Rides and Settlement fit together.** `RideCompletion` is what `Settlement` extends
and, at the same time, an abstract specification that `Rides` implements: status and
jobs of a ride are read off its row and its count of jobs (`CompletionStatus`, `Added`), and
`MaxJobs` is the number of call slots, or 1 if handlers do not overlap (`MostJobs`). TLC
checks this in `rides_overlap`; `ServiceFeedsSettlement` proves it for any number of
handlers. The parties of a ride are constants of `Settlement`, because a completed ride has both
(`MatchedHasBothSides`) and no step exchanges one while the ride stays completed
(`CompletedRidesKeepTheirParties`): a stale accept that replaces one of them
takes the status away from COMPLETED, so that the workers and `submitRating`,
which act on one read of the row, never see a mixture.

The payment endpoints do not ask for the status, so they are modelled for every driver and
passenger the row may name by then (`Seatings`): once the status is overwritten, an accept
that was held over the completion, one handler beside one other at any time, has perhaps
exchanged a party. A settled REQUEST then shows its fare to the second driver and no longer to
the first, and the party that was replaced gets 403 from `GET /payments/ride/:rideId`. So `BooksBalance`
promises the parties their view as long as nothing overwrites the completed ride, and
beyond that only that payments are of completed rides and that both sides of the
books add up to the same.

Two things the constants leave out: with three handlers, a stale accept and a stale start between
two completing confirmations, a ride is completed a second time with another counterpart, and its
second job reads that one; in the same way a stale edit may change the fare between two jobs. `Known` are the users with
a `user_stats` row from earlier rides; `register` inserts none.

`Ratings` extends `Settlement` with `submitRating` and composes the two: its `Next`
is a step of the settlement, a step of a rating, or the death of a server, which
hits the handlers and the workers of that server together. Ratings overlap in every
run; `Failures = FALSE` asks what holds as long as nothing throws or dies.

### RideViews

`SearchRides`, `MyRides`, `RideRequests`, `AllRides` and `ActiveRides` are the
queries of `searchRides`, `findMyRidesAndCount`, `getRideRequests` and the
administrators' lists, as sets over the state of module Rides. The columns that
module leaves out only narrow a search, so a search is over some set `near` of rides
that pass them. `searchRides` does not read `ride_requests` and does not mirror `requestRide`:
a user goes on finding a ride he has asked for already (`rides.service.ts:281`), and an
administrator finds OFFERs that no administrator may ask for (109 against 272). What a search does
promise is `SearchShowsOpenRides`: with many stale writes about, the status alone keeps
rides out that were ever matched, started, confirmed or cancelled.

### Paging, Notifications

`Paging` is `pagination.util.ts`, with the arithmetic of skip, limit and the number
of pages; `Listed` is ORDER BY: the rows of a set, each once, in the order of the query. `Notifications` has the rows, the push job of each, users' devices, the
handlers (`Send`, `Enqueue`; `FindOne`, `MarkRead`, `DeleteOne`; `MarkAllRead`) and
the worker, await by await: `TakePushJob` marks the row, `FindDevices`, `Multicast`,
`FinishJob`. A worker may die between any two of these, also after the push and
before BullMQ knows that the job is done. `sendMulticast` sends or not and never
throws. `feed` and badge are operators over the rows.

### Auth

| TLA+ | Code |
|---|---|
| `account[u].standing` | no row, or `isSuspended` and `deletedAt`; deleted hides suspended, which no check tells apart |
| `otp[i].life` | no row, `expiresAt` ahead or past, purged |
| `otp[i].used` | `isUsed`, counted |
| `token[t].life` | `dead` is revoked or expired, which every lookup treats alike |
| `token[t].parent`, `old`; `account[u].mailed`, `cut` | history |
| `Register`, `CreateUser`, `ReRegister`, `CreateOtp`, `SendMail`; `VerifyEmail`, `ResetPassword`, `ValidateOtp`, `IncrementOtpAttempts`, `MarkOtpUsed`, `SetVerified`, `WritePassword`, `RevokeAll`; `Login`, `RefreshTokens`, `Logout`, `Revoke`, `RereadUser`, `IssueTokens` | the handlers, await by await |
| `CleanExpiredOtps`, `CleanStaleRefreshTokens` | `CleanupService` |
| `SuspendUser`, `DeleteMe` | the writes of admin and users that auth reads |

Rows are numbered in the order of their inserts. All rows of a table live equally
long, so they expire in that order (`OtpExpires`, `TokenExpires`). A purged row is
cleared, and an update of it throws.

### Accounts, Counting

`Accounts` is what users, administrators and reporters do to users, profiles,
reports and the audit log. `badges[u]` are the roles in `u`'s valid access tokens: a
handler is let in by these, and the row may say otherwise by then. A token is issued from a
row that was read some awaits earlier (`auth.service.ts:123`, `:162` against 261), so `IssueTokens`
signs any role the row has had (`held`), also for a user suspended since. `verifyRider`
writes profile and role in one transaction, then the audit row, then the
notification; each may be lost with the handler. `told`, `decided`, `lost`, `held` and
`approved` are history. `audits` counts the rows about a user, whether of a suspension or of a verification. `Counting` holds the facts about division, about how a number of handlers
changes when one of them moves, about sums over finite sets, and about ordered lists and
their pages that the proofs of several components need.

### Chat

`Chat` extends `Rides`: its `ChatNext` is a step of a ride's handlers and workers, a
step of a socket, or the death of the server with the sockets and the handlers in it.
`send:message` reads the ride, inserts the row and emits it, in three awaits; what
the ride became in between is not looked at. `PageOfMessages` is `getMessages`:
the newest page first, each page turned round.

### Matching

`MatchingService.score` over whole kilometres and hundredths of points, for the
statistics of `TrustScore`. Nothing calls it yet. `Matching` and `Paging` only define;
what is proved of them is in `RatingsProofs`, beside the statistics they are computed
from, and in `ChatProofs`.

## Runs

| Run | Instance | What it shows |
|---|---|---|
| `rides_overlap` | 1 ride, 1 driver, 2 passengers, 2 calls, clock to 1, crashes | the safety invariants that survive overlapping; no search shows a ride again that was ever matched; the inductive invariant; settlement gets what it counts on |
| `rides_serial` | 1 ride, 3 users, 1 call, clock to 2, crashes | the lifecycle is implemented (so both confirmations complete a ride), requests are settled, the matched find their ride, every active ride can be brought to an end |
| `rides_expiry` | 1 ride, 2 users, 1 call, clock to 2, fair | the expiry job does its work in spite of restarts |
| `settlement` | 1 ride, 3 users, 2 jobs, 1 server, failures and crashes, fair | nothing settled is lost or invented, each attempt counts once at most, one payment, every job ends |
| `ratings_overlap` | 1 ride, 2 calls, 2 scores, no failures | the later rating reveals both; averages are those of the lists; no trust score is left behind |
| `ratings_faults` | 1 ride, 2 calls, failures and crashes, no statistics at first | reveal is mutual; a rating stands as it was told |
| `notifications` | 2 users, 2 notifications, 1 device, 2 calls, 1 worker, 1 stall, fair | marks and pushes agree, a push for each attempt, silence after deletion, feed and badge agree, every push job ends |
| `auth` | 1 user, 2 codes, 2 tokens, 2 calls, 1 attempt | guesses are bounded, verification takes a code, exchange and reset end sessions |
| `accounts` | an administrator, a passenger, 1 report, 2 calls, 2 decisions | role follows profile, no rider's token without an approval, the audit is complete, dashboard and lists agree, decisions stand |
| `chat` | 1 ride, 3 users, 1 call, 1 socket, 2 messages, crashes | only matched parties talk, what is heard is stored, the pages are the conversation |
| `confirm_race`, `reveal_lost` | the least that shows it | the documentation says one thing, the code does another: see below |

**Bounds.** One ride is enough for module Rides: no action reads or writes another
ride, and no property relates two. Two calls are the least that can overlap, and
every race found needs two; three add states, not kinds of conflict, and the
invariants are proved for any number. Two passengers are needed for two accepts to
compete. The clock needs one tick to reach a departure and two for an edit to move
it. `MaxStalls` is 1, BullMQ's default, where stalls matter. Two completion jobs
are what two overlapping confirmations add; the third user is whom a late accept may seat. Two scores are enough for a rating to be
mistaken for another. `AverageIsOfTheList` is checked for the ride both parties
rate; with two rides of one user the instance is too large, an older average
may win there (below), and the property, which allows for that, is proved.
Two notifications give a list two pages at limit 1; two users let a notification
belong to another than the caller. Two codes of one user are an older and a newer, or one of
each purpose; two tokens are one exchange; a code that locks at the first wrong guess is
passed by the second of two handlers, and the bound is proved for any limit. One
administrator with two handlers is as much as two administrators: no guard asks who
the administrator is. Two decisions are the least that can contradict each other.
In `chat` one call and one socket overlap with each other and the expiry worker,
and two messages make two pages. Symmetry is used for calls and for passengers or rides
that are interchangeable, never in a run with a liveness property.

Type invariants are theorems. TLC checks the two that say more than types:
`RatingsTypeOK` (no rating writes statistics for a user who has none) and `ChatTypeOK`
(a room hears a stored message once or not at all).

`CHECK_DEADLOCK FALSE`: instances have finitely many rows, jobs and ticks, so
every behaviour may come to rest; that is not a deadlock of the server.

**Fairness.** `Fairness` of Rides: the clock ticks and the worker takes and
finishes due jobs, since BullMQ polls for ever. `FairSpec` adds that a handler that
began goes on, since the event loop drops no continuation. `SettlementFairness` and
`FairSpec` of Notifications say of their workers what `Fairness` says of the expiry
worker. No client is fair: nobody has to call anything.
Crashes need no bound of their own, because a job stalls at most `MaxStalls` times.

## What the documentation says and the code does not do

Two have a violation run with the shortest behaviour TLC finds.

| Run | Behaviour |
|---|---|
| `confirm_race` | driver and passenger confirm between each other's read and write; both flags are set, nobody saw both, the ride stays IN_PROGRESS and no further confirm is accepted |
| `reveal_lost` | a failure after the INSERT leaves two ratings hidden; a retry is refused |

Met while modelling and not given a run of their own:

Rides

- Two accepts read SEARCHING; the second replaces the counterpart of the first
  (`rides.repository.ts:142`; `docs/role-based-matching-plan.md:41`), even after the ride was
  settled, when its fare moves with it (`payments.repository.ts:41`).
- The expiry worker reads SEARCHING, an accept commits, the worker writes EXPIRED over
  the match (`BACKEND_SPEC.md:284`). In the same way a start is written over a
  cancellation (`rides.service.ts:379`). An expired ride may still be cancelled.
- An edit moves the departure, the expiry job keeps its old time
  (`rides.service.ts:219`); the ride expires early.
- `expiresAt` of a request is written and never read (`rides.service.ts:287`), and a
  ride one side never confirms stays in progress (`rides.service.ts:406`).
- The API says the creator starts a ride (`rides.controller.ts:140`); the code asks
  for the driver, who for a REQUEST is not the creator.
- `BACKEND_SPEC.md:286` promises auto-completion two hours after the start; the only
  job on that queue is added by the second confirmation.
- Cancelling updates no statistics (`BACKEND_SPEC.md:369`).

Settlement and ratings

- A completion job that is repeated after a crash counts its ride twice; so do two
  jobs of one ride (`BACKEND_SPEC.md:113`). `CountedOncePerAttempt` is what holds.
- With several rides an older average may be written after a newer one.
- `BACKEND_SPEC.md:349` has register create `UserStats`; the row is first inserted by
  settlement. Parties who rate before that have their averages rejected by
  `userStats.update`, and the row inserted later starts from zero ratings.
- Ratings are blind (`BACKEND_SPEC.md:120`), yet RATING_RECEIVED names the stars at once
  (`ratings.service.ts:86`).
- The trust score formula of `BACKEND_SPEC.md:375` is another one than the code's.
- An unrated rider with statistics ranks below one without (`NewcomersRankHigher`).

Authentication and accounts

- The five attempts on a code (`BACKEND_SPEC.md:116`, `:355`) are passed by guesses in
  parallel, one for each handler; `GuessesAreBounded` is what holds.
- Once the newest code is used, an older unused one is the latest again.
- One refresh token is exchanged twice by two requests at once, and its reuse is not
  noticed (`BACKEND_SPEC.md:276`, `:320`). A session issued by a login or refresh that
  overlaps a password reset outlives it.
- `verifyEmail` issues tokens without looking at the suspension. `deleteMe` revokes no
  tokens, and access tokens outlive suspension and deletion until they expire.
- A second registration read before the verification writes its password after it.
- `verifyRider` sets the role of whoever has the profile, an administrator's too.
  `users.controller.ts:74` says creating a profile promotes the role; approval does.
  A report is never UNDER_REVIEW.
- `BACKEND_SPEC.md:124` has all administrators' actions logged; the row may be lost with
  the handler, and its "before" is what was read before the write.

Chat

- A message may be stored on a ride that has ended since its check. Rows are never
  deleted (`BACKEND_SPEC.md:118` has a week): `deleteOldMessages` has no caller.

## What is proved

For all sets of users, rides, reports, sockets and call slots and all values of the
bounds. The assumptions are the named ones of each module: the constants have their
types, `NoUser` is nobody, and what is counted or summed over is finite (call slots,
which `CompletionsAreCounted` and `ServiceFeedsSettlement` take as a hypothesis of their own;
in Settlement also users, rides and servers).

| Module | Theorems |
|---|---|
| `RidesProofs` | any `Overlap`: `InductiveInvariant`, `RecordsOnlyGrow`, `TypeCorrect`, `MatchedRidesHaveBothSides`, `SidesHaveTheRightRole`, `AcceptedUsersHadAsked`, `CompletionIsMutual`, `SearchesShowOpenRides`, `CompletionsAreCounted`, `ServiceFeedsSettlement`, `CompletedRidesKeepTheirParties`; serial: `SerialInvariant`, `MatchesSettleRequests`, `BothConfirmedIsCompleted`, `MatchedUsersFindTheirRide`, `ActiveRidesEnd`, `ServiceImplementsLifecycle` |
| `SettlementProofs` | `WorkersInvariant`, `SettlementTypeCorrect`, `NothingSettledIsLost`, `NothingIsCountedTwicePerAttempt`; one server: `OneServerPaysOnce`, `OneServerBooksBalance` |
| `RatingsProofs` | `RatingsInvariant`, `RatingsTypeCorrect`, `ToldRatingsStand`, `RevealIsBlind`, `AveragesAreOfTheList`, `StoredScoresStayInBounds`; no failures: `NoRevealIsMissed`, `TrustScoresFollow`; formulas: `ScoreStaysInBounds`, `RidesNeverHurt`, `MatchScoreStaysInBounds`, `NearerIsNeverWorse`, `NewcomersRankHigher` |
| `NotificationsProofs` | `NotificationsTyped`, `PushesAreMarked`, `PushesAreCounted`, `DeletedSilence`, `FeedsAreConsistent` |
| `AuthProofs` | `AuthTyped`, `VerifiedTookACode`, `ParentsAreRevoked`, `OldSessionsEnd`, `GuessesAreLimited` |
| `AccountsProofs` | `AccountsInvariant`, `AccountsTyped`, `RolesAreGranted`, `RidersWereReviewed`, `DecisionsAreLogged`, `DashboardsAgree`, `DecisionsStand` |
| `ChatProofs` | `ChatLeavesRidesAlone`, `ChatInvariant`, `MessagesAreHeardOnce`, `OnlyPartiesTalk`, `StoriesAreTold`; pages: `PagesMakeUpTheList` |

**Hypotheses.** Five kinds of theorem assume something of the constants, each because
the code does fail without it:

| Hypothesis | Where | Without it |
|---|---|---|
| `~Overlap` | the serial properties and the refinement of `RideLifecycle` | handlers write over each other's statuses; `confirm_race` |
| one server | one payment per ride, the books | two workers find no payment and both insert one: `findFirst` and `create` are two awaits, and `rideId` is not unique |
| `~Failures` | both ratings are revealed | `reveal_lost` |
| one server, `~Failures`, all parties in `Known` | trust scores follow the statistics | two workers write scores in the wrong order; a handler that stops adds no job; `userStats.update` throws for a user without a row |
| ratings between one and five stars on average | the two formulas | no such row is ever stored: `StoredScoresStayInBounds`, whatever fails |

**The argument for rides.** None of the invariants is inductive: what a handler will
write depends on what it read, and statuses do not stay as read. What does stay
is the content of `Grows`: a row exists for ever, keeps type and creator, keeps a
taken side taken (by whomever), keeps its stamps and confirmations; and an
answered request stays answered. That no step takes any of this back is
`RecordsOnlyGrow`. `Inductive` therefore says what each handler in
flight relies on (`CallOK`) in these terms only: the write of a start relies on
the side being taken, the write that completes a ride on the other side's
confirmation, the notification of an acceptance on the request being answered.
`CallStaysOK` shows that what other calls rely on survives every step, and the rest is
one case per action. `SearchesShowOpenRides` adds the status:
a row that says SEARCHING was never written but by its creator's edits (`OpenOK`), and an edit
writes the schedule only.

**The serial argument.** With one handler or job at a time on each ride, nothing is
written between a handler's read and its write, failures included: `Fresh` says what
each handler read and still holds, status, request and confirmations. So guards
carry over to writes, a row and its requests fit each other at every await
(`Settles`), and each step of a handler or of the expiry worker is a step of `RideLifecycle` or
changes none of its four columns. The step that has no counterpart there, an abort,
writes nothing.

**The argument for what settlement gets.** That nothing is added before the ride was
completed, and that it never looks as if it had not been, follow from the stamp: the write
that completes a ride sets `completedAt`, which no write takes back. The number of jobs is
counted together with the handlers that will add one or have yet to (`Completing`, in
`CompletionInductive`): a handler joins them only if it read a ride that not both sides had
confirmed, when there is no job yet and the handlers are at most as many as there are slots;
afterwards none joins, and each job is added by one that leaves. Each write of a row is
then a step of `RideCompletion` or leaves what settlement sees alone (`RowTurns`).

**The argument for settlement.** A worker that counts a ride for a party has found or
made its payment (`WorkersOK`). The tally is bounded from both sides. From below
(`NoneLost`): at least as many rides as are settled, or have been counted for that user by a
worker that is still at them. From above (`NoneInvented`): the tally, plus what
workers have yet to add, is at most the number of attempts. A worker that dies
drops what it owed, one that is handed the job again owes it anew, and the attempt is
counted. Earnings go the same way, with fares as weights. For one server, a worker about to insert
a payment is the only one and there is none yet (`PaidOnce`); what drivers are shown
and what passengers paid are then two ways of adding up the same payments, by
driver and by passenger (`SumByOwner`), whoever the drivers are by now.

**The argument for ratings.** A handler past its INSERT finds its own rating where it
left it (`CallOK`), hence what a ratee was told stands, and who reveals has seen both ratings.
An average, in a row or in the hands of a handler that will write it, is the average of a
subset of the ratings on the list (`AveragesOK`): revealed ratings stay revealed, so
an old subset is a subset still, and a subset that is as large as the list is the list. This
holds for any number of rides and handlers, where an older average may replace
a newer one. `RevealComes`: once both have rated, both are shown or a handler
is between its INSERT and its reveal, since the later of two handlers looks after
both inserts. `TrustOK`: a score is up to date, is being written from statistics that are
up to date, or is owed, by a waiting job or by a handler or worker that has
yet to add one. Bounds of the stored scores rest on the averages: a subset of ratings of
one to five stars has such an average.

**The argument for the formulas.** Rounding does not leave an interval with whole
bounds (`RoundBetween`, from the definition of integer division), so an average
of one to five stars is worth −20 to 20, and the sum of the four terms lies in
10..90.

**The argument for notifications.** `WorkInv` says that a worker which is past its
first step is the only one at its notification, whose row is marked and whose job
is active; that a handler about to queue a job is the only one and the first; and
that nothing is pushed without a job.
`Keeps(n)` is what every step but the push does to a notification: pushes stay, the
mark stays, and either the job has stalled once more or, if it had run through, it
still has. The push itself moves its worker to "finish", which is what the one on
the right of `PushedOncePerAttempt` is for. Silence is a lemma of its own: of a
deleted row that no worker is at, no step makes a pushed one.

**The argument for lists and pages.** A finite set has a list of its members in any
total order of them (`OrderedListExists`, from the smallest set that had none), so `Listed` is one.
Unread rows come before read ones, so the feed begins with as many rows as are unread,
and these are the unread ones (`InitialSegment`). `PagesFlatten` and `PagesFlattenBackwards` put the
pages together by the places where they end, from the first page and from the last, for
every limit (`FeedPages`, `StoryOfAnyPageSize`); the theorems state the limits the runs check.

**The argument for authentication.** As for rides, handlers rely on what does not
go back: a code keeps its owner and purpose until it is gone, a token its owner and
its parent and never comes alive (`OtpsAge`, `TokensAge`), and what was mailed stays
mailed. `CallOK` says that much for each step. Guesses are counted together with
the handlers that are about to count one (`GuessesInv`): a handler that joins them
found fewer attempts than the limit, and there are no more of them than handlers.

**The argument for accounts.** The audit is an equation between four numbers, one of
them the number of handlers that owe a row; `CountStep` says how that number
changes when one handler moves, and every step changes two of the four alike. Roles
and profiles are only ever written together, and a profile is inserted only where
there is none. A token carries a role the row has had, and the row had the role RIDER only by an
approval (`HeldInv`).

**The argument for chat.** A step of the chat writes no table of the rides, and every other
step is one of module Rides, so `Inductive` holds here too. What the check of the
ride row finds is put in terms that grow (`Party`): the ride has both its sides, and the
sender is its creator or was answered. `RecordsOnlyGrow` carries that over the INSERT
and beyond, though the status that was checked may be gone. A handler about to emit
has a stored message of its own that nobody has heard.

**Sums and counts.** The community modules define sums by folds. `Counting` proves what is
needed of them (`SumElement`, `SumStep`, `SumEqual`, `SumSubset`, `SumByOwner`, `SumCounts`) from the definition and from
the smallest set for which it would fail, and what is needed of lists in the same way, because the library's induction
theorems take an operator as a parameter, which the provers do not instantiate.

Only model-checked:

- Liveness (`UnmatchedRideExpires`, `CompletionJobEnds`, `PushJobEnds`), which rests on
  fairness and ENABLED, out of reach of the provers.

Every safety property of a passing run is proved, under the hypotheses above.

## Not modelled

- Uploads (presigned URLs without state of their own), health, configuration, guards
  beyond the role check, filters and interceptors: nothing between requests.
- The templates of the e-mails and the initialisation of Firebase; of both services the
  modules keep that sending never throws.
- Who is in which Socket.IO room: anybody may join any. `emitToUser`, `emitToRide`,
  `deleteOldMessages`, `markDelivered` and `findUserFcmTokens` have no caller.
- Two queries of one read (a page and its count, the four sums of the earnings, the figures of
  the dashboard) are taken as one snapshot.
- `JobFails` of Notifications has no failing UPDATE of the mark; an exception there is
  that of a deleted row.
- Of the earnings, the split by month and the role check. Of a profile, the columns
  nothing depends on. Hashes, signatures and random values, which are names here.
