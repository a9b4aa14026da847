# TLA+ models of the DigiTag backend

This directory holds TLA+ specifications of the DigiTag backend (Node.js, Express,
Prisma on PostgreSQL), the TLC configurations that check them on small instances, and
TLAPS proofs of theorems about them for every size of the system. All paths below are
relative to the directory that holds both `src/` and `tla/`; the application itself is
in `src/src/`.

## 1. The system

The backend serves an app in which creators, freelancers and brands find each other,
ask each other to collaborate, and talk once a request is accepted. It is a set of
*stateless* Node processes (PM2 cluster mode, `src/ecosystem.config.js`), all on one
database. There is no lock, queue or actor in the code: every handler is an `async`
function, a sequence of database statements with an `await` between any two, and handlers
of one or of several processes interleave at each of them. What protects the data is
Postgres alone: atomic statements, unique indexes, and the few `$transaction` blocks.
The repository has no tests.

| Component | State | Operations | Talks to |
|---|---|---|---|
| collaborations (`modules/collaborations`) | table Collaboration (PENDING, ACCEPTED, DECLINED, CANCELLED, COMPLETED) | request or re-send, accept, decline, complete, cancel | conversations (accept opens one), posts, blocks, quota, push |
| conversations and messages (`modules/conversations`) | tables Conversation, Message; cached list per user | open, send, edit, erase, react, mark read, list | collaborations (the chat lock), blocks, cache, push |
| calls (`modules/calls`) | table Call (RINGING, ACTIVE, ENDED, DECLINED, MISSED) | initiate, accept, decline, end, expire | collaborations, blocks, VoIP push |
| blocks, follows (`modules/blocks`, `modules/follows`) | tables Block, Follow | block, unblock, follow, unfollow | cached feeds, reports |
| posts, feeds, search (`modules/posts`, `modules/feeds`, `modules/search`, `modules/users`) | table Post and its saves and boosts; cached page 1 of each feed | create, edit, close, delete, boost, save, moderate; read feeds, posts, profiles, lists | collaborations, blocks, cache, notifications |
| admin broadcasts (`modules/admin`, `jobs/sendScheduledBroadcasts.js`) | tables Broadcast, Notification | create, approve, reject, defer over the night, poll every 60 s, send | push |
| back office (`modules/admin`) | table AdminUser; all other tables | log in, second factor, team; moderate users, posts, reports; figures, lists, exports | everything |
| accounts, tokens (`modules/auth`, `services/token`) | tables Account, User, RefreshToken | log in per role, refresh with rotation, switch role, select profile, delete the account | Firebase, Razorpay |
| codes (`services/otp`, `services/email`) | tables Otp, EmailVerification | send with cooldown, verify with limited attempts | SMS, WhatsApp, SES |
| profiles (`modules/_shared/profileService.js`) | tables CreatorProfile, FreelancerProfile | create, update, keep the roles of one account in step | codes by email |
| Instagram and social verification | tables InstagramVerification, SocialVerification | start, message or OAuth callback, remove, expire | Meta, Google |
| subscriptions (`modules/subscriptions`) | table Subscription, `User.isPremium` | subscribe, purchase, webhooks, overrides, cancel on deletion | Razorpay, App Store |
| push (`services/push`) | table FcmDevice, column `User.fcmToken` | register, unregister, send, prune dead tokens | FCM, APNs |
| event registrations | table EventRegistration | register, send the ticket, check in | WhatsApp |
| reports, categories, onboarding, waitlist, uploads | one table each | single inserts, reads | S3 |

**What is hard here**, and what each component must get right:

* *Stale reads.* Nearly every handler reads a row, checks it, awaits something else, and
  then updates by id. A conversation must still belong to the pair of its request; a call
  that is over must not ring again; once contact closes, the requests past their
  checks must be the last to add anything; a deleted user must not come back by a late unsuspension.
* *Counted quotas.* Quotas and attempts are counted, then used, several awaits apart: how
  far can concurrent requests overshoot?
* *Half-done work.* A process may restart between two statements. Accepting is a
  transaction; sending a broadcast, subscribing and cancelling at Razorpay are not.
* *Two of everything.* Every process polls for due broadcasts; webhooks and Instagram
  messages arrive twice, late, or out of order; two admins decide at once; two logins
  create one role; one person has two users, two tokens and two billing systems.
* *Caches.* The feed and the conversation list are computed, and then cached: a change in
  between is lost from the cache until it expires.
* *Filters written anew.* Whether a post or user is shown is decided in a dozen queries,
  each with its own list of conditions, and admins' figures are counted by as many.
* *Progress.* Row locks, quiet hours and restarts must delay a request or a broadcast,
  not stop it.

`PROJECT.json` lists each hazard at its line, with the properties that would catch it.

## 2. Modules

| Module | What it is |
|---|---|
| `Roles` | the roles and who may ask whom (`constants/roles.js`) |
| `Collaboration` | requests, the accept transaction, conversation opening, blocks and post status, served concurrently |
| `CollabProtocol` | abstract specification: the life of a request, one atomic operation each |
| `CollaborationSerial` | the mapping under which `Collaboration`, served one request at a time, implements `CollabProtocol` |
| `CollaborationContact` | the mapping under which `Collaboration`, with any number of requests at once, does to each pair of users what `Contact` says |
| `MCCollaboration` | instances for TLC |
| `CollaborationProofs`, `QuotaProofs` | theorems about `Collaboration`, `CollaborationSerial` and `CollaborationContact` |
| `Broadcast` | creating, approving, rejecting, deferring, polling and sending broadcasts, with failures, restarts and time |
| `MCBroadcast` | instances for TLC |
| `BroadcastProofs` | theorems about `Broadcast` |
| `Requests` | the requests being served: the worker idiom of the modules below |
| `Accounts` | accounts, users per role, refresh tokens, moderation, deletion |
| `PhoneOtp`, `EmailOtp` | codes by SMS and by email |
| `Events` | registering for an event and its door |
| `Profiles` | the email of a profile |
| `Admins` | log in, second factor and team of the back office |
| `MCIdentity` | `Accounts` to `Admins`, composed for TLC |
| `AccountProofs` | theorems about `Accounts` |
| `IdentityProofs` | theorems about `PhoneOtp` to `Admins`, and about `MCIdentity` as composed |
| `Instagram`, `Social` | proving a handle by message, a channel by OAuth |
| `Billing` | the Subscription row, two billing systems, `isPremium`, cancelling on deletion |
| `Devices`, `FanOut` | which phones a push reaches; who is told of a new post |
| `MCCallbacks` | `Instagram` to `FanOut`, composed for TLC |
| `CallbackProofs` | theorems about `Instagram` to `FanOut`, and about `MCCallbacks` as composed |
| `Contact` | whether two people may be in contact: what the modules below assume of `Collaboration` |
| `Chat`, `Calls`, `Follows` | what they do while they may; each extends `Contact` |
| `Feeds` | posts, blocks, and the cached feeds |
| `Boosts` | the monthly ration of boosts |
| `Browse` | what users are shown of each other |
| `Backoffice` | what admins are shown; extends `Browse` |
| `MCContact` | `Contact` to `Backoffice`, composed for TLC |
| `FeedProofs` | theorems about `Feeds` and `Boosts` |
| `ContactProofs` | theorems about `Chat`, `Calls`, `Browse` and `Backoffice`, and about `MCContact` as composed; extends `FeedProofs` |

### How the models are read

A **worker** stands for one handler at work (or one run of the poller). `job[w].at` names
the statement it is about to execute, and the other fields of `job[w]` are what the
JavaScript function keeps in local variables across the await. An action is one database
statement together with the checks made on its result. A read that only feeds a check is
merged with the check. A rejected request goes back to `Idle`. So the interleavings of the
model are the interleavings of the awaits. The read of the user in `authMiddleware` is merged
with the first read of the handler behind it (`ReadToDelete`, `SwitchRole`, `SelectProfile`):
no property depends on what happens between the two. A handler that fails half-way, by
an error or by the end of its process, is a worker that takes no further step, which
safety properties always allow for.

Postgres runs at READ COMMITTED: single statements are atomic; an UPDATE waits while
another transaction holds the row (`Locked`); what a transaction wrote is seen by others
when it commits. That is why `CommitAccept` writes both the status and the
conversation, although the statements that cause the writes are spread over
`BeginAccept`, `FindConversation` and `CommitAccept`; a transaction that dies
(`Abort`) or loses the unique index (`RollbackAccept`) writes nothing.

### Collaboration

| State | Code |
|---|---|
| `rows` | table Collaboration: parties, post, status, month of `createdAt` |
| `convs` | table Conversation: for each unordered pair the `collaborationId`, or `None` |
| `blocks` | table Block |
| `openPosts` | posts that are active and neither COMPLETED nor CLOSED |
| `month` | the calendar month, for `getCollabRequestQuota` |
| `job` | the requests being served |

| Actions | Code |
|---|---|
| `RequestCollab`, `CheckQuota`, `CheckPost`, `FindExisting`, `InsertRequest`, `ResendRequest` | `createCollaboration` |
| `ReadToRespond`, `ReadToComplete`, `UpdateStatus`, `BeginAccept`, `FindConversation`, `CommitAccept`, `RollbackAccept` | `respondToCollaboration` |
| `ReadToCancel`, `UpdateStatus` | `cancelCollaboration` |
| `OpenConversation`, `OpenFind`, `OpenCollab`, `OpenCreate` | `openConversationWith` |
| `Block`, `Unblock`, `SetPostStatus`, `NextMonth`, `Abort` | blocks, posts, the calendar, restarts and lost connections |

The `findFirst` of `FindExisting` and `OpenCollab` has no order, so any matching row may
be returned. The unique index on (sender, receiver, post) does not apply to a null post, as
in SQL. A re-send keeps `createdAt`, hence the month the quota counts it in. Messages and
pushes to the other party change no modelled state and are left out.

### Broadcast

| State | Code |
|---|---|
| `rows` | table Broadcast: status, `scheduledFor`, `approvedById`, `recipientCount`; plus `planned`, a history of the time first asked for |
| `copies` | table Notification: rows per broadcast and user |
| `clock` | the time, bounded; `Quiet` are the times within quiet hours |
| `job` | handlers (HTTP requests) and pollers (runs of `sendDueBroadcasts`) |
| `failures` | database errors and restarts, bounded |
| `overlapped` | history: broadcasts that two workers held at once |

| Actions | Code |
|---|---|
| `broadcastNotification` | the handler of that name, up to its insert |
| `ReadToApprove`, `WriteApprover`, `WriteScheduled` | `approveBroadcast` |
| `ReadToReject`, `WriteRejected` | `rejectBroadcast` |
| `StartPoll`, `MarkFailed` | `sendDueBroadcasts` |
| `Defer`, `LogDeferral`, `Resolve`, `InsertNotifications`, `WriteSent` | `executeBroadcast` and the fan-out of `push.service.js` |
| `Fail`, `Restart`, `Tick` | a statement throws; a process restarts and drops what its workers did; time passes |

A poller reads all that is due at once and sends it one by one (`Done` takes the next).
Several pollers may run at once, because every process of the PM2 cluster starts a
timer of its own (`server.js`) and the timer does not wait for the last run. The
audience is any set of users, since it is resolved by a query on tables that are
not modelled; it is resolved at creation, and again when a broadcast is sent later. Where a
notification insert fails, `sendPersonalizedBroadcast` swallows the error and the other
paths throw: the `Templated` broadcasts of the model are the former. The branch of
`executeBroadcast` that marks a broadcast FAILED because its target has no query is
unreachable: the validation of the route admits only known targets.

### Identity

| Module | State | Actions and the code they model |
|---|---|---|
| `Accounts` | `accounts`, `users`, `tokens`; history `overlapped` | `FindAccount` to `RefetchWinner`: `completeOtp`, `verifyFirebaseToken`, `switchRole`; `SelectProfile`, `ReadTarget`: `selectProfile`; `issueTokens`, `ReadToken`, `RevokeOld`, `logout`, `pruneExpiredRefreshToken`: the token service; `ReadToDelete`, `CommitDeletion`: `deleteAccount`; `ReadToModerate`, `WriteModeration`, `bulkSuspendUsers`: moderation |
| `PhoneOtp` | `otps` | `CheckCooldown`, `InvalidateOtps`, `InsertOtp`: `sendOtp`; `FindOtp`, `CountAttempt`, `UseOtp`: `verifyOtp` |
| `EmailOtp` | `emails` | `CheckEmailCooldown`, `ExpireEarlier`, `CreateEmail`; `FindEmail`, `CountEmailAttempt`, `SettleEmail` |
| `Events` | `registrations`; history `entries` | `FindTicket`, `InsertTicket`, `RefetchTicket`: `createRegistration`; `sendTicket`, `resendWhatsapp`; `Scan`, `CheckIn` |
| `Profiles` | `profiles`, `verified`, `gone` | `CreateProfile`, `UpdateProfile`, `ensureEmailAvailable`, `ensureEmailVerified`, `InsertProfile`, `WriteProfile`, `FindSibling`, `SyncSibling`; `ReadProfiles`, `TombstoneEmails`: deletion |
| `Admins` | `admins`, `sessions`; history `met` | `LoginAdmin`, `VerifyTwoFactorLogin`, `GrantSession`; `SetUp`, `ConfirmSecret`, `TurnOff` and their writes; `FindAdmin`, `InsertAdmin`, `CheckUpdate`, `WriteUpdate` |

A deleted row's number or email is a tombstone, unique to the row, as the code writes it.
The partial unique index of migrations (one living user per account and role) is
`IndexAllows`, and the loser of a race for it (P2002) re-reads. Attempts, cooldowns and
expiries are flags that time may set at any moment.

### Callbacks

| Module | State | Actions and the code they model |
|---|---|---|
| `Instagram` | `igs`, `igClock` | `CheckOthers`, `CheckOwn`, `ExpirePendingIgs`, `CreateIg`, `ReuseVerified`: starting; `FindByCode`, `CheckSender`, `VerifyIg`: the webhook; `ReadToRemove`, `CheckFirst`: removing; `ReadToExpire`, `SettleIg` |
| `Social` | `socials` | `ExpirePendingSocials`, `CreateSocial`, `Callback`, `Exchange`, `CheckOtherAccounts`, `DropOwn`, `Connect`, `FailSocial`, `ReadStatus`, `ExpireSocial` |
| `Billing` | `subscriptions`, `premium`, `closed`; `gateway`, `store` are Razorpay and Apple | `ReadMine`, `CreateAtRazorpay`, `RecordSubscription`; `FindSubscription`, `WriteEvent`: webhooks; `verifyPurchase`, `handleNotification`, `CheckPurchase`, `UpsertPurchase`; `syncPremiumStatus`, `OverridePremium`; `ReadToClose`, `CancelAtRazorpay`, `RecordCancelled`, `CloseAccount` |
| `Devices` | `devices`, `fcmToken`; history `wanted`; `installed` is FCM's | `RegisterDevice`, `WriteLegacy`, `UnregisterDevice`, `Clear`, `ForgetDevices`; `Push`, `ReadTokens`, `Send`, `pruneDeadToken` |
| `FanOut` | `partners`, `audience`, `apart`, `notified` | `ReadPartners`, `AskBlock`, `NotifyPartner`, `BlockUnknown`, `ReadAudience`, `ReadBlockedIds`, `NotifyAudience`: `createPost` and the functions it starts |

A webhook may come late, twice, in any order or never: delivering one is an action that is
always allowed. Whoever sees a code may send it from any Instagram account, and a browser
may call an OAuth callback as often as it likes.

### Contact

| Module | State | Actions and the code they model |
|---|---|---|
| `Contact` | `current`, `another`, `blocked` | requests accepted and completed, blocks: what `Collaboration`, which models them in full, does to one pair of users (`CollaborationContact`) |
| `Chat` | `messages`, `lists` | `ReadConversation`, `CheckActive`, `CheckUnblocked`, `CreateMessage`: `sendMessage`; `ReadMessage`, `ReactConversation`, `WriteReaction`: reacting; `ReadOwn`, `EditMessage`, `EraseMessage`; `FetchPage`, `MarkRead`; `BustLists`, `ComputeList`, `FillList`, `ListExpires`: the cache |
| `Calls` | `calls` | `CheckBlock`, `CheckCollaboration`, `ExpireRinging`, `Ring`: `initiateCall`; `FindCall`, `UpdateCall`: accept, decline, end |
| `Follows` | `follows` | `AssertNotBlocked`, `FindFollow`, `CreateFollow`, `unfollow` |
| `Feeds` | `posts`, `blocks`, `feeds` | `createPost`, `ReadPost`, `WritePost`, `Moderate`; `ReadBlock`, `InsertBlock`, `unblock`; `MissFeed`, `ReadBlocks`, `FetchPosts`, `FillFeed`, `invalidateAllFeeds`, `ClearOwnFeed`, `FeedExpires` |
| `Boosts` | `active`, `boosted` | `ReadToBoost`, `getBoostQuota`, `WriteBoost`, `MonthBegins` |
| `Browse` | the tables readers join: `who`, `wall`, `cuts`, `fans`, `bookmarks`, `reports`, `attempts` | writers are single steps; readers are operators: `getFeed`, `getPostById`, `listUserPosts`, `listSavedPosts`, `searchProfiles`, `listSuggestions`, `listByCategory`, `listFollowers`, ... |
| `Backoffice` | those of `Browse` | operators: `getDashboardStats`, `getSignupFunnel`, `listUsers`, `exportUsersCsv`, `listPosts`, `listReports`, `getReportSlaStats`, the targets of broadcasts, ... |

`Browse` and `Backoffice` ask another kind of question than the rest: not what
interleavings do, but whether some twenty queries, each with a filter of its own, agree
with one another in every state a few writes can reach. So their writers are atomic,
and what each page of a feed holds is computed as the code does it (`diversifyByAuthor`, the
pages, the total that counts boosted posts on top). An order of posts is a relation, the
pairs of posts that are in order: `diversifyByAuthor` pushes in rounds, so a post comes before
another if it is pushed in an earlier `round`, which is the number of newer posts of its
author, or in the same round and its author is earlier in `userOrder`. A page, then, is the
set of the posts that have (page - 1) * limit or more, and fewer than page * limit, before
them (`Slice`). Posts are written at different times (`CreatedAt`): of two posts of
one millisecond Postgres may return either first.

`Contact` is an environment, and a promise. For one pair of users, `current` is whether the
collaboration that their conversation points at is ACCEPTED, `another` whether some other one
of theirs is, `blocked` whether one has blocked the other. `Chat`, `Calls` and `Follows`
extend it and let it step at any time; `CollaborationContact` shows that nothing else
happens to a pair in `Collaboration`.

## 3. Runs

Each cfg says at its top what instance it is.

| Run | Properties | What it shows |
|---|---|---|
| `collab` (`Collaboration.cfg`) | TypeOK, AcceptedHasConversation, LinkedOnlyByAccept, ImplementsContact, RequestsFinish | two requests at once between three users: whoever has an accepted request has a conversation, whatever interleaves and aborts, only accepts link one, each statement is for each pair a step of `Contact`, and no request waits for ever |
| `collab_quota` (`CollabQuota.cfg`) | QuotaOvershootBounded | the quota is overshot by at most the number of concurrent requests less one, also over the turn of a month |
| `collab_serial` (`CollaborationSerial.cfg`) | ImplementsProtocol | one request at a time, with posts, blocks and months: a refinement of `CollabProtocol` |
| `collab_duplicate` (`CollabDuplicate.cfg`) | NoDuplicatePending | *violated*: two identical requests without a post both get a row |
| `collab_cancel` (`CollabCancel.cfg`) | AcceptedNotCancelled | *violated*: a cancel that races an accept cancels an accepted request |
| `broadcast` (`Broadcast.cfg`) | SignedOff, NotBeforePlanned, RejectionIsFinal, ScheduledIsSent | one broadcast that needs approval, two admins' requests and two polls at once, a night, a failure |
| `broadcast_queue` (`BroadcastQueue.cfg`) | CopiesBounded | two broadcasts that one poll sends in turn, with one request and one failure |
| `broadcast_recorded` (`BroadcastRecorded.cfg`) | SentIsRecorded | *violated*: an immediate broadcast is SENT before its notifications exist, and a failure in between leaves it so |
| `identity` (`Identity.cfg`) | TypeOK, OneUserPerRole, GuessesAreLimited, EmailsAreProven, EntriesBounded, AccountsClose, LoginAloneSucceeds, CodesStaySettled, SupersRemain, NoWayIn | two requests at once for one number with two roles and a legacy user, for codes, tickets, profiles and admins: one living user per account and role; a deletion that met no other request closes the account, and one closed with no request at it stays closed; a login that met no other gets in; a code is guessed, and a ticket checked in, no more often than the limit and the requests in flight allow; codes no request is at stay used; an address in a profile was verified; the last super admin goes only by an update of the team that met another; a deactivated admin with no request under way stays out, and the second factor is not bypassed |
| `callbacks` (`Callbacks.cfg`) | TypeOK, PhonesAsAsked, OncePerPerson, ExclusiveHandles, FirstIsPermanent, OnlyOwnAccountUndoes, CancelledBeforeClosed | messages, callbacks and webhooks late, twice and in any order: a verified handle that no request is at stays its account's, the first is permanent, nobody else undoes a connection, what a deletion found billable is cancelled before the account closes; pushes reach the phones their user registered; nobody is told twice of a post |
| `contact` (`Contact.cfg`) | TypeOK, ListsAreBusted, FewRinging, BoostsAreRationed, BrowsingOpens, FiguresAgree, NothingNewWhenClosed, ReactionsAreOnesOwn, OverIsOver, BlockedStayAway, TakenDownStaysDown | two people, two requests at once: when contact closes, requests past the checks are the last to add a message, reaction, call or follow; a call that is over, with nobody accepting it, stays over; what was cached before a block, a takedown or a message is dropped, unless it was being computed; ringing calls and boosts exceed their bound by no more than the requests in flight; a reaction goes only by its owner's requests or a race it lost; after any two changes what is shown can be opened and figures agree |
| `billing_outlives` (`BillingOutlives.cfg`) | BillingEndsWithAccount | *violated*: of two subscriptions started before either was paid, deleting the account cancels only the second |

The four violated properties state what a comment or an error message says of the code;
`PROJECT.json` quotes it under `findings`.

**Bounds, and why they are enough.**

* `Workers`: the races of `Collaboration` are between two requests, each statement of one
  against each of the other; a third request acts as the environment the other two
  have met earlier, since requests follow each other without end. The quota's bound
  speaks of the number of workers, and is proved for all of them.
* `CollabIds`: two rows are the two directions, or the two freelancers, that can contend;
  `collab_quota` has three, one more than quota plus workers less one, and a post, so that a
  third request is not refused as the repetition of an earlier one and the bound could be
  exceeded. `RequestCollab` starts only while an id is left for each request
  on its way: the bound of the table is never what refuses a row.
  Two rows of one pair are also what `Contact` tells apart: the one the conversation points
  at and another; of the two requests one may accept, end or re-send a row between any
  two statements that relink the conversation. Nobody blocks in `collab`; a
  block writes none of these tables, and the theorem about `ImplementsContact` has it.
* `Months`, `Quota` = 1: the quota is met by one row and reset once.
* `Broadcast`: `Handlers` and `Pollers` are two each where overlap is the question.
  `MaxTime` = 2 with `Quiet` = {1} is day, night, day: a broadcast may be planned for the
  night, be deferred into the morning, be approved before, at and after its time.
  `MaxFailures` = 1: a database error or a restart at any statement.
* `focus`. The modules of `MCIdentity`, `MCCallbacks` and `MCContact` share the workers
  and, apart from `Contact`, no table; no request of one calls another once it began. A
  behaviour of the whole is then an interleaving of independent ones, and every property
  speaks of one component: it is enough to check each alone, so `focus` is chosen in the
  first state and kept. The chat has two foci, since reacting, editing and erasing write
  nothing that the cached lists count.
* `identity`: two requests race for two users and two accounts of one number; there is a
  token to lose. `OTP_MAX_ATTEMPTS` = 2 is the least at which two guesses race for the last
  attempt; three codes are one to spend, one to invalidate, one to use. The profiles are
  those of both roles of one person and of another person, from before accounts, in the
  table of the first. Two scanners and two tickets: `EntriesBounded` speaks of the number of
  workers, and could be exceeded by a third scan. Two super admins can demote each other.
* `callbacks`: both roles of one person and somebody else; two rows and two deliveries, so
  that a second message can arrive between the statements of the first.
* `contact`: `MaxCalls` = 3 with two requests: each may leave one call ringing, and
  `FewRinging` could be exceeded by a third. One message suffices for an edit, an
  erasure and two reactions to meet. `MaxChanges` = 2 from every set of premium users:
  each filter has one condition per table, and the properties relate at most two of them.
  One report was reviewed before (`EarlierReports`), so that a second one no longer fits in
  `SlaSample` = 1, as the 201st does in the code.
  Three posts of the four are of one role, for pages, boosts and an author with two posts;
  pages of one and of two posts (`Limits`) end inside and at the end of the lists.
* Redis is taken to answer. The code swallows its errors; without it nothing is cached.
* Symmetry of ids and workers is used in runs without liveness properties only; in
  `contact` the two people change places together with the posts they wrote.
* Deadlock is checked in the collaboration runs. The broadcast system does stop, when
  the clock has reached its bound and all is sent, so its runs do not check it. In the runs
  with a `focus`, requests stop for want of rows.

**Fairness.** `Collaboration!FairSpec` has strong fairness for each worker's next
statement: the event loop resumes every handler whose database answer has arrived, and
Postgres grants row locks in order of arrival, so a statement that waits for a lock that is
again and again free gets it. No request is obliged to arrive. `Broadcast!FairSpec` has
weak fairness for each worker's next statement, for the timer of each poller
(`setInterval`), and for the clock. No admin is obliged to do anything; failures may happen
at any time but are finitely many. Quiet hours end, since `MaxTime` is outside them.

**Mutants.** Every property of a passing run has a mutant, an operator beside the
definition it changes that is marked `Mutant:` in the module (a dropped status filter, a
`<=` for a `<`, an update outside the transaction, a schedule looked at before the
approval, ...), with which TLC finds the property violated under the same cfg.

## 4. Proofs

The theorems hold for any number of users, posts, rows, workers, admins, messages, calls,
broadcasts, pollers, nights, deliveries and failures. What they take for granted of the
constants is named, where the constants are declared, and TLC evaluates it in the runs:

| Assumptions | What they say |
|---|---|
| `ConstantsOK`, `BroadcastConstants` | types; `None` is none of the data; finite sets where a cardinality is taken; the last time is not in the night |
| `NoneIsNoRequest`, `AccountConstants`, `AdminConstants`, `AdminRows`, `BillingConstants`, `SocialConstants`, `ChatConstants`, `DeviceConstants` | a conversation is between two people (`participantAId`, `participantBId`, in `ChatConstants`); `None` is no row, token, list, phone or secret; the ids of accounts and users differ, and no number is a tombstone |
| `ProfileConstants` | who is whose, that a user without an account shares it with nobody, and that addresses are neither blank nor absent nor the tombstone |
| `OtpConstants`, `EmailConstants`, `EventConstants`, `IgConstants`, `BoostConstants` | limits are numbers, the limits on email codes and on boosts positive; requests in flight are finitely many; `None` scans no ticket |
| `BrowseConstants`, `SignedUpConstants` | finitely many users and posts, each user in one of the two public roles, each post by a user and no two written at once; a page has at least one post (`parsePagination`); earlier reports are reports; the sample is a number |

An invariant `XInv` is inductive; `XStarted` and `XKept` say that it holds at first and is
kept by each step. Most actions of the modules that use `Requests` are one step of one
request, so a lemma (`LoneMove`, `CallMoves`, `ChatMoves`, ...) says once what a step of a
request keeps and which tables it may touch, and one lemma per action shows that the
action is such a step.

**Collaboration** (`CollaborationProofs`, `QuotaProofs`).

* `BaseInv` is `TypeOK` and what a worker remembers: whoever is past its first read holds
  a row that exists, rows never go away, and a request is never to oneself. `TypeOK`
  alone is not inductive, as `UpdateStatus` writes `rows[job[w].row]`, which must be a row.
* `ConvInv` adds to `ConversationMatchesPair` and `AcceptedHasConversation` what in-flight
  requests rely on: whoever is about to write COMPLETED, to keep or relink a
  conversation, or to create one, is about a pair that has one already. The first is the
  delicate one: a COMPLETE that read ACCEPTED long ago may write over a cancelled and
  re-sent request, and only because conversations are never deleted is that harmless.
  It follows that `OpenCreate` never creates anything: whenever `openConversationWith`
  comes that far, the accept it found has created the conversation.
* `LinkedOnlyByAccept` follows from `BaseInv` and `ConvInv` step by step.
* `QuotaInv` bounds the rows a user made this month *plus* the requests of that user that
  have passed the count and not yet inserted. `CheckQuota` adds one to the latter only
  when the rows are fewer than the quota and at least that worker was not counted;
  `InsertRequest` moves one from the latter to the former; a new month empties the former.
* `SerialImplements`: with one worker, `Spec => ImplementsProtocol`. Two requests in flight
  may insert two rows for one pair and post, and the mapping is then no implementation
  (`collab_duplicate` shows the two rows). With one worker `SerialInv` holds: a sender,
  receiver and post have one row, and whatever the worker has read is `Current`. Under it
  each write maps to one operation of `CollabProtocol`, the reads and checks and a row's
  lock to a stutter.
* `ContactIsAsSaid`: for any number of workers, `Spec => ImplementsContact`. `AcceptedMoves`
  says what a step does to the ACCEPTED rows of a pair: nothing, one fewer, or one more and
  perhaps the conversation pointed at it, and never that together with a block; it
  rests on `BaseInv` and `ConvInv`. From there `ContactMoves` is about sets only. The
  first attempt failed for a good reason: `Contact` let an accept only point the
  conversation at the new collaboration (`current`). In the code an accept of a row that
  was accepted before points the conversation back at it, and leaves the
  others accepted; and an accept that had found its own row linked (`keep`) may commit after another
  request has relinked the conversation, which then stays where it is (`another`). TLC shows
  that each of the two happens. `Contact` now allows both, and the theorems about chat,
  calls and follows are proved with it.

**Broadcast** (`BroadcastProofs`).

* `BaseInv` is `TypeOK` and `JobOK`: what a worker holds exists and is held once, a poller
  decides nothing, and who is about to approve is not the creator.
* `SignInv` strengthens `SignedOff` to broadcasts that wait in a poll's queue, that an
  approval is about to schedule, and whose execution has thrown.
* `PlanInv`: a row is never scheduled before its planned time, deferrals included, and
  whatever is executed or queued is past it; `NotBeforePlanned` follows for each step.
* `CopiesInv`: a broadcast that two workers never held has at most one copy more than
  failures, and that one only once it is *settled* (its worker is about to write SENT,
  or it is SENT and nobody holds it), from where it is not taken up again.
* `RejectedForGood`: `Dismissed` (REJECTED and held by nobody) is inductive given
  `BaseInv`: a poll queues only what is SCHEDULED, a decision is begun only on what waits
  for approval, and a step of a worker touches only what that worker holds
  (`StepLeavesOthers`). The nested boxes of `RejectionIsFinal` follow from it.

**Feeds and boosts** (`FeedProofs`).

* `FeedsTyped`: `FeedTypeOK` is inductive only with `ReadPostsExist`: who is about to change
  a post has found it, and posts are never removed.
* `BlockedAreAway` and `TakenDownAreAway` are action properties of the form "once away,
  always away, and the step that drops the cache makes it so". Their lemmas say how a
  feed can come to be in the cache (`FeedMoves`: only by a fill) and how a request that
  reads a feed moves on (`ReadMoves`: it takes over exactly what the tables show), so that
  neither a cached feed nor a request on its way holds a post of somebody away.
* `BoostsRationed`: the posts boosted this month plus the requests past the count are at
  most the ration plus the workers less one; by the same argument as `QuotaInv`, except that
  two requests may boost the same post.

**Accounts** (`AccountProofs`).

* `AccountsInv` is the types with two parts that make them inductive: `RowsFit` (a user's
  account and a token's user exist; the tombstone of a user that was never given an
  account is on no other row) and `Remembers` (what a request has read is still there,
  as rows are never removed). `AccountHasOneUserPerRole` follows statement by statement
  from the unique index.
* `ClosedStaysClosed`, `DeletedStayDeleted`: once a deleted account, or a deleted user no
  admin is deciding on, always one. The proof of the first failed with the earlier
  definition of who `WorksOn` an account, which TLC, with three requests, confirms to be too
  wide: it counted a deletion of another account whose number was, by then, the id of a
  user of this one. A deletion that has an account now counts for that account only.
* `DeletionClosesAccount`, `LoneLoginsSucceed` are about requests that met no other. What
  such a request remembers is not only there but up to date; `LoneRequests` states it, and
  that requests served at the same time have met.

**Codes, tickets, profiles, admins** (`IdentityProofs`).

* `OtpInv`: the guesses of a code and the requests about to count one more, together, and
  the good codes and the requests about to insert one, together, stay within their bounds.
* `EmailInv` adds to `ExhaustedEmailsFail` that nobody settles a code back to PENDING.
* `ProfileInv` adds to `EmailsAreProven` that what a request is about to write, and the old
  address because of which it skipped the check, was proven (`JobProven`).
* `AdminInv`: a request's actor and target exist, and it takes rights from another than its
  actor (`Checked`); so whoever takes the last super admin's rights is no super admin any
  more. `LoneUpdates` adds that an update which has met no other is the only one, and its
  actor still a super admin. Hence `SupersRemain`: the last one goes only by an update that
  met another. That two super admins who demote each other at once leave none is a fact of
  the code, not excluded by the property (section 5).
* `EventInv` is typing. `EntryInv`: a ticket that is not checked in has no entries, so that
  a scan begins only on one with none; the entries and the scans under way, together, are
  then at most the requests. It is the sum that is inductive, not the entries alone.

**Instagram, channels, billing, phones, new posts** (`CallbackProofs`).

* `IgInv`: no row and no request is dated later than the latest delivery, so whatever is
  verified from now on is not older than what is verified.
* `SocialInv`: the row a request is at, while it exists, is its user's (`RowIsUsers`).
* `BillingInv`: a deletion that goes through the subscriptions it had found has each billable
  one still before it, or it charges no more (`Backed`); what is cancelled at Razorpay
  stays cancelled (`BillingStays`), whatever arrives late.
* `DeviceInv` strengthens `PhonesAsAsked` to what is still to be written: a phone that is
  wanted has its row with no request about to clear it (`Heard`); one that is not wanted
  is in no store from which no request is about to take it (`Hushed`).
* `FanOutInv`: whom a request may still tell has not been told and is no one `shunned`
  (`Heeds`), with at most one request per post.

**Two people in contact** (`ContactProofs`).

* `CallInv`: the ringing calls of a caller plus the requests about to ring for them are at
  most the requests; it is `FewRinging` that is inductive, not the count of calls alone.
* `ChatInv`: `ListsAreBusted` is inductive as stated, but only because a conversation has
  two participants: a message makes the lists of both stale, and one drop covers both.
* `NothingAddedOnceClosed`: the requests past the checks when contact closes are the last to
  add anything. It is about new messages, reactions, calls and follows: editing and erasing
  one's messages and answering a call that rings look at no contact, and go on.
* `WhatIsShownOpens`, `OfficeIsConsistent`: what `Browse` and `Backoffice` show, mostly from
  the definitions of the queries; of the state they use its types.
  - *Pages.* An order that compares any two posts and repeats none gives each post its own
    number of posts before it (`FewerComeBefore`, `RanksOfPosts`), so each post is on one
    page, and that page is among those the total makes the app ask for (`PageOfRank`,
    `PagesShowAll`). `Rounds` and `BeforeInFeed` show that the order of the feed is such
    an order. Boosted posts are missing from the slices of page 1 and are back on later pages,
    so the ranks shift between page 1 and the rest; that every post is still on some page
    is `FeedHasWhatOpens`.
  - *Sums.* `FunnelSum` folds a column over the windows of five hours. A fold is a
    recursion over a set, and the library's induction takes an operator, which the provers
    cannot instantiate. `SumOfWindows` shows instead that a function which adds
    windows one by one is the fold: of the sets on which the two differ take one with no
    smaller (`WFMin` on strict inclusion); without one of its windows they agree, hence
    with it, too. `ColumnCounts` has such a function, the number of the users who signed up
    in the windows, and `WindowColumns` says which users each column counts.

**As composed.** `MCIdentity`, `MCCallbacks` and `MCContact` put several components side by
side, one of them in `focus`. `IdentityInv`, `CallbackInv` and `ContactInv` say that the one in
focus keeps its invariant (`Focused`) and the tables of the others are as at first
(`Untouched`). From these, `IdentityIsSafe`, `CallbacksAreSafe`, `ContactIsSafe` and the theorems
that follow them state the properties of the three runs for the specifications that the runs
check, whatever their constants.

**Only model-checked.** Every property of a passing run is a theorem, but for
`RequestsFinish` and `ScheduledIsSent`: liveness under fairness, which needs `ENABLED`. The
violated properties are shown by their counterexamples. Conversely, no run checks the types
of `Broadcast`: `BroadcastTypes` proves them.

No module with a theorem reaches a RECURSIVE operator.

## 5. What is not modelled, and why

* External services (FCM, APNs, Firebase, Meta, S3, SES): the code only reacts to their
  answers, and any answer is possible in the model. Razorpay, Apple and Instagram are
  modelled as far as what they say later.
* Routing, validation, rate limits and permissions of a route: preconditions of the actions.
* Of the back office: revenue, the lists of collaborations, chats, blocks and
  subscriptions, categories, and the log of activities. They read one table each.
* Of users: privacy settings except as `Browse` reads them, the export of one's data, the
  public page, tags, and the fields of a profile other than the email.
* Waitlist, uploads, onboarding, the read marks of notifications: rows written by one
  independent statement.
* VoIP tokens and call history; attachments and replies of messages.
* Words and places searched for, and the filters of the feed other than its own.
* Seeds and scripts, which run on a quiet database.
* Wording of notifications, pagination of lists other than the feed and admins' posts.

### Disagreements met while modelling, without a run

The runs show four. These were read in the code only:

* `feed.service.js:159-167`: the filter by category replaces `where.user`, and with it the
  condition that the author is ACTIVE, against the comment at line 93-94.
* `listUsers` shows deleted users when no status is given, `exportUsersCsv` leaves them out,
  against "always matches whatever the admin currently has filtered"
  (`admin.service.js:897-898`). `ExportsAgree` is about the filters by status only.
* Two super admins who demote or deactivate each other at once leave none, since
  `updateAdmin` checks the actor before it writes (`admin.service.js:386-396`): nobody can
  manage the team from then on.
* `editMessage` and `deleteMessage` look at neither the block nor the collaboration
  (`conversation.service.js:319-330`, `401-412`): messages are rewritten and erased in a
  chat that is closed, where "completing it closes messaging" (`246-248`) and reacting is
  refused as "using the chat". `acceptCall` looks at neither, too.
* `getReportSlaStats` takes at most 200 reviewed reports, so that its `sampleSize` is not
  their number beyond that (`admin.service.js:1267`).
* Page 2 and later of the feed may repeat boosted posts.
* `ensureEmailAvailable` looks in the table of the user's own role only; a blank email of
  a second user meets the unique index.
* `deleteAccount` frees no email for a user from before accounts (`auth.service.js:446-449`),
  and a profile written while the deletion waits for Razorpay keeps its own.
* `setupTwoFactor` overwrites the secret also when the second factor is on; enabling that
  races disabling can leave it on without a secret, which no code matches.
* Registering a phone clears it from others' rows, not from others' legacy column
  (`push.service.js:305-306`).
* `listSavedPosts` shows CLOSED posts; `editMessage` writes content back into a message that
  was deleted for everyone (`deleteMessage` "clears the content").

## 6. Plan

1. **Done.** `Collaboration` with its protocol, runs and proofs; `Broadcast` with its runs
   and proofs.
2. **Done.** `Chat`, `Calls`, `Follows` on `Contact`; `Feeds` and `Boosts` with proofs;
   `Browse` and `Backoffice`.
3. **Done.** Identity (`Accounts`, codes, events, profiles, admins) and callbacks
   (`Instagram`, `Social`, `Billing`, `Devices`, `FanOut`).
4. **Done.** Theorems for every component with a run, for the composed specifications,
   the refinement of `CollabProtocol` by `Collaboration` with one worker, and that of `Contact`
   with any number of workers; the pages of the feed and of the lists of posts, and the sums
   of the funnel.
5. Left: a refinement for more than one worker of a protocol of requests, one that
   allows duplicate rows and late cancels; the liveness properties, when provers can.
