# Ferventio backend: TLA+ specifications

Ferventio Backend is one Go process with PostgreSQL behind it. It receives Twitch
EventSub messages, turns them into notifications for registered mobile installations,
and delivers these over its own push WebSocket or through APNs, FCM and UnifiedPush. It
also brokers Twitch OAuth for the mobile clients and keeps their settings in sync.

This directory models the path of an event from Twitch to a device (the subscriptions at
Twitch, the chat sessions, the durable inbox, the durable notification queue, the push
sockets) and the two stores that devices share (sign-ins and settings). TLC checks small
instances. For every value of the constants TLAPS proves all safety properties that hold in
a run: those of the queue, the sockets, the inbox, the settings, the broker, the reconciler
and the chat sessions.

## Inventory

| Component | State | Operations | Modelled by |
|---|---|---|---|
| Delivery table | `deliveries` | Enqueue, PendingForInstallation, MarkSent, MarkFailed, Ack, AckThrough, DeleteForInstallation, Cleanup | `DeliveryTable` |
| Dispatch and flush | flush lock per installation, local variables of the goroutines | deliverToRegistration, flushPending, runDeliveryWorker | `PushDelivery` |
| Push WebSocket and hub | `PushHub.connections`, one handler and one reader per socket | pushSocket, Attach, Detach, Send, Close | `PushSystem` |
| EventSub inbox | `eventsub_inbox`, `eventsub_seen`, `channel_notification_states`, `eventInFlight`, `eventQueue` | eventSubWebhook, scheduleEventSub, handleQueuedEventSub, the drainer, RetryEventSub, Cleanup | `EventSubInbox` |
| Push registrations | `push_registrations` | Upsert, Delete, Get, List | `PushDelivery`, `MobileAuth`, `EventSubSubscriptions`, `UserChat`, each as far as it reads them |
| EventSub routing rules | none | eventNotificationForRegistration, chatMessageNotification, desiredEventSubSubscriptions | `EventSubRouting` |
| Subscription reconciler | a channel of one request, the subscriptions at Twitch | reconcile, requestEventSubReconcile, runEventSubReconciler, the admin's handlers | `EventSubSubscriptions` |
| User chat sessions | a session and a goroutine per user | assignUserChatChannels, reconcile, runSession, serveConnection, createChatSubscriptions | `UserChat` |
| OAuth broker and sessions | `auth_pending`, `auth_handoffs`, `auth_credentials`, `auth_sessions`, 64 mutexes | start, callback, complete, lease, sign-out, the two revocations | `MobileAuth` |
| Settings sync | `settings_sync_snapshots`, an advisory lock per user | Put, Restore, Current, History | `SettingsSync`, `SettingsRegister` |
| Rate limiter | token buckets | take, cleanupLocked | not modelled |
| Metadata cache, senders, audit log, in-memory stores, pool and migrations, JSON import, configuration | | | not modelled |

How the parts interact. The webhook and the chat sockets write to the inbox and hand the
message to one of four workers through a bounded channel; the drainer hands over what
was left. A worker calls `deliverToRegistration` once for each matching registration.
That call enqueues a row and then calls `flushPending`, as do the push socket (after the
greeting and after each heartbeat) and the delivery worker (every ten seconds, eight
installations at a time). `flushPending` sends through the hub, to the socket that is
attached for the installation, or through a push service. The socket's reader
acknowledges rows while all this happens.

Which messages arrive at all depends on the registrations. A saved or deleted
registration, a revocation by Twitch and the end of the two revocations of sessions ask
the reconciler for a round; it compares the subscriptions at Twitch with those that the
registrations call for. The chat manager reads the same registrations on a ticker and
runs one WebSocket per user, with a token leased from the OAuth broker. A device
registers with a session of that broker, and a revocation deletes its registration and
its queued notifications along with its session.

What is hard. Nothing but the flush lock, the channel lock, the in-flight set and the
hub's mutex orders these goroutines: every SQL statement is committed on its own, most of
their errors are ignored, and the process may end between any two of them. Rows are read
in batches and used long after. The hazards are listed, each at its line, in
`PROJECT.json`.

What makes each part correct:

- the queue has one row per event and installation, gives a row up only when it must,
  acknowledges only what reached the device, and settles every row in the end;
- the hub never lists a connection that is gone, and a replaced connection ends without
  taking its successor along;
- the inbox never processes a message twice at once, completes one only when everybody
  was told or the registrations could not be read, gives one up only when it must, and
  empties in the end;
- the broker never leaves a session without its credential, spends a refresh token
  once, ends a session only for a reason, and finishes a revocation completely;
- the settings are an atomic register with a history: no change that was not seen is
  overwritten unless forced;
- the subscriptions at Twitch become those that the registrations call for, and the chat
  connections those of the assigned channels whose user is signed in, whatever failed on
  the way.

## Modules

| Module | What it holds |
|---|---|
| `DeliveryTable` | each statement on `deliveries` as a function from rows to rows |
| `PushDelivery` | producers, flushes, worker, device, registrations, crashes, over an open transport; the abstract specification of the queue |
| `PushSystem` | the same with sockets and the hub as the transport; implements `PushDelivery` |
| `EventSubInbox` | webhook, admin retry, drainer, workers, cleanup, crashes |
| `MobileAuth` | sign-in, leases, registration, sign-out, both revocations, as concurrent requests |
| `SettingsRegister` | the abstract specification of settings sync: a register with a history |
| `SettingsSync` | the store's statements, lock, transactions and crashes; implements `SettingsRegister` |
| `EventSubRouting` | which event notifies which registration, and which subscriptions a registration asks for |
| `EventSubSubscriptions` | the reconciler's loop and the admin's calls against Twitch |
| `UserChat` | the assignment of channels and the life of a chat session |
| `MC...` | constants and symmetry for TLC |
| `PushDeliveryProofs`, `PushSystemProofs`, `EventSubInboxProofs`, `SettingsSyncProofs`, `MobileAuthProofs`, `MobileRevocationProofs`, `EventSubSubscriptionsProofs`, `UserChatProofs` | lemmas and theorems |

Definitions whose comment begins "Wrong on purpose" are faulty variants of the
definition that follows them. Nothing uses them; `PROJECT.json` pairs each with the
property that fails when it takes the place of the original.

### DeliveryTable

A row keeps its installation, event, status, attempts and times. The clock counts
coarse ticks. `createdAt` is the tick at which `deliverToRegistration` read the clock
and `seq` ranks these readings, which gives `ORDER BY created_at` and the comparison of
`AckThrough` a total order; `seq` also stands for the random id drawn at the same place.
`PowerLimit` is the first n for which `power(2, n)::int` overflows (31 in the code):
from there on `MarkSent` fails, and `flushPending` ignores the error.

### PushDelivery

| Action | Code |
|---|---|
| `DeliverStart` | `deliverToRegistration` up to `Enqueue`: id and clock are read |
| `EnqueueCount`, `EnqueueInsert` | the `Enqueue` transaction in two parts, because `count(*)` takes no lock |
| `FlushBegin`, `FlushList` | lock, `store.Get`, `PendingForInstallation` |
| `FlushWrite`, `FlushWriteError` | one send, with either outcome; a frame on a lost connection is reported as sent |
| `FlushMarkSent`, `FlushAck`, `FlushMarkFailed`, `FlushEnd` | what follows a send, each statement a step of its own |
| `DeviceAck`, `DeviceResume` | `Ack` by the reader, `AckThrough` on a new connection; a device reports only events it received |
| `UpsertRegistration`, `DeleteRegistration`, `DeleteForInstallation` | as seen from the queue |
| `WorkerTick`, `WorkerCleanup` | `runDeliveryWorker` |
| `Tick`, `QueueCrash` | time, and the end of the process |

A statement reads the clock at the moment it runs. A failed statement, a crash or a
change of a registration is an *upset*, and `MaxUpsets` bounds how many there are.

### PushSystem

Each handler of `pushSocket` has a phase. `link` is what the server could find out about
the TCP connection: up, cut without anybody having noticed, or closed. `prev` is the
connection that `Attach` replaced and has yet to close, `target` the connection that
`Send` looked up before it writes, and `closing` the calls of `hub.Close` still to come.
Every action is an action of `PushDelivery` under more conditions or leaves the queue
alone, so the refinement mapping is the identity.

### EventSubInbox

One channel is modelled; of its title and category only the value that a message carries
counts. `Title[m]` is that value for a `channel.update`, `None` for other messages. `origin`
remembers the state the channel was first saved with. The webhook's transaction is split
where it looks at `eventsub_seen` (`HookCheck`) and where it inserts (`HookInsert`).
`WorkerList` is `store.List`, which answers with no registrations when its statement fails:
nobody is told, and the message counts as processed. `unlisted` is a history variable that
remembers for which messages this happened. `WorkerSave` fails whether or not the state was
saved: `SaveChannelState` passes its result through `fmtDatabase`, which turns no error into
an error.

### MobileAuth

An OAuth state, a handoff code, a credential and a session token are drawn once for each
sign-in, so one name, the attempt, keys the rows of all four tables. A request in progress
is a record with its current step, what it has read, and `alone`: whether another request
ran beside it. Whether a row is past its expiry is chosen by the statement that compares
it with the clock. Of a credential, its user counts and whether Twitch still honours the
stored refresh token.

| Action | Code |
|---|---|
| `StartMobileAuth` | `startMobileAuth`, with `PutPending`: one transaction |
| `CallbackBegin`, `CallbackStore`, `CallbackRefused`, `CallbackFault` | `twitchOAuthCallback`: `ConsumePending`; the exchange and `PutCredentialAndHandoff` |
| `CompleteBegin`, `CompleteExpired`, `CreateSession`, `CommitSession`, `CompleteUndo` | `completeMobileAuth`: `ConsumeHandoff`, the lease, `CreateSession` up to its last statement and its commit, `DeleteCredentialIfUnused` after a failure |
| `LeaseGet`, `LeaseRefresh`, `LeasePut` | `twitchOAuthClient.lease` under its striped mutex, for the three handlers that call it |
| `RegisterBegin`, `RegisterUpsert` | `upsertRegistration` |
| `SignOut`, `SessionExpired` | `DeleteSession`, `ResolveSession` of an expired row |
| `RevokeBegin`, `RevokeBinding`, `RevokeDevice` | `revokeMobileDevice`: how it finds out whose device it is, also when it is called again after a lost answer |
| `RevokeAllBegin`, `RevokeTargets`, `RevokeInstalls`, `RevokeList` | `revokeAllMobileSessions`: it collects its targets |
| `RevokeUnregister`, `RevokeDeliveries`, `RevokeInstallation`, `RevokeAccount`, `CommitRevoke` | the deletions of both, each statement or transaction a step |
| `Crash` | the process ends, open transactions are rolled back |

The transactions that end with `deleteOrphanCredentials` are split before their commit:
under READ COMMITTED the last statement sees what was committed when it began, and the
cascade takes what refers to the credential by the time of the commit.

### SettingsRegister and SettingsSync

Users do not share rows or locks, so one user's snapshots are modelled. `table` maps a
revision to its snapshot (content hash and writing device). `Put` and `Restore` are
`LockSettingsSyncUser`, `PutRead` or `RestoreSource` and `RestoreRead`, `InsertSnapshot`,
`TrimSnapshots` and `CommitSettingsSync`; `TxFault` is a failure of any of them, a lost
result of the commit included. `ReadSnapshots` is `Current` or `History`, which answer a
failed statement as if nothing were stored. In `SettingsRegister` a request takes effect
in one step, or answers with an error and has taken effect or not. The refinement maps the
register's revision to the newest row and its history to the table.

### EventSubRouting and EventSubSubscriptions

`Notifies` is the switch of `eventNotificationForRegistration` without the text it builds,
`DesiredOf` is `desiredEventSubSubscriptions` for one registration. The two are written in
different files of the code and have to agree; `Reconciled` compares them.

| Action | Code |
|---|---|
| `SaveRegistration`, `RequestReconcile` | a handler saves or deletes a registration, and then makes the non-blocking send, unless it reports an error after it saved: a commit whose result was lost, a revocation that fails later on |
| `LoopTick`, `LoopWake`, `LoopDrain` | the cases of the loop's select; the 750 ms wait; the draining of the channel |
| `AdminBegin` | `adminReconcileEventSub` or, with `wipe`, `adminDeleteEventSubSubscriptions` |
| `ReadRegistrations`, `ListSubscriptions`, `DeleteSubscription`, `CreateSubscription`, `ReconcileEnd` | one round, one call of Twitch at a time |
| `TwitchFails` | a failed list, deletion or creation, with what the round does about it |
| `Verified`, `GivenUp` | Twitch enables a subscription, or gives it up and sends a revocation message |
| `SubsCrash` | the process ends and starts again |

`unread` and `lost` are history variables: whose registrations changed since the loop last
read them, and which of these changes no request is left for, because the handler failed
or because the loop's `List` did. Of a round, `alone` says that nobody else changed
anything since it read the registrations, and `blind` that it could not read them.

### UserChat

`lives` holds up to `Lives` goroutines of each user, because a replaced session is
cancelled and not waited for; `sessions` is the manager's map. `Assign` is
`assignUserChatChannels`. A life goes through `SessionLease`, `SessionDial`,
`SubscribeFirst`, `SubscribeRest` (the four workers in any order), `Subscribed`, and is
then up until `SessionReconnect` or `SessionBreaks`; `SessionEnd` is the end of a
cancelled one. `UrlExpires` is Twitch forgetting the subscriptions it kept for a reconnect
URL.

`signedIn` are the users with an active session of the broker and a token that can be
leased. A registration is saved for a signed-in user and stays when the user signs out, is
signed out by expiry, or loses the token (`SignOut`): from then on `CredentialForUser` or
the lease fails, and `SessionLease` waits until the next `SignIn`.

Two things are assumed of Twitch, as the code assumes them: it sends `session_reconnect`
only after the welcome (`serveConnection` obeys one at any time, and would then skip the
subscriptions that were never made), and it answers the creation of a subscription with a
conflict only when this WebSocket session has that subscription (`createChatSubscription`
counts a conflict as success).

## Runs

| Run | Checks | States |
|---|---|---|
| `push_delivery` | `UniqueDelivery`, `DeathEarned`, `AttemptsBounded`, `CapacityOvershoot`, `AckNeedsReceipt`, `AckOnlyRaced` | 4.7 million |
| `push_delivery_live` | `Settles`, `FlushReturns` | 43,624 |
| `push_ack_final` | `AckIsFinal`, violated | |
| `push_system` | `HubLive`, `SupersededCloses`, `DetachOwn`, `ImplementsQueue` | 589,485 |
| `push_system_live` | `ReplacedEnds` | 161,011 |
| `eventsub_inbox` | `ProcessedOnce`, `CompletedDelivered`, `InboxDeathEarned`, `ReentryRaced` | 949,387 |
| `eventsub_inbox_live` | `InboxDrains`, `InflightFreed` | 258,807 |
| `eventsub_save_error` | `FailureHasCause`, violated | |
| `mobile_auth` | types; `Referenced`, `CredentialKept`, `RefreshTokenSafe`, `SessionLossExplained`, `RevokedOut`, `RevokedAllOut` | 1,599,607 |
| `settings_sync` | `WindowKept`, `LockSuffices`, `NoLostUpdate`, `ImplementsRegister` | 228,986 |
| `eventsub_subscriptions` | types; `RequestNotLost`, `Reconciled`, `CoverageLossExplained`, `Converges` | 645,183 |
| `user_chat` | types; `UpMeansSubscribed`, `SoleListener`, `AssignmentSound`, `ChatCovered` | 130,315 |

The type invariants of the queue, the sockets, the inbox and the settings are proved, and
therefore not checked again.

What the runs show of the inbox and of the last four, beside that the properties hold:

- `eventsub_inbox`: neither failed deliveries nor crashes let a message be completed while
  somebody has yet to be told. A failed `List` does: a new state of the channel is then even
  saved, and no later message announces it. `CompletedDelivered` sets the messages apart
  for which this happened, and shows that nothing else has the effect.
- `mobile_auth`: a request that runs alone keeps its credential, and a revocation that
  runs alone is complete, also when it repeats an earlier call. Overlapping requests can
  take a credential away from a sign-in or a lease, or delete a fresh session with an
  orphan's; `SessionLossExplained` shows that nothing else ends a session. A lease that
  overlaps a revocation may put the deleted credential back, and a sign-in that overlaps the
  revocation of its account may survive it: no property excludes either. A failure
  between Twitch's rotation of a refresh token and `PutCredential` loses the token.
- `settings_sync`: every request takes effect at once between its beginning and its
  answer. An error answer does not tell whether it did.
- `eventsub_subscriptions`: a change of a registration leads to another round whenever its
  handler makes a request. A handler that reports an error after the change was saved makes
  none, and a round whose `List` failed has not seen the change: both are left to the
  ticker, and `RequestNotLost` says that nothing else is. A round that nothing overlaps
  leaves exactly the wanted subscriptions. Two overlapping rounds can leave a duplicate or
  delete a wanted subscription, and a failed `List` counts as no registrations; the next
  ticks repair both.
- `user_chat`: a replaced session may still listen while its successor connects, but of
  the sessions that are not cancelled no two have a channel in common. The assignment does
  not ask who is signed in: a channel given to a user without an active session stays
  unheard although another watcher could listen, and `ChatCovered` promises nothing of it.

Two runs show where the code departs from what its tests expect.

- `push_ack_final`: the device acknowledges between the write of a notification and
  `MarkSent`. `MarkSent` does not look at the status, so the row is `sent` again and will
  be sent once more. `AckOnlyRaced` shows that this is the only way to lose an
  acknowledgement.
- `eventsub_save_error`: a `channel.update` is marked failed although no statement
  failed. A changed state is announced and saved, the message is retried, finds the state
  unchanged and is completed then.

### Bounds

Installations, events, producers, sockets, messages, hooks and workers are small sets;
symmetry is used for those whose elements play the same part, and only in runs without
liveness. In `push_delivery` the attempts (`MaxAttempts = 2`, `PowerLimit = 1`), the
capacity (one row) and the retention (one tick) are small enough for death by attempts,
the frozen backoff, overshoot and purge to happen within `MaxTime = 2` ticks, and the
two events have different lifetimes, so that one expires while the other is alive.
`MaxSeq = 3` allows a third call: with two the capacity could not be exceeded by more
than the property grants. `push_system` needs two sockets
of one installation and one event. In `eventsub_inbox` one `channel.update` arrives in two
concurrent calls, and a lifetime of one tick in `MaxTime = 3` leaves time for it to be
completed, forgotten and repeated; in `eventsub_inbox_live` the queue holds one message of
two, so that it is full when the second arrives. One installation is
enough for the queue, whose locks, rows and hub entries do not cross installations; the
proofs make no such restriction. `MaxTime`, `MaxSeq` and `MaxUpsets` are the only
artificial bounds of these modules, and they appear as guards of the actions they limit.

`mobile_auth` has two sign-ins and two requests at a time, on devices of which two are one
installation with different secrets and one stands apart, so that replacement, a foreign
device and a second installation of an account occur; all credentials share one mutex, the
coarsest striping. Sign-ins are used up (`Attempts` is finite), so the system may come to
rest and deadlock is not checked. In `settings_sync` one old revision is kept and four are
made: trimming, restoring a trimmed revision and conflicts happen with two devices.
`eventsub_subscriptions` has one channel and registrations with global, per-channel,
moderator-only and muted rules; it starts from nothing or from leftovers (a broken, a
working and a foreign subscription), and `MaxIds` allows for duplicates. In `user_chat`
three channels meet a limit of two per user, two lives per user allow for the overlap, and
the run starts with any of the users signed in.
`MaxChanges`, `MaxUpsets`, `MaxIds`, `Lives` and `MaxRevision` are the artificial bounds
here.

### Fairness

Liveness is checked under weak fairness of a goroutine's own steps, because the Go
scheduler runs every runnable goroutine and every statement and write has a timeout.
Taking a lock has strong fairness: `sync.Mutex` hands the lock to a waiter that has waited
too long. Tickers fire and time passes. A select on a closed connection is taken in the
end although a heartbeat may be ready too, because select chooses at random. The
reconciler's loop, its ticker, the rounds that were begun, the chat manager's ticker and
the session goroutines have weak fairness: each waits for nothing but timers and calls
with a timeout. That a call of Twitch fails, and that a user signs out, is an upset, of
which there are finitely many, so `Converges` and `ChatCovered` say what happens once these
stop. No fairness is assumed of Twitch, of devices and their users, of the admin or of
failures.

## Proofs

All theorems hold for every value of the constants under the assumptions next to their
declarations (`TableAssumption`, `DeliveryAssumption`, `InboxAssumption`,
`SyncAssumption`, `AuthAssumption`, `SubsAssumption`, `ChatAssumption`).

- **Queue** (`PushDeliveryProofs`, which begins with what each statement of `DeliveryTable`
  preserves). `QueueInvariant` proves `QueueInv`: types; a call under way has its arguments
  (`Addressed`); ids in use are below `seq` and no two calls share one (`IdsFresh`); the
  record in a flush's hand is a listed one (`InHand`); a listed row that still exists
  belongs to the installation and has an attempt left (`Listings`, `OpenHasAttempts`); a
  push is recorded only after it went out (`PushedReceived`). `UniqueDelivery`,
  `DeathEarned` and `AttemptsBounded` are not inductive without them: a stale batch could
  otherwise name any row. A step leaves a row as it is or changes it in one of five ways
  (aged, acknowledged, written, refused, created), and `TableStep` reduces the table's part
  of the proof to these. `NoDuplicateRows`, `DeathIsEarned`, `AttemptsStayBounded`,
  `AckRegressesOnlyRaced`, `AcksNeedReceipt` and `CapacityBounded` follow; the last needs
  finitely many producers.
- **Sockets** (`PushSystemProofs`). `HubInvariant` proves that attached handlers have a
  home (`Homed`) and with it `HubLive` and `SupersededCloses`. `DetachesOwn` is an action
  property. `SystemImplementsQueue` proves the refinement action by action, so every
  theorem about `PushDelivery` holds of `PushSystem`.
- **Inbox** (`EventSubInboxProofs`). `InboxInvariant` proves `InboxInv`: types; a busy
  worker has a message (`Assigned`); whatever is queued or processed is reserved
  (`Reserved`), from which `ProcessedOnce` follows; a call's clock reading is not ahead
  (`LooksBefore`); and `DeliveryInv`: the saved channel state was announced or is
  the original one, at most one worker is inside the channel lock, and what a worker
  believes of its deliveries is true. Announced means to everybody, or by a message for
  which the registrations could not be read. `CompletedWasDelivered` and
  `ReentryOnlyRaced` follow.
- **Settings** (`SettingsSyncProofs`). `SyncInvariant` proves `SyncInv`: types; the rows are
  a window of revisions without a gap (`Window`); what a transaction has read under the
  lock is still so, and what it is about to insert was allowed (`CallOK`); no two
  transactions hold the lock. Without the last two, `LockSuffices` is not inductive: a
  transaction that read an older table could commit. `WindowAlwaysKept`,
  `LockAlwaysSuffices` and `NoUpdateLost` follow. `StoreImplementsRegister` maps each commit
  to a write of the register, each refusal or failure to an answer, a crash to lost
  answers, and every other step to a stutter.

- **Broker** (`MobileAuthProofs`). `AuthInvariant` proves `AuthInv` and `Owned`: types;
  every row has its device and every session and handoff its credential (`TablesOK`); a
  request has what its next step needs, and a sign-in about to commit does not delete its
  own credential (`CallOK`); the sign-in a request works for has its device (`Owned`).
  Without the part about the commit `Referenced` is not inductive: the orphans were
  computed a step earlier, in another state. `EverReferenced` and `AuthTypes` follow. For
  `RefreshTokensSafe` the invariant grows by `TokenInv`: no two leases hold one stripe's
  lock (`LockHeld`), and without a failure a lease stores a good token (`PutGood`). For
  `CredentialsKept` it grows by `AloneInv`: beside a request that nothing has overlapped no
  other is under way, so that only its own steps count, and of these none deletes the
  credential before the session is committed (`StepNeeds`).
- **Revocations** (`MobileRevocationProofs`). `RevokeInvariant` proves `RevokeInv`: an
  installation has one session (`OneSession`, from the unique index that `CommitSession`
  checks); a transaction ends sessions of its own device, installation or account and
  expired ones (`TxFits`), also when other requests ran since it computed them, because a
  sign-in keeps its device for ever (`OwnersGrow`); and while no other request
  overlaps, what a transaction saw is still so (`TxExact`) and what the earlier steps of a
  revocation removed has not come back (`Unregistered`). The commit alone does not tell why
  its session had to go: that was decided a step earlier, which is why the invariant has to
  carry it. `SessionLosses`, `DevicesRevoked` and `AccountsRevoked` prove the three action
  properties from it.
- **Reconciler** (`EventSubSubscriptionsProofs`). `RequestsNotLost` needs nothing more than
  that every run has a step (`Runs`), and speaks of each installation's changes on their
  own. The other theorems rest on `SubsInv`: types; no two subscriptions have one id, and
  what a run is about to delete is this server's (`StateInv`); and of a round that could
  read the registrations and that nothing has overlapped (`RunOK`): it wants what the
  registrations call for (`Current`), of the usable subscriptions with a wanted key it
  leaves one (`Spared`), and unless something failed those that it leaves are one for each
  wanted key that is done (`Exact`). `Exact` is what makes `Reconciled` inductive: the
  deletions and creations come one call at a time, in any order. `ReconciliationExact` then
  needs that `desiredEventSubSubscriptions` and `eventNotificationForRegistration` agree for
  every rule, channel and registration (`NotifiedWanted`, `WantedNotifies`). `SubsTypes` and
  `LossesExplained` follow.
- **Chat** (`UserChatProofs`). `ChatInvariant` proves `ChatInv`: types, and for each session
  that what it has subscribed and what is left to do make up its channels unless a
  subscription failed, and that what Twitch keeps for a reconnection is complete (`LifeOK`).
  `UpIsSubscribed` and `ChatTypes` follow. The assignment is the function that gives every
  channel to the candidate picked for it by the loads so far. That there is one
  (`GivenExists`) is shown without induction: were there none, a least number of channels
  could not be given away in order (`FirstExists`), but one channel more can always be,
  since its loads depend on earlier channels only (`LoadsEqual`). For the same reason there
  is only one (`AssignmentUnique`), so what the model chooses is what the loop of
  `assignUserChatChannels` computes. `AssignmentsSound` looks
  at the last channel that a user is given: it found room, so the user is within the limit,
  and a channel that nobody takes met loads at the limit. `SoleListeners` adds `ListenInv`:
  a goroutine that does not exist has no channels left, the manager's map and the
  goroutines that are not cancelled agree, and these share no channel; a reconciliation
  keeps it because no channel is assigned twice (`AssignDisjoint`) and because a new
  session takes a number that no goroutine still has (`FreeExists`). Of the constants these
  proofs need that users and channels are finitely many and that every registration
  belongs to one of the users or to none.

Only model-checked: the liveness properties (`Settles`, `FlushReturns`, `ReplacedEnds`,
`InboxDrains`, `InflightFreed`, `Converges`, `ChatCovered`), because TLAPS 1.4.5 does not
reason about fairness.

## Not modelled

- WebSocket framing, the HTTP upgrade, the pre-authentication semaphore; signature checks
  and the callback challenge of the webhook.
- Encryption, hashing, scopes and URLs of the OAuth broker; the browser redirect, which only
  reads; the revocation of an access token at Twitch, whose failure is ignored.
- The length of backoffs, and the shutdown of chat sessions.
- The rate limiter: token buckets over real-valued time behind one mutex, read by nobody
  else. The metadata cache, senders, audit log and configuration hold no state that another
  component depends on; the in-memory stores serve tests; pool, migrations and JSON import
  run before the service does.
- The limits of lists that no bound here reaches: 512 messages per drain, 1000 for the
  admin's retry, eight installations at a time in the delivery worker.
- Panics of a worker: they are recovered and treated as an error, which the model has.

## Plan

In this order, the most important behaviour first:

1. done: `DeliveryTable`, `PushDelivery`, `PushSystem`, `EventSubInbox` and their proofs.
2. done: `MobileAuth`.
3. done: `SettingsSync`, its refinement of `SettingsRegister` and the proofs.
4. done: `EventSubRouting` and `EventSubSubscriptions`.
5. done: `UserChat`.
6. done: proofs of the safety properties of `MobileAuth`, `EventSubSubscriptions` and
   `UserChat`.
7. `RateLimit`: buckets in scaled integers, eviction.
8. A composition of `EventSubInbox` with `PushDelivery`: `delivered` as the rows of the
   queue.
