# Verification of topics.club

topics.club is an IRC service. A user's IRC connections are kept open by the
server, whether or not a browser is looking, and everything that arrives on
them is stored. Three Elixir applications share the work:

* **Wirekeeper** (`apps/topics_club_wirekeeper`) runs on a node of its own and
  owns the sockets. It buffers what arrives while the engine is down or being
  deployed, and replays it.
* **The engine** (`apps/topics_club_engine`) runs one Session per connection,
  parses IRC, persists its effects and executes the user's commands.
* **The gateway** (`apps/topics_club_gateway`) serves browsers, pushes events
  to them and sends notifications. `apps/topics_club_core` holds the schemas
  the two share, and the gateway's `assets/` the browser client.

The path that must not lose, reorder or repeat anything is the one from the
socket to the database: *Wirekeeper buffer, consumer mailbox, parser, effect
transactions, acknowledgement, eviction*. Every step of it runs in another
process, two of them on different nodes, and each can crash alone. This is
the core of the system, and what is modelled and proved in most depth. The second subject is
the **browser**, where a picture of the same data is kept up to date by snapshots,
realtime frames, answers and a service worker that do not wait for each other.

## 1. Inventory

Each part with its state, its operations, whom it talks to, what is hard about
it and what makes it correct. PROJECT.json lists the same parts under
`components` with their source files, and under `hazards` the lines at which
they can go wrong.

### Wirekeeper

**Connection** (`wirekeeper/connection.ex`, `buffer.ex`). A GenServer per open
socket: a *generation*. State: socket and status; the replay buffer, an ETS
table from sequence to payload with a record bound and a byte bound, and the
count of dropped records; the attached consumer, what is in flight to it, the
acknowledgement watermark, the opaque parser checkpoint and the sequence it
belongs to; the idempotency keys already sent. Operations: attach, detach, ack,
ack with checkpoint, put checkpoint, send, send once, close; socket data,
closure and errors; retention of a closed connection as a *tombstone*.
Talks to: the consumer (a Session) by asynchronous messages that may be refused
(`Delivery.send`), to the adapter, to its watcher. Hard: seven callers of
`dispatch_available`/`maybe_notify_closed`, bounded credit, coalesced overflow
notices, eviction of records in flight, a closure that must come last.
Correct when: no record disappears without gap evidence; delivery is in order
and never stalls while there is credit; the checkpoint belongs to the
watermark; a keyed send is made once; the closure is the last message.

**Consumer watcher** (`consumer_watcher.ex`, `delivery.ex`). A process per
attachment that monitors the consumer, so that a monitor of a remote pid never
blocks the connection. Hard: it may report late, after the next attachment, or
die itself. Correct when: a dead consumer is always detached and a stale report
never detaches a live one.

**Manager** (`manager.ex`, `supervisor.ex`, `connection_supervisor.ex`,
Registry). Opens connections through tasks, with a limit of pending opens and
of connections, and cancels an open whose caller dies. State: reservations by
key, task and caller monitors; the Registry's entries are written by the
connections. Hard: limits checked before a connection registers, crash and
restart under `:rest_for_one`, cancellation at any point of an open. Correct
when: sockets stay within the limit, keys are released, callers answered, and a
cancelled open leaves no socket.

**Protocol adapters** (`protocol_adapters/`). Pure: turn a chunk of bytes into
replies (PONG) and forwarded records.

**Sockets and application start** (`socket.ex`, `application.ex`): input and
output and options.

### Engine

**Session** (`irc/session.ex` and `irc/session/`). A GenServer per connection
row that owns the Ircxd client. It is really several state machines in one
process:

* *ingestion* (`wirekeeper_ingestion.ex`): the queue of receipts of the records
  handed to the client, the index of the next effect, the failed receipt and the
  retry flag; claims, acknowledgements, retries. Correct when: a record is
  acknowledged only if its effects are committed, and committed once however
  often it is replayed.
* *connection retries* (`connection_events.ex`): attempts, backoff timer, node
  monitor, user-visible status.
* *JOIN lifecycle* (`join_lifecycle.ex`, `membership_events.ex`): pending, sent and
  joined channels against membership rows.
* *commands* (`command_lifecycle.ex`): pending commands, their timers and
  correlation with numeric replies.

**Transport adapter** (`wirekeeper_transport.ex`). Runs in the Ircxd client:
opens or attaches, resumes from a checkpoint or replaces the generation,
acknowledges. Every remote call may take effect and still return
`:unavailable`.

**Claims and their releaser** (`chat/irc_ingestion_effect.ex`,
`ingestion_claim_releaser.ex`). A row per committed effect; rows are deleted in
batches after the acknowledgement, and after a crash by comparing rows with
Wirekeeper's watermark. Correct when: no claim goes while its record can be
replayed, and all go in the end.

**Effects** (`chat/`): messages, events, unread counts, presence, notification
jobs, one transaction per effect.

**Session supervisor, operation lock, connection deletion**
(`session_supervisor.ex`, `connection_operation_lock.ex`,
`connection_deletion.ex` and its workers): starting, stopping and deleting
connections, mutually excluded per connection by a re-entrant queue lock that
loses its state when it restarts, and made durable by intents and jobs.

**Channel list cache** (`channel_list_cache.ex`, `channel_list_request.ex`):
pending fetches and invalidation. **Engine API** (`engine/`): validation and
dispatch.

### Gateway and browser

**Node connector** (`engine_node_connector.ex`) and **restorer**: retry
timer and status, restore queue with bounded concurrency. **Read state and
history**: counters against concurrent ingestion. **Discovery refresher**:
single-flight refresh. **Accounts, pages, routing**: single-row requests.

**Chat client** (`assets/js/topics_club_app.tsx`, `hooks/use_server_connections.ts`,
`use_realtime_connection.ts`, `use_channel_directory.ts`, `connection_store.ts`,
`bootstrap_state.ts`). State: servers, channels, conversations with their revisions,
the selection, a refresh in flight and the queue of frames held back for it,
rejection versions of left channels, the channel directory and its requests.
Written by four parties: the bootstrap replaces it, frames change it in order,
answers of pushes and requests when they come, and the user selects. Hard: an
answer newer or older than a frame; two refreshes wanted at once; a reconnection in
between; a removal under the selection. Correct when: the picture is the truth once
everything has arrived; the selection exists; a listing answers what was last asked.

**Buffer timeline** (`hooks/use_buffer_messages.ts`, `chat_store.ts`). State: the
messages on show, pending ones, pages being fetched, the state of hydration. Hard:
frames, bootstrap pages, older pages, reconciliation and sends are merged in any
order, into a list that is trimmed. Correct when: no message between the oldest on
show and the newest is missing, none is shown twice, and statuses converge.

**Notifications** (`push_notifications.ts`, `priv/static/service-worker.js`, the
gateway's sessions and `push_subscriptions`). State: the installation record in
localStorage, shared by all tabs; the browser's push subscription; rows bound to a
session generation; the worker's account, leases of healthy pages, handlers under
way. Hard: sessions rotate and end under requests in flight; synchronizations of
several tabs overlap; a push is judged over four asynchronous steps, and what it is
judged by changes meanwhile; a delivery deletes registrations without telling the
browser. Correct when: a device confirmed for the browser's session is registered
with it, unless a delivery has found its endpoint gone; and a push is shown,
suppressed or dropped for a reason that is true.

## 2. Modules

| Module | Models |
|---|---|
| `WirekeeperConnection` | one generation: connection, buffer, watcher processes |
| `ReplayFeed` | abstract: what a generation promises its reader |
| `WirekeeperConnectionFeed` | the first as an implementation of the second |
| `IngestionPipeline` | Session ingestion, client, transport adapter, claims, releaser, composed with a generation reduced to what the Session sees of it |
| `WirekeeperManager` | Manager, open tasks, ConnectionSupervisor, Registry |
| `ChatClient` | the browser's picture of the user's connections |
| `BufferTimeline` | one buffer's messages in the browser |
| `NotificationDevice` | Web Push: pages, service worker, registrations, sessions |
| `WirekeeperConnectionProofs`, `WirekeeperFeedProofs`, `WirekeeperManagerProofs`, `IngestionPipelineProofs`, `NotificationDeviceProofs`, `ChatClientProofs`, `BufferTimelineProofs` | theorems about them |
| `NumberLemmas` | least, greatest and listing of finite sets of numbers |
| `MC*` | values and symmetry sets for TLC |

### WirekeeperConnection

`conn` is the GenServer state, a record with the fields of the code's struct.
Two fields are history: `delivered`, what the current consumer has in its
mailbox, and `told`, whether it knows of a gap. Each private function of the
code that may send a message is an operator from a state to the *set* of states
it may return, because any send may be refused (`Deliver`): `DispatchAvailable`,
`NotifyOverflow`, `MaybeNotifyClosed`, `TransitionClosed`, `AcknowledgeThrough`.
Each handler is one action that composes them in the order of the code and ends
by picking one result. A socket chunk is the exception: its adapter actions are
applied one at a time (`chunk`), because each can end the chunk; no other handler
runs in between (`Idle`).

`watchers`, `signals` and `dead` are the processes around it: a consumer dies, its
watcher reports, or is killed, or its report is overtaken by the next attachment;
the link to a consumer's node breaks while the consumer lives. `wire` counts what a
key may have put on the wire, a failed send included.

Payloads are their sizes; a checkpoint is present or absent; a call with a wrong
generation or argument is a stuttering step.

### ReplayFeed

A numbered feed with one reader at a time: records are kept or given up to newer
ones, with evidence; the reader is given the oldest first, each once, at most
`Window` unacknowledged and never fewer than it could have; the watermark moves only
to a record it was given; the end is told last. `WirekeeperConnectionFeed` maps
the GenServer state to it (`kept` is the set of sequences in the table, `final` is
`closureNotified`). In-flight lists, byte bound, pending notifications, checkpoints,
keys, watchers and signals have no counterpart: their steps stutter, or show as
`Leave`.

### IngestionPipeline

`wk` is the live generation of the connection's key, with the operators of a
generation (attach, detach, ack, close, dispatch) that the Session can observe;
`WirekeeperConnection` is the detailed version of it. `inbox` is the Session's
mailbox in order, `session` the ingestion part of its state, `client` the Ircxd
client with the transport handle and its own mailbox, `claims` the table, `pending`
what the releaser holds in memory. Each message the Session takes is an action
(`Take...`), with the whole handler in it, the remote call and its failures included.
Histories: `applied` counts commits per effect, `acked` the records Wirekeeper
acknowledged, `misfiled` the records one of whose events was filed under
another receipt than its own. `MaxFaults` bounds failures of every kind together.

Ircxd is not in the repository. It is modelled from how `session.ex` and
`wirekeeper_transport.ex` use it: it processes what it is handed in order, sends a
record's events before its acceptance, and drops what belongs to another handle.

### WirekeeperManager

An accepted open is an attempt, whose number stands for task, generation and
connection process. `manager.openings` is the map of reservations, `mail` the
messages of tasks and monitors, which the Manager may take in any order across
senders, `starts` the ConnectionSupervisor's queue, `tasks` and `conns` the
processes. A task that has reported and not yet exited is `"done"`: it still counts
for its supervisor. Exit signals of a crash take effect at once, and a process and
its Registry entry go together.

### ChatClient

The server (`truth`) is external and reduced to what the client can tell:
operations of the user and of others change it and publish frames; conversations'
frames are published after their transaction and may overtake each other. `ui` is the
picture, `refresh`, `again` and `queue` are `refreshAuthoritativeBootstrap`, its flag
and `queuedRealtimeEventsRef`, `calls` the pushes and requests whose answers are
awaited, `listing` the channel directory and discover state. A snapshot is the truth
of the moment the request was served. `ApplyFrame` and the operators it is
made of are the handlers of `use_server_connections.ts`, `ApplyBootstrap` is
`applyBootstrap` with `BootstrapBuffers.active_id`. Histories: `unsure` is what
answers, failed refreshes and frames held back since before a reconnection have
written since the last refresh began, `ui.skipped` the counts not taken because their
channel was in view. An answer carries what it was decided on (`held`): the rejection
version read before the request, where the code reads one.

Reduced: the page is loaded at its root, and a route that echoes the selection is
not modelled, so that a directory request is cancelled by the join of a command at once
and not by the route's effect after other selections (more late answers count); frames
and answers are the valid ones the server sends; React's effects
run before the next message; a request that never arrives is a refused one; deleting
a server follows the publication of its conversations' frames. Presence, preferences,
topics, the landing page and a listing asked for by the removal of the selected
server are left out.

### BufferTimeline

`log` is what the server has stored, in the order of storing, which is also the
order of time (`pageContinuesHistory` then never restarts). `timeline` is the list on
show, with pending messages as negative ids at the place their clock gives them;
`recon`, `loadingOlder` and `hydration` are the requests of
`use_buffer_messages.ts`, `refresh` and `queue` the bootstrap and the frames waiting
for it, `sends` the pushes of messages with their answers. `Sorted`, `TrimToLimit`,
`AppendTimeline`, `MergeOlder`, `MergeNewer` are the functions of `chat_store.ts`. Its
sort and its filters are written by rank, with `Cardinality` and a choice (`Place`,
`Nth`), and frames are applied by a recursive function, so that the prover can expand
them.
Both batches of a reconciliation are answered at one instant. Pruning of stored
messages and lines the client makes up itself are not modelled.

### NotificationDevice

`owner` lists the session generations there have been; `valid` are those whose token is
in the database and not too old, `cookie` is the browser's, `Live` the browser's if it is
valid. Sessions end in the browser (`LogOut`, `LogIn`, `ResetPassword`), elsewhere
(`ResetElsewhere`) or with time (`SessionExpires`); the token of one that is too old stays,
with its registrations. `rows` are the registrations, `stored` the
localStorage record, `pages` what each tab believes, `tasks` the synchronizations and
set-ups under way, each a sequence of steps (`Look`, `SaveServed`, `SaveAnswered`,
`Unsubscribed`, `Subscribed`) that finds at each resumption whether it was
superseded. `mail`, `leases`, `account`, `refreshes` and `handlers` are the worker.
Permission is granted and push configured; a request is sent and served at once,
except a save, whose session may change on the way; putting into the cache and
closing notifications is one step; a cap or rate limit shows as a save that fails; a
log-in of the same user is a rotation.

`Deliver` is `deliver/1` up to the end of its transaction: of the user's registrations
those whose session is too old are deleted, the others are sent to, and the push service
may answer of any endpoint that is not the browser's any more that it is gone.
`DeleteExpired` is what `finalize_deliveries/1` does later with such an answer: it
deletes that row, and not one that was inserted since. `removed` are the sessions that
lost their last registration in this way. `muted` are the notifications for which
`delivery_record/2` has no record or one that is not enabled, for any reason but being
read: mentions are turned off for the server or the channel, the thread is blocked or
closed, the server is being deleted, the message is no mention any more. `Mute` and
`Unmute` are the operations that make it so or not; the reasons are not told apart.

Left out are installing a worker, the storage of a click's target, retries of a delivery
and its limit of five registrations, row locks within one transaction (a delivery is one
step against rotations and log-outs), and `DELETE /api/push_subscriptions`
(`push_registrations.ex:106-113`): the client has a function for it
(`api_client.ts:108`) that nothing calls.

An unsubscribe issued by a superseded task may remove a subscription a
newer one has confirmed, so that *subscribed* does not imply *deliverable*: only
`ConfirmedIsRegistered` is claimed. Nor need the registration have the installation
that localStorage confirms; section 4 tells how that was found. `Nth` and `Only`
filter a sequence with quantifiers, not with the recursive `SelectSeq`, so that
the prover can expand them.

## 3. Runs

Sizes are distinct states.

`CHECK_DEADLOCK FALSE` is set in every run: the models stop when their bounds are used
up, and a stopped connection really does nothing more.

| Run | Question | Instance |
|---|---|---|
| `connection_replay` | Is a record ever lost silently, delivered out of order, stalled, or acknowledged unseen? Is the connection a ReplayFeed? | 2 consumers (symmetric), 4 records of sizes 1, 3 and 4 against a bound of 3 bytes and 2 records, 2 credits, 2 attachments (1.6 million) |
| `connection_watch` | Do dead consumers, stale reports, tombstones and keyed writes end well? | 1 consumer, 2 keys, 1 record, 3 attachments, with fairness |
| `ingestion_replay` | Is an effect applied once, and acknowledged only when applied? | 2 effects per record, 3 records, 2 generations, 2 Session incarnations, 2 faults |
| `ingestion_recovery` | Are claims deleted and failures retried in the end? | 1 effect, 2 records, 2 generations, 2 faults, with fairness |
| `manager_limits` | Limits, reservations and cancellation | 3 keys (symmetric), 3 opens, limits of 2, 1 crash |
| `manager_answers` | Is every caller answered? | 2 keys, 2 opens, 1 crash, with fairness |
| `client_sync` | Does the picture converge, and is what is selected and listed there? | 2 servers, one of them added later, 2 channels, 1 conversation, 1 query; 2 events of others, 1 lost socket or request (870 thousand) |
| `timeline` | Is a message missing, doubled or out of date when all is quiet? | channel and direct conversation, 3 to 5 messages, limit 3, bootstrap page 2, older page 1, 4 steps, 1 drop (1.9 million) |
| `notifications` | Is a confirmed device registered, and is the verdict on a push justified? | 2 users and 2 tabs (symmetric), 2 pushes, 3 steps, 1 drop, 1 lease (1.1 million) |
| `ingestion_lost_ack`, `ingestion_replaced`, `manager_raise` | Documented claims that the code does not keep (section 6) | |

**Properties.** `TypeOK` is the one type invariant of a module. Of the connection:
`NoSilentLoss` (while nothing is counted as dropped, the table is exactly the interval
above the watermark), `RefinesReplayFeed` (above), `GapIsTold` (an attached consumer has been told of every drop,
although notices are coalesced), `DeliveredInOrder`, `ClosureIsLast`,
`NoStalledDelivery` (records wait only while the credit is used up), `MailboxBounded`,
`CheckpointAtWatermark`, `AckCoversDelivered` (an action property: the watermark grows
only to a record this consumer was given), `SentAtMostOnce`, `DeadConsumerIsWatched`,
`StaleSignalIsHarmless`, and the liveness properties `DeadConsumerIsDetached` and
`TombstoneExpires`. Of the pipeline: `GuardedEffectsApplyOnce`,
`AcknowledgedWasApplied`, `ClaimsOutliveReplay` (an action property), and the liveness
properties `ClaimsAreReleased` and `FailureIsRetried`. Of the Manager:
`SocketsWithinLimit`, `CancelledLeavesNothing`, `ReservationsAreHeld` and the liveness
property `OpensAreAnswered`. Of the chat client: `IdleHasNoQueue` (no frame is left
behind and no wanted refresh forgotten), `Converged` (once all is quiet, servers,
statuses, memberships, counts and conversations are the server's), `SelectionIsShown`,
`ListingsAnswerTheLatestRequest`, `RevisionsNeverFall` (an action property). Of the
timeline: `NothingMissing` (between the oldest message on show and the newest there is
none missing), `StatusesConverge` (what is shown as pending has a push that waits, and a
command's status is the server's), `NoDuplicates`, `HydratedIsComplete` (a conversation's
history that counts as fetched is all of it). Of notifications: `ConfirmedIsRegistered` and `PushVerdict` (an action property: shown
only for a session the browser had since the push came and if it was not read before;
dropped only when the session changed or ended, a request failed, it was read or is not
wanted now; suppressed only for a visible page that is joined, or has
a message about that on its way).

**Why the bounds are enough.** Sizes 1, 3 and 4 with three bytes give a record that fits
beside others, one that evicts all others, and one that is oversized; with two
records and two credits, eviction happens by count and by bytes, of pending records
and of records in flight. Four sequences let a cumulative ACK cover two records,
with two more behind them. Two attachments let records be redelivered to the same and
to another consumer. The watch run needs three attachments, so that a report can be
two attachments old, and no data beyond one record. In the pipeline two effects per
record separate *the first failed* from *the second failed*; three records with two
retained give a gap; two generations give replacement; two faults allow a failure
during the recovery from a failure. In the Manager three opens exceed every limit
by one. In the client two servers let a removal move the selection to the other,
one conversation gives overtaking frames, and one drop gives a reconnection with frames
and a refresh of before it; of the six steps a listing counts three, a join or a
navigation four, another operation of the user five, so that a listing can meet another
one, a join two events of others, and the rest one. (With four for all of them, 2.3
million states, nothing was violated either.) In the timeline a
limit of three with five messages trims at both ends, and four steps let a post and
a drop meet a hydration and a reconciliation. In notifications every push and drop
costs a step, a new password and a log-in over a valid session two; three steps are a
rotation between two tabs' synchronizations, a push across a change of session, or a
subscription lost, a delivery that deletes its registration, and another event; a
notification that stops being wanted while its push is judged takes two; a fourth step exceeds
the time of a run and showed no violation in 14 million states. Random walks
through larger instances (a timeline with limits of 3 to 6, up to twelve messages and
sixteen steps; the client with 20 and with 40 steps), tens of millions of states each,
violated nothing.

**Fairness.** *Connection*: a handler that has started ends and timers and monitors
fire (weak fairness of the chunk steps, `WatcherReports`, `RetentionExpires`); a
signal in a mailbox is not passed over for ever, although the process may be in the
middle of a chunk time and again (strong fairness of `TakeSignal`: a mailbox is first
in, first out). *Pipeline*: the live Session
and client take the messages they have, the watcher reports, and the releaser's
periodic recovery comes round for every generation (`recovery_interval`); the flush
is not relied on, as its input dies with the engine. *Manager*: its supervisor
restarts it, processes that can run do, a connection attempt ends because of its
timeout, and a connection that failed stops. The three browser modules are
checked for safety only: their convergence is stated of quiet states, because
nothing obliges a network to deliver. Nobody is assumed to call, to
acknowledge, to close or to die.

**Mutants.** Beside a definition stands, marked *Mutant*, the form a plausible bug
would give it: a sequence not advanced, a drop not counted, an ACK without new
dispatch, a link not made, an index not reset. No specification refers to them. With
the definition replaced by its mutant, TLC finds the property violated: that is how we
know that the property depends on the code. PROJECT.json pairs each property with one.

## 4. Proofs

Seven modules hold theorems about specifications, for every value of the constants,
from the assumptions the modules name: positive bounds, natural sizes, a nil that is
no pid, no user and no number, positive limits, ids of
servers, channels and conversations that differ by their prefixes. `NumberLemmas` holds what they need of
finite sets of numbers.

| Module | Theorems |
|---|---|
| `WirekeeperConnectionProofs` | `TypeCorrect`, `LossIsNeverSilent`, `CheckpointIsAtWatermark`, `DeliveryIsInOrder`, `ClosureComesLast`, `GapsAreTold`, `SendOnceIsOnce`, `StaleSignalsAreHarmless` |
| `WirekeeperFeedProofs` | `ImplementsReplayFeed`, `DeliveryNeverStalls`, `CreditBoundsMailbox`, `DeadConsumersAreWatched`, `AcksCoverDelivered` |
| `WirekeeperManagerProofs` | `ManagerTypeCorrect`, `LimitIsKept`, `CancellingIsFinal`, `ReservationsAreNeverOrphaned` |
| `IngestionPipelineProofs` | `PipelineTypeCorrect`, `ClaimsAreKeptForReplay`, `EffectsApplyOnce`, `AcknowledgedIsDone` |
| `NotificationDeviceProofs` | `DeviceTypeCorrect`, `ConfirmedRegistered`, `PushesEndWell` |
| `ChatClientProofs` | `ClientTypeCorrect`, `QueueIsNeverLeft`, `SelectionStaysShown`, `ListingsAreCurrent`, `RevisionsGrow`, `PictureConverges` |
| `BufferTimelineProofs` | `TimelineTypeCorrect`, `NothingShownTwice`, `TimelineHasNoHoles`, `StatusesComeTrue`, `HistoryIsWhole` |

**The connection.** None of its invariants is inductive alone. `DeliveredInOrder` needs
to know that what is in flight was delivered and that sequences are below `next`;
`GapIsTold` needs that a coalesced notice (`overflowPending`) is one the consumer has
had; `ClosureIsLast` fails in the middle of a handler, where a closed connection may
be drained and not yet stopped. The invariant is therefore stated of a GenServer state
`c`:

    Core(c) == Shape(c) /\ NoLoss(c) /\ Checkpointed(c) /\ InOrder(c) /\ Told(c) /\ LastIsClosure(c)

and `IInv` is `Core(conn)`, the types of the other variables, `Drained(conn)` (which
holds between handlers and so is kept out of `Core`), that only an open connection is
applying a chunk, and the tie between written keys and `wire`. The proof follows the
code: one lemma for each private function says that what it returns from a state of
`Core` is a state of `Core`, one lemma per action composes them, `NextIInv` is the case
split over `Next`. `LossIsNeverSilent` is the one to read first: eviction by count and
by bytes, oversized records, refused sends, and every order of attaching and
acknowledging, lose no record without evidence.

**Delivery and refinement.** That delivery never stalls is a statement about the end of
a handler: in the middle of one, an acknowledgement has freed credit that is not yet
used. `FlowInv` adds to `IInv` what every returned state satisfies (`Credit`: in flight
is exactly what was delivered above the watermark, and within the bound) and what
only the last state of a handler does (`Settled`: no record waits while there is
credit, and a drained closure has been told), and that an attached consumer is watched
or its watcher's signal waits (`Watched`). The refinement uses the same lemmas:
each private function `Moves` the feed, an action is one abstract step on what is
left after them, and the handlers that deliver nothing stutter. `AcksCoverDelivered` is
then read off the feed.

**The Manager.** The limit counts what is registered *and* what is reserved
(`Limited`), by key and not by attempt, since a registration and its reservation
overlap. To show that a reservation cannot be orphaned, `MInv` says of each task what
messages it can have left (`Reported`), that a task at work has its key (`Reserved`),
that a queued start belongs to a task that does not know its child yet (`Queued`), and
that unused attempts have left no trace (`Unused`, `InOrder`).

**The pipeline.** `ClaimsOutliveReplay` speaks of the claims table and Wirekeeper's
watermark; between them are a mailbox, a client and a releaser that is told by
receipt. The invariant `PInv` says that everything which names a record anywhere (a
message, a delivery, a queued receipt) names one of a generation that was opened,
and `Released`: a receipt the releaser holds is at or below the watermark if its
generation is the live one. The step that counts is `TakeAccepted`, which hands over
the *head of the queue* if its sequence is the acknowledged one, whatever its
generation; and `OpenFresh`, after which no receipt held can be of the new
generation. That the head may be of another generation than the acknowledged record
(a finding of section 6) is why the theorem needs both.

**Once and not too early.** `GuardedEffectsApplyOnce` and `AcknowledgedWasApplied` need
to know where each record is. It passes through the arrivals, the deliveries with
their queued receipts, and the works of the client, and each of these is kept in
the order of sequences (`Ordered`, `Staged`); `Spanned` and `Window` relate them to the
watermark. The Session is in one of three modes (`Mode`): in step with Wirekeeper;
lagging by one record whose acknowledgement was lost; or stale, with a first receipt
of a generation that is gone. `Progress` says of each effect of a record still retained
that it is committed, is sent and in the mailbox, is yet to be parsed, or was filed
elsewhere; `Tallied` that rows of the live generation and commits belong together.
TLC checked this invariant, before it was proved, on an instance with 2.85 million
states. The step that decides is the acknowledgement (`AckAdvances`): the head is
accepted only when nothing before it is open, so that all earlier effects are done. For
the events it is that an event is filed under the head of the queue (`EventFiled`,
`EventTallied`), which is the event's own record in step and one the property excuses
in the other two modes.

**The device.** `DInv` says of the browser, the worker and the gateway what relates them
between two of their steps. For `ConfirmedIsRegistered`: a save that can still be served
is of the browser's session (a request of a session that was replaced finds it
invalid), so that serving it leaves that session a row, and what is confirmed by a
late bootstrap was true of the same session when the bootstrap was made. What a session
has is therefore not a row but `Evidence`: a row, or the mark that a delivery took the
last one. No step but the end of the session takes it away: a registration
replaces rows of the same user and endpoint, of which there is one at a time
(`RowsOK`); a rotation and a log-in move rows; a delivery deletes rows of sessions that
are too old, which are not `Live`. A current task
has its page's generation. For `PushVerdict`: the last lease message of a page reflects
the page, and if there is none its lease does; the account the worker stored from a
handler's own answered refresh is the handler's session unless the session changed or
the request failed meanwhile; each refresh queued for a handler belongs to one handler
that waits for it. The deciding lemmas are `RegisteredIs`, `LeasesMail`,
`RefreshStoredKeeps` and `DecideKeeps`. TLC checked `DInv` on the states of the run and
in simulations of nine steps before it was proved.

The attempt to prove more than `ConfirmedIsRegistered`, that once nothing is under way the
registration is of the *installation* that localStorage confirms, failed for a reason.
`register/4` takes the row of the endpoint first and deletes, besides, what has the
installation (`push_registrations.ex:56-95`). A superseded save that is served late may
therefore delete the row of the newer one: user u registers endpoint e1 and loses
the cookie; v logs in, its save is refused because u owns e1, and it begins to
unsubscribe; u logs in again, and its save of e1 with a new installation i4 is slow;
v's unsubscribe takes effect, a focus subscribes e2 and saves (e2, i4); now the slow save
arrives, finds e1 known under i1, deletes (e2, i4) by its installation and leaves
(e1, i1). localStorage confirms i4, of which there is no row, and the one that is left
has a dead endpoint. TLC finds this with six steps; the run's three do not reach it. The
session has a registration all the time, which is what is stated and proved.

**The chat client.** Everything that writes the picture is an operator from a picture to
a picture, and each of them makes one that `Follows` the one it is given: the servers
of what is shown are known, the selection is shown if it was before, and no thread's
revision is lower. One lemma per operator says so, from `Drop` and `Select` up to
`ApplyFrame`; `ApplyFramesFollows` carries it over a queue of any length (by the least
number of frames after which it would fail: the library's induction takes an operator,
which these provers cannot instantiate), and `BootstrapSelects` over a snapshot, which
selects anew. That owners are known is part of the relation because otherwise a
selection that falls back on another buffer could land on a server that is gone.
What remains is that every value such an operator is given is of the kind it expects,
and this is where frames, replies and calls meet: in `CInv`, an answer on the socket is
there once and has exactly one call waiting (`WireOK`), a call that was answered holds a
reply for the buffer it is about, for `/msg` one that opens the thread (`Fits`), and a
listing request is not ahead of its counter, and asked for what was asked last if it is
level with it (`Asked`). An update that is answered by a disconnected server turns into
a reconnect under the same reference; a lost socket takes the answers along, so that no
call is left whose answer is both lost and on its way. TLC checked `CInv` on the states of
`client_sync` before it was proved.

**The picture when all is quiet.** `Converged` compares the picture with the state of the
gateway once nothing is under way, and again this is so because of what was still to
come. `PictureInv` has three parts. `TruthInv` is what holds in every state of the link: a
frame that waits or is on the socket, a snapshot, an answer and the picture speak of
servers that were created and of no revision a thread has not had; a frame at the thread's
present revision has its present state. `ToldInv` is of a joined session: a frame of it
(`FramesTold`) and an answer on the socket (`ReplyTold`) tell the truth, or one of those
behind it corrects them: an old status is followed by the new one, a `buffer:joined` by
the `buffer:left` of the channel or its server, a count by the count. `LevelInv` says of every server,
channel and thread outside `Unsure` (`ServerFits`, `ChannelFits`, `ThreadFits`) that the
picture has it as it is, or that a frame to come will make it so; a thread may also be owed
by a frame not published yet, since `direct_message` frames of one thread leave the gateway in
either order, and the newest revision wins. `Unsure` are the items `Converged` exempts, and those of frames
held back from a session that is gone.

Three choices make it inductive. What is called the picture is `View`, the one there will
be once an answered refresh is applied: a snapshot is level with the truth at the moment
it is served, and from then on every change of the truth is behind it on the socket. A
refresh that is asked for and not yet served promises that whatever the picture was, so
`LevelInv` says nothing while one is: joining the channel, which asks for one, may start
from any picture, and so may a step that cannot keep the picture level and asks for a
refresh instead. And the frames to come are those held back followed by those on the
socket (`Coming`), so that holding a frame back changes nothing, and a queue is drained by
one application after the other (`StandsOn`), as frames are applied at once
(`LevelApplied`). A change of the truth appends its frame in the same step, so that what
the frames before it tell is corrected by it. The settling of a join needs most: an answer
of this session joins a channel that is there or whose `buffer:left` is still to come,
unless the channel was rejected since the join was asked for and the rejection cleared by
another answer, which is what `JoinUnsure` exempts. TLC checked `PictureInv` on the states
of `client_sync` before it was proved, and larger instances found two things that run is
too small for: just this exemption, and that `Init` had to leave the threads of servers
not yet created closed.

**The timeline.** Every operation of `chat_store.ts` picks entries of the timeline before
it and of a page, each at most once and in some order; or replaces an entry by another
copy of the same message; or appends one that was not there. `PickedKeeps` and
`SortedPermutes` say this of a filter and of a stable sort (the latter with the counting of
smaller entries: ranks differ, and so are all taken), `MergedLine`, `AppendedLine`,
`TrimmedLine` and `RenewedLine` of the operations. What remains is what the requests bring,
and `TInv` says it for each of them while it is under way (`PageOK`): stored messages,
once each, with a status the server had. A batch of a reconciliation is two answers
and may hold a command twice, which is why `NoDuplicates` excuses commands; the pages of a
history that were collected are at or above the place the next page is asked before, and
that is all that keeps an unfinished hydration free of duplicates. A log that only
grows keeps all of this (`LaterOK`). For the pending half of `StatusesConverge` the
identifiers given out are bounded by the steps counted, so that a new one is nobody's
(`NewIdIs`), and an answer removes the push together with every copy of what it stood for
(`SendRepliedInv`). TLC checked `TInv` on the states of the run and in simulations with
larger limits.

**The timeline when all is quiet.** What a quiet timeline shows cannot be concluded from
what its parts hold: it is right because of what was *still to come* before it was quiet.
`SInv` says what that is. The frames to come (`Coming`) are those that wait for the
refresh followed by those on the socket, in this order; a frame with an old status is
followed by one with the new one, and the answer of a push by the frames of every message
stored since (`FramesTold`). `Settled` says of a timeline and of such frames that every
status on show that is behind is told by one of them (`LateTold`), that every message
newer than the oldest on show is on show or brought by one (`Accounted`), and that of a
history being fetched every message is on show, brought, collected, or still on a page to
be asked for (`Supplied`). The invariant has it of what is on show while no frame of the
session was lost (`Live`), and of the page of a bootstrap that was answered until it is
applied (`Answered`, `PageTold`). It is kept for these reasons. A frame applied at once
and a frame applied after the refresh leave the same frames behind them, so one lemma
serves both (`FrameSettles`) and a queue of any length is drained by it. A bootstrap
makes what is on show its page, which was read behind every frame applied before it and
in front of every frame that waits. A page or batch that is answered late only adds to
what is on show (`AccountedMerge`), unless it leaves a hole or a status whose frame is
gone: exactly these steps set `torn` and `lagging`. A cut by the limit takes the oldest
(`KeptKeeps`). A lost socket ends `Live`, and only the next bootstrap restores it. With
nothing to come, `Settled` is the three properties. TLC checked `SInv` on the states of
the run and in simulations with larger limits before it was proved; two of the exclusions
of section 6 (a retried message in its old place, a frame that meets a closed
conversation) were found that way, where the run is too small to meet them.

**Only model-checked**: the liveness properties (liveness under fairness and `ENABLED`
are out of the prover's reach) and what the three runs that expect a violation refute.
Every invariant and action property of the passing runs is stated by a theorem. The models that are proved about use
no recursive operator: `ApplyFrames` in `ChatClient` and `BufferTimeline` is a recursive
function, `Ascending` in `IngestionPipeline`, `Nth` in `ChatClient`, `BufferTimeline` and
`NotificationDevice` and `Lists` in `NumberLemmas` are written with quantifiers.

## 5. Not modelled, and what would come next

In order of importance:

1. **Operation lock** (`connection_operation_lock.ex`): mutual exclusion and hand-over
   with owners that die; what a restart of the server admits, and the row lock
   behind it.
2. **Session supervisor and connection deletion**: intents, marks, quiescing and the
   jobs that finish a deletion after a crash.
3. **Session retries** (`connection_events.ex`): attempts, stale retry messages, node
   monitor, exhausted retries and attention states; the refused delivery of which the
   Session is not told.
4. **JOIN lifecycle and keyed sends** end to end, then **command lifecycle**
   (a timer's message that meets its command's answer, `command_lifecycle.ex:148`).
5. **Presence and lines** (`membership_events.ex`, `chat/presence.ex`): effects
   whose recipients are read from other effects; delivery jobs of notifications.
6. **Channel list cache**, **node connector**, **restorer**, **refresher**, **read
   state**: small machines, each with a stale message or timer to get wrong.
7. In the browser: notification preferences (`topics_club_app.tsx:991-1236`),
   presence, topics, routes.

They are not modelled because each is a machine of its own with external
dependencies (a database's row locks, jobs, a parser's numerics) that deserve as
faithful a module as the ones above, not a sketch. *Partly* modelled components name
in PROJECT.json what of them is missing. Left out for good: socket input and output,
parsing of options, line framing, rendering, routing, accounts and single-row requests,
whose correctness is that of one query, generated types and the migrations.

## 6. Findings

Each is a run that ends in a counterexample, and an entry of `findings`.

* `ingestion_replaced`. `attach_existing` attaches, and so has the retained records sent
  to the Session, *before* it decides to replace a generation that has a gap or no
  checkpoint. The Session queues the receipts of those records; nothing removes
  them; events of the new generation are filed under them. An effect whose key was
  claimed in the old generation is taken for a duplicate and is lost.
* `ingestion_lost_ack`. When the acknowledgement and the close that answers its failure
  both fail, the Session stays unblocked with the record's receipt at the head of its
  queue, and the events of the next record are claimed under it. After the replay they
  are committed a second time.
* `manager_raise`. The limit of pending opens and the `max_children` of the task
  supervisor are both eight and count different things. A task that has reported but
  not exited makes `Task.Supervisor.async` raise below the pending limit;
  `start_open_task` catches exits only, the Manager crashes, and every pending open
  fails with it.

`GuardedEffectsApplyOnce` and `AcknowledgedWasApplied` exclude the records of the first
two findings by `misfiled`, and nothing else: in the model they hold for every record all
of whose events were filed under its own receipt. The model takes the effects of a record
as fixed. Where the code computes them from what earlier effects left, a replay may
have fewer: a QUIT or NICK whose line failed and whose presence change was committed
finds no channels on replay (`membership_events.ex:120`), and its line is
acknowledged without having been written. That case is outside both properties.

Seen while modelling the server side and not expressed as a property: the recovery of
claims deletes the rows of a generation that is gone while records of it may still be
in a mailbox (this is why `GuardedEffectsApplyOnce` speaks of the live generation); a
refused delivery detaches a Session that is not told (and, attached again, it may then
hold up to the in-flight limit of each attachment: `MailboxBounded` is about one
attachment); a crashed refresh task leaves `refreshing?` set (`refresher.ex:48`).

**What the browser's properties exclude, and why.** Each exclusion is behaviour of the
code that the model has; where more is excluded than that behaviour, it is said.

* `Converged` leaves out `unsure`. An answer is applied when it comes: over a frame
  newer than it, or into a refresh whose snapshot is older
  (`use_server_connections.ts:559-567`, `topics_club_app.tsx:1371-1397`: a conversation
  closed by its answer comes back with the refresh). Rejection versions are read when
  the answer is applied in some paths (`topics_club_app.tsx:932-956`),
  and the answer of one join clears the rejection that would have stopped the late
  answer of another: the channel that was left in between is shown again
  (`topics_club_app.tsx:932-956`). An answer of before a server's removal adds the
  server again. Frames held back by a refresh
  survive a reconnection and are applied over the newer snapshot
  (`topics_club_app.tsx:1363-1397`). The next refresh repairs all of them.
* `SelectionIsShown` says nothing of a server view: `buffer:left` for a channel whose
  server was removed by an answer selects that server (`use_server_connections.ts:268-302`).
* A directory request that is cancelled leaves its listing loading, and reopening it
  asks for nothing (`use_channel_directory.ts:79-81`): the property speaks of a listing
  that is on show.
* `NothingMissing` leaves out `torn`: a page or a frame that leaves a hole in what is on
  show. An older page answered after a bootstrap replaced the timeline, a status of a
  command older than the timeline, which is appended to it (`chat_store.ts:75-87`), and a
  reconciliation's open commands when the timeline no longer reaches back to them. So
  does a cut that drops a message which was tried again: `retryMessage` leaves it in its
  old place (`topics_club_app.tsx:895-922`), and `pruneBufferMessages` cuts by place
  (`use_buffer_messages.ts:186-202`), so that a message that was just sent can disappear
  when the user scrolls to the bottom.
* `StatusesConverge` leaves out `lagging`: a page that was answered
  before a command made progress and is merged after the frame that told so was lost with
  its connection, or was cut off at once by the render limit, because the command was
  older than a full timeline; and a frame that was ignored because its conversation was
  closed, when a reconciliation answered late has written the command to the closed
  conversation and it is opened again. The status shown is then behind until the next
  reconciliation asks for the open commands.
* `NoDuplicates` leaves out every message of the user's own and every command, which is
  more than the cases there are. Those are: a user's own message that a reconciliation
  brought before the push was answered, and a command that both batches of a
  reconciliation hold (the
  newest page and the open commands, `use_buffer_messages.ts:277-296`) while the timeline
  does not: `mergeNewerMessages` compares a batch with the messages on show and not with
  itself (`chat_store.ts:103-123`). The timeline loses the command between the request and
  the answer when the conversation is closed, or when a bootstrap without it replaces a
  timeline that had grown longer than a bootstrap's page.
* `StatusesConverge` is about messages shown, not about sends: a retry after a time-out
  uses a new `client_message_id`, and a message that did arrive is posted twice
  (`topics_club_app.tsx:895-930`).
* `ConfirmedIsRegistered` leaves out a session in `removed`: a delivery that finds an
  endpoint gone deletes the registration (`delivery.ex:276-279, 336-342`), and the browser
  still has it confirmed until its next bootstrap or synchronization. A session that is too old, or
  that was ended in another browser, is not the browser's: its confirmation says nothing,
  as nothing the browser sends under it is accepted.
* `PushVerdict` counts as reasons for a drop everything `eligible?/4` asks about
  (`delivery.ex:20-45, 101-168`): the session, reading, and the rest together as `muted`.
* `PushVerdict` asks that the browser *had* the session at some moment since the push
  came: a handler past its question shows its notification after a sign-out closed the
  others (`service-worker.js`, push handler).
