------------------------ MODULE WirekeeperConnection ------------------------
(***************************************************************************)
(* One generation of one Wirekeeper connection: the GenServer of           *)
(* wirekeeper/connection.ex with its replay buffer (buffer.ex), the socket *)
(* it owns, the watcher process it starts for its consumer                 *)
(* (consumer_watcher.ex) and the outcomes of Delivery.send.                *)
(*                                                                         *)
(* The whole GenServer state is the record "conn".  Each private function  *)
(* of the code that may deliver a message is an operator from a state to   *)
(* the SET of states it may return, because :erlang.send with :nosuspend   *)
(* and :noconnect may refuse any message; a handler picks one of them.     *)
(*                                                                         *)
(* Calls carry the generation of this process; a call with another         *)
(* generation is answered :stale_generation and changes nothing (each      *)
(* handler's first clause), as are calls that fail the other argument      *)
(* checks.  Those are stuttering steps and are not written out.            *)
(***************************************************************************)
EXTENDS Integers, FiniteSets, Sequences, Functions

CONSTANTS
    Consumers,        \* pids that may attach
    NoConsumer,       \* the nil consumer
    Keys,             \* idempotency keys of send_data_once
    PayloadSizes,     \* byte sizes of forwarded records
    MaxRecords,       \* Buffer option :max_records
    MaxBytes,         \* Buffer option :max_bytes
    MaxInFlight,      \* Buffer option :max_in_flight
    MaxSentOnceKeys,  \* option :sent_once_max_keys
    MaxSequence,      \* bound of the model: records one generation receives
    MaxAttachments,   \* bound of the model: attachments of one generation
    MaxChunk          \* bound of the model: adapter actions of one socket chunk

ASSUME BufferAssumption ==
    /\ MaxRecords \in Nat \ {0}
    /\ MaxBytes \in Nat \ {0}
    /\ MaxInFlight \in Nat \ {0}
    /\ PayloadSizes \subseteq Nat

ASSUME ConsumerAssumption == NoConsumer \notin Consumers

ASSUME BoundAssumption ==
    /\ MaxSentOnceKeys \in Nat \ {0}
    /\ MaxSequence \in Nat
    /\ MaxAttachments \in Nat
    /\ MaxChunk \in Nat

VARIABLES
    conn,      \* the GenServer state of the connection process
    chunk,     \* adapter actions of the socket chunk being applied, if any
    watchers,  \* watcher processes that are still running
    signals,   \* what watchers have put in the connection's mailbox
    dead,      \* consumers that have exited
    wire       \* history: writes that may have reached upstream, per key

vars == <<conn, chunk, watchers, signals, dead, wire>>

-----------------------------------------------------------------------------
(* State.                                                                  *)

\* The adapter turns a chunk into replies and forwarded records; an adapter
\* that returns anything else is treated as :invalid_adapter_action.
AdapterActions == [kind : {"reply", "forward", "invalid"}, size : PayloadSizes]

\* "ok" and "error" are the two ways the adapter may end a chunk; NoChunk is
\* the process waiting in its receive loop.
Chunks == [todo : Seq(AdapterActions), result : {"ok", "error", "none"}]
NoChunk == [todo |-> <<>>, result |-> "none"]

Statuses == {"opening", "open", "closed", "stopped"}

\* The ETS ordered_set: the size of each retained payload by its sequence.
Tables == UNION {[S -> PayloadSizes] : S \in SUBSET (1..MaxSequence)}

\* "delivered" and "told" are history fields of the current attachment: the
\* sequences put in the consumer's mailbox, and whether the consumer has been
\* told that records were dropped (gap? of the attach reply, or :overflow).
ConnState ==
    [status : Statuses,
     consumer : Consumers \cup {NoConsumer},
     watcher : Nat,              \* consumer_watcher_pid, 0 when nil
     attachments : Nat,          \* watchers started so far: the next pid is fresh
     table : Tables,
     next : 1..(MaxSequence + 1),
     dropped : Nat,
     inFlight : SUBSET (1..MaxSequence),
     acked : 0..MaxSequence,
     overflowPending : BOOLEAN,
     closureNotified : BOOLEAN,
     checkpoint : BOOLEAN,       \* a checkpoint is stored
     checkpointSeq : 0..MaxSequence,   \* checkpoint_sequence, 0 when nil
     sentOnce : SUBSET Keys,
     delivered : SUBSET (1..MaxSequence),
     told : BOOLEAN]

Records(c) == DOMAIN c.table
Attached(c) == c.consumer # NoConsumer

\* Retained records that are not in the consumer's mailbox.
Pending(c) == Records(c) \ c.inFlight

-----------------------------------------------------------------------------
(* Buffer.                                                                 *)

Keep(t, S) == [s \in S |-> t[s]]
From(t, n) == {s \in DOMAIN t : s >= n}

Bounded(t, S) ==
    /\ Cardinality(S) <= MaxRecords
    /\ SumFunctionOnSet(t, S) <= MaxBytes

\* The first sequence evict_until_bounded leaves in the table: it deletes the
\* oldest record until what is left is within both bounds.
FirstRetained(t, hi) ==
    {n \in 1..(hi + 1) :
        /\ Bounded(t, From(t, n))
        /\ \A m \in 1..(n - 1) : ~Bounded(t, From(t, m))}

Inserted(c, size) == [s \in Records(c) \cup {c.next} |->
                        IF s = c.next THEN size ELSE c.table[s]]

\* Mutant: the sequence is not advanced past the stored record.
StoreSameSequence(c, size) ==
    LET t == Inserted(c, size)
    IN  {[c EXCEPT !.table = Keep(t, From(t, n)),
                   !.dropped = @ + Cardinality(DOMAIN t \ From(t, n))] :
           n \in FirstRetained(t, c.next)}

\* The record is stored under the next sequence, then the oldest are evicted.
Store(c, size) ==
    LET t == Inserted(c, size)
    IN  {[c EXCEPT !.next = @ + 1,
                   !.table = Keep(t, From(t, n)),
                   !.dropped = @ + Cardinality(DOMAIN t \ From(t, n))] :
           n \in FirstRetained(t, c.next)}

\* Mutant: an oversized record is skipped without being counted.
PushUncounted(c, size) ==
    IF size > MaxBytes THEN {[c EXCEPT !.next = @ + 1]} ELSE Store(c, size)

\* A record larger than the byte bound is counted as dropped and leaves the
\* retained ones alone; any other is stored and evicts the oldest.
Push(c, size) ==
    IF size > MaxBytes
    THEN {[c EXCEPT !.next = @ + 1, !.dropped = @ + 1]}
    ELSE Store(c, size)

DeleteThrough(t, sequence) == Keep(t, From(t, sequence + 1))

-----------------------------------------------------------------------------
(* Private functions of the connection process.                            *)

\* The watcher is demonitored and killed; all per-attachment state is reset.
BeginDetachedEpisode(c) ==
    [c EXCEPT !.consumer = NoConsumer, !.watcher = 0, !.inFlight = {},
              !.overflowPending = FALSE, !.closureNotified = FALSE,
              !.delivered = {}, !.told = FALSE]

\* {:stop, ...}: terminate/2 kills the watcher and closes the socket, and the
\* private ETS table goes with the process.
Stop(c) == [BeginDetachedEpisode(c) EXCEPT !.status = "stopped"]

\* Mutant: a refused message is skipped.
DeliverSkipping(c, after) == {after, c}

\* A refused message detaches the consumer (deliver_to_consumer); otherwise
\* the state continues as "after".
Deliver(c, after) == {after, BeginDetachedEpisode(c)}

\* Mutant: an evicted record gives its credit back.
SlotsOfRetained(c) == MaxInFlight - Cardinality(c.inFlight \cap Records(c))

\* Delivery credit that is left.
Slots(c) == MaxInFlight - Cardinality(c.inFlight)

\* Mutant: the newest records are taken first.
BatchNewest(c) == {s \in Pending(c) :
                      Cardinality({r \in Pending(c) : r > s}) < Slots(c)}

\* The oldest records that are not in flight, as many as credit allows.
Batch(c) == {s \in Pending(c) :
                Cardinality({r \in Pending(c) : r < s}) < Slots(c)}

\* One refusal anywhere in the batch stops it and detaches: what was sent
\* before is forgotten with the rest of the attachment.
DispatchAvailable(c) ==
    IF Attached(c) /\ Batch(c) # {}
    THEN Deliver(c, [c EXCEPT !.inFlight = @ \cup Batch(c),
                              !.delivered = @ \cup Batch(c)])
    ELSE {c}

\* Mutant: a single dropped record goes without a notification.
NotifyOverflowOfMany(c, lost) ==
    IF lost > 1 /\ ~c.overflowPending /\ Attached(c)
    THEN Deliver(c, [c EXCEPT !.overflowPending = TRUE, !.told = TRUE])
    ELSE {c}

\* "lost" is the number of records the push before it dropped.
NotifyOverflow(c, lost) ==
    IF lost > 0 /\ ~c.overflowPending /\ Attached(c)
    THEN Deliver(c, [c EXCEPT !.overflowPending = TRUE, !.told = TRUE])
    ELSE {c}

\* Mutant: the closure is sent ahead of records that wait for credit.
NotifyClosedEarly(c) ==
    IF c.status = "closed" /\ Attached(c) /\ ~c.closureNotified
    THEN Deliver(c, [c EXCEPT !.closureNotified = TRUE])
    ELSE {c}

MaybeNotifyClosed(c) ==
    IF /\ c.status = "closed" /\ Attached(c)
       /\ ~c.closureNotified /\ Pending(c) = {}
    THEN Deliver(c, [c EXCEPT !.closureNotified = TRUE])
    ELSE {c}

TransitionClosed(c) ==
    IF c.status = "closed" THEN {c}
    ELSE MaybeNotifyClosed([c EXCEPT !.status = "closed"])

\* A closed connection whose consumer has nothing left to read stops.
StopIfDrained(c) ==
    IF c.status = "closed" /\ Attached(c) /\ Records(c) = {} THEN Stop(c) ELSE c

UpstreamClosed(c) == {StopIfDrained(d) : d \in TransitionClosed(c)}

\* Mutant: a failed write leaves the connection open.
SendFailedStaysOpen(c) == {c}

\* reply_or_stop_closed after transition_closed: a failed socket write.
SendFailed(c) ==
    {StopIfDrained(e) : e \in UNION {MaybeNotifyClosed(d) : d \in TransitionClosed(c)}}

\* dispatch_available |> maybe_notify_closed, then stop when drained.
DispatchAndSettle(c) ==
    {StopIfDrained(e) : e \in UNION {MaybeNotifyClosed(d) : d \in DispatchAvailable(c)}}

\* Mutant: the credit an ACK releases is not used.
AcknowledgeOnly(c, sequence) ==
    {StopIfDrained(d) :
        d \in MaybeNotifyClosed([c EXCEPT !.table = DeleteThrough(@, sequence),
                                          !.acked = sequence,
                                          !.inFlight = {s \in @ : s > sequence},
                                          !.overflowPending = FALSE])}

\* acknowledge_through/2 and ack_reply/1.
AcknowledgeThrough(c, sequence) ==
    DispatchAndSettle([c EXCEPT !.table = DeleteThrough(@, sequence),
                                !.acked = sequence,
                                !.inFlight = {s \in @ : s > sequence},
                                !.overflowPending = FALSE])

-----------------------------------------------------------------------------
(* Handlers.  A GenServer runs one at a time: none starts while a chunk is *)
(* being applied, and none runs before the socket is connected.            *)

Idle == chunk = NoChunk /\ conn.status \in {"open", "closed"}

Init ==
    /\ conn = [status |-> "opening", consumer |-> NoConsumer, watcher |-> 0,
               attachments |-> 0, table |-> [s \in {} |-> 0], next |-> 1, dropped |-> 0,
               inFlight |-> {}, acked |-> 0, overflowPending |-> FALSE,
               closureNotified |-> FALSE, checkpoint |-> FALSE,
               checkpointSeq |-> 0, sentOnce |-> {}, delivered |-> {},
               told |-> FALSE]
    /\ chunk = NoChunk
    /\ watchers = {}
    /\ signals = {}
    /\ dead = {}
    /\ wire = [k \in Keys |-> 0]

\* handle_continue(:connect): the adapter, the socket and its first arming.
Connect ==
    /\ conn.status = "opening"
    /\ \/ conn' = [conn EXCEPT !.status = "open"]
       \/ conn' = Stop(conn)
    /\ UNCHANGED <<chunk, watchers, signals, dead, wire>>

\* {:attach, ...} by a consumer that is not attached already.  The watcher is
\* started before anything is delivered; the reply carries gap?.
Attach(x) ==
    /\ Idle
    /\ ~Attached(conn)
    /\ conn.attachments < MaxAttachments
    /\ LET id == conn.attachments + 1
           attached == [conn EXCEPT !.consumer = x, !.watcher = id,
                                    !.attachments = id, !.inFlight = {},
                                    !.overflowPending = FALSE,
                                    !.closureNotified = FALSE,
                                    !.told = conn.dropped > 0]
       IN  /\ watchers' = watchers \cup {[id |-> id, consumer |-> x]}
           /\ conn' \in DispatchAndSettle(attached)
    /\ UNCHANGED <<chunk, signals, dead, wire>>

Detach(x) ==
    /\ Idle
    /\ conn.consumer = x
    /\ conn' = BeginDetachedEpisode(conn)
    /\ UNCHANGED <<chunk, watchers, signals, dead, wire>>

\* Mutant: any retained record may be acknowledged, delivered or not.
NewAckOfRetained(x, sequence) ==
    /\ Idle
    /\ conn.consumer = x
    /\ sequence > conn.acked
    /\ sequence \in Records(conn)

\* An acknowledgement is new when it is above the watermark and names a
\* record in flight; every other one only answers.
NewAck(x, sequence) ==
    /\ Idle
    /\ conn.consumer = x
    /\ sequence > conn.acked
    /\ sequence \in conn.inFlight

\* Mutant: a plain ACK is still accepted in checkpointed-ACK mode.
AckWithoutMode(x, sequence) ==
    /\ NewAck(x, sequence)
    /\ conn' \in AcknowledgeThrough(conn, sequence)
    /\ UNCHANGED <<chunk, watchers, signals, dead, wire>>

Ack(x, sequence) ==
    /\ NewAck(x, sequence)
    /\ conn.checkpointSeq = 0
    /\ conn' \in AcknowledgeThrough(conn, sequence)
    /\ UNCHANGED <<chunk, watchers, signals, dead, wire>>

\* A checkpoint that does not encode changes nothing.
AckWithCheckpoint(x, sequence) ==
    /\ NewAck(x, sequence)
    /\ conn' \in AcknowledgeThrough([conn EXCEPT !.checkpoint = TRUE,
                                                 !.checkpointSeq = sequence],
                                    sequence)
    /\ UNCHANGED <<chunk, watchers, signals, dead, wire>>

PutCheckpoint(x) ==
    /\ Idle
    /\ conn.consumer = x
    /\ conn.checkpointSeq = 0
    /\ conn' = [conn EXCEPT !.checkpoint = TRUE]
    /\ UNCHANGED <<chunk, watchers, signals, dead, wire>>

\* A successful write changes nothing; a failed one closes the connection.
SendData ==
    /\ Idle
    /\ conn.status = "open"
    /\ conn' \in SendFailed(conn)
    /\ UNCHANGED <<chunk, watchers, signals, dead, wire>>

\* No key of the write was written before (all of them: :duplicate; some:
\* :idempotency_conflict) and there is room for them.
SendOnceAccepted(c, keys) ==
    /\ c.status = "open"
    /\ keys \cap c.sentOnce = {}
    /\ Cardinality(c.sentOnce) + Cardinality(keys) <= MaxSentOnceKeys

Written(keys) == [k \in Keys |-> IF k \in keys THEN wire[k] + 1 ELSE wire[k]]

\* A write that fails may have reached the peer all the same.
SendDataOnce(keys) ==
    /\ Idle
    /\ SendOnceAccepted(conn, keys)
    /\ \/ /\ conn' = [conn EXCEPT !.sentOnce = @ \cup keys]
          /\ wire' = Written(keys)
       \/ /\ conn' \in SendFailed(conn)
          /\ wire' \in {wire, Written(keys)}
    /\ UNCHANGED <<chunk, watchers, signals, dead>>

Close ==
    /\ Idle
    /\ conn' = Stop(conn)
    /\ UNCHANGED <<chunk, watchers, signals, dead, wire>>

\* {:tcp, socket, data}: the adapter has turned the chunk into actions.
Inbound ==
    /\ Idle
    /\ conn.status = "open"
    /\ \E n \in 0..MaxChunk :
          /\ conn.next + n <= MaxSequence + 1
          /\ \E todo \in [1..n -> AdapterActions], result \in {"ok", "error"} :
                chunk' = [todo |-> todo, result |-> result]
    /\ UNCHANGED <<conn, watchers, signals, dead, wire>>

\* apply_actions, one action at a time, in order.
ApplyForward ==
    /\ chunk.todo # <<>>
    /\ Head(chunk.todo).kind = "forward"
    /\ conn.next <= MaxSequence
    /\ \E c \in Push(conn, Head(chunk.todo).size) :
          \E d \in NotifyOverflow(c, c.dropped - conn.dropped) :
              conn' \in DispatchAvailable(d)
    /\ chunk' = [chunk EXCEPT !.todo = Tail(@)]
    /\ UNCHANGED <<watchers, signals, dead, wire>>

ApplyReply ==
    /\ chunk.todo # <<>>
    /\ Head(chunk.todo).kind = "reply"
    /\ chunk' = [chunk EXCEPT !.todo = Tail(@)]
    /\ UNCHANGED <<conn, watchers, signals, dead, wire>>

\* A failed reply write or an invalid action ends the chunk at that point.
ApplyFails ==
    /\ chunk.todo # <<>>
    /\ Head(chunk.todo).kind \in {"reply", "invalid"}
    /\ conn' \in UpstreamClosed(conn)
    /\ chunk' = NoChunk
    /\ UNCHANGED <<watchers, signals, dead, wire>>

\* The chunk is applied: the socket is armed again, or the connection closes
\* because arming failed or the adapter reported an error.
FinishChunk ==
    /\ chunk # NoChunk
    /\ chunk.todo = <<>>
    /\ \/ chunk.result = "ok" /\ conn' = conn
       \/ conn' \in UpstreamClosed(conn)
    /\ chunk' = NoChunk
    /\ UNCHANGED <<watchers, signals, dead, wire>>

\* {:tcp_closed, socket} and {:tcp_error, socket, reason}.
UpstreamCloses ==
    /\ Idle
    /\ conn.status = "open"
    /\ conn' \in UpstreamClosed(conn)
    /\ UNCHANGED <<chunk, watchers, signals, dead, wire>>

\* Mutant: the timer spares a tombstone that is attached.
RetentionSparesAttached ==
    /\ Idle
    /\ conn.status = "closed"
    /\ ~Attached(conn)
    /\ conn' = Stop(conn)
    /\ UNCHANGED <<chunk, watchers, signals, dead, wire>>

\* The retention timer stops a tombstone whether or not it is attached.
RetentionExpires ==
    /\ Idle
    /\ conn.status = "closed"
    /\ conn' = Stop(conn)
    /\ UNCHANGED <<chunk, watchers, signals, dead, wire>>

\* Mutant: the report is matched by its consumer alone.
MatchesConsumer(signal, c) == signal.consumer = c.consumer

\* A watcher's signal ends the attachment it was started for and no other:
\* consumer_down must match the consumer and the watcher, :DOWN the watcher.
Matches(signal, c) ==
    /\ signal.watcher = c.watcher
    /\ signal.kind = "consumer_down" => signal.consumer = c.consumer

\* Mutant: handling one signal flushes the others.
TakeSignalAndFlush(signal) ==
    /\ Idle
    /\ signals' = {}
    /\ conn' = IF Matches(signal, conn) THEN BeginDetachedEpisode(conn) ELSE conn
    /\ UNCHANGED <<chunk, watchers, dead, wire>>

\* Mutant: a consumer with unacknowledged records is not detached.
TakeSignalUnlessInFlight(signal) ==
    /\ Idle
    /\ signals' = signals \ {signal}
    /\ conn' = IF Matches(signal, conn) /\ conn.inFlight = {}
               THEN BeginDetachedEpisode(conn) ELSE conn
    /\ UNCHANGED <<chunk, watchers, dead, wire>>

TakeSignal(signal) ==
    /\ Idle
    /\ signals' = signals \ {signal}
    /\ conn' = IF Matches(signal, conn) THEN BeginDetachedEpisode(conn) ELSE conn
    /\ UNCHANGED <<chunk, watchers, dead, wire>>

\* The process is killed: by the exit of the open task it is linked to, or
\* when the supervisor's :rest_for_one restarts the connection supervisor.
Killed ==
    /\ conn.status # "stopped"
    /\ conn' = Stop(conn)
    /\ chunk' = NoChunk
    /\ UNCHANGED <<watchers, signals, dead, wire>>

-----------------------------------------------------------------------------
(* Consumers and their watchers.                                           *)

ConsumerDies(x) ==
    /\ x \notin dead
    /\ dead' = dead \cup {x}
    /\ UNCHANGED <<conn, chunk, watchers, signals, wire>>

\* A watcher that sees its consumer go reports it and exits.  Its own :DOWN
\* follows the report, and handling the report flushes it.
Report(w) ==
    /\ watchers' = watchers \ {w}
    /\ signals' = signals \cup
         {[kind |-> "consumer_down", watcher |-> w.id, consumer |-> w.consumer]}
    /\ UNCHANGED <<conn, chunk, dead, wire>>

WatcherReports(w) == w.consumer \in dead /\ Report(w)

\* The link to the consumer's node breaks: the monitor fires with the
\* consumer alive, and the same pid may attach again.
LinkLost(w) == w.consumer \notin dead /\ Report(w)

\* A watcher is killed from outside: only its :DOWN is seen, and only while
\* the connection still monitors it.
WatcherDies(w) ==
    /\ w.id = conn.watcher
    /\ watchers' = watchers \ {w}
    /\ signals' = signals \cup
         {[kind |-> "DOWN", watcher |-> w.id, consumer |-> w.consumer]}
    /\ UNCHANGED <<conn, chunk, dead, wire>>

\* The kill of begin_detached_episode, or the watcher's own monitor of the
\* connection, ends a watcher whose attachment is over.  It is asynchronous:
\* the watcher may report first.
WatcherEnds(w) ==
    /\ w.id # conn.watcher
    /\ watchers' = watchers \ {w}
    /\ UNCHANGED <<conn, chunk, signals, dead, wire>>

HandlerStep ==
    \/ Connect
    \/ \E x \in Consumers : Attach(x) \/ Detach(x) \/ PutCheckpoint(x)
    \/ \E x \in Consumers, s \in 1..MaxSequence :
          Ack(x, s) \/ AckWithCheckpoint(x, s)
    \/ SendData
    \/ \E keys \in (SUBSET Keys) \ {{}} : SendDataOnce(keys)
    \/ Close
    \/ Inbound \/ ApplyForward \/ ApplyReply \/ ApplyFails \/ FinishChunk
    \/ UpstreamCloses
    \/ RetentionExpires
    \/ \E signal \in signals : TakeSignal(signal)
    \/ Killed

WatcherStep ==
    \/ \E x \in Consumers : ConsumerDies(x)
    \/ \E w \in watchers :
          WatcherReports(w) \/ LinkLost(w) \/ WatcherDies(w) \/ WatcherEnds(w)

Next == HandlerStep \/ WatcherStep

Spec == Init /\ [][Next]_vars

-----------------------------------------------------------------------------
(* Fairness.  Messages in a GenServer's mailbox are handled in the order   *)
(* they came, so a signal is not passed over for ever: strong fairness.    *)
(* A handler that has started runs to its end, monitors fire and timers    *)
(* expire: weak fairness.                                                  *)

Fairness ==
    /\ WF_vars(ApplyForward \/ ApplyReply \/ ApplyFails \/ FinishChunk)
    /\ WF_vars(\E w \in watchers : WatcherReports(w))
    /\ SF_vars(\E signal \in signals : TakeSignal(signal))
    /\ WF_vars(RetentionExpires)

FairSpec == Spec /\ Fairness

-----------------------------------------------------------------------------
(* Properties.                                                             *)

\* Every variable keeps its shape, and a sequence in the table was assigned.
TypeOK ==
    /\ conn \in ConnState
    /\ Records(conn) \subseteq 1..(conn.next - 1)
    /\ chunk \in Chunks
    /\ watchers \subseteq [id : Nat, consumer : Consumers]
    /\ signals \subseteq [kind : {"consumer_down", "DOWN"}, watcher : Nat,
                          consumer : Consumers]
    /\ dead \subseteq Consumers
    /\ wire \in [Keys -> Nat]

\* No silent loss.  While the generation has dropped nothing, the table is
\* exactly what lies between the watermark and the next sequence: eviction,
\* refused deliveries, detaching and acknowledging never lose a record
\* without leaving gap evidence in dropped_records.
NoSilentLoss ==
    conn.dropped = 0 => Records(conn) = (conn.acked + 1)..(conn.next - 1)

\* Checkpointed ACK mode: once a generation has a checkpoint sequence, it is
\* the watermark, so the checkpoint a later attach returns describes exactly
\* the records that will not be replayed.
CheckpointAtWatermark ==
    conn.checkpointSeq # 0 => conn.checkpointSeq = conn.acked /\ conn.checkpoint

\* Delivery never stalls: when an attached connection has retained records it
\* has not delivered, the consumer's credit is used up (an ACK will come and
\* dispatch them), and a closed one with everything delivered has said so.
NoStalledDelivery ==
    Attached(conn) =>
        /\ Pending(conn) # {} => Cardinality(conn.inFlight) = MaxInFlight
        /\ conn.status = "closed" /\ Pending(conn) = {} => conn.closureNotified

\* Records reach one attachment in order and once: whatever is still to be
\* delivered comes after everything delivered, evicted records included.
DeliveredInOrder ==
    \A s \in Pending(conn) : Attached(conn) => \A d \in conn.delivered : d < s

\* :upstream_closed is the last message of an attachment: nothing is left to
\* deliver behind it, and a drained tombstone does not stay attached.
ClosureIsLast ==
    Attached(conn) =>
        /\ conn.closureNotified => conn.status = "closed" /\ Pending(conn) = {}
        /\ conn.status = "closed" => Records(conn) # {}

\* A consumer of an attachment knows of every gap: records are dropped only
\* with gap? in its attach reply or an :overflow in its mailbox, even though
\* overflow events are coalesced until the next ACK.
GapIsTold == Attached(conn) /\ conn.dropped > 0 => conn.told

\* The consumer's mailbox is bounded by its credit: records delivered in this
\* attachment above the watermark, evicted ones included.
MailboxBounded ==
    Cardinality({s \in conn.delivered : s > conn.acked}) <= MaxInFlight

\* An attached consumer that is gone is never forgotten: its watcher is
\* running and will report it, or the report for this attachment is waiting.
DeadConsumerIsWatched ==
    conn.consumer \in dead =>
        \/ [id |-> conn.watcher, consumer |-> conn.consumer] \in watchers
        \/ \E signal \in signals : Matches(signal, conn)

\* A keyed write reaches the peer at most once in a generation, also when the
\* write fails after the peer has read it and the caller tries again.
SentAtMostOnce == \A k \in Keys : wire[k] <= 1

\* The watermark only grows, and only to a record the consumer attached now
\* has been given: no ACK covers what this consumer has not seen.
AckCoversDelivered ==
    [][/\ conn'.acked >= conn.acked
       /\ conn'.acked > conn.acked =>
             conn'.acked \in conn.delivered]_vars

\* A stale watcher's signal ends no attachment: handling the report about an
\* earlier attachment, of the same pid or of another, leaves the consumer.
StaleSignalIsHarmless ==
    [][\A signal \in signals \ signals' :
          Attached(conn) /\ signal.watcher # conn.watcher
              => conn'.consumer = conn.consumer]_vars

\* A consumer that is gone does not keep the connection: the attachment ends
\* and the records are there for the next one.
DeadConsumerIsDetached ==
    \A x \in Consumers :
        conn.consumer = x /\ x \in dead ~> conn.consumer # x

\* A closed connection does not keep its key for ever, not even when its
\* consumer stays attached and never acknowledges.
TombstoneExpires == conn.status = "closed" ~> conn.status = "stopped"

=============================================================================
