----------------------------- MODULE ChatClient -----------------------------
(***************************************************************************)
(* The browser client's picture of the user's connections: what            *)
(* topics_club_app.tsx keeps with useServerConnections, connection_store,  *)
(* bootstrap_state, useRealtimeConnection and useChannelDirectory, against *)
(* a server that is only what the client can see of it.                    *)
(*                                                                         *)
(* Four things write the picture: an HTTP snapshot (the bootstrap) replaces *)
(* it, realtime frames of the user's topic change it in order, replies to  *)
(* the user's own pushes and requests change it when they arrive, and the  *)
(* user selects buffers.  Frames that arrive while a snapshot is being     *)
(* fetched wait in a queue; replies do not.                                *)
(*                                                                         *)
(* The server ("truth") is external: an operation changes it, publishes a  *)
(* frame and answers its caller.  A push's answer and the frames share one *)
(* socket, and the answer is sent before the caller's own frame; direct-   *)
(* message frames are published after their transaction, so that two of    *)
(* them may overtake each other.  Refs and the states they mirror are one: *)
(* React's effects run before the next message is handled.  The page is    *)
(* loaded at its root, so that no route preselects a buffer.               *)
(***************************************************************************)
EXTENDS Integers, Sequences, FiniteSets

CONSTANTS
    Servers,        \* server connections
    Channels,       \* channel memberships
    Dms,            \* direct-message threads
    Owner,          \* [Channels \cup Dms -> Servers]
    Order,          \* a sequence of all of these, in the order of the sidebar
    LiveAtFirst,    \* servers that exist when the page loads
    Queries,        \* searches of a channel listing
    None,           \* no buffer, no server, no answer
    MaxSteps,       \* bound of the model: all together (a listing counts three,
                    \* a join or a navigation four, another operation of the
                    \* user five, an event one)
    MaxEvents,      \* bound of the model: what others do to the truth, and drops
    MaxDrops        \* bound of the model: sockets lost, requests lost

Buffers == Channels \cup Dms

ASSUME ClientAssumption ==
    /\ Owner \in [Buffers -> Servers]
    /\ LiveAtFirst \subseteq Servers
    /\ Channels \cap Dms = {} /\ Servers \cap Buffers = {}
    /\ Order \in Seq(Servers \cup Buffers)
    /\ \A b \in Servers \cup Buffers : \E i \in DOMAIN Order : Order[i] = b
    /\ \A i, j \in DOMAIN Order : Order[i] = Order[j] => i = j
    /\ None \notin Servers \cup Buffers
    /\ {MaxSteps, MaxEvents, MaxDrops} \subseteq Nat

VARIABLES
    truth,        \* the server's own state
    unpublished,  \* direct-message frames committed and not yet published
    wire,         \* frames on their way to the subscribed client
    calls,        \* pushes and HTTP requests the client waits for
    link,         \* the realtime client: socket and channel
    sessions,     \* history: channel joins so far
    boot,         \* the first bootstrap
    ui,           \* the picture: connections, revisions, selection
    refresh,      \* the refresh in flight
    again,        \* realtimeRefreshRequestedRef
    queue,        \* queuedRealtimeEventsRef
    listing,      \* channel directory and discover state
    unsure,       \* history: what replies wrote since the last refresh began
    spent         \* what the bounds count

vars == <<truth, unpublished, wire, calls, link, sessions, boot, ui, refresh, again,
          queue, listing, unsure, spent>>

-----------------------------------------------------------------------------
(* The server, as far as a client can tell.  A connection is deleted after *)
(* its Session, which publishes the events of its threads, has stopped.    *)

Absent == -1
Status == {"connected", "disconnected"}
OnServer(s) == {b \in Buffers : Owner[b] = s}

Truth == [live : SUBSET Servers, dead : SUBSET Servers, status : [Servers -> Status], joined : SUBSET Channels,
          unread : [Channels -> 0..1],
          dm : [Dms -> [rev : Nat, open : BOOLEAN, blocked : BOOLEAN]]]

Possible(op, b) ==
    CASE op = "join"  -> b \in Channels \ truth.joined /\ Owner[b] \in truth.live
      [] op = "create" -> b \in Channels /\ Owner[b] \notin truth.live \cup truth.dead
      [] op = "leave" -> b \in truth.joined
      [] op = "mention" -> b \in truth.joined /\ truth.unread[b] = 0
      [] op = "seen"  -> b \in truth.joined /\ truth.unread[b] = 1
      [] op = "up"    -> b \in truth.live /\ truth.status[b] = "disconnected"
      [] op = "down"  -> b \in truth.live /\ truth.status[b] = "connected"
      [] op = "delete" -> b \in truth.live /\ \A f \in unpublished : Owner[f.buf] # b
      [] op = "say"   -> b \in Dms /\ Owner[b] \in truth.live /\ ~truth.dm[b].blocked
      [] op = "read"  -> b \in Dms /\ Owner[b] \in truth.live /\ truth.dm[b].open
      [] op \in {"close", "block"} -> b \in Dms /\ Owner[b] \in truth.live

Changed(op, b) ==
    CASE op = "join" -> [truth EXCEPT !.joined = @ \cup {b}, !.unread[b] = 0]
      [] op = "create" -> [truth EXCEPT !.live = @ \cup {Owner[b]}, !.joined = @ \cup {b}]
      [] op = "leave" -> [truth EXCEPT !.joined = @ \ {b}, !.unread[b] = 0]
      [] op = "mention" -> [truth EXCEPT !.unread[b] = 1]
      [] op = "seen" -> [truth EXCEPT !.unread[b] = 0]
      [] op = "up" -> [truth EXCEPT !.status[b] = "connected"]
      [] op = "down" -> [truth EXCEPT !.status[b] = "disconnected"]
      [] op = "delete" -> [truth EXCEPT !.live = @ \ {b}, !.dead = @ \cup {b},
                               !.joined = @ \ OnServer(b),
                               !.unread = [c \in Channels |-> IF Owner[c] = b THEN 0 ELSE @[c]]]
      [] op = "say" -> [truth EXCEPT !.dm[b].rev = @ + 1, !.dm[b].open = TRUE]
      [] op = "read" -> [truth EXCEPT !.dm[b].rev = @ + 1]
      [] op = "close" -> [truth EXCEPT !.dm[b].rev = @ + 1, !.dm[b].open = FALSE]
      [] op = "block" -> [truth EXCEPT !.dm[b].rev = @ + 1, !.dm[b].blocked = ~@]

(* The frames, as the validators of protocol_payload.ts tell them apart.   *)

JoinedFrame == [type : {"buffer:joined"}, buf : Channels, status : Status]
LeftFrame == [type : {"buffer:left"}, buf : Channels \cup Servers]
UnreadFrame == [type : {"buffer:message", "buffer:read"}, buf : Channels, unread : 0..1]
StatusFrame == [type : {"server:status"}, buf : Servers, status : Status]
DirectFrame == [type : {"direct_message"}, buf : Dms, rev : Nat, open : BOOLEAN,
                blocked : BOOLEAN, status : Status]
Frame == JoinedFrame \cup LeftFrame \cup UnreadFrame \cup StatusFrame \cup DirectFrame

DirectFrameOf(t, d) ==
    [type |-> "direct_message", buf |-> d, rev |-> t.dm[d].rev, open |-> t.dm[d].open,
     blocked |-> t.dm[d].blocked, status |-> t.status[Owner[d]]]

FrameOf(op, b, t) ==
    CASE op \in {"join", "create"} -> [type |-> "buffer:joined", buf |-> b, status |-> t.status[Owner[b]]]
      [] op \in {"leave", "delete"} -> [type |-> "buffer:left", buf |-> b]
      [] op = "mention" -> [type |-> "buffer:message", buf |-> b, unread |-> 1]
      [] op = "seen" -> [type |-> "buffer:read", buf |-> b, unread |-> 0]
      [] op \in {"up", "down"} -> [type |-> "server:status", buf |-> b, status |-> t.status[b]]
      [] op \in {"say", "read", "close", "block"} -> DirectFrameOf(t, b)

\* The operation happens; its frame goes to whoever is subscribed, direct-
\* message frames after their transaction.
Commit(op, b) ==
    /\ truth' = Changed(op, b)
    /\ unpublished' = IF b \in Dms THEN unpublished \cup {FrameOf(op, b, Changed(op, b))} ELSE unpublished

Published(op, b) ==
    IF b \in Dms \/ link # "joined" THEN <<>> ELSE <<FrameOf(op, b, Changed(op, b))>>

-----------------------------------------------------------------------------
(* The picture.  unread[c] and dm[d].rev are Absent for what is not shown. *)

Views == {"chat", "server", "discover", "directory"}
NoDm == [rev |-> Absent, blocked |-> FALSE]

\* A channel is its unread count, a thread its revision and whether it is blocked.
ChannelRecord == {Absent, 0, 1}
ThreadRecord == [rev : {Absent} \cup Nat, blocked : BOOLEAN]

Ui == [known : SUBSET Servers, status : [Servers -> Status],
       unread : [Channels -> ChannelRecord], dm : [Dms -> ThreadRecord],
       revs : [Dms -> {Absent} \cup Nat],
       rejected : SUBSET Channels, versions : [Channels -> Nat],
       view : Views, server : Servers \cup {None}, buf : Buffers \cup {None},
       wanted : Buffers \cup {None},   \* notificationBufferRequestRef
       skipped : SUBSET Channels]       \* history: counts not taken, the channel being visible

Shown(u) == {c \in Channels : u.unread[c] # Absent} \cup {d \in Dms : u.dm[d].rev # Absent}
ShownOn(u, s) == Shown(u) \cap OnServer(s)

FirstOf(S) ==
    IF S = {} THEN None
    ELSE Order[CHOOSE i \in DOMAIN Order : Order[i] \in S /\ \A j \in 1..(i - 1) : Order[j] \notin S]

Select(u, view, s, b) == [u EXCEPT !.view = view, !.server = s, !.buf = b]

SelectBuffer(u, b) ==
    IF b \notin Shown(u) THEN u
    ELSE [Select(u, "chat", Owner[b], b) EXCEPT !.wanted = IF @ = b THEN None ELSE @]

SelectPendingBuffer(u) == IF u.wanted = None THEN u ELSE SelectBuffer(u, u.wanted)

Drop(u, gone) ==
    [u EXCEPT !.unread = [c \in Channels |-> IF c \in gone THEN Absent ELSE @[c]],
              !.dm = [d \in Dms |-> IF d \in gone THEN NoDm ELSE @[d]]]

UpsertJoinedChannel(u, c, status, updateStatus) ==
    [u EXCEPT !.known = @ \cup {Owner[c]},
              !.status[Owner[c]] = IF updateStatus \/ Owner[c] \notin u.known THEN status ELSE @,
              !.unread[c] = IF @ = Absent THEN 0 ELSE @]

ApplyJoined(u, c, status, updateStatus) ==
    Select([UpsertJoinedChannel(u, c, status, updateStatus) EXCEPT !.rejected = @ \ {c}],
           "chat", Owner[c], c)

ApplyAuthoritativeJoined(u, f) ==
    SelectPendingBuffer(ApplyJoined(u, f.buf, f.status, FALSE))

\* A reply loses to a buffer:left seen since its rejection versions were read.
RejectedSince(u, c, seen) == c \in u.rejected /\ u.versions[c] > seen

RemoveServer(u, s) ==
    LET v == [Drop(u, OnServer(s)) EXCEPT !.known = @ \ {s}]
        next == FirstOf(v.known)
        nextBuffer == FirstOf(ShownOn(v, next))
    IN CASE s \notin u.known -> u
         [] s \in u.known /\ u.server # s /\ u.buf \notin ShownOn(u, s) -> v
         [] OTHER -> IF next = None THEN [v EXCEPT !.view = "discover"]
                     ELSE IF nextBuffer # None THEN Select(v, "chat", next, nextBuffer)
                     ELSE Select(v, "server", next, v.buf)

\* Mutant: a channel is removed and stays selected.
ApplyBufferLeftQuietly(u, f) ==
    IF f.buf \in Servers THEN RemoveServer(u, f.buf)
    ELSE [Drop(u, {f.buf}) EXCEPT !.rejected = @ \cup {f.buf}, !.versions[f.buf] = @ + 1]

ApplyBufferLeft(u, f) ==
    IF f.buf \in Servers THEN RemoveServer(u, f.buf)
    ELSE LET v == [Drop(u, {f.buf}) EXCEPT !.rejected = @ \cup {f.buf}, !.versions[f.buf] = @ + 1]
         IN IF u.buf = f.buf THEN Select(v, "server", Owner[f.buf], None) ELSE v

TakeUnread(u, f) == [u EXCEPT !.unread[f.buf] = f.unread, !.skipped = @ \ {f.buf}]

ApplyBufferRead(u, f) == IF f.buf \in Shown(u) THEN TakeUnread(u, f) ELSE u

VisibleIn(u, c) == u.view = "chat" /\ u.buf = c

ApplyChannelUnread(u, f) ==
    CASE f.buf \notin Shown(u) -> u
      [] f.buf \in Shown(u) /\ VisibleIn(u, f.buf) -> [u EXCEPT !.skipped = @ \cup {f.buf}]
      [] OTHER -> TakeUnread(u, f)

ApplyServerStatus(u, f) ==
    IF f.buf \in u.known THEN [u EXCEPT !.status[f.buf] = f.status] ELSE u

AcceptDirectMessageRevision(u, f) == f.rev > u.revs[f.buf]

UpsertDirectMessage(u, f) ==
    [u EXCEPT !.known = @ \cup {Owner[f.buf]},
              !.status[Owner[f.buf]] = IF Owner[f.buf] \in u.known THEN @ ELSE f.status,
              !.dm[f.buf] = [rev |-> f.rev, blocked |-> f.blocked], !.revs[f.buf] = f.rev]

ApplyTombstone(u, f) ==
    LET v == [Drop(u, {f.buf}) EXCEPT !.revs[f.buf] = f.rev]
        next == FirstOf(ShownOn(v, Owner[f.buf]))
    IN IF u.buf # f.buf THEN v
       ELSE Select(v, IF next = None THEN "server" ELSE "chat", Owner[f.buf], next)

ApplyDirectMessage(u, f) ==
    CASE ~AcceptDirectMessageRevision(u, f) -> u
      [] AcceptDirectMessageRevision(u, f) /\ f.open -> UpsertDirectMessage(u, f)
      [] OTHER -> ApplyTombstone(u, f)

\* What a frame does when it is applied, the notification's buffer included.
ApplyFrame(u, f) ==
    CASE f.type = "buffer:joined" -> ApplyAuthoritativeJoined(u, f)
      [] f.type = "buffer:left" -> ApplyBufferLeft(u, f)
      [] f.type = "buffer:read" -> ApplyBufferRead(u, f)
      [] f.type = "buffer:message" -> ApplyChannelUnread(u, f)
      [] f.type = "server:status" -> ApplyServerStatus(u, f)
      [] f.type = "direct_message" ->
            IF f.open /\ AcceptDirectMessageRevision(u, f)
            THEN SelectPendingBuffer(ApplyDirectMessage(u, f)) ELSE ApplyDirectMessage(u, f)

\* The frames held back, applied one after another.
ApplyFrames(u, held) ==
    LET after[n \in 0..Len(held)] == IF n = 0 THEN u ELSE ApplyFrame(after[n - 1], held[n].frame)
    IN after[Len(held)]

-----------------------------------------------------------------------------
(* Snapshots.  A snapshot is the truth when the request was handled; what  *)
(* buildBootstrapState refuses is a failed request.                        *)

Unlucky ==
    /\ spent.drops < MaxDrops /\ spent.events < MaxEvents /\ spent.steps < MaxSteps
    /\ spent' = [steps |-> spent.steps + 1, events |-> spent.events + 1, drops |-> spent.drops + 1]

Larger(m, n) == IF m > n THEN m ELSE n

SnapshotUnread(snap) ==
    [c \in Channels |-> IF c \in snap.joined /\ Owner[c] \in snap.live THEN snap.unread[c] ELSE Absent]
SnapshotDms(snap) ==
    [d \in Dms |-> IF snap.dm[d].open /\ Owner[d] \in snap.live
                   THEN [rev |-> snap.dm[d].rev, blocked |-> snap.dm[d].blocked] ELSE NoDm]

\* Mutant: the revisions are those of the snapshot.
SnapshotRevisionsAlone(u, snap) ==
    [d \in Dms |-> IF Owner[d] \in snap.live THEN snap.dm[d].rev ELSE u.revs[d]]

\* Closed threads seed their revisions, shown ones are remembered with theirs.
SnapshotRevisions(u, snap) ==
    [d \in Dms |-> IF Owner[d] \in snap.live THEN Larger(u.revs[d], snap.dm[d].rev) ELSE u.revs[d]]

\* BootstrapBuffers.active_id: a joined channel, or else the first buffer.
ActiveBuffer(u) ==
    LET channels == Shown(u) \cap Channels
    IN IF channels # {} THEN FirstOf(channels) ELSE FirstOf(u.known)

\* A buffer or a server the picture can select.
Selectable(u, b) == b \in Shown(u) \cup u.known

\* Mutant: the id of any buffer is taken for that of a server.
SelectAsServer(u, b) == Select(u, "server", b, None)

SelectAny(u, b) ==
    IF b \in Servers THEN Select(u, "server", b, None) ELSE Select(u, "chat", Owner[b], b)

\* The selection after a bootstrap: a listing stays, then comes the buffer a
\* notification asked for, the one selected, and the one the server suggests.
Reselect(u, selected, preserve) ==
    LET wanted == u.wanted \in Shown(u)
        v == IF wanted THEN [u EXCEPT !.wanted = None] ELSE u
    IN CASE preserve /\ (u.view = "discover" \/ (u.view = "directory" /\ u.server \in u.known)) -> v
         [] OTHER ->
              IF wanted THEN SelectAny(v, u.wanted)
              ELSE IF preserve /\ Selectable(u, selected) THEN SelectAny(v, selected)
              ELSE IF u.known = {} THEN Select(v, "discover", None, None)
              ELSE IF ActiveBuffer(u) \in Servers
                   THEN [v EXCEPT !.view = "server", !.server = ActiveBuffer(u)]
              ELSE SelectAny(v, ActiveBuffer(u))

InstallSnapshot(u, snap) ==
    [u EXCEPT !.known = snap.live, !.status = [s \in Servers |-> IF s \in snap.live THEN snap.status[s] ELSE @[s]],
              !.unread = SnapshotUnread(snap), !.dm = SnapshotDms(snap),
              !.revs = SnapshotRevisions(u, snap), !.skipped = {}]

ApplyBootstrap(u, snap, selected, preserve) ==
    Reselect(InstallSnapshot(u, snap), selected, preserve)

\* currentBufferId(), with the fallbacks of activeChannel and activeServer.
CurrentBuffer(u) ==
    IF u.view = "server" /\ u.known # {}
    THEN IF u.server \in u.known THEN u.server ELSE FirstOf(u.known)
    ELSE IF u.buf \in Shown(u) THEN u.buf ELSE FirstOf(Shown(u))

NoRefresh == [stage |-> "idle", snapshot |-> None, selected |-> None]

\* refreshAuthoritativeBootstrap: one at a time.  The closure that will apply
\* the snapshot is the one of the render that started it, selection included.
RequestRefresh(u) ==
    IF refresh.stage # "idle"
    THEN again' = TRUE /\ UNCHANGED <<refresh, unsure>>
    ELSE /\ refresh' = [stage |-> "sent", snapshot |-> None, selected |-> CurrentBuffer(u)]
         /\ unsure' = {}
         /\ UNCHANGED again

RefreshServed ==
    /\ refresh.stage = "sent"
    /\ refresh' = [refresh EXCEPT !.stage = "answered", !.snapshot = truth]
    /\ UNCHANGED <<truth, unpublished, wire, calls, link, sessions, boot, ui, again, queue,
                   listing, unsure, spent>>

RefreshApplied ==
    /\ refresh.stage = "answered"
    /\ ui' = ApplyBootstrap(ui, refresh.snapshot, refresh.selected, TRUE)
    /\ refresh' = [NoRefresh EXCEPT !.stage = "reconciling"]
    /\ UNCHANGED <<truth, unpublished, wire, calls, link, sessions, boot, again, queue,
                   listing, unsure, spent>>

\* The request fails, or its payload is invalid: nothing changes but the stage.
RefreshFails ==
    /\ refresh.stage = "sent" /\ Unlucky
    /\ refresh' = [NoRefresh EXCEPT !.stage = "reconciling"]
    /\ unsure' = unsure \cup Servers \cup Buffers
    /\ UNCHANGED <<truth, unpublished, wire, calls, link, sessions, boot, ui, again, queue, listing>>

\* Frames held back since before a reconnection: others that would have undone
\* them were missed, and only the snapshot they are applied over knows.
Outdated(held) ==
    LET bufs == {e.frame.buf : e \in {held[i] : i \in {n \in DOMAIN held : held[n].session # sessions}}}
    IN bufs \cup {Owner[b] : b \in bufs \cap Buffers}

\* Mutant: a refresh asked for meanwhile is forgotten.
RefreshSettlesOnce ==
    /\ refresh.stage = "reconciling"
    /\ refresh' = NoRefresh
    /\ ui' = ApplyFrames(ui, queue)
    /\ queue' = <<>>
    /\ unsure' = unsure \cup Outdated(queue)
    /\ UNCHANGED <<truth, unpublished, wire, calls, link, sessions, boot, again, listing, spent>>

\* After reconcileAllBuffers: run again if asked to, and only then the queue.
RefreshSettles ==
    /\ refresh.stage = "reconciling"
    /\ IF again
       THEN /\ refresh' = [stage |-> "sent", snapshot |-> None, selected |-> CurrentBuffer(ui)]
            /\ again' = FALSE /\ unsure' = {}
            /\ UNCHANGED <<ui, queue>>
       ELSE /\ refresh' = NoRefresh
            /\ ui' = ApplyFrames(ui, queue)
            /\ queue' = <<>>
            /\ unsure' = unsure \cup Outdated(queue)
            /\ UNCHANGED again
    /\ UNCHANGED <<truth, unpublished, wire, calls, link, sessions, boot, listing, spent>>

-----------------------------------------------------------------------------
(* The first bootstrap and the realtime client.  The health shown to the   *)
(* user is a function of link: connected while joined, else reconnecting   *)
(* ("down", "joining") or degraded ("refused", "closed").                  *)

BootServed ==
    /\ boot.stage = "loading"
    /\ boot' = [stage |-> "answered", snapshot |-> truth]
    /\ UNCHANGED <<truth, unpublished, wire, calls, link, sessions, ui, refresh, again, queue,
                   listing, unsure, spent>>

\* Only a client that is bootstrapped opens the socket.
BootApplied ==
    /\ boot.stage = "answered"
    /\ boot' = [stage |-> "ready", snapshot |-> None]
    /\ ui' = ApplyBootstrap(ui, boot.snapshot, None, FALSE)
    /\ link' = "joining"
    /\ UNCHANGED <<truth, unpublished, wire, calls, sessions, refresh, again, queue, listing,
                   unsure, spent>>

\* The n-th of a set of positions.
Nth(places, n) == CHOOSE i \in places : Cardinality({j \in places : j <= i}) = n

StatusFrames(S) ==
    LET places == {i \in DOMAIN Order : Order[i] \in S}
        At(n) == Order[Nth(places, n)]
    IN [n \in 1..Cardinality(places) |-> [type |-> "server:status", buf |-> At(n),
                                          status |-> truth.status[At(n)]]]

\* The server subscribes before it answers the join; the statuses follow.
JoinOk ==
    /\ link \in {"joining", "refused"}
    /\ link' = "joined"
    /\ sessions' = sessions + 1
    /\ wire' = StatusFrames(truth.live)
    /\ RequestRefresh(ui)
    /\ UNCHANGED <<truth, unpublished, calls, boot, ui, queue, listing, spent>>

JoinFails ==
    /\ link = "joining" /\ Unlucky
    /\ link' = "refused"
    /\ UNCHANGED <<truth, unpublished, wire, calls, sessions, boot, ui, refresh, again, queue,
                   listing, unsure>>

Pushes == {"close", "block", "read", "msg", "seen", "leave", "up", "down", "command", "list"}

\* What was on the socket is lost: frames, and the answers of pushes.
LinkLost(to) ==
    /\ link = "joined" /\ Unlucky
    /\ link' = to
    /\ wire' = <<>>
    /\ calls' = {IF c.op \in Pushes THEN [c EXCEPT !.stage = "lost", !.reply = None] ELSE c : c \in calls}
    /\ UNCHANGED <<truth, unpublished, sessions, boot, ui, refresh, again, queue, listing, unsure>>

SocketCloses == LinkLost("down")
ChannelCloses == LinkLost("closed")

SocketOpens ==
    /\ link = "down"
    /\ link' = "joining"
    /\ UNCHANGED <<truth, unpublished, wire, calls, sessions, boot, ui, refresh, again, queue,
                   listing, unsure, spent>>

\* A channel the server closed does not come back by itself: a new client does.
RetryRealtimeConnection ==
    /\ link \in {"closed", "refused"}
    /\ link' = IF link = "closed" THEN "joining" ELSE "down"
    /\ UNCHANGED <<truth, unpublished, wire, calls, sessions, boot, ui, refresh, again, queue,
                   listing, unsure, spent>>

PublishDirectMessage(f) ==
    /\ f \in unpublished
    /\ unpublished' = unpublished \ {f}
    /\ wire' = IF link = "joined" THEN Append(wire, f) ELSE wire
    /\ UNCHANGED <<truth, calls, link, sessions, boot, ui, refresh, again, queue, listing, unsure, spent>>

\* Mutant: a frame is applied at once, the refresh under way or not.
ReceiveAtOnce ==
    /\ wire # <<>> /\ Head(wire).type # "reply"
    /\ wire' = Tail(wire)
    /\ ui' = ApplyFrame(ui, Head(wire))
    /\ UNCHANGED <<truth, unpublished, calls, link, sessions, boot, refresh, again, queue,
                   listing, unsure, spent>>

\* applyOrQueueRealtimeEvent.
ReceiveFrame ==
    /\ wire # <<>> /\ Head(wire).type # "reply"
    /\ wire' = Tail(wire)
    /\ IF refresh.stage = "idle"
       THEN ui' = ApplyFrame(ui, Head(wire)) /\ UNCHANGED queue
       ELSE queue' = Append(queue, [frame |-> Head(wire), session |-> sessions]) /\ UNCHANGED ui
    /\ UNCHANGED <<truth, unpublished, calls, link, sessions, boot, refresh, again, listing, unsure, spent>>

-----------------------------------------------------------------------------
(* What others do: another tab, a peer, the IRC server.                    *)

ElsewhereOps == {"join", "leave", "mention", "seen", "up", "down", "delete", "say", "close"}

ChangeElsewhere(op, b) ==
    /\ spent.events < MaxEvents /\ spent.steps < MaxSteps
    /\ Possible(op, b)
    /\ Commit(op, b)
    /\ wire' = wire \o Published(op, b)
    /\ spent' = [spent EXCEPT !.steps = @ + 1, !.events = @ + 1]
    /\ UNCHANGED <<calls, link, sessions, boot, ui, refresh, again, queue, listing, unsure>>

-----------------------------------------------------------------------------
(* Calls.  "held" is what the closure of the request keeps: the revision   *)
(* it expects, the rejection version it read, the number of a listing      *)
(* request; "status" the server record it spreads, "query" the search.     *)

GuardedJoins == {"topic", "directory", "manual"}
MembershipJoins == {"directory", "manual", "tab"}   \* through applyJoinedChannel
DiscoverJoins == {"tab", "discovery"}
Joins == GuardedJoins \cup DiscoverJoins \cup {"command"}
DirectOps == {"close", "block", "read"}
ListingOps == {"list", "search"}

Reply(id) == [type |-> "reply", id |-> id]

Operated(cost) ==
    /\ boot.stage = "ready" /\ spent.steps + cost <= MaxSteps
    /\ spent' = [spent EXCEPT !.steps = @ + cost]

Ask(op, b, held, status, query) ==
    /\ Operated(CASE op \in ListingOps -> 3 [] op \in Joins -> 4 [] OTHER -> 5)
    /\ calls' = calls \cup {[id |-> spent.steps + 1, op |-> op, buf |-> b, held |-> held,
                             status |-> status, query |-> query, session |-> sessions,
                             stage |-> "sent", reply |-> None]}

\* The answer of a push is put on the socket, ahead of frames still in the
\* channel's mailbox and of the frames its own operation publishes.
Answer(c, stage, reply, frames) ==
    /\ c \in calls /\ c.stage = "sent" /\ (c.op \in Pushes => link = "joined")
    /\ calls' = (calls \ {c}) \cup {[c EXCEPT !.stage = stage, !.reply = reply]}
    /\ IF c.op \in Pushes
       THEN \E i \in 0..Len(wire) :
                wire' = SubSeq(wire, 1, i) \o <<Reply(c.id)>> \o SubSeq(wire, i + 1, Len(wire)) \o frames
       ELSE wire' = wire \o frames
    /\ UNCHANGED <<link, sessions, boot, ui, refresh, again, queue, listing, unsure, spent>>

AnswerUnchanged(c, stage, reply) ==
    Answer(c, stage, reply, <<>>) /\ UNCHANGED <<truth, unpublished>>

AnswerCommitting(c, op, reply) ==
    Answer(c, "answered", reply, Published(op, c.buf)) /\ Commit(op, c.buf)

\* The answer of a request is lost, what it did is done.  (A request that
\* never arrives ends like a refused one; a push is lost with the socket.)
CallFails(c) ==
    /\ c \in calls /\ c.stage = "answered" /\ c.op \notin Pushes /\ Unlucky
    /\ calls' = (calls \ {c}) \cup {[c EXCEPT !.stage = "lost"]}
    /\ UNCHANGED <<truth, unpublished, wire, link, sessions, boot, ui, refresh, again, queue,
                   listing, unsure>>

\* The promise of c is settled with its stage.
Settled(c, stages) ==
    /\ c \in calls /\ c.stage \in stages
    /\ IF c.op \in Pushes /\ c.stage # "lost"
       THEN wire # <<>> /\ Head(wire) = Reply(c.id) /\ wire' = Tail(wire)
       ELSE UNCHANGED wire
    /\ UNCHANGED <<truth, unpublished, link, sessions, boot, queue>>

Done(c) == calls' = calls \ {c}

(* Direct messages: the caller states the revision it saw.                 *)

AskDirect(op, d) ==
    /\ d \in Shown(ui) /\ op \in DirectOps
    /\ Ask(op, d, ui.dm[d].rev, None, None)
    /\ UNCHANGED <<truth, unpublished, wire, link, sessions, boot, ui, refresh, again, queue, listing, unsure>>

ServeDirect(c) ==
    /\ c.op \in DirectOps
    /\ IF Owner[c.buf] \notin truth.live THEN AnswerUnchanged(c, "refused", None)
       ELSE IF truth.dm[c.buf].rev # c.held THEN AnswerUnchanged(c, "stale", None)
       ELSE IF ~Possible(c.op, c.buf) THEN AnswerUnchanged(c, "refused", None)
       ELSE AnswerCommitting(c, c.op, DirectFrameOf(Changed(c.op, c.buf), c.buf))

SettleDirect(c) ==
    /\ c.op \in DirectOps /\ Settled(c, {"answered", "stale", "refused", "lost"}) /\ Done(c)
    /\ IF c.stage = "stale" THEN RequestRefresh(ui)
       ELSE /\ unsure' = IF c.stage = "answered" /\ refresh.stage # "idle" THEN unsure \cup {c.buf} ELSE unsure
            /\ UNCHANGED <<refresh, again>>
    /\ ui' = IF c.stage = "answered" THEN ApplyDirectMessage(ui, c.reply) ELSE ui
    /\ UNCHANGED <<listing, spent>>

(* Channels and servers.                                                   *)

AskPlain(op, b) ==
    /\ \/ op \in {"seen", "leave"} /\ b \in Shown(ui) \cap Channels
       \/ op \in {"up", "down", "delete", "update"} /\ b \in ui.known
    /\ Ask(op, b, Absent, None, None)
    /\ UNCHANGED <<truth, unpublished, wire, link, sessions, boot, ui, refresh, again, queue, listing, unsure>>

PlainReply(op, b) ==
    IF op \in {"up", "down"} THEN FrameOf(op, b, Changed(op, b)) ELSE None

ServePlain(c) ==
    /\ c.op \in {"seen", "leave", "up", "down", "delete"}
    /\ IF Possible(c.op, c.buf)
       THEN AnswerCommitting(c, c.op, PlainReply(c.op, c.buf))
       ELSE AnswerUnchanged(c, "refused", None)

\* leaveChannel and markBufferRead wait for the frame; the rest apply the reply.
SettlePlain(c) ==
    /\ c.op \in {"seen", "leave", "up", "down", "delete"}
    /\ Settled(c, {"answered", "refused", "lost"}) /\ Done(c)
    /\ ui' = IF c.stage # "answered" THEN ui
             ELSE CASE c.op = "delete" -> RemoveServer(ui, c.buf)
                    [] c.op \in {"up", "down"} -> ApplyServerStatus(ui, c.reply)
                    [] OTHER -> ui
    /\ UNCHANGED <<refresh, again, listing, unsure, spent>>

ServeUpdate(c) ==
    /\ c.op = "update"
    /\ IF c.buf \in truth.live
       THEN AnswerUnchanged(c, "answered", [type |-> "server:status", buf |-> c.buf,
                                            status |-> truth.status[c.buf]])
       ELSE AnswerUnchanged(c, "refused", None)

\* updateServerConnection: a disconnected server is asked to reconnect.
SettleUpdate(c) ==
    /\ c.op = "update" /\ Settled(c, {"answered", "refused", "lost"})
    /\ IF c.stage = "answered"
       THEN /\ ui' = ApplyServerStatus(ui, c.reply)
            /\ unsure' = unsure \cup {c.buf}
            /\ calls' = IF c.reply.status = "connected" THEN calls \ {c}
                        ELSE (calls \ {c}) \cup {[c EXCEPT !.op = "up", !.stage = "sent", !.reply = None]}
       ELSE Done(c) /\ UNCHANGED <<ui, unsure>>
    /\ UNCHANGED <<refresh, again, listing, spent>>

(* Joins.  The guarded ones read the rejection versions when they start,   *)
(* the others when they apply the reply, which therefore is never refused. *)

\* joinDirectoryChannel: a channel of the directory on show.
InDirectory(c) ==
    listing.dir.status = "ready" /\ listing.dir.server = Owner[c] /\ Owner[c] \in ui.known

AskJoin(op, c) ==
    /\ CASE op = "manual" -> Owner[c] \notin ui.known
         [] op = "directory" -> InDirectory(c)
         [] op = "tab" -> ui.view = "discover" /\ ui.server = Owner[c] /\ Owner[c] \in ui.known
         [] OTHER -> Owner[c] \in ui.known
    /\ Ask(op, c, IF op \in GuardedJoins THEN ui.versions[c] ELSE Absent,
           IF op = "manual" THEN "disconnected" ELSE ui.status[Owner[c]], None)
    /\ UNCHANGED <<truth, unpublished, wire, link, sessions, boot, ui, refresh, again, queue, listing, unsure>>

ServeJoin(c) ==
    /\ c.op \in Joins
    /\ LET status == [type |-> "server:status", buf |-> Owner[c.buf], status |-> truth.status[Owner[c.buf]]]
       IN CASE Possible("join", c.buf) -> AnswerCommitting(c, "join", status)
            [] c.buf \in truth.joined -> AnswerUnchanged(c, "answered", status)
            [] c.op = "manual" /\ Possible("create", c.buf) -> AnswerCommitting(c, "create", status)
            [] OTHER -> AnswerUnchanged(c, "refused", None)

\* What Converged leaves out until the next refresh: the channel of a reply
\* that no rejection can stop (a join that is not guarded, one of an earlier
\* session, one whose rejection another join's reply has cleared meanwhile),
\* and a server record the reply writes or brings back.
JoinUnsure(c) ==
    (IF c.op \notin GuardedJoins \/ c.session # sessions \/ ui.versions[c.buf] > c.held
     THEN {c.buf} ELSE {})
        \cup (IF c.op \in MembershipJoins \/ Owner[c.buf] \notin ui.known THEN {Owner[c.buf]} ELSE {})
        \cup (IF Owner[c.buf] \notin ui.known THEN {c.buf} ELSE {})

\* After a command the client also goes to the channel (navigateToChannel),
\* which makes a listing request under way answer to nobody.
SettleJoin(c) ==
    /\ c.op \in Joins /\ Settled(c, {"answered", "refused", "lost"}) /\ Done(c)
    /\ IF c.stage # "answered" \/ (c.op \in GuardedJoins /\ RejectedSince(ui, c.buf, c.held))
       THEN UNCHANGED <<ui, listing, unsure>>
       ELSE /\ ui' = ApplyJoined(ui, c.buf,
                                 IF c.op \in MembershipJoins THEN c.status ELSE c.reply.status,
                                 c.op \in MembershipJoins)
            /\ listing' = [listing EXCEPT !.req = @ + (IF c.op = "command" THEN 1 ELSE 0)]
            /\ unsure' = unsure \cup JoinUnsure(c)
    /\ UNCHANGED <<refresh, again, spent>>

(* /msg: the reply is the thread, and the client goes to it.               *)

AskMessage(d) ==
    /\ Owner[d] \in ui.known
    /\ Ask("msg", d, Absent, None, None)
    /\ UNCHANGED <<truth, unpublished, wire, link, sessions, boot, ui, refresh, again, queue, listing, unsure>>

ServeMessage(c) ==
    /\ c.op = "msg"
    /\ IF Possible("say", c.buf)
       THEN AnswerCommitting(c, "say", DirectFrameOf(Changed("say", c.buf), c.buf))
       ELSE AnswerUnchanged(c, "refused", None)

\* openDirectMessage: a reply that the thread's own frame has overtaken is
\* followed too, if the picture shows just that revision.
SettleMessage(c) ==
    /\ c.op = "msg" /\ Settled(c, {"answered", "refused", "lost"}) /\ Done(c)
    /\ IF c.stage # "answered" \/ Owner[c.buf] \notin ui.known
       THEN UNCHANGED <<ui, listing, unsure>>
       ELSE LET u == ApplyDirectMessage(ui, c.reply)
                opened == AcceptDirectMessageRevision(ui, c.reply) \/ ui.dm[c.buf].rev = c.reply.rev
            IN /\ ui' = IF opened THEN Select(u, "chat", Owner[c.buf], c.buf) ELSE u
               /\ listing' = [listing EXCEPT !.req = @ + (IF opened THEN 1 ELSE 0)]
               /\ unsure' = IF refresh.stage # "idle" THEN unsure \cup {c.buf} ELSE unsure
    /\ UNCHANGED <<refresh, again, spent>>

-----------------------------------------------------------------------------
(* What the user opens.  cancelChannelDirectory makes the listing request  *)
(* under way answer to nobody.                                             *)

Cancelled == [listing EXCEPT !.req = @ + 1]

NavigateToChannel(b) ==
    /\ b \in Shown(ui) /\ Operated(4)
    /\ ui' = Select(ui, "chat", Owner[b], b)
    /\ listing' = Cancelled
    /\ UNCHANGED <<truth, unpublished, wire, calls, link, sessions, boot, refresh, again, queue, unsure>>

NavigateToServer(s) ==
    /\ s \in ui.known /\ Operated(4)
    /\ ui' = Select(ui, "server", s, None)
    /\ listing' = Cancelled
    /\ UNCHANGED <<truth, unpublished, wire, calls, link, sessions, boot, refresh, again, queue, unsure>>

\* A click on a notification: the buffer is selected, or waited for.
NotificationClick(b) ==
    /\ Operated(4)
    /\ IF b \in Shown(ui)
       THEN /\ ui' = SelectBuffer([ui EXCEPT !.wanted = b], b)
            /\ UNCHANGED <<refresh, again, unsure>>
       ELSE /\ ui' = [ui EXCEPT !.wanted = b]
            /\ RequestRefresh(ui)
    /\ UNCHANGED <<truth, unpublished, wire, calls, link, sessions, boot, queue, listing>>

ShowDirectory(u, s) == Select(u, "directory", s, u.buf)

\* The directory of server s.  The route decides: the listing already asked
\* for is not asked for again when the directory comes back into view.
OpenDirectory(s, q) ==
    LET same == listing.dir.server = s /\ listing.dir.query = q /\ listing.dir.status # "idle"
    IN /\ s \in ui.known
       /\ ui' = ShowDirectory(ui, s)
       /\ IF same /\ ui.view # "directory"
          THEN Operated(3) /\ UNCHANGED <<calls, listing>>
          ELSE /\ Ask("list", s, listing.req + 1, None, q)
               /\ listing' = [listing EXCEPT !.req = @ + 1,
                                             !.dir = [server |-> s, query |-> q, status |-> "loading"],
                                             !.dirAsked = <<s, q>>]
       /\ UNCHANGED <<truth, unpublished, wire, link, sessions, boot, refresh, again, queue, unsure>>

\* The discover view, of one server (a push) or of all (a request).
DiscoverServer == IF ui.server \in ui.known THEN ui.server ELSE FirstOf(ui.known)

NavigateToDiscover(tab, q) ==
    LET s == IF tab = "server" THEN DiscoverServer ELSE None
    IN /\ tab = "server" => s # None
       /\ Ask(IF tab = "server" THEN "list" ELSE "search", s, -(listing.disc.req + 1), None, q)
       /\ ui' = [ui EXCEPT !.view = "discover"]
       /\ listing' = [listing EXCEPT !.req = @ + 1,
                         !.disc = [req |-> @.req + 1, server |-> s, query |-> q, status |-> "loading"],
                         !.discAsked = <<s, q>>]
       /\ UNCHANGED <<truth, unpublished, wire, link, sessions, boot, refresh, again, queue, unsure>>

ServeListing(c) ==
    /\ c.op \in ListingOps
    /\ AnswerUnchanged(c, IF c.buf = None \/ c.buf \in truth.live THEN "answered" ELSE "refused", None)

NoListing ==
    [req |-> 0, dir |-> [server |-> None, query |-> None, status |-> "idle"],
     dirAsked |-> <<None, None>>,
     disc |-> [req |-> 0, server |-> None, query |-> None, status |-> "idle"],
     discAsked |-> <<None, None>>]

ForDirectory(c) == c.held > 0

\* Mutant: a discovery is taken whenever it comes.
WantedLate(c) ==
    IF ForDirectory(c)
    THEN c.held = listing.req /\ ui.view = "directory" /\ ui.server = c.buf
    ELSE TRUE

\* A directory listing is taken by the directory that asked for it last, a
\* discovery by the request that asked for it last, in view or not.
Wanted(c) ==
    IF ForDirectory(c)
    THEN c.held = listing.req /\ ui.view = "directory" /\ ui.server = c.buf
    ELSE -c.held = listing.disc.req

InDirectoryView(c, status) ==
    [listing EXCEPT !.dir = [server |-> c.buf, query |-> c.query, status |-> status]]
Discovered(c, status) ==
    [listing EXCEPT !.disc = [req |-> @.req, server |-> c.buf, query |-> c.query, status |-> status]]

Listed(c, status) ==
    IF ForDirectory(c) THEN InDirectoryView(c, status) ELSE Discovered(c, status)
ListingFailed(c) == Listed(c, "error")

SettleListing(c) ==
    /\ c.op \in ListingOps /\ Settled(c, {"answered", "refused", "lost"}) /\ Done(c)
    /\ listing' = CASE ~Wanted(c) -> listing
                     [] Wanted(c) /\ c.stage = "answered" /\ (ForDirectory(c) => c.buf \in ui.known)
                          -> Listed(c, "ready")
                     [] Wanted(c) /\ c.stage # "answered" -> ListingFailed(c)
                     [] OTHER -> listing
    /\ UNCHANGED <<ui, refresh, again, unsure, spent>>

-----------------------------------------------------------------------------
Init ==
    /\ truth = [live |-> LiveAtFirst, dead |-> {}, status |-> [s \in Servers |-> "connected"],
                joined |-> {c \in Channels : Owner[c] \in LiveAtFirst},
                unread |-> [c \in Channels |-> 0],
                dm |-> [d \in Dms |-> [rev |-> 1, open |-> Owner[d] \in LiveAtFirst, blocked |-> FALSE]]]
    /\ unpublished = {} /\ wire = <<>> /\ calls = {}
    /\ link = "none" /\ sessions = 0
    /\ boot = [stage |-> "loading", snapshot |-> None]
    /\ ui = [known |-> {}, status |-> [s \in Servers |-> "disconnected"],
             unread |-> [c \in Channels |-> Absent], dm |-> [d \in Dms |-> NoDm],
             revs |-> [d \in Dms |-> Absent], rejected |-> {}, versions |-> [c \in Channels |-> 0],
             view |-> "chat", server |-> None, buf |-> None, wanted |-> None, skipped |-> {}]
    /\ refresh = NoRefresh /\ again = FALSE /\ queue = <<>>
    /\ listing = NoListing
    /\ unsure = {}
    /\ spent = [steps |-> 0, events |-> 0, drops |-> 0]

User ==
    \/ \E d \in Dms : (\E op \in DirectOps : AskDirect(op, d)) \/ AskMessage(d)
    \/ \E op \in {"seen", "leave", "up", "down", "delete", "update"}, b \in Channels \cup Servers :
          AskPlain(op, b)
    \/ \E op \in Joins, c \in Channels : AskJoin(op, c)
    \/ \E b \in Buffers : NavigateToChannel(b) \/ NotificationClick(b)
    \/ \E s \in Servers : NavigateToServer(s) \/ \E q \in Queries : OpenDirectory(s, q)
    \/ \E tab \in {"all", "server"}, q \in Queries : NavigateToDiscover(tab, q)

Serve(c) ==
    ServeDirect(c) \/ ServeMessage(c) \/ ServePlain(c) \/ ServeUpdate(c) \/ ServeJoin(c) \/ ServeListing(c)

Settle(c) ==
    SettleDirect(c) \/ SettleMessage(c) \/ SettlePlain(c) \/ SettleUpdate(c) \/ SettleJoin(c)
        \/ SettleListing(c)

Refreshing == RefreshServed \/ RefreshApplied \/ RefreshSettles
Linking == JoinOk \/ JoinFails \/ SocketCloses \/ ChannelCloses \/ SocketOpens \/ RetryRealtimeConnection

Next ==
    \/ BootServed \/ BootApplied
    \/ Linking
    \/ Refreshing \/ RefreshFails
    \/ ReceiveFrame
    \/ \E f \in unpublished : PublishDirectMessage(f)
    \/ \E op \in ElsewhereOps, b \in Servers \cup Buffers : ChangeElsewhere(op, b)
    \/ User
    \/ \E c \in calls : Serve(c) \/ CallFails(c) \/ Settle(c)

Spec == Init /\ [][Next]_vars

-----------------------------------------------------------------------------
\* Type invariant: in particular a reply on the wire has its call waiting, and
\* a frame held back is one the server can send.
TypeOK ==
    /\ truth \in Truth /\ unpublished \subseteq DirectFrame
    /\ \A i \in DOMAIN wire : wire[i] \in Frame \/ \E c \in calls : wire[i] = Reply(c.id)
    /\ \A c \in calls : /\ c.op \in Pushes \cup Joins \cup {"delete", "update", "search"}
                       /\ c.buf \in Servers \cup Buffers \cup {None}
                       /\ c.held \in Int /\ c.stage \in {"sent", "answered", "stale", "refused", "lost"}
                       /\ c.reply \in Frame \cup {None}
    /\ link \in {"none", "down", "joining", "refused", "joined", "closed"} /\ sessions \in Nat
    /\ boot.stage \in {"loading", "answered", "ready"} /\ boot.snapshot \in Truth \cup {None}
    /\ ui \in Ui
    /\ refresh \in [stage : {"idle", "sent", "answered", "reconciling"},
                     snapshot : Truth \cup {None}, selected : Servers \cup Buffers \cup {None}]
    /\ again \in BOOLEAN /\ queue \in Seq([frame : Frame, session : Nat])
    /\ listing.req \in Nat /\ listing.disc.req \in Nat
    /\ unsure \subseteq Servers \cup Buffers
    /\ spent.steps \in 0..MaxSteps /\ spent.events \in 0..MaxEvents /\ spent.drops \in 0..MaxDrops

\* Events wait in the queue only while a refresh is under way, and a refresh
\* that ends with another one asked for goes on: the flag and the queue are
\* empty whenever events are applied at once.
IdleHasNoQueue == refresh.stage = "idle" => queue = <<>> /\ ~again

Quiet ==
    /\ boot.stage = "ready" /\ link = "joined" /\ refresh.stage = "idle"
    /\ wire = <<>> /\ unpublished = {}

\* Once everything sent has arrived, the picture is the truth: after any
\* interleaving of snapshots, queued frames, replies and reconnections the
\* client shows the servers, memberships, counts and threads there are.  Left
\* out: a count not taken because its channel was in view, and what a reply
\* wrote over a newer frame until the next refresh (unsure, see JoinUnsure).
Converged ==
    Quiet =>
    /\ \A s \in Servers \ unsure :
         /\ s \in ui.known <=> s \in truth.live
         /\ s \in ui.known => ui.status[s] = truth.status[s]
    /\ \A c \in Channels \ unsure : Owner[c] \notin unsure =>
         /\ c \in Shown(ui) <=> c \in truth.joined
         /\ c \in Shown(ui) \ ui.skipped => ui.unread[c] = truth.unread[c]
    /\ \A d \in Dms \ unsure : Owner[d] \notin unsure => ui.dm[d] = SnapshotDms(truth)[d]

\* The selection never points at what has been removed: a chat view shows a
\* buffer of the picture and a directory view a known server, whichever of a
\* snapshot, a frame and a reply removed the rest.  (A server view may: the
\* buffer:left of a channel whose server a reply removed already selects it.)
SelectionIsShown ==
    boot.stage = "ready" =>
    /\ ui.view = "chat" => ui.buf \in Shown(ui) /\ Owner[ui.buf] \in ui.known
    /\ ui.view = "directory" => ui.server \in ui.known

\* A listing on show answers the last search asked for: a slow answer to an
\* earlier one, or to another server, is never shown under it.
ListingsAnswerTheLatestRequest ==
    /\ listing.dir.status = "ready" => <<listing.dir.server, listing.dir.query>> = listing.dirAsked
    /\ listing.disc.status = "ready" => <<listing.disc.server, listing.disc.query>> = listing.discAsked

\* The revision a thread is known at never falls, whichever of a snapshot, a
\* frame and a reply arrives last: an old one cannot make way for older frames.
RevisionsNeverFall == [][\A d \in Dms : ui'.revs[d] >= ui.revs[d]]_ui
=============================================================================
