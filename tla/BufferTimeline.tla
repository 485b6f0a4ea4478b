--------------------------- MODULE BufferTimeline ---------------------------
(***************************************************************************)
(* One buffer's timeline in the browser: useBufferMessages and chat_store, *)
(* with the sends and retries of topics_club_app.tsx.                      *)
(*                                                                         *)
(* A timeline is written by five parties that do not know of each other:   *)
(* realtime frames append to it, a bootstrap replaces it, a reconciliation *)
(* merges the newest page into it, older pages are merged at its top       *)
(* (one at a time when the user scrolls, all of them for a direct          *)
(* conversation), and a send shows a message that is not stored yet.       *)
(*                                                                         *)
(* The server ("log") is external: message n is the n-th stored one, which *)
(* is also its place in the order of time.  A command's message changes in *)
(* place, its status rising from sent to acknowledged to finished.  Frames *)
(* and the answers of pushes share one socket; frames that arrive during a *)
(* refresh wait for it (see ChatClient).                                   *)
(***************************************************************************)
EXTENDS Integers, Sequences, FiniteSets

CONSTANTS
    RenderLimit,    \* MESSAGE_RENDER_LIMIT, 400
    BootPage,       \* messages of a buffer in a bootstrap, 150
    Page,           \* messages of a tail or an older page, 50
    DirectPage,     \* messages of a page of a direct conversation, 150
    Stored,         \* messages stored when the model begins
    MaxUnsent,      \* bound of the model: messages on show that are not stored
    MaxLog,         \* bound of the model: messages ever stored
    MaxSteps,       \* bound of the model: what the user and the others do
    MaxDrops,       \* bound of the model: sockets and requests lost
    None

ASSUME TimelineAssumption ==
    /\ {RenderLimit, BootPage, Page, DirectPage} \subseteq Nat \ {0}
    /\ Page <= BootPage /\ BootPage <= RenderLimit
    /\ MaxUnsent \in 0..(RenderLimit - 1)
    /\ {MaxLog, MaxSteps, MaxDrops} \subseteq Nat /\ Stored \in 0..MaxLog
    /\ None \notin Nat

VARIABLES
    kind,       \* "channel" or "direct"
    log,        \* what the server has stored
    thread,     \* the server's revision of the conversation, open when odd
    wire,       \* frames and answers on their way
    link, sessions,
    timeline, reading, loadingOlder,
    known,      \* the revision the client knows the conversation at
    recon, refresh, queue, hydration,
    sends,      \* pushes of messages
    synced,     \* history: a bootstrap of this session has been applied
    torn,       \* history: a page, a frame or a cut left a hole that was not there
    lagging,    \* history: a status is on show whose successor is gone
    spent       \* what the bounds count

vars == <<kind, log, thread, wire, link, sessions, timeline, reading, loadingOlder, known,
          recon, refresh, queue, hydration, sends, synced, torn, lagging, spent>>

server == <<kind, log, thread>>
requests == <<loadingOlder, recon, hydration>>
history == <<synced, torn, lagging>>

-----------------------------------------------------------------------------
(* Messages and what chat_store does with sequences of them.               *)

\* commandStatusRank: 0 is no command, 1 sent, 2 acknowledged, 3 finished.
Ranks == 0..3

\* An entry of the timeline: a stored message has its id, one that is not
\* stored yet a negative one and the place ("at") its clock gives it.
Stored_(n) == [id |-> n, rank |-> log[n].rank, at |-> n, state |-> "sent"]
Ids(tl) == {tl[i].id : i \in DOMAIN tl} \cap Nat
Newest(n, before) == {i \in DOMAIN log : i < before /\ i >= before - n}

\* What a function has at the places of a set, in their order.
Nth(places, n) == CHOOSE i \in places : Cardinality({j \in places : j <= i}) = n
Picked(f, places) == [n \in 1..Cardinality(places) |-> f[Nth(places, n)]]

PageOf(S) == Picked([n \in S |-> Stored_(n)], S)
Tail_(n) == PageOf(Newest(n, Len(log) + 1))

\* A stable sort by time; a message that is not stored yet has its clock's.
Place(tl, i) ==
    Cardinality({j \in DOMAIN tl : tl[j].at < tl[i].at \/ (tl[j].at = tl[i].at /\ j <= i)})
Sorted(tl) == [n \in DOMAIN tl |-> tl[CHOOSE i \in DOMAIN tl : Place(tl, i) = n]]

\* Mutant: the limit keeps the oldest messages.
TrimToOldest(tl, limit) == IF Len(tl) <= limit THEN tl ELSE SubSeq(tl, 1, limit)

TrimToLimit(tl, limit) == IF Len(tl) <= limit THEN tl ELSE SubSeq(tl, Len(tl) - limit + 1, Len(tl))

AppendTimeline(tl, e, keep) ==
    IF e.id \in Ids(tl)
    THEN [i \in DOMAIN tl |-> IF tl[i].id = e.id THEN e ELSE tl[i]]
    ELSE LET next == Sorted(Append(tl, e)) IN IF keep THEN next ELSE TrimToLimit(next, RenderLimit)

\* Mutant: the copy that arrives last wins.
RefreshedAlways(tl, page) ==
    [i \in DOMAIN tl |->
        LET same == {j \in DOMAIN page : page[j].id = tl[i].id}
        IN IF tl[i].id > 0 /\ same # {} THEN page[CHOOSE j \in same : TRUE] ELSE tl[i]]

\* Of two copies of a message the one with the higher status stays.
Refreshed(tl, page) ==
    [i \in DOMAIN tl |->
        LET newer == {j \in DOMAIN page : page[j].id = tl[i].id /\ page[j].rank >= tl[i].rank}
        IN IF tl[i].id > 0 /\ newer # {} THEN page[CHOOSE j \in newer : TRUE] ELSE tl[i]]

\* Mutant: a merge does not look for the messages on show.
FreshUnchecked(tl, page) == page

Fresh(tl, page) == Picked(page, {i \in DOMAIN page : page[i].id \notin Ids(tl)})

MessageFrame(n, rank) == [type |-> "message", id |-> n, rank |-> rank]

\* A message comes to show with a status that is behind, and no frame that
\* tells the new one is on its way.
Told(n) ==
    \/ \E i \in DOMAIN wire : wire[i] = MessageFrame(n, log[n].rank)
    \/ \E i \in DOMAIN queue : queue[i].frame = MessageFrame(n, log[n].rank)
Lags(page, tl) ==
    LET new == Fresh(tl, page)
    IN \E i \in DOMAIN new : new[i].rank < log[new[i].id].rank /\ ~Told(new[i].id)

MergeOlder(page, tl) == Sorted(Fresh(tl, page) \o Refreshed(tl, page))
MergeNewer(tl, page) ==
    LET next == Sorted(Refreshed(tl, page) \o Fresh(tl, page))
    IN IF kind = "direct" THEN next ELSE TrimToLimit(next, RenderLimit)

\* A page that does not adjoin the stored messages on show leaves a hole that
\* no later request fills.
Holes(S) == {n \in DOMAIN log \ S : \E a, b \in S : a < n /\ n < b}
Tears(page, tl) == ~(Holes(Ids(page) \cup Ids(tl)) \subseteq Holes(Ids(tl)))

\* The limit counts places: it drops a message that stands before older ones.
Cuts(tl, limit) ==
    LET kept == Ids(TrimToLimit(tl, limit))
    IN \E n \in Ids(tl) \ kept, older \in kept : older < n

Open(rev) == kind = "channel" \/ rev % 2 = 1

-----------------------------------------------------------------------------
(* The server.                                                             *)

Spends(n) == spent.steps + n <= MaxSteps /\ spent' = [spent EXCEPT !.steps = @ + n]
Unlucky ==
    /\ spent.drops < MaxDrops /\ spent.steps < MaxSteps
    /\ spent' = [steps |-> spent.steps + 1, drops |-> spent.drops + 1]

Frames(f) == IF link = "joined" THEN <<f>> ELSE <<>>
Entry(f) == [id |-> f.id, rank |-> f.rank, at |-> f.id, state |-> "sent"]

\* Somebody writes, or the user's command is sent (rank 1).
Post(rank) ==
    /\ Len(log) < MaxLog /\ Open(thread) /\ Spends(1)
    /\ log' = Append(log, [rank |-> rank, own |-> FALSE])
    /\ wire' = wire \o Frames(MessageFrame(Len(log) + 1, rank))
    /\ UNCHANGED <<kind, thread, link, sessions, timeline, reading, known, refresh, queue, sends,
                   requests, history>>

CommandProgresses(n) ==
    /\ n \in DOMAIN log /\ log[n].rank \in 1..2 /\ Spends(1)
    /\ log' = [log EXCEPT ![n].rank = @ + 1]
    /\ wire' = wire \o Frames(MessageFrame(n, log[n].rank + 1))
    /\ UNCHANGED <<kind, thread, link, sessions, timeline, reading, known, refresh, queue, sends,
                   requests, history>>

\* The conversation is closed, or opened again.
ThreadChanges ==
    /\ kind = "direct" /\ Spends(1)
    /\ thread' = thread + 1
    /\ wire' = wire \o Frames([type |-> "thread", rev |-> thread + 1])
    /\ UNCHANGED <<kind, log, link, sessions, timeline, reading, known, refresh, queue, sends,
                   requests, history>>

-----------------------------------------------------------------------------
(* A direct conversation's history is fetched page by page from the newest *)
(* to the oldest.  A request of a cancelled generation comes to nothing.   *)

NoHydration == [busy |-> FALSE, done |-> FALSE, retry |-> FALSE, stage |-> "idle",
                before |-> None, got |-> <<>>, page |-> <<>>]

Request(h, before, got) ==
    [h EXCEPT !.busy = TRUE, !.stage = "sent", !.before = before, !.got = got, !.page = <<>>]

Hydrate(h) ==
    IF h.done THEN h
    ELSE IF h.busy THEN [h EXCEPT !.retry = TRUE]
    ELSE Request(h, None, <<>>)

HydrationEnds(h, done) ==
    LET free == [NoHydration EXCEPT !.done = done]
    IN IF h.retry THEN Hydrate(free) ELSE free

HydrationServed ==
    /\ hydration.stage = "sent"
    /\ hydration' = [hydration EXCEPT !.stage = "answered",
                        !.page = IF hydration.before = None THEN Tail_(DirectPage)
                                 ELSE PageOf(Newest(DirectPage, hydration.before))]
    /\ UNCHANGED <<server, wire, link, sessions, timeline, reading, loadingOlder, known, recon,
                   refresh, queue, sends, history, spent>>

HydrationPage ==
    LET got == hydration.page \o hydration.got
    IN /\ hydration.stage = "answered"
       /\ IF Len(hydration.page) = DirectPage
          THEN /\ hydration' = Request(hydration, Head(hydration.page).id, got)
               /\ UNCHANGED <<timeline, torn>>
          ELSE /\ timeline' = MergeOlder(got, timeline)
               /\ torn' = (torn \/ Tears(got, timeline))
               /\ hydration' = HydrationEnds(hydration, TRUE)
       /\ UNCHANGED <<server, wire, link, sessions, reading, loadingOlder, known, recon, refresh,
                      queue, sends, synced, lagging, spent>>

HydrationFails ==
    /\ hydration.busy /\ Unlucky
    /\ hydration' = HydrationEnds(hydration, FALSE)
    /\ UNCHANGED <<server, wire, link, sessions, timeline, reading, loadingOlder, known, recon,
                   refresh, queue, sends, history>>

-----------------------------------------------------------------------------
(* Frames.  Applying one changes the timeline, the known revision and the  *)
(* hydration: a closed conversation loses the first and cancels the last.  *)

Client == [tl |-> timeline, rev |-> known, hyd |-> hydration, torn |-> torn, lag |-> lagging]

\* What a closed conversation shows is not told of the frames that come.
Missed(tl, f) == \E i \in DOMAIN tl : tl[i].id = f.id /\ tl[i].rank < f.rank

ApplyMessage(c, f) ==
    IF ~Open(c.rev) THEN [c EXCEPT !.lag = @ \/ Missed(c.tl, f)]
    ELSE [c EXCEPT !.tl = AppendTimeline(@, Entry(f), reading \/ kind = "direct"),
                   !.torn = @ \/ Tears(<<Entry(f)>>, c.tl)]

\* Mutant: a closed conversation's history still counts as fetched.
ApplyThreadUncancelled(c, f) ==
    CASE f.rev <= c.rev -> c
      [] f.rev > c.rev /\ Open(f.rev) -> [c EXCEPT !.rev = f.rev, !.hyd = Hydrate(@)]
      [] OTHER -> [c EXCEPT !.tl = <<>>, !.rev = f.rev, !.torn = FALSE, !.lag = FALSE]

ApplyThread(c, f) ==
    CASE f.rev <= c.rev -> c
      [] f.rev > c.rev /\ Open(f.rev) -> [c EXCEPT !.rev = f.rev, !.hyd = Hydrate(@)]
      [] OTHER -> [tl |-> <<>>, rev |-> f.rev, hyd |-> NoHydration, torn |-> FALSE, lag |-> FALSE]

ApplyFrame(c, f) == IF f.type = "message" THEN ApplyMessage(c, f) ELSE ApplyThread(c, f)

\* The frames held back, applied one after another.
ApplyFrames(c, held) ==
    LET after[n \in 0..Len(held)] == IF n = 0 THEN c ELSE ApplyFrame(after[n - 1], held[n].frame)
    IN after[Len(held)]

Becomes(c) ==
    /\ timeline' = c.tl /\ known' = c.rev /\ hydration' = c.hyd
    /\ torn' = c.torn /\ lagging' = c.lag

ReceiveFrame ==
    /\ wire # <<>> /\ Head(wire).type # "reply"
    /\ wire' = Tail(wire)
    /\ IF refresh.stage = "idle"
       THEN Becomes(ApplyFrame(Client, Head(wire))) /\ UNCHANGED queue
       ELSE /\ queue' = Append(queue, [frame |-> Head(wire), session |-> sessions])
            /\ UNCHANGED <<timeline, known, hydration, torn, lagging>>
    /\ UNCHANGED <<server, link, sessions, reading, loadingOlder, recon, refresh, sends, synced, spent>>

-----------------------------------------------------------------------------
(* Reconciliation: the newest page, and the commands that are not finished *)
(* as far as the timeline shows.  One at a time.                           *)

NoRecon == [stage |-> "idle", commands |-> {}, batch |-> <<>>]

OpenCommands(tl) == {tl[i].id : i \in {j \in DOMAIN tl : tl[j].rank \in 1..2}}

Reconciling(tl) == [NoRecon EXCEPT !.stage = "sent", !.commands = OpenCommands(tl)]

\* server:status says that the IRC server is connected again.
ReconcileServerBuffers ==
    /\ link = "joined" /\ refresh.stage = "idle" /\ Open(known) /\ Spends(2)
    /\ recon' = IF recon.stage = "idle" THEN Reconciling(timeline) ELSE recon
    /\ UNCHANGED <<server, wire, link, sessions, timeline, reading, loadingOlder, known, refresh,
                   queue, hydration, sends, history>>

ReconServed ==
    /\ recon.stage = "sent"
    /\ recon' = [recon EXCEPT !.stage = "answered",
                    !.batch = Tail_(Page) \o PageOf(recon.commands)]
    /\ UNCHANGED <<server, wire, link, sessions, timeline, reading, loadingOlder, known, refresh,
                   queue, hydration, sends, history, spent>>

\* The timeline of a conversation closed meanwhile is written to all the same.
ReconApplied ==
    /\ recon.stage = "answered"
    /\ timeline' = IF recon.batch = <<>> THEN timeline ELSE MergeNewer(timeline, recon.batch)
    /\ torn' = (torn \/ Tears(recon.batch, timeline))
    /\ lagging' = (lagging \/ Lags(recon.batch, timeline))
    /\ recon' = NoRecon
    /\ UNCHANGED <<server, wire, link, sessions, reading, loadingOlder, known, refresh, queue,
                   hydration, sends, synced, spent>>

ReconFails ==
    /\ recon.stage = "sent" /\ Unlucky
    /\ recon' = NoRecon
    /\ UNCHANGED <<server, wire, link, sessions, timeline, reading, loadingOlder, known, refresh,
                   queue, hydration, sends, history>>

-----------------------------------------------------------------------------
(* The refresh of the whole client, as this buffer sees it.                *)

NoRefresh == [stage |-> "idle", page |-> <<>>, rev |-> 0, session |-> 0, again |-> FALSE]

RequestRefresh ==
    refresh' = IF refresh.stage = "idle" THEN [NoRefresh EXCEPT !.stage = "sent"]
               ELSE [refresh EXCEPT !.again = TRUE]

RefreshServed ==
    /\ refresh.stage = "sent"
    /\ refresh' = [refresh EXCEPT !.stage = "answered", !.page = Tail_(BootPage), !.rev = thread,
                                  !.session = IF link = "joined" THEN sessions ELSE 0]
    /\ UNCHANGED <<server, wire, link, sessions, timeline, reading, known, queue, sends,
                   requests, history, spent>>

\* replaceBootstrapMessages and reconcileDirectMessageHistories, and then
\* reconcileAllBuffers, which does not wait for a reconciliation under way.
RefreshApplied ==
    LET shown == Open(refresh.rev)
        tl == IF shown THEN refresh.page ELSE <<>>
    IN /\ refresh.stage = "answered"
       /\ timeline' = tl
       /\ known' = IF refresh.rev > known THEN refresh.rev ELSE known
       /\ hydration' = IF kind = "direct" /\ shown THEN Hydrate(NoHydration) ELSE NoHydration
       /\ synced' = (link = "joined" /\ refresh.session = sessions)
       /\ torn' = FALSE /\ lagging' = FALSE
       /\ recon' = IF recon.stage = "idle" /\ shown THEN Reconciling(tl) ELSE recon
       /\ refresh' = [refresh EXCEPT !.stage = IF recon.stage = "idle" /\ shown THEN "waiting" ELSE "done"]
       /\ UNCHANGED <<server, wire, link, sessions, reading, loadingOlder, queue, sends, spent>>

RefreshFails ==
    /\ refresh.stage = "sent" /\ Unlucky
    /\ recon' = IF recon.stage = "idle" /\ Open(known) THEN Reconciling(timeline) ELSE recon
    /\ refresh' = [refresh EXCEPT !.stage = IF recon.stage = "idle" /\ Open(known) THEN "waiting" ELSE "done"]
    /\ UNCHANGED <<server, wire, link, sessions, timeline, reading, loadingOlder, known, queue,
                   hydration, sends, history>>

\* Mutant: the frames that waited are applied and kept.
RefreshSettlesKeeping ==
    /\ refresh.stage = "done" \/ (refresh.stage = "waiting" /\ recon.stage = "idle")
    /\ IF refresh.again
       THEN /\ refresh' = [NoRefresh EXCEPT !.stage = "sent"]
            /\ UNCHANGED <<timeline, known, hydration, history>>
       ELSE /\ refresh' = NoRefresh
            /\ Becomes(ApplyFrames(Client, queue))
            /\ synced' = (synced /\ \A i \in DOMAIN queue : queue[i].session = sessions)
    /\ UNCHANGED <<server, wire, link, sessions, reading, loadingOlder, recon, queue, sends, spent>>

RefreshSettles ==
    /\ refresh.stage = "done" \/ (refresh.stage = "waiting" /\ recon.stage = "idle")
    /\ IF refresh.again
       THEN /\ refresh' = [NoRefresh EXCEPT !.stage = "sent"]
            /\ UNCHANGED <<timeline, known, hydration, queue, history>>
       ELSE /\ refresh' = NoRefresh
            /\ Becomes(ApplyFrames(Client, queue))
            /\ queue' = <<>>
            /\ synced' = (synced /\ \A i \in DOMAIN queue : queue[i].session = sessions)
    /\ UNCHANGED <<server, wire, link, sessions, reading, loadingOlder, recon, sends, spent>>

LinkLost ==
    /\ link = "joined" /\ Unlucky
    /\ link' = "down" /\ wire' = <<>> /\ synced' = FALSE
    /\ sends' = {[s EXCEPT !.online = FALSE] : s \in sends}
    /\ UNCHANGED <<server, sessions, timeline, reading, known, refresh, queue, requests, torn, lagging>>

JoinOk ==
    /\ link = "down"
    /\ link' = "joined" /\ sessions' = sessions + 1
    /\ RequestRefresh
    /\ UNCHANGED <<server, wire, timeline, reading, known, queue, sends, requests, history, spent>>

-----------------------------------------------------------------------------
(* The user scrolls.                                                       *)

NoOlder == [stage |-> "idle", before |-> 0, page |-> <<>>]

LoadOlder ==
    /\ loadingOlder.stage = "idle" /\ Open(known) /\ Spends(1)
    /\ timeline # <<>> /\ Head(timeline).id > 0
    /\ loadingOlder' = [NoOlder EXCEPT !.stage = "sent", !.before = Head(timeline).id]
    /\ UNCHANGED <<server, wire, link, sessions, timeline, reading, known, recon, refresh, queue,
                   hydration, sends, history>>

OlderServed ==
    /\ loadingOlder.stage = "sent"
    /\ loadingOlder' = [loadingOlder EXCEPT !.stage = "answered",
                            !.page = PageOf(Newest(Page, loadingOlder.before))]
    /\ UNCHANGED <<server, wire, link, sessions, timeline, reading, known, recon, refresh, queue,
                   hydration, sends, history, spent>>

OlderApplied ==
    /\ loadingOlder.stage = "answered"
    /\ timeline' = IF loadingOlder.page = <<>> THEN timeline ELSE MergeOlder(loadingOlder.page, timeline)
    /\ torn' = (torn \/ Tears(loadingOlder.page, timeline))
    /\ lagging' = (lagging \/ Lags(loadingOlder.page, timeline))
    /\ loadingOlder' = NoOlder
    /\ UNCHANGED <<server, wire, link, sessions, reading, known, recon, refresh, queue, hydration,
                   sends, synced, spent>>

OlderFails ==
    /\ loadingOlder.stage = "sent" /\ Unlucky
    /\ loadingOlder' = NoOlder
    /\ UNCHANGED <<server, wire, link, sessions, timeline, reading, known, recon, refresh, queue,
                   hydration, sends, history>>

\* Back at the bottom the timeline of a channel is cut to the limit again.
SetReading(older) ==
    /\ reading # older /\ Open(known) /\ Spends(1)
    /\ reading' = older
    /\ IF older \/ kind = "direct"
       THEN UNCHANGED <<timeline, torn>>
       ELSE /\ timeline' = TrimToLimit(timeline, RenderLimit)
            /\ torn' = (torn \/ Cuts(timeline, RenderLimit))
    /\ UNCHANGED <<server, wire, link, sessions, known, refresh, queue, sends, requests, synced, lagging>>

-----------------------------------------------------------------------------
(* Sending.  A message is shown as pending, replaced by the stored one     *)
(* when the answer comes, failed when it does not; a push that the         *)
(* client has given up may still be served, and a retry is another push.   *)

Pending(cid) == [id |-> cid, rank |-> 0, at |-> Len(log), state |-> "pending"]
Pushed(cid) == [cid |-> cid, waiting |-> TRUE, served |-> FALSE, online |-> TRUE]
NewId == -(spent.steps + 1)

Ready == link = "joined" /\ Open(known)

Unsent == {i \in DOMAIN timeline : timeline[i].id < 0}

Send ==
    /\ Ready /\ Spends(2) /\ Cardinality(Unsent) < MaxUnsent
    /\ timeline' = Append(timeline, Pending(NewId))
    /\ sends' = sends \cup {Pushed(NewId)}
    /\ UNCHANGED <<server, wire, link, sessions, reading, known, refresh, queue, requests, history>>

\* Mutant: the push has a new identifier, what is on show keeps the old one.
RetryUnderOldId(i) ==
    /\ Ready /\ timeline[i].state = "failed" /\ Spends(1)
    /\ timeline' = [timeline EXCEPT ![i] = Pending(timeline[i].id)]
    /\ sends' = sends \cup {Pushed(NewId)}
    /\ UNCHANGED <<server, wire, link, sessions, reading, known, refresh, queue, requests, history>>

Retry(i) ==
    /\ Ready /\ timeline[i].state = "failed" /\ Spends(1)
    /\ timeline' = [timeline EXCEPT ![i] = Pending(NewId)]
    /\ sends' = sends \cup {Pushed(NewId)}
    /\ UNCHANGED <<server, wire, link, sessions, reading, known, refresh, queue, requests, history>>

With(s, new) == (sends \ {s}) \cup (IF new.waiting \/ ~new.served THEN {new} ELSE {})

\* The answer overtakes the frames that wait behind the push, and is
\* followed by the frame of the message itself.
SendServed(s) ==
    /\ ~s.served /\ Open(thread) /\ Len(log) < MaxLog
    /\ log' = Append(log, [rank |-> 0, own |-> TRUE])
    /\ sends' = With(s, [s EXCEPT !.served = TRUE])
    /\ LET answer == [type |-> "reply", cid |-> s.cid, id |-> Len(log) + 1]
           earlier == {i \in DOMAIN wire : wire[i].type = "reply"}
       IN \E k \in 1..Len(wire) + 1 :
            /\ \A i \in earlier : i < k
            /\ s.online \/ k = 1 + Len(wire)
            /\ wire' = SubSeq(wire, 1, k - 1) \o (IF s.online THEN <<answer>> ELSE <<>>)
                           \o SubSeq(wire, k, Len(wire)) \o Frames(MessageFrame(Len(log) + 1, 0))
    /\ UNCHANGED <<kind, thread, link, sessions, timeline, reading, known, refresh, queue,
                   requests, history, spent>>

Replaced(tl, cid, e) == [i \in DOMAIN tl |-> IF tl[i].id = cid THEN e ELSE tl[i]]

SendReplied ==
    /\ wire # <<>> /\ Head(wire).type = "reply"
    /\ wire' = Tail(wire)
    /\ LET heard == {s \in sends : s.cid = Head(wire).cid}
       IN /\ timeline' = IF heard = {} THEN timeline
                         ELSE Replaced(timeline, Head(wire).cid, Stored_(Head(wire).id))
          /\ sends' = sends \ heard
    /\ UNCHANGED <<server, link, sessions, reading, known, refresh, queue, requests, history, spent>>

MarkFailed(tl, cid) ==
    [i \in DOMAIN tl |-> IF tl[i].id = cid THEN [tl[i] EXCEPT !.state = "failed"] ELSE tl[i]]

\* The push times out, or the server refuses it.
SendFails(s) ==
    /\ s.waiting
    /\ \/ Unlucky
       \/ (s.served \/ ~Open(thread)) /\ ~s.online /\ UNCHANGED spent
       \/ ~s.served /\ ~Open(thread) /\ UNCHANGED spent
    /\ timeline' = MarkFailed(timeline, s.cid)
    /\ sends' = With(s, [s EXCEPT !.waiting = FALSE])
    /\ UNCHANGED <<server, wire, link, sessions, reading, known, refresh, queue, requests, history>>

-----------------------------------------------------------------------------
Init ==
    /\ kind \in {"channel", "direct"}
    /\ log = [i \in 1..Stored |-> [rank |-> 0, own |-> FALSE]]
    /\ thread = 1 /\ known = 1
    /\ wire = <<>> /\ queue = <<>> /\ sends = {}
    /\ link = "joined" /\ sessions = 1
    /\ timeline = Tail_(BootPage) /\ reading = FALSE
    /\ loadingOlder = NoOlder /\ recon = NoRecon /\ hydration = NoHydration
    /\ refresh = [NoRefresh EXCEPT !.stage = "sent"]
    /\ synced = FALSE /\ torn = FALSE /\ lagging = FALSE
    /\ spent = [steps |-> 0, drops |-> 0]

Serve ==
    \/ HydrationServed \/ HydrationPage
    \/ ReconServed \/ ReconApplied
    \/ RefreshServed \/ RefreshApplied \/ RefreshSettles
    \/ OlderServed \/ OlderApplied
    \/ ReceiveFrame \/ SendReplied \/ JoinOk

Next ==
    \/ \E rank \in {0, 1} : Post(rank)
    \/ \E n \in DOMAIN log : CommandProgresses(n)
    \/ ThreadChanges
    \/ ReconcileServerBuffers
    \/ LoadOlder
    \/ \E older \in BOOLEAN : SetReading(older)
    \/ Send
    \/ \E i \in DOMAIN timeline : Retry(i)
    \/ \E s \in sends : SendServed(s) \/ SendFails(s)
    \/ HydrationFails \/ ReconFails \/ RefreshFails \/ OlderFails
    \/ LinkLost
    \/ Serve

Spec == Init /\ [][Next]_vars

-----------------------------------------------------------------------------
(* Properties.                                                             *)

EntryType == [id : (-MaxSteps)..MaxLog, rank : Ranks, at : 0..MaxLog, state : {"sent", "pending", "failed"}]

\* Type invariant: in particular a stored message is never pending, frames
\* wait only for a refresh, and a push is forgotten once both sides are done.
TypeOK ==
    /\ timeline \in Seq(EntryType)
    /\ \A i \in DOMAIN timeline : (timeline[i].state = "sent") <=> (timeline[i].id > 0)
    /\ Len(log) <= MaxLog
    /\ loadingOlder.stage \in {"idle", "sent", "answered"}
    /\ recon.stage \in {"idle", "sent", "answered"}
    /\ refresh.stage \in {"idle", "sent", "answered", "waiting", "done"}
    /\ hydration.busy <=> hydration.stage # "idle"
    /\ refresh.stage = "idle" => queue = <<>>
    /\ \A s \in sends : s.waiting \/ ~s.served

\* Nothing is on its way and a bootstrap of this connection has been applied.
Quiet ==
    /\ link = "joined" /\ wire = <<>> /\ refresh.stage = "idle" /\ recon.stage = "idle"
    /\ ~hydration.busy /\ loadingOlder.stage = "idle" /\ synced /\ Open(known)

\* Whatever order bootstraps, reconciliations, older pages, frames, answers
\* and reconnections came in, a quiet timeline shows the newest message and
\* every one between it and the oldest on show; unless a page was merged, or
\* an old message's status appended, that did not adjoin what was on show, or
\* the limit cut off a message that had been tried again in its old place.
NothingMissing ==
    Quiet /\ ~torn /\ (kind = "channel" \/ hydration.done)
        => LET shown == Ids(timeline)
           IN shown = DOMAIN log \/ \E oldest \in shown : shown = oldest..Len(log)

\* What a timeline says of a message comes true.  A message shown as pending
\* has a push that still waits: no failure, reconnection, bootstrap or retry
\* leaves it pending for ever.  A command's status on a quiet timeline is the
\* server's: neither an older page, a reconciliation answered before a frame
\* nor a bootstrap answered before the frames that waited for it sets it
\* back; unless a late page put a message on show whose frame was gone
\* already, or the frame met a closed conversation that still showed it.
StatusesConverge ==
    /\ \A i \in DOMAIN timeline : timeline[i].state = "pending"
           => \E s \in sends : s.cid = timeline[i].id /\ s.waiting
    /\ Quiet /\ ~lagging
           => \A i \in DOMAIN timeline :
                  timeline[i].id > 0 => timeline[i].rank = log[timeline[i].id].rank

\* No message of another user is shown twice, whichever of bootstrap pages,
\* older pages, reconciliations, hydrations and frames bring it.  Own messages
\* and commands are left out, as the code has a way for each: a message that is
\* reconciled before its push is answered, and a command that both batches of
\* a reconciliation hold and the timeline, emptied or replaced meanwhile, does
\* not (a merge compares a batch only with what is on show).
NoDuplicates ==
    \A i, j \in DOMAIN timeline : i # j /\ timeline[i].id = timeline[j].id
        => log[timeline[i].id].own \/ log[timeline[i].id].rank > 0

\* A direct conversation that counts as fetched holds every message, also
\* when it was closed and opened again while pages were on their way.
HydratedIsComplete == Quiet /\ hydration.done => Ids(timeline) = DOMAIN log
=============================================================================
