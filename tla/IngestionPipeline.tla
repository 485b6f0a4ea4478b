------------------------- MODULE IngestionPipeline -------------------------
(***************************************************************************)
(* How an IRC record becomes persisted effects: one server connection's    *)
(* Session (irc/session.ex with session/wirekeeper_ingestion.ex), the      *)
(* Ircxd client it starts, the transport adapter between that client and   *)
(* Wirekeeper (wirekeeper_transport.ex), the claims table                  *)
(* (chat/irc_ingestion_effect.ex) and the process that cleans it           *)
(* (ingestion_claim_releaser.ex).                                          *)
(*                                                                         *)
(* Wirekeeper is the record "wk": the live generation of the connection's  *)
(* key as WirekeeperConnection specifies it, reduced to what its calls and *)
(* messages tell the Session.  The parser, Ircxd, is external: it handles  *)
(* what it is handed in order, turns a record into its events, tells the   *)
(* Session it accepted the record, and drops what carries a stale handle.  *)
(*                                                                         *)
(* Every effect of the model has the same effect name, so that an effect   *)
(* key is the index alone; different names only make fewer keys collide.   *)
(***************************************************************************)
EXTENDS Integers, FiniteSets, Sequences

CONSTANTS
    Effects,          \* effects of a record, each dispatched by its own event
    FirstCheckpoint,  \* first record with a checkpoint: registration is over
    MaxRetained,      \* Wirekeeper's :max_records
    MaxInFlight,      \* Wirekeeper's :max_in_flight
    MaxGenerations,   \* bound of the model: connections opened
    MaxSequence,      \* bound of the model: records of a generation
    MaxSessions,      \* bound of the model: Session incarnations
    MaxFaults         \* bound of the model: failures of any kind

ASSUME PipelineAssumption ==
    /\ {Effects, MaxRetained, MaxInFlight, MaxGenerations} \subseteq Nat \ {0}
    /\ {FirstCheckpoint, MaxSequence, MaxSessions, MaxFaults} \subseteq Nat

VARIABLES
    wk,        \* Wirekeeper: the live generation of the key
    session,   \* the Session process
    inbox,     \* the Session's mailbox
    client,    \* the Ircxd client and its mailbox
    claims,    \* rows of irc_ingestion_effects
    applied,   \* history: how often each effect was committed
    misfiled,  \* history: records with an event filed under another receipt
    acked,     \* history: records Wirekeeper has acknowledged
    pending,   \* the releaser's claims to release
    faults     \* failures so far

vars == <<wk, session, inbox, client, claims, applied, misfiled, acked, pending, faults>>

-----------------------------------------------------------------------------
(* State.                                                                  *)

Generations == 1..MaxGenerations
Sequences == 1..MaxSequence
Receipts == [gen : Generations, seq : Sequences]
ClaimRows == [gen : Generations, seq : Sequences, index : Nat]
EffectIds == [gen : Generations, seq : Sequences, effect : 1..Effects]

Receipt(g, s) == [gen |-> g, seq |-> s]

\* gen is 0 while no generation is live; opened numbers the generations.
\* consumer is the attached Session incarnation, 0 when detached; told says
\* it has been sent :upstream_closed.
WkState ==
    [gen : 0..MaxGenerations, opened : 0..MaxGenerations,
     last : 0..MaxSequence, retained : SUBSET Sequences,
     inFlight : SUBSET Sequences, ackedThrough : 0..MaxSequence,
     gap : BOOLEAN, checkpoint : BOOLEAN, consumer : 0..MaxSessions,
     closed : BOOLEAN, told : BOOLEAN]

\* id counts incarnations; client says it holds (and monitors) a client pid.
SessionState ==
    [up : BOOLEAN, id : 0..MaxSessions, client : BOOLEAN,
     receipts : Seq(Receipts), index : Nat,
     failed : BOOLEAN, retrying : BOOLEAN, timer : BOOLEAN]

\* gen is the generation of the client's transport handle, 0 before it has
\* one; emitted says the events of the first delivery have been sent.
ClientState ==
    [phase : {"none", "connecting", "replacing", "up"},
     gen : 0..MaxGenerations,
     todo : Seq([kind : {"data", "closed"}, gen : Generations, seq : 0..MaxSequence]),
     emitted : BOOLEAN]

\* "effect" says which of the record's effects an event carries.
Messages ==
    [kind : {"connect", "data", "event", "accepted", "overflow", "closed", "down", "retry"},
     gen : 0..MaxGenerations, seq : 0..MaxSequence, effect : 0..Effects]

Message(kind, g, s, e) == [kind |-> kind, gen |-> g, seq |-> s, effect |-> e]
Signal(kind) == Message(kind, 0, 0, 0)

NoClient == [phase |-> "none", gen |-> 0, todo |-> <<>>, emitted |-> FALSE]

FreshSession(id) == [up |-> TRUE, id |-> id, client |-> FALSE, receipts |-> <<>>,
                     index |-> 0, failed |-> FALSE, retrying |-> FALSE, timer |-> FALSE]

NoGeneration(opened) ==
    [gen |-> 0, opened |-> opened, last |-> 0, retained |-> {}, inFlight |-> {},
     ackedThrough |-> 0, gap |-> FALSE, checkpoint |-> FALSE, consumer |-> 0,
     closed |-> FALSE, told |-> FALSE]

-----------------------------------------------------------------------------
(* Wirekeeper, as its calls and messages show it.                          *)

AttachedTo(w, id) == w.gen # 0 /\ w.consumer = id /\ id # 0

\* The oldest retained records that are not in flight, within the credit.
Batch(w) ==
    LET waiting == w.retained \ w.inFlight
    IN  {s \in waiting : Cardinality({r \in waiting : r < s})
                             < MaxInFlight - Cardinality(w.inFlight)}

Dispatched(w) == [w EXCEPT !.inFlight = @ \cup Batch(w)]

\* A set of sequences from the lowest to the highest.
Ascending(S) ==
    CHOOSE f \in [1..Cardinality(S) -> S] : \A i, j \in DOMAIN f : i < j => f[i] < f[j]

DataMessages(w) ==
    LET order == Ascending(Batch(w))
    IN  [i \in DOMAIN order |-> Message("data", w.gen, order[i], 0)]

\* What follows an attachment, an ACK or a closure: the credit is used, the
\* closure is told behind the last record, a drained closed generation stops.
ClosureDue(w) == w.closed /\ w.consumer # 0 /\ ~w.told /\ w.retained \subseteq w.inFlight

Settled(w) ==
    LET d == Dispatched(w)
    IN  IF d.closed /\ d.consumer # 0 /\ d.retained = {} THEN NoGeneration(d.opened)
        ELSE [d EXCEPT !.told = @ \/ ClosureDue(d)]

SettledMessages(w) ==
    DataMessages(w) \o (IF ClosureDue(Dispatched(w))
                        THEN <<Message("closed", w.gen, 0, 0)>> ELSE <<>>)

Detached(w) == [w EXCEPT !.consumer = 0, !.inFlight = {}, !.told = FALSE]

\* {:detach, generation, consumer}: another consumer is left attached.
DetachCall(w, g, id) == IF w.gen = g /\ w.consumer = id THEN Detached(w) ELSE w

\* close/2: another generation is left alone.
CloseCall(w, g) == IF w.gen = g /\ g # 0 THEN NoGeneration(w.opened) ELSE w

\* ack/4 and ack_with_checkpoint/5 succeed for a record in flight and, as
\* duplicates, for an acknowledged one.
AckAllowed(w, id, r) ==
    /\ w.gen = r.gen
    /\ AttachedTo(w, id)
    /\ r.seq <= w.ackedThrough \/ r.seq \in w.inFlight

AckCall(w, r) ==
    IF r.seq <= w.ackedThrough THEN w
    ELSE [w EXCEPT !.ackedThrough = r.seq,
                   !.retained = {s \in @ : s > r.seq},
                   !.inFlight = {s \in @ : s > r.seq},
                   !.checkpoint = @ \/ r.seq >= FirstCheckpoint]

\* A record arrives; beyond the bound the oldest are evicted.
Stored(w) ==
    LET all == w.retained \cup {w.last + 1}
        kept == {s \in all : Cardinality({r \in all : r > s}) < MaxRetained}
    IN  [w EXCEPT !.last = @ + 1, !.retained = kept, !.gap = @ \/ kept # all]

-----------------------------------------------------------------------------
Init ==
    /\ wk = NoGeneration(0)
    /\ session = [FreshSession(0) EXCEPT !.up = FALSE]
    /\ inbox = <<>>
    /\ client = NoClient
    /\ claims = {}
    /\ applied = [e \in EffectIds |-> 0]
    /\ misfiled = {}
    /\ acked = {}
    /\ pending = {}
    /\ faults = 0

Fault == faults < MaxFaults /\ faults' = faults + 1

Database == <<claims, applied, misfiled>>

(* Wirekeeper's own steps. *)

\* Messages to a Session that is gone are lost with its mailbox.
ToSession(w, messages) ==
    inbox' = IF session.up /\ AttachedTo(w, session.id) THEN inbox \o messages ELSE inbox

\* A full buffer evicts, and the consumer is told.  Wirekeeper coalesces the
\* notices until the next ACK; here every eviction sends one, which the Session
\* answers with a close that finds the generation closed already.
RecordArrives ==
    /\ wk.gen # 0
    /\ ~wk.closed
    /\ wk.last < MaxSequence
    /\ LET stored == Stored(wk)
           evicted == stored.retained # wk.retained \cup {stored.last}
           overflow == IF evicted THEN <<Message("overflow", wk.gen, 0, 0)>> ELSE <<>>
       IN  IF wk.consumer = 0
           THEN wk' = stored /\ UNCHANGED inbox
           ELSE /\ wk' = Dispatched(stored)
                /\ ToSession(wk, overflow \o DataMessages(stored))
    /\ UNCHANGED <<session, client, Database, acked, pending, faults>>

\* The peer closes the socket, or the adapter or a write fails.
UpstreamCloses ==
    /\ wk.gen # 0
    /\ ~wk.closed
    /\ Fault
    /\ LET w == [wk EXCEPT !.closed = TRUE]
       IN  wk' = Settled(w) /\ ToSession(w, SettledMessages(w))
    /\ UNCHANGED <<session, client, Database, acked, pending>>

\* The consumer watcher reports a dead Session, or a message was refused.
ConsumerLost ==
    /\ wk.consumer # 0
    /\ \/ ~(session.up /\ wk.consumer = session.id) /\ UNCHANGED faults
       \/ session.up /\ wk.consumer = session.id /\ Fault
    /\ wk' = Detached(wk)
    /\ UNCHANGED <<session, inbox, client, Database, acked, pending>>

\* The socket owner goes away with everything it retained: its node is lost,
\* or the retention of a closed generation expires.
GenerationLost ==
    /\ wk.gen # 0
    /\ Fault
    /\ wk' = NoGeneration(wk.opened)
    /\ UNCHANGED <<session, inbox, client, Database, acked, pending>>

-----------------------------------------------------------------------------
(* The Ircxd client and its transport adapter.                             *)

Opened(w, id) ==
    [NoGeneration(w.opened + 1) EXCEPT !.gen = w.opened + 1, !.consumer = id]

OpenFresh(w) ==
    /\ w.opened < MaxGenerations
    /\ wk' = Opened(w, session.id)
    /\ client' = [client EXCEPT !.phase = "up", !.gen = w.opened + 1]
    /\ UNCHANGED inbox

ClientOpens ==
    /\ client.phase = "connecting"
    /\ wk.gen = 0
    /\ OpenFresh(wk)
    /\ UNCHANGED <<session, Database, acked, pending, faults>>

\* attach_existing: detach, then attach.  Attaching dispatches what is
\* retained before the summary decides whether the generation is resumed.
ClientAttaches ==
    /\ client.phase = "connecting"
    /\ wk.gen # 0
    /\ wk.consumer \in {0, session.id}
    /\ LET attached == [Detached(wk) EXCEPT !.consumer = session.id]
       IN  /\ wk' = Settled(attached)
           /\ inbox' = inbox \o SettledMessages(attached)
    /\ client' = IF wk.checkpoint /\ ~wk.gap
                 THEN [client EXCEPT !.phase = "up", !.gen = wk.gen]
                 ELSE [client EXCEPT !.phase = "replacing", !.gen = wk.gen]
    /\ UNCHANGED <<session, Database, acked, pending, faults>>

\* replace_with_fresh: detach, close, wait for the key, open and attach.
ClientReplaces ==
    /\ client.phase = "replacing"
    /\ OpenFresh(CloseCall(wk, client.gen))
    /\ UNCHANGED <<session, Database, acked, pending, faults>>

\* The client exits: its connection attempt failed, it was told the transport
\* closed, or it crashed.  Its monitor tells the Session.
ClientExits ==
    /\ client' = NoClient
    /\ inbox' = Append(inbox, Signal("down"))

ClientFails ==
    /\ client.phase # "none"
    /\ Fault
    /\ ClientExits
    /\ UNCHANGED <<wk, session, Database, acked, pending>>

\* already_attached: the previous Session's detachment has not been seen yet.
ClientRefused ==
    /\ client.phase = "connecting"
    /\ wk.consumer \notin {0, session.id}
    /\ ClientExits
    /\ UNCHANGED <<wk, session, Database, acked, pending, faults>>

ClientEvents ==
    /\ client.phase = "up"
    /\ client.todo # <<>>
    /\ ~client.emitted
    /\ LET d == Head(client.todo)
       IN  /\ d.kind = "data" /\ d.gen = client.gen
           /\ inbox' = inbox \o [i \in 1..Effects |-> Message("event", d.gen, d.seq, i)]
    /\ client' = [client EXCEPT !.emitted = TRUE]
    /\ UNCHANGED <<wk, session, Database, acked, pending, faults>>

\* Mutant: the receipt is off by one.
ClientAcceptsNextReceipt ==
    /\ client.emitted
    /\ LET d == Head(client.todo)
       IN  inbox' = Append(inbox, Message("accepted", d.gen, d.seq + 1, 0))
    /\ client' = [client EXCEPT !.emitted = FALSE, !.todo = Tail(@)]
    /\ UNCHANGED <<wk, session, Database, acked, pending, faults>>

\* accepted/3 follows the record's events.
ClientAccepts ==
    /\ client.emitted
    /\ LET d == Head(client.todo)
       IN  inbox' = Append(inbox, Message("accepted", d.gen, d.seq, 0))
    /\ client' = [client EXCEPT !.emitted = FALSE, !.todo = Tail(@)]
    /\ UNCHANGED <<wk, session, Database, acked, pending, faults>>

ClientIgnoresStale ==
    /\ client.phase = "up"
    /\ client.todo # <<>>
    /\ Head(client.todo).gen # client.gen
    /\ client' = [client EXCEPT !.todo = Tail(@)]
    /\ UNCHANGED <<wk, session, inbox, Database, acked, pending, faults>>

ClientCloses ==
    /\ client.phase = "up"
    /\ client.todo # <<>>
    /\ Head(client.todo).kind = "closed" /\ Head(client.todo).gen = client.gen
    /\ ClientExits
    /\ UNCHANGED <<wk, session, Database, acked, pending, faults>>

-----------------------------------------------------------------------------
(* The Session: one message of its mailbox at a time.                      *)

Takes(kind) == session.up /\ inbox # <<>> /\ Head(inbox).kind = kind
Taken == inbox' = Tail(inbox)

\* A client that has exited gets nothing.
ToClient(kind, g, s) ==
    IF client.phase = "none" THEN client
    ELSE [client EXCEPT !.todo = Append(@, [kind |-> kind, gen |-> g, seq |-> s])]

\* {:data, payload}: without a client, or in a retry, the record is left to
\* be replayed; otherwise its receipt is queued and the client is handed it.
TakeData ==
    /\ Takes("data")
    /\ LET d == Head(inbox)
       IN  IF ~session.client \/ session.retrying
           THEN UNCHANGED <<session, client>>
           ELSE /\ session' = [session EXCEPT !.receipts = Append(@, Receipt(d.gen, d.seq))]
                /\ client' = ToClient("data", d.gen, d.seq)
    /\ Taken
    /\ UNCHANGED <<wk, Database, acked, pending, faults>>

\* Mutant: only a started retry blocks.
BlockedInRetry == session.retrying

\* blocked?/1: a failed effect holds back every event after it.
Blocked == session.failed \/ session.retrying

\* A blocked event is dropped; it comes again with its record.
TakeBlockedEvent ==
    /\ Takes("event")
    /\ Blocked
    /\ Taken
    /\ UNCHANGED <<wk, session, client, Database, acked, pending, faults>>

\* event_context/2 files the event under the first receipt of the queue.
Filed == IF session.receipts = <<>> THEN {} ELSE {Head(session.receipts)}

\* claim/2 in the transaction of the effect: a row that is there makes it a
\* duplicate; without a context there is no claim and nothing to find.
Claim(m, rows) ==
    IF rows # {} /\ rows \subseteq claims
    THEN UNCHANGED <<claims, applied>>
    ELSE /\ claims' = claims \cup rows
         /\ applied' = [applied EXCEPT ![[gen |-> m.gen, seq |-> m.seq, effect |-> m.effect]] = @ + 1]

TakeEvent ==
    /\ Takes("event")
    /\ ~Blocked
    /\ LET m == Head(inbox)
       IN  /\ Claim(m, {[gen |-> r.gen, seq |-> r.seq, index |-> session.index] : r \in Filed})
           /\ misfiled' = IF Filed = {Receipt(m.gen, m.seq)} THEN misfiled
                          ELSE misfiled \cup {Receipt(m.gen, m.seq)}
    /\ session' = [session EXCEPT !.index = IF Filed = {} THEN @ ELSE @ + 1]
    /\ Taken
    /\ UNCHANGED <<wk, client, acked, pending, faults>>

\* The transaction fails: record_result/2 blames the first receipt, if any.
EventFails ==
    /\ Takes("event")
    /\ ~Blocked
    /\ Fault
    /\ session' = [session EXCEPT !.index = IF Filed = {} THEN @ ELSE @ + 1,
                                  !.failed = Filed # {}]
    /\ Taken
    /\ UNCHANGED <<wk, client, Database, acked, pending>>

\* {:accepted, _} after a failed effect: Wirekeeper keeps the record, the
\* consumer is detached and the client is told its transport is gone.
TakeAcceptedOfFailure ==
    /\ Takes("accepted")
    /\ session.failed /\ ~session.retrying
    /\ LET m == Head(inbox)
       IN  /\ \/ wk' = DetachCall(wk, m.gen, session.id) /\ UNCHANGED faults
              \/ wk' = wk /\ Fault
           /\ client' = ToClient("closed", m.gen, 0)
    /\ session' = [session EXCEPT !.retrying = TRUE]
    /\ Taken
    /\ UNCHANGED <<Database, acked, pending>>

TakeAcceptedInRetry ==
    /\ Takes("accepted")
    /\ session.retrying
    /\ Taken
    /\ UNCHANGED <<wk, session, client, Database, acked, pending, faults>>

\* Mutant: the effect index runs on into the next record.
AcknowledgedKeepsIndex(sequence) ==
    IF session.receipts # <<>> /\ Head(session.receipts).seq = sequence
    THEN /\ session' = [session EXCEPT !.receipts = Tail(@)]
         /\ pending' = pending \cup {Head(session.receipts)}
    ELSE UNCHANGED <<session, pending>>

\* acknowledge/2: the receipt leaves the queue when it is the first one, and
\* its claims are handed to the releaser under that receipt's generation.
Acknowledged(sequence) ==
    IF session.receipts # <<>> /\ Head(session.receipts).seq = sequence
    THEN /\ session' = [session EXCEPT !.receipts = Tail(@), !.index = 0]
         /\ pending' = pending \cup {Head(session.receipts)}
    ELSE UNCHANGED <<session, pending>>

\* What the cumulative acknowledgement of r removes.
AckedBy(w, r) == {Receipt(r.gen, s) : s \in {t \in w.retained : t <= r.seq}}

TakeAccepted ==
    /\ Takes("accepted")
    /\ ~Blocked
    /\ LET m == Head(inbox)
           r == Receipt(m.gen, m.seq)
       IN  /\ AckAllowed(wk, session.id, r)
           /\ wk' = Settled(AckCall(wk, r))
           /\ inbox' = Tail(inbox) \o SettledMessages(AckCall(wk, r))
           /\ acked' = acked \cup AckedBy(wk, r)
           /\ Acknowledged(m.seq)
    /\ UNCHANGED <<client, Database, faults>>

\* The acknowledgement is refused, its checkpoint is unusable, or the call
\* fails, with or without effect.  acceptance_failed/2 closes the generation,
\* unless that call fails too, and tells the client.  The Session goes on
\* unblocked, with the same receipts.
TakeAcceptedNotAcked ==
    /\ Takes("accepted")
    /\ ~Blocked
    /\ \E effective, closes \in BOOLEAN :
          LET r == Receipt(Head(inbox).gen, Head(inbox).seq)
              allowed == AckAllowed(wk, session.id, r)
              w == IF effective THEN Settled(AckCall(wk, r)) ELSE wk
          IN  /\ effective => allowed
              /\ IF closes /\ ~allowed THEN UNCHANGED faults ELSE Fault
              /\ wk' = IF closes THEN CloseCall(w, r.gen) ELSE w
              /\ inbox' = Tail(inbox) \o (IF effective THEN SettledMessages(AckCall(wk, r))
                                          ELSE <<>>)
              /\ acked' = IF effective THEN acked \cup AckedBy(wk, r) ELSE acked
              /\ client' = ToClient("closed", r.gen, 0)
    /\ UNCHANGED <<session, Database, pending>>

\* {:upstream_closed, payload}: the client is told.
TakeUpstreamClosed ==
    /\ Takes("closed")
    /\ client' = IF session.client THEN ToClient("closed", Head(inbox).gen, 0) ELSE client
    /\ Taken
    /\ UNCHANGED <<wk, session, Database, acked, pending, faults>>

\* {:overflow, payload}: the gapped generation is closed, unless the call
\* fails, and the client is told.
TakeOverflow ==
    /\ Takes("overflow")
    /\ LET g == Head(inbox).gen
       IN  IF ~session.client
           THEN UNCHANGED <<wk, client, faults>>
           ELSE /\ \/ wk' = CloseCall(wk, g) /\ UNCHANGED faults
                   \/ wk' = wk /\ Fault
                /\ client' = ToClient("closed", g, 0)
    /\ Taken
    /\ UNCHANGED <<session, Database, acked, pending>>

\* {:DOWN, ...} of the client: the Session is detached from whatever
\* generation is live, and retry_or_stop schedules a retry.  When Wirekeeper
\* cannot be reached the Session stops instead (SessionDies), unless the loss
\* of its node was seen, which has detached the Session already.
TakeDown ==
    /\ Takes("down")
    /\ session' = [session EXCEPT !.client = FALSE, !.timer = TRUE]
    /\ wk' = DetachCall(wk, wk.gen, session.id)
    /\ Taken
    /\ UNCHANGED <<client, Database, acked, pending, faults>>

RetryTimer ==
    /\ session.up /\ session.timer
    /\ session' = [session EXCEPT !.timer = FALSE]
    /\ inbox' = Append(inbox, Signal("retry"))
    /\ UNCHANGED <<wk, client, Database, acked, pending, faults>>

\* Mutant: ingestion is not reset for the new client.
TakeConnectUnreset ==
    /\ Takes("connect") \/ Takes("retry")
    /\ client' = [NoClient EXCEPT !.phase = "connecting"]
    /\ session' = [session EXCEPT !.client = TRUE]
    /\ Taken
    /\ UNCHANGED <<wk, Database, acked, pending, faults>>

\* connect/1 and retry_connect/2, which first resets what ingestion knows.
TakeConnect ==
    /\ Takes("connect") \/ Takes("retry")
    /\ client' = [NoClient EXCEPT !.phase = "connecting"]
    /\ session' = [FreshSession(session.id) EXCEPT !.client = TRUE]
    /\ Taken
    /\ UNCHANGED <<wk, Database, acked, pending, faults>>

\* A Session that crashes, cannot detach, gives up retrying or goes down with
\* its node takes its mailbox and its client with it, and the node also what
\* the releaser holds.
SessionDies ==
    /\ session.up
    /\ Fault
    /\ session' = [session EXCEPT !.up = FALSE]
    /\ inbox' = <<>>
    /\ client' = NoClient
    /\ pending' \in {pending, {}}
    /\ UNCHANGED <<wk, Database, acked>>

SessionStarts ==
    /\ ~session.up
    /\ session.id < MaxSessions
    /\ session' = FreshSession(session.id + 1)
    /\ inbox' = <<Signal("connect")>>
    /\ UNCHANGED <<wk, client, Database, acked, pending, faults>>

-----------------------------------------------------------------------------
(* The claim releaser.                                                     *)

\* flush_pending/1: the rows of the acknowledged receipts are deleted.
Flush ==
    /\ pending # {}
    /\ claims' = {c \in claims : Receipt(c.gen, c.seq) \notin pending}
    /\ pending' = {}
    /\ UNCHANGED <<wk, session, inbox, client, applied, misfiled, acked, faults>>

ClaimsOf(g) == {c \in claims : c.gen = g}

\* Mutant: rows one above the watermark are deleted too.
RecoverPastWatermark(g) ==
    /\ ClaimsOf(g) # {}
    /\ claims' = claims \ (IF wk.gen = g
                           THEN {c \in ClaimsOf(g) : c.seq <= wk.ackedThrough + 1}
                           ELSE ClaimsOf(g))
    /\ UNCHANGED <<wk, session, inbox, client, applied, misfiled, acked, pending, faults>>

\* Mutant: the watermark itself is left out.
RecoverBelowWatermark(g) ==
    /\ ClaimsOf(g) # {}
    /\ claims' = claims \ (IF wk.gen = g
                           THEN {c \in ClaimsOf(g) : c.seq < wk.ackedThrough}
                           ELSE ClaimsOf(g))
    /\ UNCHANGED <<wk, session, inbox, client, applied, misfiled, acked, pending, faults>>

\* recover_generation/2 for one generation that has rows.
Recover(g) ==
    /\ ClaimsOf(g) # {}
    /\ claims' = claims \ (IF wk.gen = g
                           THEN {c \in ClaimsOf(g) : c.seq <= wk.ackedThrough}
                           ELSE ClaimsOf(g))
    /\ UNCHANGED <<wk, session, inbox, client, applied, misfiled, acked, pending, faults>>

-----------------------------------------------------------------------------
Wirekeeper == RecordArrives \/ UpstreamCloses \/ ConsumerLost \/ GenerationLost

Client ==
    \/ ClientOpens \/ ClientAttaches \/ ClientReplaces \/ ClientRefused
    \/ ClientEvents \/ ClientAccepts \/ ClientIgnoresStale \/ ClientCloses

Session ==
    \/ TakeConnect \/ TakeData \/ TakeEvent \/ TakeBlockedEvent
    \/ TakeAccepted \/ TakeAcceptedNotAcked \/ TakeAcceptedOfFailure
    \/ TakeAcceptedInRetry \/ TakeUpstreamClosed \/ TakeOverflow \/ TakeDown
    \/ RetryTimer

Releaser == Flush \/ \E g \in Generations : Recover(g)

Next ==
    \/ Wirekeeper \/ Client \/ Session \/ Releaser
    \/ EventFails \/ ClientFails \/ SessionDies \/ SessionStarts

Spec == Init /\ [][Next]_vars

\* Live processes take the steps they can; the consumer watcher reports; the
\* recovery timer of the releaser comes round again and again, and Wirekeeper
\* answers it sooner or later.  The flush of the releaser is not relied upon:
\* what it holds dies with the engine.
Fairness ==
    /\ WF_vars(Client)
    /\ WF_vars(Session)
    /\ WF_vars(ConsumerLost /\ UNCHANGED faults)
    /\ \A g \in Generations : WF_vars(Recover(g))

FairSpec == Spec /\ Fairness

-----------------------------------------------------------------------------
(* Properties.                                                             *)

\* The state stays within its types.
TypeOK ==
    /\ wk \in WkState
    /\ session \in SessionState
    /\ inbox \in Seq(Messages)
    /\ client \in ClientState
    /\ claims \subseteq ClaimRows
    /\ applied \in [EffectIds -> Nat]
    /\ misfiled \subseteq Receipts
    /\ acked \subseteq Receipts
    /\ pending \subseteq Receipts
    /\ faults \in 0..MaxFaults

Record(e) == Receipt(e.gen, e.seq)

\* A record's effects are claimed under its own receipt, and its generation,
\* with which its claims are released, is live.
Guarded(e) == e.gen = wk.gen /\ Record(e) \notin misfiled

\* However often a generation replays a record, after Session and client
\* crashes, failed effects and lost acknowledgements, each effect filed under
\* the record's receipt is committed at most once while the generation lives.
GuardedEffectsApplyOnce == \A e \in EffectIds : Guarded(e) => applied[e] <= 1

\* Wirekeeper is never told that a record is done while one of its effects,
\* filed under its receipt, is not committed: not after a failed effect, and
\* not by the cumulative acknowledgement of a later record.
AcknowledgedWasApplied ==
    \A e \in EffectIds : Record(e) \in acked \ misfiled => applied[e] >= 1

\* Neither the flush nor the recovery of the releaser deletes a claim whose
\* record the live generation could still replay.
ClaimsOutliveReplay ==
    [][\A c \in claims \ claims' : c.gen = wk.gen => c.seq <= wk.ackedThrough]_vars

\* The claims of an acknowledged record are deleted in the end, also when the
\* engine died before the releaser was told (docs/wirekeeper.md:403-409).
ClaimsAreReleased ==
    \A r \in Receipts : r \in acked ~> \A c \in claims : Receipt(c.gen, c.seq) # r

\* A failed effect does not leave the Session blocked for good: its record's
\* acceptance, or the exit of the client, starts over.
FailureIsRetried == session.failed ~> ~session.failed \/ ~session.up

\* "these persisted effects are applied once" (docs/wirekeeper.md:410-411):
\* no effect of a record is committed twice.
AppliedAtMostOnce == \A e \in EffectIds : applied[e] <= 1

\* "Delivery is bounded at-least-once" (docs/wirekeeper.md:139) and "these
\* persisted effects are applied once" (:410-411): no acknowledged record is
\* without its effects.
AcknowledgedIsApplied ==
    \A e \in EffectIds : Record(e) \in acked => applied[e] >= 1

=============================================================================
