----------------------- MODULE IngestionPipelineProofs -----------------------
(***************************************************************************)
(* The pipeline's types and its promises, for any number of effects,       *)
(* records, generations, Sessions and failures: no claim is deleted while  *)
(* its record can be replayed, an effect filed under its record's receipt  *)
(* is committed at most once while the generation lives, and no record is  *)
(* acknowledged before its effects are committed.                          *)
(***************************************************************************)
EXTENDS IngestionPipeline, NumberLemmas, SequenceTheorems

-----------------------------------------------------------------------------
(* The invariant.                                                          *)

\* Generations that have been opened when the last one was n.
OpenedBy(n) == {g \in Generations : g <= n}

KnownReceipts(n) == [gen : OpenedBy(n), seq : Sequences]

\* Everything that speaks of a record names one, of a generation that was opened.
KnownMessages(n) ==
    {m \in Messages :
        /\ m.kind \in {"data", "event", "accepted", "overflow", "closed"} => m.gen \in OpenedBy(n)
        /\ m.kind \in {"data", "event", "accepted"} => m.seq \in Sequences}

KnownDeliveries(n) ==
    {d \in [kind : {"data", "closed"}, gen : OpenedBy(n), seq : 0..MaxSequence] :
        d.kind = "data" => d.seq \in Sequences}

GoodWk(w) == w \in WkState /\ w.gen <= w.opened

GoodSession(s, n) == s \in SessionState /\ s.receipts \in Seq(KnownReceipts(n))

GoodClient(c, n) ==
    /\ c \in ClientState
    /\ c.todo \in Seq(KnownDeliveries(n))
    /\ c.emitted => /\ c.phase = "up" /\ c.todo # <<>>
                    /\ Head(c.todo).kind = "data" /\ Head(c.todo).gen = c.gen

GoodRows(cl, ap, mi, ac) ==
    /\ cl \subseteq ClaimRows
    /\ ap \in [EffectIds -> Nat]
    /\ mi \subseteq Receipts
    /\ ac \subseteq Receipts

\* The releaser holds receipts of records that are done, as far as the live
\* generation is concerned: its watermark has passed them.
Released(p, w) ==
    /\ p \subseteq KnownReceipts(w.opened)
    /\ \A r \in p : r.gen = w.gen => r.seq <= w.ackedThrough

PInv ==
    /\ GoodWk(wk)
    /\ GoodSession(session, wk.opened)
    /\ inbox \in Seq(KnownMessages(wk.opened))
    /\ GoodClient(client, wk.opened)
    /\ GoodRows(claims, applied, misfiled, acked)
    /\ Released(pending, wk)
    /\ faults \in 0..MaxFaults

LEMMA Bounds ==
    /\ Effects \in Nat /\ Effects > 0
    /\ MaxGenerations \in Nat /\ MaxSequence \in Nat
    /\ MaxSessions \in Nat /\ MaxFaults \in Nat
BY PipelineAssumption

LEMMA TypesFollow == PInv => TypeOK
<1> SUFFICES ASSUME PInv PROVE TypeOK
  OBVIOUS
<1>1. KnownMessages(wk.opened) \subseteq Messages
  BY DEF KnownMessages
<1>2. inbox \in Seq(Messages)
  BY <1>1, SeqMonotonic DEF PInv
<1>3. pending \subseteq Receipts
  BY DEF PInv, Released, KnownReceipts, OpenedBy, Receipts
<1> QED
  BY <1>2, <1>3 DEF PInv, TypeOK, GoodWk, GoodSession, GoodClient, GoodRows

LEMMA InitPInv == Init => PInv
<1> SUFFICES ASSUME Init PROVE PInv
  OBVIOUS
<1>1. GoodWk(wk)
  BY Bounds DEF Init, GoodWk, NoGeneration, WkState
<1>2. GoodSession(session, wk.opened)
  <2>1. <<>> \in Seq(Receipts) /\ <<>> \in Seq(KnownReceipts(wk.opened))
    BY EmptySeq
  <2>2. session = [up |-> FALSE, id |-> 0, client |-> FALSE, receipts |-> <<>>,
                   index |-> 0, failed |-> FALSE, retrying |-> FALSE, timer |-> FALSE]
    BY DEF Init, FreshSession
  <2> QED
    BY <2>1, <2>2, Bounds DEF GoodSession, SessionState
<1>3. inbox \in Seq(KnownMessages(wk.opened))
  BY EmptySeq DEF Init
<1>4. GoodClient(client, wk.opened)
  <2>1. \A S : <<>> \in Seq(S)
    BY EmptySeq
  <2> QED
    BY <2>1, Bounds DEF Init, GoodClient, NoClient, ClientState
<1>5. GoodRows(claims, applied, misfiled, acked) /\ Released(pending, wk)
  BY DEF Init, GoodRows, Released
<1> QED
  BY <1>1, <1>2, <1>3, <1>4, <1>5, Bounds DEF Init, PInv

-----------------------------------------------------------------------------
(* What a generation's calls return.                                       *)

\* The same generation, further on, or none.
Continues(w, v) ==
    /\ v \in WkState
    /\ v.opened = w.opened
    /\ v.gen = 0 \/ (v.gen = w.gen /\ v.ackedThrough >= w.ackedThrough)

LEMMA NoneContinues ==
    ASSUME NEW w \in WkState
    PROVE  Continues(w, NoGeneration(w.opened))
BY Bounds DEF Continues, NoGeneration, WkState

LEMMA SameContinues ==
    ASSUME NEW w \in WkState
    PROVE  Continues(w, w)
BY Bounds DEF Continues, WkState

LEMMA ContinuesTwice ==
    ASSUME NEW w \in WkState, NEW v, NEW u, Continues(w, v), Continues(v, u)
    PROVE  Continues(w, u)
<1>1. w.ackedThrough \in Int /\ v.ackedThrough \in Int /\ u.ackedThrough \in Int
  BY Bounds DEF Continues, WkState
<1> QED
  BY <1>1 DEF Continues

LEMMA SettledContinues ==
    ASSUME NEW w \in WkState
    PROVE  Continues(w, Settled(w))
<1>1. Batch(w) \subseteq w.retained
  BY DEF Batch
<1>2. Dispatched(w) \in WkState /\ Continues(w, Dispatched(w))
  BY <1>1, Bounds DEF Dispatched, Continues, WkState
<1>3. ClosureDue(Dispatched(w)) \in BOOLEAN
  BY <1>2 DEF ClosureDue, WkState
<1> DEFINE d == Dispatched(w)
<1>4. Continues(d, [d EXCEPT !.told = @ \/ ClosureDue(d)])
  <2>1. d \in WkState
    BY <1>2
  <2> HIDE DEF d
  <2>2. ASSUME NEW b \in BOOLEAN PROVE Continues(d, [d EXCEPT !.told = b])
    BY <2>1, Bounds DEF Continues, WkState
  <2>3. (d.told \/ ClosureDue(d)) \in BOOLEAN
    OBVIOUS
  <2>4. Continues(d, [d EXCEPT !.told = (d.told \/ ClosureDue(d))])
    BY <2>2, <2>3, Zenon
  <2> QED
    BY <2>4
<1>5. Continues(d, NoGeneration(d.opened))
  BY <1>2, NoneContinues
<1>6. Continues(d, Settled(w))
  BY <1>4, <1>5 DEF Settled
<1> QED
  BY <1>2, <1>6, ContinuesTwice

LEMMA DetachedContinues ==
    ASSUME NEW w \in WkState, NEW g, NEW id
    PROVE  /\ Continues(w, Detached(w))
           /\ Continues(w, DetachCall(w, g, id))
<1>1. Continues(w, Detached(w))
  <2>1. 0 \in 0..MaxSessions /\ {} \in SUBSET Sequences
    BY Bounds
  <2>2. Detached(w) \in WkState
    BY <2>1 DEF Detached, WkState
  <2>3. w.ackedThrough \in Int
    BY Bounds DEF WkState
  <2> QED
    BY <2>2, <2>3 DEF Detached, Continues, WkState
<1> QED
  BY <1>1, SameContinues DEF DetachCall

LEMMA CloseContinues ==
    ASSUME NEW w \in WkState, NEW g
    PROVE  Continues(w, CloseCall(w, g))
BY NoneContinues, SameContinues DEF CloseCall

LEMMA AckContinues ==
    ASSUME NEW w \in WkState, NEW r \in Receipts, NEW id, AckAllowed(w, id, r)
    PROVE  /\ Continues(w, AckCall(w, r))
           /\ AckCall(w, r).gen = r.gen /\ w.gen = r.gen
           /\ AckCall(w, r).ackedThrough >= r.seq
           /\ AckedBy(w, r) \subseteq Receipts
<1>1. r.gen \in Generations /\ r.seq \in Sequences /\ r.seq \in Int /\ w.ackedThrough \in Int
  BY Bounds DEF Receipts, Sequences, WkState
<1>2. CASE r.seq <= w.ackedThrough
  BY <1>1, <1>2, SameContinues DEF AckCall, AckAllowed, AckedBy, Receipt, Receipts, WkState
<1>3. CASE ~(r.seq <= w.ackedThrough)
  <2> DEFINE v == [w EXCEPT !.ackedThrough = r.seq,
                            !.retained = {s \in @ : s > r.seq},
                            !.inFlight = {s \in @ : s > r.seq},
                            !.checkpoint = @ \/ r.seq >= FirstCheckpoint]
  <2>1. AckCall(w, r) = v
    BY <1>3 DEF AckCall
  <2>2. r.seq \in 0..MaxSequence
    BY <1>1, Bounds DEF Sequences
  <2>3. v \in WkState
    <3> DEFINE b == w.checkpoint \/ r.seq >= FirstCheckpoint
               kept == {s \in w.retained : s > r.seq}
               flying == {s \in w.inFlight : s > r.seq}
    <3>1. b \in BOOLEAN /\ kept \subseteq Sequences /\ flying \subseteq Sequences
      BY DEF WkState
    <3>2. v = [w EXCEPT !.ackedThrough = r.seq, !.retained = kept,
                        !.inFlight = flying, !.checkpoint = b]
      OBVIOUS
    <3> HIDE DEF b, kept, flying, v
    <3> QED
      BY <2>2, <3>1, <3>2, Bounds DEF WkState
  <2>4. v.gen = w.gen /\ v.opened = w.opened /\ v.ackedThrough = r.seq
    BY DEF WkState
  <2>5. AckedBy(w, r) \subseteq Receipts
    BY <1>1 DEF AckedBy, Receipt, Receipts, WkState
  <2> HIDE DEF v
  <2> QED
    BY <1>1, <1>3, <2>1, <2>3, <2>4, <2>5 DEF Continues, AckAllowed
<1> QED
  BY <1>2, <1>3

LEMMA StoredContinues ==
    ASSUME NEW w \in WkState, w.last < MaxSequence
    PROVE  Continues(w, Stored(w)) /\ Continues(w, Dispatched(Stored(w)))
<1>1. w.last + 1 \in Sequences /\ w.last + 1 \in 0..MaxSequence
  BY Bounds DEF WkState, Sequences
<1>2. Continues(w, Stored(w))
  <2> DEFINE all == w.retained \cup {w.last + 1}
             kept == {s \in all : Cardinality({r \in all : r > s}) < MaxRetained}
             lost == w.gap \/ kept # all
  <2>1. kept \subseteq Sequences /\ lost \in BOOLEAN
    BY <1>1 DEF WkState
  <2>2. Stored(w) = [w EXCEPT !.last = w.last + 1, !.retained = kept, !.gap = lost]
    BY DEF Stored
  <2>3. w.ackedThrough \in Int
    BY Bounds DEF WkState
  <2> HIDE DEF all, kept, lost
  <2>4. Stored(w) \in WkState
    BY <1>1, <2>1, <2>2 DEF WkState
  <2>5. /\ Stored(w).opened = w.opened /\ Stored(w).gen = w.gen
        /\ Stored(w).ackedThrough = w.ackedThrough
    BY <2>2 DEF WkState
  <2> QED
    BY <2>3, <2>4, <2>5 DEF Continues
<1>3. Stored(w) \in WkState
  BY <1>2 DEF Continues
<1>4. Batch(Stored(w)) \subseteq Stored(w).retained
  BY DEF Batch
<1>5. Continues(Stored(w), Dispatched(Stored(w)))
  BY <1>3, <1>4, Bounds DEF Dispatched, Continues, WkState
<1> QED
  BY <1>2, <1>5, ContinuesTwice

-----------------------------------------------------------------------------
(* What a generation tells its consumer.                                   *)

LEMMA AscendingLists ==
    ASSUME NEW S, S \subseteq Sequences
    PROVE  /\ Ascending(S) \in [1..Cardinality(S) -> S]
           /\ Cardinality(S) \in Nat
<1>1. PICK f : Lists(f, S)
  BY CanBeListed, Bounds DEF Sequences
<1>2. f \in [1..Cardinality(S) -> S] /\ \A i, j \in DOMAIN f : i < j => f[i] < f[j]
  BY <1>1 DEF Lists
<1>3. Cardinality(S) \in Nat
  BY IntervalSubset, Bounds DEF Sequences
<1> QED
  BY <1>2, <1>3 DEF Ascending

LEMMA DataMessagesKnown ==
    ASSUME NEW w \in WkState, w.gen # 0, w.gen <= w.opened
    PROVE  DataMessages(w) \in Seq(KnownMessages(w.opened))
<1> DEFINE order == Ascending(Batch(w))
           n == Cardinality(Batch(w))
<1>1. Batch(w) \subseteq Sequences
  BY DEF Batch, WkState
<1>2. order \in [1..n -> Batch(w)] /\ n \in Nat
  BY <1>1, AscendingLists
<1>3. \A s \in Sequences : Message("data", w.gen, s, 0) \in KnownMessages(w.opened)
  BY Bounds DEF Message, KnownMessages, Messages, OpenedBy, WkState, Generations, Sequences
<1>4. DataMessages(w) = [i \in 1..n |-> Message("data", w.gen, order[i], 0)]
  <2> HIDE DEF n
  <2>1. DOMAIN order = 1..n
    BY <1>2
  <2> QED
    BY <2>1 DEF DataMessages
<1> HIDE DEF order, n
<1>5. DataMessages(w) \in [1..n -> KnownMessages(w.opened)]
  BY <1>1, <1>2, <1>3, <1>4
<1> QED
  BY <1>2, <1>5

LEMMA SettledMessagesKnown ==
    ASSUME NEW w \in WkState, w.gen # 0, w.gen <= w.opened
    PROVE  SettledMessages(w) \in Seq(KnownMessages(w.opened))
<1>1. DataMessages(w) \in Seq(KnownMessages(w.opened))
  BY DataMessagesKnown
<1>2. Message("closed", w.gen, 0, 0) \in KnownMessages(w.opened)
  BY Bounds DEF Message, KnownMessages, Messages, OpenedBy, WkState, Generations
<1>3. <<Message("closed", w.gen, 0, 0)>> \in Seq(KnownMessages(w.opened))
  BY <1>2
<1>4. <<>> \in Seq(KnownMessages(w.opened))
  BY EmptySeq
<1> QED
  BY <1>1, <1>3, <1>4, ConcatProperties DEF SettledMessages

-----------------------------------------------------------------------------
(* Parts of a step.                                                        *)

\* What was opened stays opened.
LEMMA KnownGrows ==
    ASSUME NEW n \in Nat, NEW m \in Nat, n <= m
    PROVE  /\ KnownReceipts(n) \subseteq KnownReceipts(m)
           /\ Seq(KnownReceipts(n)) \subseteq Seq(KnownReceipts(m))
           /\ Seq(KnownMessages(n)) \subseteq Seq(KnownMessages(m))
           /\ Seq(KnownDeliveries(n)) \subseteq Seq(KnownDeliveries(m))
<1>1. OpenedBy(n) \subseteq OpenedBy(m)
  BY Bounds DEF OpenedBy, Generations
<1>2. KnownReceipts(n) \subseteq KnownReceipts(m)
  BY <1>1 DEF KnownReceipts
<1>3. KnownMessages(n) \subseteq KnownMessages(m)
  BY <1>1 DEF KnownMessages
<1>4. KnownDeliveries(n) \subseteq KnownDeliveries(m)
  BY <1>1 DEF KnownDeliveries
<1> QED
  BY <1>2, <1>3, <1>4, SeqMonotonic

LEMMA FaultsCounted ==
    ASSUME PInv, Fault \/ UNCHANGED faults
    PROVE  faults' \in 0..MaxFaults
BY Bounds DEF PInv, Fault

\* A watermark that moves on releases no less.
LEMMA ReleasedKept ==
    ASSUME NEW p, NEW w \in WkState, NEW v, Released(p, w), Continues(w, v)
    PROVE  Released(p, v)
<1>1. p \subseteq KnownReceipts(v.opened)
  BY DEF Continues, Released
<1>2. ASSUME NEW r \in p, r.gen = v.gen
      PROVE  r.seq <= v.ackedThrough
  <2>1. r \in KnownReceipts(w.opened)
    BY DEF Released
  <2>2. r.gen # 0 /\ r.seq \in Int
    BY <2>1, Bounds DEF KnownReceipts, OpenedBy, Generations, Sequences
  <2>3. v.gen = w.gen /\ v.ackedThrough >= w.ackedThrough
    BY <1>2, <2>2 DEF Continues
  <2>4. r.seq <= w.ackedThrough
    BY <1>2, <2>3 DEF Released
  <2>5. w.ackedThrough \in Int /\ v.ackedThrough \in Int
    BY Bounds DEF Continues, WkState
  <2> QED
    BY <2>2, <2>3, <2>4, <2>5
<1> QED
  BY <1>1, <1>2 DEF Released

\* A step in which the live generation goes on, or ends, keeps the invariant
\* when each of its parts does.
LEMMA Compose ==
    ASSUME PInv, Continues(wk, wk'),
           GoodSession(session', wk.opened),
           inbox' \in Seq(KnownMessages(wk.opened)),
           GoodClient(client', wk.opened),
           GoodRows(claims', applied', misfiled', acked'),
           pending' \subseteq pending,
           Fault \/ UNCHANGED faults
    PROVE  PInv'
<1>1. wk'.opened = wk.opened /\ wk \in WkState
  BY DEF Continues, PInv, GoodWk
<1>2. GoodWk(wk')
  <2>1. wk.opened \in Nat /\ wk.gen <= wk.opened
    BY Bounds DEF PInv, GoodWk, WkState
  <2> QED
    BY <2>1 DEF GoodWk, Continues
<1>3. Released(pending', wk')
  <2>1. Released(pending, wk')
    BY <1>1, ReleasedKept DEF PInv
  <2> QED
    BY <2>1 DEF Released
<1>4. faults' \in 0..MaxFaults
  BY FaultsCounted
<1> QED
  BY <1>1, <1>2, <1>3, <1>4 DEF PInv

LEMMA StaysSame ==
    ASSUME PInv
    PROVE  /\ wk \in WkState /\ wk.opened \in Nat /\ wk.gen \in Nat /\ wk.gen <= wk.opened
           /\ Continues(wk, wk)
           /\ wk.gen # 0 => wk.gen \in OpenedBy(wk.opened)
           /\ UNCHANGED wk => Continues(wk, wk')
           /\ UNCHANGED session => GoodSession(session', wk.opened)
           /\ UNCHANGED inbox => inbox' \in Seq(KnownMessages(wk.opened))
           /\ UNCHANGED client => GoodClient(client', wk.opened)
           /\ UNCHANGED <<Database, acked>> => GoodRows(claims', applied', misfiled', acked')
           /\ UNCHANGED pending => pending' \subseteq pending
<1>1. wk \in WkState /\ wk.opened \in Nat /\ wk.gen \in Nat /\ wk.gen <= wk.opened
  BY Bounds DEF PInv, GoodWk, WkState
<1>2. Continues(wk, wk)
  BY <1>1, SameContinues
<1>3. wk.gen # 0 => wk.gen \in OpenedBy(wk.opened)
  BY <1>1, Bounds DEF OpenedBy, Generations, WkState
<1> QED
  BY <1>1, <1>2, <1>3 DEF PInv, Database

\* The first message of the mailbox and what remains behind it.
LEMMA InboxHead ==
    ASSUME PInv, inbox # <<>>
    PROVE  /\ Head(inbox) \in KnownMessages(wk.opened)
           /\ Tail(inbox) \in Seq(KnownMessages(wk.opened))
           /\ Taken => inbox' \in Seq(KnownMessages(wk.opened))
<1>1. inbox \in Seq(KnownMessages(wk.opened))
  BY DEF PInv
<1> QED
  BY <1>1, HeadTailProperties DEF Taken

LEMMA InboxGrows ==
    ASSUME PInv, NEW ms \in Seq(KnownMessages(wk.opened))
    PROVE  /\ inbox \o ms \in Seq(KnownMessages(wk.opened))
           /\ inbox # <<>> => Tail(inbox) \o ms \in Seq(KnownMessages(wk.opened))
<1>1. inbox \in Seq(KnownMessages(wk.opened))
  BY DEF PInv
<1>2. inbox # <<>> => Tail(inbox) \in Seq(KnownMessages(wk.opened))
  BY InboxHead
<1> QED
  BY <1>1, <1>2, ConcatProperties

LEMMA SignalsKnown ==
    ASSUME PInv, NEW kind \in {"connect", "down", "retry"}
    PROVE  /\ Signal(kind) \in KnownMessages(wk.opened)
           /\ Append(inbox, Signal(kind)) \in Seq(KnownMessages(wk.opened))
           /\ <<Signal(kind)>> \in Seq(KnownMessages(wk.opened))
<1>1. Signal(kind) \in KnownMessages(wk.opened)
  BY Bounds DEF Signal, Message, KnownMessages, Messages
<1>2. inbox \in Seq(KnownMessages(wk.opened))
  BY DEF PInv
<1> QED
  BY <1>1, <1>2

LEMMA ToClientGood ==
    ASSUME PInv, NEW kind \in {"data", "closed"}, NEW g \in OpenedBy(wk.opened),
           NEW s \in 0..MaxSequence, kind = "data" => s \in Sequences
    PROVE  GoodClient(ToClient(kind, g, s), wk.opened)
<1> DEFINE d == [kind |-> kind, gen |-> g, seq |-> s]
           K == KnownDeliveries(wk.opened)
           D == [kind : {"data", "closed"}, gen : Generations, seq : 0..MaxSequence]
<1>1. d \in K /\ d \in D
  BY DEF KnownDeliveries, OpenedBy
<1>2. client.todo \in Seq(K) /\ client.todo \in Seq(D) /\ client \in ClientState
  BY DEF PInv, GoodClient, ClientState
<1> HIDE DEF d, K, D
<1>3. Append(client.todo, d) \in Seq(K) /\ Append(client.todo, d) \in Seq(D)
  BY <1>1, <1>2
<1>4. client.todo # <<>> => Head(Append(client.todo, d)) = Head(client.todo)
  BY <1>2
<1>5. Append(client.todo, d) # <<>>
  BY <1>2
<1>6. GoodClient([client EXCEPT !.todo = Append(@, d)], wk.opened)
  BY <1>2, <1>3, <1>4, <1>5 DEF PInv, GoodClient, ClientState, K, D
<1>7. GoodClient(client, wk.opened)
  BY DEF PInv
<1> QED
  BY <1>6, <1>7 DEF ToClient, d

LEMMA NewClientGood ==
    ASSUME NEW n, NEW p \in {"none", "connecting"}
    PROVE  GoodClient([NoClient EXCEPT !.phase = p], n)
<1> DEFINE c == [NoClient EXCEPT !.phase = p]
           D == Seq([kind : {"data", "closed"}, gen : Generations, seq : 0..MaxSequence])
<1>1. <<>> \in D
  BY EmptySeq
<1>2. <<>> \in Seq(KnownDeliveries(n))
  BY EmptySeq
<1> HIDE DEF D
<1>3. 0 \in 0..MaxGenerations
  BY Bounds
<1>4. NoClient \in [phase : {"none", "connecting", "replacing", "up"},
                    gen : 0..MaxGenerations, todo : D, emitted : BOOLEAN]
  BY <1>1, <1>3 DEF NoClient
<1>5. c \in [phase : {"none", "connecting", "replacing", "up"},
             gen : 0..MaxGenerations, todo : D, emitted : BOOLEAN]
  BY <1>4
<1>6. c.todo = <<>> /\ c.emitted = FALSE
  BY DEF NoClient
<1> HIDE DEF c
<1>7. c \in ClientState
  BY <1>5 DEF ClientState, D
<1>8. GoodClient(c, n)
  BY <1>2, <1>6, <1>7 DEF GoodClient
<1> QED
  BY <1>8 DEF c

LEMMA NoClientGood ==
    ASSUME NEW n
    PROVE  GoodClient(NoClient, n)
<1>1. [NoClient EXCEPT !.phase = "none"] = NoClient
  BY DEF NoClient
<1> QED
  BY <1>1, NewClientGood

LEMMA FreshSessionGood ==
    ASSUME NEW n, NEW id \in 0..MaxSessions, NEW b \in BOOLEAN
    PROVE  /\ GoodSession([FreshSession(id) EXCEPT !.client = b], n)
           /\ GoodSession(FreshSession(id), n)
<1>1. <<>> \in Seq(Receipts) /\ <<>> \in Seq(KnownReceipts(n))
  BY EmptySeq
<1>2. /\ FreshSession(id) \in SessionState
      /\ [FreshSession(id) EXCEPT !.client = b] \in SessionState
      /\ FreshSession(id).receipts = <<>>
      /\ [FreshSession(id) EXCEPT !.client = b].receipts = <<>>
  BY <1>1 DEF FreshSession, SessionState
<1> QED
  BY <1>1, <1>2 DEF GoodSession

-----------------------------------------------------------------------------
(* Wirekeeper's steps.                                                     *)

LEMMA ToSessionKnown ==
    ASSUME PInv, NEW ms \in Seq(KnownMessages(wk.opened)), NEW w, ToSession(w, ms)
    PROVE  inbox' \in Seq(KnownMessages(wk.opened))
BY InboxGrows, StaysSame DEF ToSession, PInv

LEMMA RecordArrivesStep ==
    ASSUME PInv, RecordArrives
    PROVE  PInv'
<1> DEFINE stored == Stored(wk)
           evicted == stored.retained # wk.retained \cup {stored.last}
           overflow == IF evicted THEN <<Message("overflow", wk.gen, 0, 0)>> ELSE <<>>
<1>1. /\ Continues(wk, stored) /\ Continues(wk, Dispatched(stored))
      /\ stored \in WkState /\ stored.gen = wk.gen /\ stored.opened = wk.opened
  <2>1. Continues(wk, stored) /\ Continues(wk, Dispatched(stored))
    BY StaysSame, StoredContinues DEF RecordArrives
  <2> QED
    BY <2>1, StaysSame DEF Continues, Stored, WkState
<1>2. Continues(wk, wk')
  BY <1>1 DEF RecordArrives
<1>3. inbox' \in Seq(KnownMessages(wk.opened))
  <2>1. DataMessages(stored) \in Seq(KnownMessages(wk.opened))
    BY <1>1, StaysSame, DataMessagesKnown DEF RecordArrives
  <2>2. wk.gen # 0
    BY DEF RecordArrives
  <2>3. Message("overflow", wk.gen, 0, 0) \in KnownMessages(wk.opened)
    BY <2>2, StaysSame, Bounds DEF Message, KnownMessages, Messages, WkState
  <2>4. overflow \in Seq(KnownMessages(wk.opened))
    <3>1. <<Message("overflow", wk.gen, 0, 0)>> \in Seq(KnownMessages(wk.opened))
      BY <2>3
    <3>2. <<>> \in Seq(KnownMessages(wk.opened))
      BY EmptySeq
    <3> QED
      BY <3>1, <3>2
  <2>5. overflow \o DataMessages(stored) \in Seq(KnownMessages(wk.opened))
    <3> HIDE DEF overflow, stored
    <3> QED
      BY <2>1, <2>4, ConcatProperties
  <2>6. UNCHANGED inbox \/ ToSession(wk, overflow \o DataMessages(stored))
    BY DEF RecordArrives
  <2> HIDE DEF overflow, stored
  <2> QED
    BY <2>5, <2>6, ToSessionKnown, StaysSame
<1> QED
  BY <1>2, <1>3, StaysSame, Compose DEF RecordArrives

LEMMA UpstreamClosesStep ==
    ASSUME PInv, UpstreamCloses
    PROVE  PInv'
<1> DEFINE w == [wk EXCEPT !.closed = TRUE]
<1>1. w \in WkState /\ w.gen = wk.gen /\ w.opened = wk.opened /\ Continues(wk, w)
  <2>1. w \in WkState
    BY StaysSame DEF WkState
  <2>2. w.gen = wk.gen /\ w.opened = wk.opened /\ w.ackedThrough = wk.ackedThrough
    BY StaysSame DEF WkState
  <2> QED
    BY <2>1, <2>2, StaysSame DEF Continues
<1>2. wk' = Settled(w) /\ ToSession(w, SettledMessages(w)) /\ wk.gen # 0
  BY DEF UpstreamCloses
<1> HIDE DEF w
<1>3. Continues(wk, wk')
  BY <1>1, <1>2, StaysSame, SettledContinues, ContinuesTwice
<1>4. inbox' \in Seq(KnownMessages(wk.opened))
  BY <1>1, <1>2, StaysSame, SettledMessagesKnown, ToSessionKnown
<1> QED
  BY <1>3, <1>4, StaysSame, Compose DEF UpstreamCloses

LEMMA LostStep ==
    ASSUME PInv, ConsumerLost \/ GenerationLost
    PROVE  PInv'
<1>1. Continues(wk, wk')
  BY StaysSame, DetachedContinues, NoneContinues DEF ConsumerLost, GenerationLost
<1>2. UNCHANGED <<session, inbox, client, Database, acked, pending>>
  BY DEF ConsumerLost, GenerationLost
<1>3. Fault \/ UNCHANGED faults
  BY DEF ConsumerLost, GenerationLost
<1> QED
  BY <1>1, <1>2, <1>3, StaysSame, Compose

-----------------------------------------------------------------------------
(* The client's steps.                                                     *)

\* A new generation: nothing the releaser holds is of it.
LEMMA OpenFreshStep ==
    ASSUME PInv, NEW w, Continues(wk, w), OpenFresh(w), client.phase # "up",
           UNCHANGED <<session, Database, acked, pending, faults>>
    PROVE  PInv'
<1> DEFINE n == wk.opened + 1
<1>1. w.opened = wk.opened /\ n \in Generations /\ n \in Nat /\ wk.opened <= n
  BY StaysSame, Bounds DEF OpenFresh, Continues, Generations
<1>2. wk' \in WkState /\ wk'.gen = n /\ wk'.opened = n
  <2>1. session.id \in 0..MaxSessions /\ 0 \in 0..MaxSequence /\ n \in 0..MaxGenerations
    BY <1>1, Bounds DEF PInv, GoodSession, SessionState, Generations
  <2>2. {} \in SUBSET Sequences
    OBVIOUS
  <2>3. wk' = [NoGeneration(n) EXCEPT !.gen = n, !.consumer = session.id]
    BY <1>1 DEF OpenFresh, Opened
  <2> HIDE DEF n
  <2>4. NoGeneration(n) \in WkState
    BY <2>1, <2>2, Bounds DEF NoGeneration, WkState
  <2> QED
    BY <2>1, <2>3, <2>4 DEF WkState, NoGeneration
<1> HIDE DEF n
<1>3. GoodWk(wk')
  BY <1>1, <1>2 DEF GoodWk
<1>4. GoodSession(session', wk'.opened) /\ inbox' \in Seq(KnownMessages(wk'.opened))
  BY <1>1, <1>2, StaysSame, KnownGrows DEF PInv, GoodSession, OpenFresh
<1>5. GoodClient(client', wk'.opened)
  <2>1. client' = [client EXCEPT !.phase = "up", !.gen = n]
    BY <1>1 DEF OpenFresh, n
  <2>2. client \in ClientState /\ client.todo \in Seq(KnownDeliveries(n))
    BY <1>1, StaysSame, KnownGrows DEF PInv, GoodClient
  <2>3. n \in 0..MaxGenerations
    BY <1>1, Bounds DEF Generations
  <2>4. client' \in ClientState
    BY <2>1, <2>2, <2>3 DEF ClientState
  <2>5. client'.todo = client.todo /\ client'.emitted = FALSE
    BY <2>1, <2>2 DEF PInv, GoodClient, ClientState
  <2> QED
    BY <1>2, <2>2, <2>4, <2>5 DEF GoodClient
<1>6. Released(pending', wk')
  <2>1. pending' \subseteq KnownReceipts(n)
    BY <1>1, StaysSame, KnownGrows DEF PInv, Released
  <2>2. \A r \in pending' : r.gen # n
    <3> TAKE r \in pending'
    <3>1. r.gen \in OpenedBy(wk.opened)
      BY DEF PInv, Released, KnownReceipts
    <3> QED
      BY <3>1, StaysSame, Bounds DEF OpenedBy, Generations, n
  <2> QED
    BY <1>2, <2>1, <2>2 DEF Released
<1> QED
  BY <1>3, <1>4, <1>5, <1>6 DEF PInv, Database

LEMMA ClientOpensStep ==
    ASSUME PInv, ClientOpens \/ ClientReplaces
    PROVE  PInv'
<1>1. CASE ClientOpens
  BY <1>1, StaysSame, OpenFreshStep DEF ClientOpens
<1>2. CASE ClientReplaces
  <2>1. Continues(wk, CloseCall(wk, client.gen))
    BY StaysSame, CloseContinues
  <2> QED
    BY <1>2, <2>1, OpenFreshStep DEF ClientReplaces
<1> QED
  BY <1>1, <1>2

LEMMA ClientAttachesStep ==
    ASSUME PInv, ClientAttaches
    PROVE  PInv'
<1> DEFINE attached == [Detached(wk) EXCEPT !.consumer = session.id]
<1>1. /\ attached \in WkState /\ attached.gen = wk.gen
      /\ attached.opened = wk.opened /\ Continues(wk, attached)
  <2>1. Continues(wk, Detached(wk)) /\ session.id \in 0..MaxSessions
    BY StaysSame, DetachedContinues DEF PInv, GoodSession, SessionState
  <2>2. attached \in WkState
    BY <2>1 DEF Continues, WkState
  <2>3. /\ attached.gen = wk.gen /\ attached.opened = wk.opened
        /\ attached.ackedThrough = wk.ackedThrough
    BY StaysSame DEF Detached, WkState
  <2> QED
    BY <2>2, <2>3, StaysSame DEF Continues
<1>2. /\ wk' = Settled(attached) /\ inbox' = inbox \o SettledMessages(attached)
      /\ wk.gen # 0
  BY DEF ClientAttaches
<1> HIDE DEF attached
<1>3. Continues(wk, wk')
  BY <1>1, <1>2, StaysSame, SettledContinues, ContinuesTwice
<1>4. inbox' \in Seq(KnownMessages(wk.opened))
  BY <1>1, <1>2, StaysSame, SettledMessagesKnown, InboxGrows
<1>5. GoodClient(client', wk.opened)
  <2>1. PICK p \in {"up", "replacing"} : client' = [client EXCEPT !.phase = p, !.gen = wk.gen]
    BY DEF ClientAttaches
  <2>2. client \in ClientState /\ wk.gen \in 0..MaxGenerations
    BY StaysSame DEF PInv, GoodClient, WkState
  <2>3. /\ client' \in ClientState
        /\ client'.todo = client.todo /\ client'.emitted = FALSE
    BY <2>1, <2>2 DEF ClientState, ClientAttaches, PInv, GoodClient
  <2> QED
    BY <2>3 DEF PInv, GoodClient
<1> QED
  BY <1>3, <1>4, <1>5, StaysSame, Compose DEF ClientAttaches

LEMMA ClientExitsStep ==
    ASSUME PInv, ClientFails \/ ClientRefused \/ ClientCloses
    PROVE  PInv'
<1>1. /\ ClientExits /\ UNCHANGED <<wk, session, Database, acked, pending>>
      /\ Fault \/ UNCHANGED faults
  BY DEF ClientFails, ClientRefused, ClientCloses
<1>2. inbox' \in Seq(KnownMessages(wk.opened))
  BY <1>1, SignalsKnown DEF ClientExits
<1>3. GoodClient(client', wk.opened)
  BY <1>1, NoClientGood DEF ClientExits
<1> QED
  BY <1>1, <1>2, <1>3, StaysSame, Compose

\* The head of the deliveries.
LEMMA TodoHead ==
    ASSUME PInv, client.todo # <<>>
    PROVE  /\ Head(client.todo) \in KnownDeliveries(wk.opened)
           /\ Head(client.todo).gen \in OpenedBy(wk.opened)
           /\ GoodClient([client EXCEPT !.emitted = FALSE, !.todo = Tail(@)], wk.opened)
           /\ ~client.emitted => GoodClient([client EXCEPT !.todo = Tail(@)], wk.opened)
<1> DEFINE K == KnownDeliveries(wk.opened)
           D == [kind : {"data", "closed"}, gen : Generations, seq : 0..MaxSequence]
<1>1. client.todo \in Seq(K) /\ client.todo \in Seq(D) /\ client \in ClientState
  BY DEF PInv, GoodClient, ClientState
<1>2. Head(client.todo) \in K /\ Tail(client.todo) \in Seq(K) /\ Tail(client.todo) \in Seq(D)
  <2> HIDE DEF K, D
  <2> QED
    BY <1>1, HeadTailProperties
<1>3. Head(client.todo).gen \in OpenedBy(wk.opened)
  BY <1>2 DEF KnownDeliveries
<1> HIDE DEF K, D
<1>4. GoodClient([client EXCEPT !.emitted = FALSE, !.todo = Tail(@)], wk.opened)
  BY <1>1, <1>2 DEF GoodClient, ClientState, D, K
<1>5. ~client.emitted => GoodClient([client EXCEPT !.todo = Tail(@)], wk.opened)
  BY <1>1, <1>2 DEF GoodClient, ClientState, D, K
<1> QED
  BY <1>2, <1>3, <1>4, <1>5 DEF K

LEMMA ClientEventsStep ==
    ASSUME PInv, ClientEvents
    PROVE  PInv'
<1> DEFINE d == Head(client.todo)
           events == [i \in 1..Effects |-> Message("event", d.gen, d.seq, i)]
<1>1. d \in KnownDeliveries(wk.opened) /\ d.kind = "data"
  BY TodoHead DEF ClientEvents
<1>2. d.gen \in OpenedBy(wk.opened) /\ d.seq \in Sequences
  BY <1>1 DEF KnownDeliveries
<1>3. \A i \in 1..Effects : Message("event", d.gen, d.seq, i) \in KnownMessages(wk.opened)
  BY <1>2, Bounds DEF Message, KnownMessages, Messages, OpenedBy, Generations, Sequences
<1>4. inbox' = inbox \o events
  BY DEF ClientEvents
<1> HIDE DEF d
<1>5. events \in Seq(KnownMessages(wk.opened))
  BY <1>3, Bounds
<1>6. inbox' \in Seq(KnownMessages(wk.opened))
  <2> HIDE DEF events
  <2> QED
    BY <1>4, <1>5, InboxGrows
<1>7. GoodClient(client', wk.opened)
  <2>1. client' = [client EXCEPT !.emitted = TRUE] /\ client.todo # <<>>
    BY DEF ClientEvents
  <2>2. client \in ClientState
    BY DEF PInv, GoodClient
  <2>3. /\ client' \in ClientState /\ client'.todo = client.todo
        /\ client'.phase = "up" /\ client'.gen = client.gen /\ d.gen = client.gen
    BY <2>1, <2>2 DEF ClientState, ClientEvents, d
  <2> QED
    BY <1>1, <2>1, <2>3 DEF PInv, GoodClient, d
<1> QED
  BY <1>6, <1>7, StaysSame, Compose DEF ClientEvents

LEMMA ClientAcceptsStep ==
    ASSUME PInv, ClientAccepts
    PROVE  PInv'
<1> DEFINE d == Head(client.todo)
<1>1. client.todo # <<>> /\ d.kind = "data"
  BY DEF ClientAccepts, PInv, GoodClient
<1>2. d \in KnownDeliveries(wk.opened)
  BY <1>1, TodoHead
<1>3. d.gen \in OpenedBy(wk.opened) /\ d.seq \in Sequences
  BY <1>1, <1>2 DEF KnownDeliveries
<1>4. Message("accepted", d.gen, d.seq, 0) \in KnownMessages(wk.opened)
  BY <1>3, Bounds DEF Message, KnownMessages, Messages, OpenedBy, Generations, Sequences
<1>5. inbox' = Append(inbox, Message("accepted", d.gen, d.seq, 0))
  BY DEF ClientAccepts
<1>6. inbox' \in Seq(KnownMessages(wk.opened))
  BY <1>4, <1>5 DEF PInv
<1>7. GoodClient(client', wk.opened)
  BY <1>1, TodoHead DEF ClientAccepts
<1> QED
  BY <1>6, <1>7, StaysSame, Compose DEF ClientAccepts

LEMMA ClientIgnoresStaleStep ==
    ASSUME PInv, ClientIgnoresStale
    PROVE  PInv'
<1>1. ~client.emitted
  BY DEF ClientIgnoresStale, PInv, GoodClient
<1>2. GoodClient(client', wk.opened)
  BY <1>1, TodoHead DEF ClientIgnoresStale
<1> QED
  BY <1>2, StaysSame, Compose DEF ClientIgnoresStale

-----------------------------------------------------------------------------
(* The Session's steps.                                                    *)

\* What a message that speaks of a record says.
LEMMA HeadSpeaks ==
    ASSUME PInv, inbox # <<>>
    PROVE  LET m == Head(inbox)
           IN  /\ m.kind \in {"data", "event", "accepted", "overflow", "closed"}
                     => m.gen \in OpenedBy(wk.opened) /\ m.gen \in Generations
               /\ m.kind \in {"data", "event", "accepted"}
                     => /\ m.seq \in Sequences /\ m.seq \in 0..MaxSequence
                        /\ Receipt(m.gen, m.seq) \in KnownReceipts(wk.opened)
                        /\ Receipt(m.gen, m.seq) \in Receipts
<1>1. Head(inbox) \in KnownMessages(wk.opened)
  BY InboxHead
<1> QED
  BY <1>1, Bounds DEF KnownMessages, OpenedBy, Receipt, KnownReceipts, Receipts, Sequences

LEMMA SessionFields ==
    ASSUME PInv
    PROVE  session.index \in Nat /\ session.id \in 0..MaxSessions
BY DEF PInv, GoodSession, SessionState

LEMMA ReceiptsGood ==
    ASSUME PInv, session.receipts # <<>>
    PROVE  /\ Head(session.receipts) \in KnownReceipts(wk.opened)
           /\ GoodSession([session EXCEPT !.receipts = Tail(@), !.index = 0], wk.opened)
<1>1. /\ session \in SessionState /\ session.receipts \in Seq(Receipts)
      /\ session.receipts \in Seq(KnownReceipts(wk.opened))
  BY DEF PInv, GoodSession, SessionState
<1>2. /\ Head(session.receipts) \in KnownReceipts(wk.opened)
      /\ Tail(session.receipts) \in Seq(KnownReceipts(wk.opened))
      /\ Tail(session.receipts) \in Seq(Receipts)
  BY <1>1, HeadTailProperties
<1> QED
  BY <1>1, <1>2 DEF GoodSession, SessionState

LEMMA TakeDataStep ==
    ASSUME PInv, TakeData
    PROVE  PInv'
<1> DEFINE d == Head(inbox)
<1>1. inbox # <<>> /\ d.kind = "data" /\ Taken
  BY DEF TakeData, Takes
<1>2. /\ d.gen \in OpenedBy(wk.opened) /\ d.seq \in Sequences /\ d.seq \in 0..MaxSequence
      /\ Receipt(d.gen, d.seq) \in KnownReceipts(wk.opened)
      /\ Receipt(d.gen, d.seq) \in Receipts
  BY <1>1, HeadSpeaks
<1>3. GoodSession([session EXCEPT !.receipts = Append(@, Receipt(d.gen, d.seq))], wk.opened)
  <2>1. /\ session \in SessionState /\ session.receipts \in Seq(Receipts)
        /\ session.receipts \in Seq(KnownReceipts(wk.opened))
    BY DEF PInv, GoodSession, SessionState
  <2>2. /\ Append(session.receipts, Receipt(d.gen, d.seq)) \in Seq(Receipts)
        /\ Append(session.receipts, Receipt(d.gen, d.seq)) \in Seq(KnownReceipts(wk.opened))
    BY <1>2, <2>1
  <2> QED
    BY <2>1, <2>2 DEF GoodSession, SessionState
<1>4. GoodClient(ToClient("data", d.gen, d.seq), wk.opened)
  BY <1>2, ToClientGood
<1>5. GoodSession(session', wk.opened) /\ GoodClient(client', wk.opened)
  BY <1>3, <1>4, StaysSame DEF TakeData
<1> QED
  BY <1>1, <1>5, InboxHead, StaysSame, Compose DEF TakeData

\* Messages that are dropped.
LEMMA DroppedStep ==
    ASSUME PInv, TakeBlockedEvent \/ TakeAcceptedInRetry
    PROVE  PInv'
<1>1. /\ inbox # <<>> /\ Taken
      /\ UNCHANGED <<wk, session, client, Database, acked, pending, faults>>
  BY DEF TakeBlockedEvent, TakeAcceptedInRetry, Takes
<1> QED
  BY <1>1, InboxHead, StaysSame, Compose

LEMMA NextIndexGood ==
    ASSUME PInv, NEW f \in BOOLEAN
    PROVE  /\ GoodSession([session EXCEPT !.index = IF Filed = {} THEN @ ELSE @ + 1], wk.opened)
           /\ GoodSession([session EXCEPT !.index = IF Filed = {} THEN @ ELSE @ + 1,
                                          !.failed = f], wk.opened)
<1>1. (IF Filed = {} THEN session.index ELSE session.index + 1) \in Nat
  BY SessionFields
<1> QED
  BY <1>1 DEF PInv, GoodSession, SessionState

LEMMA TakeEventStep ==
    ASSUME PInv, TakeEvent
    PROVE  PInv'
<1> DEFINE m == Head(inbox)
           rows == {[gen |-> r.gen, seq |-> r.seq, index |-> session.index] : r \in Filed}
           id == [gen |-> m.gen, seq |-> m.seq, effect |-> m.effect]
<1>1. inbox # <<>> /\ m.kind = "event" /\ Taken /\ Claim(m, rows)
  BY DEF TakeEvent, Takes
<1>2. Receipt(m.gen, m.seq) \in Receipts
  BY <1>1, HeadSpeaks
<1>3. rows \subseteq ClaimRows
  <2>1. \A r \in Filed : r \in Receipts
    BY ReceiptsGood DEF Filed, KnownReceipts, OpenedBy, Receipts
  <2> QED
    BY <2>1, SessionFields DEF Receipts, ClaimRows
<1>4. claims' \subseteq ClaimRows
  BY <1>1, <1>3 DEF Claim, PInv, GoodRows
<1>5. applied' \in [EffectIds -> Nat]
  <2>1. applied' = applied \/ applied' = [applied EXCEPT ![id] = @ + 1]
    BY <1>1 DEF Claim
  <2>2. applied \in [EffectIds -> Nat]
    BY DEF PInv, GoodRows
  <2> HIDE DEF id
  <2> QED
    BY <2>1, <2>2
<1>6. misfiled' \subseteq Receipts
  BY <1>2 DEF TakeEvent, PInv, GoodRows
<1>7. GoodRows(claims', applied', misfiled', acked')
  BY <1>4, <1>5, <1>6 DEF TakeEvent, PInv, GoodRows
<1>8. GoodSession(session', wk.opened)
  BY NextIndexGood DEF TakeEvent
<1> QED
  BY <1>1, <1>7, <1>8, InboxHead, StaysSame, Compose DEF TakeEvent

LEMMA EventFailsStep ==
    ASSUME PInv, EventFails
    PROVE  PInv'
<1>1. GoodSession(session', wk.opened)
  <2>1. (Filed # {}) \in BOOLEAN
    OBVIOUS
  <2> QED
    BY <2>1, NextIndexGood DEF EventFails
<1> QED
  BY <1>1, InboxHead, StaysSame, Compose DEF EventFails, Takes

LEMMA TakeAcceptedOfFailureStep ==
    ASSUME PInv, TakeAcceptedOfFailure
    PROVE  PInv'
<1> DEFINE m == Head(inbox)
<1>1. inbox # <<>> /\ m.kind = "accepted" /\ Taken
  BY DEF TakeAcceptedOfFailure, Takes
<1>2. GoodClient(client', wk.opened)
  BY <1>1, HeadSpeaks, ToClientGood, Bounds DEF TakeAcceptedOfFailure
<1>3. Continues(wk, wk') /\ (Fault \/ UNCHANGED faults)
  BY StaysSame, DetachedContinues DEF TakeAcceptedOfFailure
<1>4. GoodSession(session', wk.opened)
  BY DEF TakeAcceptedOfFailure, PInv, GoodSession, SessionState
<1> QED
  BY <1>1, <1>2, <1>3, <1>4, InboxHead, StaysSame, Compose DEF TakeAcceptedOfFailure

\* What an acknowledgement that takes effect changes.
LEMMA AckEffective ==
    ASSUME PInv, inbox # <<>>, Head(inbox).kind = "accepted",
           NEW r, r = Receipt(Head(inbox).gen, Head(inbox).seq),
           AckAllowed(wk, session.id, r)
    PROVE  /\ Continues(wk, AckCall(wk, r))
           /\ Continues(wk, Settled(AckCall(wk, r)))
           /\ AckCall(wk, r).gen = r.gen /\ wk.gen = r.gen
           /\ AckCall(wk, r).ackedThrough >= r.seq
           /\ Tail(inbox) \o SettledMessages(AckCall(wk, r)) \in Seq(KnownMessages(wk.opened))
           /\ GoodRows(claims, applied, misfiled, acked \cup AckedBy(wk, r))
<1>1. r \in Receipts /\ r.gen # 0 /\ r.gen \in OpenedBy(wk.opened)
  BY HeadSpeaks, Bounds DEF Receipts, Generations, Receipt
<1>2. /\ Continues(wk, AckCall(wk, r))
      /\ AckCall(wk, r).gen = r.gen /\ wk.gen = r.gen
      /\ AckCall(wk, r).ackedThrough >= r.seq
      /\ AckedBy(wk, r) \subseteq Receipts
  BY <1>1, StaysSame, AckContinues
<1> DEFINE w == AckCall(wk, r)
<1>3. w \in WkState /\ w.opened = wk.opened /\ w.gen # 0 /\ w.gen <= w.opened
  BY <1>1, <1>2, StaysSame DEF Continues
<1> HIDE DEF w
<1>4. Continues(wk, Settled(w))
  BY <1>2, <1>3, StaysSame, SettledContinues, ContinuesTwice DEF w
<1>5. SettledMessages(w) \in Seq(KnownMessages(wk.opened))
  BY <1>3, SettledMessagesKnown
<1>6. Tail(inbox) \o SettledMessages(w) \in Seq(KnownMessages(wk.opened))
  BY <1>5, InboxGrows
<1> QED
  BY <1>2, <1>4, <1>6 DEF w, PInv, GoodRows

LEMMA TakeAcceptedStep ==
    ASSUME PInv, TakeAccepted
    PROVE  PInv'
<1> DEFINE m == Head(inbox)
           r == Receipt(m.gen, m.seq)
<1>1. /\ inbox # <<>> /\ m.kind = "accepted" /\ AckAllowed(wk, session.id, r)
      /\ wk' = Settled(AckCall(wk, r))
      /\ inbox' = Tail(inbox) \o SettledMessages(AckCall(wk, r))
      /\ acked' = acked \cup AckedBy(wk, r)
      /\ Acknowledged(m.seq)
      /\ UNCHANGED <<client, Database, faults>>
  BY DEF TakeAccepted, Takes
<1>2. /\ Continues(wk, AckCall(wk, r)) /\ Continues(wk, wk')
      /\ AckCall(wk, r).gen = r.gen /\ AckCall(wk, r).ackedThrough >= r.seq
      /\ inbox' \in Seq(KnownMessages(wk.opened))
      /\ GoodRows(claims, applied, misfiled, acked \cup AckedBy(wk, r))
  BY <1>1, AckEffective
<1>3. GoodRows(claims', applied', misfiled', acked')
  BY <1>1, <1>2 DEF Database
<1>4. wk'.opened = wk.opened /\ r.seq = m.seq
  BY <1>2 DEF Continues, Receipt
<1>5. GoodWk(wk')
  BY <1>2, StaysSame DEF GoodWk, Continues
<1>6. GoodSession(session', wk'.opened)
  BY <1>1, <1>4, ReceiptsGood, StaysSame DEF Acknowledged, PInv
<1>7. Released(pending', wk')
  <2> DEFINE w == AckCall(wk, r)
             h == Head(session.receipts)
  <2>1. Released(pending, w)
    BY <1>2, StaysSame, ReleasedKept DEF PInv
  <2>2. CASE session.receipts # <<>> /\ h.seq = m.seq
    <3>1. pending' = pending \cup {h}
      BY <1>1, <2>2 DEF Acknowledged
    <3>2. h \in KnownReceipts(wk.opened) /\ w.opened = wk.opened
      BY <1>2, <2>2, ReceiptsGood DEF Continues
    <3>3. h.seq <= w.ackedThrough
      <4>1. m.seq \in Int /\ w.ackedThrough \in Int
        BY <1>1, <1>2, HeadSpeaks, Bounds DEF Continues, WkState, Sequences
      <4> QED
        BY <1>2, <1>4, <2>2, <4>1
    <3> HIDE DEF w, h
    <3>4. Released(pending', w)
      BY <2>1, <3>1, <3>2, <3>3 DEF Released
    <3>5. w \in WkState /\ wk' = Settled(w)
      BY <1>1, <1>2 DEF w, Continues
    <3> QED
      BY <3>4, <3>5, SettledContinues, ReleasedKept
  <2>3. CASE ~(session.receipts # <<>> /\ h.seq = m.seq)
    <3>1. pending' = pending
      BY <1>1, <2>3 DEF Acknowledged
    <3> QED
      BY <1>2, <3>1, StaysSame, ReleasedKept DEF PInv
  <2> QED
    BY <2>2, <2>3
<1> HIDE DEF m, r
<1>8. GoodClient(client', wk'.opened) /\ faults' \in 0..MaxFaults
  BY <1>1, <1>4 DEF PInv
<1> QED
  BY <1>2, <1>3, <1>4, <1>5, <1>6, <1>7, <1>8 DEF PInv

LEMMA TakeAcceptedNotAckedStep ==
    ASSUME PInv, TakeAcceptedNotAcked
    PROVE  PInv'
<1> DEFINE m == Head(inbox)
           r == Receipt(m.gen, m.seq)
<1>1. /\ inbox # <<>> /\ m.kind = "accepted"
      /\ UNCHANGED <<session, Database, pending>>
  BY DEF TakeAcceptedNotAcked, Takes
<1>2. PICK effective \in BOOLEAN, closes \in BOOLEAN :
        LET allowed == AckAllowed(wk, session.id, r)
            w == IF effective THEN Settled(AckCall(wk, r)) ELSE wk
        IN  /\ effective => allowed
            /\ IF closes /\ ~allowed THEN UNCHANGED faults ELSE Fault
            /\ wk' = IF closes THEN CloseCall(w, r.gen) ELSE w
            /\ inbox' = Tail(inbox) \o (IF effective THEN SettledMessages(AckCall(wk, r))
                                        ELSE <<>>)
            /\ acked' = IF effective THEN acked \cup AckedBy(wk, r) ELSE acked
            /\ client' = ToClient("closed", r.gen, 0)
  BY DEF TakeAcceptedNotAcked
<1> DEFINE w == IF effective THEN Settled(AckCall(wk, r)) ELSE wk
<1>3. /\ Continues(wk, w)
      /\ inbox' \in Seq(KnownMessages(wk.opened))
      /\ GoodRows(claims', applied', misfiled', acked')
  <2>1. CASE effective
    <3>1. AckAllowed(wk, session.id, r)
      BY <1>2, <2>1
    <3>2. /\ inbox' = Tail(inbox) \o SettledMessages(AckCall(wk, r))
          /\ acked' = acked \cup AckedBy(wk, r)
          /\ w = Settled(AckCall(wk, r))
      BY <1>2, <2>1
    <3> HIDE DEF w, r
    <3> QED
      BY <1>1, <3>1, <3>2, AckEffective DEF Database, r
  <2>2. CASE ~effective
    <3>1. inbox' = Tail(inbox) \o <<>> /\ acked' = acked /\ w = wk
      BY <1>2, <2>2
    <3>2. <<>> \in Seq(KnownMessages(wk.opened))
      BY EmptySeq
    <3> HIDE DEF w, m, r
    <3> QED
      BY <1>1, <3>1, <3>2, InboxGrows, StaysSame DEF Database, PInv
  <2> QED
    BY <2>1, <2>2
<1>4. Continues(wk, wk')
  <2>1. wk' = w \/ wk' = CloseCall(w, r.gen)
    BY <1>2
  <2>2. w \in WkState
    BY <1>3 DEF Continues
  <2> HIDE DEF w, r
  <2> QED
    BY <1>3, <2>1, <2>2, CloseContinues, ContinuesTwice, StaysSame
<1>5. GoodClient(client', wk.opened)
  <2>1. client' = ToClient("closed", m.gen, 0)
    BY <1>2 DEF Receipt
  <2>2. m.gen \in OpenedBy(wk.opened) /\ 0 \in 0..MaxSequence
    BY <1>1, HeadSpeaks, Bounds
  <2> QED
    BY <2>1, <2>2, ToClientGood
<1>6. Fault \/ UNCHANGED faults
  BY <1>2
<1> HIDE DEF m, r, w
<1> QED
  BY <1>1, <1>3, <1>4, <1>5, <1>6, StaysSame, Compose

LEMMA TakeClosureStep ==
    ASSUME PInv, TakeUpstreamClosed \/ TakeOverflow
    PROVE  PInv'
<1> DEFINE m == Head(inbox)
<1>1. /\ inbox # <<>> /\ m.kind \in {"closed", "overflow"} /\ Taken
      /\ UNCHANGED <<session, Database, acked, pending>>
  BY DEF TakeUpstreamClosed, TakeOverflow, Takes
<1>2. GoodClient(ToClient("closed", m.gen, 0), wk.opened)
  BY <1>1, HeadSpeaks, ToClientGood, Bounds
<1>3. client' = client \/ client' = ToClient("closed", m.gen, 0)
  BY DEF TakeUpstreamClosed, TakeOverflow
<1>4. /\ wk' = wk \/ wk' = CloseCall(wk, m.gen)
      /\ Fault \/ UNCHANGED faults
  BY DEF TakeUpstreamClosed, TakeOverflow
<1> HIDE DEF m
<1>5. Continues(wk, wk') /\ GoodClient(client', wk.opened)
  BY <1>2, <1>3, <1>4, StaysSame, CloseContinues
<1> QED
  BY <1>1, <1>4, <1>5, InboxHead, StaysSame, Compose

LEMMA TakeDownStep ==
    ASSUME PInv, TakeDown
    PROVE  PInv'
<1>1. GoodSession(session', wk.opened)
  BY DEF TakeDown, PInv, GoodSession, SessionState
<1>2. Continues(wk, wk')
  BY StaysSame, DetachedContinues DEF TakeDown
<1> QED
  BY <1>1, <1>2, InboxHead, StaysSame, Compose DEF TakeDown, Takes

LEMMA RetryTimerStep ==
    ASSUME PInv, RetryTimer
    PROVE  PInv'
<1>1. GoodSession(session', wk.opened)
  BY DEF RetryTimer, PInv, GoodSession, SessionState
<1> QED
  BY <1>1, SignalsKnown, StaysSame, Compose DEF RetryTimer

LEMMA TakeConnectStep ==
    ASSUME PInv, TakeConnect
    PROVE  PInv'
<1>1. GoodSession(session', wk.opened) /\ GoodClient(client', wk.opened)
  BY SessionFields, FreshSessionGood, NewClientGood DEF TakeConnect
<1> QED
  BY <1>1, InboxHead, StaysSame, Compose DEF TakeConnect, Takes

LEMMA SessionDiesStep ==
    ASSUME PInv, SessionDies
    PROVE  PInv'
<1>1. GoodSession(session', wk.opened)
  BY DEF SessionDies, PInv, GoodSession, SessionState
<1>2. inbox' \in Seq(KnownMessages(wk.opened)) /\ GoodClient(client', wk.opened)
  BY EmptySeq, NoClientGood DEF SessionDies
<1>3. pending' \subseteq pending
  BY DEF SessionDies
<1> QED
  BY <1>1, <1>2, <1>3, StaysSame, Compose DEF SessionDies

LEMMA SessionStartsStep ==
    ASSUME PInv, SessionStarts
    PROVE  PInv'
<1>1. session.id + 1 \in 0..MaxSessions
  BY SessionFields, Bounds DEF SessionStarts
<1>2. GoodSession(session', wk.opened)
  BY <1>1, FreshSessionGood DEF SessionStarts
<1>3. inbox' \in Seq(KnownMessages(wk.opened))
  BY SignalsKnown DEF SessionStarts
<1> QED
  BY <1>2, <1>3, StaysSame, Compose DEF SessionStarts

-----------------------------------------------------------------------------
(* The releaser's steps, and Next.                                         *)

LEMMA ReleaserStep ==
    ASSUME PInv, Releaser
    PROVE  PInv'
<1>1. /\ claims' \subseteq claims /\ pending' \subseteq pending
      /\ UNCHANGED <<wk, session, inbox, client, applied, misfiled, acked, faults>>
  BY DEF Releaser, Flush, Recover
<1>2. GoodRows(claims', applied', misfiled', acked')
  BY <1>1 DEF PInv, GoodRows
<1> QED
  BY <1>1, <1>2, StaysSame, Compose

LEMMA NextPInv == PInv /\ [Next]_vars => PInv'
<1> SUFFICES ASSUME PInv, [Next]_vars PROVE PInv'
  OBVIOUS
<1>1. CASE Wirekeeper
  BY <1>1, RecordArrivesStep, UpstreamClosesStep, LostStep DEF Wirekeeper
<1>2. CASE Client
  BY <1>2, ClientOpensStep, ClientAttachesStep, ClientExitsStep, ClientEventsStep,
     ClientAcceptsStep, ClientIgnoresStaleStep DEF Client
<1>3. CASE Session
  BY <1>3, TakeConnectStep, TakeDataStep, TakeEventStep, DroppedStep, TakeAcceptedStep,
     TakeAcceptedNotAckedStep, TakeAcceptedOfFailureStep, TakeClosureStep, TakeDownStep,
     RetryTimerStep DEF Session
<1>4. CASE Releaser
  BY <1>4, ReleaserStep
<1>5. CASE EventFails \/ ClientFails \/ SessionDies \/ SessionStarts
  BY <1>5, EventFailsStep, ClientExitsStep, SessionDiesStep, SessionStartsStep
<1>6. CASE UNCHANGED vars
  BY <1>6, StaysSame, Compose DEF vars, Database
<1> QED
  BY <1>1, <1>2, <1>3, <1>4, <1>5, <1>6 DEF Next

LEMMA InvariantPInv == Spec => []PInv
BY InitPInv, NextPInv, PTL DEF Spec

-----------------------------------------------------------------------------
(* The theorems.                                                           *)

\* The Session's queues, the messages between Session, client and Wirekeeper
\* and the rows keep their shape through every crash, replay and failed call.
THEOREM PipelineTypeCorrect == Spec => []TypeOK
BY TypesFollow, InvariantPInv, PTL

\* What the releaser deletes, flushing receipts in its memory or comparing rows
\* with the watermark, belongs to no record that the live generation may yet
\* replay (ingestion_claim_releaser.ex).
THEOREM ClaimsAreKeptForReplay == Spec => ClaimsOutliveReplay
<1>1. PInv /\ [Next]_vars
        => [\A c \in claims \ claims' : c.gen = wk.gen => c.seq <= wk.ackedThrough]_vars
  <2> SUFFICES ASSUME PInv, Next, NEW c \in claims, c \notin claims', c.gen = wk.gen
               PROVE  c.seq <= wk.ackedThrough
    OBVIOUS
  <2>1. CASE Flush
    <3>1. Receipt(c.gen, c.seq) \in pending
      BY <2>1 DEF Flush
    <3> QED
      BY <3>1 DEF PInv, Released, Receipt
  <2>2. ASSUME NEW g \in Generations, Recover(g) PROVE c.seq <= wk.ackedThrough
    BY <2>2 DEF Recover, ClaimsOf
  <2>3. CASE ~(Flush \/ \E g \in Generations : Recover(g))
    <3>1. claims \subseteq claims'
      BY <2>3 DEF Next, Wirekeeper, RecordArrives, UpstreamCloses, ConsumerLost,
           GenerationLost, Client, ClientOpens, ClientAttaches, ClientReplaces,
           ClientRefused, ClientEvents, ClientAccepts, ClientIgnoresStale,
           ClientCloses, Session, TakeConnect, TakeData, TakeEvent, Claim,
           TakeBlockedEvent, TakeAccepted, TakeAcceptedNotAcked,
           TakeAcceptedOfFailure, TakeAcceptedInRetry, TakeUpstreamClosed,
           TakeOverflow, TakeDown, RetryTimer, Releaser, EventFails, ClientFails,
           SessionDies, SessionStarts, Database
    <3> QED
      BY <3>1
  <2> QED
    BY <2>1, <2>2, <2>3
<1> QED
  BY <1>1, InvariantPInv, PTL DEF Spec, ClaimsOutliveReplay

-----------------------------------------------------------------------------
(* What the queues hold.  A record passes through four of them: as a data  *)
(* message in the Session's mailbox (Arrivals), as a delivery to the       *)
(* client, whose receipt is queued (Deliveries, Queue), and as the events  *)
(* and the acceptance the client sends back (Works).                       *)

Items(q) == {q[i] : i \in 1..Len(q)}

LifeKinds == {"connect", "down", "retry"}
IsWork(m) == m.kind \in {"event", "accepted"}
IsNoise(m) == m.kind \in {"overflow", "closed"}

Works(b) == {m \in Items(b) : IsWork(m)}
Arrivals(b) == {m \in Items(b) : m.kind = "data"}
Lifes(b) == {m \in Items(b) : m.kind \in LifeKinds}

Deliveries(c) == {d \in Items(c.todo) : d.kind = "data"}
Unemitted(c) == IF c.emitted THEN Deliveries(c) \ {Head(c.todo)} ELSE Deliveries(c)

Queue(s) == Items(s.receipts)
First(s) == Head(s.receipts)

Rec(x) == Receipt(x.gen, x.seq)
Recs(S) == {Rec(x) : x \in S}

\* The steps of a record: its events in order, then its acceptance.
Step(m) == IF m.kind = "event" THEN m.effect ELSE Effects + 1

Earlier(x, y) == x.gen < y.gen \/ (x.gen = y.gen /\ x.seq < y.seq)
SameRecord(x, y) == x.gen = y.gen /\ x.seq = y.seq
Before(m, n) == Earlier(m, n) \/ (SameRecord(m, n) /\ Step(m) < Step(n))

-----------------------------------------------------------------------------
(* Order within a queue.                                                   *)

InOrder(m, n) ==
    /\ IsWork(m) /\ IsWork(n) => Before(m, n)
    /\ m.kind = "data" /\ n.kind = "data" => Earlier(m, n)
    /\ m.kind \in LifeKinds => ~IsWork(n) /\ n.kind \notin LifeKinds
    /\ m.kind \notin {"connect", "retry"}

InboxOrdered(b) == \A i, j \in 1..Len(b) : i < j => InOrder(b[i], b[j])

TodoOrdered(q) ==
    \A i, j \in 1..Len(q) :
        i < j /\ q[i].kind = "data" /\ q[j].kind = "data" => Earlier(q[i], q[j])

QueueOrdered(q) == \A i, j \in 1..Len(q) : i < j => Earlier(q[i], q[j])

LEMMA HeadAndTail ==
    ASSUME NEW S, NEW q \in Seq(S), q # <<>>
    PROVE  /\ Len(q) \in Nat /\ Len(q) >= 1 /\ Head(q) = q[1]
           /\ Head(q) \in Items(q)
           /\ Items(q) = {Head(q)} \cup Items(Tail(q))
           /\ Items(q) \subseteq S
           /\ Tail(q) \in Seq(S) /\ Len(Tail(q)) = Len(q) - 1
           /\ \A i \in 1..Len(Tail(q)) : Tail(q)[i] = q[i + 1] /\ i + 1 \in 1..Len(q)
<1>1. /\ Len(q) \in Nat /\ Len(q) >= 1 /\ Head(q) = q[1]
      /\ \A i \in 1..Len(q) : q[i] \in S
  BY EmptySeq, LenProperties
<1>2. /\ Tail(q) \in Seq(S) /\ Len(Tail(q)) = Len(q) - 1
      /\ \A i \in 1..Len(Tail(q)) : Tail(q)[i] = q[i + 1]
  BY HeadTailProperties
<1>3. \A i \in 1..Len(Tail(q)) : i + 1 \in 1..Len(q)
  BY <1>1, <1>2
<1>4. Items(q) = {Head(q)} \cup Items(Tail(q))
  <2>1. ASSUME NEW x \in Items(q) PROVE x \in {Head(q)} \cup Items(Tail(q))
    <3>1. PICK i \in 1..Len(q) : x = q[i]
      BY DEF Items
    <3>2. CASE i = 1
      BY <3>1, <3>2, <1>1
    <3>3. CASE i # 1
      <4>1. i - 1 \in 1..Len(Tail(q))
        BY <3>1, <3>3, <1>1, <1>2
      <4>2. Tail(q)[i - 1] = q[(i - 1) + 1] /\ (i - 1) + 1 = i
        BY <4>1, <1>2
      <4> QED
        BY <3>1, <4>1, <4>2 DEF Items
    <3> QED
      BY <3>2, <3>3
  <2>2. Items(Tail(q)) \subseteq Items(q)
    BY <1>2, <1>3 DEF Items
  <2>3. Head(q) \in Items(q)
    BY <1>1 DEF Items
  <2> QED
    BY <2>1, <2>2, <2>3
<1>5. Items(q) \subseteq S
  BY <1>1 DEF Items
<1> QED
  BY <1>1, <1>2, <1>3, <1>4, <1>5

LEMMA ItemsOfConcatenation ==
    ASSUME NEW S, NEW p \in Seq(S), NEW q \in Seq(S)
    PROVE  Items(p \o q) = Items(p) \cup Items(q)
<1>0. PICK r : r = p \o q
  OBVIOUS
<1>1. /\ r \in Seq(S) /\ Len(r) = Len(p) + Len(q) /\ Len(p) \in Nat /\ Len(q) \in Nat
      /\ \A i \in 1..Len(p) + Len(q) : r[i] = IF i <= Len(p) THEN p[i] ELSE q[i - Len(p)]
      /\ (\A i \in 1..Len(p) : p[i] \in S) /\ (\A i \in 1..Len(q) : q[i] \in S)
  BY <1>0, ConcatProperties, LenProperties
<1>2. \A i \in 1..Len(p) : i \in 1..Len(r) /\ r[i] = p[i]
  BY <1>1
<1>3. \A i \in 1..Len(q) : Len(p) + i \in 1..Len(r) /\ r[Len(p) + i] = q[i]
  <2> TAKE i \in 1..Len(q)
  <2>1. Len(p) + i \in 1..Len(p) + Len(q) /\ ~(Len(p) + i <= Len(p)) /\ (Len(p) + i) - Len(p) = i
    BY <1>1
  <2> QED
    BY <1>1, <2>1
<1>4. \A i \in 1..Len(r) : \/ i \in 1..Len(p) /\ r[i] = p[i]
                           \/ i > Len(p) /\ i - Len(p) \in 1..Len(q) /\ r[i] = q[i - Len(p)]
  BY <1>1
<1>5. Items(r) = Items(p) \cup Items(q)
  <2>1. Items(r) \subseteq Items(p) \cup Items(q)
    BY <1>4 DEF Items
  <2>2. Items(p) \subseteq Items(r)
    BY <1>2 DEF Items
  <2>3. Items(q) \subseteq Items(r)
    BY <1>3 DEF Items
  <2> QED
    BY <2>1, <2>2, <2>3
<1> QED
  BY <1>0, <1>5

\* Two places of a concatenation: both in the first part, one in each, or both
\* in the second.
Placed(p, q, r, i, j) ==
    \/ i \in 1..Len(p) /\ j \in 1..Len(p) /\ r[i] = p[i] /\ r[j] = p[j]
    \/ r[i] \in Items(p) /\ r[j] \in Items(q)
    \/ \E k, l \in 1..Len(q) : k < l /\ r[i] = q[k] /\ r[j] = q[l]

LEMMA Concatenation ==
    ASSUME NEW S, NEW p \in Seq(S), NEW q \in Seq(S), NEW r, r = p \o q
    PROVE  /\ r \in Seq(S)
           /\ \A i, j \in 1..Len(r) : i < j => Placed(p, q, r, i, j)
<1>1. /\ r \in Seq(S) /\ Len(r) = Len(p) + Len(q) /\ Len(p) \in Nat /\ Len(q) \in Nat
      /\ \A i \in 1..Len(p) + Len(q) : r[i] = IF i <= Len(p) THEN p[i] ELSE q[i - Len(p)]
      /\ (\A i \in 1..Len(p) : p[i] \in S) /\ (\A i \in 1..Len(q) : q[i] \in S)
  BY ConcatProperties, LenProperties
<1>2. \A i \in 1..Len(p) : i \in 1..Len(r) /\ r[i] = p[i]
  BY <1>1
<1>3. \A i \in 1..Len(q) : Len(p) + i \in 1..Len(r) /\ r[Len(p) + i] = q[i]
  <2> TAKE i \in 1..Len(q)
  <2>1. Len(p) + i \in 1..Len(p) + Len(q) /\ ~(Len(p) + i <= Len(p)) /\ (Len(p) + i) - Len(p) = i
    BY <1>1
  <2> QED
    BY <1>1, <2>1
<1>4. \A i \in 1..Len(r) : \/ i \in 1..Len(p) /\ r[i] = p[i]
                           \/ i > Len(p) /\ i - Len(p) \in 1..Len(q) /\ r[i] = q[i - Len(p)]
  BY <1>1
<1>6. ASSUME NEW i \in 1..Len(r), NEW j \in 1..Len(r), i < j
      PROVE  Placed(p, q, r, i, j)
  <2>1. CASE j <= Len(p)
    BY <1>1, <1>2, <1>6, <2>1 DEF Placed
  <2>2. CASE i <= Len(p) /\ ~(j <= Len(p))
    <3>1. i \in 1..Len(p) /\ r[i] = p[i] /\ j - Len(p) \in 1..Len(q) /\ r[j] = q[j - Len(p)]
      BY <1>1, <1>4, <2>2
    <3> QED
      BY <3>1 DEF Items, Placed
  <2>3. CASE ~(i <= Len(p))
    <3>1. /\ i - Len(p) \in 1..Len(q) /\ r[i] = q[i - Len(p)]
          /\ j - Len(p) \in 1..Len(q) /\ r[j] = q[j - Len(p)]
          /\ i - Len(p) < j - Len(p)
      BY <1>1, <1>4, <1>6, <2>3
    <3> QED
      BY <3>1 DEF Placed
  <2> QED
    BY <2>1, <2>2, <2>3
<1> QED
  BY <1>1, <1>6

LEMMA ItemsOf ==
    ASSUME NEW S, NEW q \in Seq(S)
    PROVE  Items(q) \subseteq S
BY DEF Items

LEMMA Single ==
    ASSUME NEW S, NEW x \in S
    PROVE  /\ <<x>> \in Seq(S) /\ Items(<<x>>) = {x} /\ InboxOrdered(<<x>>)
           /\ TodoOrdered(<<x>>) /\ QueueOrdered(<<x>>)
<1>1. Len(<<x>>) = 1 /\ <<x>>[1] = x /\ <<x>> \in Seq(S)
  OBVIOUS
<1>2. 1..1 = {1}
  OBVIOUS
<1> QED
  BY <1>1, <1>2 DEF Items, InboxOrdered, TodoOrdered, QueueOrdered

LEMMA EmptyHasNone ==
    /\ Items(<<>>) = {} /\ InboxOrdered(<<>>) /\ TodoOrdered(<<>>) /\ QueueOrdered(<<>>)
<1>1. 1..Len(<<>>) = {}
  OBVIOUS
<1> QED
  BY <1>1 DEF Items, InboxOrdered, TodoOrdered, QueueOrdered

LEMMA OrderedTail ==
    ASSUME NEW S, NEW q \in Seq(S), q # <<>>
    PROVE  /\ InboxOrdered(q) => /\ InboxOrdered(Tail(q))
                                 /\ \A x \in Items(Tail(q)) : InOrder(Head(q), x)
           /\ TodoOrdered(q) => /\ TodoOrdered(Tail(q))
                                /\ Head(q).kind = "data" =>
                                     \A x \in Items(Tail(q)) : x.kind = "data" => Earlier(Head(q), x)
           /\ QueueOrdered(q) => /\ QueueOrdered(Tail(q))
                                 /\ \A x \in Items(Tail(q)) : Earlier(Head(q), x)
<1>1. /\ Len(q) \in Nat /\ Head(q) = q[1] /\ Len(Tail(q)) = Len(q) - 1 /\ 1 \in 1..Len(q)
      /\ \A i \in 1..Len(Tail(q)) : Tail(q)[i] = q[i + 1] /\ i + 1 \in 1..Len(q)
  BY HeadAndTail
<1>2. \A i, j \in 1..Len(Tail(q)) : i < j => i + 1 < j + 1
  BY <1>1
<1>3. \A i \in 1..Len(Tail(q)) : 1 < i + 1
  BY <1>1
<1>4. ASSUME InboxOrdered(q)
      PROVE  InboxOrdered(Tail(q)) /\ \A x \in Items(Tail(q)) : InOrder(Head(q), x)
  BY <1>1, <1>2, <1>3, <1>4 DEF InboxOrdered, Items
<1>5. ASSUME TodoOrdered(q)
      PROVE  /\ TodoOrdered(Tail(q))
             /\ Head(q).kind = "data" =>
                    \A x \in Items(Tail(q)) : x.kind = "data" => Earlier(Head(q), x)
  BY <1>1, <1>2, <1>3, <1>5 DEF TodoOrdered, Items
<1>6. ASSUME QueueOrdered(q)
      PROVE  QueueOrdered(Tail(q)) /\ \A x \in Items(Tail(q)) : Earlier(Head(q), x)
  BY <1>1, <1>2, <1>3, <1>6 DEF QueueOrdered, Items
<1> QED
  BY <1>4, <1>5, <1>6

LEMMA OrderedConcatenation ==
    ASSUME NEW S, NEW p \in Seq(S), NEW q \in Seq(S)
    PROVE  /\ InboxOrdered(p) /\ InboxOrdered(q) /\ (\A x \in Items(p), y \in Items(q) : InOrder(x, y))
                => InboxOrdered(p \o q)
           /\ TodoOrdered(p) /\ TodoOrdered(q)
                /\ (\A x \in Items(p), y \in Items(q) :
                        x.kind = "data" /\ y.kind = "data" => Earlier(x, y))
                => TodoOrdered(p \o q)
           /\ QueueOrdered(p) /\ QueueOrdered(q) /\ (\A x \in Items(p), y \in Items(q) : Earlier(x, y))
                => QueueOrdered(p \o q)
<1>1. PICK r : r = p \o q
  OBVIOUS
<1>2. \A i, j \in 1..Len(r) : i < j => Placed(p, q, r, i, j)
  BY <1>1, Concatenation
<1>3. ASSUME InboxOrdered(p), InboxOrdered(q), \A x \in Items(p), y \in Items(q) : InOrder(x, y)
      PROVE  InboxOrdered(r)
  BY <1>2, <1>3 DEF InboxOrdered, Placed
<1>4. ASSUME TodoOrdered(p), TodoOrdered(q),
             \A x \in Items(p), y \in Items(q) : x.kind = "data" /\ y.kind = "data" => Earlier(x, y)
      PROVE  TodoOrdered(r)
  <2> SUFFICES ASSUME NEW i \in 1..Len(r), NEW j \in 1..Len(r), i < j,
                      r[i].kind = "data", r[j].kind = "data"
               PROVE  Earlier(r[i], r[j])
    BY DEF TodoOrdered
  <2>1. CASE i \in 1..Len(p) /\ j \in 1..Len(p) /\ r[i] = p[i] /\ r[j] = p[j]
    BY <1>4, <2>1 DEF TodoOrdered
  <2>2. CASE r[i] \in Items(p) /\ r[j] \in Items(q)
    BY <1>4, <2>2
  <2>3. ASSUME NEW k \in 1..Len(q), NEW l \in 1..Len(q), k < l, r[i] = q[k], r[j] = q[l]
        PROVE  Earlier(r[i], r[j])
    BY <1>4, <2>3 DEF TodoOrdered
  <2> QED
    BY <1>2, <2>1, <2>2, <2>3 DEF Placed
<1>5. ASSUME QueueOrdered(p), QueueOrdered(q), \A x \in Items(p), y \in Items(q) : Earlier(x, y)
      PROVE  QueueOrdered(r)
  BY <1>2, <1>5 DEF QueueOrdered, Placed
<1> QED
  BY <1>1, <1>3, <1>4, <1>5

LEMMA AppendIsConcatenation ==
    ASSUME NEW S, NEW q \in Seq(S), NEW x \in S
    PROVE  Append(q, x) = q \o <<x>>
OBVIOUS

LEMMA AppendViews ==
    ASSUME NEW S, NEW q \in Seq(S), NEW x \in S
    PROVE  /\ Items(Append(q, x)) = Items(q) \cup {x}
           /\ InboxOrdered(q) /\ (\A y \in Items(q) : InOrder(y, x)) => InboxOrdered(Append(q, x))
           /\ TodoOrdered(q) /\ (\A y \in Items(q) : y.kind = "data" /\ x.kind = "data" => Earlier(y, x))
                => TodoOrdered(Append(q, x))
           /\ QueueOrdered(q) /\ (\A y \in Items(q) : Earlier(y, x)) => QueueOrdered(Append(q, x))
<1>0. PICK p : p = <<x>>
  OBVIOUS
<1>1. /\ p \in Seq(S) /\ Items(p) = {x} /\ InboxOrdered(p)
      /\ TodoOrdered(p) /\ QueueOrdered(p)
  BY <1>0, Single
<1>2. Items(q \o p) = Items(q) \cup Items(p)
  BY <1>1, ItemsOfConcatenation
<1>3. InboxOrdered(q) /\ (\A y \in Items(q) : InOrder(y, x)) => InboxOrdered(q \o p)
  BY <1>1, OrderedConcatenation
<1>4. TodoOrdered(q) /\ (\A y \in Items(q) : y.kind = "data" /\ x.kind = "data" => Earlier(y, x))
        => TodoOrdered(q \o p)
  BY <1>1, OrderedConcatenation
<1>5. QueueOrdered(q) /\ (\A y \in Items(q) : Earlier(y, x)) => QueueOrdered(q \o p)
  BY <1>1, OrderedConcatenation
<1>6. Append(q, x) = q \o p
  BY <1>0, AppendIsConcatenation
<1> QED
  BY <1>1, <1>2, <1>3, <1>4, <1>5, <1>6

-----------------------------------------------------------------------------
(* The invariant.  Its arguments are the parts of the state it speaks of   *)
(* (w: Wirekeeper, s: Session, c: client, W and A: the works and arrivals  *)
(* of the mailbox), so that a step can be taken in parts.                  *)

\* What the queues hold are records of generations that were opened.
Numbers(w, s, c, W, A) ==
    /\ {w.gen, w.opened, w.last, w.ackedThrough, s.index, s.id, w.consumer, c.gen} \subseteq Nat
    /\ w.retained \subseteq Nat /\ w.inFlight \subseteq Nat
    /\ Effects \in Nat /\ Effects >= 1
    /\ \A x \in W \cup A \cup Deliveries(c) \cup Queue(s) :
          x.gen \in Nat /\ x.gen >= 1 /\ x.gen <= w.opened /\ x.seq \in Nat
    /\ \A m \in W : IsWork(m) /\ Step(m) \in Nat /\ Step(m) >= 1 /\ Step(m) <= Effects + 1
    /\ \A m \in W : m.kind = "event" => Step(m) <= Effects
    /\ s.receipts # <<>> => First(s) \in Queue(s)
    /\ s.receipts = <<>> => Queue(s) = {}
    /\ c.emitted => c.phase = "up" /\ Head(c.todo) \in Deliveries(c) /\ Head(c.todo).gen = c.gen

\* Who is alive and attached while what is queued.
Life(w, s, b, c) ==
    /\ w.gen \in {0, w.opened} /\ w.consumer <= s.id /\ (w.gen = 0 => w.consumer = 0)
    /\ s.up => s.id >= 1
    /\ ~s.up => c.phase = "none" /\ b = <<>>
    /\ c.phase = "none" => c.todo = <<>>
    /\ c.phase # "none" => s.up /\ s.client /\ ~s.timer /\ Lifes(b) = {}
    /\ s.timer => Lifes(b) = {} /\ Works(b) = {} /\ w.consumer # s.id
    /\ \A m \in Lifes(b) : m.kind \in {"connect", "retry"} => w.consumer # s.id /\ Works(b) = {}
    /\ c.phase = "connecting" =>
          /\ b = <<>> /\ w.consumer # s.id
          /\ s = [FreshSession(s.id) EXCEPT !.client = TRUE]
          /\ c = [NoClient EXCEPT !.phase = "connecting"]
    /\ c.phase \in {"replacing", "up"} => c.gen = w.opened
    /\ c.phase = "replacing" =>
          /\ Works(b) = {} /\ s.index = 0 /\ ~s.failed /\ ~s.retrying
          /\ \A d \in Deliveries(c) : \E r \in Queue(s) : SameRecord(r, d)
    /\ \A m \in Works(b) : Step(m) >= 1 /\ (w.gen # 0 => m.gen = w.gen)

Attached(w, s) == w.gen # 0 /\ w.consumer = s.id /\ s.id # 0
Clear(s) == s.up /\ ~s.failed /\ ~s.retrying

Waiting(w) == w.retained \ w.inFlight

Window(w) ==
    /\ \A t \in w.retained : w.ackedThrough < t /\ t <= w.last
    /\ \A t \in w.inFlight : t <= w.last
    /\ w.ackedThrough <= w.last

\* A record is in the stages in this order: what is further on is earlier.
Staged(s, c, W, A) ==
    /\ \A m \in W, d \in Unemitted(c) : Earlier(m, d)
    /\ c.emitted => \A m \in W : \/ Earlier(m, Head(c.todo))
                                 \/ SameRecord(m, Head(c.todo)) /\ m.kind = "event"
    /\ \A x \in W \cup Deliveries(c) \cup Queue(s), a \in A : Earlier(x, a)

\* Nothing the Session or the client holds of the live generation was
\* acknowledged or is still to be delivered.
Spanned(w, s, c, W, A) ==
    /\ \A x \in W \cup Deliveries(c) \cup A \cup Queue(s) : x.gen = w.gen =>
          /\ x.seq <= w.last
          /\ Attached(w, s) => \A t \in Waiting(w) : x.seq < t
    /\ \A x \in W \cup Deliveries(c) \cup A : x.gen = w.gen => x.seq > w.ackedThrough

Sent(W, x, k) == \E m \in W : SameRecord(m, x) /\ Step(m) = k
Queued(s, x) == \E r \in Queue(s) : SameRecord(r, x)
Among(S, x) == \E y \in S : SameRecord(y, x)
AtFirst(s, x) == s.receipts # <<>> /\ SameRecord(First(s), x)
Handled(s, x, k) == AtFirst(s, x) /\ k <= s.index

\* The effect index counts the handled events of the first receipt.
InStep(g, s, c, W) ==
    /\ \A r \in Queue(s) : r.gen = g
    /\ \A x \in W \cup Deliveries(c) : Queued(s, x)
    /\ s.index <= Effects /\ (Queue(s) = {} => s.index = 0)
    /\ \A m \in W : AtFirst(s, m) => Step(m) > s.index
    /\ \A m \in W, r \in Queue(s), k \in 1..(Effects + 1) :
          Earlier(r, m) \/ (SameRecord(r, m) /\ k < Step(m)) => Handled(s, r, k) \/ Sent(W, r, k)
    /\ \A d \in Unemitted(c) : AtFirst(s, d) => s.index = 0
    /\ c.emitted => \A k \in 1..Effects :
          Handled(s, Head(c.todo), k) \/ Sent(W, Head(c.todo), k)
    /\ c.phase # "none" => \A r \in Queue(s) : Sent(W, r, Effects + 1) \/ Among(Deliveries(c), r)

\* A lost acknowledgement left a receipt whose effects are all claimed, or
\* that had an event filed elsewhere, in front of the queue.
Lagging(g, s, c, W, mi) ==
    /\ s.receipts # <<>> /\ First(s).gen = g
    /\ s.index >= Effects \/ Rec(First(s)) \in mi
    /\ \A x \in W \cup Deliveries(c) : x.gen = g => First(s).seq < x.seq

\* The first receipt is of a generation that is gone.
Stale(g, s, c, W, mi) ==
    /\ s.receipts # <<>> /\ First(s).gen # g
    /\ \A x \in W \cup Deliveries(c) : x.gen = g => Queued(s, x)
    /\ \A r \in Queue(s) : r.gen = g =>
          \/ Rec(r) \in mi \/ Sent(W, r, 1) \/ Among(Unemitted(c), r)
          \/ c.phase = "none" /\ \A m \in W : Earlier(m, r)

Mode(g, s, c, W, mi) ==
    g # 0 /\ Clear(s) => InStep(g, s, c, W) \/ Lagging(g, s, c, W, mi) \/ Stale(g, s, c, W, mi)

\* Each effect of a retained record is committed, or its event is on its way,
\* or its record is still to be parsed; or it was filed elsewhere.
EffectOf(g, t, i) == [gen |-> g, seq |-> t, effect |-> i]
Done(g, t, i, ap, mi) == ap[EffectOf(g, t, i)] >= 1 \/ Receipt(g, t) \in mi
DoneOrSent(g, t, i, W, ap, mi) == Done(g, t, i, ap, mi) \/ Sent(W, Receipt(g, t), i)
InPipe(g, t, i, c, W, A, ap, mi) ==
    DoneOrSent(g, t, i, W, ap, mi) \/ Among(Unemitted(c) \cup A, Receipt(g, t))

Progress(w, s, c, W, A, ap, mi) ==
    w.gen # 0 /\ Clear(s) =>
    /\ \A m \in W, t \in w.retained, i \in 1..Effects :
          t < m.seq \/ (t = m.seq /\ i < Step(m)) => DoneOrSent(w.gen, t, i, W, ap, mi)
    /\ c.phase # "none" =>
          /\ \A x \in Deliveries(c) \cup A, t \in w.retained, i \in 1..Effects :
                x.gen = w.gen /\ t <= x.seq => InPipe(w.gen, t, i, c, W, A, ap, mi)
          /\ Attached(w, s) => \A t \in w.retained \cap w.inFlight, i \in 1..Effects :
                InPipe(w.gen, t, i, c, W, A, ap, mi)

\* Rows of the live generation and what was committed belong together.
Tallied(w, cl, ap, mi) ==
    /\ \A e \in EffectIds : e.gen > w.opened => ap[e] = 0
    /\ \A r \in cl : r.gen <= w.opened
    /\ \A e \in EffectIds : e.gen = w.gen /\ Record(e) \notin mi => ap[e] <= 1
    /\ \A r \in cl : r.gen = w.gen /\ r.index < Effects /\ Rec(r) \notin mi
          => ap[EffectOf(r.gen, r.seq, r.index + 1)] >= 1
    /\ \A e \in EffectIds :
          e.gen = w.gen /\ Record(e) \notin mi /\ ap[e] >= 1 /\ e.seq > w.ackedThrough
          => [gen |-> e.gen, seq |-> e.seq, index |-> e.effect - 1] \in cl

Committed(ac, ap, mi) == \A e \in EffectIds : Record(e) \in ac \ mi => ap[e] >= 1

Ordered(s, b, c) == InboxOrdered(b) /\ TodoOrdered(c.todo) /\ QueueOrdered(s.receipts)

OInv(w, s, b, c, cl, ap, mi) ==
    /\ Numbers(w, s, c, Works(b), Arrivals(b))
    /\ Life(w, s, b, c)
    /\ Ordered(s, b, c)
    /\ Window(w)
    /\ Staged(s, c, Works(b), Arrivals(b))
    /\ Spanned(w, s, c, Works(b), Arrivals(b))
    /\ Mode(w.gen, s, c, Works(b), mi)
    /\ Progress(w, s, c, Works(b), Arrivals(b), ap, mi)
    /\ Tallied(w, cl, ap, mi)

OnceInv ==
    /\ PInv
    /\ OInv(wk, session, inbox, client, claims, applied, misfiled)
    /\ Committed(acked, applied, misfiled)

-----------------------------------------------------------------------------
(* What follows from the types.                                            *)

Typed(w, s, b, c) ==
    /\ GoodWk(w)
    /\ GoodSession(s, w.opened)
    /\ b \in Seq(KnownMessages(w.opened))
    /\ GoodClient(c, w.opened)

LEMMA NumbersFollow ==
    ASSUME NEW w, NEW s, NEW b, NEW c, Typed(w, s, b, c), \A m \in Works(b) : Step(m) >= 1
    PROVE  Numbers(w, s, c, Works(b), Arrivals(b))
<1>1. /\ {w.gen, w.opened, w.last, w.ackedThrough, s.index, s.id, w.consumer, c.gen} \subseteq Nat
      /\ w.retained \subseteq Nat /\ w.inFlight \subseteq Nat
      /\ Effects \in Nat /\ Effects >= 1
  BY Bounds DEF Typed, GoodWk, WkState, GoodSession, SessionState, GoodClient, ClientState, Sequences
<1>2. Items(b) \subseteq KnownMessages(w.opened)
  BY ItemsOf DEF Typed
<1>3. Items(c.todo) \subseteq KnownDeliveries(w.opened)
  BY ItemsOf DEF Typed, GoodClient
<1>4. Queue(s) \subseteq KnownReceipts(w.opened)
  BY ItemsOf DEF Typed, GoodSession, Queue
<1>5. \A x \in Works(b) \cup Arrivals(b) \cup Deliveries(c) \cup Queue(s) :
          x.gen \in Nat /\ x.gen >= 1 /\ x.gen <= w.opened /\ x.seq \in Nat
  BY <1>2, <1>3, <1>4, Bounds DEF Works, IsWork, Arrivals, Deliveries, KnownMessages,
     KnownDeliveries, KnownReceipts, OpenedBy, Generations, Sequences
<1>6. \A m \in Works(b) :
          /\ IsWork(m) /\ Step(m) \in Nat /\ Step(m) >= 1 /\ Step(m) <= Effects + 1
          /\ m.kind = "event" => Step(m) <= Effects
  <2> TAKE m \in Works(b)
  <2>1. IsWork(m) /\ m.effect \in 0..Effects /\ Step(m) >= 1
    BY <1>2 DEF Works, KnownMessages, Messages
  <2>2. m.kind = "event" => Step(m) \in Nat /\ Step(m) <= Effects
    BY <1>1, <2>1 DEF Step
  <2>3. m.kind # "event" => Step(m) = Effects + 1
    BY DEF Step
  <2> QED
    BY <1>1, <2>1, <2>2, <2>3
<1>8. s.receipts \in Seq(KnownReceipts(w.opened))
  BY DEF Typed, GoodSession
<1>9. s.receipts # <<>> => First(s) \in Queue(s)
  BY <1>8, HeadAndTail DEF First, Queue
<1>10. s.receipts = <<>> => Queue(s) = {}
  BY EmptyHasNone DEF Queue
<1>11. c.emitted => c.phase = "up" /\ Head(c.todo) \in Deliveries(c) /\ Head(c.todo).gen = c.gen
  <2>1. c.todo \in Seq(KnownDeliveries(w.opened))
    BY DEF Typed, GoodClient
  <2>2. c.todo # <<>> => Head(c.todo) \in Items(c.todo)
    BY <2>1, HeadAndTail
  <2> QED
    BY <2>2 DEF Typed, GoodClient, Deliveries
<1> QED
  BY <1>1, <1>5, <1>6, <1>9, <1>10, <1>11 DEF Numbers

LEMMA WorkNumbers ==
    ASSUME NEW w, NEW s, NEW c, NEW W, NEW A, Numbers(w, s, c, W, A), NEW m \in W
    PROVE  /\ IsWork(m) /\ Step(m) \in Nat /\ Step(m) >= 1 /\ Step(m) <= Effects + 1
           /\ m.kind = "event" => Step(m) <= Effects
           /\ m.gen \in Nat /\ m.gen >= 1 /\ m.gen <= w.opened /\ m.seq \in Nat
           /\ Effects \in Nat /\ Effects >= 1
<1>1. /\ IsWork(m) /\ Step(m) \in Nat /\ Step(m) >= 1 /\ Step(m) <= Effects + 1
      /\ m.kind = "event" => Step(m) <= Effects
  BY DEF Numbers
<1>2. m.gen \in Nat /\ m.gen >= 1 /\ m.gen <= w.opened /\ m.seq \in Nat
  BY DEF Numbers
<1>3. Effects \in Nat /\ Effects >= 1
  BY DEF Numbers
<1> QED
  BY <1>1, <1>2, <1>3

-----------------------------------------------------------------------------
(* What the queues hold after an operation.                                *)

LEMMA InboxViews ==
    ASSUME NEW S, NEW p \in Seq(S), NEW q \in Seq(S)
    PROVE  /\ Works(p \o q) = Works(p) \cup Works(q)
           /\ Arrivals(p \o q) = Arrivals(p) \cup Arrivals(q)
           /\ Lifes(p \o q) = Lifes(p) \cup Lifes(q)
<1>1. PICK r : r = p \o q
  OBVIOUS
<1>2. Items(r) = Items(p) \cup Items(q)
  BY <1>1, ItemsOfConcatenation
<1>3. Works(r) = Works(p) \cup Works(q)
  BY <1>2 DEF Works
<1>4. Arrivals(r) = Arrivals(p) \cup Arrivals(q)
  BY <1>2 DEF Arrivals
<1>5. Lifes(r) = Lifes(p) \cup Lifes(q)
  BY <1>2 DEF Lifes
<1> QED
  BY <1>1, <1>3, <1>4, <1>5

LEMMA NoInboxViews ==
    Works(<<>>) = {} /\ Arrivals(<<>>) = {} /\ Lifes(<<>>) = {} /\ InboxOrdered(<<>>)
BY EmptyHasNone DEF Works, Arrivals, Lifes

LEMMA MessageViews ==
    ASSUME NEW S, NEW m \in S
    PROVE  /\ Works(<<m>>) = IF IsWork(m) THEN {m} ELSE {}
           /\ Arrivals(<<m>>) = IF m.kind = "data" THEN {m} ELSE {}
           /\ Lifes(<<m>>) = IF m.kind \in LifeKinds THEN {m} ELSE {}
<1>1. Items(<<m>>) = {m}
  BY Single
<1> QED
  BY <1>1 DEF Works, Arrivals, Lifes

\* What is left behind the first message.
LEMMA PoppedInbox ==
    ASSUME NEW S, NEW b \in Seq(S), b # <<>>, InboxOrdered(b),
           NEW w, NEW s, NEW c, Numbers(w, s, c, Works(b), Arrivals(b)),
           NEW m, m = Head(b), NEW t, t = Tail(b)
    PROVE  /\ t \in Seq(S) /\ InboxOrdered(t)
           /\ IsWork(m) => /\ Works(t) = Works(b) \ {m} /\ m \in Works(b)
                           /\ \A n \in Works(t) : Before(m, n)
                           /\ Arrivals(t) = Arrivals(b) /\ Lifes(t) = Lifes(b)
           /\ m.kind = "data" => /\ Arrivals(t) = Arrivals(b) \ {m} /\ m \in Arrivals(b)
                                 /\ \A a \in Arrivals(t) : Earlier(m, a)
                                 /\ Works(t) = Works(b) /\ Lifes(t) = Lifes(b)
           /\ m.kind \in LifeKinds => /\ Works(b) = {} /\ Works(t) = {} /\ Lifes(t) = {}
                                      /\ m \in Lifes(b) /\ Arrivals(t) = Arrivals(b)
           /\ m.kind \in {"connect", "retry"} => t = <<>>
           /\ IsNoise(m) => /\ Works(t) = Works(b) /\ Lifes(t) = Lifes(b)
                            /\ Arrivals(t) = Arrivals(b)
<1>1. /\ t \in Seq(S) /\ InboxOrdered(t) /\ Items(b) = {m} \cup Items(t)
      /\ \A x \in Items(t) : InOrder(m, x)
  BY HeadAndTail, OrderedTail
<1>2. /\ Works(b) = Works(t) \cup (IF IsWork(m) THEN {m} ELSE {})
      /\ Arrivals(b) = Arrivals(t) \cup (IF m.kind = "data" THEN {m} ELSE {})
      /\ Lifes(b) = Lifes(t) \cup (IF m.kind \in LifeKinds THEN {m} ELSE {})
  BY <1>1 DEF Works, Arrivals, Lifes
<1>3. CASE IsWork(m)
  <2>1. m \in Works(b) /\ m.kind # "data" /\ m.kind \notin LifeKinds /\ ~IsNoise(m)
    BY <1>2, <1>3 DEF IsWork, LifeKinds, IsNoise
  <2>2. \A n \in Works(t) : Before(m, n)
    BY <1>1, <1>3 DEF Works, InOrder
  <2>3. m.gen \in Nat /\ m.seq \in Nat /\ Step(m) \in Nat
    BY <2>1, WorkNumbers
  <2>4. ~Before(m, m)
    BY <2>3 DEF Before, Earlier, SameRecord
  <2> QED
    BY <1>1, <1>2, <1>3, <2>1, <2>2, <2>4 DEF LifeKinds
<1>4. CASE m.kind = "data"
  <2>1. m \in Arrivals(b) /\ ~IsWork(m) /\ m.kind \notin LifeKinds /\ ~IsNoise(m)
    BY <1>2, <1>4 DEF IsWork, LifeKinds, IsNoise
  <2>2. \A n \in Arrivals(t) : Earlier(m, n)
    BY <1>1, <1>4 DEF Arrivals, InOrder
  <2>3. m.gen \in Nat /\ m.seq \in Nat
    BY <2>1 DEF Numbers
  <2>4. ~Earlier(m, m)
    BY <2>3 DEF Earlier
  <2> QED
    BY <1>1, <1>2, <1>4, <2>1, <2>2, <2>4 DEF LifeKinds
<1>5. CASE m.kind \in LifeKinds
  <2>1. m \in Lifes(b) /\ ~IsWork(m) /\ m.kind # "data" /\ ~IsNoise(m)
    BY <1>2, <1>5 DEF IsWork, LifeKinds, IsNoise
  <2>2. Works(t) = {} /\ Lifes(t) = {}
    BY <1>1, <1>5 DEF InOrder, Works, Lifes
  <2>3. m.kind \in {"connect", "retry"} => t = <<>>
    <3> SUFFICES ASSUME m.kind \in {"connect", "retry"}, t # <<>> PROVE FALSE
      OBVIOUS
    <3>1. Head(t) \in Items(t)
      BY <1>1, HeadAndTail
    <3> QED
      BY <1>1, <3>1 DEF InOrder
  <2> QED
    BY <1>1, <1>2, <2>1, <2>2, <2>3
<1>6. CASE IsNoise(m)
  <2>1. ~IsWork(m) /\ m.kind # "data" /\ m.kind \notin LifeKinds /\ m.kind \notin {"connect", "retry"}
    BY <1>6 DEF IsWork, LifeKinds, IsNoise
  <2> QED
    BY <1>1, <1>2, <1>6, <2>1
<1>7. CASE ~IsWork(m) /\ m.kind # "data" /\ m.kind \notin LifeKinds /\ ~IsNoise(m)
  BY <1>1, <1>7 DEF LifeKinds
<1> QED
  BY <1>3, <1>4, <1>5, <1>6, <1>7

\* What the client has left after its first delivery.
LEMMA PoppedArrival ==
    ASSUME NEW S, NEW b \in Seq(S), b # <<>>, InboxOrdered(b),
           NEW w, NEW s, NEW c, Numbers(w, s, c, Works(b), Arrivals(b)),
           NEW m, m = Head(b), NEW t, t = Tail(b), m.kind = "data"
    PROVE  /\ InboxOrdered(t) /\ Works(t) = Works(b) /\ Lifes(t) = Lifes(b)
           /\ m \in Arrivals(b) /\ Arrivals(t) = Arrivals(b) \ {m}
           /\ \A a \in Arrivals(t) : Earlier(m, a)
BY PoppedInbox

LEMMA PoppedTodo ==
    ASSUME NEW S, NEW c, c.todo \in Seq(S), c.todo # <<>>, TodoOrdered(c.todo),
           NEW w, NEW s, NEW W, NEW A, Numbers(w, s, c, W, A),
           NEW d, d = Head(c.todo), NEW t, t = Tail(c.todo)
    PROVE  /\ t \in Seq(S) /\ TodoOrdered(t)
           /\ d.kind = "data" => /\ d \in Deliveries(c)
                                 /\ {x \in Items(t) : x.kind = "data"} = Deliveries(c) \ {d}
                                 /\ \A x \in Deliveries(c) : x = d \/ Earlier(d, x)
           /\ d.kind # "data" => {x \in Items(t) : x.kind = "data"} = Deliveries(c)
<1>1. /\ t \in Seq(S) /\ TodoOrdered(t) /\ Items(c.todo) = {d} \cup Items(t)
      /\ d.kind = "data" => \A x \in Items(t) : x.kind = "data" => Earlier(d, x)
  BY HeadAndTail, OrderedTail
<1>2. CASE d.kind = "data"
  <2>1. d \in Deliveries(c)
    BY <1>1, <1>2 DEF Deliveries
  <2>2. d.gen \in Nat /\ d.seq \in Nat
    BY <2>1 DEF Numbers
  <2>3. ~Earlier(d, d)
    BY <2>2 DEF Earlier
  <2> QED
    BY <1>1, <1>2, <2>1, <2>3 DEF Deliveries
<1>3. CASE d.kind # "data"
  BY <1>1, <1>3 DEF Deliveries
<1> QED
  BY <1>2, <1>3

-----------------------------------------------------------------------------
(* The client's steps.                                                     *)

LEMMA EmitOnce ==
    ASSUME NEW w, NEW s, NEW b, NEW c, NEW cl, NEW ap, NEW mi, OInv(w, s, b, c, cl, ap, mi),
           NEW S, b \in Seq(S), NEW ms \in Seq(S), NEW b2, b2 = b \o ms,
           NEW T, c.todo \in Seq(T), c.todo # <<>>, c.phase = "up", ~c.emitted,
           NEW d, d = Head(c.todo), d.kind = "data", d.gen = c.gen,
           Len(ms) = Effects, \A i \in 1..Effects : ms[i] = Message("event", d.gen, d.seq, i),
           NEW c2, c2.phase = c.phase, c2.gen = c.gen, c2.todo = c.todo, c2.emitted,
           Numbers(w, s, c2, Works(b2), Arrivals(b2))
    PROVE  OInv(w, s, b2, c2, cl, ap, mi)
<1> DEFINE W == Works(b)
           A == Arrivals(b)
           N == Works(ms)
           W2 == Works(b2)
<1>0. /\ Numbers(w, s, c, W, A) /\ Life(w, s, b, c) /\ Ordered(s, b, c) /\ Window(w)
      /\ Staged(s, c, W, A) /\ Spanned(w, s, c, W, A) /\ Mode(w.gen, s, c, W, mi)
      /\ Progress(w, s, c, W, A, ap, mi) /\ Tallied(w, cl, ap, mi)
  BY DEF OInv
<1>1. /\ \A i \in 1..Effects : Message("event", d.gen, d.seq, i) \in Items(ms)
      /\ \A n \in Items(ms) : n.kind = "event" /\ SameRecord(n, d) /\ Step(n) \in 1..Effects
      /\ \A i \in 1..Len(ms) : ms[i].kind = "event" /\ SameRecord(ms[i], d) /\ Step(ms[i]) = i
  <2>1. Effects \in Nat /\ Len(ms) = Effects
    BY <1>0 DEF Numbers
  <2>2. ASSUME NEW i \in 1..Effects
        PROVE  ms[i].kind = "event" /\ SameRecord(ms[i], d) /\ Step(ms[i]) = i
    <3>1. ms[i] = [kind |-> "event", gen |-> d.gen, seq |-> d.seq, effect |-> i]
      BY DEF Message
    <3> QED
      BY <3>1 DEF SameRecord, Step
  <2> QED
    BY <2>1, <2>2 DEF Items
<1>2. /\ N = Items(ms) /\ Arrivals(ms) = {} /\ Lifes(ms) = {}
  BY <1>1 DEF Works, Arrivals, Lifes, IsWork, LifeKinds
<1>3. W2 = W \cup N /\ Arrivals(b2) = A /\ Lifes(b2) = Lifes(b)
  <2>1. /\ Works(b2) = Works(b) \cup Works(ms) /\ Arrivals(b2) = Arrivals(b) \cup Arrivals(ms)
        /\ Lifes(b2) = Lifes(b) \cup Lifes(ms)
    BY InboxViews
  <2> QED
    BY <1>2, <2>1
<1>4. d \in Deliveries(c) /\ \A x \in Deliveries(c) : x = d \/ Earlier(d, x)
  BY <1>0, PoppedTodo DEF Ordered
<1>5. /\ Deliveries(c2) = Deliveries(c) /\ Unemitted(c) = Deliveries(c)
      /\ Unemitted(c2) = Deliveries(c) \ {d} /\ Head(c2.todo) = d
  BY DEF Deliveries, Unemitted
<1>6. /\ d.gen = w.opened /\ w.gen \in {0, w.opened} /\ d.gen \in Nat /\ d.seq \in Nat
      /\ \A m \in W : m.gen \in Nat /\ m.seq \in Nat /\ Earlier(m, d)
      /\ \A x \in Deliveries(c) : x.gen \in Nat /\ x.seq \in Nat
      /\ Lifes(b) = {}
  BY <1>0, <1>4, <1>5 DEF Numbers, Life, Staged
<1>7. Life(w, s, b2, c2)
  <2>1. \A m \in W2 : Step(m) >= 1 /\ (w.gen # 0 => m.gen = w.gen)
    BY <1>0, <1>1, <1>2, <1>3, <1>6 DEF Life, SameRecord, Numbers
  <2> HIDE DEF W, A, N, W2
  <2> QED
    BY <1>0, <1>3, <1>5, <1>6, <2>1 DEF Life, W2
<1>8. Ordered(s, b2, c2)
  <2>1. InboxOrdered(ms)
    <3>1. Len(ms) = Effects /\ Effects \in Nat
      BY <1>0 DEF Numbers
    <3> SUFFICES ASSUME NEW i \in 1..Len(ms), NEW j \in 1..Len(ms), i < j
                 PROVE  InOrder(ms[i], ms[j])
      BY DEF InboxOrdered
    <3>2. /\ SameRecord(ms[i], d) /\ SameRecord(ms[j], d)
          /\ Step(ms[i]) = i /\ Step(ms[j]) = j /\ ms[j].kind = "event" /\ ms[i].kind = "event"
      BY <1>1
    <3>3. Before(ms[i], ms[j])
      BY <3>2 DEF Before, SameRecord
    <3> QED
      BY <3>2, <3>3 DEF InOrder, LifeKinds
  <2>2. ASSUME NEW x \in Items(b), NEW y \in Items(ms) PROVE InOrder(x, y)
    <3>1. y.kind = "event" /\ SameRecord(y, d)
      BY <1>1
    <3>2. x.kind \notin LifeKinds
      BY <1>6 DEF Lifes
    <3>3. IsWork(x) => Earlier(x, y)
      BY <1>6, <3>1 DEF Works, Earlier, SameRecord
    <3> QED
      BY <3>1, <3>2, <3>3 DEF InOrder, Before, LifeKinds
  <2>3. InboxOrdered(b2)
    BY <1>0, <2>1, <2>2, OrderedConcatenation DEF Ordered
  <2> QED
    BY <1>0, <2>3 DEF Ordered
<1>9. Staged(s, c2, W2, A)
  <2>1. ASSUME NEW m \in W2, NEW x \in Unemitted(c2) PROVE Earlier(m, x)
    <3>1. CASE m \in W
      BY <3>1, <1>0, <1>5 DEF Staged
    <3>2. CASE m \in N
      <4>1. SameRecord(m, d) /\ Earlier(d, x)
        BY <3>2, <1>1, <1>2, <1>4, <1>5
      <4> QED
        BY <4>1 DEF Earlier, SameRecord
    <3> QED
      BY <1>3, <3>1, <3>2
  <2>2. \A m \in W2 : Earlier(m, d) \/ (SameRecord(m, d) /\ m.kind = "event")
    BY <1>1, <1>2, <1>3, <1>6
  <2>3. \A m \in W2, a \in A : Earlier(m, a)
    BY <1>0, <1>1, <1>2, <1>3, <1>4 DEF Staged, Earlier, SameRecord
  <2> HIDE DEF W, A, N, W2
  <2> QED
    BY <1>0, <1>5, <2>1, <2>2, <2>3 DEF Staged
<1>10. Spanned(w, s, c2, W2, A)
  <2>1. \A m \in N : m.gen = d.gen /\ m.seq = d.seq
    BY <1>1, <1>2 DEF SameRecord
  <2> HIDE DEF W, A, N, W2
  <2> QED
    BY <1>0, <1>3, <1>4, <1>5, <2>1 DEF Spanned
<1>11. Mode(w.gen, s, c2, W2, mi)
  <2> SUFFICES ASSUME w.gen # 0, Clear(s)
               PROVE  \/ InStep(w.gen, s, c2, W2) \/ Lagging(w.gen, s, c2, W2, mi)
                      \/ Stale(w.gen, s, c2, W2, mi)
    BY DEF Mode
  <2>1. \A x, k : Sent(W, x, k) => Sent(W2, x, k)
    BY <1>3 DEF Sent
  <2>2. \A i \in 1..Effects : Sent(N, d, i)
    <3> TAKE i \in 1..Effects
    <3>1. Message("event", d.gen, d.seq, i) \in N
      BY <1>1, <1>2
    <3> QED
      BY <3>1 DEF Sent, Message, SameRecord, Step
  <2>3. \A n \in N : SameRecord(n, d) /\ Step(n) \in 1..Effects /\ n.kind = "event"
    BY <1>1, <1>2
  <2>4. ASSUME NEW x, SameRecord(x, d), NEW i \in 1..Effects PROVE Sent(W2, x, i)
    <3>1. PICK n \in N : SameRecord(n, d) /\ Step(n) = i
      BY <2>2 DEF Sent
    <3> QED
      BY <1>3, <2>4, <3>1 DEF Sent, SameRecord
  <2>5. CASE InStep(w.gen, s, c, W)
    <3>1. \A x \in W2 \cup Deliveries(c2) : Queued(s, x)
      BY <2>5, <1>3, <1>4, <1>5, <2>3 DEF InStep, Queued, SameRecord
    <3>2. \A m \in W2 : AtFirst(s, m) => Step(m) > s.index
      <4>1. \A m \in N : AtFirst(s, m) => s.index = 0
        BY <2>5, <1>4, <1>5, <2>3 DEF InStep, AtFirst, SameRecord
      <4> QED
        BY <2>5, <1>3, <2>3, <4>1 DEF InStep
    <3>3. ASSUME NEW m \in W2, NEW r \in Queue(s), NEW k \in 1..(Effects + 1),
                 Earlier(r, m) \/ (SameRecord(r, m) /\ k < Step(m))
          PROVE  Handled(s, r, k) \/ Sent(W2, r, k)
      <4>1. CASE m \in W
        BY <3>3, <4>1, <2>1, <2>5 DEF InStep
      <4>2. CASE m \in N /\ SameRecord(r, m)
        <5>1. SameRecord(r, d) /\ k \in 1..Effects
          BY <3>3, <4>2, <2>3, <1>0, <1>6 DEF SameRecord, Earlier, Numbers
        <5> QED
          BY <5>1, <2>4
      <4>3. CASE m \in N /\ Earlier(r, m)
        <5>1. Earlier(r, d)
          BY <4>3, <2>3 DEF SameRecord, Earlier
        <5>2. r.gen \in Nat /\ r.seq \in Nat
          BY <1>0 DEF Numbers
        <5>3. ~Among(Deliveries(c), r)
          <6> SUFFICES ASSUME NEW y \in Deliveries(c), SameRecord(y, r) PROVE FALSE
            BY DEF Among
          <6>1. (y = d \/ Earlier(d, y)) /\ y.gen \in Nat /\ y.seq \in Nat
            BY <1>4, <1>6
          <6>2. d.gen \in Nat /\ d.seq \in Nat
            BY <1>6
          <6> QED
            BY <5>1, <5>2, <6>1, <6>2 DEF Earlier, SameRecord
        <5>4. Sent(W, r, Effects + 1)
          BY <5>3, <2>5 DEF InStep
        <5>5. PICK n \in W : SameRecord(n, r) /\ Step(n) = Effects + 1
          BY <5>4 DEF Sent
        <5>6. CASE k = Effects + 1
          BY <5>4, <5>6, <2>1
        <5>7. CASE k # Effects + 1
          <6>1. SameRecord(r, n) /\ k < Step(n)
            BY <5>5, <5>7, <1>0 DEF SameRecord, Numbers
          <6> QED
            BY <6>1, <2>1, <2>5 DEF InStep
        <5> QED
          BY <5>6, <5>7
      <4> QED
        BY <3>3, <4>1, <4>2, <4>3, <1>3
    <3>4. \A x \in Unemitted(c2) : AtFirst(s, x) => s.index = 0
      BY <2>5, <1>5 DEF InStep
    <3>5. \A k \in 1..Effects : Sent(W2, Head(c2.todo), k)
      BY <1>5, <2>4 DEF SameRecord
    <3>6. \A r \in Queue(s) : Sent(W2, r, Effects + 1) \/ Among(Deliveries(c2), r)
      BY <2>5, <2>1, <1>5 DEF InStep
    <3>7. InStep(w.gen, s, c2, W2)
      BY <2>5, <3>1, <3>2, <3>3, <3>4, <3>5, <3>6 DEF InStep
    <3> QED
      BY <3>7
  <2>6. CASE Lagging(w.gen, s, c, W, mi)
    <3>1. \A x \in W2 \cup Deliveries(c2) : x.gen = w.gen => First(s).seq < x.seq
      BY <2>6, <1>3, <1>4, <1>5, <2>3 DEF Lagging, SameRecord
    <3> QED
      BY <2>6, <3>1 DEF Lagging
  <2>7. CASE Stale(w.gen, s, c, W, mi)
    <3>1. ASSUME NEW x \in W2 \cup Deliveries(c2), x.gen = w.gen PROVE Queued(s, x)
      <4>1. CASE x \in W \cup Deliveries(c)
        BY <2>7, <3>1, <4>1 DEF Stale
      <4>2. CASE x \in N
        <5>1. SameRecord(x, d)
          BY <2>3, <4>2
        <5>2. Queued(s, d)
          BY <2>7, <1>4, <3>1, <5>1 DEF Stale, SameRecord
        <5> QED
          BY <5>1, <5>2 DEF Queued, SameRecord
      <4> QED
        BY <1>3, <1>5, <3>1, <4>1, <4>2
    <3>2. ASSUME NEW r \in Queue(s), r.gen = w.gen
          PROVE  Rec(r) \in mi \/ Sent(W2, r, 1) \/ Among(Unemitted(c2), r)
      <4>1. Rec(r) \in mi \/ Sent(W, r, 1) \/ Among(Unemitted(c), r)
        BY <3>2, <2>7 DEF Stale
      <4>2. CASE Among(Unemitted(c), r)
        <5>1. PICK y \in Deliveries(c) : SameRecord(y, r)
          BY <4>2, <1>5 DEF Among
        <5>2. CASE y = d
          <6>1. 1 \in 1..Effects /\ SameRecord(r, d)
            BY <1>0, <5>1, <5>2 DEF Numbers, SameRecord
          <6> QED
            BY <6>1, <2>4
        <5>3. CASE y # d
          BY <5>1, <5>3, <1>5 DEF Among
        <5> QED
          BY <5>2, <5>3
      <4> QED
        BY <4>1, <4>2, <2>1
    <3> QED
      BY <2>7, <3>1, <3>2 DEF Stale
  <2> QED
    BY <1>0, <2>5, <2>6, <2>7 DEF Mode
<1>12. Progress(w, s, c2, W2, A, ap, mi)
  <2> SUFFICES ASSUME w.gen # 0, Clear(s)
               PROVE  Progress(w, s, c2, W2, A, ap, mi)
    BY DEF Progress
  <2>1. \A t, i : DoneOrSent(w.gen, t, i, W, ap, mi) => DoneOrSent(w.gen, t, i, W2, ap, mi)
    BY <1>3 DEF DoneOrSent, Sent
  <2>2. ASSUME NEW t, NEW i \in 1..Effects, InPipe(w.gen, t, i, c, W, A, ap, mi)
        PROVE  InPipe(w.gen, t, i, c2, W2, A, ap, mi)
    <3>1. CASE DoneOrSent(w.gen, t, i, W, ap, mi)
      BY <3>1, <2>1 DEF InPipe
    <3>2. CASE Among(Unemitted(c) \cup A, Receipt(w.gen, t))
      <4>1. PICK y \in Deliveries(c) \cup A : SameRecord(y, Receipt(w.gen, t))
        BY <3>2, <1>5 DEF Among
      <4>2. CASE y = d
        <5>1. Message("event", d.gen, d.seq, i) \in W2
          BY <1>1, <1>2, <1>3
        <5>2. Sent(W2, Receipt(w.gen, t), i)
          BY <4>1, <4>2, <5>1 DEF Sent, Message, SameRecord, Step, Receipt
        <5> QED
          BY <5>2 DEF InPipe, DoneOrSent
      <4>3. CASE y # d
        BY <4>1, <4>3, <1>5 DEF InPipe, Among
      <4> QED
        BY <4>2, <4>3
    <3> QED
      BY <2>2, <3>1, <3>2 DEF InPipe
  <2>3. ASSUME NEW m \in W2, NEW t \in w.retained, NEW i \in 1..Effects,
               t < m.seq \/ (t = m.seq /\ i < Step(m))
        PROVE  DoneOrSent(w.gen, t, i, W2, ap, mi)
    <3>1. CASE m \in W
      BY <2>3, <3>1, <2>1, <1>0 DEF Progress
    <3>2. CASE m \in N
      <4>1. m.seq = d.seq /\ d.gen = w.gen /\ t \in Nat
        <5>1. SameRecord(m, d) /\ w.retained \subseteq Nat
          BY <3>2, <1>0, <1>1, <1>2 DEF Numbers
        <5> QED
          BY <5>1, <1>6 DEF SameRecord
      <4>2. t <= d.seq /\ c.phase # "none"
        BY <2>3, <4>1, <1>6
      <4>3. InPipe(w.gen, t, i, c, W, A, ap, mi)
        BY <1>0, <1>4, <4>1, <4>2 DEF Progress
      <4>4. CASE DoneOrSent(w.gen, t, i, W, ap, mi)
        BY <4>4, <2>1
      <4>5. CASE Among(Unemitted(c) \cup A, Receipt(w.gen, t))
        <5>1. PICK y \in Deliveries(c) \cup A : y.gen = w.gen /\ y.seq = t
          BY <4>5, <1>5 DEF Among, SameRecord, Receipt
        <5>2. y = d \/ Earlier(d, y)
          BY <1>0, <1>4, <5>1 DEF Staged
        <5>3. y.seq = d.seq
          BY <4>1, <4>2, <5>1, <5>2, <1>6 DEF Earlier
        <5>4. Message("event", d.gen, d.seq, i) \in W2
          BY <1>1, <1>2, <1>3
        <5>5. Sent(W2, Receipt(w.gen, t), i)
          BY <4>1, <5>1, <5>3, <5>4 DEF Sent, Message, SameRecord, Step, Receipt
        <5> QED
          BY <5>5 DEF DoneOrSent
      <4> QED
        BY <4>3, <4>4, <4>5 DEF InPipe
    <3> QED
      BY <3>1, <3>2, <1>3
  <2> QED
    BY <1>0, <1>5, <2>2, <2>3 DEF Progress
<1> QED
  BY <1>0, <1>3, <1>7, <1>8, <1>9, <1>10, <1>11, <1>12 DEF OInv

LEMMA AcceptOnce ==
    ASSUME NEW w, NEW s, NEW b, NEW c, NEW cl, NEW ap, NEW mi, OInv(w, s, b, c, cl, ap, mi),
           NEW S, b \in Seq(S), NEW ms \in Seq(S), NEW b2, b2 = b \o ms,
           NEW T, c.todo \in Seq(T), c.todo # <<>>, c.emitted,
           NEW d, d = Head(c.todo), d.kind = "data",
           NEW n, n = Message("accepted", d.gen, d.seq, 0), Items(ms) = {n}, InboxOrdered(ms),
           NEW c2, c2.phase = c.phase, c2.gen = c.gen, c2.todo = Tail(c.todo), ~c2.emitted,
           Numbers(w, s, c2, Works(b2), Arrivals(b2))
    PROVE  OInv(w, s, b2, c2, cl, ap, mi)
<1> DEFINE W == Works(b)
           A == Arrivals(b)
           W2 == Works(b2)
<1>0. /\ Numbers(w, s, c, W, A) /\ Life(w, s, b, c) /\ Ordered(s, b, c) /\ Window(w)
      /\ Staged(s, c, W, A) /\ Spanned(w, s, c, W, A) /\ Mode(w.gen, s, c, W, mi)
      /\ Progress(w, s, c, W, A, ap, mi) /\ Tallied(w, cl, ap, mi)
  BY DEF OInv
<1>1. n.kind = "accepted" /\ SameRecord(n, d) /\ Step(n) = Effects + 1 /\ IsWork(n)
  BY DEF Message, SameRecord, Step, IsWork
<1>2. /\ Works(ms) = {n} /\ Arrivals(ms) = {} /\ Lifes(ms) = {}
  BY <1>1 DEF Works, Arrivals, Lifes, LifeKinds
<1>3. W2 = W \cup {n} /\ Arrivals(b2) = A /\ Lifes(b2) = Lifes(b)
  <2>1. /\ Works(b2) = Works(b) \cup Works(ms) /\ Arrivals(b2) = Arrivals(b) \cup Arrivals(ms)
        /\ Lifes(b2) = Lifes(b) \cup Lifes(ms)
    BY InboxViews
  <2> QED
    BY <1>2, <2>1
<1>4. /\ d \in Deliveries(c) /\ (\A x \in Deliveries(c) : x = d \/ Earlier(d, x))
      /\ {x \in Items(Tail(c.todo)) : x.kind = "data"} = Deliveries(c) \ {d}
      /\ TodoOrdered(Tail(c.todo))
  BY <1>0, PoppedTodo DEF Ordered
<1>5. /\ Deliveries(c2) = Deliveries(c) \ {d} /\ Unemitted(c) = Deliveries(c) \ {d}
      /\ Unemitted(c2) = Deliveries(c) \ {d}
  BY <1>4 DEF Deliveries, Unemitted
<1>6. /\ c.phase = "up" /\ d.gen = c.gen
  BY <1>0 DEF Numbers
<1>7. /\ d.gen = w.opened /\ w.gen \in {0, w.opened} /\ d.gen \in Nat /\ d.seq \in Nat
      /\ (\A m \in W : m.gen \in Nat /\ m.seq \in Nat
              /\ (Earlier(m, d) \/ (SameRecord(m, d) /\ m.kind = "event")))
      /\ (\A x \in Deliveries(c) : x.gen \in Nat /\ x.seq \in Nat)
      /\ Lifes(b) = {}
  BY <1>0, <1>4, <1>6 DEF Numbers, Life, Staged
<1>8. Life(w, s, b2, c2)
  <2>1. \A m \in W2 : Step(m) >= 1 /\ (w.gen # 0 => m.gen = w.gen)
    BY <1>0, <1>1, <1>3, <1>7 DEF Life, SameRecord, Numbers
  <2> HIDE DEF W, A, W2
  <2> QED
    BY <1>0, <1>3, <1>6, <1>7, <2>1 DEF Life, W2
<1>9. Ordered(s, b2, c2)
  <2>1. ASSUME NEW x \in Items(b), NEW y \in Items(ms) PROVE InOrder(x, y)
    <3>1. x.kind \notin LifeKinds
      BY <1>7 DEF Lifes
    <3>2. ASSUME IsWork(x) PROVE Before(x, y)
      <4>1. x \in W
        BY <3>2 DEF Works
      <4>2. Earlier(x, d) \/ (SameRecord(x, d) /\ Step(x) < Effects + 1)
        <5>1. x.kind = "event" => Step(x) < Effects + 1
          <6>1. x.kind = "event" => Step(x) <= Effects /\ Step(x) \in Nat /\ Effects \in Nat
            BY <1>0, <4>1, WorkNumbers
          <6> QED
            BY <6>1
        <5>2. Earlier(x, d) \/ (SameRecord(x, d) /\ x.kind = "event")
          BY <1>7, <4>1
        <5> QED
          BY <5>1, <5>2
      <4> QED
        BY <1>1, <4>2 DEF Before, Earlier, SameRecord
    <3> QED
      BY <1>1, <3>1, <3>2 DEF InOrder, LifeKinds
  <2>2. InboxOrdered(b2)
    BY <1>0, <2>1, OrderedConcatenation DEF Ordered
  <2> QED
    BY <1>0, <1>4, <2>2 DEF Ordered
<1>10. Staged(s, c2, W2, A)
  <2>1. ASSUME NEW m \in W2, NEW x \in Unemitted(c2) PROVE Earlier(m, x)
    <3>1. CASE m \in W
      BY <3>1, <1>0, <1>5 DEF Staged
    <3>2. CASE m = n
      <4>1. Earlier(d, x)
        BY <1>4, <1>5
      <4> QED
        BY <1>1, <3>2, <4>1 DEF Earlier, SameRecord
    <3> QED
      BY <1>3, <3>1, <3>2
  <2>2. \A a \in A : Earlier(n, a)
    BY <1>0, <1>1, <1>4 DEF Staged, Earlier, SameRecord
  <2> HIDE DEF W, A, W2
  <2> QED
    BY <1>0, <1>3, <1>5, <2>1, <2>2 DEF Staged
<1>11. Spanned(w, s, c2, W2, A)
  <2>1. n.gen = d.gen /\ n.seq = d.seq
    BY <1>1 DEF SameRecord
  <2> HIDE DEF W, A, W2
  <2> QED
    BY <1>0, <1>3, <1>4, <1>5, <2>1 DEF Spanned
<1>12. \A x, k : Sent(W, x, k) => Sent(W2, x, k)
  BY <1>3 DEF Sent
<1>13. Mode(w.gen, s, c2, W2, mi)
  <2> SUFFICES ASSUME w.gen # 0, Clear(s)
               PROVE  \/ InStep(w.gen, s, c2, W2) \/ Lagging(w.gen, s, c2, W2, mi)
                      \/ Stale(w.gen, s, c2, W2, mi)
    BY DEF Mode
  <2>5. CASE InStep(w.gen, s, c, W)
    <3>1. \A x \in W2 \cup Deliveries(c2) : Queued(s, x)
      BY <2>5, <1>1, <1>3, <1>4, <1>5 DEF InStep, Queued, SameRecord
    <3>2. \A m \in W2 : AtFirst(s, m) => Step(m) > s.index
      <4>1. s.index <= Effects /\ s.index \in Nat /\ Effects \in Nat
        BY <2>5, <1>0 DEF InStep, Numbers
      <4> QED
        BY <2>5, <1>1, <1>3, <4>1 DEF InStep
    <3>3. ASSUME NEW m \in W2, NEW r \in Queue(s), NEW k \in 1..(Effects + 1),
                 Earlier(r, m) \/ (SameRecord(r, m) /\ k < Step(m))
          PROVE  Handled(s, r, k) \/ Sent(W2, r, k)
      <4>1. CASE m \in W
        BY <3>3, <4>1, <1>12, <2>5 DEF InStep
      <4>2. CASE m = n /\ SameRecord(r, m) /\ k < Step(m)
        <5>1. SameRecord(r, d) /\ k \in 1..Effects
          BY <4>2, <1>0, <1>1 DEF SameRecord, Numbers
        <5>2. Handled(s, d, k) \/ Sent(W, d, k)
          BY <2>5, <5>1 DEF InStep
        <5>3. CASE Handled(s, d, k)
          BY <5>1, <5>3 DEF Handled, AtFirst, SameRecord
        <5>4. CASE Sent(W, d, k)
          <6>1. Sent(W, r, k)
            BY <5>1, <5>4 DEF Sent, SameRecord
          <6> QED
            BY <6>1, <1>12
        <5> QED
          BY <5>2, <5>3, <5>4
      <4>3. CASE m = n /\ Earlier(r, m)
        <5>1. Earlier(r, d)
          BY <4>3, <1>1 DEF SameRecord, Earlier
        <5>2. r.gen \in Nat /\ r.seq \in Nat
          BY <1>0 DEF Numbers
        <5>3. ~Among(Deliveries(c), r)
          <6> SUFFICES ASSUME NEW y \in Deliveries(c), SameRecord(y, r) PROVE FALSE
            BY DEF Among
          <6>1. (y = d \/ Earlier(d, y)) /\ y.gen \in Nat /\ y.seq \in Nat
            BY <1>4, <1>7
          <6>2. d.gen \in Nat /\ d.seq \in Nat
            BY <1>7
          <6> QED
            BY <5>1, <5>2, <6>1, <6>2 DEF Earlier, SameRecord
        <5>4. Sent(W, r, Effects + 1)
          BY <5>3, <1>6, <2>5 DEF InStep
        <5>5. PICK y \in W : SameRecord(y, r) /\ Step(y) = Effects + 1
          BY <5>4 DEF Sent
        <5>6. CASE k = Effects + 1
          BY <5>4, <5>6, <1>12
        <5>7. CASE k # Effects + 1
          <6>1. SameRecord(r, y) /\ k < Step(y)
            BY <5>5, <5>7, <1>0 DEF SameRecord, Numbers
          <6> QED
            BY <6>1, <1>12, <2>5 DEF InStep
        <5> QED
          BY <5>6, <5>7
      <4> QED
        BY <3>3, <4>1, <4>2, <4>3, <1>3
    <3>4. \A x \in Unemitted(c2) : AtFirst(s, x) => s.index = 0
      BY <2>5, <1>5 DEF InStep
    <3>6. ASSUME NEW r \in Queue(s)
          PROVE  Sent(W2, r, Effects + 1) \/ Among(Deliveries(c2), r)
      <4>1. Sent(W, r, Effects + 1) \/ Among(Deliveries(c), r)
        BY <2>5, <1>6 DEF InStep
      <4>2. ASSUME NEW y \in Deliveries(c), SameRecord(y, r)
            PROVE  Sent(W2, r, Effects + 1) \/ Among(Deliveries(c2), r)
        <5>1. CASE y = d
          BY <4>2, <5>1, <1>1, <1>3 DEF Sent, SameRecord
        <5>2. CASE y # d
          BY <4>2, <5>2, <1>5 DEF Among
        <5> QED
          BY <5>1, <5>2
      <4> QED
        BY <4>1, <4>2, <1>12 DEF Among
    <3>7. InStep(w.gen, s, c2, W2)
      BY <2>5, <3>1, <3>2, <3>3, <3>4, <3>6 DEF InStep
    <3> QED
      BY <3>7
  <2>6. CASE Lagging(w.gen, s, c, W, mi)
    <3>1. \A x \in W2 \cup Deliveries(c2) : x.gen = w.gen => First(s).seq < x.seq
      BY <2>6, <1>1, <1>3, <1>4, <1>5 DEF Lagging, SameRecord
    <3> QED
      BY <2>6, <3>1 DEF Lagging
  <2>7. CASE Stale(w.gen, s, c, W, mi)
    <3>1. ASSUME NEW x \in W2 \cup Deliveries(c2), x.gen = w.gen PROVE Queued(s, x)
      <4>1. CASE x \in W \cup Deliveries(c)
        BY <2>7, <3>1, <4>1 DEF Stale
      <4>2. CASE x = n
        <5>2. Queued(s, d)
          BY <2>7, <1>1, <1>4, <3>1, <4>2 DEF Stale, SameRecord
        <5> QED
          BY <1>1, <4>2, <5>2 DEF Queued, SameRecord
      <4> QED
        BY <1>3, <1>5, <3>1, <4>1, <4>2
    <3>2. ASSUME NEW r \in Queue(s), r.gen = w.gen
          PROVE  Rec(r) \in mi \/ Sent(W2, r, 1) \/ Among(Unemitted(c2), r)
      BY <3>2, <2>7, <1>5, <1>6, <1>12 DEF Stale
    <3> QED
      BY <2>7, <3>1, <3>2 DEF Stale
  <2> QED
    BY <1>0, <2>5, <2>6, <2>7 DEF Mode
<1>14. Progress(w, s, c2, W2, A, ap, mi)
  <2> SUFFICES ASSUME w.gen # 0, Clear(s)
               PROVE  Progress(w, s, c2, W2, A, ap, mi)
    BY DEF Progress
  <2>1. \A t, i : DoneOrSent(w.gen, t, i, W, ap, mi) => DoneOrSent(w.gen, t, i, W2, ap, mi)
    BY <1>12 DEF DoneOrSent
  <2>2. \A t, i : InPipe(w.gen, t, i, c, W, A, ap, mi) => InPipe(w.gen, t, i, c2, W2, A, ap, mi)
    BY <2>1, <1>5 DEF InPipe
  <2>3. ASSUME NEW t \in w.retained, NEW i \in 1..Effects,
               t < n.seq \/ (t = n.seq /\ i < Step(n))
        PROVE  DoneOrSent(w.gen, t, i, W2, ap, mi)
    <3>1. n.seq = d.seq /\ n.gen = d.gen /\ d.gen = w.gen /\ t \in Nat
      BY <1>0, <1>1, <1>7 DEF SameRecord, Numbers
    <3>2. t <= d.seq /\ c.phase # "none"
      BY <2>3, <3>1, <1>6, <1>7
    <3>3. InPipe(w.gen, t, i, c, W, A, ap, mi)
      BY <1>0, <1>4, <3>1, <3>2 DEF Progress
    <3>4. ~Among(Unemitted(c) \cup A, Receipt(w.gen, t))
      <4> SUFFICES ASSUME NEW y \in Unemitted(c) \cup A, y.gen = w.gen, y.seq = t PROVE FALSE
        BY DEF Among, SameRecord, Receipt
      <4>1. Earlier(d, y)
        BY <1>0, <1>4, <1>5 DEF Staged
      <4> QED
        BY <3>1, <3>2, <4>1, <1>7 DEF Earlier
    <3> QED
      BY <3>3, <3>4, <2>1 DEF InPipe
  <2>4. \A m \in W, t \in w.retained, i \in 1..Effects :
          t < m.seq \/ (t = m.seq /\ i < Step(m)) => DoneOrSent(w.gen, t, i, W2, ap, mi)
    BY <1>0, <2>1 DEF Progress
  <2>5. \A m \in W2, t \in w.retained, i \in 1..Effects :
          t < m.seq \/ (t = m.seq /\ i < Step(m)) => DoneOrSent(w.gen, t, i, W2, ap, mi)
    BY <1>3, <2>3, <2>4
  <2>6. c2.phase # "none" /\ c.phase # "none" /\ Deliveries(c2) \subseteq Deliveries(c)
    BY <1>5, <1>6
  <2> HIDE DEF W, A, W2
  <2> QED
    BY <1>0, <2>2, <2>5, <2>6 DEF Progress
<1> QED
  BY <1>0, <1>3, <1>8, <1>9, <1>10, <1>11, <1>13, <1>14 DEF OInv

-----------------------------------------------------------------------------
(* Steps of the generation.                                                *)

\* The generation as it was, or with its consumer detached.
SameRecords(w, v) ==
    /\ v.gen = w.gen /\ v.opened = w.opened /\ v.last = w.last
    /\ v.retained = w.retained /\ v.ackedThrough = w.ackedThrough
    /\ \/ v.consumer = w.consumer /\ v.inFlight = w.inFlight
       \/ v.consumer = 0 /\ v.inFlight = {}

LEMMA QuietOnce ==
    ASSUME NEW w, NEW s, NEW b, NEW c, NEW cl, NEW ap, NEW mi, OInv(w, s, b, c, cl, ap, mi),
           NEW v, SameRecords(w, v)
    PROVE  OInv(v, s, b, c, cl, ap, mi)
<1> DEFINE W == Works(b)
           A == Arrivals(b)
<1>0. /\ Numbers(w, s, c, W, A) /\ Life(w, s, b, c) /\ Ordered(s, b, c) /\ Window(w)
      /\ Staged(s, c, W, A) /\ Spanned(w, s, c, W, A) /\ Mode(w.gen, s, c, W, mi)
      /\ Progress(w, s, c, W, A, ap, mi) /\ Tallied(w, cl, ap, mi)
  BY DEF OInv
<1>1. w.consumer \in Nat /\ s.id \in Nat
  BY <1>0 DEF Numbers
<1>2. v.consumer <= s.id /\ (w.consumer # s.id => v.consumer # s.id)
  BY <1>0, <1>1 DEF Life, SameRecords
<1>3. Attached(v, s) => Attached(w, s) /\ Waiting(v) = Waiting(w) /\ v.inFlight = w.inFlight
  BY DEF Attached, SameRecords, Waiting
<1>4. Numbers(v, s, c, W, A)
  BY <1>0, <1>1 DEF Numbers, SameRecords
<1>5. Life(v, s, b, c)
  BY <1>0, <1>2 DEF Life, SameRecords
<1>6. Window(v)
  BY <1>0 DEF Window, SameRecords
<1>7. Spanned(v, s, c, W, A)
  BY <1>0, <1>3 DEF Spanned, SameRecords
<1>8. Mode(v.gen, s, c, W, mi)
  BY <1>0 DEF SameRecords
<1>9. Progress(v, s, c, W, A, ap, mi)
  BY <1>0, <1>3 DEF Progress, SameRecords
<1>10. Tallied(v, cl, ap, mi)
  BY <1>0 DEF Tallied, SameRecords
<1> QED
  BY <1>0, <1>4, <1>5, <1>6, <1>7, <1>8, <1>9, <1>10 DEF OInv

LEMMA GoneOnce ==
    ASSUME NEW w, NEW s, NEW b, NEW c, NEW cl, NEW ap, NEW mi, OInv(w, s, b, c, cl, ap, mi),
           cl \subseteq ClaimRows
    PROVE  OInv(NoGeneration(w.opened), s, b, c, cl, ap, mi)
<1> DEFINE W == Works(b)
           A == Arrivals(b)
<1>0. /\ Numbers(w, s, c, W, A) /\ Life(w, s, b, c) /\ Ordered(s, b, c) /\ Window(w)
      /\ Staged(s, c, W, A) /\ Spanned(w, s, c, W, A) /\ Mode(w.gen, s, c, W, mi)
      /\ Progress(w, s, c, W, A, ap, mi) /\ Tallied(w, cl, ap, mi)
  BY DEF OInv
<1>1. PICK v : v = NoGeneration(w.opened)
  OBVIOUS
<1>2. /\ v.gen = 0 /\ v.opened = w.opened /\ v.last = 0 /\ v.retained = {} /\ v.inFlight = {}
      /\ v.ackedThrough = 0 /\ v.consumer = 0
  BY <1>1 DEF NoGeneration
<1>3. w.consumer \in Nat /\ s.id \in Nat /\ w.opened \in Nat
  BY <1>0 DEF Numbers
<1>4. w.consumer <= s.id /\ (w.consumer # s.id => 0 # s.id)
  BY <1>0, <1>3 DEF Life
<1>5. Numbers(v, s, c, W, A)
  BY <1>0, <1>2 DEF Numbers
<1>6. Life(v, s, b, c)
  BY <1>0, <1>2, <1>3, <1>4 DEF Life
<1>7. Window(v)
  BY <1>2 DEF Window
<1>8. Spanned(v, s, c, W, A)
  <2>1. \A x \in W \cup A \cup Deliveries(c) \cup Queue(s) : x.gen # 0
    BY <1>0 DEF Numbers
  <2> QED
    BY <1>2, <2>1 DEF Spanned
<1>9. Mode(v.gen, s, c, W, mi) /\ Progress(v, s, c, W, A, ap, mi)
  BY <1>2 DEF Mode, Progress
<1>10. Tallied(v, cl, ap, mi)
  <2>1. \A e \in EffectIds : e.gen # 0
    BY DEF EffectIds, Generations
  <2>2. \A r \in cl : r.gen # 0
    BY DEF ClaimRows, Generations
  <2> QED
    BY <1>0, <1>2, <2>1, <2>2 DEF Tallied
<1> QED
  BY <1>0, <1>1, <1>5, <1>6, <1>7, <1>8, <1>9, <1>10 DEF OInv

LEMMA StoredOnce ==
    ASSUME NEW w, NEW s, NEW b, NEW c, NEW cl, NEW ap, NEW mi, OInv(w, s, b, c, cl, ap, mi),
           w.gen # 0,
           NEW v, v.gen = w.gen, v.opened = w.opened, v.last = w.last + 1,
           v.retained \subseteq w.retained \cup {w.last + 1}, v.inFlight = w.inFlight,
           v.ackedThrough = w.ackedThrough, v.consumer = w.consumer
    PROVE  OInv(v, s, b, c, cl, ap, mi)
<1> DEFINE W == Works(b)
           A == Arrivals(b)
<1>0. /\ Numbers(w, s, c, W, A) /\ Life(w, s, b, c) /\ Ordered(s, b, c) /\ Window(w)
      /\ Staged(s, c, W, A) /\ Spanned(w, s, c, W, A) /\ Mode(w.gen, s, c, W, mi)
      /\ Progress(w, s, c, W, A, ap, mi) /\ Tallied(w, cl, ap, mi)
  BY DEF OInv
<1>1. /\ w.last \in Nat /\ w.ackedThrough \in Nat /\ w.retained \subseteq Nat /\ w.inFlight \subseteq Nat
      /\ \A x \in W \cup A \cup Deliveries(c) \cup Queue(s) : x.seq \in Nat
  BY <1>0 DEF Numbers
<1>2. Numbers(v, s, c, W, A)
  <2>1. v.last \in Nat /\ v.retained \subseteq Nat
    BY <1>1
  <2> QED
    BY <1>0, <2>1 DEF Numbers
<1>3. Life(v, s, b, c)
  BY <1>0 DEF Life
<1>4. Window(v)
  BY <1>0, <1>1 DEF Window
<1>5. Attached(v, s) <=> Attached(w, s)
  BY DEF Attached
<1>6. \A x \in W \cup A \cup Deliveries(c) \cup Queue(s) : x.gen = w.gen => x.seq <= w.last
  BY <1>0 DEF Spanned
<1>7. \A t \in Waiting(v) : t \in Waiting(w) \/ t = w.last + 1
  BY DEF Waiting
<1>8. Spanned(v, s, c, W, A)
  <2>1. \A x \in W \cup A \cup Deliveries(c) \cup Queue(s) : x.gen = w.gen =>
            x.seq <= w.last + 1 /\ x.seq < w.last + 1
    BY <1>1, <1>6
  <2> QED
    BY <1>0, <1>5, <1>7, <2>1 DEF Spanned
<1>9. Progress(v, s, c, W, A, ap, mi)
  <2>1. \A m \in W : m.gen = w.gen
    BY <1>0 DEF Life
  <2>2. \A x \in W \cup A \cup Deliveries(c), t \in v.retained :
            x.gen = w.gen /\ t <= x.seq => t \in w.retained
    BY <1>1, <1>6
  <2>3. \A t \in v.retained \cap v.inFlight : t \in w.retained \cap w.inFlight
    <3>1. w.last + 1 \notin w.inFlight
      BY <1>0, <1>1 DEF Window
    <3> QED
      BY <3>1
  <2>4. \A m \in W, t \in v.retained, i \in 1..Effects :
            t < m.seq \/ (t = m.seq /\ i < Step(m)) => t \in w.retained
    <3>1. \A t \in v.retained : t \in Nat
      BY <1>1
    <3>2. \A m \in W, t \in v.retained : t < m.seq \/ t = m.seq => t <= m.seq
      BY <1>1, <3>1
    <3> QED
      BY <2>1, <2>2, <3>2
  <2> HIDE DEF W, A
  <2> QED
    BY <1>0, <1>5, <2>2, <2>3, <2>4 DEF Progress
<1>10. Tallied(v, cl, ap, mi)
  BY <1>0 DEF Tallied
<1> QED
  BY <1>0, <1>2, <1>3, <1>4, <1>8, <1>9, <1>10 DEF OInv

\* From w to v the lowest of the waiting records, B, go in flight.
Dispatches(w, v, B) ==
    /\ B \subseteq Waiting(w) /\ \A t \in B, u \in Waiting(w) \ B : t < u
    /\ v.gen = w.gen /\ v.opened = w.opened /\ v.last = w.last
    /\ v.retained = w.retained /\ v.inFlight = w.inFlight \cup B
    /\ v.ackedThrough = w.ackedThrough /\ v.consumer = w.consumer

\* The lowest of the waiting records are in flight, but nobody was told.
LEMMA UntoldOnce ==
    ASSUME NEW w, NEW s, NEW b, NEW c, NEW cl, NEW ap, NEW mi, OInv(w, s, b, c, cl, ap, mi),
           ~(s.up /\ Attached(w, s)), NEW B, NEW v, Dispatches(w, v, B)
    PROVE  OInv(v, s, b, c, cl, ap, mi)
<1>a. /\ B \subseteq Waiting(w)
      /\ v.gen = w.gen /\ v.opened = w.opened /\ v.last = w.last
      /\ v.retained = w.retained /\ v.inFlight = w.inFlight \cup B
      /\ v.ackedThrough = w.ackedThrough /\ v.consumer = w.consumer
  BY DEF Dispatches
<1> USE <1>a
<1> DEFINE W == Works(b)
           A == Arrivals(b)
<1>0. /\ Numbers(w, s, c, W, A) /\ Life(w, s, b, c) /\ Ordered(s, b, c) /\ Window(w)
      /\ Staged(s, c, W, A) /\ Spanned(w, s, c, W, A) /\ Mode(w.gen, s, c, W, mi)
      /\ Progress(w, s, c, W, A, ap, mi) /\ Tallied(w, cl, ap, mi)
  BY DEF OInv
<1>1. B \subseteq w.retained /\ Waiting(v) \subseteq Waiting(w)
  BY DEF Waiting
<1>2. Attached(v, s) <=> Attached(w, s)
  BY DEF Attached
<1>3. Numbers(v, s, c, W, A)
  <2>1. v.inFlight \subseteq Nat
    BY <1>0, <1>1 DEF Numbers
  <2> QED
    BY <1>0, <2>1 DEF Numbers
<1>4. Life(v, s, b, c)
  BY <1>0 DEF Life
<1>5. Window(v)
  BY <1>0, <1>1 DEF Window
<1>6. Spanned(v, s, c, W, A)
  BY <1>0, <1>1, <1>2 DEF Spanned
<1>7. Progress(v, s, c, W, A, ap, mi)
  BY <1>0, <1>2 DEF Progress, Clear
<1>8. Tallied(v, cl, ap, mi)
  BY <1>0 DEF Tallied
<1> QED
  BY <1>0, <1>3, <1>4, <1>5, <1>6, <1>7, <1>8 DEF OInv

\* Messages that hand over the records B of generation g, and notices.
Announces(ms, g, B) ==
    /\ InboxOrdered(ms)
    /\ \A x \in Items(ms) : x.kind = "data" \/ IsNoise(x)
    /\ \A x \in Items(ms) : x.kind = "data" => x.gen = g /\ x.seq \in B
    /\ \A t \in B : \E x \in Items(ms) : x.kind = "data" /\ x.gen = g /\ x.seq = t

\* They are in flight, and the attached Session has them in its mailbox.
LEMMA DeliveredOnce ==
    ASSUME NEW w, NEW s, NEW b, NEW c, NEW cl, NEW ap, NEW mi, OInv(w, s, b, c, cl, ap, mi),
           s.up, Attached(w, s), NEW B, NEW v, Dispatches(w, v, B),
           NEW S, b \in Seq(S), NEW ms \in Seq(S), Announces(ms, w.gen, B),
           NEW b2, b2 = b \o ms, Numbers(v, s, c, Works(b2), Arrivals(b2))
    PROVE  OInv(v, s, b2, c, cl, ap, mi)
<1>a. /\ B \subseteq Waiting(w) /\ \A t \in B, u \in Waiting(w) \ B : t < u
      /\ v.gen = w.gen /\ v.opened = w.opened /\ v.last = w.last
      /\ v.retained = w.retained /\ v.inFlight = w.inFlight \cup B
      /\ v.ackedThrough = w.ackedThrough /\ v.consumer = w.consumer
  BY DEF Dispatches
<1>b. /\ InboxOrdered(ms) /\ \A x \in Items(ms) : x.kind = "data" \/ IsNoise(x)
      /\ \A x \in Items(ms) : x.kind = "data" => x.gen = w.gen /\ x.seq \in B
      /\ \A t \in B : \E x \in Items(ms) : x.kind = "data" /\ x.gen = w.gen /\ x.seq = t
  BY DEF Announces
<1> USE <1>a, <1>b
<1> DEFINE W == Works(b)
           A == Arrivals(b)
           N == Arrivals(ms)
<1>0. /\ Numbers(w, s, c, W, A) /\ Life(w, s, b, c) /\ Ordered(s, b, c) /\ Window(w)
      /\ Staged(s, c, W, A) /\ Spanned(w, s, c, W, A) /\ Mode(w.gen, s, c, W, mi)
      /\ Progress(w, s, c, W, A, ap, mi) /\ Tallied(w, cl, ap, mi)
  BY DEF OInv
<1>1. Works(ms) = {} /\ Lifes(ms) = {}
  BY DEF Works, Lifes, IsWork, IsNoise, LifeKinds
<1>2. Works(b2) = W /\ Arrivals(b2) = A \cup N /\ Lifes(b2) = Lifes(b)
  <2>1. /\ Works(b2) = Works(b) \cup Works(ms) /\ Arrivals(b2) = Arrivals(b) \cup Arrivals(ms)
        /\ Lifes(b2) = Lifes(b) \cup Lifes(ms)
    BY InboxViews
  <2> QED
    BY <1>1, <2>1
<1>3. /\ \A a \in N : a \in Items(ms) /\ a.kind = "data" /\ a.gen = w.gen /\ a.seq \in B
      /\ \A t \in B : \E a \in N : a.gen = w.gen /\ a.seq = t
  BY DEF Arrivals
<1>4. /\ w.gen # 0 /\ w.consumer = s.id /\ w.gen = w.opened /\ w.gen \in Nat /\ B \subseteq Nat
      /\ \A x \in W \cup A \cup Deliveries(c) \cup Queue(s) :
            x.gen \in Nat /\ x.gen <= w.gen /\ x.seq \in Nat
  <2>1. w.gen # 0 /\ w.consumer = s.id
    BY DEF Attached
  <2>2. w.gen = w.opened
    BY <1>0, <2>1 DEF Life
  <2>3. B \subseteq Nat
    BY <1>0 DEF Numbers, Waiting
  <2> QED
    BY <1>0, <2>1, <2>2, <2>3 DEF Numbers
<1>5. \A x \in W \cup A \cup Deliveries(c) \cup Queue(s), a \in N : Earlier(x, a)
  <2> SUFFICES ASSUME NEW x \in W \cup A \cup Deliveries(c) \cup Queue(s), NEW a \in N
               PROVE  Earlier(x, a)
    OBVIOUS
  <2>1. x.gen = w.gen => x.seq < a.seq
    BY <1>0, <1>3 DEF Spanned
  <2>2. a.gen = w.gen
    BY <1>3
  <2> QED
    BY <1>4, <2>1, <2>2 DEF Earlier
<1>6. Attached(v, s) /\ B \subseteq w.retained /\ Waiting(v) = Waiting(w) \ B
  BY DEF Attached, Waiting
<1>7. Life(v, s, b2, c)
  <2>1. c.phase # "connecting" /\ ~s.timer /\ (\A m \in Lifes(b) : m.kind \notin {"connect", "retry"})
    BY <1>0, <1>4 DEF Life
  <2> HIDE DEF W, A, N
  <2> QED
    BY <1>0, <1>2, <2>1 DEF Life, W
<1>8. Ordered(s, b2, c)
  <2>1. ASSUME NEW x \in Items(b), NEW y \in Items(ms) PROVE InOrder(x, y)
    <3>1. ~IsWork(y) /\ y.kind \notin LifeKinds
      BY DEF IsWork, IsNoise, LifeKinds
    <3>2. x.kind \notin {"connect", "retry"}
      BY <1>0, <1>4 DEF Life, Lifes, LifeKinds
    <3>3. x.kind = "data" /\ y.kind = "data" => Earlier(x, y)
      BY <1>5 DEF Arrivals
    <3> QED
      BY <3>1, <3>2, <3>3 DEF InOrder
  <2>2. InboxOrdered(b2)
    BY <1>0, <2>1, OrderedConcatenation DEF Ordered
  <2> QED
    BY <1>0, <2>2 DEF Ordered
<1>9. Window(v)
  BY <1>0, <1>6 DEF Window
<1>10. Staged(s, c, W, A \cup N)
  BY <1>0, <1>5 DEF Staged
<1>11. Spanned(v, s, c, W, A \cup N)
  <2>1. ASSUME NEW a \in N
        PROVE  /\ a.seq <= v.last /\ a.seq > v.ackedThrough
               /\ \A t \in Waiting(v) : a.seq < t
    <3>1. a.seq \in w.retained /\ a.seq \in Nat /\ w.ackedThrough \in Nat
      BY <1>0, <1>3, <1>4, <1>6 DEF Numbers
    <3>2. w.ackedThrough < a.seq /\ a.seq <= w.last
      BY <1>0, <3>1 DEF Window
    <3> QED
      BY <1>3, <1>6, <3>1, <3>2
  <2> HIDE DEF W, A, N
  <2> QED
    BY <1>0, <1>6, <2>1 DEF Spanned
<1>12. Mode(v.gen, s, c, W, mi)
  BY <1>0
<1>13. Progress(v, s, c, W, A \cup N, ap, mi)
  <2> SUFFICES ASSUME w.gen # 0, Clear(s)
               PROVE  Progress(v, s, c, W, A \cup N, ap, mi)
    BY DEF Progress
  <2>1. \A t, i : InPipe(w.gen, t, i, c, W, A, ap, mi) => InPipe(w.gen, t, i, c, W, A \cup N, ap, mi)
    BY DEF InPipe, Among
  <2>2. \A t \in B, i \in 1..Effects : InPipe(w.gen, t, i, c, W, A \cup N, ap, mi)
    <3> TAKE t \in B, i \in 1..Effects
    <3>1. PICK a \in N : a.gen = w.gen /\ a.seq = t
      BY <1>3
    <3>2. SameRecord(a, Receipt(w.gen, t))
      BY <3>1 DEF SameRecord, Receipt
    <3> QED
      BY <3>2 DEF InPipe, Among
  <2>3. ASSUME c.phase # "none", NEW t \in w.retained \cap v.inFlight, NEW i \in 1..Effects
        PROVE  InPipe(w.gen, t, i, c, W, A \cup N, ap, mi)
    <3>1. CASE t \in B
      BY <3>1, <2>2
    <3>2. CASE t \in w.inFlight
      BY <3>2, <2>1, <2>3, <1>0 DEF Progress
    <3> QED
      BY <2>3, <3>1, <3>2
  <2>4. ASSUME c.phase # "none", NEW a \in N, NEW t \in w.retained, NEW i \in 1..Effects, t <= a.seq
        PROVE  InPipe(w.gen, t, i, c, W, A \cup N, ap, mi)
    <3>1. a.seq \in B /\ a.seq \in Nat /\ t \in Nat
      BY <1>0, <1>3, <1>4 DEF Numbers
    <3>2. t \notin Waiting(w) \ B
      BY <2>4, <3>1
    <3>3. t \in v.inFlight
      BY <3>2 DEF Waiting
    <3> QED
      BY <2>3, <2>4, <3>3
  <2> HIDE DEF W, A, N
  <2> QED
    BY <1>0, <2>1, <2>3, <2>4 DEF Progress
<1>14. Tallied(v, cl, ap, mi)
  BY <1>0 DEF Tallied
<1> QED
  BY <1>0, <1>2, <1>7, <1>8, <1>9, <1>10, <1>11, <1>12, <1>13, <1>14 DEF OInv

\* The watermark moves up to a record that is behind everything queued.
LEMMA AckedOnce ==
    ASSUME NEW w, NEW s, NEW b, NEW c, NEW cl, NEW ap, NEW mi, OInv(w, s, b, c, cl, ap, mi),
           NEW q \in Nat, w.ackedThrough <= q, q <= w.last,
           \A x \in Works(b) \cup Deliveries(c) \cup Arrivals(b) : x.gen = w.gen => x.seq > q,
           NEW v, v.gen = w.gen, v.opened = w.opened, v.last = w.last, v.ackedThrough = q,
           v.retained = {t \in w.retained : t > q}, v.inFlight = {t \in w.inFlight : t > q},
           v.consumer = w.consumer
    PROVE  OInv(v, s, b, c, cl, ap, mi)
<1> DEFINE W == Works(b)
           A == Arrivals(b)
<1>0. /\ Numbers(w, s, c, W, A) /\ Life(w, s, b, c) /\ Ordered(s, b, c) /\ Window(w)
      /\ Staged(s, c, W, A) /\ Spanned(w, s, c, W, A) /\ Mode(w.gen, s, c, W, mi)
      /\ Progress(w, s, c, W, A, ap, mi) /\ Tallied(w, cl, ap, mi)
  BY DEF OInv
<1>1. /\ Waiting(v) \subseteq Waiting(w) /\ v.retained \subseteq w.retained
      /\ v.inFlight \subseteq w.inFlight /\ (Attached(v, s) <=> Attached(w, s))
  BY DEF Waiting, Attached
<1>2. /\ w.ackedThrough \in Nat /\ w.retained \subseteq Nat /\ w.inFlight \subseteq Nat
  BY <1>0 DEF Numbers
<1>3. Numbers(v, s, c, W, A)
  <2>1. v.inFlight \subseteq Nat /\ v.retained \subseteq Nat
    BY <1>1, <1>2
  <2> QED
    BY <1>0, <2>1 DEF Numbers
<1>4. Life(v, s, b, c)
  BY <1>0 DEF Life
<1>5. Window(v)
  BY <1>0, <1>1, <1>2 DEF Window
<1>6. Spanned(v, s, c, W, A)
  BY <1>0, <1>1 DEF Spanned
<1>7. Progress(v, s, c, W, A, ap, mi)
  <2> HIDE DEF W, A
  <2> QED
    BY <1>0, <1>1 DEF Progress
<1>8. Tallied(v, cl, ap, mi)
  <2>1. \A e \in EffectIds : e.seq > q => e.seq > w.ackedThrough
    BY <1>2, Bounds DEF EffectIds, Sequences
  <2> QED
    BY <1>0, <2>1 DEF Tallied
<1> QED
  BY <1>0, <1>3, <1>4, <1>5, <1>6, <1>7, <1>8 DEF OInv

\* Nothing is queued while a client connects.
LEMMA Connecting ==
    ASSUME NEW w, NEW s, NEW b, NEW c, NEW cl, NEW ap, NEW mi, OInv(w, s, b, c, cl, ap, mi),
           c.phase = "connecting"
    PROVE  /\ b = <<>> /\ Works(b) = {} /\ Arrivals(b) = {} /\ Lifes(b) = {}
           /\ c.todo = <<>> /\ Deliveries(c) = {} /\ Queue(s) = {} /\ s.receipts = <<>>
           /\ s.index = 0 /\ ~s.failed /\ ~s.retrying /\ ~c.emitted /\ s.up /\ s.client /\ ~s.timer
           /\ s.id >= 1 /\ s.id \in Nat /\ w.consumer # s.id /\ w.gen \in {0, w.opened}
           /\ w.opened \in Nat
<1>1. /\ Life(w, s, b, c) /\ Numbers(w, s, c, Works(b), Arrivals(b))
  BY DEF OInv
<1>2. /\ b = <<>> /\ w.consumer # s.id
      /\ s = [FreshSession(s.id) EXCEPT !.client = TRUE]
      /\ c = [NoClient EXCEPT !.phase = "connecting"]
      /\ s.up /\ s.id >= 1 /\ w.gen \in {0, w.opened}
  BY <1>1 DEF Life
<1>3. /\ Works(b) = {} /\ Arrivals(b) = {} /\ Lifes(b) = {}
  BY <1>2, NoInboxViews
<1>4. c.todo = <<>> /\ ~c.emitted
  BY <1>2 DEF NoClient
<1>5. s.receipts = <<>> /\ s.index = 0 /\ ~s.failed /\ ~s.retrying /\ s.client /\ ~s.timer
  BY <1>2 DEF FreshSession
<1>6. Items(c.todo) = {} /\ Items(s.receipts) = {}
  BY <1>4, <1>5, EmptyHasNone
<1>7. Deliveries(c) = {} /\ Queue(s) = {}
  BY <1>6 DEF Deliveries, Queue
<1>8. s.id \in Nat /\ w.opened \in Nat
  BY <1>1 DEF Numbers
<1> QED
  BY <1>2, <1>3, <1>4, <1>5, <1>7, <1>8

\* The connecting client's Session is the consumer of the live generation.
LEMMA AttachedOnce ==
    ASSUME NEW w, NEW s, NEW b, NEW c, NEW cl, NEW ap, NEW mi, OInv(w, s, b, c, cl, ap, mi),
           c.phase = "connecting", w.gen # 0,
           NEW c2, c2.phase \in {"replacing", "up"}, c2.gen = w.gen, c2.todo = c.todo, ~c2.emitted,
           NEW v, v.gen = w.gen, v.opened = w.opened, v.last = w.last,
           v.retained = w.retained, v.inFlight = {}, v.ackedThrough = w.ackedThrough,
           v.consumer = s.id
    PROVE  OInv(v, s, b, c2, cl, ap, mi)
<1> DEFINE W == Works(b)
           A == Arrivals(b)
<1>0. /\ Numbers(w, s, c, W, A) /\ Life(w, s, b, c) /\ Ordered(s, b, c) /\ Window(w)
      /\ Tallied(w, cl, ap, mi)
  BY DEF OInv
<1>1. /\ W = {} /\ A = {} /\ Lifes(b) = {} /\ c.todo = <<>> /\ Deliveries(c) = {}
      /\ Queue(s) = {} /\ s.receipts = <<>> /\ s.index = 0 /\ ~s.failed /\ ~s.retrying
      /\ s.up /\ s.client /\ ~s.timer /\ s.id >= 1 /\ s.id \in Nat /\ w.gen = w.opened
  BY Connecting
<1>2. Deliveries(c2) = {} /\ Unemitted(c2) = {}
  BY <1>1 DEF Deliveries, Unemitted
<1> HIDE DEF W, A
<1>3. Numbers(v, s, c2, W, A)
  BY <1>0, <1>1, <1>2 DEF Numbers
<1>4. Life(v, s, b, c2)
  BY <1>0, <1>1, <1>2 DEF Life, W
<1>5. Ordered(s, b, c2) /\ Window(v)
  BY <1>0, <1>1 DEF Ordered, Window
<1>6. Staged(s, c2, W, A) /\ Spanned(v, s, c2, W, A)
  BY <1>1, <1>2 DEF Staged, Spanned
<1>7. Mode(v.gen, s, c2, W, mi)
  <2>1. s.index <= Effects
    BY <1>1, Bounds
  <2> QED
    BY <1>1, <1>2, <2>1 DEF Mode, InStep
<1>8. Progress(v, s, c2, W, A, ap, mi)
  BY <1>1, <1>2 DEF Progress
<1>9. Tallied(v, cl, ap, mi)
  BY <1>0 DEF Tallied
<1> QED
  BY <1>3, <1>4, <1>5, <1>6, <1>7, <1>8, <1>9 DEF OInv, W, A

\* A new generation is opened: what is still queued is of earlier ones.
LEMMA OpenedOnce ==
    ASSUME NEW w, NEW s, NEW b, NEW c, NEW cl, NEW ap, NEW mi, OInv(w, s, b, c, cl, ap, mi),
           c.phase \in {"connecting", "replacing"},
           NEW c2, c2.phase = "up", c2.gen = w.opened + 1, c2.todo = c.todo, c2.emitted = c.emitted,
           cl \subseteq ClaimRows, NEW v, v = Opened(w, s.id)
    PROVE  OInv(v, s, b, c2, cl, ap, mi)
<1> DEFINE W == Works(b)
           A == Arrivals(b)
<1>0. /\ Numbers(w, s, c, W, A) /\ Life(w, s, b, c) /\ Ordered(s, b, c) /\ Window(w)
      /\ Staged(s, c, W, A) /\ Spanned(w, s, c, W, A) /\ Tallied(w, cl, ap, mi)
  BY DEF OInv
<1>1. /\ v.gen = w.opened + 1 /\ v.opened = w.opened + 1 /\ v.last = 0 /\ v.retained = {}
      /\ v.inFlight = {} /\ v.ackedThrough = 0 /\ v.consumer = s.id
  BY DEF Opened, NoGeneration
<1>2. /\ w.opened \in Nat /\ s.id \in Nat /\ v.gen \in Nat /\ v.gen # 0
      /\ \A x \in W \cup A \cup Deliveries(c) \cup Queue(s) :
            x.gen \in Nat /\ x.gen <= w.opened /\ x.gen <= v.opened /\ x.gen # v.gen
  <2>1. w.opened \in Nat /\ s.id \in Nat
    BY <1>0 DEF Numbers
  <2>2. \A x \in W \cup A \cup Deliveries(c) \cup Queue(s) : x.gen \in Nat /\ x.gen <= w.opened
    BY <1>0 DEF Numbers
  <2> HIDE DEF W, A
  <2> QED
    BY <1>1, <2>1, <2>2
<1>3. /\ W = {} /\ s.index = 0 /\ ~s.failed /\ ~s.retrying /\ ~c.emitted
      /\ s.up /\ s.client /\ ~s.timer /\ Lifes(b) = {} /\ s.id >= 1
      /\ (\A d \in Deliveries(c) : Queued(s, d)) /\ c.phase # "none"
  <2>1. CASE c.phase = "connecting"
    BY <2>1, Connecting
  <2>2. CASE c.phase = "replacing"
    BY <1>0, <2>2 DEF Life, Numbers, Queued
  <2> QED
    BY <2>1, <2>2
<1>4. Deliveries(c2) = Deliveries(c) /\ Unemitted(c2) = Deliveries(c) /\ Unemitted(c) = Deliveries(c)
  BY <1>3 DEF Deliveries, Unemitted
<1> HIDE DEF W, A
<1>5. Numbers(v, s, c2, W, A)
  <2>1. v.opened \in Nat /\ c2.gen \in Nat /\ {} \subseteq Nat
    BY <1>1, <1>2
  <2> QED
    BY <1>0, <1>1, <1>2, <1>3, <1>4, <2>1 DEF Numbers
<1>6. Life(v, s, b, c2)
  BY <1>1, <1>2, <1>3 DEF Life, W
<1>7. Ordered(s, b, c2) /\ Window(v)
  BY <1>0, <1>1 DEF Ordered, Window
<1>8. Staged(s, c2, W, A)
  BY <1>0, <1>3, <1>4 DEF Staged
<1>9. Spanned(v, s, c2, W, A)
  BY <1>2, <1>4 DEF Spanned
<1>10. Mode(v.gen, s, c2, W, mi)
  <2>1. CASE Queue(s) = {}
    <3>1. Deliveries(c2) = {} /\ s.index <= Effects
      BY <2>1, <1>3, <1>4, Bounds DEF Queued
    <3>2. Unemitted(c2) = {}
      BY <3>1, <1>4
    <3>3. InStep(v.gen, s, c2, W)
      BY <1>3, <2>1, <3>1, <3>2 DEF InStep
    <3> QED
      BY <3>3 DEF Mode
  <2>2. CASE Queue(s) # {}
    <3>1. s.receipts # <<>> /\ First(s) \in Queue(s)
      BY <1>0, <2>2 DEF Numbers
    <3>2. Stale(v.gen, s, c2, W, mi)
      BY <1>2, <1>3, <1>4, <3>1 DEF Stale
    <3> QED
      BY <3>2 DEF Mode
  <2> QED
    BY <2>1, <2>2
<1>11. Progress(v, s, c2, W, A, ap, mi)
  BY <1>1, <1>3 DEF Progress
<1>12. Tallied(v, cl, ap, mi)
  <2>1. \A e \in EffectIds : e.gen >= v.gen => e.gen > w.opened
    BY <1>1, <1>2, Bounds DEF EffectIds, Generations
  <2>2. \A e \in EffectIds : e.gen >= v.gen => ap[e] = 0
    BY <1>0, <2>1 DEF Tallied
  <2>3. \A r \in cl : r.gen <= v.opened /\ r.gen # v.gen
    BY <1>0, <1>1, <1>2, Bounds DEF Tallied, ClaimRows, Generations
  <2>4. \A e \in EffectIds : e.gen = v.gen \/ e.gen > v.opened => e.gen >= v.gen
    BY <1>1, <1>2, Bounds DEF EffectIds, Generations
  <2> QED
    BY <2>2, <2>3, <2>4 DEF Tallied
<1> QED
  BY <1>5, <1>6, <1>7, <1>8, <1>9, <1>10, <1>11, <1>12 DEF OInv, W, A

-----------------------------------------------------------------------------
(* The Session handles the first message of its mailbox.                   *)

SameButQueue(s, u) ==
    /\ u.up = s.up /\ u.id = s.id /\ u.client = s.client
    /\ u.failed = s.failed /\ u.retrying = s.retrying /\ u.timer = s.timer

\* The receipt at the front is done with.
ReceiptPopped(s, u) ==
    /\ s.receipts # <<>> /\ u.receipts = Tail(s.receipts) /\ u.index = 0
    /\ SameButQueue(s, u)

\* While the Session keeps step, the first work is of the first receipt, and
\* every earlier event of that record has been counted.
LEMMA FirstWorkInStep ==
    ASSUME NEW w, NEW s, NEW c, NEW W, NEW A, Numbers(w, s, c, W, A), InStep(w.gen, s, c, W),
           QueueOrdered(s.receipts), NEW T, s.receipts \in Seq(T),
           NEW m \in W, \A n \in W : n = m \/ Before(m, n)
    PROVE  AtFirst(s, m) /\ Step(m) > s.index /\ s.index = Step(m) - 1
<1>1. PICK r \in Queue(s) : SameRecord(r, m)
  BY DEF InStep, Queued
<1>2. s.receipts # <<>> /\ First(s) \in Queue(s)
  BY <1>1 DEF Numbers
<1>3. /\ m.gen \in Nat /\ m.seq \in Nat /\ Step(m) \in Nat /\ Step(m) >= 1 /\ Step(m) <= Effects + 1
      /\ Effects \in Nat /\ Effects >= 1
  BY WorkNumbers
<1>4. \A n \in W : n.gen \in Nat /\ n.seq \in Nat /\ Step(n) \in Nat
  BY WorkNumbers
<1>5. /\ First(s).gen \in Nat /\ First(s).seq \in Nat /\ s.index \in Nat /\ s.index <= Effects
      /\ r.gen \in Nat /\ r.seq \in Nat
  BY <1>2 DEF Numbers, InStep
<1>6. SameRecord(First(s), m)
  <2>1. r = First(s) \/ Earlier(First(s), r)
    <3>1. \A x \in Items(Tail(s.receipts)) : Earlier(Head(s.receipts), x)
      BY <1>2, OrderedTail
    <3>2. Queue(s) = {Head(s.receipts)} \cup Items(Tail(s.receipts))
      BY <1>2, HeadAndTail DEF Queue
    <3> QED
      BY <3>1, <3>2 DEF First
  <2>2. CASE Earlier(First(s), m)
    <3>1. Effects + 1 \in 1..(Effects + 1) /\ ~(Effects + 1 <= s.index)
      BY <1>3, <1>5
    <3>2. Sent(W, First(s), Effects + 1)
      BY <1>2, <2>2, <3>1 DEF InStep, Handled
    <3>3. PICK n \in W : SameRecord(n, First(s)) /\ Step(n) = Effects + 1
      BY <3>2 DEF Sent
    <3>4. Earlier(n, m) /\ n # m
      BY <1>3, <1>4, <2>2, <3>3 DEF Earlier, SameRecord
    <3>5. Before(m, n)
      BY <3>4
    <3> QED
      BY <1>3, <1>4, <3>4, <3>5 DEF Before, Earlier, SameRecord
  <2> QED
    BY <1>1, <2>1, <2>2 DEF Earlier, SameRecord
<1>7. AtFirst(s, m)
  BY <1>2, <1>6 DEF AtFirst
<1>8. Step(m) > s.index
  BY <1>7 DEF InStep
<1>9. Step(m) - 1 <= s.index
  <2>1. CASE Step(m) = 1
    BY <1>5, <2>1
  <2>2. CASE Step(m) # 1
    <3>1. Step(m) - 1 \in 1..(Effects + 1) /\ Step(m) - 1 < Step(m) /\ Step(m) - 1 \in Nat
      BY <1>3, <2>2
    <3>2. Handled(s, First(s), Step(m) - 1) \/ Sent(W, First(s), Step(m) - 1)
      BY <1>2, <1>6, <3>1 DEF InStep
    <3>3. ~Sent(W, First(s), Step(m) - 1)
      <4> SUFFICES ASSUME NEW n \in W, SameRecord(n, First(s)), Step(n) = Step(m) - 1 PROVE FALSE
        BY DEF Sent
      <4>1. n # m
        BY <1>3
      <4>2. Before(m, n) /\ SameRecord(n, m)
        BY <1>6, <4>1 DEF SameRecord
      <4> QED
        BY <1>3, <1>4, <4>2 DEF Before, Earlier, SameRecord
    <3> QED
      BY <3>2, <3>3 DEF Handled
  <2> QED
    BY <2>1, <2>2
<1> QED
  BY <1>3, <1>5, <1>7, <1>8, <1>9

\* Fewer works and arrivals.
LEMMA FewerStaged ==
    ASSUME NEW w, NEW s, NEW c, NEW W, NEW A, Staged(s, c, W, A), Spanned(w, s, c, W, A),
           NEW s2, Queue(s2) \subseteq Queue(s), s2.id = s.id,
           NEW W2, W2 \subseteq W, NEW A2, A2 \subseteq A
    PROVE  Staged(s2, c, W2, A2) /\ Spanned(w, s2, c, W2, A2)
<1>1. Staged(s2, c, W2, A2)
  BY DEF Staged
<1>2. Attached(w, s2) <=> Attached(w, s)
  BY DEF Attached
<1>3. Spanned(w, s2, c, W2, A2)
  BY <1>2 DEF Spanned
<1> QED
  BY <1>1, <1>3

\* The acceptance of a record leaves the mailbox, and its receipt the queue.
LEMMA AcceptedOnce ==
    ASSUME NEW w, NEW s, NEW b, NEW c, NEW cl, NEW ap, NEW mi, OInv(w, s, b, c, cl, ap, mi),
           Clear(s), NEW S, b \in Seq(S), b # <<>>, NEW m, m = Head(b), m.kind = "accepted",
           NEW b2, b2 = Tail(b), NEW T, s.receipts \in Seq(T),
           NEW s2, s2 = s \/ (ReceiptPopped(s, s2) /\ First(s).seq = m.seq),
           Numbers(w, s2, c, Works(b2), Arrivals(b2))
    PROVE  OInv(w, s2, b2, c, cl, ap, mi)
<1> DEFINE W == Works(b)
           A == Arrivals(b)
           W2 == Works(b2)
<1>0. /\ Numbers(w, s, c, W, A) /\ Life(w, s, b, c) /\ Ordered(s, b, c) /\ Window(w)
      /\ Staged(s, c, W, A) /\ Spanned(w, s, c, W, A) /\ Mode(w.gen, s, c, W, mi)
      /\ Progress(w, s, c, W, A, ap, mi) /\ Tallied(w, cl, ap, mi)
  BY DEF OInv
<1>1. /\ W2 = W \ {m} /\ m \in W /\ (\A n \in W2 : Before(m, n)) /\ Arrivals(b2) = A
      /\ Lifes(b2) = Lifes(b) /\ b2 \in Seq(S) /\ InboxOrdered(b2)
  <2>1. IsWork(m) /\ InboxOrdered(b)
    BY <1>0 DEF IsWork, Ordered
  <2> QED
    BY <1>0, <2>1, PoppedInbox
<1>2. /\ Step(m) = Effects + 1 /\ m.gen \in Nat /\ m.seq \in Nat /\ Effects \in Nat /\ Effects >= 1
      /\ \A n \in W : n.gen \in Nat /\ n.seq \in Nat /\ Step(n) \in Nat /\ Step(n) <= Effects + 1
  <2>1. Step(m) = Effects + 1
    BY DEF Step
  <2>2. \A n \in W : n.gen \in Nat /\ n.seq \in Nat /\ Step(n) \in Nat /\ Step(n) <= Effects + 1
                     /\ Effects \in Nat /\ Effects >= 1
    BY <1>0, WorkNumbers
  <2> QED
    BY <1>1, <2>1, <2>2
<1>3. \A n \in W2 : Earlier(m, n)
  <2> TAKE n \in W2
  <2>1. Before(m, n) /\ n \in W
    BY <1>1
  <2> QED
    BY <1>2, <2>1 DEF Before
<1>4. \A d \in Deliveries(c) : Earlier(m, d)
  <2> TAKE d \in Deliveries(c)
  <2>1. d \in Unemitted(c) => Earlier(m, d)
    BY <1>0, <1>1 DEF Staged
  <2>2. c.emitted => Earlier(m, Head(c.todo))
    BY <1>0, <1>1 DEF Staged
  <2> QED
    BY <2>1, <2>2 DEF Unemitted
<1>5. /\ SameButQueue(s, s2)
      /\ s2 # s => /\ s.receipts # <<>> /\ First(s) = Head(s.receipts)
                   /\ Queue(s) = {First(s)} \cup Queue(s2) /\ QueueOrdered(s2.receipts)
                   /\ (\A r \in Queue(s2) : Earlier(First(s), r)) /\ s2.index = 0
                   /\ First(s).seq = m.seq
  <2>1. CASE s2 = s
    BY <2>1 DEF SameButQueue
  <2>2. CASE s2 # s
    <3>1. /\ Items(s.receipts) = {Head(s.receipts)} \cup Items(Tail(s.receipts))
          /\ QueueOrdered(Tail(s.receipts))
          /\ \A x \in Items(Tail(s.receipts)) : Earlier(Head(s.receipts), x)
      BY <1>0, <2>2, HeadAndTail, OrderedTail DEF ReceiptPopped, Ordered
    <3> QED
      BY <2>2, <3>1 DEF ReceiptPopped, Queue, First
  <2> QED
    BY <2>1, <2>2
<1>6. Queue(s2) \subseteq Queue(s) /\ QueueOrdered(s2.receipts)
  BY <1>0, <1>5 DEF Ordered
<1>7. Life(w, s2, b2, c)
  <2>1. c.phase # "connecting" /\ c.phase # "replacing"
    BY <1>0, <1>1 DEF Life, OInv, Works, Items
  <2> HIDE DEF W, W2
  <2>2. W2 \subseteq W /\ s.up
    BY <1>1 DEF Clear
  <2> QED
    BY <1>0, <1>1, <1>5, <2>1, <2>2 DEF Life, SameButQueue, W, W2
<1>8. Ordered(s2, b2, c)
  BY <1>0, <1>1, <1>6 DEF Ordered
<1>9. Staged(s2, c, W2, A) /\ Spanned(w, s2, c, W2, A)
  <2>1. s2.id = s.id /\ W2 \subseteq W
    BY <1>1, <1>5 DEF SameButQueue
  <2> QED
    BY <1>0, <1>6, <2>1, FewerStaged
<1>10. \A x, k : Sent(W, x, k) /\ (~SameRecord(m, x) \/ k # Effects + 1) => Sent(W2, x, k)
  BY <1>1, <1>2 DEF Sent
<1>11. Mode(w.gen, s2, c, W2, mi)
  <2> SUFFICES ASSUME w.gen # 0
               PROVE  \/ InStep(w.gen, s2, c, W2) \/ Lagging(w.gen, s2, c, W2, mi)
                      \/ Stale(w.gen, s2, c, W2, mi)
    BY DEF Mode
  <2>0. m.gen = w.gen /\ w.gen \in Nat
    BY <1>0, <1>1 DEF Life, Numbers
  <2>1. ASSUME InStep(w.gen, s, c, W)
        PROVE  \/ InStep(w.gen, s2, c, W2) \/ Lagging(w.gen, s2, c, W2, mi)
    <3>1. AtFirst(s, m) /\ s.index = Effects
      <4>1. \A n \in W : n = m \/ Before(m, n)
        BY <1>1
      <4>2. AtFirst(s, m) /\ s.index = Step(m) - 1
        BY <1>0, <1>1, <2>1, <4>1, FirstWorkInStep DEF Ordered
      <4> QED
        BY <1>2, <4>2
    <3>2. /\ s.receipts # <<>> /\ First(s) \in Queue(s) /\ SameRecord(First(s), m)
          /\ First(s).gen \in Nat /\ First(s).seq \in Nat
      BY <1>0, <3>1 DEF AtFirst, Numbers
    <3>3. CASE s2 = s
      <4>1. \A x \in W2 \cup Deliveries(c) : x.gen = w.gen => First(s).seq < x.seq
        BY <1>2, <1>3, <1>4, <2>0, <3>2 DEF Earlier, SameRecord
      <4>2. First(s).gen = w.gen
        BY <2>0, <3>2 DEF SameRecord
      <4> QED
        BY <3>1, <3>2, <3>3, <4>1, <4>2, <1>2 DEF Lagging
    <3>4. CASE s2 # s
      <4>1. ASSUME NEW x \in W2 \cup Deliveries(c) PROVE Queued(s2, x)
        <5>1. Queued(s, x) /\ Earlier(m, x)
          BY <2>1, <1>1, <1>3, <1>4, <4>1 DEF InStep
        <5>2. ~SameRecord(First(s), x)
          <6>1. x.gen \in Nat /\ x.seq \in Nat
            BY <1>0, <1>1, <4>1 DEF Numbers
          <6> QED
            BY <1>2, <3>2, <5>1, <6>1 DEF Earlier, SameRecord
        <5> QED
          BY <1>5, <3>4, <5>1, <5>2 DEF Queued
      <4>2. ASSUME NEW r \in Queue(s2) PROVE ~SameRecord(m, r) /\ ~AtFirst(s, r)
        <5>1. Earlier(First(s), r) /\ r.gen \in Nat /\ r.seq \in Nat
          BY <1>0, <1>5, <1>6, <3>4, <4>2 DEF Numbers
        <5> QED
          BY <1>2, <3>2, <5>1 DEF Earlier, SameRecord, AtFirst
      <4>3. ASSUME NEW n \in W2, NEW r \in Queue(s2), NEW k \in 1..(Effects + 1),
                   Earlier(r, n) \/ (SameRecord(r, n) /\ k < Step(n))
            PROVE  Handled(s2, r, k) \/ Sent(W2, r, k)
        <5>1. Handled(s, r, k) \/ Sent(W, r, k)
          BY <2>1, <4>3, <1>1, <1>6 DEF InStep
        <5> QED
          BY <4>2, <5>1, <1>10 DEF Handled
      <4>4. ASSUME c.emitted, NEW k \in 1..Effects
            PROVE  Handled(s2, Head(c.todo), k) \/ Sent(W2, Head(c.todo), k)
        <5>1. Handled(s, Head(c.todo), k) \/ Sent(W, Head(c.todo), k)
          BY <2>1, <4>4 DEF InStep
        <5>2. Head(c.todo) \in Deliveries(c)
          BY <1>0, <4>4 DEF Numbers
        <5>3. Earlier(m, Head(c.todo)) /\ Head(c.todo).gen \in Nat /\ Head(c.todo).seq \in Nat
          BY <1>0, <1>4, <5>2 DEF Numbers
        <5>4. ~AtFirst(s, Head(c.todo)) /\ ~SameRecord(m, Head(c.todo))
          BY <1>2, <3>2, <5>3 DEF AtFirst, SameRecord, Earlier
        <5> QED
          BY <5>1, <5>4, <1>10 DEF Handled
      <4>5. ASSUME c.phase # "none", NEW r \in Queue(s2)
            PROVE  Sent(W2, r, Effects + 1) \/ Among(Deliveries(c), r)
        BY <4>2, <4>5, <2>1, <1>6, <1>10 DEF InStep
      <4>6. \A r \in Queue(s2) : r.gen = w.gen
        BY <2>1, <1>6 DEF InStep
      <4>7. s2.index = 0 /\ s2.index <= Effects
        BY <1>2, <1>5, <3>4
      <4>8. \A n \in W2 : Step(n) >= 1 /\ Step(n) \in Nat
        BY <1>0, <1>1 DEF Numbers
      <4>9. \A n \in W2 : Step(n) > s2.index
        BY <4>7, <4>8
      <4>10. InStep(w.gen, s2, c, W2)
        <5> HIDE DEF W, W2
        <5> QED
          BY <4>1, <4>3, <4>4, <4>5, <4>6, <4>7, <4>9 DEF InStep
      <4> QED
        BY <4>10
    <3> QED
      BY <3>3, <3>4
  <2>2. ASSUME Lagging(w.gen, s, c, W, mi) PROVE Lagging(w.gen, s2, c, W2, mi)
    <3>1. First(s).seq < m.seq /\ First(s) \in Queue(s) /\ First(s).seq \in Nat
      BY <1>0, <1>1, <2>0, <2>2 DEF Lagging, Numbers
    <3>2. s2 = s
      BY <1>2, <1>5, <3>1
    <3> QED
      BY <1>1, <2>2, <3>2 DEF Lagging
  <2>3. ASSUME Stale(w.gen, s, c, W, mi)
        PROVE  Stale(w.gen, s2, c, W2, mi) \/ Lagging(w.gen, s2, c, W2, mi)
    <3>1. \A r \in Queue(s) : r.gen = w.gen => Rec(r) \in mi \/ Sent(W2, r, 1)
                 \/ Among(Unemitted(c), r) \/ (c.phase = "none" /\ \A n \in W : Earlier(n, r))
      <4>1. 1 # Effects + 1
        BY <1>2
      <4> QED
        BY <2>3, <4>1, <1>10 DEF Stale
    <3>2. CASE s2 = s
      BY <1>1, <2>3, <3>1, <3>2 DEF Stale
    <3>3. CASE s2 # s
      <4>0. First(s).gen # w.gen /\ Queue(s) = {First(s)} \cup Queue(s2)
        BY <1>5, <2>3, <3>3 DEF Stale
      <4>1. \A x \in W \cup Deliveries(c) : x.gen = w.gen => Queued(s2, x)
        BY <2>3, <4>0 DEF Stale, Queued, SameRecord
      <4>2. PICK r \in Queue(s2) : SameRecord(r, m)
        BY <1>1, <2>0, <4>1 DEF Queued
      <4>3. s2.receipts # <<>> /\ First(s2) \in Queue(s2)
        BY <4>2 DEF Numbers
      <4>4. CASE First(s2).gen # w.gen
        <5>1. \A x \in W2 \cup Deliveries(c) : x.gen = w.gen => Queued(s2, x)
          BY <1>1, <4>1
        <5>2. \A r2 \in Queue(s2) : r2.gen = w.gen => Rec(r2) \in mi \/ Sent(W2, r2, 1)
                 \/ Among(Unemitted(c), r2) \/ (c.phase = "none" /\ \A n \in W2 : Earlier(n, r2))
          BY <1>1, <1>6, <3>1
        <5> QED
          BY <4>3, <4>4, <5>1, <5>2 DEF Stale
      <4>5. CASE First(s2).gen = w.gen
        <5> DEFINE f == First(s2)
        <5>1. f \in Queue(s) /\ f.gen \in Nat /\ f.seq \in Nat /\ r.gen \in Nat /\ r.seq \in Nat
          BY <1>0, <1>6, <4>3 DEF Numbers
        <5>2. r = f \/ Earlier(f, r)
          <6>0. s.receipts # <<>> /\ s2.receipts = Tail(s.receipts)
            BY <3>3 DEF ReceiptPopped
          <6>1. s2.receipts \in Seq(T)
            BY <6>0, HeadAndTail
          <6>2. \A x \in Items(Tail(s2.receipts)) : Earlier(Head(s2.receipts), x)
            BY <1>6, <4>3, <6>1, OrderedTail
          <6>3. Queue(s2) = {Head(s2.receipts)} \cup Items(Tail(s2.receipts))
            BY <4>3, <6>1, HeadAndTail DEF Queue
          <6> QED
            BY <6>2, <6>3 DEF First
        <5>3. f.seq <= m.seq
          BY <1>2, <2>0, <4>2, <4>5, <5>1, <5>2 DEF Earlier, SameRecord
        <5>4. ~Earlier(m, f)
          BY <1>2, <2>0, <4>5, <5>1, <5>3 DEF Earlier
        <5>5. ~Sent(W2, f, 1) /\ ~Among(Unemitted(c), f)
          <6>1. \A x \in W2 \cup Unemitted(c) : Earlier(m, x)
            BY <1>3, <1>4 DEF Unemitted
          <6>2. \A x : SameRecord(x, f) /\ Earlier(m, x) => Earlier(m, f)
            BY DEF SameRecord, Earlier
          <6> QED
            BY <5>4, <6>1, <6>2 DEF Sent, Among
        <5>6. Rec(f) \in mi
          BY <1>1, <3>1, <4>5, <5>1, <5>4, <5>5
        <5>7. \A x \in W2 \cup Deliveries(c) : x.gen = w.gen => f.seq < x.seq
          <6> TAKE x \in W2 \cup Deliveries(c)
          <6>1. Earlier(m, x) /\ x.gen \in Nat /\ x.seq \in Nat
            BY <1>0, <1>1, <1>3, <1>4 DEF Numbers
          <6> QED
            BY <1>2, <2>0, <5>1, <5>3, <6>1 DEF Earlier
        <5> QED
          BY <4>3, <4>5, <5>6, <5>7 DEF Lagging
      <4> QED
        BY <4>4, <4>5
    <3> QED
      BY <3>2, <3>3
  <2> QED
    BY <1>0, <2>1, <2>2, <2>3 DEF Mode
<1>12. Progress(w, s2, c, W2, A, ap, mi)
  <2> SUFFICES ASSUME w.gen # 0
               PROVE  Progress(w, s2, c, W2, A, ap, mi)
    BY DEF Progress
  <2>1. \A t, i : i \in 1..Effects /\ DoneOrSent(w.gen, t, i, W, ap, mi)
                    => DoneOrSent(w.gen, t, i, W2, ap, mi)
    <3>1. \A i \in 1..Effects : i # Effects + 1
      BY <1>2
    <3> QED
      BY <1>10, <3>1 DEF DoneOrSent
  <2>2. \A t, i : i \in 1..Effects /\ InPipe(w.gen, t, i, c, W, A, ap, mi)
                    => InPipe(w.gen, t, i, c, W2, A, ap, mi)
    BY <2>1 DEF InPipe
  <2>3. Attached(w, s2) <=> Attached(w, s)
    BY <1>5 DEF Attached, SameButQueue
  <2>4. W2 \subseteq W
    BY <1>1
  <2> HIDE DEF W, W2, A
  <2> QED
    BY <1>0, <2>1, <2>2, <2>3, <2>4 DEF Progress
<1> QED
  BY <1>0, <1>1, <1>7, <1>8, <1>9, <1>11, <1>12 DEF OInv

\* A work or an arrival is dropped: the Session is blocked, or it has no
\* client, or no generation is live.
LEMMA DroppedOnce ==
    ASSUME NEW w, NEW s, NEW b, NEW c, NEW cl, NEW ap, NEW mi, OInv(w, s, b, c, cl, ap, mi),
           NEW S, b \in Seq(S), b # <<>>, NEW m, m = Head(b),
           IsWork(m) \/ m.kind = "data", NEW b2, b2 = Tail(b),
           NEW s2, s2.receipts = s.receipts, s2.id = s.id, s2.up = s.up, s2.client = s.client,
           s2.timer = s.timer, s2 = s \/ IsWork(m),
           w.gen # 0 /\ Clear(s2) => m.kind = "data" /\ s2 = s /\ c.phase = "none",
           Numbers(w, s2, c, Works(b2), Arrivals(b2))
    PROVE  OInv(w, s2, b2, c, cl, ap, mi)
<1> DEFINE W == Works(b)
           A == Arrivals(b)
           W2 == Works(b2)
           A2 == Arrivals(b2)
<1>0. /\ Numbers(w, s, c, W, A) /\ Life(w, s, b, c) /\ Ordered(s, b, c) /\ Window(w)
      /\ Staged(s, c, W, A) /\ Spanned(w, s, c, W, A) /\ Mode(w.gen, s, c, W, mi)
      /\ Progress(w, s, c, W, A, ap, mi) /\ Tallied(w, cl, ap, mi)
  BY DEF OInv
<1>1. /\ W2 \subseteq W /\ A2 \subseteq A /\ Lifes(b2) = Lifes(b) /\ InboxOrdered(b2)
      /\ (IsWork(m) => m \in W) /\ (m.kind = "data" => W2 = W)
  <2>1. InboxOrdered(b)
    BY <1>0 DEF Ordered
  <2>2. InboxOrdered(b2)
    BY <1>0, <2>1, PoppedInbox
  <2>3. CASE IsWork(m)
    <3>1. W2 = W \ {m} /\ m \in W /\ A2 = A /\ Lifes(b2) = Lifes(b)
      BY <1>0, <2>1, <2>3, PoppedInbox
    <3>2. m.kind # "data"
      BY <2>3 DEF IsWork
    <3> QED
      BY <2>2, <3>1, <3>2
  <2>4. CASE m.kind = "data"
    <3>1. W2 = W /\ A2 = A \ {m} /\ Lifes(b2) = Lifes(b)
      BY <1>0, <2>1, <2>4, PoppedInbox
    <3>2. ~IsWork(m)
      BY <2>4 DEF IsWork
    <3> QED
      BY <2>2, <3>1, <3>2
  <2> QED
    BY <2>3, <2>4
<1>2. Queue(s2) = Queue(s)
  BY DEF Queue
<1>3. Life(w, s2, b2, c)
  <2>1. c.phase # "connecting" /\ (c.phase = "replacing" => s2 = s) /\ s.up
    BY <1>0, <1>1 DEF Life, W
  <2> HIDE DEF W, W2, A, A2
  <2> QED
    BY <1>0, <1>1, <1>2, <2>1 DEF Life, W, W2
<1>4. Ordered(s2, b2, c)
  BY <1>0, <1>1 DEF Ordered
<1>5. Staged(s2, c, W2, A2) /\ Spanned(w, s2, c, W2, A2)
  BY <1>0, <1>1, <1>2, FewerStaged
<1>6. Mode(w.gen, s2, c, W2, mi)
  BY <1>0, <1>1 DEF Mode
<1>7. Progress(w, s2, c, W2, A2, ap, mi)
  BY <1>0, <1>1 DEF Progress
<1> QED
  BY <1>0, <1>3, <1>4, <1>5, <1>6, <1>7 DEF OInv

\* A notice leaves the mailbox.
LEMMA NoticeOnce ==
    ASSUME NEW w, NEW s, NEW b, NEW c, NEW cl, NEW ap, NEW mi, OInv(w, s, b, c, cl, ap, mi),
           NEW S, b \in Seq(S), b # <<>>, IsNoise(Head(b)), NEW b2, b2 = Tail(b)
    PROVE  OInv(w, s, b2, c, cl, ap, mi)
<1>0. /\ Numbers(w, s, c, Works(b), Arrivals(b)) /\ Life(w, s, b, c) /\ Ordered(s, b, c)
  BY DEF OInv
<1>1. /\ Works(b2) = Works(b) /\ Arrivals(b2) = Arrivals(b) /\ Lifes(b2) = Lifes(b)
      /\ InboxOrdered(b2)
  <2>1. InboxOrdered(b)
    BY <1>0 DEF Ordered
  <2> QED
    BY <1>0, <2>1, PoppedInbox
<1>2. Life(w, s, b2, c)
  <2>1. c.phase # "connecting" /\ s.up
    BY <1>0 DEF Life
  <2> QED
    BY <1>0, <1>1, <2>1 DEF Life
<1>3. Ordered(s, b2, c)
  BY <1>0, <1>1 DEF Ordered
<1> QED
  BY <1>1, <1>2, <1>3 DEF OInv

\* The client is told that its transport is closed.
LEMMA ToldOnce ==
    ASSUME NEW w, NEW s, NEW b, NEW c, NEW cl, NEW ap, NEW mi, OInv(w, s, b, c, cl, ap, mi),
           NEW T, c.todo \in Seq(T), NEW n \in T, n.kind = "closed", c.phase # "connecting",
           c.phase # "none", NEW c2, c2.phase = c.phase, c2.gen = c.gen,
           c2.emitted = c.emitted, c2.todo = Append(c.todo, n)
    PROVE  OInv(w, s, b, c2, cl, ap, mi)
<1> DEFINE W == Works(b)
           A == Arrivals(b)
<1>0. /\ Numbers(w, s, c, W, A) /\ Life(w, s, b, c) /\ Ordered(s, b, c) /\ Window(w)
      /\ Staged(s, c, W, A) /\ Spanned(w, s, c, W, A) /\ Mode(w.gen, s, c, W, mi)
      /\ Progress(w, s, c, W, A, ap, mi) /\ Tallied(w, cl, ap, mi)
  BY DEF OInv
<1>1. n \in T /\ c.todo \in Seq(T) /\ TodoOrdered(c.todo)
  BY <1>0 DEF Ordered
<1>2. Items(c2.todo) = Items(c.todo) \cup {n}
  BY <1>1, AppendViews
<1>3. TodoOrdered(c2.todo)
  BY <1>1, AppendViews
<1>4. Deliveries(c2) = Deliveries(c)
  BY <1>1, <1>2 DEF Deliveries
<1>5. c.emitted => Head(c2.todo) = Head(c.todo)
  <2> SUFFICES ASSUME c.emitted PROVE Head(c2.todo) = Head(c.todo)
    OBVIOUS
  <2>1. c.todo # <<>>
    <3>1. Deliveries(c) # {}
      BY <1>0 DEF Numbers
    <3> QED
      BY <3>1, EmptyHasNone DEF Deliveries
  <2>2. Head(Append(c.todo, n)) = Head(c.todo)
    BY <2>1
  <2> QED
    BY <2>2
<1>6. Unemitted(c2) = Unemitted(c)
  BY <1>4, <1>5 DEF Unemitted
<1>7. Numbers(w, s, c2, W, A)
  BY <1>0, <1>4, <1>5 DEF Numbers
<1>8. Life(w, s, b, c2)
  BY <1>0, <1>4 DEF Life
<1>9. Ordered(s, b, c2)
  BY <1>0, <1>3 DEF Ordered
<1>10. Staged(s, c2, W, A) /\ Spanned(w, s, c2, W, A)
  BY <1>0, <1>4, <1>5, <1>6 DEF Staged, Spanned
<1>11. Mode(w.gen, s, c2, W, mi)
  BY <1>0, <1>4, <1>5, <1>6 DEF Mode, InStep, Lagging, Stale
<1>12. Progress(w, s, c2, W, A, ap, mi)
  BY <1>0, <1>4, <1>6 DEF Progress, InPipe
<1> QED
  BY <1>0, <1>7, <1>8, <1>9, <1>10, <1>11, <1>12 DEF OInv

\* What an event is filed under, and what is left of it: its row, a commit
\* unless the row was there, a note when it was filed elsewhere.
FiledUnder(s) == IF s.receipts = <<>> THEN {} ELSE {First(s)}
RowsOf(s) == {[gen |-> r.gen, seq |-> r.seq, index |-> s.index] : r \in FiledUnder(s)}

EventHandled(s, m, cl, ap, mi, s2, cl2, ap2, mi2) ==
    /\ IF RowsOf(s) # {} /\ RowsOf(s) \subseteq cl
       THEN cl2 = cl /\ ap2 = ap
       ELSE /\ cl2 = cl \cup RowsOf(s)
            /\ ap2 = [ap EXCEPT ![EffectOf(m.gen, m.seq, m.effect)] = @ + 1]
    /\ mi2 = IF FiledUnder(s) = {Rec(m)} THEN mi ELSE mi \cup {Rec(m)}
    /\ s2.receipts = s.receipts /\ SameButQueue(s, s2)
    /\ s2.index = IF FiledUnder(s) = {} THEN s.index ELSE s.index + 1

Rows(cl, ap, mi) ==
    cl \subseteq ClaimRows /\ ap \in [EffectIds -> Nat] /\ mi \subseteq Receipts

\* In step, the event is filed under its own receipt and its own index; else
\* it is noted as filed elsewhere.
LEMMA EventFiled ==
    ASSUME NEW w, NEW s, NEW c, NEW W, NEW A, NEW mi, Numbers(w, s, c, W, A), QueueOrdered(s.receipts),
           InStep(w.gen, s, c, W) \/ Lagging(w.gen, s, c, W, mi) \/ Stale(w.gen, s, c, W, mi),
           NEW T, s.receipts \in Seq(T), Queue(s) \subseteq Receipts,
           NEW m \in W, \A n \in W : n = m \/ Before(m, n), m.kind = "event", m.gen = w.gen
    PROVE  /\ s.receipts # <<>>
           /\ \/ /\ InStep(w.gen, s, c, W) /\ AtFirst(s, m) /\ s.index = m.effect - 1
                 /\ First(s) = Rec(m)
              \/ /\ Lagging(w.gen, s, c, W, mi) \/ Stale(w.gen, s, c, W, mi)
                 /\ First(s) # Rec(m)
<1>1. Step(m) = m.effect /\ m.gen \in Nat /\ m.seq \in Nat
  BY WorkNumbers DEF Step
<1>2. ASSUME InStep(w.gen, s, c, W)
      PROVE  s.receipts # <<>> /\ AtFirst(s, m) /\ s.index = m.effect - 1 /\ First(s) = Rec(m)
  <2>1. AtFirst(s, m) /\ s.index = m.effect - 1
    BY <1>1, <1>2, FirstWorkInStep
  <2>2. s.receipts # <<>> /\ First(s).gen = m.gen /\ First(s).seq = m.seq
    BY <2>1 DEF AtFirst, SameRecord
  <2>3. First(s) \in Receipts
    BY <2>2 DEF Numbers
  <2> QED
    BY <2>1, <2>2, <2>3 DEF Receipts, Rec, Receipt
<1>3. ASSUME Lagging(w.gen, s, c, W, mi) \/ Stale(w.gen, s, c, W, mi)
      PROVE  s.receipts # <<>> /\ First(s) # Rec(m)
  <2>1. s.receipts # <<>>
    BY <1>3 DEF Lagging, Stale
  <2>2. First(s).gen # m.gen \/ First(s).seq < m.seq
    BY <1>3 DEF Lagging, Stale
  <2>3. Rec(m).gen = m.gen /\ Rec(m).seq = m.seq
    BY DEF Rec, Receipt
  <2> QED
    BY <1>1, <2>1, <2>2, <2>3
<1> QED
  BY <1>2, <1>3

LEMMA EventTallied ==
    ASSUME NEW w, NEW s, NEW b, NEW c, NEW cl, NEW ap, NEW mi, OInv(w, s, b, c, cl, ap, mi),
           Rows(cl, ap, mi), Queue(s) \subseteq Receipts,
           NEW m \in Works(b), EffectOf(m.gen, m.seq, m.effect) \in EffectIds,
           NEW s2, NEW cl2, NEW ap2, NEW mi2, EventHandled(s, m, cl, ap, mi, s2, cl2, ap2, mi2),
           w.gen # 0 =>
              /\ s.receipts # <<>>
              /\ \/ s.index = m.effect - 1 /\ First(s) = Rec(m)
                 \/ /\ First(s) # Rec(m)
                    /\ \/ s.index >= Effects \/ Rec(First(s)) \in mi
                       \/ First(s).gen # w.gen
    PROVE  /\ Tallied(w, cl2, ap2, mi2)
           /\ cl \subseteq cl2 /\ mi \subseteq mi2 /\ \A x \in EffectIds : ap2[x] >= ap[x]
           /\ w.gen # 0 => \/ ap2[EffectOf(m.gen, m.seq, m.effect)] >= 1
                           \/ Rec(m) \in mi2
<1> DEFINE e == EffectOf(m.gen, m.seq, m.effect)
           row == [gen |-> m.gen, seq |-> m.seq, index |-> s.index]
<1>0. /\ Numbers(w, s, c, Works(b), Arrivals(b)) /\ Life(w, s, b, c) /\ Tallied(w, cl, ap, mi)
      /\ Spanned(w, s, c, Works(b), Arrivals(b))
  BY DEF OInv
<1>1. /\ e.gen = m.gen /\ e.seq = m.seq /\ e.effect = m.effect /\ Record(e) = Rec(m)
      /\ m.effect \in 1..Effects /\ m.effect \in Nat /\ m.gen \in Nat /\ m.gen >= 1
      /\ m.seq \in Nat /\ m.gen <= w.opened /\ w.opened \in Nat /\ s.index \in Nat
      /\ w.ackedThrough \in Nat /\ Effects \in Nat
  <2>1. e.gen = m.gen /\ e.seq = m.seq /\ e.effect = m.effect /\ Record(e) = Rec(m)
    BY DEF EffectOf, Record, Rec, Receipt
  <2>2. e.effect \in 1..Effects /\ e.effect \in Nat
    BY Bounds DEF EffectIds
  <2>3. m.gen \in Nat /\ m.gen >= 1 /\ m.gen <= w.opened /\ m.seq \in Nat
    BY <1>0, WorkNumbers
  <2> QED
    BY <1>0, <2>1, <2>2, <2>3 DEF Numbers
<1>2. /\ ap \in [EffectIds -> Nat] /\ ap2 \in [EffectIds -> Nat]
      /\ \A x \in EffectIds : x # e => ap2[x] = ap[x]
      /\ ap2[e] = ap[e] \/ ap2[e] = ap[e] + 1
      /\ ~(RowsOf(s) # {} /\ RowsOf(s) \subseteq cl) => ap2[e] = ap[e] + 1
      /\ RowsOf(s) # {} /\ RowsOf(s) \subseteq cl => ap2[e] = ap[e]
  <2>1. ap \in [EffectIds -> Nat] /\ e \in EffectIds
    BY DEF Rows
  <2>2. CASE RowsOf(s) # {} /\ RowsOf(s) \subseteq cl
    BY <2>1, <2>2 DEF EventHandled
  <2>3. CASE ~(RowsOf(s) # {} /\ RowsOf(s) \subseteq cl)
    <3>1. ap2 = [ap EXCEPT ![e] = @ + 1]
      BY <2>3 DEF EventHandled
    <3> HIDE DEF e
    <3> QED
      BY <2>1, <2>3, <3>1
  <2> QED
    BY <2>2, <2>3
<1>3. e \in EffectIds /\ ap[e] \in Nat
  BY <1>2
<1>4. /\ cl \subseteq cl2 /\ RowsOf(s) \subseteq cl2 /\ cl2 \subseteq cl \cup RowsOf(s)
  BY DEF EventHandled
<1>5. mi \subseteq mi2
  BY DEF EventHandled
<1>6. \A x \in EffectIds : ap2[x] >= ap[x] /\ ap[x] \in Nat /\ ap2[x] \in Nat
  BY <1>2
<1>7. ASSUME w.gen # 0, Rec(m) \notin mi2
      PROVE  /\ RowsOf(s) = {row} /\ s.index = m.effect - 1 /\ mi2 = mi /\ m.gen = w.gen
             /\ m.seq > w.ackedThrough
  <2>1. FiledUnder(s) = {Rec(m)} /\ mi2 = mi
    BY <1>7 DEF EventHandled
  <2>2. First(s) = Rec(m)
    BY <1>7, <2>1 DEF FiledUnder
  <2>3. s.index = m.effect - 1
    BY <1>7, <2>2
  <2>4. m.gen = w.gen
    BY <1>0, <1>7 DEF Life
  <2>5. m.seq > w.ackedThrough
    BY <1>0, <2>4 DEF Spanned
  <2>6. RowsOf(s) = {row}
    BY <2>1 DEF RowsOf, Rec, Receipt
  <2> QED
    BY <2>1, <2>3, <2>4, <2>5, <2>6
<1>8. ASSUME w.gen # 0, Rec(m) \notin mi2, row \in cl PROVE ap[e] >= 1
  <2>1. row \in cl /\ row.gen = w.gen /\ row.index < Effects /\ Rec(row) = Rec(m) /\ Rec(m) \notin mi
    BY <1>1, <1>5, <1>7, <1>8 DEF Rec
  <2>2. ap[EffectOf(row.gen, row.seq, row.index + 1)] >= 1
    BY <1>0, <2>1 DEF Tallied
  <2>3. row.index + 1 = m.effect
    BY <1>1, <1>7, <1>8
  <2> QED
    BY <2>2, <2>3
<1>9. ASSUME w.gen # 0, Rec(m) \notin mi2, row \notin cl PROVE ap[e] = 0
  <2>1. e.gen = w.gen /\ Record(e) \notin mi /\ e.seq > w.ackedThrough
    BY <1>1, <1>5, <1>7, <1>9
  <2>2. [gen |-> e.gen, seq |-> e.seq, index |-> e.effect - 1] = row
    BY <1>1, <1>7, <1>9
  <2>3. ~(ap[e] >= 1)
    BY <1>0, <1>3, <1>9, <2>1, <2>2 DEF Tallied
  <2> QED
    BY <1>3, <2>3
<1>10. ASSUME w.gen # 0, Rec(m) \notin mi2 PROVE ap2[e] >= 1 /\ (ap[e] <= 1 => ap2[e] <= 1)
  <2>1. CASE row \in cl
    BY <1>2, <1>3, <1>7, <1>8, <1>10, <2>1
  <2>2. CASE row \notin cl
    BY <1>2, <1>3, <1>7, <1>9, <1>10, <2>2
  <2> QED
    BY <2>1, <2>2
<1> HIDE DEF e, row
<1>11. \A x \in EffectIds : x.gen > w.opened => ap2[x] = 0
  <2>1. \A x \in EffectIds : x.gen > w.opened => x # e
    BY <1>1
  <2> QED
    BY <1>0, <1>2, <2>1 DEF Tallied
<1>12. \A r \in cl2 : r.gen <= w.opened
  <2>1. \A r \in RowsOf(s) : r.gen <= w.opened
    BY <1>0 DEF RowsOf, FiledUnder, Numbers
  <2> QED
    BY <1>0, <1>4, <2>1 DEF Tallied
<1>13. ASSUME NEW x \in EffectIds, x.gen = w.gen, Record(x) \notin mi2 PROVE ap2[x] <= 1
  <2>1. x.gen # 0 /\ ap[x] <= 1
    BY <1>0, <1>5, <1>13 DEF Tallied, EffectIds, Generations
  <2> QED
    BY <1>1, <1>2, <1>10, <1>13, <2>1
<1>14. ASSUME NEW r \in cl2, r.gen = w.gen, r.index < Effects, Rec(r) \notin mi2
       PROVE  ap2[EffectOf(r.gen, r.seq, r.index + 1)] >= 1
  <2>1. CASE r \in cl
    <3>1. ap[EffectOf(r.gen, r.seq, r.index + 1)] >= 1
      BY <1>0, <1>5, <1>14, <2>1 DEF Tallied
    <3>2. EffectOf(r.gen, r.seq, r.index + 1) \in EffectIds
      <4>1. r \in ClaimRows
        BY <2>1 DEF Rows
      <4>2. r.index + 1 \in 1..Effects
        BY <1>1, <1>14, <4>1 DEF ClaimRows
      <4> QED
        BY <4>1, <4>2 DEF ClaimRows, EffectIds, EffectOf
    <3> QED
      BY <1>6, <3>1, <3>2
  <2>2. CASE r \in RowsOf(s)
    <3>1. /\ s.receipts # <<>> /\ r.gen = First(s).gen /\ r.seq = First(s).seq /\ r.index = s.index
          /\ Rec(r) = Rec(First(s))
      BY <2>2 DEF RowsOf, FiledUnder, Rec
    <3>2. w.gen # 0
      <4>1. First(s) \in Receipts
        BY <1>0, <3>1 DEF Numbers
      <4> QED
        BY <1>14, <3>1, <4>1 DEF Receipts, Generations
    <3>3. s.index = m.effect - 1 /\ First(s) = Rec(m)
      BY <1>1, <1>5, <1>14, <3>1, <3>2
    <3>4. EffectOf(r.gen, r.seq, r.index + 1) = e
      <4>1. r.gen = m.gen /\ r.seq = m.seq
        BY <3>1, <3>3 DEF Rec, Receipt
      <4>2. r.index + 1 = m.effect
        BY <1>1, <3>1, <3>3
      <4> QED
        BY <4>1, <4>2 DEF e
    <3>5. Rec(m) \notin mi2
      BY <1>14, <3>1, <3>3 DEF Rec, Receipt
    <3> QED
      BY <1>10, <3>2, <3>4, <3>5
  <2> QED
    BY <1>4, <2>1, <2>2
<1>15. ASSUME NEW x \in EffectIds, x.gen = w.gen, Record(x) \notin mi2, ap2[x] >= 1,
              x.seq > w.ackedThrough
       PROVE  [gen |-> x.gen, seq |-> x.seq, index |-> x.effect - 1] \in cl2
  <2>1. CASE x # e
    BY <1>0, <1>2, <1>4, <1>5, <1>15, <2>1 DEF Tallied
  <2>2. CASE x = e
    <3>1. w.gen # 0 /\ Rec(m) \notin mi2
      BY <1>1, <1>15, <2>2
    <3>2. row \in cl2
      BY <1>4, <1>7, <3>1
    <3>3. [gen |-> x.gen, seq |-> x.seq, index |-> x.effect - 1] = row
      BY <1>1, <1>7, <2>2, <3>1 DEF row
    <3> QED
      BY <3>2, <3>3
  <2> QED
    BY <2>1, <2>2
<1>16. Tallied(w, cl2, ap2, mi2)
  BY <1>11, <1>12, <1>13, <1>14, <1>15 DEF Tallied
<1>17. w.gen # 0 => ap2[e] >= 1 \/ Rec(m) \in mi2
  BY <1>10
<1> QED
  BY <1>4, <1>5, <1>6, <1>16, <1>17 DEF e

\* The Session handles an event and counts it.
LEMMA EventOnce ==
    ASSUME NEW w, NEW s, NEW b, NEW c, NEW cl, NEW ap, NEW mi, OInv(w, s, b, c, cl, ap, mi),
           Rows(cl, ap, mi), Queue(s) \subseteq Receipts, Clear(s),
           w.gen # 0 => w.gen \in Generations, w.retained \subseteq Sequences,
           NEW S, b \in Seq(S), b # <<>>, NEW m, m = Head(b), m.kind = "event",
           EffectOf(m.gen, m.seq, m.effect) \in EffectIds,
           NEW b2, b2 = Tail(b), NEW T, s.receipts \in Seq(T),
           NEW s2, NEW cl2, NEW ap2, NEW mi2, EventHandled(s, m, cl, ap, mi, s2, cl2, ap2, mi2),
           Numbers(w, s2, c, Works(b2), Arrivals(b2))
    PROVE  /\ OInv(w, s2, b2, c, cl2, ap2, mi2)
           /\ mi \subseteq mi2 /\ \A x \in EffectIds : ap2[x] >= ap[x]
<1> DEFINE W == Works(b)
           A == Arrivals(b)
           W2 == Works(b2)
<1>0. /\ Numbers(w, s, c, W, A) /\ Life(w, s, b, c) /\ Ordered(s, b, c) /\ Window(w)
      /\ Staged(s, c, W, A) /\ Spanned(w, s, c, W, A) /\ Mode(w.gen, s, c, W, mi)
      /\ Progress(w, s, c, W, A, ap, mi)
  BY DEF OInv
<1>1. /\ W2 = W \ {m} /\ m \in W /\ (\A n \in W2 : Before(m, n)) /\ Arrivals(b2) = A
      /\ Lifes(b2) = Lifes(b) /\ InboxOrdered(b2)
  <2>1. IsWork(m) /\ InboxOrdered(b)
    BY <1>0 DEF IsWork, Ordered
  <2> QED
    BY <1>0, <2>1, PoppedInbox
<1>2. /\ Step(m) = m.effect /\ m.effect \in Nat /\ m.effect >= 1 /\ m.effect <= Effects
      /\ m.gen \in Nat /\ m.seq \in Nat /\ Effects \in Nat /\ s.index \in Nat
      /\ \A n \in W : n.gen \in Nat /\ n.seq \in Nat /\ Step(n) \in Nat
  <2>1. Step(m) = m.effect
    BY DEF Step
  <2>2. \A n \in W : n.gen \in Nat /\ n.seq \in Nat /\ Step(n) \in Nat /\ Step(n) >= 1
                     /\ (n.kind = "event" => Step(n) <= Effects) /\ Effects \in Nat
    BY <1>0, WorkNumbers
  <2>3. s.index \in Nat
    BY <1>0 DEF Numbers
  <2> QED
    BY <1>1, <2>1, <2>2, <2>3
<1>3. ASSUME w.gen # 0
      PROVE  /\ m.gen = w.gen /\ s.receipts # <<>>
             /\ \/ /\ InStep(w.gen, s, c, W) /\ AtFirst(s, m) /\ s.index = m.effect - 1
                   /\ First(s) = Rec(m)
                \/ /\ Lagging(w.gen, s, c, W, mi) \/ Stale(w.gen, s, c, W, mi)
                   /\ First(s) # Rec(m)
  <2>1. InStep(w.gen, s, c, W) \/ Lagging(w.gen, s, c, W, mi) \/ Stale(w.gen, s, c, W, mi)
    BY <1>0, <1>3 DEF Mode
  <2>2. m.gen = w.gen
    BY <1>0, <1>1, <1>3 DEF Life
  <2>3. \A n \in W : n = m \/ Before(m, n)
    BY <1>1
  <2>4. QueueOrdered(s.receipts)
    BY <1>0 DEF Ordered
  <2>5. m \in W /\ Numbers(w, s, c, W, A) /\ s.receipts \in Seq(T) /\ Queue(s) \subseteq Receipts
    BY <1>0, <1>1
  <2>6. m.kind = "event"
    OBVIOUS
  <2> HIDE DEF W, W2, A
  <2> QED
    BY ONLY <2>1, <2>2, <2>3, <2>4, <2>5, <2>6, EventFiled
<1>4. /\ Tallied(w, cl2, ap2, mi2)
      /\ mi \subseteq mi2 /\ (\A x \in EffectIds : ap2[x] >= ap[x])
      /\ w.gen # 0 => \/ ap2[EffectOf(m.gen, m.seq, m.effect)] >= 1
                      \/ Rec(m) \in mi2
  <2>1. w.gen # 0 => /\ s.receipts # <<>>
                     /\ \/ s.index = m.effect - 1 /\ First(s) = Rec(m)
                        \/ /\ First(s) # Rec(m)
                           /\ \/ s.index >= Effects \/ Rec(First(s)) \in mi
                              \/ First(s).gen # w.gen
    BY <1>3 DEF Lagging, Stale
  <2>2. m \in Works(b)
    BY <1>1
  <2> QED
    BY <2>1, <2>2, EventTallied
<1>5. /\ s2.receipts = s.receipts /\ SameButQueue(s, s2) /\ Queue(s2) = Queue(s)
      /\ First(s2) = First(s) /\ (s.receipts # <<>> => s2.index = s.index + 1)
  BY DEF EventHandled, Queue, First, FiledUnder
<1>6. Life(w, s2, b2, c)
  <2>1. c.phase # "connecting" /\ c.phase # "replacing" /\ s.up
    BY <1>0, <1>1 DEF Life
  <2> HIDE DEF W, W2
  <2>2. W2 \subseteq W
    BY <1>1
  <2> QED
    BY <1>0, <1>1, <1>5, <2>1, <2>2 DEF Life, SameButQueue, W, W2
<1>7. Ordered(s2, b2, c)
  BY <1>0, <1>1, <1>5 DEF Ordered
<1>8. Staged(s2, c, W2, A) /\ Spanned(w, s2, c, W2, A)
  <2>1. s2.id = s.id /\ W2 \subseteq W /\ Queue(s2) \subseteq Queue(s)
    BY <1>1, <1>5 DEF SameButQueue
  <2> QED
    BY <1>0, <2>1, FewerStaged
<1>9. \A x, k : Sent(W, x, k) => Sent(W2, x, k) \/ (SameRecord(m, x) /\ k = m.effect)
  BY <1>1, <1>2 DEF Sent
<1>10. Mode(w.gen, s2, c, W2, mi2)
  <2> SUFFICES ASSUME w.gen # 0
               PROVE  \/ InStep(w.gen, s2, c, W2) \/ Lagging(w.gen, s2, c, W2, mi2)
                      \/ Stale(w.gen, s2, c, W2, mi2)
    BY DEF Mode
  <2>0. s.receipts # <<>> /\ s2.index = s.index + 1 /\ m.gen = w.gen
    BY <1>3, <1>5
  <2>1. ASSUME InStep(w.gen, s, c, W), AtFirst(s, m), s.index = m.effect - 1
        PROVE  InStep(w.gen, s2, c, W2)
    <3>1. s2.index = m.effect /\ SameRecord(First(s), m)
      BY <1>2, <2>0, <2>1 DEF AtFirst
    <3>2. \A x : AtFirst(s2, x) <=> AtFirst(s, x)
      BY <1>5 DEF AtFirst
    <3>3. \A x, k : k \in Nat /\ (Handled(s, x, k) \/ Sent(W, x, k)) => Handled(s2, x, k) \/ Sent(W2, x, k)
      <4> SUFFICES ASSUME NEW x, NEW k \in Nat, Handled(s, x, k) \/ Sent(W, x, k)
                   PROVE  Handled(s2, x, k) \/ Sent(W2, x, k)
        OBVIOUS
      <4>1. CASE Handled(s, x, k)
        BY <1>2, <2>0, <3>2, <4>1 DEF Handled
      <4>2. CASE Sent(W, x, k) /\ ~Sent(W2, x, k)
        <5>1. SameRecord(m, x) /\ k = m.effect
          BY <1>9, <4>2
        <5>2. AtFirst(s, x)
          BY <2>0, <3>1, <5>1 DEF AtFirst, SameRecord
        <5> QED
          BY <3>1, <3>2, <5>1, <5>2 DEF Handled
      <4> QED
        BY <4>1, <4>2
    <3>4. \A n \in W2, r \in Queue(s2), k \in 1..(Effects + 1) :
             Earlier(r, n) \/ (SameRecord(r, n) /\ k < Step(n)) => Handled(s2, r, k) \/ Sent(W2, r, k)
      <4> SUFFICES ASSUME NEW n \in W2, NEW r \in Queue(s2), NEW k \in 1..(Effects + 1),
                          Earlier(r, n) \/ (SameRecord(r, n) /\ k < Step(n))
                   PROVE  Handled(s2, r, k) \/ Sent(W2, r, k)
        OBVIOUS
      <4>1. Handled(s, r, k) \/ Sent(W, r, k)
        BY <1>1, <1>5, <2>1 DEF InStep
      <4>2. k \in Nat
        BY <1>2
      <4> QED
        BY <3>3, <4>1, <4>2
    <3>5. \A n \in W2 : AtFirst(s2, n) => Step(n) > s2.index
      <4> SUFFICES ASSUME NEW n \in W2, AtFirst(s2, n) PROVE Step(n) > s2.index
        OBVIOUS
      <4>1. Before(m, n) /\ SameRecord(n, m) /\ n \in W
        BY <1>1, <3>1, <3>2 DEF AtFirst, SameRecord
      <4> QED
        BY <1>2, <3>1, <4>1 DEF Before, Earlier, SameRecord
    <3>6. \A d \in Unemitted(c) : AtFirst(s2, d) => s2.index = 0
      <4> SUFFICES ASSUME NEW d \in Unemitted(c), AtFirst(s2, d) PROVE FALSE
        OBVIOUS
      <4>1. Earlier(m, d) /\ SameRecord(m, d)
        BY <1>0, <1>1, <3>1, <3>2 DEF Staged, AtFirst, SameRecord
      <4> QED
        BY <1>2, <4>1 DEF Earlier, SameRecord
    <3>7. c.emitted => \A k \in 1..Effects :
              Handled(s2, Head(c.todo), k) \/ Sent(W2, Head(c.todo), k)
      <4>1. \A k \in 1..Effects : k \in Nat
        OBVIOUS
      <4> QED
        BY <2>1, <3>3, <4>1 DEF InStep
    <3>8. c.phase # "none" => \A r \in Queue(s2) : Sent(W2, r, Effects + 1) \/ Among(Deliveries(c), r)
      <4>1. Effects + 1 # m.effect
        BY <1>2
      <4> QED
        BY <1>5, <1>9, <2>1, <4>1 DEF InStep
    <3>9. /\ \A r \in Queue(s2) : r.gen = w.gen
          /\ \A x \in W2 \cup Deliveries(c) : Queued(s2, x)
          /\ s2.index <= Effects /\ Queue(s2) # {}
      <4>1. Queue(s2) # {}
        BY <1>0, <1>5, <2>0 DEF Numbers
      <4> QED
        BY <1>1, <1>2, <1>5, <2>1, <3>1, <4>1 DEF InStep, Queued
    <3> HIDE DEF W, W2
    <3> QED
      BY <3>4, <3>5, <3>6, <3>7, <3>8, <3>9 DEF InStep
  <2>2. ASSUME Lagging(w.gen, s, c, W, mi) PROVE Lagging(w.gen, s2, c, W2, mi2)
    <3>1. s.index >= Effects => s2.index >= Effects
      BY <1>2, <2>0
    <3> QED
      BY <1>1, <1>4, <1>5, <2>2, <3>1 DEF Lagging
  <2>3. ASSUME Stale(w.gen, s, c, W, mi), First(s) # Rec(m) PROVE Stale(w.gen, s2, c, W2, mi2)
    <3>1. Rec(m) \in mi2
      <4>1. FiledUnder(s) # {Rec(m)}
        BY <2>0, <2>3 DEF FiledUnder
      <4> QED
        BY <4>1 DEF EventHandled
    <3>2. ASSUME NEW r \in Queue(s2), r.gen = w.gen
          PROVE  \/ Rec(r) \in mi2 \/ Sent(W2, r, 1) \/ Among(Unemitted(c), r)
                 \/ c.phase = "none" /\ \A n \in W2 : Earlier(n, r)
      <4>1. \/ Rec(r) \in mi \/ Sent(W, r, 1) \/ Among(Unemitted(c), r)
            \/ c.phase = "none" /\ \A n \in W : Earlier(n, r)
        BY <1>5, <2>3, <3>2 DEF Stale
      <4>2. CASE Sent(W, r, 1) /\ ~Sent(W2, r, 1)
        <5>1. SameRecord(m, r)
          BY <1>9, <4>2
        <5>2. Rec(r) = Rec(m)
          BY <5>1 DEF SameRecord, Rec
        <5> QED
          BY <3>1, <5>2
      <4> QED
        BY <1>1, <1>4, <4>1, <4>2
    <3>3. \A x \in W2 \cup Deliveries(c) : x.gen = w.gen => Queued(s2, x)
      BY <1>1, <1>5, <2>3 DEF Stale, Queued
    <3> QED
      BY <1>5, <2>0, <2>3, <3>2, <3>3 DEF Stale
  <2> QED
    BY <1>3, <2>1, <2>2, <2>3
<1>11. Progress(w, s2, c, W2, A, ap2, mi2)
  <2> SUFFICES ASSUME w.gen # 0
               PROVE  Progress(w, s2, c, W2, A, ap2, mi2)
    BY DEF Progress
  <2>0. \A t \in w.retained : t \in Nat
    BY <1>0 DEF Numbers
  <2>1. ASSUME NEW t \in w.retained, NEW i \in 1..Effects, DoneOrSent(w.gen, t, i, W, ap, mi)
        PROVE  DoneOrSent(w.gen, t, i, W2, ap2, mi2)
    <3>1. CASE Done(w.gen, t, i, ap, mi)
      <4>1. CASE ap[EffectOf(w.gen, t, i)] >= 1 /\ EffectOf(w.gen, t, i) \in EffectIds
        <5>1. ap2[EffectOf(w.gen, t, i)] >= ap[EffectOf(w.gen, t, i)]
          BY <1>4, <4>1
        <5>2. /\ ap2[EffectOf(w.gen, t, i)] \in Nat /\ ap[EffectOf(w.gen, t, i)] \in Nat
          <6>1. ap \in [EffectIds -> Nat] /\ ap2 \in [EffectIds -> Nat]
            <7>1. ap \in [EffectIds -> Nat]
              BY DEF Rows
            <7>2. ap[EffectOf(m.gen, m.seq, m.effect)] + 1 \in Nat
              BY <7>1
            <7> QED
              BY <7>1, <7>2 DEF EventHandled
          <6> QED
            BY <4>1, <6>1
        <5> QED
          BY <4>1, <5>1, <5>2 DEF DoneOrSent, Done
      <4>2. CASE Receipt(w.gen, t) \in mi
        BY <1>4, <4>2 DEF DoneOrSent, Done
      <4>3. EffectOf(w.gen, t, i) \in EffectIds
        <5>1. w.gen \in Generations /\ t \in Sequences
          OBVIOUS
        <5> QED
          BY <5>1 DEF EffectOf, EffectIds
      <4> QED
        BY <3>1, <4>1, <4>2, <4>3 DEF Done
    <3>2. CASE Sent(W, Receipt(w.gen, t), i) /\ ~Sent(W2, Receipt(w.gen, t), i)
      <4>1. SameRecord(m, Receipt(w.gen, t)) /\ i = m.effect
        BY <1>9, <3>2
      <4>2. EffectOf(w.gen, t, i) = EffectOf(m.gen, m.seq, m.effect) /\ Rec(m) = Receipt(w.gen, t)
        BY <4>1 DEF SameRecord, Receipt, EffectOf, Rec
      <4> QED
        BY <1>4, <4>2 DEF DoneOrSent, Done
    <3> QED
      BY <2>1, <3>1, <3>2 DEF DoneOrSent
  <2>2. ASSUME NEW t \in w.retained, NEW i \in 1..Effects, InPipe(w.gen, t, i, c, W, A, ap, mi)
        PROVE  InPipe(w.gen, t, i, c, W2, A, ap2, mi2)
    BY <2>1, <2>2 DEF InPipe
  <2>3. (Attached(w, s2) <=> Attached(w, s)) /\ (Clear(s2) => Clear(s)) /\ W2 \subseteq W
    BY <1>1, <1>5 DEF Attached, Clear, SameButQueue
  <2> HIDE DEF W, W2, A
  <2> QED
    BY <1>0, <2>1, <2>2, <2>3 DEF Progress
<1> QED
  BY <1>0, <1>1, <1>4, <1>6, <1>7, <1>8, <1>10, <1>11 DEF OInv

\* The Session queues the receipt of an arrival and hands it to the client,
\* unless the client is gone.
LEMMA ArrivalOnce ==
    ASSUME NEW w, NEW s, NEW b, NEW c, NEW cl, NEW ap, NEW mi, OInv(w, s, b, c, cl, ap, mi),
           NEW S, b \in Seq(S), b # <<>>, NEW m, m = Head(b), m.kind = "data",
           NEW b2, b2 = Tail(b), NEW T, s.receipts \in Seq(T), NEW r \in T, SameRecord(r, m),
           NEW s2, s2.receipts = Append(s.receipts, r), s2.index = s.index, SameButQueue(s, s2),
           NEW U, c.todo \in Seq(U), NEW d \in U, d.kind = "data", SameRecord(d, m),
           NEW c2, c2.phase = c.phase, c2.gen = c.gen, c2.emitted = c.emitted,
           c2.todo = IF c.phase = "none" THEN c.todo ELSE Append(c.todo, d),
           Numbers(w, s2, c2, Works(b2), Arrivals(b2))
    PROVE  OInv(w, s2, b2, c2, cl, ap, mi)
<1> DEFINE W == Works(b)
           A == Arrivals(b)
           A2 == Arrivals(b2)
<1>0. /\ Numbers(w, s, c, W, A) /\ Life(w, s, b, c) /\ Ordered(s, b, c) /\ Window(w)
      /\ Staged(s, c, W, A) /\ Spanned(w, s, c, W, A) /\ Mode(w.gen, s, c, W, mi)
      /\ Progress(w, s, c, W, A, ap, mi) /\ Tallied(w, cl, ap, mi)
  BY DEF OInv
<1>1. /\ Works(b2) = W /\ m \in A /\ A2 = A \ {m} /\ (\A a \in A2 : Earlier(m, a))
      /\ Lifes(b2) = Lifes(b) /\ InboxOrdered(b2)
  <2>1. /\ InboxOrdered(b) /\ b \in Seq(S) /\ b # <<>> /\ m = Head(b) /\ b2 = Tail(b)
        /\ m.kind = "data" /\ Numbers(w, s, c, Works(b), Arrivals(b))
    BY <1>0 DEF Ordered
  <2>2. /\ Works(b2) = Works(b) /\ m \in Arrivals(b) /\ Arrivals(b2) = Arrivals(b) \ {m}
        /\ (\A a \in Arrivals(b2) : Earlier(m, a))
        /\ Lifes(b2) = Lifes(b) /\ InboxOrdered(b2)
    BY <2>1, PoppedArrival
  <2> QED
    BY <2>2
<1>2. \A x \in W \cup Deliveries(c) \cup Queue(s) : Earlier(x, m) /\ Earlier(x, r) /\ Earlier(x, d)
  BY <1>0, <1>1 DEF Staged, Earlier, SameRecord
<1>3. /\ m.gen \in Nat /\ m.seq \in Nat
      /\ \A x \in W \cup Deliveries(c) \cup Queue(s) : x.gen \in Nat /\ x.seq \in Nat
  <2>1. \A x \in W \cup A \cup Deliveries(c) \cup Queue(s) : x.gen \in Nat /\ x.seq \in Nat
    BY <1>0 DEF Numbers
  <2> QED
    BY <1>1, <2>1
<1>4. /\ Queue(s2) = Queue(s) \cup {r} /\ QueueOrdered(s2.receipts)
  <2>1. Items(s2.receipts) = Items(s.receipts) \cup {r}
    BY AppendViews
  <2>2. QueueOrdered(s.receipts) /\ \A y \in Items(s.receipts) : Earlier(y, r)
    BY <1>0, <1>2 DEF Ordered, Queue
  <2>3. QueueOrdered(s2.receipts)
    BY <2>2, AppendViews
  <2> QED
    BY <2>1, <2>3 DEF Queue
<1>5. /\ Deliveries(c2) = IF c.phase = "none" THEN Deliveries(c) ELSE Deliveries(c) \cup {d}
      /\ TodoOrdered(c2.todo)
  <2>1. CASE c.phase = "none"
    BY <1>0, <2>1 DEF Deliveries, Ordered
  <2>2. CASE c.phase # "none"
    <3>1. c2.todo = Append(c.todo, d)
      BY <2>2
    <3>2. Items(c2.todo) = Items(c.todo) \cup {d}
      BY <3>1, AppendViews
    <3>3. TodoOrdered(c.todo) /\ \A y \in Items(c.todo) : y.kind = "data" => Earlier(y, d)
      BY <1>0, <1>2 DEF Ordered, Deliveries
    <3>4. TodoOrdered(c2.todo)
      BY <3>1, <3>3, AppendViews
    <3> QED
      BY <2>2, <3>2, <3>4 DEF Deliveries
  <2> QED
    BY <2>1, <2>2
<1>6. c.emitted => Head(c2.todo) = Head(c.todo) /\ c.phase # "none" /\ Head(c.todo) \in Deliveries(c)
  <2> SUFFICES ASSUME c.emitted
               PROVE  Head(c2.todo) = Head(c.todo) /\ c.phase # "none" /\ Head(c.todo) \in Deliveries(c)
    OBVIOUS
  <2>1. c.phase = "up" /\ Head(c.todo) \in Deliveries(c)
    BY <1>0 DEF Numbers
  <2>2. c.todo # <<>>
    BY <2>1, EmptyHasNone DEF Deliveries
  <2>3. Head(Append(c.todo, d)) = Head(c.todo)
    BY <2>2
  <2> QED
    BY <2>1, <2>3
<1>7. /\ Unemitted(c) \subseteq Unemitted(c2)
      /\ Unemitted(c2) \subseteq Unemitted(c) \cup {d}
      /\ c.phase # "none" => d \in Unemitted(c2)
  <2>1. c.emitted => Head(c.todo) # d
    <3>1. c.emitted => Earlier(Head(c.todo), d) /\ Head(c.todo).gen \in Nat /\ Head(c.todo).seq \in Nat
      BY <1>2, <1>3, <1>6
    <3> QED
      BY <3>1 DEF Earlier
  <2> QED
    BY <1>5, <1>6, <2>1 DEF Unemitted
<1>8. Life(w, s2, b2, c2)
  <2>1. c.phase # "connecting" /\ s.up
    BY <1>0 DEF Life
  <2>2. c.phase = "replacing" =>
            \A x \in Deliveries(c2) : \E y \in Queue(s2) : SameRecord(y, x)
    <3>1. SameRecord(r, d)
      BY DEF SameRecord
    <3> QED
      BY <1>0, <1>4, <1>5, <3>1 DEF Life
  <2> HIDE DEF W, A, A2
  <2> QED
    BY <1>0, <1>1, <2>1, <2>2 DEF Life, SameButQueue, W
<1>9. Ordered(s2, b2, c2)
  BY <1>1, <1>4, <1>5 DEF Ordered
<1>10. Staged(s2, c2, W, A2)
  <2>1. \A a \in A2 : Earlier(r, a) /\ Earlier(d, a)
    BY <1>1 DEF Earlier, SameRecord
  <2>2. A2 \subseteq A
    BY <1>1
  <2> HIDE DEF W, A, A2
  <2> QED
    BY <1>0, <1>2, <1>4, <1>5, <1>6, <1>7, <2>1, <2>2 DEF Staged
<1>11. Spanned(w, s2, c2, W, A2)
  <2>1. Attached(w, s2) <=> Attached(w, s)
    BY DEF Attached, SameButQueue
  <2>2. A2 \subseteq A /\ m \in A
    BY <1>1
  <2>3. r.gen = m.gen /\ r.seq = m.seq /\ d.gen = m.gen /\ d.seq = m.seq
    BY DEF SameRecord
  <2> HIDE DEF W, A, A2
  <2> QED
    BY <1>0, <1>4, <1>5, <2>1, <2>2, <2>3 DEF Spanned
<1>12. s.receipts # <<>> => s2.receipts # <<>> /\ First(s2) = First(s)
  <2>1. s.receipts # <<>> => Head(Append(s.receipts, r)) = Head(s.receipts)
    OBVIOUS
  <2>2. s2.receipts # <<>>
    BY <1>4, EmptyHasNone DEF Queue
  <2> QED
    BY <2>1, <2>2 DEF First
<1>13. s2.receipts # <<>> /\ (s.receipts = <<>> => First(s2) = r)
  BY DEF First
<1>14. Mode(w.gen, s2, c2, W, mi)
  <2> SUFFICES ASSUME w.gen # 0, Clear(s)
               PROVE  \/ InStep(w.gen, s2, c2, W) \/ Lagging(w.gen, s2, c2, W, mi)
                      \/ Stale(w.gen, s2, c2, W, mi)
    BY DEF Mode, Clear, SameButQueue
  <2>0. w.gen = w.opened /\ w.gen \in Nat /\ m.gen <= w.gen
    BY <1>0, <1>1 DEF Life, Numbers
  <2>1. ASSUME InStep(w.gen, s, c, W), m.gen = w.gen PROVE InStep(w.gen, s2, c2, W)
    <3>1. \A x \in W \cup Deliveries(c) \cup Queue(s) : AtFirst(s2, x) <=> AtFirst(s, x)
      <4> TAKE x \in W \cup Deliveries(c) \cup Queue(s)
      <4>1. CASE s.receipts # <<>>
        BY <1>12, <4>1 DEF AtFirst
      <4>2. CASE s.receipts = <<>>
        <5>1. ~AtFirst(s, x) /\ (AtFirst(s2, x) => SameRecord(r, x))
          BY <1>13, <4>2 DEF AtFirst
        <5>2. Earlier(x, r) /\ x.gen \in Nat /\ x.seq \in Nat
          BY <1>2, <1>3
        <5> QED
          BY <5>1, <5>2 DEF Earlier, SameRecord
      <4> QED
        BY <4>1, <4>2
    <3>2. \A x \in W \cup Deliveries(c2) : Queued(s2, x)
      <4>1. \A x : Queued(s, x) => Queued(s2, x)
        BY <1>4 DEF Queued
      <4>2. Queued(s2, d)
        BY <1>4 DEF Queued, SameRecord
      <4> QED
        BY <1>5, <2>1, <4>1, <4>2 DEF InStep
    <3>3. \A x \in W : AtFirst(s2, x) => Step(x) > s2.index
      BY <2>1, <3>1 DEF InStep
    <3>4. ASSUME NEW n \in W, NEW q \in Queue(s2), NEW k \in 1..(Effects + 1),
                 Earlier(q, n) \/ (SameRecord(q, n) /\ k < Step(n))
          PROVE  Handled(s2, q, k) \/ Sent(W, q, k)
      <4>1. CASE q \in Queue(s)
        <5>1. Handled(s, q, k) \/ Sent(W, q, k)
          BY <2>1, <3>4, <4>1 DEF InStep
        <5> QED
          BY <3>1, <4>1, <5>1 DEF Handled
      <4>2. CASE q = r
        <5>1. Earlier(n, r) /\ n.gen \in Nat /\ n.seq \in Nat /\ r.gen \in Nat /\ r.seq \in Nat
          BY <1>2, <1>3 DEF SameRecord
        <5> QED
          BY <3>4, <4>2, <5>1 DEF Earlier, SameRecord
      <4> QED
        BY <1>4, <4>1, <4>2
    <3>5. ASSUME NEW x \in Unemitted(c2), AtFirst(s2, x) PROVE s2.index = 0
      <4>1. CASE x \in Unemitted(c)
        BY <2>1, <3>1, <3>5, <4>1 DEF InStep, Unemitted
      <4>2. CASE x = d /\ s.receipts = <<>>
        BY <1>0, <2>1, <4>2 DEF InStep, Numbers
      <4>3. CASE x = d /\ s.receipts # <<>>
        <5>1. First(s) \in Queue(s) /\ SameRecord(First(s), d)
          BY <1>0, <1>12, <3>5, <4>3 DEF Numbers, AtFirst
        <5> QED
          BY <1>2, <1>3, <5>1 DEF Earlier, SameRecord
      <4> QED
        BY <1>7, <4>1, <4>2, <4>3
    <3>6. ASSUME c.emitted, NEW k \in 1..Effects
          PROVE  Handled(s2, Head(c2.todo), k) \/ Sent(W, Head(c2.todo), k)
      BY <1>6, <2>1, <3>1, <3>6 DEF InStep, Handled
    <3>7. ASSUME c.phase # "none", NEW q \in Queue(s2)
          PROVE  Sent(W, q, Effects + 1) \/ Among(Deliveries(c2), q)
      <4>1. CASE q \in Queue(s)
        BY <1>5, <2>1, <3>7, <4>1 DEF InStep, Among
      <4>2. CASE q = r
        BY <1>5, <3>7, <4>2 DEF Among, SameRecord
      <4> QED
        BY <1>4, <4>1, <4>2
    <3>8. /\ \A q \in Queue(s2) : q.gen = w.gen
          /\ s2.index <= Effects /\ Queue(s2) # {}
      BY <1>4, <2>1 DEF InStep, SameRecord
    <3> HIDE DEF W
    <3> QED
      BY <3>2, <3>3, <3>4, <3>5, <3>6, <3>7, <3>8 DEF InStep
  <2>2. ASSUME InStep(w.gen, s, c, W), m.gen # w.gen PROVE Stale(w.gen, s2, c2, W, mi)
    <3>1. Queue(s) = {}
      <4> SUFFICES ASSUME NEW q \in Queue(s) PROVE FALSE
        OBVIOUS
      <4>1. q.gen = w.gen /\ Earlier(q, m)
        BY <1>2, <2>2 DEF InStep
      <4> QED
        BY <1>3, <2>0, <2>2, <4>1 DEF Earlier
    <3>2. W = {} /\ Deliveries(c) = {}
      BY <2>2, <3>1 DEF InStep, Queued
    <3>3. s.receipts = <<>> /\ First(s2) = r /\ r.gen # w.gen /\ d.gen # w.gen
      BY <1>0, <1>13, <2>2, <3>1 DEF Numbers, SameRecord
    <3> QED
      BY <1>4, <1>5, <1>13, <3>1, <3>2, <3>3 DEF Stale
  <2>3. ASSUME Lagging(w.gen, s, c, W, mi) PROVE Lagging(w.gen, s2, c2, W, mi)
    <3>1. s.receipts # <<>> /\ First(s) \in Queue(s)
      BY <1>0, <2>3 DEF Lagging, Numbers
    <3>2. First(s).gen = w.gen /\ Earlier(First(s), d)
      BY <1>2, <2>3, <3>1 DEF Lagging
    <3>3. d.gen = w.gen => First(s).seq < d.seq
      BY <2>0, <3>2 DEF Earlier
    <3> QED
      BY <1>5, <1>12, <2>3, <3>1, <3>3 DEF Lagging
  <2>4. ASSUME Stale(w.gen, s, c, W, mi) PROVE Stale(w.gen, s2, c2, W, mi)
    <3>1. \A x \in W \cup Deliveries(c2) : x.gen = w.gen => Queued(s2, x)
      <4>1. \A x : Queued(s, x) => Queued(s2, x)
        BY <1>4 DEF Queued
      <4>2. Queued(s2, d)
        BY <1>4 DEF Queued, SameRecord
      <4> QED
        BY <1>5, <2>4, <4>1, <4>2 DEF Stale
    <3>2. ASSUME NEW q \in Queue(s2), q.gen = w.gen
          PROVE  \/ Rec(q) \in mi \/ Sent(W, q, 1) \/ Among(Unemitted(c2), q)
                 \/ c2.phase = "none" /\ \A n \in W : Earlier(n, q)
      <4>1. CASE q \in Queue(s)
        BY <1>7, <2>4, <3>2, <4>1 DEF Stale, Among
      <4>2. CASE q = r
        BY <1>2, <1>7, <4>2 DEF Among, SameRecord
      <4> QED
        BY <1>4, <4>1, <4>2
    <3> QED
      BY <1>12, <2>4, <3>1, <3>2 DEF Stale
  <2> QED
    BY <1>0, <2>1, <2>2, <2>3, <2>4 DEF Mode
<1>15. Progress(w, s2, c2, W, A2, ap, mi)
  <2> SUFFICES ASSUME w.gen # 0, Clear(s)
               PROVE  Progress(w, s2, c2, W, A2, ap, mi)
    BY DEF Progress, Clear, SameButQueue
  <2>1. Attached(w, s2) <=> Attached(w, s)
    BY DEF Attached, SameButQueue
  <2>2. ASSUME c.phase # "none", NEW t, NEW i, InPipe(w.gen, t, i, c, W, A, ap, mi)
        PROVE  InPipe(w.gen, t, i, c2, W, A2, ap, mi)
    <3>1. CASE Among(Unemitted(c) \cup A, Receipt(w.gen, t))
      <4>1. PICK y \in Unemitted(c) \cup A : SameRecord(y, Receipt(w.gen, t))
        BY <3>1 DEF Among
      <4>2. CASE y = m
        <5>1. SameRecord(d, Receipt(w.gen, t)) /\ d \in Unemitted(c2)
          BY <1>7, <2>2, <4>1, <4>2 DEF SameRecord
        <5> QED
          BY <5>1 DEF InPipe, Among
      <4>3. CASE y # m
        <5>1. y \in Unemitted(c2) \cup A2
          BY <1>1, <1>7, <4>1, <4>3
        <5> QED
          BY <4>1, <5>1 DEF InPipe, Among
      <4> QED
        BY <4>2, <4>3
    <3> QED
      BY <2>2, <3>1 DEF InPipe
  <2>3. ASSUME c.phase # "none", NEW x \in Deliveries(c2) \cup A2, NEW t \in w.retained,
               NEW i \in 1..Effects, x.gen = w.gen, t <= x.seq
        PROVE  InPipe(w.gen, t, i, c2, W, A2, ap, mi)
    <3>1. PICK y \in Deliveries(c) \cup A : y.gen = x.gen /\ y.seq = x.seq
      <4>1. x \in Deliveries(c) \cup A \/ x = d
        BY <1>1, <1>5
      <4> QED
        BY <1>1, <4>1 DEF SameRecord
    <3>2. InPipe(w.gen, t, i, c, W, A, ap, mi)
      BY <1>0, <2>3, <3>1 DEF Progress
    <3> QED
      BY <2>2, <2>3, <3>2
  <2> HIDE DEF W, A, A2
  <2> QED
    BY <1>0, <2>1, <2>2, <2>3 DEF Progress
<1> QED
  BY <1>0, <1>1, <1>8, <1>9, <1>10, <1>11, <1>14, <1>15 DEF OInv

-----------------------------------------------------------------------------
(* Clients and Sessions come and go.                                       *)

\* The client exits, and its monitor's notice is queued behind everything.
LEMMA ExitedOnce ==
    ASSUME NEW w, NEW s, NEW b, NEW c, NEW cl, NEW ap, NEW mi, OInv(w, s, b, c, cl, ap, mi),
           NEW S, b \in Seq(S), NEW m \in S, m.kind = "down", NEW b2, b2 = Append(b, m),
           c.phase # "none"
    PROVE  OInv(w, s, b2, NoClient, cl, ap, mi)
<1> DEFINE W == Works(b)
           A == Arrivals(b)
<1>0. /\ Numbers(w, s, c, W, A) /\ Life(w, s, b, c) /\ Ordered(s, b, c) /\ Window(w)
      /\ Staged(s, c, W, A) /\ Spanned(w, s, c, W, A) /\ Mode(w.gen, s, c, W, mi)
      /\ Progress(w, s, c, W, A, ap, mi) /\ Tallied(w, cl, ap, mi)
  BY DEF OInv
<1>1. PICK c2 : c2 = NoClient
  OBVIOUS
<1>2. c2.phase = "none" /\ c2.gen = 0 /\ c2.todo = <<>> /\ ~c2.emitted
  BY <1>1 DEF NoClient
<1>3. Deliveries(c2) = {} /\ Unemitted(c2) = {} /\ TodoOrdered(c2.todo)
  BY <1>2, EmptyHasNone DEF Deliveries, Unemitted
<1>4. Items(b2) = Items(b) \cup {m}
  BY AppendViews
<1>5. m.kind \in LifeKinds /\ ~IsWork(m) /\ m.kind # "data" /\ m.kind \notin {"connect", "retry"}
  BY DEF LifeKinds, IsWork
<1>6. Works(b2) = W /\ Arrivals(b2) = A /\ Lifes(b2) = Lifes(b) \cup {m}
  BY <1>4, <1>5 DEF Works, Arrivals, Lifes
<1>7. s.up /\ s.client /\ ~s.timer /\ Lifes(b) = {}
  BY <1>0 DEF Life
<1>8. InboxOrdered(b2)
  <2>1. \A x \in Items(b) : InOrder(x, m)
    <3>1. \A x \in Items(b) : x.kind \notin LifeKinds
      BY <1>7 DEF Lifes
    <3> QED
      BY <1>5, <3>1 DEF InOrder, LifeKinds
  <2>2. InboxOrdered(b)
    BY <1>0 DEF Ordered
  <2> QED
    BY <2>1, <2>2, AppendViews
<1>9. Numbers(w, s, c2, W, A)
  <2>1. c2.gen \in Nat
    BY <1>2
  <2> HIDE DEF W, A
  <2> QED
    BY <1>0, <1>2, <1>3, <2>1 DEF Numbers
<1>10. Life(w, s, b2, c2)
  <2> HIDE DEF W, A
  <2> QED
    BY <1>0, <1>2, <1>5, <1>6, <1>7 DEF Life, W
<1>11. Ordered(s, b2, c2)
  BY <1>0, <1>3, <1>8 DEF Ordered
<1>12. Staged(s, c2, W, A) /\ Spanned(w, s, c2, W, A)
  BY <1>0, <1>2, <1>3 DEF Staged, Spanned
<1>13. Mode(w.gen, s, c2, W, mi)
  <2>1. Stale(w.gen, s, c, W, mi) => Stale(w.gen, s, c2, W, mi)
    <3> SUFFICES ASSUME Stale(w.gen, s, c, W, mi), NEW r \in Queue(s), r.gen = w.gen
                 PROVE  Rec(r) \in mi \/ Sent(W, r, 1) \/ \A n \in W : Earlier(n, r)
      BY <1>2, <1>3 DEF Stale
    <3>1. Rec(r) \in mi \/ Sent(W, r, 1) \/ Among(Unemitted(c), r)
      BY DEF Stale
    <3>2. Among(Unemitted(c), r) => \A n \in W : Earlier(n, r)
      BY <1>0 DEF Staged, Among, Earlier, SameRecord
    <3> QED
      BY <3>1, <3>2
  <2>2. InStep(w.gen, s, c, W) => InStep(w.gen, s, c2, W)
    BY <1>2, <1>3 DEF InStep
  <2>3. Lagging(w.gen, s, c, W, mi) => Lagging(w.gen, s, c2, W, mi)
    BY <1>3 DEF Lagging
  <2> QED
    BY <1>0, <2>1, <2>2, <2>3 DEF Mode
<1>14. Progress(w, s, c2, W, A, ap, mi)
  BY <1>0, <1>2 DEF Progress
<1> QED
  BY <1>0, <1>1, <1>6, <1>9, <1>10, <1>11, <1>12, <1>13, <1>14 DEF OInv

\* The client drops what carries the handle of an earlier generation.
LEMMA IgnoredOnce ==
    ASSUME NEW w, NEW s, NEW b, NEW c, NEW cl, NEW ap, NEW mi, OInv(w, s, b, c, cl, ap, mi),
           c.phase = "up", NEW T, c.todo \in Seq(T), c.todo # <<>>, Head(c.todo).gen # c.gen,
           NEW c2, c2.phase = c.phase, c2.gen = c.gen, c2.todo = Tail(c.todo),
           c2.emitted = c.emitted
    PROVE  OInv(w, s, b, c2, cl, ap, mi)
<1> DEFINE W == Works(b)
           A == Arrivals(b)
<1>0. /\ Numbers(w, s, c, W, A) /\ Life(w, s, b, c) /\ Ordered(s, b, c) /\ Window(w)
      /\ Staged(s, c, W, A) /\ Spanned(w, s, c, W, A) /\ Mode(w.gen, s, c, W, mi)
      /\ Progress(w, s, c, W, A, ap, mi) /\ Tallied(w, cl, ap, mi)
  BY DEF OInv
<1>1. PICK d : d = Head(c.todo)
  OBVIOUS
<1>2. ~c.emitted /\ d.gen # w.opened
  BY <1>0, <1>1 DEF Numbers, Life
<1>3. /\ Items(c.todo) = {d} \cup Items(c2.todo) /\ TodoOrdered(c2.todo)
  <2>1. TodoOrdered(c.todo)
    BY <1>0 DEF Ordered
  <2>2. TodoOrdered(Tail(c.todo))
    BY <2>1, OrderedTail
  <2>3. Items(c.todo) = {d} \cup Items(Tail(c.todo))
    BY <1>1, HeadAndTail
  <2> QED
    BY <2>2, <2>3
<1>4. /\ Deliveries(c2) \subseteq Deliveries(c) /\ Unemitted(c2) = Deliveries(c2)
      /\ Unemitted(c) = Deliveries(c)
      /\ \A x \in Deliveries(c) : x \in Deliveries(c2) \/ x.gen # w.opened
  BY <1>2, <1>3 DEF Deliveries, Unemitted
<1>5. Numbers(w, s, c2, W, A)
  BY <1>0, <1>2, <1>4 DEF Numbers
<1>6. Life(w, s, b, c2)
  BY <1>0 DEF Life
<1>7. Ordered(s, b, c2)
  BY <1>0, <1>3 DEF Ordered
<1>8. Staged(s, c2, W, A) /\ Spanned(w, s, c2, W, A)
  <2> HIDE DEF W, A
  <2> QED
    BY <1>0, <1>2, <1>4 DEF Staged, Spanned
<1>9. w.gen # 0 => w.gen = w.opened
  BY <1>0 DEF Life
<1>10. \A x : w.gen # 0 /\ x.gen = w.gen /\ Among(Deliveries(c), x) => Among(Deliveries(c2), x)
  BY <1>4, <1>9 DEF Among, SameRecord
<1>11. Mode(w.gen, s, c2, W, mi)
  <2> SUFFICES ASSUME w.gen # 0 PROVE Mode(w.gen, s, c2, W, mi)
    BY DEF Mode
  <2>1. InStep(w.gen, s, c, W) => InStep(w.gen, s, c2, W)
    BY <1>2, <1>4, <1>10 DEF InStep
  <2>2. Lagging(w.gen, s, c, W, mi) => Lagging(w.gen, s, c2, W, mi)
    BY <1>4 DEF Lagging
  <2>3. Stale(w.gen, s, c, W, mi) => Stale(w.gen, s, c2, W, mi)
    BY <1>4, <1>10 DEF Stale
  <2> QED
    BY <1>0, <2>1, <2>2, <2>3 DEF Mode
<1>12. Progress(w, s, c2, W, A, ap, mi)
  <2> SUFFICES ASSUME w.gen # 0 PROVE Progress(w, s, c2, W, A, ap, mi)
    BY DEF Progress
  <2>1. \A t, i : InPipe(w.gen, t, i, c, W, A, ap, mi) => InPipe(w.gen, t, i, c2, W, A, ap, mi)
    <3> SUFFICES ASSUME NEW t, NEW i, InPipe(w.gen, t, i, c, W, A, ap, mi)
                 PROVE  InPipe(w.gen, t, i, c2, W, A, ap, mi)
      OBVIOUS
    <3>1. Receipt(w.gen, t).gen = w.gen
      BY DEF Receipt
    <3>2. Among(Deliveries(c), Receipt(w.gen, t)) => Among(Deliveries(c2), Receipt(w.gen, t))
      BY <1>10, <3>1
    <3>3. Among(Deliveries(c) \cup A, Receipt(w.gen, t)) => Among(Deliveries(c2) \cup A, Receipt(w.gen, t))
      BY <3>2 DEF Among
    <3> QED
      BY <1>4, <3>3 DEF InPipe
  <2> HIDE DEF W, A
  <2> QED
    BY <1>0, <1>4, <2>1 DEF Progress
<1> QED
  BY <1>0, <1>5, <1>6, <1>7, <1>8, <1>11, <1>12 DEF OInv

\* Nothing is queued anywhere, and no Session is attached.
LEMMA EmptyOnce ==
    ASSUME NEW w, NEW s, NEW b, NEW c, NEW cl, NEW ap, NEW mi,
           Window(w), Tallied(w, cl, ap, mi), Numbers(w, s, c, {}, {}), Life(w, s, b, c),
           Works(b) = {}, Arrivals(b) = {}, InboxOrdered(b), c.todo = <<>>, s.receipts = <<>>,
           s.index = 0, ~Attached(w, s)
    PROVE  OInv(w, s, b, c, cl, ap, mi)
<1>1. Deliveries(c) = {} /\ Queue(s) = {} /\ Ordered(s, b, c)
  BY EmptyHasNone DEF Deliveries, Queue, Ordered
<1>2. Unemitted(c) = {} /\ ~c.emitted
  BY <1>1 DEF Unemitted, Numbers
<1>3. Staged(s, c, {}, {}) /\ Spanned(w, s, c, {}, {})
  BY <1>1, <1>2 DEF Staged, Spanned
<1>4. Mode(w.gen, s, c, {}, mi)
  <2>1. s.index <= Effects
    BY Bounds
  <2> QED
    BY <1>1, <1>2, <2>1 DEF Mode, InStep
<1>5. Progress(w, s, c, {}, {}, ap, mi)
  BY <1>1 DEF Progress
<1> QED
  BY <1>1, <1>3, <1>4, <1>5 DEF OInv

-----------------------------------------------------------------------------
(* What Wirekeeper dispatches, and announces.                              *)

LEMMA BatchIsOldest ==
    ASSUME NEW w \in WkState
    PROVE  /\ Batch(w) \subseteq Waiting(w) /\ Batch(w) \subseteq Sequences
           /\ \A t \in Batch(w), u \in Waiting(w) \ Batch(w) : t < u
<1>1. Waiting(w) \subseteq 1..MaxSequence
  BY DEF Waiting, WkState, Sequences
<1>2. Batch(w) = {s \in Waiting(w) : Cardinality({r \in Waiting(w) : r < s})
                                         < MaxInFlight - Cardinality(w.inFlight)}
  BY DEF Batch, Waiting
<1>3. ASSUME NEW t \in Batch(w), NEW u \in Waiting(w) \ Batch(w), ~(t < u)
      PROVE  FALSE
  <2> DEFINE Below(n) == {q \in Waiting(w) : q < n}
  <2>1. Below(u) \subseteq Below(t)
    BY <1>1, <1>2, <1>3
  <2>2. Below(t) \subseteq 1..MaxSequence /\ Below(u) \subseteq 1..MaxSequence
    BY <1>1
  <2>3. IsFiniteSet(Below(t)) /\ Cardinality(Below(t)) \in Nat /\ Cardinality(Below(u)) \in Nat
    BY <2>2, IntervalSubset, Bounds
  <2>4. Cardinality(Below(u)) <= Cardinality(Below(t))
    BY <2>1, <2>3, FS_Subset
  <2>5. Cardinality(w.inFlight) \in Nat /\ MaxInFlight \in Nat
    BY IntervalSubset, Bounds, PipelineAssumption DEF WkState, Sequences
  <2>6. Cardinality(Below(u)) < MaxInFlight - Cardinality(w.inFlight)
    BY <1>2, <1>3, <2>3, <2>4, <2>5
  <2> QED
    BY <1>2, <1>3, <2>6
<1> QED
  BY <1>1, <1>2, <1>3 DEF Sequences

\* A set in ascending order is all of the set.
LEMMA AscendingIsAll ==
    ASSUME NEW S, S \subseteq Sequences
    PROVE  /\ Ascending(S) \in [1..Cardinality(S) -> S] /\ Cardinality(S) \in Nat
           /\ \A i, j \in 1..Cardinality(S) : i < j => Ascending(S)[i] < Ascending(S)[j]
           /\ \A t \in S : \E i \in 1..Cardinality(S) : Ascending(S)[i] = t
<1> DEFINE n == Cardinality(S)
           f == Ascending(S)
<1>1. PICK g : Lists(g, S)
  BY CanBeListed, Bounds DEF Sequences
<1>2. g \in [1..n -> S] /\ \A i, j \in DOMAIN g : i < j => g[i] < g[j]
  BY <1>1 DEF Lists
<1>3. n \in Nat /\ IsFiniteSet(S)
  BY IntervalSubset, Bounds DEF Sequences
<1>4. f \in [1..n -> S] /\ \A i, j \in DOMAIN f : i < j => f[i] < f[j]
  BY <1>2 DEF Ascending
<1> HIDE DEF f, n
<1>5. \A i, j \in 1..n : i < j => f[i] < f[j]
  BY <1>4
<1>6. \A i, j \in 1..n : f[i] = f[j] => i = j
  <2> TAKE i, j \in 1..n
  <2>1. f[i] \in Int /\ f[j] \in Int /\ i \in Int /\ j \in Int
    <3>1. S \subseteq Int /\ 1..n \subseteq Int
      BY <1>3, Bounds DEF Sequences
    <3>2. f[i] \in S /\ f[j] \in S
      BY <1>4
    <3> QED
      BY <3>1, <3>2
  <2>2. i < j \/ j < i \/ i = j
    BY <2>1
  <2> QED
    BY <1>5, <2>1, <2>2
<1>7. f \in Injection(1..n, S)
  BY <1>4, <1>6 DEF Injection, IsInjective
<1>8. Cardinality(1..n) = n
  BY <1>3, FS_Interval
<1>9. f \in Surjection(1..n, S)
  <2>1. Cardinality(1..n) = Cardinality(S)
    BY <1>8 DEF n
  <2>2. Cardinality(1..n) = Cardinality(S) <=> f \in Surjection(1..n, S)
    BY <1>3, <1>7, FS_Injection
  <2> QED
    BY <2>1, <2>2
<1>10. \A t \in S : \E i \in 1..n : f[i] = t
  BY <1>9 DEF Surjection
<1> QED
  BY <1>3, <1>4, <1>5, <1>10 DEF f, n

LEMMA DataAnnounces ==
    ASSUME NEW w \in WkState
    PROVE  Announces(DataMessages(w), w.gen, Batch(w))
<1> DEFINE order == Ascending(Batch(w))
           n == Cardinality(Batch(w))
<1>1. Batch(w) \subseteq Sequences
  BY BatchIsOldest
<1>2. /\ order \in [1..n -> Batch(w)] /\ n \in Nat
      /\ \A i, j \in 1..n : i < j => order[i] < order[j]
      /\ \A t \in Batch(w) : \E i \in 1..n : order[i] = t
  BY <1>1, AscendingIsAll
<1> HIDE DEF order, n
<1>3. PICK ms : ms = DataMessages(w)
  OBVIOUS
<1>4. ms = [i \in 1..n |-> Message("data", w.gen, order[i], 0)]
  <2>1. DOMAIN order = 1..n
    BY <1>2
  <2> QED
    BY <1>3, <2>1 DEF DataMessages, order
<1>5. /\ DOMAIN ms = 1..n
      /\ \A i \in 1..n : /\ ms[i].kind = "data" /\ ms[i].gen = w.gen
                         /\ ms[i].seq = order[i] /\ order[i] \in Batch(w)
  BY <1>2, <1>4 DEF Message
<1>6. Len(ms) = n
  <2>1. ms \in Seq({ms[i] : i \in 1..n})
    BY <1>2, <1>4
  <2> QED
    BY <1>2, <1>5, <2>1, LenProperties
<1>7. \A i, j \in 1..Len(ms) : i < j => InOrder(ms[i], ms[j])
  BY <1>2, <1>5, <1>6 DEF InOrder, IsWork, Earlier, LifeKinds
<1>8. InboxOrdered(ms)
  BY <1>7 DEF InboxOrdered
<1> QED
  BY <1>2, <1>3, <1>5, <1>6, <1>8 DEF Announces, Items

LEMMA NoticeAnnounces ==
    ASSUME NEW S, NEW m \in S, IsNoise(m), NEW g
    PROVE  Announces(<<m>>, g, {}) /\ Announces(<<>>, g, {})
<1>1. Items(<<m>>) = {m} /\ InboxOrdered(<<m>>)
  BY Single
<1>2. m.kind # "data"
  BY DEF IsNoise
<1> QED
  BY <1>1, <1>2, EmptyHasNone DEF Announces

LEMMA AnnouncesBoth ==
    ASSUME NEW S, NEW p \in Seq(S), NEW q \in Seq(S), NEW g, NEW B, NEW C,
           Announces(p, g, B), Announces(q, g, C), B = {} \/ C = {}
    PROVE  Announces(p \o q, g, B \cup C)
<1>1. PICK r : r = p \o q
  OBVIOUS
<1>2. Items(r) = Items(p) \cup Items(q)
  BY <1>1, ItemsOfConcatenation
<1>3. \A x \in Items(p), y \in Items(q) : InOrder(x, y)
  BY DEF Announces, InOrder, IsWork, IsNoise, LifeKinds
<1>4. InboxOrdered(r)
  BY <1>1, <1>3, OrderedConcatenation DEF Announces
<1> QED
  BY <1>1, <1>2, <1>4 DEF Announces

LEMMA SettledAnnounces ==
    ASSUME NEW w \in WkState, w.gen # 0, w.gen <= w.opened
    PROVE  Announces(SettledMessages(w), w.gen, Batch(w))
<1> DEFINE K == KnownMessages(w.opened)
           closed == Message("closed", w.gen, 0, 0)
<1>1. DataMessages(w) \in Seq(K)
  BY DataMessagesKnown
<1>2. closed \in K
  BY Bounds DEF Message, KnownMessages, Messages, OpenedBy, WkState, Generations
<1>3. IsNoise(closed)
  BY DEF Message, IsNoise
<1>4. Announces(DataMessages(w), w.gen, Batch(w))
  BY DataAnnounces
<1> HIDE DEF K, closed
<1>5. Announces(<<closed>>, w.gen, {}) /\ Announces(<<>>, w.gen, {})
  BY <1>2, <1>3, NoticeAnnounces
<1>6. <<closed>> \in Seq(K) /\ <<>> \in Seq(K)
  BY <1>2
<1>7. \A q : q \in Seq(K) /\ Announces(q, w.gen, {})
                => Announces(DataMessages(w) \o q, w.gen, Batch(w))
  <2> TAKE q
  <2> HAVE q \in Seq(K) /\ Announces(q, w.gen, {})
  <2>1. Announces(DataMessages(w) \o q, w.gen, Batch(w) \cup {})
    BY <1>1, <1>4, AnnouncesBoth
  <2> QED
    BY <2>1
<1> QED
  BY <1>5, <1>6, <1>7 DEF SettledMessages, closed

LEMMA AnnouncedViews ==
    ASSUME NEW S, NEW b \in Seq(S), NEW ms \in Seq(S), NEW g, NEW B, Announces(ms, g, B)
    PROVE  Works(b \o ms) = Works(b)
<1>1. Works(ms) = {}
  BY DEF Announces, Works, IsWork, IsNoise
<1>2. Works(b \o ms) = Works(b) \cup Works(ms)
  BY InboxViews
<1> QED
  BY <1>1, <1>2

LEMMA DispatchedFields ==
    ASSUME NEW w \in WkState
    PROVE  /\ Dispatched(w).gen = w.gen /\ Dispatched(w).opened = w.opened
           /\ Dispatched(w).last = w.last /\ Dispatched(w).retained = w.retained
           /\ Dispatched(w).inFlight = w.inFlight \cup Batch(w)
           /\ Dispatched(w).ackedThrough = w.ackedThrough
           /\ Dispatched(w).consumer = w.consumer
           /\ Dispatched(w) \in WkState
<1>1. Batch(w) \subseteq w.retained
  BY DEF Batch
<1> QED
  BY <1>1, Bounds DEF Dispatched, WkState

\* Records go in flight: the Session is told, if it is attached and up.
LEMMA DispatchedOnce ==
    ASSUME NEW w, NEW s, NEW b, NEW c, NEW cl, NEW ap, NEW mi, OInv(w, s, b, c, cl, ap, mi),
           Typed(w, s, b, c), w.gen # 0,
           NEW ms \in Seq(KnownMessages(w.opened)), Announces(ms, w.gen, Batch(w)),
           NEW b2, b2 = IF s.up /\ Attached(w, s) THEN b \o ms ELSE b
    PROVE  OInv(Dispatched(w), s, b2, c, cl, ap, mi)
<1> DEFINE v == Dispatched(w)
           K == KnownMessages(w.opened)
<1>1. w \in WkState /\ b \in Seq(K)
  BY DEF Typed, GoodWk
<1>2. Dispatches(w, v, Batch(w)) /\ v \in WkState
  BY <1>1, BatchIsOldest, DispatchedFields DEF Dispatches
<1> HIDE DEF v, K
<1>3. CASE ~(s.up /\ Attached(w, s))
  <2>1. b2 = b
    BY <1>3
  <2>2. OInv(v, s, b, c, cl, ap, mi)
    BY <1>2, <1>3, UntoldOnce
  <2> QED
    BY <2>1, <2>2 DEF v
<1>4. CASE s.up /\ Attached(w, s)
  <2>1. b2 = b \o ms
    BY <1>4
  <2>2. Works(b2) = Works(b)
    BY <1>1, <2>1, AnnouncedViews DEF K
  <2>3. \A m \in Works(b2) : Step(m) >= 1
    BY <2>2 DEF OInv, Life
  <2>4. Typed(v, s, b2, c)
    <3>1. b2 \in Seq(K) /\ v.opened = w.opened /\ v.gen = w.gen
      BY <1>1, <1>2, <2>1, ConcatProperties DEF K, Dispatches
    <3> QED
      BY <1>2, <3>1 DEF Typed, GoodWk, K
  <2>5. Numbers(v, s, c, Works(b2), Arrivals(b2))
    BY <2>3, <2>4, NumbersFollow
  <2>6. b \in Seq(K) /\ ms \in Seq(K)
    BY <1>1 DEF K
  <2>7. OInv(v, s, b2, c, cl, ap, mi)
    BY <1>2, <1>4, <2>1, <2>5, <2>6, DeliveredOnce
  <2> QED
    BY <2>7 DEF v
<1> QED
  BY <1>3, <1>4

\* After an attachment, an acknowledgement or a closure.
LEMMA SettledOnce ==
    ASSUME NEW w, NEW s, NEW b, NEW c, NEW cl, NEW ap, NEW mi, OInv(w, s, b, c, cl, ap, mi),
           Typed(w, s, b, c), w.gen # 0, cl \subseteq ClaimRows,
           NEW b2, b2 = IF s.up /\ Attached(w, s) THEN b \o SettledMessages(w) ELSE b
    PROVE  OInv(Settled(w), s, b2, c, cl, ap, mi)
<1> DEFINE d == Dispatched(w)
<1>1. w \in WkState /\ w.gen <= w.opened
  BY DEF Typed, GoodWk
<1>2. SettledMessages(w) \in Seq(KnownMessages(w.opened))
  BY <1>1, SettledMessagesKnown
<1>3. Announces(SettledMessages(w), w.gen, Batch(w))
  BY <1>1, SettledAnnounces
<1>4. OInv(d, s, b2, c, cl, ap, mi)
  BY <1>2, <1>3, DispatchedOnce
<1>5. OInv(NoGeneration(d.opened), s, b2, c, cl, ap, mi)
  <2> HIDE DEF d
  <2> QED
    BY <1>4, GoneOnce
<1>6. SameRecords(d, [d EXCEPT !.told = @ \/ ClosureDue(d)])
  <2>1. d \in WkState
    BY <1>1 DEF Dispatched, Batch, WkState
  <2> HIDE DEF d
  <2> QED
    BY <2>1 DEF SameRecords, WkState
<1>7. OInv([d EXCEPT !.told = @ \/ ClosureDue(d)], s, b2, c, cl, ap, mi)
  <2> HIDE DEF d
  <2> QED
    BY <1>4, <1>6, QuietOnce
<1> QED
  BY <1>5, <1>7 DEF Settled

-----------------------------------------------------------------------------
(* Wirekeeper's steps.                                                     *)

LEMMA OnceTyped ==
    ASSUME PInv
    PROVE  /\ Typed(wk, session, inbox, client) /\ claims \subseteq ClaimRows
           /\ inbox \in Seq(KnownMessages(wk.opened))
           /\ session.receipts \in Seq(KnownReceipts(wk.opened))
           /\ client.todo \in Seq(KnownDeliveries(wk.opened))
           /\ wk \in WkState /\ wk.gen <= wk.opened
BY DEF PInv, Typed, GoodWk, GoodSession, GoodClient, GoodRows

LEMMA NextNumbers ==
    ASSUME PInv', \A m \in Works(inbox') : Step(m) >= 1
    PROVE  Numbers(wk', session', client', Works(inbox'), Arrivals(inbox'))
<1>1. Typed(wk', session', inbox', client')
  BY DEF PInv, Typed
<1> QED
  BY <1>1, NumbersFollow

LEMMA StoredFields ==
    ASSUME NEW w \in WkState
    PROVE  /\ Stored(w).gen = w.gen /\ Stored(w).opened = w.opened
           /\ Stored(w).last = w.last + 1 /\ Stored(w).inFlight = w.inFlight
           /\ Stored(w).retained \subseteq w.retained \cup {w.last + 1}
           /\ Stored(w).ackedThrough = w.ackedThrough /\ Stored(w).consumer = w.consumer
BY DEF Stored, WkState

LEMMA RecordArrivesOnce ==
    ASSUME OnceInv, RecordArrives
    PROVE  OInv(wk', session', inbox', client', claims', applied', misfiled')
<1> DEFINE v == Stored(wk)
           K == KnownMessages(wk.opened)
           over == Message("overflow", wk.gen, 0, 0)
           evicted == v.retained # wk.retained \cup {v.last}
           overflow == IF evicted THEN <<over>> ELSE <<>>
           ms == overflow \o DataMessages(v)
<1>1. /\ PInv /\ OInv(wk, session, inbox, client, claims, applied, misfiled)
      /\ Typed(wk, session, inbox, client) /\ wk \in WkState /\ inbox \in Seq(K)
      /\ wk.gen # 0 /\ wk.gen \in OpenedBy(wk.opened)
  BY OnceTyped, StaysSame DEF OnceInv, RecordArrives
<1>2. /\ v.gen = wk.gen /\ v.opened = wk.opened /\ v.last = wk.last + 1
      /\ v.retained \subseteq wk.retained \cup {wk.last + 1} /\ v.inFlight = wk.inFlight
      /\ v.ackedThrough = wk.ackedThrough /\ v.consumer = wk.consumer
  BY <1>1, StoredFields
<1>3. v \in WkState /\ v.gen <= v.opened
  BY <1>1, <1>2, StoredContinues DEF RecordArrives, Continues, Typed, GoodWk
<1>4. /\ session' = session /\ client' = client /\ claims' = claims
      /\ applied' = applied /\ misfiled' = misfiled
      /\ \/ wk.consumer = 0 /\ wk' = v /\ inbox' = inbox
         \/ wk.consumer # 0 /\ wk' = Dispatched(v) /\ ToSession(wk, ms)
  BY DEF RecordArrives, Database
<1> HIDE DEF v
<1>5. OInv(v, session, inbox, client, claims, applied, misfiled)
  BY <1>1, <1>2, StoredOnce
<1>6. DataMessages(v) \in Seq(K) /\ Announces(DataMessages(v), wk.gen, Batch(v))
  BY <1>1, <1>2, <1>3, DataMessagesKnown, DataAnnounces
<1>7. over \in K /\ IsNoise(over)
  BY <1>1, Bounds DEF Message, KnownMessages, Messages, IsNoise, WkState
<1>8. overflow \in Seq(K) /\ Announces(overflow, wk.gen, {})
  <2> HIDE DEF over, K, evicted
  <2>1. <<over>> \in Seq(K) /\ <<>> \in Seq(K)
    BY <1>7
  <2>2. Announces(<<over>>, wk.gen, {}) /\ Announces(<<>>, wk.gen, {})
    BY <1>7, NoticeAnnounces
  <2> QED
    BY <2>1, <2>2
<1> HIDE DEF overflow, K
<1>9. ms \in Seq(K) /\ Announces(ms, wk.gen, Batch(v))
  <2>1. ms \in Seq(K)
    BY <1>6, <1>8, ConcatProperties
  <2>2. Announces(ms, wk.gen, {} \cup Batch(v))
    BY <1>6, <1>8, AnnouncesBoth
  <2> QED
    BY <2>1, <2>2
<1> HIDE DEF ms
<1>10. CASE wk.consumer = 0
  BY <1>4, <1>5, <1>10
<1>11. CASE wk.consumer # 0
  <2>1. inbox' = IF session.up /\ Attached(v, session) THEN inbox \o ms ELSE inbox
    BY <1>2, <1>4, <1>11 DEF ToSession, AttachedTo, Attached
  <2>2. Typed(v, session, inbox, client)
    BY <1>1, <1>2, <1>3 DEF Typed, GoodWk
  <2>3. ms \in Seq(KnownMessages(v.opened)) /\ Announces(ms, v.gen, Batch(v)) /\ v.gen # 0
    BY <1>1, <1>2, <1>9 DEF K
  <2>4. OInv(Dispatched(v), session, inbox', client, claims, applied, misfiled)
    BY <1>5, <2>1, <2>2, <2>3, DispatchedOnce
  <2> QED
    BY <1>4, <1>11, <2>4
<1> QED
  BY <1>10, <1>11

LEMMA UpstreamClosesOnce ==
    ASSUME OnceInv, UpstreamCloses
    PROVE  OInv(wk', session', inbox', client', claims', applied', misfiled')
<1> DEFINE v == [wk EXCEPT !.closed = TRUE]
<1>1. /\ OInv(wk, session, inbox, client, claims, applied, misfiled)
      /\ Typed(wk, session, inbox, client) /\ wk \in WkState /\ claims \subseteq ClaimRows
  BY OnceTyped DEF OnceInv
<1>2. /\ wk.gen # 0 /\ wk' = Settled(v) /\ ToSession(v, SettledMessages(v))
      /\ session' = session /\ client' = client /\ claims' = claims
      /\ applied' = applied /\ misfiled' = misfiled
  BY DEF UpstreamCloses, Database
<1>3. /\ SameRecords(wk, v) /\ v.gen = wk.gen /\ v.opened = wk.opened /\ v.consumer = wk.consumer
      /\ v \in WkState
  BY <1>1 DEF SameRecords, WkState
<1> HIDE DEF v
<1>4. OInv(v, session, inbox, client, claims, applied, misfiled)
  BY <1>1, <1>3, QuietOnce
<1>5. Typed(v, session, inbox, client) /\ v.gen # 0
  BY <1>1, <1>2, <1>3 DEF Typed, GoodWk
<1>6. inbox' = IF session.up /\ Attached(v, session) THEN inbox \o SettledMessages(v) ELSE inbox
  BY <1>2 DEF ToSession, AttachedTo, Attached
<1>7. OInv(Settled(v), session, inbox', client, claims, applied, misfiled)
  BY <1>1, <1>4, <1>5, <1>6, SettledOnce
<1> QED
  BY <1>2, <1>7

LEMMA DetachedSame ==
    ASSUME NEW w \in WkState, NEW g, NEW id
    PROVE  SameRecords(w, Detached(w)) /\ SameRecords(w, DetachCall(w, g, id))
BY DEF SameRecords, Detached, DetachCall, WkState

LEMMA LostOnce ==
    ASSUME OnceInv, ConsumerLost \/ GenerationLost
    PROVE  OInv(wk', session', inbox', client', claims', applied', misfiled')
<1>1. /\ OInv(wk, session, inbox, client, claims, applied, misfiled)
      /\ wk \in WkState /\ claims \subseteq ClaimRows
  BY OnceTyped DEF OnceInv
<1>2. /\ wk' = Detached(wk) \/ wk' = NoGeneration(wk.opened)
      /\ session' = session /\ client' = client /\ claims' = claims
      /\ applied' = applied /\ misfiled' = misfiled /\ inbox' = inbox
  BY DEF ConsumerLost, GenerationLost, Database
<1>3. OInv(Detached(wk), session, inbox, client, claims, applied, misfiled)
  BY <1>1, DetachedSame, QuietOnce
<1>4. OInv(NoGeneration(wk.opened), session, inbox, client, claims, applied, misfiled)
  BY <1>1, GoneOnce
<1> QED
  BY <1>2, <1>3, <1>4

-----------------------------------------------------------------------------
(* The client's steps.                                                     *)

LEMMA OpenFreshOnce ==
    ASSUME OnceInv, NEW w, w.opened = wk.opened, OpenFresh(w),
           client.phase \in {"connecting", "replacing"},
           UNCHANGED <<session, claims, applied, misfiled>>
    PROVE  OInv(wk', session', inbox', client', claims', applied', misfiled')
<1>1. /\ OInv(wk, session, inbox, client, claims, applied, misfiled)
      /\ claims \subseteq ClaimRows /\ client \in ClientState
  BY OnceTyped DEF OnceInv, PInv, GoodClient
<1>2. /\ wk' = Opened(wk, session.id) /\ inbox' = inbox
      /\ client' = [client EXCEPT !.phase = "up", !.gen = wk.opened + 1]
  BY DEF OpenFresh, Opened
<1>3. /\ client'.phase = "up" /\ client'.gen = wk.opened + 1
      /\ client'.todo = client.todo /\ client'.emitted = client.emitted
  BY <1>1, <1>2 DEF ClientState
<1>4. OInv(wk', session, inbox, client', claims, applied, misfiled)
  BY <1>1, <1>2, <1>3, OpenedOnce
<1> QED
  BY <1>2, <1>4

LEMMA ClientOpensOnce ==
    ASSUME OnceInv, ClientOpens \/ ClientReplaces
    PROVE  OInv(wk', session', inbox', client', claims', applied', misfiled')
<1>1. CASE ClientOpens
  BY <1>1, OpenFreshOnce DEF ClientOpens, Database
<1>2. CASE ClientReplaces
  <2>1. CloseCall(wk, client.gen).opened = wk.opened
    BY DEF CloseCall, NoGeneration
  <2> QED
    BY <1>2, <2>1, OpenFreshOnce DEF ClientReplaces, Database
<1> QED
  BY <1>1, <1>2

LEMMA ClientAttachesOnce ==
    ASSUME OnceInv, ClientAttaches
    PROVE  OInv(wk', session', inbox', client', claims', applied', misfiled')
<1> DEFINE v == [Detached(wk) EXCEPT !.consumer = session.id]
<1>1. /\ OInv(wk, session, inbox, client, claims, applied, misfiled)
      /\ Typed(wk, session, inbox, client) /\ wk \in WkState /\ claims \subseteq ClaimRows
      /\ client \in ClientState /\ session.id \in 0..MaxSessions
  BY OnceTyped, SessionFields DEF OnceInv, PInv, GoodClient
<1>2. /\ client.phase = "connecting" /\ wk.gen # 0
      /\ wk' = Settled(v) /\ inbox' = inbox \o SettledMessages(v)
      /\ session' = session /\ claims' = claims /\ applied' = applied /\ misfiled' = misfiled
      /\ \/ client' = [client EXCEPT !.phase = "up", !.gen = wk.gen]
         \/ client' = [client EXCEPT !.phase = "replacing", !.gen = wk.gen]
  BY DEF ClientAttaches, Database
<1>3. /\ v.gen = wk.gen /\ v.opened = wk.opened /\ v.last = wk.last
      /\ v.retained = wk.retained /\ v.inFlight = {} /\ v.ackedThrough = wk.ackedThrough
      /\ v.consumer = session.id /\ v \in WkState
  <2>1. Detached(wk) \in WkState
    BY <1>1, DetachedContinues DEF Continues
  <2> QED
    BY <1>1, <2>1 DEF Detached, WkState
<1>4. /\ client'.phase \in {"replacing", "up"} /\ client'.gen = wk.gen
      /\ client'.todo = client.todo /\ client'.emitted = client.emitted /\ client' \in ClientState
  BY <1>1, <1>2 DEF ClientState, WkState
<1>5. ~client.emitted /\ session.up /\ session.id # 0
  BY <1>1, <1>2, Connecting
<1> HIDE DEF v
<1>6. OInv(v, session, inbox, client', claims, applied, misfiled)
  BY <1>1, <1>2, <1>3, <1>4, <1>5, AttachedOnce
<1>7. Typed(v, session, inbox, client')
  BY <1>1, <1>3, <1>4, <1>5 DEF Typed, GoodWk, GoodClient
<1>8. v.gen # 0 /\ Attached(v, session)
  BY <1>2, <1>3, <1>5 DEF Attached
<1>9. inbox' = IF session.up /\ Attached(v, session) THEN inbox \o SettledMessages(v) ELSE inbox
  BY <1>2, <1>5, <1>8
<1>10. OInv(Settled(v), session, inbox', client', claims, applied, misfiled)
  BY <1>1, <1>6, <1>7, <1>8, <1>9, SettledOnce
<1> QED
  BY <1>2, <1>10

LEMMA ClientExitsOnce ==
    ASSUME OnceInv, ClientFails \/ ClientRefused \/ ClientCloses
    PROVE  OInv(wk', session', inbox', client', claims', applied', misfiled')
<1>1. /\ OInv(wk, session, inbox, client, claims, applied, misfiled)
      /\ inbox \in Seq(KnownMessages(wk.opened))
      /\ Signal("down") \in KnownMessages(wk.opened)
  BY OnceTyped, SignalsKnown DEF OnceInv
<1>2. Signal("down").kind = "down"
  BY DEF Signal, Message
<1>3. /\ client.phase # "none" /\ client' = NoClient /\ inbox' = Append(inbox, Signal("down"))
      /\ wk' = wk /\ session' = session /\ claims' = claims
      /\ applied' = applied /\ misfiled' = misfiled
  BY DEF ClientFails, ClientRefused, ClientCloses, ClientExits, Database
<1>4. PICK m \in KnownMessages(wk.opened) : m = Signal("down")
  BY <1>1
<1>5. OInv(wk, session, inbox', NoClient, claims, applied, misfiled)
  BY <1>1, <1>2, <1>3, <1>4, ExitedOnce
<1> QED
  BY <1>3, <1>5

LEMMA ClientEventsOnce ==
    ASSUME OnceInv, PInv', ClientEvents
    PROVE  OInv(wk', session', inbox', client', claims', applied', misfiled')
<1> DEFINE d == Head(client.todo)
           K == KnownMessages(wk.opened)
<1>1. /\ PInv /\ OInv(wk, session, inbox, client, claims, applied, misfiled)
      /\ inbox \in Seq(K) /\ client.todo \in Seq(KnownDeliveries(wk.opened))
      /\ client \in ClientState
  BY OnceTyped DEF OnceInv, PInv, GoodClient
<1>2. /\ client.phase = "up" /\ client.todo # <<>> /\ ~client.emitted
      /\ d.kind = "data" /\ d.gen = client.gen
      /\ inbox' = inbox \o [i \in 1..Effects |-> Message("event", d.gen, d.seq, i)]
      /\ client' = [client EXCEPT !.emitted = TRUE]
      /\ wk' = wk /\ session' = session /\ claims' = claims
      /\ applied' = applied /\ misfiled' = misfiled
  BY DEF ClientEvents, Database
<1>3. PICK ms : ms = [i \in 1..Effects |-> Message("event", d.gen, d.seq, i)]
  OBVIOUS
<1>4. /\ Len(ms) = Effects /\ (\A i \in 1..Effects : ms[i] = Message("event", d.gen, d.seq, i))
      /\ ms \in Seq(K) /\ inbox' = inbox \o ms
  <2>1. /\ d.gen \in OpenedBy(wk.opened) /\ d.gen \in 0..MaxGenerations
        /\ d.seq \in Sequences /\ d.seq \in 0..MaxSequence
    BY <1>1, <1>2, TodoHead, Bounds DEF KnownDeliveries, OpenedBy, Generations
  <2>2. \A i \in 1..Effects : Message("event", d.gen, d.seq, i) \in K
    BY <2>1, Bounds DEF Message, KnownMessages, Messages
  <2>3. ms \in [1..Effects -> K]
    BY <1>3, <2>2
  <2>4. ms \in Seq(K) /\ Len(ms) = Effects
    BY <2>3, Bounds, LenProperties
  <2> QED
    BY <1>2, <1>3, <2>4
<1> HIDE DEF K, d
<1>5. /\ client'.phase = client.phase /\ client'.gen = client.gen
      /\ client'.todo = client.todo /\ client'.emitted
  BY <1>1, <1>2 DEF ClientState
<1>6. \A m \in Works(inbox') : Step(m) >= 1
  <2>1. Works(inbox') = Works(inbox) \cup Works(ms)
    BY <1>1, <1>4, InboxViews
  <2>2. \A m \in Works(inbox) : Step(m) >= 1
    BY <1>1 DEF OInv, Life
  <2>3. \A m \in Works(ms) : Step(m) >= 1
    BY <1>4, Bounds DEF Works, Items, Step, Message
  <2> QED
    BY <2>1, <2>2, <2>3
<1>7. Numbers(wk, session, client', Works(inbox'), Arrivals(inbox'))
  BY <1>2, <1>6, NextNumbers
<1>8. OInv(wk, session, inbox', client', claims, applied, misfiled)
  BY <1>1, <1>2, <1>4, <1>5, <1>7, EmitOnce DEF d
<1> QED
  BY <1>2, <1>8

LEMMA ClientAcceptsOnce ==
    ASSUME OnceInv, PInv', ClientAccepts
    PROVE  OInv(wk', session', inbox', client', claims', applied', misfiled')
<1> DEFINE d == Head(client.todo)
           K == KnownMessages(wk.opened)
<1>1. /\ PInv /\ OInv(wk, session, inbox, client, claims, applied, misfiled)
      /\ inbox \in Seq(K) /\ client.todo \in Seq(KnownDeliveries(wk.opened))
      /\ client \in ClientState /\ GoodClient(client, wk.opened)
  BY OnceTyped DEF OnceInv, PInv, GoodClient
<1>2. PICK n : n = Message("accepted", d.gen, d.seq, 0)
  OBVIOUS
<1>3. /\ client.emitted /\ inbox' = Append(inbox, n)
      /\ client' = [client EXCEPT !.emitted = FALSE, !.todo = Tail(@)]
      /\ wk' = wk /\ session' = session /\ claims' = claims
      /\ applied' = applied /\ misfiled' = misfiled
      /\ client.todo # <<>> /\ d.kind = "data"
  BY <1>1, <1>2 DEF ClientAccepts, Database, GoodClient
<1>4. n \in K
  <2>1. /\ d.gen \in OpenedBy(wk.opened) /\ d.gen \in 0..MaxGenerations
        /\ d.seq \in Sequences /\ d.seq \in 0..MaxSequence
    BY <1>1, <1>3, TodoHead, Bounds DEF KnownDeliveries, OpenedBy, Generations
  <2> QED
    BY <1>2, <2>1, Bounds DEF Message, KnownMessages, Messages
<1> HIDE DEF K
<1>5. PICK ms : ms = <<n>>
  OBVIOUS
<1>6. ms \in Seq(K) /\ Items(ms) = {n} /\ InboxOrdered(ms) /\ inbox' = inbox \o ms
  BY <1>1, <1>3, <1>4, <1>5, Single, AppendIsConcatenation
<1>7. /\ client'.phase = client.phase /\ client'.gen = client.gen
      /\ client'.todo = Tail(client.todo) /\ ~client'.emitted
  BY <1>1, <1>3 DEF ClientState
<1>8. \A m \in Works(inbox') : Step(m) >= 1
  <2>1. Works(inbox') = Works(inbox) \cup Works(ms)
    BY <1>1, <1>6, InboxViews
  <2>2. \A m \in Works(inbox) : Step(m) >= 1
    BY <1>1 DEF OInv, Life
  <2>3. \A m \in Works(ms) : Step(m) >= 1
    BY <1>2, <1>6, Bounds DEF Works, Step, Message
  <2> QED
    BY <2>1, <2>2, <2>3
<1>9. Numbers(wk, session, client', Works(inbox'), Arrivals(inbox'))
  BY <1>3, <1>8, NextNumbers
<1> HIDE DEF d
<1>10. OInv(wk, session, inbox', client', claims, applied, misfiled)
  BY <1>1, <1>2, <1>3, <1>6, <1>7, <1>9, AcceptOnce DEF d
<1> QED
  BY <1>3, <1>10

LEMMA ClientIgnoresStaleOnce ==
    ASSUME OnceInv, ClientIgnoresStale
    PROVE  OInv(wk', session', inbox', client', claims', applied', misfiled')
<1>1. /\ OInv(wk, session, inbox, client, claims, applied, misfiled)
      /\ client.todo \in Seq(KnownDeliveries(wk.opened)) /\ client \in ClientState
  BY OnceTyped DEF OnceInv, PInv, GoodClient
<1>2. /\ client.phase = "up" /\ client.todo # <<>> /\ Head(client.todo).gen # client.gen
      /\ client' = [client EXCEPT !.todo = Tail(@)]
      /\ wk' = wk /\ session' = session /\ claims' = claims /\ inbox' = inbox
      /\ applied' = applied /\ misfiled' = misfiled
  BY DEF ClientIgnoresStale, Database
<1>3. /\ client'.phase = client.phase /\ client'.gen = client.gen
      /\ client'.todo = Tail(client.todo) /\ client'.emitted = client.emitted
  BY <1>1, <1>2 DEF ClientState
<1>4. OInv(wk, session, inbox, client', claims, applied, misfiled)
  BY <1>1, <1>2, <1>3, IgnoredOnce
<1> QED
  BY <1>2, <1>4

-----------------------------------------------------------------------------
(* The Session's steps.                                                    *)

\* The first message and what is behind it.
LEMMA FirstMessage ==
    ASSUME OnceInv, inbox # <<>>
    PROVE  /\ client.phase # "connecting"
           /\ Tail(inbox) \in Seq(KnownMessages(wk.opened))
           /\ Works(Tail(inbox)) \subseteq Works(inbox)
           /\ IsWork(Head(inbox)) => Head(inbox) \in Works(inbox)
           /\ \A s2, c2 : GoodSession(s2, wk.opened) /\ GoodClient(c2, wk.opened)
                => Numbers(wk, s2, c2, Works(Tail(inbox)), Arrivals(Tail(inbox)))
<1>1. /\ PInv /\ OInv(wk, session, inbox, client, claims, applied, misfiled)
      /\ Typed(wk, session, inbox, client) /\ inbox \in Seq(KnownMessages(wk.opened))
  BY OnceTyped DEF OnceInv
<1>2. client.phase # "connecting"
  BY <1>1, Connecting
<1>3. PICK t : t = Tail(inbox)
  OBVIOUS
<1>4. t \in Seq(KnownMessages(wk.opened)) /\ Items(inbox) = {Head(inbox)} \cup Items(t)
  BY <1>1, <1>3, HeadAndTail
<1>5. Works(t) \subseteq Works(inbox) /\ (IsWork(Head(inbox)) => Head(inbox) \in Works(inbox))
  BY <1>4 DEF Works
<1>6. \A m \in Works(t) : Step(m) >= 1
  BY <1>1, <1>5 DEF OInv, Life
<1>7. ASSUME NEW s2, NEW c2, GoodSession(s2, wk.opened), GoodClient(c2, wk.opened)
      PROVE  Numbers(wk, s2, c2, Works(t), Arrivals(t))
  <2>1. Typed(wk, s2, t, c2)
    BY <1>1, <1>4, <1>7 DEF Typed
  <2> QED
    BY <1>6, <2>1, NumbersFollow
<1> QED
  BY <1>2, <1>3, <1>4, <1>5, <1>7

LEMMA ClosureTold ==
    ASSUME PInv, client.phase # "connecting", NEW g \in OpenedBy(wk.opened),
           NEW w, NEW s, NEW b, NEW cl, NEW ap, NEW mi, OInv(w, s, b, client, cl, ap, mi)
    PROVE  OInv(w, s, b, ToClient("closed", g, 0), cl, ap, mi)
<1>1. PICK n : n = [kind |-> "closed", gen |-> g, seq |-> 0]
  OBVIOUS
<1>2. n \in KnownDeliveries(wk.opened) /\ n.kind = "closed"
  BY <1>1, Bounds DEF KnownDeliveries, OpenedBy
<1>3. client.todo \in Seq(KnownDeliveries(wk.opened)) /\ client \in ClientState
  BY OnceTyped DEF PInv, GoodClient
<1>4. CASE client.phase = "none"
  BY <1>4 DEF ToClient
<1>5. CASE client.phase # "none"
  <2>1. PICK c2 : c2 = [client EXCEPT !.todo = Append(@, n)]
    OBVIOUS
  <2>2. ToClient("closed", g, 0) = c2
    BY <1>1, <1>5, <2>1 DEF ToClient
  <2>3. /\ c2.phase = client.phase /\ c2.gen = client.gen
        /\ c2.emitted = client.emitted /\ c2.todo = Append(client.todo, n)
    BY <1>3, <2>1 DEF ClientState
  <2>4. OInv(w, s, b, c2, cl, ap, mi)
    BY <1>2, <1>3, <1>5, <2>3, ToldOnce
  <2> QED
    BY <2>2, <2>4
<1> QED
  BY <1>4, <1>5

LEMMA TakeDataOnce ==
    ASSUME OnceInv, PInv', TakeData
    PROVE  OInv(wk', session', inbox', client', claims', applied', misfiled')
<1> DEFINE m == Head(inbox)
           K == KnownMessages(wk.opened)
<1>1. /\ PInv /\ OInv(wk, session, inbox, client, claims, applied, misfiled)
      /\ inbox \in Seq(K) /\ session.receipts \in Seq(KnownReceipts(wk.opened))
      /\ client.todo \in Seq(KnownDeliveries(wk.opened)) /\ session \in SessionState
      /\ client \in ClientState /\ GoodClient(client, wk.opened) /\ GoodSession(session, wk.opened)
  BY OnceTyped DEF OnceInv, PInv, GoodClient, GoodSession
<1>2. /\ inbox # <<>> /\ m.kind = "data" /\ inbox' = Tail(inbox)
      /\ wk' = wk /\ claims' = claims /\ applied' = applied /\ misfiled' = misfiled
  BY DEF TakeData, Takes, Taken, Database
<1>3. CASE ~session.client \/ session.retrying
  <2>1. session' = session /\ client' = client
    BY <1>3 DEF TakeData
  <2>2. Clear(session) => client.phase = "none"
    BY <1>1, <1>3 DEF OInv, Life, Clear
  <2>3. Numbers(wk, session, client, Works(inbox'), Arrivals(inbox'))
    BY <1>1, <1>2, FirstMessage
  <2> HIDE DEF K
  <2>4. OInv(wk, session, inbox', client, claims, applied, misfiled)
    BY <1>1, <1>2, <2>2, <2>3, DroppedOnce
  <2> QED
    BY <1>2, <2>1, <2>4
<1>4. CASE ~(~session.client \/ session.retrying)
  <2>1. PICK r : r = Receipt(m.gen, m.seq)
    OBVIOUS
  <2>2. PICK d : d = [kind |-> "data", gen |-> m.gen, seq |-> m.seq]
    OBVIOUS
  <2>3. /\ session' = [session EXCEPT !.receipts = Append(@, r)]
        /\ client' = IF client.phase = "none" THEN client
                     ELSE [client EXCEPT !.todo = Append(@, d)]
    BY <1>4, <2>1, <2>2 DEF TakeData, ToClient
  <2>4. /\ r \in KnownReceipts(wk.opened) /\ d \in KnownDeliveries(wk.opened)
        /\ SameRecord(r, m) /\ SameRecord(d, m) /\ d.kind = "data"
    <3>1. /\ m.gen \in OpenedBy(wk.opened) /\ m.seq \in Sequences /\ m.seq \in 0..MaxSequence
          /\ Receipt(m.gen, m.seq) \in KnownReceipts(wk.opened)
      BY <1>1, <1>2, HeadSpeaks
    <3> QED
      BY <2>1, <2>2, <3>1 DEF KnownDeliveries, SameRecord, Receipt
  <2>5. /\ session'.receipts = Append(session.receipts, r) /\ session'.index = session.index
        /\ SameButQueue(session, session')
    BY <1>1, <2>3 DEF SameButQueue, SessionState
  <2>6. /\ client'.phase = client.phase /\ client'.gen = client.gen
        /\ client'.emitted = client.emitted
        /\ client'.todo = IF client.phase = "none" THEN client.todo ELSE Append(client.todo, d)
    BY <1>1, <2>3 DEF ClientState
  <2>7. Numbers(wk, session', client', Works(inbox'), Arrivals(inbox'))
    <3>1. \A x \in Works(inbox') : Step(x) >= 1
      BY <1>1, <1>2, FirstMessage DEF OInv, Life
    <3> QED
      BY <1>2, <3>1, NextNumbers
  <2> HIDE DEF K, m
  <2>8. OInv(wk, session', inbox', client', claims, applied, misfiled)
    BY <1>1, <1>2, <2>4, <2>5, <2>6, <2>7, ArrivalOnce DEF m
  <2> QED
    BY <1>2, <2>8
<1> QED
  BY <1>3, <1>4

LEMMA DroppedInRetryOnce ==
    ASSUME OnceInv, TakeBlockedEvent \/ TakeAcceptedInRetry
    PROVE  OInv(wk', session', inbox', client', claims', applied', misfiled')
<1>1. /\ PInv /\ OInv(wk, session, inbox, client, claims, applied, misfiled)
      /\ inbox \in Seq(KnownMessages(wk.opened))
      /\ GoodClient(client, wk.opened) /\ GoodSession(session, wk.opened)
  BY OnceTyped DEF OnceInv, PInv
<1>2. /\ inbox # <<>> /\ IsWork(Head(inbox)) /\ inbox' = Tail(inbox) /\ ~Clear(session)
      /\ wk' = wk /\ session' = session /\ client' = client
      /\ claims' = claims /\ applied' = applied /\ misfiled' = misfiled
  BY DEF TakeBlockedEvent, TakeAcceptedInRetry, Takes, Taken, Database, IsWork, Clear, Blocked
<1>3. Numbers(wk, session, client, Works(inbox'), Arrivals(inbox'))
  BY <1>1, <1>2, FirstMessage
<1>4. OInv(wk, session, inbox', client, claims, applied, misfiled)
  BY <1>1, <1>2, <1>3, DroppedOnce
<1> QED
  BY <1>2, <1>4

LEMMA OfFailureOnce ==
    ASSUME OnceInv, TakeAcceptedOfFailure
    PROVE  OInv(wk', session', inbox', client', claims', applied', misfiled')
<1> DEFINE s2 == [session EXCEPT !.retrying = TRUE]
           m == Head(inbox)
           c2 == ToClient("closed", m.gen, 0)
<1>1. /\ PInv /\ OInv(wk, session, inbox, client, claims, applied, misfiled)
      /\ inbox \in Seq(KnownMessages(wk.opened)) /\ wk \in WkState /\ session \in SessionState
      /\ GoodClient(client, wk.opened) /\ GoodSession(session, wk.opened)
  BY OnceTyped DEF OnceInv, PInv, GoodSession
<1>2. /\ inbox # <<>> /\ m.kind = "accepted" /\ IsWork(m) /\ inbox' = Tail(inbox)
      /\ session' = s2 /\ client' = c2
      /\ claims' = claims /\ applied' = applied /\ misfiled' = misfiled
      /\ wk' = DetachCall(wk, m.gen, session.id) \/ wk' = wk
  BY DEF TakeAcceptedOfFailure, Takes, Taken, Database, IsWork
<1>3. /\ s2.receipts = session.receipts /\ s2.id = session.id /\ s2.up = session.up
      /\ s2.client = session.client /\ s2.timer = session.timer /\ ~Clear(s2)
      /\ GoodSession(s2, wk.opened)
  BY <1>1 DEF SessionState, Clear, GoodSession
<1>4. m.gen \in OpenedBy(wk.opened) /\ client.phase # "connecting"
  BY <1>1, <1>2, HeadSpeaks, FirstMessage
<1>5. Numbers(wk, s2, client, Works(inbox'), Arrivals(inbox'))
  BY <1>1, <1>2, <1>3, FirstMessage
<1> HIDE DEF s2
<1>6. OInv(wk, s2, inbox', client, claims, applied, misfiled)
  BY <1>1, <1>2, <1>3, <1>5, DroppedOnce
<1>7. OInv(wk, s2, inbox', c2, claims, applied, misfiled)
  BY <1>1, <1>4, <1>6, ClosureTold
<1> HIDE DEF c2
<1>8. SameRecords(wk, DetachCall(wk, m.gen, session.id))
  BY <1>1, DetachedSame
<1>9. OInv(DetachCall(wk, m.gen, session.id), s2, inbox', c2, claims, applied, misfiled)
  BY <1>7, <1>8, QuietOnce
<1> QED
  BY <1>2, <1>7, <1>9

LEMMA EventKnown ==
    ASSUME OnceInv, inbox # <<>>, Head(inbox).kind = "event"
    PROVE  LET m == Head(inbox)
           IN  /\ EffectOf(m.gen, m.seq, m.effect) \in EffectIds
               /\ m \in Works(inbox) /\ \A n \in Works(inbox) : n = m \/ Before(m, n)
               /\ wk.gen # 0 => m.gen = wk.gen
<1> DEFINE m == Head(inbox)
<1>1. /\ PInv /\ OInv(wk, session, inbox, client, claims, applied, misfiled)
      /\ inbox \in Seq(KnownMessages(wk.opened))
  BY OnceTyped DEF OnceInv
<1>2. m \in Works(inbox) /\ IsWork(m)
  BY FirstMessage DEF IsWork
<1>3. InboxOrdered(inbox) /\ Numbers(wk, session, client, Works(inbox), Arrivals(inbox))
  BY <1>1 DEF OInv, Ordered
<1>4. PICK t : t = Tail(inbox)
  OBVIOUS
<1>5. Works(t) = Works(inbox) \ {m} /\ \A n \in Works(t) : Before(m, n)
  BY <1>1, <1>2, <1>3, <1>4, PoppedInbox
<1>6. m.effect \in 1..Effects
  <2>1. Step(m) = m.effect
    BY DEF Step
  <2>2. Step(m) \in Nat /\ Step(m) >= 1 /\ Step(m) <= Effects
    BY <1>2, <1>3, WorkNumbers
  <2> QED
    BY <2>1, <2>2, Bounds
<1>7. m.gen \in Generations /\ m.seq \in Sequences
  BY <1>1, HeadSpeaks
<1>8. wk.gen # 0 => m.gen = wk.gen
  BY <1>1, <1>2 DEF OInv, Life
<1> QED
  BY <1>2, <1>5, <1>6, <1>7, <1>8 DEF EffectOf, EffectIds

LEMMA TakeEventOnce ==
    ASSUME OnceInv, PInv', TakeEvent
    PROVE  /\ OInv(wk', session', inbox', client', claims', applied', misfiled')
           /\ misfiled \subseteq misfiled' /\ \A e \in EffectIds : applied'[e] >= applied[e]
<1> DEFINE m == Head(inbox)
           K == KnownMessages(wk.opened)
<1>1. /\ PInv /\ OInv(wk, session, inbox, client, claims, applied, misfiled)
      /\ inbox \in Seq(K) /\ session.receipts \in Seq(KnownReceipts(wk.opened))
      /\ session \in SessionState /\ session.receipts \in Seq(Receipts)
      /\ Rows(claims, applied, misfiled) /\ wk \in WkState
  BY OnceTyped DEF OnceInv, PInv, GoodSession, GoodRows, Rows, SessionState
<1>2. /\ inbox # <<>> /\ m.kind = "event" /\ inbox' = Tail(inbox) /\ Clear(session)
      /\ wk' = wk /\ client' = client
  BY DEF TakeEvent, Takes, Taken, Blocked, Clear
<1>3. FiledUnder(session) = Filed
  BY DEF FiledUnder, Filed, First
<1>4. EventHandled(session, m, claims, applied, misfiled, session', claims', applied', misfiled')
  <2>1. session' = [session EXCEPT !.index = IF Filed = {} THEN @ ELSE @ + 1]
    BY DEF TakeEvent
  <2>2. /\ session'.receipts = session.receipts /\ SameButQueue(session, session')
        /\ session'.index = IF Filed = {} THEN session.index ELSE session.index + 1
    BY <1>1, <2>1 DEF SameButQueue, SessionState
  <2>3. misfiled' = IF Filed = {Rec(m)} THEN misfiled ELSE misfiled \cup {Rec(m)}
    BY DEF TakeEvent, Rec
  <2>4. Claim(m, RowsOf(session))
    BY <1>3 DEF TakeEvent, RowsOf
  <2> QED
    BY <1>3, <2>2, <2>3, <2>4 DEF EventHandled, Claim, EffectOf
<1>5. EffectOf(m.gen, m.seq, m.effect) \in EffectIds
  BY <1>2, EventKnown
<1>6. Queue(session) \subseteq Receipts
  BY <1>1, ItemsOf DEF Queue
<1>7. (wk.gen # 0 => wk.gen \in Generations) /\ wk.retained \subseteq Sequences
  BY <1>1, Bounds DEF WkState, Generations
<1>8. Numbers(wk, session', client, Works(inbox'), Arrivals(inbox'))
  <2>1. \A x \in Works(inbox') : Step(x) >= 1
    BY <1>1, <1>2, FirstMessage DEF OInv, Life
  <2> QED
    BY <1>2, <2>1, NextNumbers
<1> HIDE DEF K, m
<1>9. /\ OInv(wk, session', inbox', client, claims', applied', misfiled')
      /\ misfiled \subseteq misfiled' /\ \A e \in EffectIds : applied'[e] >= applied[e]
  <2>1. /\ OInv(wk, session, inbox, client, claims, applied, misfiled)
        /\ Rows(claims, applied, misfiled) /\ inbox \in Seq(K)
        /\ session.receipts \in Seq(Receipts)
    BY <1>1
  <2>2. inbox # <<>> /\ m.kind = "event" /\ inbox' = Tail(inbox) /\ Clear(session)
    BY <1>2
  <2>3. m = Head(inbox)
    BY DEF m
  <2> QED
    BY ONLY <2>1, <2>2, <2>3, <1>4, <1>5, <1>6, <1>7, <1>8, EventOnce
<1> QED
  BY <1>2, <1>9

LEMMA EventFailsOnce ==
    ASSUME OnceInv, PInv', EventFails
    PROVE  OInv(wk', session', inbox', client', claims', applied', misfiled')
<1> DEFINE m == Head(inbox)
           K == KnownMessages(wk.opened)
<1>1. /\ PInv /\ OInv(wk, session, inbox, client, claims, applied, misfiled)
      /\ inbox \in Seq(K) /\ session.receipts \in Seq(KnownReceipts(wk.opened))
      /\ session \in SessionState /\ session.receipts \in Seq(Receipts)
  BY OnceTyped DEF OnceInv, PInv, GoodSession, SessionState
<1>2. /\ inbox # <<>> /\ m.kind = "event" /\ inbox' = Tail(inbox) /\ Clear(session)
      /\ wk' = wk /\ client' = client /\ claims' = claims
      /\ applied' = applied /\ misfiled' = misfiled
      /\ session' = [session EXCEPT !.index = IF Filed = {} THEN @ ELSE @ + 1,
                                    !.failed = Filed # {}]
  BY DEF EventFails, Takes, Taken, Blocked, Clear, Database
<1>3. wk.gen # 0 => session.receipts # <<>>
  <2> SUFFICES ASSUME wk.gen # 0 PROVE session.receipts # <<>>
    OBVIOUS
  <2>1. /\ m \in Works(inbox) /\ (\A n \in Works(inbox) : n = m \/ Before(m, n)) /\ m.gen = wk.gen
    BY <1>2, EventKnown
  <2>2. Queue(session) \subseteq Receipts
    BY <1>1, ItemsOf DEF Queue
  <2>3. /\ Numbers(wk, session, client, Works(inbox), Arrivals(inbox))
        /\ QueueOrdered(session.receipts)
        /\ \/ InStep(wk.gen, session, client, Works(inbox))
           \/ Lagging(wk.gen, session, client, Works(inbox), misfiled)
           \/ Stale(wk.gen, session, client, Works(inbox), misfiled)
    BY <1>1, <1>2 DEF OInv, Ordered, Mode
  <2> HIDE DEF m, K
  <2> QED
    BY <1>1, <1>2, <2>1, <2>2, <2>3, EventFiled
<1>4. /\ session'.receipts = session.receipts /\ session'.id = session.id
      /\ session'.up = session.up /\ session'.client = session.client
      /\ session'.timer = session.timer /\ (wk.gen # 0 => session'.failed)
  BY <1>1, <1>2, <1>3 DEF SessionState, Filed
<1>5. Numbers(wk, session', client, Works(inbox'), Arrivals(inbox'))
  <2>1. \A x \in Works(inbox') : Step(x) >= 1
    BY <1>1, <1>2, FirstMessage DEF OInv, Life
  <2> QED
    BY <1>2, <2>1, NextNumbers
<1>6. IsWork(m) /\ (wk.gen # 0 => ~Clear(session'))
  BY <1>2, <1>4 DEF IsWork, Clear
<1> HIDE DEF m, K
<1>7. OInv(wk, session', inbox', client, claims, applied, misfiled)
  BY <1>1, <1>2, <1>4, <1>5, <1>6, DroppedOnce DEF m
<1> QED
  BY <1>2, <1>7

LEMMA NoticeTakenOnce ==
    ASSUME OnceInv, TakeUpstreamClosed \/ TakeOverflow
    PROVE  OInv(wk', session', inbox', client', claims', applied', misfiled')
<1> DEFINE g == Head(inbox).gen
           c2 == ToClient("closed", g, 0)
<1>1. /\ PInv /\ OInv(wk, session, inbox, client, claims, applied, misfiled)
      /\ inbox \in Seq(KnownMessages(wk.opened)) /\ claims \subseteq ClaimRows
  BY OnceTyped DEF OnceInv
<1>2. /\ inbox # <<>> /\ IsNoise(Head(inbox)) /\ inbox' = Tail(inbox) /\ session' = session
      /\ claims' = claims /\ applied' = applied /\ misfiled' = misfiled
      /\ client' = client \/ client' = c2
      /\ wk' = wk \/ wk' = NoGeneration(wk.opened)
  BY DEF TakeUpstreamClosed, TakeOverflow, CloseCall, Takes, Taken, Database, IsNoise
<1>3. g \in OpenedBy(wk.opened) /\ client.phase # "connecting"
  BY <1>1, <1>2, HeadSpeaks, FirstMessage DEF IsNoise
<1>4. OInv(wk, session, inbox', client, claims, applied, misfiled)
  BY <1>1, <1>2, NoticeOnce
<1>5. OInv(wk, session, inbox', c2, claims, applied, misfiled)
  BY <1>1, <1>3, <1>4, ClosureTold
<1> HIDE DEF c2
<1>6. /\ OInv(NoGeneration(wk.opened), session, inbox', client, claims, applied, misfiled)
      /\ OInv(NoGeneration(wk.opened), session, inbox', c2, claims, applied, misfiled)
  BY <1>1, <1>4, <1>5, GoneOnce
<1> QED
  BY <1>2, <1>4, <1>5, <1>6

\* Only who is alive changes, while there is no client.
LEMMA AwayOnce ==
    ASSUME NEW w, NEW s, NEW b, NEW c, NEW cl, NEW ap, NEW mi, OInv(w, s, b, c, cl, ap, mi),
           NEW s2, s2.receipts = s.receipts, s2.index = s.index, s2.id = s.id, s2.up = s.up,
           s2.failed = s.failed, s2.retrying = s.retrying,
           NEW b2, InboxOrdered(b2), Works(b2) = Works(b), Arrivals(b2) = Arrivals(b),
           Life(w, s2, b2, c)
    PROVE  OInv(w, s2, b2, c, cl, ap, mi)
<1> DEFINE W == Works(b)
           A == Arrivals(b)
<1>1. /\ Numbers(w, s, c, W, A) /\ Ordered(s, b, c) /\ Window(w)
      /\ Staged(s, c, W, A) /\ Spanned(w, s, c, W, A) /\ Mode(w.gen, s, c, W, mi)
      /\ Progress(w, s, c, W, A, ap, mi) /\ Tallied(w, cl, ap, mi)
  BY DEF OInv
<1>2. /\ Queue(s2) = Queue(s) /\ First(s2) = First(s)
      /\ (Clear(s2) <=> Clear(s)) /\ (Attached(w, s2) <=> Attached(w, s))
      /\ \A x : Queued(s2, x) <=> Queued(s, x)
      /\ \A x : AtFirst(s2, x) <=> AtFirst(s, x)
      /\ \A x, k : Handled(s2, x, k) <=> Handled(s, x, k)
  BY DEF Queue, First, Clear, Attached, Queued, AtFirst, Handled
<1> HIDE DEF W, A
<1>3. Numbers(w, s2, c, W, A)
  BY <1>1, <1>2 DEF Numbers
<1>4. Ordered(s2, b2, c)
  BY <1>1 DEF Ordered
<1>5. Staged(s2, c, W, A) /\ Spanned(w, s2, c, W, A)
  BY <1>1, <1>2 DEF Staged, Spanned
<1>6. Mode(w.gen, s2, c, W, mi)
  <2>1. InStep(w.gen, s, c, W) => InStep(w.gen, s2, c, W)
    BY <1>2 DEF InStep
  <2>2. Lagging(w.gen, s, c, W, mi) => Lagging(w.gen, s2, c, W, mi)
    BY <1>2 DEF Lagging
  <2>3. Stale(w.gen, s, c, W, mi) => Stale(w.gen, s2, c, W, mi)
    BY <1>2 DEF Stale
  <2> QED
    BY <1>1, <1>2, <2>1, <2>2, <2>3 DEF Mode
<1>7. Progress(w, s2, c, W, A, ap, mi)
  BY <1>1, <1>2 DEF Progress
<1> QED
  BY <1>1, <1>3, <1>4, <1>5, <1>6, <1>7 DEF OInv, W, A

LEMMA TakeDownOnce ==
    ASSUME OnceInv, TakeDown
    PROVE  OInv(wk', session', inbox', client', claims', applied', misfiled')
<1> DEFINE v == DetachCall(wk, wk.gen, session.id)
           K == KnownMessages(wk.opened)
<1>1. /\ PInv /\ OInv(wk, session, inbox, client, claims, applied, misfiled)
      /\ inbox \in Seq(K) /\ wk \in WkState /\ session \in SessionState
  BY OnceTyped DEF OnceInv, PInv, GoodSession
<1>2. /\ session.up /\ inbox # <<>> /\ Head(inbox).kind = "down" /\ inbox' = Tail(inbox)
      /\ wk' = v /\ client' = client
      /\ session' = [session EXCEPT !.client = FALSE, !.timer = TRUE]
      /\ claims' = claims /\ applied' = applied /\ misfiled' = misfiled
  BY DEF TakeDown, Takes, Taken, Database
<1>3. OInv(v, session, inbox, client, claims, applied, misfiled)
  BY <1>1, DetachedSame, QuietOnce
<1>4. v.consumer # session.id
  <2>1. session.id >= 1 /\ session.id \in Nat
    BY <1>1, <1>2, SessionFields, Bounds DEF OInv, Life
  <2> QED
    BY <1>1, <2>1 DEF DetachCall, Detached, WkState
<1> HIDE DEF v
<1>5. /\ InboxOrdered(inbox) /\ Life(v, session, inbox, client)
      /\ Numbers(v, session, client, Works(inbox), Arrivals(inbox))
  BY <1>3 DEF OInv, Ordered
<1>6. PICK t : t = Tail(inbox)
  OBVIOUS
<1>7. /\ InboxOrdered(t) /\ Works(inbox) = {} /\ Works(t) = {} /\ Lifes(t) = {}
      /\ Head(inbox) \in Lifes(inbox) /\ Arrivals(t) = Arrivals(inbox)
  <2>1. Head(inbox).kind \in LifeKinds
    BY <1>2 DEF LifeKinds
  <2> QED
    BY <1>1, <1>2, <1>5, <1>6, <2>1, PoppedInbox
<1>8. /\ session'.receipts = session.receipts /\ session'.index = session.index
      /\ session'.id = session.id /\ session'.up = session.up
      /\ session'.failed = session.failed /\ session'.retrying = session.retrying
  BY <1>1, <1>2 DEF SessionState
<1>9. client.phase = "none"
  BY <1>5, <1>7 DEF Life
<1>10. Life(v, session', t, client)
  BY <1>2, <1>4, <1>5, <1>7, <1>8, <1>9 DEF Life
<1>11. OInv(v, session', t, client, claims, applied, misfiled)
  BY <1>3, <1>7, <1>8, <1>10, AwayOnce
<1> QED
  BY <1>2, <1>6, <1>11

LEMMA RetryTimerOnce ==
    ASSUME OnceInv, RetryTimer
    PROVE  OInv(wk', session', inbox', client', claims', applied', misfiled')
<1> DEFINE K == KnownMessages(wk.opened)
<1>1. /\ PInv /\ OInv(wk, session, inbox, client, claims, applied, misfiled)
      /\ inbox \in Seq(K) /\ session \in SessionState /\ Signal("retry") \in K
  BY OnceTyped, SignalsKnown DEF OnceInv, PInv, GoodSession
<1>2. PICK m \in K : m = Signal("retry")
  BY <1>1
<1>3. /\ session.up /\ session.timer /\ session' = [session EXCEPT !.timer = FALSE]
      /\ inbox' = Append(inbox, m) /\ m.kind = "retry"
      /\ wk' = wk /\ client' = client
      /\ claims' = claims /\ applied' = applied /\ misfiled' = misfiled
  BY <1>2 DEF RetryTimer, Database, Signal, Message
<1>4. /\ Life(wk, session, inbox, client) /\ InboxOrdered(inbox) /\ Lifes(inbox) = {}
      /\ Works(inbox) = {} /\ wk.consumer # session.id /\ client.phase = "none"
  BY <1>1, <1>3 DEF OInv, Ordered, Life
<1>5. PICK b : b = Append(inbox, m)
  OBVIOUS
<1>6. Items(b) = Items(inbox) \cup {m}
  BY <1>1, <1>2, <1>5, AppendViews
<1>7. InboxOrdered(b)
  <2>1. \A y \in Items(inbox) : InOrder(y, m)
    BY <1>3, <1>4 DEF InOrder, Lifes, LifeKinds, IsWork
  <2> QED
    BY <1>1, <1>2, <1>4, <1>5, <2>1, AppendViews
<1>8. Works(b) = Works(inbox) /\ Arrivals(b) = Arrivals(inbox) /\ Lifes(b) = {m}
  BY <1>3, <1>4, <1>6 DEF Works, Arrivals, Lifes, IsWork, LifeKinds
<1>9. /\ session'.receipts = session.receipts /\ session'.index = session.index
      /\ session'.id = session.id /\ session'.up = session.up
      /\ session'.failed = session.failed /\ session'.retrying = session.retrying
      /\ ~session'.timer
  BY <1>1, <1>3 DEF SessionState
<1>10. Life(wk, session', b, client)
  BY <1>3, <1>4, <1>8, <1>9 DEF Life
<1> HIDE DEF K
<1>11. OInv(wk, session', b, client, claims, applied, misfiled)
  BY <1>1, <1>7, <1>8, <1>9, <1>10, AwayOnce
<1> QED
  BY <1>3, <1>5, <1>11

LEMMA TakeConnectOnce ==
    ASSUME OnceInv, PInv', TakeConnect
    PROVE  OInv(wk', session', inbox', client', claims', applied', misfiled')
<1> DEFINE K == KnownMessages(wk.opened)
<1>1. /\ PInv /\ OInv(wk, session, inbox, client, claims, applied, misfiled) /\ inbox \in Seq(K)
  BY OnceTyped DEF OnceInv
<1>2. /\ session.up /\ inbox # <<>> /\ Head(inbox).kind \in {"connect", "retry"}
      /\ inbox' = Tail(inbox) /\ wk' = wk /\ client' = [NoClient EXCEPT !.phase = "connecting"]
      /\ session' = [FreshSession(session.id) EXCEPT !.client = TRUE]
      /\ claims' = claims /\ applied' = applied /\ misfiled' = misfiled
  BY DEF TakeConnect, Takes, Taken, Database
<1>3. /\ InboxOrdered(inbox) /\ Life(wk, session, inbox, client) /\ Window(wk)
      /\ Tallied(wk, claims, applied, misfiled)
      /\ Numbers(wk, session, client, Works(inbox), Arrivals(inbox))
  BY <1>1 DEF OInv, Ordered
<1>4. Head(inbox) \in Lifes(inbox) /\ Tail(inbox) = <<>>
  <2>1. Head(inbox).kind \in LifeKinds
    BY <1>2 DEF LifeKinds
  <2> QED
    BY <1>1, <1>2, <1>3, <2>1, PoppedInbox
<1>5. wk.consumer # session.id
  BY <1>2, <1>3, <1>4 DEF Life
<1>6. /\ session'.receipts = <<>> /\ session'.index = 0 /\ session'.id = session.id
      /\ session'.up /\ session'.client /\ ~session'.timer
      /\ client'.phase = "connecting" /\ client'.todo = <<>>
  BY <1>2 DEF FreshSession, NoClient
<1>7. inbox' = <<>> /\ Works(inbox') = {} /\ Arrivals(inbox') = {} /\ Lifes(inbox') = {}
  BY <1>2, <1>4, NoInboxViews
<1>8. Numbers(wk, session', client', {}, {})
  BY <1>2, <1>7, NextNumbers
<1>9. Life(wk, session', inbox', client')
  BY <1>2, <1>3, <1>5, <1>6, <1>7 DEF Life
<1>10. InboxOrdered(inbox') /\ ~Attached(wk, session')
  BY <1>5, <1>6, <1>7, NoInboxViews DEF Attached
<1>11. OInv(wk, session', inbox', client', claims, applied, misfiled)
  BY <1>3, <1>6, <1>7, <1>8, <1>9, <1>10, EmptyOnce
<1> QED
  BY <1>2, <1>11

LEMMA SessionDiesOnce ==
    ASSUME OnceInv, PInv', SessionDies
    PROVE  OInv(wk', session', inbox', client', claims', applied', misfiled')
<1>1. /\ OInv(wk, session, inbox, client, claims, applied, misfiled) /\ session \in SessionState
  BY DEF OnceInv, PInv, GoodSession
<1>2. /\ session' = [session EXCEPT !.up = FALSE] /\ inbox' = <<>> /\ client' = NoClient
      /\ wk' = wk /\ claims' = claims /\ applied' = applied /\ misfiled' = misfiled
  BY DEF SessionDies, Database
<1>3. /\ session'.receipts = session.receipts /\ session'.id = session.id /\ ~session'.up
      /\ session'.timer = session.timer
  BY <1>1, <1>2 DEF SessionState
<1>4. client'.phase = "none" /\ client'.todo = <<>> /\ Deliveries(client') = {} /\ ~client'.emitted
  BY <1>2, EmptyHasNone DEF NoClient, Deliveries
<1>5. Works(inbox') = {} /\ Arrivals(inbox') = {} /\ Lifes(inbox') = {} /\ InboxOrdered(inbox')
  BY <1>2, NoInboxViews
<1>6. Numbers(wk, session', client', Works(inbox'), Arrivals(inbox'))
  BY <1>2, <1>5, NextNumbers
<1>7. Life(wk, session', inbox', client')
  BY <1>1, <1>2, <1>3, <1>4, <1>5 DEF OInv, Life
<1>8. Ordered(session', inbox', client')
  BY <1>1, <1>3, <1>4, <1>5, EmptyHasNone DEF OInv, Ordered
<1>9. /\ Staged(session', client', Works(inbox'), Arrivals(inbox'))
      /\ Spanned(wk, session', client', Works(inbox'), Arrivals(inbox'))
  <2>1. Queue(session') = Queue(session) /\ (Attached(wk, session') <=> Attached(wk, session))
    BY <1>3 DEF Queue, Attached
  <2>2. Spanned(wk, session, client, Works(inbox), Arrivals(inbox))
    BY <1>1 DEF OInv
  <2> QED
    BY <1>4, <1>5, <2>1, <2>2 DEF Staged, Spanned, Unemitted
<1>10. /\ Mode(wk.gen, session', client', Works(inbox'), misfiled)
       /\ Progress(wk, session', client', Works(inbox'), Arrivals(inbox'), applied, misfiled)
  BY <1>3 DEF Mode, Progress, Clear
<1>11. Window(wk) /\ Tallied(wk, claims, applied, misfiled)
  BY <1>1 DEF OInv
<1> QED
  BY <1>2, <1>6, <1>7, <1>8, <1>9, <1>10, <1>11 DEF OInv

LEMMA SessionStartsOnce ==
    ASSUME OnceInv, PInv', SessionStarts
    PROVE  OInv(wk', session', inbox', client', claims', applied', misfiled')
<1>1. /\ PInv /\ OInv(wk, session, inbox, client, claims, applied, misfiled)
      /\ Signal("connect") \in KnownMessages(wk.opened)
  BY SignalsKnown DEF OnceInv
<1>2. PICK m \in KnownMessages(wk.opened) : m = Signal("connect")
  BY <1>1
<1>3. /\ ~session.up /\ session' = FreshSession(session.id + 1) /\ inbox' = <<m>>
      /\ m.kind = "connect" /\ wk' = wk /\ client' = client
      /\ claims' = claims /\ applied' = applied /\ misfiled' = misfiled
  BY <1>2 DEF SessionStarts, Database, Signal, Message
<1>4. /\ session'.receipts = <<>> /\ session'.index = 0 /\ session'.id = session.id + 1
      /\ session'.up /\ ~session'.timer
  BY <1>3 DEF FreshSession
<1>5. /\ Works(inbox') = {} /\ Arrivals(inbox') = {} /\ Lifes(inbox') = {m}
      /\ InboxOrdered(inbox')
  BY <1>2, <1>3, MessageViews, Single DEF IsWork, LifeKinds
<1>6. /\ Life(wk, session, inbox, client) /\ Window(wk) /\ Tallied(wk, claims, applied, misfiled)
      /\ session.id \in Nat /\ wk.consumer \in Nat
  BY <1>1 DEF OInv, Numbers
<1>7. client.phase = "none" /\ client.todo = <<>> /\ wk.consumer <= session.id
  BY <1>3, <1>6 DEF Life
<1>8. wk.consumer # session'.id /\ session'.id >= 1 /\ wk.consumer <= session'.id
  BY <1>4, <1>6, <1>7
<1>9. Numbers(wk, session', client, {}, {})
  BY <1>3, <1>5, NextNumbers
<1>10. Life(wk, session', inbox', client)
  BY <1>3, <1>4, <1>5, <1>6, <1>7, <1>8 DEF Life
<1>11. ~Attached(wk, session')
  BY <1>8 DEF Attached
<1>12. OInv(wk, session', inbox', client, claims, applied, misfiled)
  BY <1>4, <1>5, <1>6, <1>7, <1>9, <1>10, <1>11, EmptyOnce
<1> QED
  BY <1>3, <1>12

-----------------------------------------------------------------------------
(* The releaser's steps.                                                   *)

LEMMA ReleaserOnce ==
    ASSUME OnceInv, Releaser
    PROVE  OInv(wk', session', inbox', client', claims', applied', misfiled')
<1>1. /\ OInv(wk, session, inbox, client, claims, applied, misfiled)
      /\ Tallied(wk, claims, applied, misfiled) /\ wk \in WkState
      /\ claims \subseteq ClaimRows /\ Released(pending, wk)
  BY OnceTyped DEF OnceInv, OInv, PInv
<1>2. /\ wk' = wk /\ session' = session /\ inbox' = inbox /\ client' = client
      /\ applied' = applied /\ misfiled' = misfiled /\ claims' \subseteq claims
  BY DEF Releaser, Flush, Recover
<1>3. \A c \in claims : c.gen = wk.gen /\ c.seq > wk.ackedThrough => c \in claims'
  <2> SUFFICES ASSUME NEW c \in claims, c.gen = wk.gen, c.seq > wk.ackedThrough
               PROVE  c \in claims'
    OBVIOUS
  <2>1. c.seq \in Int /\ wk.ackedThrough \in Int
    BY <1>1, Bounds DEF ClaimRows, Sequences, WkState
  <2>2. ~(c.seq <= wk.ackedThrough)
    BY <2>1
  <2>3. CASE Flush
    <3>1. Receipt(c.gen, c.seq) \notin pending
      BY <1>1, <2>2 DEF Released, Receipt
    <3> QED
      BY <2>3, <3>1 DEF Flush
  <2>4. ASSUME NEW g \in Generations, Recover(g) PROVE c \in claims'
    <3>1. claims' = claims \ (IF wk.gen = g THEN {x \in ClaimsOf(g) : x.seq <= wk.ackedThrough}
                              ELSE ClaimsOf(g))
      BY <2>4 DEF Recover
    <3> QED
      BY <2>2, <3>1 DEF ClaimsOf
  <2> QED
    BY <2>3, <2>4 DEF Releaser
<1>4. Tallied(wk, claims', applied, misfiled)
  <2>1. \A e \in EffectIds :
          /\ e.gen = wk.gen /\ Record(e) \notin misfiled /\ applied[e] >= 1
          /\ e.seq > wk.ackedThrough
          => [gen |-> e.gen, seq |-> e.seq, index |-> e.effect - 1] \in claims'
    <3> TAKE e \in EffectIds
    <3> HAVE /\ e.gen = wk.gen /\ Record(e) \notin misfiled /\ applied[e] >= 1
             /\ e.seq > wk.ackedThrough
    <3>1. PICK c : c = [gen |-> e.gen, seq |-> e.seq, index |-> e.effect - 1]
      OBVIOUS
    <3>2. c \in claims
      BY <1>1, <3>1 DEF Tallied
    <3> QED
      BY <1>3, <3>1, <3>2
  <2> QED
    BY <1>1, <1>2, <2>1 DEF Tallied
<1>5. OInv(wk, session, inbox, client, claims', applied, misfiled)
  BY <1>1, <1>4 DEF OInv
<1> QED
  BY <1>2, <1>5

-----------------------------------------------------------------------------
(* The acknowledgement.                                                    *)

\* The record is the oldest the Session and the client still hold, it is in
\* flight, and all that its cumulative acknowledgement removes is committed.
LEMMA AckAdvances ==
    ASSUME OnceInv, inbox # <<>>, Head(inbox).kind = "accepted", Clear(session),
           NEW m, m = Head(inbox), NEW r, r = Receipt(m.gen, m.seq),
           AckAllowed(wk, session.id, r), NEW t, t = Tail(inbox)
    PROVE  /\ r.gen = wk.gen /\ wk.gen # 0 /\ Attached(wk, session) /\ session.up
           /\ r.seq \in Nat /\ wk.ackedThrough < r.seq /\ r.seq <= wk.last
           /\ \A x \in Works(t) \cup Deliveries(client) \cup Arrivals(t) :
                 x.gen = wk.gen => x.seq > r.seq
           /\ Committed(acked \cup AckedBy(wk, r), applied, misfiled)
<1> DEFINE W == Works(inbox)
           A == Arrivals(inbox)
<1>1. /\ PInv /\ inbox \in Seq(KnownMessages(wk.opened)) /\ wk \in WkState
      /\ Committed(acked, applied, misfiled)
      /\ Numbers(wk, session, client, W, A) /\ InboxOrdered(inbox) /\ Window(wk)
      /\ Staged(session, client, W, A) /\ Spanned(wk, session, client, W, A)
      /\ Progress(wk, session, client, W, A, applied, misfiled)
  BY OnceTyped DEF OnceInv, OInv, Ordered
<1>2. IsWork(m) /\ Step(m) = Effects + 1 /\ r.gen = m.gen /\ r.seq = m.seq
  BY DEF IsWork, Step, Receipt
<1> HIDE DEF W, A
<1>3. /\ m \in W /\ Works(t) = W \ {m} /\ Arrivals(t) = A
      /\ \A n \in Works(t) : Before(m, n)
  BY <1>1, <1>2, PoppedInbox DEF W, A
<1>4. /\ m.gen = wk.gen /\ wk.gen # 0 /\ Attached(wk, session) /\ session.up
      /\ m.seq <= wk.ackedThrough \/ m.seq \in wk.inFlight
  BY <1>2 DEF AckAllowed, AttachedTo, Attached, Clear
<1>5. m.seq \in Nat /\ wk.ackedThrough \in Nat /\ m.seq > wk.ackedThrough /\ wk.gen \in Nat
  BY <1>1, <1>3, <1>4 DEF Spanned, Numbers
<1>6. m.seq <= wk.last
  BY <1>1, <1>4, <1>5 DEF Window
<1>7. \A n \in W : n = m \/ Earlier(m, n)
  <2> TAKE n \in W
  <2>1. CASE n # m
    <3>1. Step(n) \in Nat /\ Step(n) <= Effects + 1
      BY <1>1, WorkNumbers
    <3>2. ~(Step(m) < Step(n))
      BY <1>2, <3>1, Bounds
    <3> QED
      BY <1>3, <2>1, <3>2 DEF Before
  <2> QED
    BY <2>1
<1>8. \A x \in Works(t) \cup Deliveries(client) \cup Arrivals(t) : Earlier(m, x)
  <2>1. \A d \in Deliveries(client) : Earlier(m, d)
    <3> TAKE d \in Deliveries(client)
    <3>1. CASE d \in Unemitted(client)
      BY <1>1, <1>3, <3>1 DEF Staged
    <3>2. CASE d \notin Unemitted(client)
      <4>1. client.emitted /\ d = Head(client.todo)
        BY <3>2 DEF Unemitted
      <4> QED
        BY <1>1, <1>3, <4>1 DEF Staged
    <3> QED
      BY <3>1, <3>2
  <2>2. \A a \in A : Earlier(m, a)
    BY <1>1, <1>3 DEF Staged
  <2> QED
    BY <1>3, <1>7, <2>1, <2>2
<1>9. \A x \in Works(t) \cup Deliveries(client) \cup Arrivals(t) : x.gen = wk.gen => x.seq > m.seq
  <2> TAKE x \in Works(t) \cup Deliveries(client) \cup Arrivals(t)
  <2>1. x.gen \in Nat /\ x.seq \in Nat
    BY <1>1, <1>3 DEF Numbers
  <2>2. Earlier(m, x)
    BY <1>8
  <2> QED
    BY <1>4, <1>5, <2>1, <2>2 DEF Earlier
<1>10. ASSUME NEW e \in EffectIds, Record(e) \in AckedBy(wk, r), Record(e) \notin misfiled
       PROVE  applied[e] >= 1
  <2>1. e.gen = wk.gen /\ e.seq \in wk.retained /\ e.seq <= m.seq
    BY <1>2, <1>4, <1>10 DEF AckedBy, Record, Receipt
  <2>2. /\ e.effect \in 1..Effects /\ e.effect \in Nat /\ e.effect < Effects + 1 /\ e.seq \in Nat
        /\ e = EffectOf(e.gen, e.seq, e.effect) /\ Record(e) = Receipt(e.gen, e.seq)
    BY Bounds DEF EffectIds, EffectOf, Record, Sequences
  <2>3. e.seq < m.seq \/ (e.seq = m.seq /\ e.effect < Step(m))
    BY <1>2, <1>5, <2>1, <2>2
  <2>4. DoneOrSent(wk.gen, e.seq, e.effect, W, applied, misfiled)
    BY <1>1, <1>3, <1>4, <2>1, <2>2, <2>3 DEF Progress
  <2>5. ~Sent(W, Receipt(wk.gen, e.seq), e.effect)
    <3> SUFFICES ASSUME NEW n \in W, SameRecord(n, Receipt(wk.gen, e.seq)), Step(n) = e.effect
                 PROVE  FALSE
      BY DEF Sent
    <3>1. n # m
      BY <1>2, <2>2
    <3>2. n.gen = wk.gen /\ n.seq = e.seq
      BY DEF SameRecord, Receipt
    <3>3. Earlier(m, n)
      BY <1>7, <3>1
    <3> QED
      BY <1>4, <1>5, <2>1, <2>2, <3>2, <3>3 DEF Earlier
  <2> QED
    BY <1>10, <2>1, <2>2, <2>4, <2>5 DEF DoneOrSent, Done
<1>11. Committed(acked \cup AckedBy(wk, r), applied, misfiled)
  BY <1>1, <1>10 DEF Committed
<1> QED
  BY <1>2, <1>4, <1>5, <1>6, <1>9, <1>11

LEMMA AckFields ==
    ASSUME NEW w \in WkState, NEW r \in Receipts, ~(r.seq <= w.ackedThrough)
    PROVE  /\ AckCall(w, r).gen = w.gen /\ AckCall(w, r).opened = w.opened
           /\ AckCall(w, r).last = w.last /\ AckCall(w, r).ackedThrough = r.seq
           /\ AckCall(w, r).retained = {t \in w.retained : t > r.seq}
           /\ AckCall(w, r).inFlight = {t \in w.inFlight : t > r.seq}
           /\ AckCall(w, r).consumer = w.consumer
BY DEF AckCall, WkState

\* Its acceptance has left the mailbox, and its receipt may have left the queue.
LEMMA AckSettledOnce ==
    ASSUME OnceInv, inbox # <<>>, Head(inbox).kind = "accepted", Clear(session),
           NEW r, r = Receipt(Head(inbox).gen, Head(inbox).seq),
           AckAllowed(wk, session.id, r),
           NEW s2, GoodSession(s2, wk.opened),
           s2 = session \/ (ReceiptPopped(session, s2) /\ First(session).seq = r.seq)
    PROVE  LET v == AckCall(wk, r)
           IN  OInv(Settled(v), s2, Tail(inbox) \o SettledMessages(v), client,
                    claims, applied, misfiled)
<1> DEFINE v == AckCall(wk, r)
           K == KnownMessages(wk.opened)
<1>1. /\ PInv /\ OInv(wk, session, inbox, client, claims, applied, misfiled)
      /\ inbox \in Seq(K) /\ wk \in WkState /\ claims \subseteq ClaimRows
      /\ session.receipts \in Seq(KnownReceipts(wk.opened)) /\ GoodClient(client, wk.opened)
  BY OnceTyped DEF OnceInv, PInv
<1>2. PICK t : t = Tail(inbox)
  OBVIOUS
<1>3. PICK m : m = Head(inbox)
  OBVIOUS
<1>4. /\ r.gen = wk.gen /\ wk.gen # 0 /\ Attached(wk, session) /\ session.up
      /\ r.seq \in Nat /\ wk.ackedThrough < r.seq /\ r.seq <= wk.last
      /\ \A x \in Works(t) \cup Deliveries(client) \cup Arrivals(t) :
            x.gen = wk.gen => x.seq > r.seq
  BY <1>2, <1>3, AckAdvances
<1>5. t \in Seq(K) /\ Numbers(wk, s2, client, Works(t), Arrivals(t))
  BY <1>1, <1>2, FirstMessage
<1>6. r.seq = m.seq /\ r \in Receipts /\ m.kind = "accepted" /\ wk.ackedThrough \in Nat
  BY <1>1, <1>3, HeadSpeaks, Bounds DEF Receipt, WkState
<1>7. /\ v.gen = wk.gen /\ v.opened = wk.opened /\ v.last = wk.last /\ v.ackedThrough = r.seq
      /\ v.retained = {x \in wk.retained : x > r.seq} /\ v.inFlight = {x \in wk.inFlight : x > r.seq}
      /\ v.consumer = wk.consumer /\ v \in WkState
  <2>1. ~(r.seq <= wk.ackedThrough)
    BY <1>4, <1>6
  <2>2. v \in WkState
    BY <1>1, <1>6, AckContinues DEF Continues
  <2> QED
    BY <1>1, <1>6, <2>1, <2>2, AckFields
<1> HIDE DEF v, K
<1>8. OInv(wk, s2, t, client, claims, applied, misfiled)
  <2>1. s2 = session \/ (ReceiptPopped(session, s2) /\ First(session).seq = m.seq)
    BY <1>6
  <2> QED
    BY <1>1, <1>2, <1>3, <1>5, <1>6, <2>1, AcceptedOnce
<1>9. OInv(v, s2, t, client, claims, applied, misfiled)
  <2>1. wk.ackedThrough <= r.seq
    BY <1>4, <1>6
  <2> QED
    BY <1>4, <1>7, <1>8, <2>1, AckedOnce
<1>10. s2.id = session.id /\ s2.up = session.up
  BY DEF ReceiptPopped, SameButQueue
<1>11. Typed(v, s2, t, client) /\ v.gen # 0 /\ Attached(v, s2) /\ s2.up
  <2>1. v.gen <= v.opened
    BY <1>1, <1>7, StaysSame
  <2> QED
    BY <1>1, <1>4, <1>5, <1>7, <1>10, <2>1 DEF Typed, GoodWk, Attached, K
<1>12. PICK b2 : b2 = t \o SettledMessages(v)
  OBVIOUS
<1>13. OInv(Settled(v), s2, b2, client, claims, applied, misfiled)
  BY <1>1, <1>9, <1>11, <1>12, SettledOnce
<1> QED
  BY <1>2, <1>12, <1>13 DEF v

LEMMA TakeAcceptedOnce ==
    ASSUME OnceInv, TakeAccepted
    PROVE  /\ OInv(wk', session', inbox', client', claims', applied', misfiled')
           /\ Committed(acked', applied', misfiled')
<1>1. /\ PInv /\ session \in SessionState /\ GoodSession(session, wk.opened)
  BY DEF OnceInv, PInv, GoodSession
<1>2. PICK r : r = Receipt(Head(inbox).gen, Head(inbox).seq)
  OBVIOUS
<1>3. /\ inbox # <<>> /\ Head(inbox).kind = "accepted" /\ Clear(session)
      /\ AckAllowed(wk, session.id, r) /\ wk' = Settled(AckCall(wk, r))
      /\ inbox' = Tail(inbox) \o SettledMessages(AckCall(wk, r))
      /\ acked' = acked \cup AckedBy(wk, r) /\ client' = client
      /\ claims' = claims /\ applied' = applied /\ misfiled' = misfiled
      /\ Acknowledged(Head(inbox).seq)
  BY <1>2 DEF TakeAccepted, Takes, Blocked, Clear, Database
<1>4. /\ GoodSession(session', wk.opened)
      /\ session' = session \/ (ReceiptPopped(session, session') /\ First(session).seq = r.seq)
  <2>1. r.seq = Head(inbox).seq
    BY <1>2 DEF Receipt
  <2>2. CASE session.receipts # <<>> /\ Head(session.receipts).seq = r.seq
    <3>1. session' = [session EXCEPT !.receipts = Tail(@), !.index = 0]
      BY <1>3, <2>1, <2>2 DEF Acknowledged
    <3>2. GoodSession(session', wk.opened)
      BY <1>1, <2>2, <3>1, ReceiptsGood
    <3>3. ReceiptPopped(session, session')
      BY <1>1, <2>2, <3>1 DEF ReceiptPopped, SameButQueue, SessionState
    <3> QED
      BY <2>2, <3>2, <3>3 DEF First
  <2>3. CASE ~(session.receipts # <<>> /\ Head(session.receipts).seq = r.seq)
    BY <1>1, <1>3, <2>1, <2>3 DEF Acknowledged
  <2> QED
    BY <2>2, <2>3
<1>5. OInv(wk', session', inbox', client, claims, applied, misfiled)
  BY <1>2, <1>3, <1>4, AckSettledOnce
<1>6. Committed(acked', applied, misfiled)
  <2>1. PICK t : t = Tail(inbox)
    OBVIOUS
  <2>2. PICK m : m = Head(inbox)
    OBVIOUS
  <2>3. Committed(acked \cup AckedBy(wk, r), applied, misfiled)
    BY <1>2, <1>3, <2>1, <2>2, AckAdvances
  <2> QED
    BY <1>3, <2>3
<1> QED
  BY <1>3, <1>5, <1>6

LEMMA TakeAcceptedNotAckedOnce ==
    ASSUME OnceInv, TakeAcceptedNotAcked
    PROVE  /\ OInv(wk', session', inbox', client', claims', applied', misfiled')
           /\ Committed(acked', applied', misfiled')
<1>1. /\ PInv /\ OInv(wk, session, inbox, client, claims, applied, misfiled)
      /\ inbox \in Seq(KnownMessages(wk.opened))
      /\ session.receipts \in Seq(KnownReceipts(wk.opened)) /\ claims \subseteq ClaimRows
      /\ GoodSession(session, wk.opened) /\ GoodClient(client, wk.opened)
      /\ Committed(acked, applied, misfiled) /\ wk \in WkState
  BY OnceTyped DEF OnceInv, PInv
<1>2. PICK r : r = Receipt(Head(inbox).gen, Head(inbox).seq)
  OBVIOUS
<1>3. PICK t : t = Tail(inbox)
  OBVIOUS
<1> DEFINE v == AckCall(wk, r)
           c2 == ToClient("closed", r.gen, 0)
<1>4. /\ inbox # <<>> /\ Head(inbox).kind = "accepted" /\ Clear(session)
      /\ session' = session /\ claims' = claims /\ applied' = applied /\ misfiled' = misfiled
      /\ client' = c2
  BY <1>2 DEF TakeAcceptedNotAcked, Takes, Blocked, Clear, Database
<1>5. PICK effective \in BOOLEAN, closes \in BOOLEAN :
         /\ effective => AckAllowed(wk, session.id, r)
         /\ wk' = IF closes THEN CloseCall(IF effective THEN Settled(v) ELSE wk, r.gen)
                  ELSE IF effective THEN Settled(v) ELSE wk
         /\ inbox' = t \o (IF effective THEN SettledMessages(v) ELSE <<>>)
         /\ acked' = IF effective THEN acked \cup AckedBy(wk, r) ELSE acked
  BY <1>2, <1>3 DEF TakeAcceptedNotAcked
<1>6. r.gen \in OpenedBy(wk.opened) /\ client.phase # "connecting"
  BY <1>1, <1>2, <1>4, HeadSpeaks, FirstMessage DEF Receipt
<1>7. t \in Seq(KnownMessages(wk.opened)) /\ Numbers(wk, session, client, Works(t), Arrivals(t))
  BY <1>1, <1>3, <1>4, FirstMessage
<1> HIDE DEF v, c2
<1>8. PICK w, b : /\ w = IF effective THEN Settled(v) ELSE wk
                  /\ b = t \o (IF effective THEN SettledMessages(v) ELSE <<>>)
  OBVIOUS
<1>9. OInv(w, session, b, client, claims, applied, misfiled)
  <2>1. CASE effective
    BY <1>2, <1>3, <1>4, <1>5, <1>1, <1>8, <2>1, AckSettledOnce DEF v
  <2>2. CASE ~effective
    <3>1. w = wk /\ b = t
      BY <1>7, <1>8, <2>2
    <3>2. PICK m : m = Head(inbox)
      OBVIOUS
    <3>3. OInv(wk, session, t, client, claims, applied, misfiled)
      BY <1>1, <1>3, <1>4, <1>7, <3>2, AcceptedOnce
    <3> QED
      BY <3>1, <3>3
  <2> QED
    BY <2>1, <2>2
<1>10. OInv(w, session, b, c2, claims, applied, misfiled)
  BY <1>1, <1>6, <1>9, ClosureTold DEF c2
<1>11. OInv(NoGeneration(w.opened), session, b, c2, claims, applied, misfiled)
  BY <1>1, <1>10, GoneOnce
<1>12. OInv(wk', session, inbox', c2, claims, applied, misfiled)
  BY <1>5, <1>8, <1>10, <1>11 DEF CloseCall
<1>13. Committed(acked', applied, misfiled)
  <2>1. CASE effective
    <3>1. PICK m : m = Head(inbox)
      OBVIOUS
    <3>2. Committed(acked \cup AckedBy(wk, r), applied, misfiled)
      BY <1>2, <1>3, <1>4, <1>5, <2>1, <3>1, AckAdvances
    <3> QED
      BY <1>5, <2>1, <3>2
  <2> QED
    BY <1>1, <1>5, <2>1
<1> QED
  BY <1>4, <1>12, <1>13

-----------------------------------------------------------------------------
(* The invariant and the theorems.                                         *)

LEMMA InitOnce == Init => OnceInv
<1> SUFFICES ASSUME Init PROVE OnceInv
  OBVIOUS
<1>1. PInv
  BY InitPInv
<1>2. /\ wk = NoGeneration(0) /\ inbox = <<>> /\ client = NoClient /\ claims = {}
      /\ misfiled = {} /\ acked = {} /\ applied = [e \in EffectIds |-> 0]
      /\ session.receipts = <<>> /\ session.index = 0 /\ session.id = 0
      /\ ~session.up /\ ~session.timer
  BY DEF Init, FreshSession
<1>3. Works(inbox) = {} /\ Arrivals(inbox) = {} /\ Lifes(inbox) = {} /\ InboxOrdered(inbox)
  BY <1>2, NoInboxViews
<1>4. client.phase = "none" /\ client.todo = <<>>
  BY <1>2 DEF NoClient
<1>5. /\ wk.gen = 0 /\ wk.opened = 0 /\ wk.consumer = 0 /\ wk.retained = {}
      /\ wk.inFlight = {} /\ wk.ackedThrough = 0 /\ wk.last = 0
  BY <1>2 DEF NoGeneration
<1>6. Window(wk)
  BY <1>5 DEF Window
<1>7. Tallied(wk, claims, applied, misfiled)
  BY <1>2, <1>5 DEF Tallied
<1>8. Numbers(wk, session, client, {}, {})
  <2>1. Typed(wk, session, inbox, client)
    BY <1>1, OnceTyped
  <2>2. Numbers(wk, session, client, Works(inbox), Arrivals(inbox))
    BY <1>3, <2>1, NumbersFollow
  <2> QED
    BY <1>3, <2>2
<1>9. Life(wk, session, inbox, client)
  BY <1>2, <1>3, <1>4, <1>5 DEF Life
<1>10. ~Attached(wk, session)
  BY <1>5 DEF Attached
<1>11. OInv(wk, session, inbox, client, claims, applied, misfiled)
  BY <1>2, <1>3, <1>4, <1>6, <1>7, <1>8, <1>9, <1>10, EmptyOnce
<1>12. Committed(acked, applied, misfiled)
  BY <1>2 DEF Committed
<1> QED
  BY <1>1, <1>11, <1>12 DEF OnceInv

\* Steps that commit and acknowledge nothing.
LEMMA OtherStepsOnce ==
    ASSUME OnceInv, PInv',
           \/ Wirekeeper \/ Client \/ Releaser
           \/ TakeConnect \/ TakeData \/ TakeBlockedEvent \/ TakeAcceptedOfFailure
           \/ TakeAcceptedInRetry \/ TakeUpstreamClosed \/ TakeOverflow \/ TakeDown \/ RetryTimer
           \/ EventFails \/ ClientFails \/ SessionDies \/ SessionStarts
    PROVE  /\ OInv(wk', session', inbox', client', claims', applied', misfiled')
           /\ UNCHANGED <<applied, misfiled, acked>>
<1>1. CASE Wirekeeper
  <2>1. CASE RecordArrives
    BY <2>1, RecordArrivesOnce DEF RecordArrives, Database
  <2>2. CASE UpstreamCloses
    BY <2>2, UpstreamClosesOnce DEF UpstreamCloses, Database
  <2>3. CASE ConsumerLost \/ GenerationLost
    BY <2>3, LostOnce DEF ConsumerLost, GenerationLost, Database
  <2> QED
    BY <1>1, <2>1, <2>2, <2>3 DEF Wirekeeper
<1>2. CASE Client \/ ClientFails
  <2>1. CASE ClientOpens \/ ClientReplaces
    BY <2>1, ClientOpensOnce DEF ClientOpens, ClientReplaces, Database
  <2>2. CASE ClientAttaches
    BY <2>2, ClientAttachesOnce DEF ClientAttaches, Database
  <2>3. CASE ClientFails \/ ClientRefused \/ ClientCloses
    BY <2>3, ClientExitsOnce DEF ClientFails, ClientRefused, ClientCloses, Database
  <2>4. CASE ClientEvents
    BY <2>4, ClientEventsOnce DEF ClientEvents, Database
  <2>5. CASE ClientAccepts
    BY <2>5, ClientAcceptsOnce DEF ClientAccepts, Database
  <2>6. CASE ClientIgnoresStale
    BY <2>6, ClientIgnoresStaleOnce DEF ClientIgnoresStale, Database
  <2> QED
    BY <1>2, <2>1, <2>2, <2>3, <2>4, <2>5, <2>6 DEF Client
<1>3. CASE Releaser
  BY <1>3, ReleaserOnce DEF Releaser, Flush, Recover
<1>4. CASE TakeConnect
  BY <1>4, TakeConnectOnce DEF TakeConnect, Database
<1>5. CASE TakeData
  BY <1>5, TakeDataOnce DEF TakeData, Database
<1>6. CASE TakeBlockedEvent \/ TakeAcceptedInRetry
  BY <1>6, DroppedInRetryOnce DEF TakeBlockedEvent, TakeAcceptedInRetry, Database
<1>7. CASE TakeAcceptedOfFailure
  BY <1>7, OfFailureOnce DEF TakeAcceptedOfFailure, Database
<1>8. CASE TakeUpstreamClosed \/ TakeOverflow
  BY <1>8, NoticeTakenOnce DEF TakeUpstreamClosed, TakeOverflow, Database
<1>9. CASE TakeDown
  BY <1>9, TakeDownOnce DEF TakeDown, Database
<1>10. CASE RetryTimer
  BY <1>10, RetryTimerOnce DEF RetryTimer, Database
<1>11. CASE EventFails
  BY <1>11, EventFailsOnce DEF EventFails, Database
<1>12. CASE SessionDies
  BY <1>12, SessionDiesOnce DEF SessionDies, Database
<1>13. CASE SessionStarts
  BY <1>13, SessionStartsOnce DEF SessionStarts, Database
<1> QED
  BY <1>1, <1>2, <1>3, <1>4, <1>5, <1>6, <1>7, <1>8, <1>9, <1>10, <1>11, <1>12, <1>13

LEMMA NextOnce == OnceInv /\ [Next]_vars => OnceInv'
<1> SUFFICES ASSUME OnceInv, [Next]_vars PROVE OnceInv'
  OBVIOUS
<1>1. PInv'
  BY NextPInv DEF OnceInv
<1>2. SUFFICES /\ OInv(wk', session', inbox', client', claims', applied', misfiled')
               /\ Committed(acked', applied', misfiled')
  BY <1>1 DEF OnceInv
<1>3. CASE UNCHANGED vars
  BY <1>3 DEF OnceInv, vars
<1>4. CASE TakeAccepted
  BY <1>4, TakeAcceptedOnce
<1>5. CASE TakeAcceptedNotAcked
  BY <1>5, TakeAcceptedNotAckedOnce
<1>6. CASE TakeEvent
  <2>1. acked' = acked
    BY <1>6 DEF TakeEvent
  <2>2. /\ OInv(wk', session', inbox', client', claims', applied', misfiled')
        /\ misfiled \subseteq misfiled' /\ \A e \in EffectIds : applied'[e] >= applied[e]
    BY <1>1, <1>6, TakeEventOnce
  <2>3. applied \in [EffectIds -> Nat] /\ applied' \in [EffectIds -> Nat]
    BY <1>1 DEF OnceInv, PInv, GoodRows
  <2>4. Committed(acked', applied', misfiled')
    <3> SUFFICES ASSUME NEW e \in EffectIds, Record(e) \in acked' \ misfiled'
                 PROVE  applied'[e] >= 1
      BY DEF Committed
    <3>1. applied[e] >= 1
      BY <2>1, <2>2 DEF OnceInv, Committed
    <3>2. applied[e] \in Int /\ applied'[e] \in Int
      BY <2>3
    <3> QED
      BY <2>2, <3>1, <3>2
  <2> QED
    BY <2>2, <2>4
<1>7. CASE \/ Wirekeeper \/ Client \/ Releaser
           \/ TakeConnect \/ TakeData \/ TakeBlockedEvent \/ TakeAcceptedOfFailure
           \/ TakeAcceptedInRetry \/ TakeUpstreamClosed \/ TakeOverflow \/ TakeDown \/ RetryTimer
           \/ EventFails \/ ClientFails \/ SessionDies \/ SessionStarts
  <2>1. /\ OInv(wk', session', inbox', client', claims', applied', misfiled')
        /\ UNCHANGED <<applied, misfiled, acked>>
    BY <1>1, <1>7, OtherStepsOnce
  <2> QED
    BY <2>1 DEF OnceInv
<1> QED
  BY <1>3, <1>4, <1>5, <1>6, <1>7 DEF Next, Session

LEMMA InvariantOnce == Spec => []OnceInv
<1> QED
  BY InitOnce, NextOnce, PTL DEF Spec

\* Through crashes of Session and client, failed effects, lost and refused
\* acknowledgements and every replay that follows from them (session.ex,
\* wirekeeper_ingestion.ex, wirekeeper_transport.ex), an effect filed under its
\* record's receipt is committed at most once while the generation is live: the
\* claim of irc_ingestion_effect.ex outlives every replay of its record.
THEOREM EffectsApplyOnce == Spec => []GuardedEffectsApplyOnce
<1>1. OnceInv => GuardedEffectsApplyOnce
  BY DEF OnceInv, OInv, Tallied, GuardedEffectsApplyOnce, Guarded
<1> QED
  BY <1>1, InvariantOnce, PTL

\* Wirekeeper is told that a record is done (acknowledge/2 of
\* wirekeeper_ingestion.ex) only when every effect filed under its receipt is
\* committed, for the record itself and for every earlier one its cumulative
\* acknowledgement covers.
THEOREM AcknowledgedIsDone == Spec => []AcknowledgedWasApplied
<1>1. OnceInv => AcknowledgedWasApplied
  BY DEF OnceInv, Committed, AcknowledgedWasApplied
<1> QED
  BY <1>1, InvariantOnce, PTL

=============================================================================
