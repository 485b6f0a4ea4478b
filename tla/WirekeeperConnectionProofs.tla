---------------------- MODULE WirekeeperConnectionProofs ----------------------
(***************************************************************************)
(* Theorems about WirekeeperConnection, for every value of its constants.  *)
(* The inductive invariant is stated of a GenServer state c, so that each  *)
(* private function of the connection has one lemma: what it returns from  *)
(* a state of Core is a state of Core.  The handlers compose the lemmas.   *)
(***************************************************************************)
EXTENDS WirekeeperConnection, FiniteSetTheorems, TLAPS

-----------------------------------------------------------------------------
(* The inductive invariant.                                                *)

\* A state of the right shape whose sequences were all assigned.
Shape(c) ==
    /\ c \in ConnState
    /\ Records(c) \subseteq 1..(c.next - 1)
    /\ c.inFlight \subseteq 1..(c.next - 1)
    /\ c.delivered \subseteq 1..(c.next - 1)
    /\ c.inFlight \subseteq c.delivered
    /\ c.acked < c.next
    /\ ~Attached(c) => c.delivered = {}

NoLoss(c) == c.dropped = 0 => Records(c) = (c.acked + 1)..(c.next - 1)

Checkpointed(c) ==
    c.checkpointSeq # 0 => c.checkpointSeq = c.acked /\ c.checkpoint

InOrder(c) == \A s \in Pending(c) : Attached(c) => \A d \in c.delivered : d < s

\* An attached consumer knows of every drop, and a coalesced notification is
\* one it has had.
Told(c) == Attached(c) /\ (c.dropped > 0 \/ c.overflowPending) => c.told

\* The closure is announced only when it is the last message.
LastIsClosure(c) ==
    Attached(c) /\ c.closureNotified => c.status = "closed" /\ Pending(c) = {}

Core(c) ==
    Shape(c) /\ NoLoss(c) /\ Checkpointed(c) /\ InOrder(c) /\ Told(c) /\ LastIsClosure(c)

\* What holds besides Core when no handler is running.
Drained(c) == c.status = "closed" /\ Attached(c) => Records(c) # {}

\* What the private functions leave alone.
Same(c, d) == d.status = c.status /\ d.sentOnce = c.sentOnce
Later(c, d) ==
    /\ d.status = c.status \/ d.status \in {"closed", "stopped"}
    /\ d.sentOnce = c.sentOnce

-----------------------------------------------------------------------------
(* The table.                                                              *)

LEMMA TableType ==
    ASSUME NEW t \in Tables
    PROVE  /\ DOMAIN t \subseteq 1..MaxSequence
           /\ t \in [DOMAIN t -> PayloadSizes]
BY DEF Tables

LEMMA KeepType ==
    ASSUME NEW t \in Tables, NEW S \in SUBSET DOMAIN t
    PROVE  Keep(t, S) \in Tables /\ DOMAIN Keep(t, S) = S
<1>1. DOMAIN t \subseteq 1..MaxSequence /\ t \in [DOMAIN t -> PayloadSizes]
  BY TableType
<1>2. Keep(t, S) \in [S -> PayloadSizes]
  BY <1>1 DEF Keep
<1> QED
  BY <1>1, <1>2 DEF Tables, Keep

\* Inserting a record of an admissible size extends the table by it.
LEMMA InsertedType ==
    ASSUME NEW c, Shape(c), c.next <= MaxSequence, NEW size \in PayloadSizes
    PROVE  /\ Inserted(c, size) \in Tables
           /\ DOMAIN Inserted(c, size) = Records(c) \cup {c.next}
<1> DEFINE D == Records(c) \cup {c.next}
<1>1. c.table \in Tables /\ c.next \in 1..(MaxSequence + 1)
  BY DEF Shape, ConnState
<1>2. Records(c) \subseteq 1..MaxSequence /\ c.table \in [Records(c) -> PayloadSizes]
  BY <1>1, TableType DEF Records
<1>3. D \in SUBSET (1..MaxSequence)
  BY <1>1, <1>2, BoundAssumption
<1>4. Inserted(c, size) \in [D -> PayloadSizes]
  BY <1>2 DEF Inserted
<1> QED
  BY <1>3, <1>4 DEF Tables

-----------------------------------------------------------------------------
(* One lemma for each private function.                                    *)

LEMMA DetachCore ==
    ASSUME NEW c, Shape(c), NoLoss(c), Checkpointed(c)
    PROVE  /\ Core(BeginDetachedEpisode(c)) /\ ~Attached(BeginDetachedEpisode(c))
           /\ Same(c, BeginDetachedEpisode(c))
<1> DEFINE d == BeginDetachedEpisode(c)
<1>1. Shape(d) /\ ~Attached(d)
  BY DEF Shape, ConnState, Records, BeginDetachedEpisode, Attached
<1>2. NoLoss(d) /\ Checkpointed(d)
  BY DEF Shape, ConnState, NoLoss, Checkpointed, Records, BeginDetachedEpisode
<1>3. Same(c, d)
  BY DEF Shape, ConnState, Same, BeginDetachedEpisode
<1> QED
  BY <1>1, <1>2, <1>3 DEF Core, InOrder, Told, LastIsClosure

LEMMA StopCore ==
    ASSUME NEW c, Core(c)
    PROVE  /\ Core(Stop(c)) /\ ~Attached(Stop(c))
           /\ Stop(c).status = "stopped" /\ Stop(c).sentOnce = c.sentOnce
<1> DEFINE d == BeginDetachedEpisode(c)
<1>1. Core(d) /\ ~Attached(d) /\ Same(c, d)
  BY DetachCore DEF Core
<1>2. Stop(c) = [d EXCEPT !.status = "stopped"]
  BY DEF Stop
<1>3. Shape(Stop(c)) /\ ~Attached(Stop(c))
  BY <1>1, <1>2 DEF Core, Shape, ConnState, Statuses, Records, Attached
<1>4. NoLoss(Stop(c)) /\ Checkpointed(Stop(c))
  BY <1>1, <1>2 DEF Core, Shape, ConnState, NoLoss, Checkpointed, Records
<1>5. Stop(c).status = "stopped" /\ Stop(c).sentOnce = c.sentOnce
  BY <1>1, <1>2 DEF Core, Shape, ConnState, Same
<1> QED
  BY <1>3, <1>4, <1>5 DEF Core, InOrder, Told, LastIsClosure

\* The batch is the lower end of what is pending.
LEMMA BatchIsLowest ==
    ASSUME NEW c, Shape(c), NEW s \in Batch(c), NEW r \in Pending(c) \ Batch(c)
    PROVE  s < r
<1>1. Pending(c) \subseteq 1..MaxSequence
  BY TableType DEF Shape, ConnState, Pending, Records
<1>2. s \in Int /\ r \in Int /\ s \in Pending(c)
  BY <1>1 DEF Batch
<1> DEFINE Below(n) == {q \in Pending(c) : q < n}
<1>3. SUFFICES ASSUME r <= s PROVE FALSE
  BY <1>2
<1>4. IsFiniteSet(Below(s))
  <2>1. IsFiniteSet(1..MaxSequence)
    BY FS_Interval, BoundAssumption
  <2> QED
    BY <1>1, <2>1, FS_Subset
<1>5. Below(r) \subseteq Below(s)
  BY <1>1, <1>2, <1>3
<1>6. Cardinality(Below(r)) <= Cardinality(Below(s))
  BY <1>4, <1>5, FS_Subset
<1>7. Cardinality(Below(r)) \in Nat /\ Cardinality(Below(s)) \in Nat
  BY <1>4, <1>5, FS_Subset, FS_CardinalityType
<1>8. IsFiniteSet(c.inFlight) /\ Cardinality(c.inFlight) \in Nat
  <2>1. IsFiniteSet(1..MaxSequence)
    BY FS_Interval, BoundAssumption
  <2> QED
    BY <2>1, FS_Subset, FS_CardinalityType DEF Shape, ConnState
<1>9. Cardinality(Below(s)) < Slots(c)
  BY DEF Batch
<1>10. Slots(c) \in Int
  BY <1>8, BufferAssumption DEF Slots
<1>11. Cardinality(Below(r)) < Slots(c)
  BY <1>6, <1>7, <1>9, <1>10
<1> QED
  BY <1>11 DEF Batch

LEMMA DispatchCore ==
    ASSUME NEW c, Core(c), NEW d \in DispatchAvailable(c)
    PROVE  Core(d) /\ Same(c, d)
<1> DEFINE e == [c EXCEPT !.inFlight = @ \cup Batch(c),
                          !.delivered = @ \cup Batch(c)]
<1>1. CASE d = c
  BY <1>1 DEF Same
<1>2. CASE d = BeginDetachedEpisode(c)
  BY <1>2, DetachCore DEF Core
<1>3. CASE Attached(c) /\ Batch(c) # {} /\ d = e
  <2>1. Batch(c) \subseteq Pending(c) /\ Pending(c) \subseteq Records(c)
    BY DEF Batch, Pending
  <2>2. Records(c) \subseteq 1..MaxSequence /\ Records(c) \subseteq 1..(c.next - 1)
    BY TableType DEF Core, Shape, ConnState, Records
  <2>3. Shape(e) /\ Records(e) = Records(c) /\ Attached(e)
    BY <1>3, <2>1, <2>2 DEF Core, Shape, ConnState, Records, Attached
  <2>4. Pending(e) = Pending(c) \ Batch(c)
    BY <2>3 DEF Core, Shape, ConnState, Pending
  <2>5. NoLoss(e) /\ Checkpointed(e) /\ Told(e)
    BY <1>3, <2>3 DEF Core, Shape, ConnState, NoLoss, Checkpointed, Told, Attached
  <2>6. InOrder(e)
    <3> SUFFICES ASSUME NEW s \in Pending(e), NEW x \in e.delivered
                 PROVE  x < s
      BY DEF InOrder
    <3>1. CASE x \in Batch(c)
      BY <2>4, <3>1, BatchIsLowest DEF Core
    <3>2. CASE x \in c.delivered
      BY <1>3, <2>4, <3>2 DEF Core, InOrder
    <3> QED
      BY <3>1, <3>2 DEF Core, Shape, ConnState
  <2>7. LastIsClosure(e)
    BY <1>3, <2>1, <2>4 DEF Core, Shape, ConnState, LastIsClosure, Attached
  <2>8. Same(c, e)
    BY DEF Core, Shape, ConnState, Same
  <2> QED
    BY <1>3, <2>3, <2>5, <2>6, <2>7, <2>8 DEF Core
<1> QED
  BY <1>1, <1>2, <1>3 DEF DispatchAvailable, Deliver

LEMMA NotifyClosedCore ==
    ASSUME NEW c, Core(c), NEW d \in MaybeNotifyClosed(c)
    PROVE  Core(d) /\ Same(c, d)
<1>1. CASE d = c
  BY <1>1 DEF Same
<1>2. CASE d = BeginDetachedEpisode(c)
  BY <1>2, DetachCore DEF Core
<1>3. CASE /\ c.status = "closed" /\ Pending(c) = {}
           /\ d = [c EXCEPT !.closureNotified = TRUE]
  <2>1. Shape(d) /\ NoLoss(d) /\ Checkpointed(d) /\ Told(d)
    BY <1>3 DEF Core, Shape, ConnState, Records, Attached, NoLoss, Checkpointed, Told
  <2>2. Pending(d) = {} /\ d.status = "closed"
    BY <1>3 DEF Core, Shape, ConnState, Pending, Records
  <2>3. Same(c, d)
    BY <1>3 DEF Core, Shape, ConnState, Same
  <2> QED
    BY <2>1, <2>2, <2>3 DEF Core, InOrder, LastIsClosure
<1> QED
  BY <1>1, <1>2, <1>3 DEF MaybeNotifyClosed, Deliver

LEMMA StopIfDrainedCore ==
    ASSUME NEW c, Core(c)
    PROVE  /\ Core(StopIfDrained(c)) /\ Drained(StopIfDrained(c))
           /\ Later(c, StopIfDrained(c))
BY StopCore DEF StopIfDrained, Drained, Later

LEMMA DispatchAndSettleCore ==
    ASSUME NEW c, Core(c), NEW d \in DispatchAndSettle(c)
    PROVE  Core(d) /\ Drained(d) /\ Later(c, d)
<1>0. PICK e \in DispatchAvailable(c) :
        \E f \in MaybeNotifyClosed(e) : d = StopIfDrained(f)
  BY DEF DispatchAndSettle
<1>1. PICK f \in MaybeNotifyClosed(e) : d = StopIfDrained(f)
  BY <1>0
<1>2. Core(e) /\ Same(c, e)
  BY DispatchCore
<1>3. Core(f) /\ Same(e, f)
  BY <1>2, NotifyClosedCore
<1> QED
  BY <1>1, <1>2, <1>3, StopIfDrainedCore DEF Same, Later

LEMMA TransitionClosedCore ==
    ASSUME NEW c, Core(c), NEW d \in TransitionClosed(c)
    PROVE  Core(d) /\ d.status = "closed" /\ d.sentOnce = c.sentOnce
<1>1. CASE c.status = "closed"
  BY <1>1 DEF TransitionClosed
<1>2. CASE c.status # "closed"
  <2> DEFINE e == [c EXCEPT !.status = "closed"]
  <2>1. Shape(e) /\ NoLoss(e) /\ Checkpointed(e) /\ Told(e)
    BY DEF Core, Shape, ConnState, Statuses, Records, Attached, NoLoss, Checkpointed, Told
  <2>2. InOrder(e)
    BY DEF Core, Shape, ConnState, InOrder, Pending, Records, Attached
  <2>3. LastIsClosure(e)
    BY <1>2 DEF Core, Shape, ConnState, LastIsClosure, Attached
  <2>4. Core(e) /\ e.status = "closed" /\ e.sentOnce = c.sentOnce
    BY <2>1, <2>2, <2>3 DEF Core, Shape, ConnState
  <2>5. d \in MaybeNotifyClosed(e)
    BY <1>2 DEF TransitionClosed
  <2> HIDE DEF e
  <2> QED
    BY <2>4, <2>5, NotifyClosedCore DEF Same
<1> QED
  BY <1>1, <1>2

LEMMA UpstreamClosedCore ==
    ASSUME NEW c, Core(c), NEW d \in UpstreamClosed(c)
    PROVE  /\ Core(d) /\ Drained(d)
           /\ d.status \in {"closed", "stopped"} /\ d.sentOnce = c.sentOnce
<1>1. PICK e \in TransitionClosed(c) : d = StopIfDrained(e)
  BY DEF UpstreamClosed
<1> QED
  BY <1>1, TransitionClosedCore, StopIfDrainedCore DEF Later

LEMMA SendFailedCore ==
    ASSUME NEW c, Core(c), NEW d \in SendFailed(c)
    PROVE  /\ Core(d) /\ Drained(d)
           /\ d.status \in {"closed", "stopped"} /\ d.sentOnce = c.sentOnce
<1>0. PICK e \in TransitionClosed(c) :
        \E f \in MaybeNotifyClosed(e) : d = StopIfDrained(f)
  BY DEF SendFailed
<1>1. PICK f \in MaybeNotifyClosed(e) : d = StopIfDrained(f)
  BY <1>0
<1>2. Core(f) /\ f.status = "closed" /\ f.sentOnce = c.sentOnce
  BY TransitionClosedCore, NotifyClosedCore DEF Same
<1> QED
  BY <1>1, <1>2, StopIfDrainedCore DEF Later

\* What acknowledge_through/2 leaves before it dispatches; the checkpoint is
\* the one ack_with_checkpoint has put there, or none was ever recorded.
Acknowledged(c, sequence) ==
    [c EXCEPT !.table = DeleteThrough(@, sequence),
              !.acked = sequence,
              !.inFlight = {s \in @ : s > sequence},
              !.overflowPending = FALSE]

LEMMA AcknowledgedCore ==
    ASSUME NEW c, Shape(c), NoLoss(c), InOrder(c), Told(c), LastIsClosure(c),
           NEW sequence \in c.inFlight, sequence > c.acked,
           c.checkpointSeq # 0 => c.checkpointSeq = sequence /\ c.checkpoint
    PROVE  Core(Acknowledged(c, sequence)) /\ Same(c, Acknowledged(c, sequence))
<1> DEFINE d == Acknowledged(c, sequence)
           kept == From(c.table, sequence + 1)
<1>1. c.table \in Tables /\ kept \in SUBSET DOMAIN c.table
  BY DEF Shape, ConnState, From
<1>2. DeleteThrough(c.table, sequence) \in Tables
      /\ DOMAIN DeleteThrough(c.table, sequence) = kept
  BY <1>1, KeepType DEF DeleteThrough
<1>3. /\ d.table = DeleteThrough(c.table, sequence)
      /\ d.acked = sequence
      /\ d.inFlight = {s \in c.inFlight : s > sequence}
  BY DEF Shape, ConnState, Acknowledged
<1>4. /\ d.next = c.next /\ d.dropped = c.dropped /\ d.consumer = c.consumer
      /\ d.delivered = c.delivered /\ d.told = c.told /\ d.status = c.status
      /\ d.checkpointSeq = c.checkpointSeq /\ d.checkpoint = c.checkpoint
      /\ d.closureNotified = c.closureNotified /\ ~d.overflowPending
  BY DEF Shape, ConnState, Acknowledged
<1>5. sequence \in 1..MaxSequence /\ sequence \in 1..(c.next - 1)
      /\ c.next \in 1..(MaxSequence + 1)
  BY BoundAssumption DEF Shape, ConnState
<1>6. Records(d) = {s \in Records(c) : s >= sequence + 1}
  BY <1>2, <1>3 DEF Records, From
<1>7. d \in ConnState
  <2> DEFINE left == {s \in c.inFlight : s > sequence}
             rest == DeleteThrough(c.table, sequence)
  <2>1. d = [c EXCEPT !.table = rest, !.acked = sequence, !.inFlight = left,
                      !.overflowPending = FALSE]
    BY DEF Shape, ConnState, Acknowledged
  <2>2. rest \in Tables /\ left \in SUBSET (1..MaxSequence) /\ sequence \in 0..MaxSequence
    BY <1>2, <1>5, BoundAssumption DEF Shape, ConnState
  <2> HIDE DEF left, rest, d
  <2> QED
    BY <2>1, <2>2 DEF Shape, ConnState
<1>8. Shape(d)
  BY <1>3, <1>4, <1>5, <1>6, <1>7 DEF Shape, Attached
<1>9. NoLoss(d)
  <2>1. ASSUME c.dropped = 0 PROVE Records(d) = (sequence + 1)..(c.next - 1)
    <3>1. Records(c) = (c.acked + 1)..(c.next - 1) /\ c.acked \in Nat
      BY <2>1 DEF NoLoss, Shape, ConnState
    <3> QED
      BY <1>5, <1>6, <3>1
  <2> QED
    BY <1>3, <1>4, <2>1 DEF NoLoss
<1>10. Pending(d) \subseteq Pending(c)
  <2>1. Records(c) \subseteq Int /\ c.inFlight \subseteq Int
    BY DEF Shape
  <2> QED
    BY <1>3, <1>5, <1>6, <2>1 DEF Pending
<1>11. InOrder(d) /\ LastIsClosure(d)
  BY <1>4, <1>10 DEF InOrder, LastIsClosure, Attached
<1>12. Checkpointed(d) /\ Told(d)
  BY <1>3, <1>4 DEF Checkpointed, Told, Attached
<1>13. Same(c, d)
  BY DEF Shape, ConnState, Same, Acknowledged
<1> QED
  BY <1>8, <1>9, <1>11, <1>12, <1>13 DEF Core

\* A push while the connection is open, with its overflow notification: the
\* records it drops are counted, and an attached consumer is told.
LEMMA PushCore ==
    ASSUME NEW c, Core(c), c.status = "open", c.next <= MaxSequence,
           NEW size \in PayloadSizes, NEW d \in Push(c, size)
    PROVE  /\ Shape(d) /\ NoLoss(d) /\ Checkpointed(d) /\ InOrder(d) /\ LastIsClosure(d)
           /\ d.dropped \in Nat /\ d.dropped >= c.dropped
           /\ d.consumer = c.consumer /\ d.told = c.told
           /\ d.overflowPending = c.overflowPending /\ Same(c, d)
<1>1. /\ c.next \in 1..MaxSequence /\ c.dropped \in Nat /\ c.acked \in Nat
      /\ c.next + 1 \in 1..(MaxSequence + 1)
  BY BoundAssumption DEF Core, Shape, ConnState
<1>2. CASE d = [c EXCEPT !.next = @ + 1, !.dropped = @ + 1]
  <2>0. d \in ConnState
    <3> DEFINE n == c.next + 1
               l == c.dropped + 1
    <3>1. d = [c EXCEPT !.next = n, !.dropped = l]
      BY <1>2
    <3>2. n \in 1..(MaxSequence + 1) /\ l \in Nat
      BY <1>1
    <3> HIDE DEF n, l
    <3> QED
      BY <3>1, <3>2 DEF Core, Shape, ConnState
  <2>1. Shape(d)
    <3>1. /\ d.next = c.next + 1 /\ Records(d) = Records(c)
          /\ d.inFlight = c.inFlight /\ d.delivered = c.delivered
          /\ d.acked = c.acked /\ d.consumer = c.consumer
      BY <1>2 DEF Core, Shape, ConnState, Records
    <3> QED
      BY <1>1, <2>0, <3>1 DEF Core, Shape, Attached
  <2>2. /\ d.dropped = c.dropped + 1 /\ d.consumer = c.consumer /\ d.told = c.told
        /\ d.overflowPending = c.overflowPending /\ Same(c, d)
        /\ d.delivered = c.delivered /\ d.closureNotified = c.closureNotified
        /\ Pending(d) = Pending(c)
    BY <1>2 DEF Core, Shape, ConnState, Pending, Records, Same
  <2>3. NoLoss(d) /\ Checkpointed(d)
    BY <1>1, <1>2, <2>2 DEF Core, Shape, ConnState, NoLoss, Checkpointed
  <2> QED
    BY <1>1, <2>1, <2>2, <2>3 DEF Core, InOrder, LastIsClosure, Attached, Same
<1>3. ASSUME NEW n \in FirstRetained(Inserted(c, size), c.next),
             d = [c EXCEPT !.next = @ + 1,
                           !.table = Keep(Inserted(c, size), From(Inserted(c, size), n)),
                           !.dropped = @ + Cardinality(DOMAIN Inserted(c, size)
                                                         \ From(Inserted(c, size), n))]
      PROVE  /\ Shape(d) /\ NoLoss(d) /\ Checkpointed(d) /\ InOrder(d) /\ LastIsClosure(d)
             /\ d.dropped \in Nat /\ d.dropped >= c.dropped
             /\ d.consumer = c.consumer /\ d.told = c.told
             /\ d.overflowPending = c.overflowPending /\ Same(c, d)
  <2> DEFINE t == Inserted(c, size)
             lost == DOMAIN t \ From(t, n)
  <2>1. t \in Tables /\ DOMAIN t = Records(c) \cup {c.next}
    BY <1>1, InsertedType DEF Core
  <2>2. From(t, n) \in SUBSET DOMAIN t
    BY DEF From
  <2>3. Keep(t, From(t, n)) \in Tables /\ DOMAIN Keep(t, From(t, n)) = From(t, n)
    BY <2>1, <2>2, KeepType
  <2>4. IsFiniteSet(lost) /\ Cardinality(lost) \in Nat
    <3>1. IsFiniteSet(1..MaxSequence)
      BY FS_Interval, BoundAssumption
    <3>2. lost \subseteq 1..MaxSequence
      BY <2>1, TableType
    <3> QED
      BY <3>1, <3>2, FS_Subset, FS_CardinalityType
  <2>5. /\ d.dropped = c.dropped + Cardinality(lost) /\ d.next = c.next + 1
        /\ Records(d) = From(t, n)
        /\ d.consumer = c.consumer /\ d.told = c.told /\ d.acked = c.acked
        /\ d.overflowPending = c.overflowPending /\ Same(c, d)
        /\ d.delivered = c.delivered /\ d.closureNotified = c.closureNotified
        /\ d.inFlight = c.inFlight /\ d.checkpointSeq = c.checkpointSeq
        /\ d.checkpoint = c.checkpoint
    BY <1>3, <2>3 DEF Core, Shape, ConnState, Records, Same
  <2>6. d \in ConnState
    <3>1. d = [c EXCEPT !.next = c.next + 1, !.table = Keep(t, From(t, n)),
                        !.dropped = c.dropped + Cardinality(lost)]
      BY <1>3
    <3>2. c.dropped + Cardinality(lost) \in Nat
      BY <1>1, <2>4
    <3> HIDE DEF t, lost
    <3> QED
      BY <1>1, <2>3, <3>1, <3>2 DEF Core, Shape, ConnState
  <2>7. Shape(d)
    BY <1>1, <2>1, <2>2, <2>5, <2>6 DEF Core, Shape, Attached
  <2>8. NoLoss(d)
    <3>1. SUFFICES ASSUME d.dropped = 0 PROVE Records(d) = (d.acked + 1)..(d.next - 1)
      BY DEF NoLoss
    <3>2. c.dropped = 0 /\ Cardinality(lost) = 0
      BY <1>1, <2>4, <2>5, <3>1
    <3>3. lost = {}
      BY <2>4, <3>2, FS_EmptySet
    <3>4. Records(d) = Records(c) \cup {c.next}
      BY <2>1, <2>2, <2>5, <3>3
    <3>5. Records(c) = (c.acked + 1)..(c.next - 1) /\ c.acked < c.next
      BY <3>2 DEF Core, Shape, NoLoss
    <3> QED
      BY <1>1, <2>5, <3>4, <3>5
  <2>9. Pending(d) \subseteq Pending(c) \cup {c.next}
    BY <2>1, <2>2, <2>5 DEF Pending
  <2>10. InOrder(d)
    BY <1>1, <2>5, <2>9 DEF Core, Shape, InOrder, Attached
  <2>11. Checkpointed(d) /\ LastIsClosure(d)
    BY <2>5 DEF Core, Checkpointed, LastIsClosure, Attached, Same
  <2> QED
    BY <1>1, <2>4, <2>5, <2>7, <2>8, <2>10, <2>11
<1> QED
  BY <1>2, <1>3 DEF Push, Store

LEMMA NotifyOverflowCore ==
    ASSUME NEW b, Core(b),
           NEW c, Shape(c), NoLoss(c), Checkpointed(c), InOrder(c), LastIsClosure(c),
           c.dropped >= b.dropped, c.consumer = b.consumer, c.told = b.told,
           c.overflowPending = b.overflowPending,
           NEW d \in NotifyOverflow(c, c.dropped - b.dropped)
    PROVE  Core(d) /\ Same(c, d)
<1>1. b.dropped \in Nat /\ c.dropped \in Nat
  BY DEF Core, Shape, ConnState
<1>2. CASE d = c /\ ~(c.dropped - b.dropped > 0 /\ ~c.overflowPending /\ Attached(c))
  <2>1. Told(c)
    BY <1>1, <1>2 DEF Core, Told, Attached
  <2> QED
    BY <1>2, <2>1 DEF Core, Same
<1>3. CASE d = BeginDetachedEpisode(c)
  BY <1>3, DetachCore
<1>4. CASE d = [c EXCEPT !.overflowPending = TRUE, !.told = TRUE]
  <2>1. /\ d.status = c.status /\ d.consumer = c.consumer /\ d.delivered = c.delivered
        /\ d.closureNotified = c.closureNotified /\ d.told
        /\ Records(d) = Records(c) /\ Pending(d) = Pending(c)
    BY <1>4 DEF Shape, ConnState, Records, Pending
  <2>2. Shape(d)
    BY <1>4, <2>1 DEF Shape, ConnState, Attached
  <2>3. NoLoss(d) /\ Checkpointed(d)
    BY <1>4, <2>1 DEF Shape, ConnState, NoLoss, Checkpointed
  <2>4. Same(c, d)
    BY <1>4 DEF Shape, ConnState, Same
  <2> QED
    BY <2>1, <2>2, <2>3, <2>4 DEF Core, InOrder, LastIsClosure, Told, Attached
<1> QED
  BY <1>2, <1>3, <1>4 DEF NotifyOverflow, Deliver

-----------------------------------------------------------------------------
(* The invariant of the specification.                                     *)

\* A key that may have reached the peer is remembered, or nothing more is
\* written in this generation.
SentKeys ==
    /\ wire \in [Keys -> Nat]
    /\ \A k \in Keys :
          /\ wire[k] <= 1
          /\ wire[k] = 1 /\ conn.status \in {"opening", "open"} => k \in conn.sentOnce

Messages ==
    /\ chunk \in Chunks
    /\ watchers \subseteq [id : Nat, consumer : Consumers]
    /\ signals \subseteq [kind : {"consumer_down", "DOWN"}, watcher : Nat,
                          consumer : Consumers]
    /\ dead \subseteq Consumers

IInv ==
    /\ Core(conn)
    /\ Drained(conn)
    /\ chunk # NoChunk => conn.status = "open"
    /\ Messages
    /\ SentKeys

\* SentKeys survives every step that writes nothing.
LEMMA SentKeysKept ==
    ASSUME SentKeys, wire' = wire, conn'.sentOnce = conn.sentOnce,
           conn'.status \in {"opening", "open"} =>
              conn.status \in {"opening", "open"}
    PROVE  SentKeys'
BY DEF SentKeys

LEMMA InitIInv == Init => IInv
<1> SUFFICES ASSUME Init PROVE IInv
  OBVIOUS
<1> DEFINE none == [s \in {} |-> 0]
<1>0. none \in Tables /\ DOMAIN none = {}
  <2>1. none \in [{} -> PayloadSizes]
    OBVIOUS
  <2> QED
    BY <2>1 DEF Tables
<1>1. conn \in ConnState
  BY <1>0, BoundAssumption DEF Init, ConnState, Statuses
<1>2. /\ Records(conn) = {} /\ ~Attached(conn) /\ conn.next = 1 /\ conn.acked = 0
      /\ conn.inFlight = {} /\ conn.delivered = {} /\ conn.checkpointSeq = 0
  BY <1>0 DEF Init, Records, Attached
<1>3. Shape(conn) /\ NoLoss(conn)
  BY <1>1, <1>2 DEF Shape, NoLoss
<1>4. Core(conn) /\ Drained(conn)
  BY <1>2, <1>3 DEF Core, Checkpointed, InOrder, Told, LastIsClosure, Drained
<1>5. Messages /\ SentKeys /\ chunk = NoChunk
  BY DEF Init, Messages, SentKeys, Chunks, NoChunk
<1> QED
  BY <1>4, <1>5 DEF IInv

\* Handlers that leave the socket's input, the watchers and the wire alone.
LEMMA QuietStep ==
    ASSUME IInv, Core(conn'), Drained(conn'), Later(conn, conn'),
           chunk' = chunk, chunk = NoChunk,
           Messages', wire' = wire
    PROVE  IInv'
BY SentKeysKept DEF IInv, Later

\* The state attach/4 dispatches from.
LEMMA AttachedCore ==
    ASSUME IInv, NEW x \in Consumers, ~Attached(conn)
    PROVE  LET id == conn.attachments + 1
               attached == [conn EXCEPT !.consumer = x, !.watcher = id,
                                        !.attachments = id, !.inFlight = {},
                                        !.overflowPending = FALSE,
                                        !.closureNotified = FALSE,
                                        !.told = conn.dropped > 0]
           IN  Core(attached) /\ Same(conn, attached) /\ id \in Nat
<1> DEFINE id == conn.attachments + 1
           attached == [conn EXCEPT !.consumer = x, !.watcher = id,
                                    !.attachments = id, !.inFlight = {},
                                    !.overflowPending = FALSE,
                                    !.closureNotified = FALSE,
                                    !.told = conn.dropped > 0]
<1>1. id \in Nat /\ conn.delivered = {} /\ conn \in ConnState
  BY DEF IInv, Core, Shape, ConnState
<1>2. attached \in ConnState
  <2> DEFINE known == conn.dropped > 0
  <2>1. known \in BOOLEAN
    OBVIOUS
  <2>2. attached = [conn EXCEPT !.consumer = x, !.watcher = id,
                                !.attachments = id, !.inFlight = {},
                                !.overflowPending = FALSE,
                                !.closureNotified = FALSE, !.told = known]
    OBVIOUS
  <2> HIDE DEF id, known, attached
  <2> QED
    BY <1>1, <2>1, <2>2 DEF ConnState
<1>3. /\ attached.table = conn.table /\ attached.next = conn.next
      /\ attached.inFlight = {} /\ attached.delivered = {}
      /\ attached.acked = conn.acked /\ attached.dropped = conn.dropped
      /\ attached.checkpointSeq = conn.checkpointSeq
      /\ attached.checkpoint = conn.checkpoint
      /\ ~attached.closureNotified /\ ~attached.overflowPending
      /\ attached.told = (conn.dropped > 0)
      /\ attached.consumer = x /\ Same(conn, attached)
  BY <1>1 DEF ConnState, Same
<1> HIDE DEF attached, id
<1>4. Shape(attached) /\ NoLoss(attached) /\ Checkpointed(attached)
  BY <1>2, <1>3, ConsumerAssumption
     DEF IInv, Core, Shape, Records, Attached, NoLoss, Checkpointed
<1>5. Core(attached)
  BY <1>3, <1>4 DEF Core, InOrder, Told, LastIsClosure
<1> QED
  BY <1>1, <1>3, <1>5 DEF attached, id

LEMMA AttachStep ==
    ASSUME IInv, NEW x \in Consumers, Attach(x)
    PROVE  IInv'
<1> DEFINE id == conn.attachments + 1
           attached == [conn EXCEPT !.consumer = x, !.watcher = id,
                                    !.attachments = id, !.inFlight = {},
                                    !.overflowPending = FALSE,
                                    !.closureNotified = FALSE,
                                    !.told = conn.dropped > 0]
<1>1. Core(attached) /\ Same(conn, attached) /\ id \in Nat
  BY AttachedCore DEF Attach
<1>2. /\ conn' \in DispatchAndSettle(attached)
      /\ watchers' = watchers \cup {[id |-> id, consumer |-> x]}
  BY DEF Attach
<1> HIDE DEF attached, id
<1>3. Core(conn') /\ Drained(conn') /\ Later(conn, conn')
  BY <1>1, <1>2, DispatchAndSettleCore DEF Same, Later
<1>4. Messages'
  BY <1>1, <1>2 DEF Attach, IInv, Messages
<1> QED
  BY <1>3, <1>4, QuietStep DEF Attach, Idle

\* Both acknowledgements delete through a sequence in flight and dispatch from
\* there; they differ in the checkpoint alone.
LEMMA AckDispatches ==
    ASSUME IInv, NEW x \in Consumers, NEW s \in 1..MaxSequence,
           Ack(x, s) \/ AckWithCheckpoint(x, s)
    PROVE  \E c : /\ Shape(c) /\ Core(Acknowledged(c, s)) /\ Same(conn, c)
                  /\ Same(c, Acknowledged(c, s))
                  /\ conn' \in DispatchAndSettle(Acknowledged(c, s))
                  /\ c.table = conn.table /\ c.next = conn.next /\ c.dropped = conn.dropped
                  /\ c.acked = conn.acked /\ c.inFlight = conn.inFlight
                  /\ c.delivered = conn.delivered /\ c.consumer = conn.consumer
                  /\ c.watcher = conn.watcher /\ c.told = conn.told
                  /\ c.closureNotified = conn.closureNotified
<1>1. Core(conn) /\ s \in conn.inFlight /\ s > conn.acked
  BY DEF IInv, Ack, AckWithCheckpoint, NewAck
<1>2. CASE Ack(x, s)
  <2>1. Core(Acknowledged(conn, s)) /\ Same(conn, Acknowledged(conn, s))
    BY <1>1, <1>2, AcknowledgedCore DEF Ack, Core
  <2>2. conn' \in DispatchAndSettle(Acknowledged(conn, s))
    BY <1>2 DEF Ack, AcknowledgeThrough, Acknowledged
  <2> QED
    BY <1>1, <2>1, <2>2 DEF Core, Same
<1>3. CASE AckWithCheckpoint(x, s)
  <2> DEFINE c == [conn EXCEPT !.checkpoint = TRUE, !.checkpointSeq = s]
  <2>1. c \in ConnState
    <3>1. s \in 0..MaxSequence
      BY BoundAssumption
    <3> QED
      BY <1>1, <3>1 DEF Core, Shape, ConnState
  <2>2. /\ c.table = conn.table /\ c.next = conn.next /\ c.dropped = conn.dropped
        /\ c.acked = conn.acked /\ c.inFlight = conn.inFlight
        /\ c.delivered = conn.delivered /\ c.consumer = conn.consumer
        /\ c.watcher = conn.watcher /\ c.told = conn.told
        /\ c.closureNotified = conn.closureNotified /\ Same(conn, c)
        /\ c.checkpointSeq = s /\ c.checkpoint /\ c.overflowPending = conn.overflowPending
    BY <1>1 DEF Core, Shape, ConnState, Same
  <2>3. conn' \in DispatchAndSettle(Acknowledged(c, s))
    BY <1>3 DEF AckWithCheckpoint, AcknowledgeThrough, Acknowledged, c
  <2> HIDE DEF c
  <2>4. Shape(c) /\ NoLoss(c)
    BY <1>1, <2>1, <2>2 DEF Core, Shape, NoLoss, Records, Attached
  <2>5. InOrder(c) /\ Told(c) /\ LastIsClosure(c)
    BY <1>1, <2>2 DEF Core, InOrder, Told, LastIsClosure, Pending, Records, Attached, Same
  <2>6. Core(Acknowledged(c, s)) /\ Same(c, Acknowledged(c, s))
    BY <1>1, <2>2, <2>4, <2>5, AcknowledgedCore
  <2> QED
    BY <2>2, <2>3, <2>4, <2>6
<1> QED
  BY <1>2, <1>3

LEMMA AckStep ==
    ASSUME IInv, NEW x \in Consumers, NEW s \in 1..MaxSequence,
           Ack(x, s) \/ AckWithCheckpoint(x, s)
    PROVE  IInv'
<1>1. Core(conn') /\ Drained(conn') /\ Later(conn, conn')
  BY AckDispatches, DispatchAndSettleCore DEF Same, Later
<1>2. /\ chunk = NoChunk /\ chunk' = chunk /\ wire' = wire /\ Messages'
  BY DEF IInv, Ack, AckWithCheckpoint, NewAck, Idle, Messages
<1> QED
  BY <1>1, <1>2, QuietStep

LEMMA SendDataOnceStep ==
    ASSUME IInv, NEW keys \in (SUBSET Keys) \ {{}}, SendDataOnce(keys)
    PROVE  IInv'
<1>1. /\ Core(conn) /\ Drained(conn) /\ SentKeys /\ Messages /\ chunk = NoChunk
      /\ conn.status = "open" /\ keys \cap conn.sentOnce = {}
      /\ chunk' = chunk /\ Messages'
  BY DEF IInv, SendDataOnce, SendOnceAccepted, Idle, Messages
<1>2. /\ Written(keys) \in [Keys -> Nat]
      /\ \A k \in Keys : Written(keys)[k] <= 1
      /\ \A k \in Keys : Written(keys)[k] = 1 => k \in conn.sentOnce \cup keys
  <2>1. \A k \in Keys : /\ wire[k] \in Nat /\ wire[k] <= 1
                        /\ wire[k] = 1 => k \in conn.sentOnce
    BY <1>1 DEF SentKeys
  <2>2. \A k \in keys : wire[k] = 0
    BY <1>1, <2>1
  <2> QED
    BY <2>1, <2>2 DEF Written
<1>3. CASE conn' = [conn EXCEPT !.sentOnce = @ \cup keys] /\ wire' = Written(keys)
  <2>1. /\ conn'.status = conn.status /\ conn'.sentOnce = conn.sentOnce \cup keys
        /\ conn' \in ConnState
    BY <1>1, <1>3 DEF Core, Shape, ConnState
  <2>2. Core(conn')
    <3>1. Shape(conn') /\ NoLoss(conn') /\ Checkpointed(conn')
      BY <1>1, <1>3, <2>1 DEF Core, Shape, ConnState, Records, Attached, NoLoss, Checkpointed
    <3>2. InOrder(conn') /\ Told(conn') /\ LastIsClosure(conn')
      BY <1>1, <1>3 DEF Core, Shape, ConnState, InOrder, Told, LastIsClosure, Pending,
                        Records, Attached
    <3> QED
      BY <3>1, <3>2 DEF Core
  <2>3. Drained(conn')
    BY <1>1, <2>1 DEF Drained
  <2> QED
    BY <1>1, <1>2, <1>3, <2>1, <2>2, <2>3 DEF IInv, SentKeys
<1>4. CASE conn' \in SendFailed(conn) /\ wire' \in {wire, Written(keys)}
  <2>1. Core(conn') /\ Drained(conn') /\ conn'.status \in {"closed", "stopped"}
    BY <1>1, <1>4, SendFailedCore
  <2>2. SentKeys'
    BY <1>1, <1>2, <1>4, <2>1 DEF SentKeys
  <2> QED
    BY <1>1, <2>1, <2>2 DEF IInv
<1> QED
  BY <1>3, <1>4 DEF SendDataOnce

LEMMA ApplyForwardStep ==
    ASSUME IInv, ApplyForward
    PROVE  IInv'
<1>1. /\ Core(conn) /\ chunk \in Chunks /\ chunk # NoChunk /\ conn.status = "open"
      /\ conn.next <= MaxSequence
  BY DEF IInv, Messages, ApplyForward, NoChunk
<1>2. /\ chunk.todo \in Seq(AdapterActions) /\ chunk.todo # <<>>
      /\ chunk' = [chunk EXCEPT !.todo = Tail(@)]
  BY <1>1 DEF ApplyForward, Chunks
<1>3. Head(chunk.todo) \in AdapterActions /\ Tail(chunk.todo) \in Seq(AdapterActions)
  BY <1>2
<1>4. Head(chunk.todo).size \in PayloadSizes
  BY <1>3 DEF AdapterActions
<1>5. PICK c \in Push(conn, Head(chunk.todo).size) :
        \E d \in NotifyOverflow(c, c.dropped - conn.dropped) :
           conn' \in DispatchAvailable(d)
  BY DEF ApplyForward
<1>6. PICK d \in NotifyOverflow(c, c.dropped - conn.dropped) :
        conn' \in DispatchAvailable(d)
  BY <1>5
<1>7. Core(d) /\ Same(c, d) /\ Same(conn, c)
  BY <1>1, <1>4, PushCore, NotifyOverflowCore
<1>8. Core(conn') /\ Same(conn, conn')
  BY <1>6, <1>7, DispatchCore DEF Same
<1>9. conn'.status = "open" /\ Drained(conn') /\ conn'.sentOnce = conn.sentOnce
  BY <1>1, <1>8 DEF Drained, Same
<1>10. chunk' \in Chunks
  BY <1>1, <1>2, <1>3 DEF Chunks
<1>11. Messages' /\ wire' = wire
  BY <1>10 DEF IInv, Messages, ApplyForward
<1> QED
  BY <1>1, <1>8, <1>9, <1>11, SentKeysKept DEF IInv

LEMMA ClosingStep ==
    ASSUME IInv, chunk' = NoChunk, Messages', wire' = wire,
           conn' \in UpstreamClosed(conn) \/ conn' \in SendFailed(conn)
    PROVE  IInv'
<1>1. /\ Core(conn') /\ Drained(conn') /\ conn'.status \in {"closed", "stopped"}
      /\ conn'.sentOnce = conn.sentOnce
  BY UpstreamClosedCore, SendFailedCore DEF IInv
<1> QED
  BY <1>1, SentKeysKept DEF IInv

LEMMA StopStep ==
    ASSUME IInv, chunk' = NoChunk, Messages', wire' = wire, conn' = Stop(conn)
    PROVE  IInv'
<1>1. /\ Core(conn') /\ ~Attached(conn') /\ conn'.status = "stopped"
      /\ conn'.sentOnce = conn.sentOnce
  BY StopCore DEF IInv
<1> QED
  BY <1>1, SentKeysKept DEF IInv, Drained

LEMMA DetachStep ==
    ASSUME IInv, chunk' = chunk, chunk = NoChunk, Messages', wire' = wire,
           conn' = BeginDetachedEpisode(conn)
    PROVE  IInv'
<1>1. Core(conn') /\ ~Attached(conn') /\ Same(conn, conn')
  BY DetachCore DEF IInv, Core
<1> QED
  BY <1>1, QuietStep DEF Drained, Same, Later

\* The watchers and the consumers touch neither the connection nor the wire.
LEMMA OutsideStep ==
    ASSUME IInv, Messages', UNCHANGED <<conn, chunk, wire>>
    PROVE  IInv'
<1>1. conn' = conn /\ chunk' = chunk /\ wire' = wire
  OBVIOUS
<1>2. Core(conn') /\ Drained(conn')
  BY <1>1 DEF IInv
<1>3. SentKeys'
  BY <1>1, SentKeysKept DEF IInv
<1> QED
  BY <1>1, <1>2, <1>3 DEF IInv, NoChunk

LEMMA NoChunkType == NoChunk \in Chunks
BY DEF NoChunk, Chunks

LEMMA NextIInv == IInv /\ [Next]_vars => IInv'
<1> SUFFICES ASSUME IInv, [Next]_vars PROVE IInv'
  OBVIOUS
<1>1. CASE Connect
  <2>1. Messages' /\ chunk' = chunk /\ wire' = wire
    BY <1>1 DEF Connect, IInv, Messages
  <2>2. chunk = NoChunk
    BY <1>1 DEF Connect, IInv
  <2>3. CASE conn' = [conn EXCEPT !.status = "open"]
    <3>1. /\ conn' \in ConnState /\ conn'.status = "open" /\ conn'.sentOnce = conn.sentOnce
          /\ conn'.consumer = conn.consumer
      BY <2>3 DEF IInv, Core, Shape, ConnState, Statuses
    <3>2. Shape(conn') /\ NoLoss(conn') /\ Checkpointed(conn')
      BY <2>3, <3>1 DEF IInv, Core, Shape, ConnState, Records, Attached, NoLoss, Checkpointed
    <3>3. InOrder(conn') /\ Told(conn')
      BY <2>3 DEF IInv, Core, Shape, ConnState, InOrder, Told, Pending, Records, Attached
    <3>4. LastIsClosure(conn')
      BY <1>1, <2>3 DEF Connect, IInv, Core, Shape, ConnState, LastIsClosure, Attached
    <3> QED
      BY <1>1, <2>1, <2>2, <3>1, <3>2, <3>3, <3>4, SentKeysKept
         DEF Connect, IInv, Core, Drained
  <2>4. CASE conn' = Stop(conn)
    BY <2>1, <2>2, <2>4, StopStep
  <2> QED
    BY <1>1, <2>3, <2>4 DEF Connect
<1>2. ASSUME NEW x \in Consumers, Attach(x) PROVE IInv'
  BY <1>2, AttachStep
<1>3. ASSUME NEW x \in Consumers, Detach(x) PROVE IInv'
  BY <1>3, DetachStep DEF Detach, Idle, IInv, Messages
<1>4. ASSUME NEW x \in Consumers, PutCheckpoint(x) PROVE IInv'
  <2>1. conn' = [conn EXCEPT !.checkpoint = TRUE] /\ conn \in ConnState
    BY <1>4 DEF PutCheckpoint, IInv, Core, Shape
  <2>2. Shape(conn') /\ NoLoss(conn') /\ Checkpointed(conn')
    BY <2>1 DEF IInv, Core, Shape, ConnState, Records, Attached, NoLoss, Checkpointed
  <2>3. InOrder(conn') /\ Told(conn') /\ LastIsClosure(conn') /\ Drained(conn')
    BY <2>1 DEF IInv, Core, Shape, ConnState, InOrder, Told, LastIsClosure, Pending,
                Records, Attached, Drained
  <2>4. Later(conn, conn')
    BY <2>1 DEF ConnState, Later
  <2> QED
    BY <1>4, <2>2, <2>3, <2>4, QuietStep
       DEF PutCheckpoint, Idle, IInv, Core, Messages
<1>5. ASSUME NEW x \in Consumers, NEW s \in 1..MaxSequence,
             Ack(x, s) \/ AckWithCheckpoint(x, s)
      PROVE  IInv'
  BY <1>5, AckStep
<1>6. CASE SendData
  BY <1>6, ClosingStep DEF SendData, Idle, IInv, Messages
<1>7. ASSUME NEW keys \in (SUBSET Keys) \ {{}}, SendDataOnce(keys) PROVE IInv'
  BY <1>7, SendDataOnceStep
<1>8. CASE Close
  BY <1>8, StopStep DEF Close, Idle, IInv, Messages
<1>9. CASE Inbound
  <2>1. PICK n \in 0..MaxChunk, result \in {"ok", "error"} :
          \E todo \in [1..n -> AdapterActions] :
             chunk' = [todo |-> todo, result |-> result]
    BY <1>9 DEF Inbound
  <2>2. n \in Nat
    BY BoundAssumption
  <2>3. [1..n -> AdapterActions] \subseteq Seq(AdapterActions)
    BY <2>2
  <2>4. chunk' \in Chunks
    BY <2>1, <2>3 DEF Chunks
  <2>5. Messages'
    BY <1>9, <2>4 DEF Inbound, IInv, Messages
  <2> QED
    BY <1>9, <2>5 DEF Inbound, IInv, SentKeys
<1>10. CASE ApplyForward
  BY <1>10, ApplyForwardStep
<1>11. CASE ApplyReply
  <2>1. chunk \in Chunks /\ chunk.todo # <<>> /\ chunk' = [chunk EXCEPT !.todo = Tail(@)]
    BY <1>11 DEF ApplyReply, IInv, Messages
  <2>2. chunk.todo \in Seq(AdapterActions) /\ chunk # NoChunk
    BY <2>1 DEF Chunks, NoChunk
  <2>3. Tail(chunk.todo) \in Seq(AdapterActions)
    BY <2>1, <2>2
  <2>4. chunk' \in Chunks
    BY <2>1, <2>3 DEF Chunks
  <2>5. Messages'
    BY <1>11, <2>4 DEF ApplyReply, IInv, Messages
  <2> QED
    BY <1>11, <2>2, <2>5 DEF ApplyReply, IInv, SentKeys
<1>12. CASE ApplyFails
  BY <1>12, NoChunkType, ClosingStep DEF ApplyFails, IInv, Messages
<1>13. CASE FinishChunk
  <2>1. Messages' /\ chunk' = NoChunk /\ wire' = wire
    BY <1>13, NoChunkType DEF FinishChunk, IInv, Messages
  <2>2. CASE conn' = conn
    BY <2>1, <2>2 DEF IInv, SentKeys
  <2>3. CASE conn' \in UpstreamClosed(conn)
    BY <2>1, <2>3, ClosingStep
  <2> QED
    BY <1>13, <2>2, <2>3 DEF FinishChunk
<1>14. CASE UpstreamCloses
  BY <1>14, ClosingStep DEF UpstreamCloses, Idle, IInv, Messages
<1>15. CASE RetentionExpires
  BY <1>15, StopStep DEF RetentionExpires, Idle, IInv, Messages
<1>16. ASSUME NEW signal \in signals, TakeSignal(signal) PROVE IInv'
  <2>1. Messages' /\ chunk' = chunk /\ chunk = NoChunk /\ wire' = wire
    BY <1>16 DEF TakeSignal, Idle, IInv, Messages
  <2>2. CASE conn' = conn
    BY <2>1, <2>2, OutsideStep
  <2>3. CASE conn' = BeginDetachedEpisode(conn)
    BY <2>1, <2>3, DetachStep
  <2> QED
    BY <1>16, <2>2, <2>3 DEF TakeSignal
<1>17. CASE Killed
  BY <1>17, NoChunkType, StopStep DEF Killed, IInv, Messages
<1>18. ASSUME NEW x \in Consumers, ConsumerDies(x) PROVE IInv'
  BY <1>18, OutsideStep DEF ConsumerDies, IInv, Messages
<1>19. ASSUME NEW w \in watchers,
              WatcherReports(w) \/ LinkLost(w) \/ WatcherDies(w) \/ WatcherEnds(w)
       PROVE  IInv'
  <2>1. w.id \in Nat /\ w.consumer \in Consumers
    BY DEF IInv, Messages
  <2>2. Messages'
    BY <1>19, <2>1 DEF WatcherReports, LinkLost, Report, WatcherDies, WatcherEnds,
                       IInv, Messages
  <2>3. UNCHANGED <<conn, chunk, wire>>
    BY <1>19 DEF WatcherReports, LinkLost, Report, WatcherDies, WatcherEnds
  <2> QED
    BY <2>2, <2>3, OutsideStep
<1>20. CASE UNCHANGED vars
  BY <1>20 DEF vars, IInv, Messages, SentKeys
<1> QED
  BY <1>1, <1>2, <1>3, <1>4, <1>5, <1>6, <1>7, <1>8, <1>9, <1>10, <1>11, <1>12,
     <1>13, <1>14, <1>15, <1>16, <1>17, <1>18, <1>19, <1>20
     DEF Next, HandlerStep, WatcherStep

LEMMA InvariantIInv == Spec => []IInv
BY InitIInv, NextIInv, PTL DEF Spec

-----------------------------------------------------------------------------
(* The theorems.                                                           *)

\* Every variable keeps its shape in every reachable state: no handler of
\* connection.ex leaves a field its type does not allow.
THEOREM TypeCorrect == Spec => []TypeOK
<1>1. IInv => TypeOK
  BY DEF IInv, Core, Shape, Messages, SentKeys, TypeOK
<1> QED
  BY <1>1, InvariantIInv, PTL

\* Whatever is pushed, evicted, refused, replayed or acknowledged, a record is
\* never lost without dropped_records saying so (buffer.ex, connection.ex).
THEOREM LossIsNeverSilent == Spec => []NoSilentLoss
<1>1. IInv => NoSilentLoss
  BY DEF IInv, Core, NoLoss, NoSilentLoss
<1> QED
  BY <1>1, InvariantIInv, PTL

\* The checkpoint an attach returns is the one of the watermark: ACK and
\* checkpoint move together in ack_with_checkpoint and never apart.
THEOREM CheckpointIsAtWatermark == Spec => []CheckpointAtWatermark
<1>1. IInv => CheckpointAtWatermark
  BY DEF IInv, Core, Checkpointed, CheckpointAtWatermark
<1> QED
  BY <1>1, InvariantIInv, PTL

\* dispatch_available delivers the records of an attachment in order and each
\* of them once, across overflow, ACKs and refused messages.
THEOREM DeliveryIsInOrder == Spec => []DeliveredInOrder
<1>1. IInv => DeliveredInOrder
  BY DEF IInv, Core, InOrder, DeliveredInOrder
<1> QED
  BY <1>1, InvariantIInv, PTL

\* :upstream_closed follows every record, and a drained connection that is
\* closed and attached has stopped.
THEOREM ClosureComesLast == Spec => []ClosureIsLast
<1>1. IInv => ClosureIsLast
  BY DEF IInv, Core, Drained, LastIsClosure, ClosureIsLast
<1> QED
  BY <1>1, InvariantIInv, PTL

\* An attached consumer has been told of every gap, by its attach reply or by
\* an :overflow, although notify_overflow coalesces notifications.
THEOREM GapsAreTold == Spec => []GapIsTold
<1>1. IInv => GapIsTold
  BY DEF IInv, Core, Told, GapIsTold
<1> QED
  BY <1>1, InvariantIInv, PTL

\* send_data_once writes a key at most once in a generation, failed writes
\* that reached the peer included.
THEOREM SendOnceIsOnce == Spec => []SentAtMostOnce
<1>1. IInv => SentAtMostOnce
  BY DEF IInv, SentKeys, SentAtMostOnce
<1> QED
  BY <1>1, InvariantIInv, PTL

\* Only the consumer a watcher was started for can be detached by its report.
THEOREM StaleSignalsAreHarmless == Spec => StaleSignalIsHarmless
<1>1. [Next]_vars =>
        [\A signal \in signals \ signals' :
            Attached(conn) /\ signal.watcher # conn.watcher
               => conn'.consumer = conn.consumer]_vars
  <2> SUFFICES ASSUME [Next]_vars, NEW signal \in signals, signal \notin signals',
                      signal.watcher # conn.watcher
               PROVE  conn'.consumer = conn.consumer
    OBVIOUS
  <2>1. PICK taken \in signals : TakeSignal(taken)
    BY DEF Next, HandlerStep, WatcherStep, vars, Connect, Attach, Detach, PutCheckpoint,
           Ack, AckWithCheckpoint, SendData, SendDataOnce, Close, Inbound, ApplyForward,
           ApplyReply, ApplyFails, FinishChunk, UpstreamCloses, RetentionExpires, Killed,
           ConsumerDies, WatcherReports, LinkLost, Report, WatcherDies, WatcherEnds
  <2>2. taken = signal
    BY <2>1 DEF TakeSignal
  <2> QED
    BY <2>1, <2>2 DEF TakeSignal, Matches
<1> QED
  BY <1>1, PTL DEF Spec, StaleSignalIsHarmless
=============================================================================
