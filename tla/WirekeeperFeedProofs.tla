------------------------ MODULE WirekeeperFeedProofs ------------------------
(***************************************************************************)
(* A connection's credit is always used, its consumer's mailbox bounded    *)
(* and its consumer watched, and the connection implements ReplayFeed, for *)
(* every value of the constants.  What holds of every state a private      *)
(* function can return (Credit) and what holds between handlers (Settled)  *)
(* are added to Core of WirekeeperConnectionProofs.                        *)
(***************************************************************************)
EXTENDS WirekeeperConnectionFeed, WirekeeperConnectionProofs, NumberLemmas

-----------------------------------------------------------------------------
(* Finite sets of sequences.                                               *)

LEMMA SequencesAreFinite ==
    ASSUME NEW S, S \subseteq 1..MaxSequence
    PROVE  IsFiniteSet(S) /\ Cardinality(S) \in Nat
<1>1. IsFiniteSet(1..MaxSequence)
  BY FS_Interval, BoundAssumption
<1> QED
  BY <1>1, FS_Subset, FS_CardinalityType

LEMMA GreatestSequence ==
    ASSUME NEW S, S \subseteq 1..MaxSequence, S # {}
    PROVE  \E x \in S : \A y \in S : y <= x
BY GreatestNumber, BoundAssumption

\* The sum over one index: all the byte bound says of a single record.
LEMMA SumOfOne ==
    ASSUME NEW t, NEW a, t[a] \in Nat
    PROVE  SumFunctionOnSet(t, {a}) = t[a]
<1> DEFINE Step(g) == [s \in SUBSET {a} |->
                         IF s = {} THEN 0
                         ELSE LET x == CHOOSE x \in s : TRUE IN t[x] + g[s \ {x}]]
           sum == CHOOSE g : g = Step(g)
           one == [s \in SUBSET {a} |-> IF s = {} THEN 0 ELSE t[a]]
<1>1. SumFunctionOnSet(t, {a}) = sum[{a}]
  BY DEF SumFunctionOnSet, FoldFunctionOnSet, MapThenFoldSet
<1>2. one = Step(one)
  OBVIOUS
<1>3. sum = Step(sum)
  BY <1>2
<1>4. sum[{}] = 0
  BY <1>3
<1>5. sum[{a}] = t[a] + sum[{a} \ {a}]
  BY <1>3
<1>6. {a} \ {a} = {}
  OBVIOUS
<1> HIDE DEF sum, one, Step
<1> QED
  BY <1>1, <1>4, <1>5, <1>6

-----------------------------------------------------------------------------
(* The invariants.                                                         *)

\* What is in flight is what the consumer has and has not acknowledged; it is
\* within the credit, and nothing at or below the watermark is retained.
Credit(c) ==
    /\ c.inFlight = {s \in c.delivered : s > c.acked}
    /\ \A s \in Records(c) : s > c.acked
    /\ Cardinality(c.inFlight) <= MaxInFlight
    /\ ~Attached(c) => ~c.told /\ ~c.closureNotified

\* Nothing is withheld from a consumer that has credit.
Full(c) ==
    Attached(c) /\ Pending(c) # {} => Cardinality(c.inFlight) = MaxInFlight

\* A closed connection with nothing left to deliver has said so.
Announced(c) ==
    c.status = "closed" /\ Attached(c) /\ Pending(c) = {} => c.closureNotified

Flowing(c) == Core(c) /\ Credit(c) /\ Full(c)
Settled(c) == Flowing(c) /\ Announced(c) /\ Drained(c)

\* An attached consumer has a watcher, or the watcher's signal is waiting.
Watched ==
    Attached(conn) =>
        \/ [id |-> conn.watcher, consumer |-> conn.consumer] \in watchers
        \/ \E signal \in signals : Matches(signal, conn)

FlowInv == IInv /\ Settled(conn) /\ Watched

\* What delivering may change: the consumer is given retained records, or a
\* message to it is refused and it is detached.
Kept(c, d) ==
    /\ d.next = c.next /\ d.acked = c.acked
    /\ d.dropped = c.dropped /\ d.table = c.table
Grown(c, d) ==
    /\ d.consumer = c.consumer /\ d.watcher = c.watcher /\ d.told = c.told
    /\ c.delivered \subseteq d.delivered /\ d.delivered \subseteq c.delivered \cup Records(c)
Moves(c, d) == Kept(c, d) /\ d.status = c.status /\ (Grown(c, d) \/ ~Attached(d))

\* How a handler ends: with deliveries, or stopped because it is drained.
Drains(c, d) ==
    /\ Attached(c) /\ c.status = "closed" /\ Records(c) = {}
    /\ Kept(c, d) /\ d.status = "stopped" /\ ~Attached(d)
Settles(c, d) == Moves(c, d) \/ Drains(c, d)

LEMMA MovesTwice ==
    ASSUME NEW c, NEW d, NEW e, Moves(c, d), Moves(d, e)
    PROVE  Moves(c, e)
<1>1. Records(d) = Records(c)
  BY DEF Moves, Kept, Records
<1>2. CASE Attached(e)
  BY <1>1, <1>2 DEF Moves, Kept, Grown, Attached
<1>3. CASE ~Attached(e)
  BY <1>3 DEF Moves, Kept
<1> QED
  BY <1>2, <1>3

LEMMA MovesNothing ==
    ASSUME NEW c
    PROVE  Moves(c, c)
BY DEF Moves, Kept, Grown

-----------------------------------------------------------------------------
(* The batch.                                                              *)

LEMMA CoreSets ==
    ASSUME NEW c, Core(c)
    PROVE  /\ Records(c) \subseteq 1..MaxSequence /\ Pending(c) \subseteq 1..MaxSequence
           /\ c.inFlight \subseteq 1..MaxSequence /\ c.delivered \subseteq 1..MaxSequence
           /\ Batch(c) \subseteq Pending(c)
BY TableType DEF Core, Shape, ConnState, Records, Pending, Batch

\* dispatch_available takes as many records as there is credit, or all.
LEMMA BatchSize ==
    ASSUME NEW c, Core(c), Credit(c)
    PROVE  /\ Cardinality(Batch(c)) \in Nat
           /\ Cardinality(Batch(c)) <= Slots(c)
           /\ Pending(c) \ Batch(c) # {} => Cardinality(Batch(c)) = Slots(c)
<1> DEFINE Below(n) == {q \in Pending(c) : q < n}
<1>1. /\ Pending(c) \subseteq 1..MaxSequence /\ Batch(c) \subseteq Pending(c)
      /\ Batch(c) \subseteq 1..MaxSequence
      /\ IsFiniteSet(Batch(c)) /\ Cardinality(Batch(c)) \in Nat
  BY CoreSets, SequencesAreFinite
<1>2. Slots(c) \in Nat
  <2>1. Cardinality(c.inFlight) \in Nat
    BY CoreSets, SequencesAreFinite
  <2> QED
    BY <2>1, BufferAssumption DEF Slots, Credit
<1>3. \A n \in Pending(c) : IsFiniteSet(Below(n)) /\ Cardinality(Below(n)) \in Nat
  BY <1>1, SequencesAreFinite
<1>4. Cardinality(Batch(c)) <= Slots(c)
  <2>1. CASE Batch(c) = {}
    BY <1>2, <2>1, FS_EmptySet
  <2>2. CASE Batch(c) # {}
    <3>1. PICK m \in Batch(c) : \A b \in Batch(c) : b <= m
      BY <1>1, <2>2, GreatestSequence
    <3>2. Batch(c) \subseteq Below(m) \cup {m}
      BY <1>1, <3>1
    <3>3. Cardinality(Below(m)) < Slots(c) /\ m \notin Below(m) /\ m \in Pending(c)
      BY <1>1 DEF Batch
    <3>4. /\ IsFiniteSet(Below(m) \cup {m})
          /\ Cardinality(Below(m) \cup {m}) = Cardinality(Below(m)) + 1
      BY <1>3, <3>3, FS_AddElement
    <3>5. Cardinality(Batch(c)) <= Cardinality(Below(m) \cup {m})
      BY <3>2, <3>4, FS_Subset
    <3> QED
      BY <1>1, <1>2, <1>3, <3>3, <3>4, <3>5
  <2> QED
    BY <2>1, <2>2
<1>5. ASSUME Pending(c) \ Batch(c) # {} PROVE Cardinality(Batch(c)) >= Slots(c)
  <2>1. Pending(c) \ Batch(c) \subseteq Nat
    BY <1>1
  <2>2. PICK r \in Pending(c) \ Batch(c) : \A q \in Pending(c) \ Batch(c) : r <= q
    BY <1>5, <2>1, LeastNumber
  <2>3. Below(r) \subseteq Batch(c)
    BY <1>1, <2>2
  <2>4. Cardinality(Below(r)) <= Cardinality(Batch(c))
    BY <1>1, <2>3, FS_Subset
  <2>5. ~(Cardinality(Below(r)) < Slots(c))
    BY <2>2 DEF Batch
  <2> QED
    BY <1>1, <1>2, <1>3, <2>2, <2>4, <2>5
<1> QED
  BY <1>1, <1>2, <1>4, <1>5

-----------------------------------------------------------------------------
(* The private functions.                                                  *)

LEMMA DetachFlow ==
    ASSUME NEW c, Core(c), Credit(c)
    PROVE  /\ Flowing(BeginDetachedEpisode(c)) /\ Announced(BeginDetachedEpisode(c))
           /\ Drained(BeginDetachedEpisode(c)) /\ Moves(c, BeginDetachedEpisode(c))
<1> DEFINE d == BeginDetachedEpisode(c)
<1>1. Core(d) /\ ~Attached(d)
  BY DetachCore DEF Core
<1>2. /\ Kept(c, d) /\ d.status = c.status /\ d.inFlight = {} /\ d.delivered = {}
      /\ ~d.told /\ ~d.closureNotified /\ Records(d) = Records(c)
  BY DEF Core, Shape, ConnState, BeginDetachedEpisode, Kept, Records
<1>3. Credit(d)
  <2>1. Cardinality({}) = 0
    BY FS_EmptySet
  <2> QED
    BY <1>2, <2>1, BufferAssumption DEF Credit, Kept
<1> QED
  BY <1>1, <1>2, <1>3 DEF Flowing, Full, Announced, Drained, Moves

LEMMA StopFlow ==
    ASSUME NEW c, Core(c), Credit(c)
    PROVE  /\ Settled(Stop(c)) /\ ~Attached(Stop(c))
           /\ Kept(c, Stop(c)) /\ Stop(c).status = "stopped"
<1> DEFINE e == BeginDetachedEpisode(c)
           d == Stop(c)
<1>1. Core(e) /\ Credit(e) /\ ~Attached(e) /\ Kept(c, e)
  BY DetachFlow, DetachCore DEF Flowing, Core, Moves
<1>2. Core(d) /\ ~Attached(d) /\ d.status = "stopped"
  BY StopCore
<1>3. /\ Kept(e, d) /\ d.inFlight = e.inFlight /\ d.delivered = e.delivered
      /\ d.told = e.told /\ d.closureNotified = e.closureNotified /\ Records(d) = Records(e)
  BY <1>1 DEF Core, Shape, ConnState, Stop, Kept, Records
<1> HIDE DEF d, e
<1>4. Credit(d) /\ Kept(c, d)
  BY <1>1, <1>3 DEF Credit, Kept
<1> QED
  BY <1>2, <1>4 DEF d, Settled, Flowing, Full, Announced, Drained

LEMMA DispatchFlow ==
    ASSUME NEW c, Core(c), Credit(c), NEW d \in DispatchAvailable(c)
    PROVE  Flowing(d) /\ Moves(c, d)
<1> DEFINE B == Batch(c)
           e == [c EXCEPT !.inFlight = @ \cup B, !.delivered = @ \cup B]
<1>0. Core(d)
  BY DispatchCore
<1>1. CASE d = BeginDetachedEpisode(c)
  BY <1>1, DetachFlow
<1>2. CASE d = c /\ (~Attached(c) \/ B = {})
  <2>1. ASSUME Attached(c), Pending(c) # {} PROVE Cardinality(c.inFlight) = MaxInFlight
    <3>1. Slots(c) = 0
      BY <1>2, <2>1, BatchSize, FS_EmptySet
    <3>2. Cardinality(c.inFlight) \in Nat
      BY CoreSets, SequencesAreFinite
    <3> QED
      BY <3>1, <3>2, BufferAssumption DEF Slots
  <2> QED
    BY <1>2, <2>1, MovesNothing DEF Flowing, Full
<1>3. CASE Attached(c) /\ d = e
  <2>1. /\ B \subseteq Pending(c) /\ B \subseteq 1..MaxSequence /\ Pending(c) \subseteq Records(c)
        /\ c.inFlight \subseteq 1..MaxSequence
    BY CoreSets DEF Pending
  <2>2. /\ Kept(c, d) /\ d.status = c.status /\ d.consumer = c.consumer
        /\ d.watcher = c.watcher /\ d.told = c.told
        /\ d.inFlight = c.inFlight \cup B /\ d.delivered = c.delivered \cup B
        /\ Records(d) = Records(c)
    BY <1>3 DEF Core, Shape, ConnState, Kept, Records
  <2>3. Attached(d) /\ Moves(c, d)
    BY <1>3, <2>1, <2>2 DEF Attached, Moves, Grown
  <2>4. d.inFlight = {s \in d.delivered : s > d.acked}
    <3>1. \A s \in B : s > c.acked
      BY <2>1 DEF Credit
    <3> QED
      BY <2>2, <3>1 DEF Credit, Kept
  <2>5. /\ Cardinality(d.inFlight) = Cardinality(c.inFlight) + Cardinality(B)
        /\ Cardinality(c.inFlight) \in Nat
    <3>1. c.inFlight \cap B = {}
      BY <2>1 DEF Pending
    <3>2. IsFiniteSet(c.inFlight) /\ IsFiniteSet(B) /\ Cardinality(c.inFlight) \in Nat
      BY <2>1, SequencesAreFinite
    <3>3. Cardinality(c.inFlight \cup B) = Cardinality(c.inFlight) + Cardinality(B)
                                            - Cardinality(c.inFlight \cap B)
      BY <3>2, FS_Union
    <3>4. Cardinality(B) \in Nat
      BY BatchSize
    <3>5. Cardinality(c.inFlight \cap B) = 0
      BY <3>1, FS_EmptySet
    <3>6. Cardinality(d.inFlight) = Cardinality(c.inFlight \cup B)
      BY <2>2
    <3> HIDE DEF B
    <3> QED
      BY <3>2, <3>3, <3>4, <3>5, <3>6
  <2>6. Credit(d)
    <3>1. Cardinality(B) \in Nat /\ Cardinality(B) <= MaxInFlight - Cardinality(c.inFlight)
      BY BatchSize DEF Slots
    <3> QED
      BY <2>2, <2>3, <2>4, <2>5, <3>1, BufferAssumption DEF Credit, Kept
  <2>7. Full(d)
    <3>1. SUFFICES ASSUME Pending(d) # {} PROVE Cardinality(d.inFlight) = MaxInFlight
      BY DEF Full
    <3>2. Pending(d) = Pending(c) \ B
      BY <2>2 DEF Pending
    <3>3. Cardinality(B) = MaxInFlight - Cardinality(c.inFlight)
      BY <3>1, <3>2, BatchSize DEF Slots
    <3> QED
      BY <2>5, <3>3, BufferAssumption
  <2> QED
    BY <1>0, <2>3, <2>6, <2>7 DEF Flowing
<1> QED
  BY <1>1, <1>2, <1>3 DEF DispatchAvailable, Deliver

LEMMA NotifyClosedFlow ==
    ASSUME NEW c, Flowing(c), NEW d \in MaybeNotifyClosed(c)
    PROVE  Flowing(d) /\ Announced(d) /\ Moves(c, d)
<1>1. CASE d = c /\ ~(c.status = "closed" /\ Attached(c) /\ ~c.closureNotified /\ Pending(c) = {})
  BY <1>1, MovesNothing DEF Announced
<1>2. CASE d = BeginDetachedEpisode(c)
  BY <1>2, DetachFlow DEF Flowing
<1>3. CASE Attached(c) /\ d = [c EXCEPT !.closureNotified = TRUE]
  <2>1. Core(d)
    BY NotifyClosedCore DEF Flowing
  <2>2. /\ Kept(c, d) /\ Grown(c, d) /\ d.status = c.status /\ d.closureNotified
        /\ d.inFlight = c.inFlight /\ d.delivered = c.delivered /\ d.consumer = c.consumer
        /\ d.told = c.told /\ Records(d) = Records(c) /\ Pending(d) = Pending(c)
    BY <1>3 DEF Flowing, Core, Shape, ConnState, Kept, Grown, Records, Pending
  <2> QED
    BY <1>3, <2>1, <2>2 DEF Flowing, Credit, Full, Announced, Moves, Kept, Attached
<1> QED
  BY <1>1, <1>2, <1>3 DEF MaybeNotifyClosed, Deliver

LEMMA StopIfDrainedFlow ==
    ASSUME NEW b, NEW c, Flowing(c), Announced(c), Moves(b, c)
    PROVE  Settled(StopIfDrained(c)) /\ Settles(b, StopIfDrained(c))
<1>1. CASE c.status = "closed" /\ Attached(c) /\ Records(c) = {}
  <2>1. StopIfDrained(c) = Stop(c)
    BY <1>1 DEF StopIfDrained
  <2>2. Settled(Stop(c)) /\ ~Attached(Stop(c)) /\ Kept(c, Stop(c)) /\ Stop(c).status = "stopped"
    BY StopFlow DEF Flowing
  <2>3. Attached(b) /\ b.status = "closed" /\ Records(b) = {} /\ Kept(b, c)
    BY <1>1 DEF Moves, Kept, Grown, Attached, Records
  <2> QED
    BY <2>1, <2>2, <2>3 DEF Settles, Drains, Kept
<1>2. CASE ~(c.status = "closed" /\ Attached(c) /\ Records(c) = {})
  <2>1. StopIfDrained(c) = c
    BY <1>2 DEF StopIfDrained
  <2> QED
    BY <1>2, <2>1 DEF Settled, Drained, Settles
<1> QED
  BY <1>1, <1>2

LEMMA DispatchAndSettleFlow ==
    ASSUME NEW c, Core(c), Credit(c), NEW d \in DispatchAndSettle(c)
    PROVE  Settled(d) /\ Settles(c, d)
<1>0. PICK e \in DispatchAvailable(c) :
        \E f \in MaybeNotifyClosed(e) : d = StopIfDrained(f)
  BY DEF DispatchAndSettle
<1>1. PICK f \in MaybeNotifyClosed(e) : d = StopIfDrained(f)
  BY <1>0
<1>2. Flowing(e) /\ Moves(c, e)
  BY DispatchFlow
<1>3. Flowing(f) /\ Announced(f) /\ Moves(e, f)
  BY <1>2, NotifyClosedFlow
<1>4. Moves(c, f)
  BY <1>2, <1>3, MovesTwice
<1> QED
  BY <1>1, <1>3, <1>4, StopIfDrainedFlow

\* transition_closed puts an open connection here before it notifies.
Closed(c) == [c EXCEPT !.status = "closed"]

LEMMA ClosingFlow ==
    ASSUME NEW c, Settled(c), c.status = "open",
           NEW d, d \in UpstreamClosed(c) \/ d \in SendFailed(c)
    PROVE  Settled(d) /\ Settles(Closed(c), d)
<1> DEFINE b == Closed(c)
<1>1. Flowing(b)
  <2>1. /\ b.status = "closed" /\ b.inFlight = c.inFlight /\ b.delivered = c.delivered
        /\ b.consumer = c.consumer /\ b.told = c.told /\ b.acked = c.acked
        /\ b.closureNotified = c.closureNotified /\ Records(b) = Records(c)
        /\ Pending(b) = Pending(c) /\ b \in ConnState /\ b.next = c.next
        /\ b.dropped = c.dropped /\ b.checkpointSeq = c.checkpointSeq
        /\ b.checkpoint = c.checkpoint /\ b.overflowPending = c.overflowPending
    BY DEF Settled, Flowing, Core, Shape, ConnState, Statuses, Records, Pending, Closed
  <2>2. ~(Attached(c) /\ c.closureNotified)
    BY DEF Settled, Flowing, Core, LastIsClosure
  <2> HIDE DEF b
  <2>3. Shape(b) /\ NoLoss(b) /\ Checkpointed(b)
    BY <2>1 DEF Settled, Flowing, Core, Shape, NoLoss, Checkpointed, Attached
  <2>4. InOrder(b) /\ Told(b) /\ LastIsClosure(b)
    BY <2>1, <2>2 DEF Settled, Flowing, Core, InOrder, Told, LastIsClosure, Attached
  <2>5. Credit(b) /\ Full(b)
    BY <2>1 DEF Settled, Flowing, Credit, Full, Attached
  <2> QED
    BY <2>3, <2>4, <2>5 DEF Flowing, Core
<1> HIDE DEF b
<1>2. \A e \in TransitionClosed(c) : Flowing(e) /\ Announced(e) /\ Moves(b, e)
  <2>1. TransitionClosed(c) = MaybeNotifyClosed(b)
    BY DEF TransitionClosed, Closed, b
  <2> QED
    BY <1>1, <2>1, NotifyClosedFlow
<1>3. CASE d \in UpstreamClosed(c)
  <2>1. PICK e \in TransitionClosed(c) : d = StopIfDrained(e)
    BY <1>3 DEF UpstreamClosed
  <2> QED
    BY <1>2, <2>1, StopIfDrainedFlow DEF b
<1>4. CASE d \in SendFailed(c)
  <2>0. PICK e \in TransitionClosed(c) :
          \E f \in MaybeNotifyClosed(e) : d = StopIfDrained(f)
    BY <1>4 DEF SendFailed
  <2>1. PICK f \in MaybeNotifyClosed(e) : d = StopIfDrained(f)
    BY <2>0
  <2>2. Flowing(f) /\ Announced(f) /\ Moves(e, f)
    BY <1>2, NotifyClosedFlow
  <2>3. Moves(b, f)
    BY <1>2, <2>2, MovesTwice
  <2> QED
    BY <2>1, <2>2, <2>3, StopIfDrainedFlow DEF b
<1> QED
  BY <1>3, <1>4

\* What acknowledge_through/2 leaves before it dispatches again.
LEMMA AcknowledgedFlow ==
    ASSUME NEW c, Shape(c), Credit(c), NEW sequence \in c.inFlight
    PROVE  /\ Credit(Acknowledged(c, sequence))
           /\ Records(Acknowledged(c, sequence)) = {m \in Records(c) : m > sequence}
           /\ Acknowledged(c, sequence).acked = sequence
<1> DEFINE d == Acknowledged(c, sequence)
           kept == From(c.table, sequence + 1)
<1>1. c.table \in Tables /\ kept \in SUBSET DOMAIN c.table
  BY DEF Shape, ConnState, From
<1>2. DOMAIN DeleteThrough(c.table, sequence) = kept
  BY <1>1, KeepType DEF DeleteThrough
<1>3. /\ d.table = DeleteThrough(c.table, sequence) /\ d.acked = sequence
      /\ d.inFlight = {s \in c.inFlight : s > sequence}
      /\ d.delivered = c.delivered /\ d.told = c.told /\ d.consumer = c.consumer
      /\ d.closureNotified = c.closureNotified
  BY DEF Shape, ConnState, Acknowledged
<1>4. /\ sequence \in 1..MaxSequence /\ sequence > c.acked /\ c.acked \in Nat
      /\ c.delivered \subseteq 1..MaxSequence /\ c.inFlight \subseteq 1..MaxSequence
      /\ Records(c) \subseteq 1..MaxSequence
  BY TableType DEF Shape, ConnState, Credit, Records
<1>5. Records(d) = {m \in Records(c) : m > sequence}
  <2>1. Records(d) = {m \in Records(c) : m >= sequence + 1}
    BY <1>2, <1>3 DEF Records, From
  <2>2. \A m \in Records(c) : m >= sequence + 1 <=> m > sequence
    BY <1>4
  <2> QED
    BY <2>1, <2>2
<1>6. d.inFlight = {s \in d.delivered : s > d.acked}
  BY <1>3, <1>4 DEF Credit
<1>7. Cardinality(d.inFlight) <= MaxInFlight
  <2>1. IsFiniteSet(c.inFlight) /\ Cardinality(c.inFlight) \in Nat
    BY <1>4, SequencesAreFinite
  <2>2. d.inFlight \subseteq c.inFlight
    BY <1>3
  <2>3. Cardinality(d.inFlight) <= Cardinality(c.inFlight) /\ Cardinality(d.inFlight) \in Nat
    BY <2>1, <2>2, FS_Subset, FS_CardinalityType
  <2> QED
    BY <2>1, <2>3, BufferAssumption DEF Credit
<1> HIDE DEF d
<1>8. Credit(d)
  BY <1>3, <1>5, <1>6, <1>7 DEF Credit, Attached
<1> QED
  BY <1>3, <1>5, <1>8 DEF d

\* push/2: what it keeps is the newest end of what there was with the record
\* that came, or all of it but that record.
LEMMA PushFlow ==
    ASSUME NEW c, Core(c), Credit(c), c.next <= MaxSequence,
           NEW size \in PayloadSizes, NEW d \in Push(c, size)
    PROVE  /\ Credit(d) /\ d.next = c.next + 1 /\ d.acked = c.acked
           /\ d.consumer = c.consumer /\ d.watcher = c.watcher /\ d.told = c.told
           /\ d.delivered = c.delivered /\ d.status = c.status
           /\ \/ Records(d) = Records(c)
              \/ /\ c.next \in Records(d) /\ Records(d) \subseteq Records(c) \cup {c.next}
                 /\ \A m \in (Records(c) \cup {c.next}) \ Records(d), k \in Records(d) : m < k
           /\ d.dropped > 0 <=> c.dropped > 0 \/ Records(d) # Records(c) \cup {c.next}
           /\ d.dropped > c.dropped <=> Records(d) # Records(c) \cup {c.next}
<1>1. /\ c.next \in 1..MaxSequence /\ c.dropped \in Nat /\ c.acked \in Nat
      /\ c.acked < c.next /\ Records(c) \subseteq 1..(c.next - 1) /\ c.next \notin Records(c)
  BY BoundAssumption DEF Core, Shape, ConnState
<1>2. /\ d.next = c.next + 1 /\ d.acked = c.acked
      /\ d.consumer = c.consumer /\ d.watcher = c.watcher /\ d.told = c.told
      /\ d.delivered = c.delivered /\ d.status = c.status /\ d.inFlight = c.inFlight
      /\ d.closureNotified = c.closureNotified
  <2>1. CASE size > MaxBytes
    BY <2>1 DEF Core, Shape, ConnState, Push
  <2>2. CASE ~(size > MaxBytes)
    <3>1. PICK table, dropped :
            d = [c EXCEPT !.next = @ + 1, !.table = table, !.dropped = dropped]
      BY <2>2 DEF Push, Store
    <3> QED
      BY <3>1 DEF Core, Shape, ConnState
  <2> QED
    BY <2>1, <2>2
<1>3. ASSUME Records(d) \subseteq Records(c) \cup {c.next} PROVE Credit(d)
  BY <1>1, <1>2, <1>3 DEF Credit, Attached
<1>4. CASE size > MaxBytes
  <2>1. Records(d) = Records(c) /\ d.dropped = c.dropped + 1
    BY <1>4 DEF Core, Shape, ConnState, Push, Records
  <2>2. Records(d) # Records(c) \cup {c.next}
    BY <1>1, <2>1
  <2> QED
    BY <1>1, <1>2, <1>3, <2>1, <2>2
<1>5. CASE ~(size > MaxBytes)
  <2> DEFINE t == Inserted(c, size)
             all == Records(c) \cup {c.next}
  <2>1. t \in Tables /\ DOMAIN t = all
    BY <1>1, InsertedType DEF Core
  <2>2. PICK n \in FirstRetained(t, c.next) :
          d = [c EXCEPT !.next = @ + 1, !.table = Keep(t, From(t, n)),
                        !.dropped = @ + Cardinality(DOMAIN t \ From(t, n))]
    BY <1>5 DEF Push, Store
  <2> DEFINE lost == all \ From(t, n)
  <2>3. /\ From(t, n) = {s \in all : s >= n}
        /\ DOMAIN Keep(t, From(t, n)) = From(t, n)
    BY <2>1, KeepType DEF From
  <2>4. Records(d) = From(t, n) /\ d.dropped = c.dropped + Cardinality(lost)
    BY <2>1, <2>2, <2>3 DEF Core, Shape, ConnState, Records
  <2>5. n \in 1..c.next
    <3>1. SUFFICES ASSUME n = c.next + 1 PROVE FALSE
      BY <1>1 DEF FirstRetained
    <3>2. ~Bounded(t, From(t, c.next))
      BY <1>1, <3>1 DEF FirstRetained
    <3>3. From(t, c.next) = {c.next}
      BY <1>1, <2>1 DEF From
    <3>4. t[c.next] = size /\ size \in Nat
      BY BufferAssumption DEF Inserted
    <3>5. SumFunctionOnSet(t, {c.next}) = size
      BY <3>4, SumOfOne
    <3>6. Cardinality({c.next}) = 1
      BY FS_Singleton
    <3>7. Bounded(t, {c.next})
      BY <1>5, <3>4, <3>5, <3>6, BufferAssumption DEF Bounded
    <3> QED
      BY <3>2, <3>3, <3>7
  <2>6. Cardinality(lost) \in Nat /\ (Cardinality(lost) = 0 <=> lost = {})
    <3>1. lost \subseteq 1..MaxSequence
      BY <2>1, TableType
    <3>2. IsFiniteSet(lost) /\ Cardinality(lost) \in Nat
      BY <3>1, SequencesAreFinite
    <3> QED
      BY <3>2, FS_EmptySet
  <2>7. Records(d) # all <=> lost # {}
    BY <2>3, <2>4
  <2>8. /\ c.next \in Records(d) /\ Records(d) \subseteq all
        /\ \A m \in all \ Records(d), k \in Records(d) : m < k
    BY <1>1, <2>3, <2>4, <2>5
  <2> HIDE DEF lost
  <2> QED
    BY <1>1, <1>2, <1>3, <2>4, <2>6, <2>7, <2>8
<1> QED
  BY <1>4, <1>5

\* The notification that follows a push which dropped something.
LEMMA NotifyOverflowFlow ==
    ASSUME NEW b, Core(b), NEW c, Credit(c), Shape(c), NoLoss(c), Checkpointed(c),
           c.consumer = b.consumer, c.told = b.told, c.overflowPending = b.overflowPending,
           b.dropped \in Nat, c.dropped \in Nat,
           NEW d \in NotifyOverflow(c, c.dropped - b.dropped), Core(d)
    PROVE  /\ Credit(d) /\ Kept(c, d) /\ d.status = c.status
           /\ \/ ~Attached(d)
              \/ /\ d.consumer = c.consumer /\ d.watcher = c.watcher
                 /\ d.delivered = c.delivered
                 /\ d.told = (c.told \/ c.dropped > b.dropped)
<1>1. CASE d = c /\ ~(c.dropped - b.dropped > 0 /\ ~c.overflowPending /\ Attached(c))
  <2>1. Attached(c) /\ c.overflowPending => c.told
    BY DEF Core, Told, Attached
  <2>2. c.told \in BOOLEAN
    BY DEF Shape, ConnState
  <2> QED
    BY <1>1, <2>1, <2>2 DEF Kept
<1>2. CASE d = BeginDetachedEpisode(c)
  <2>1. ~Attached(d) /\ Kept(c, d) /\ d.status = c.status /\ d.inFlight = {}
        /\ d.delivered = {} /\ ~d.told /\ ~d.closureNotified /\ Records(d) = Records(c)
    BY <1>2 DEF Shape, ConnState, BeginDetachedEpisode, Attached, Kept, Records
  <2>2. Cardinality({}) = 0
    BY FS_EmptySet
  <2> QED
    BY <2>1, <2>2, BufferAssumption DEF Credit, Kept
<1>3. CASE /\ d = [c EXCEPT !.overflowPending = TRUE, !.told = TRUE]
           /\ c.dropped - b.dropped > 0 /\ Attached(c)
  <2>1. /\ Kept(c, d) /\ d.status = c.status /\ d.consumer = c.consumer
        /\ d.watcher = c.watcher /\ d.delivered = c.delivered /\ d.told
        /\ d.inFlight = c.inFlight /\ Records(d) = Records(c)
    BY <1>3 DEF Shape, ConnState, Kept, Records
  <2>2. c.dropped > b.dropped
    BY <1>3
  <2> QED
    BY <1>3, <2>1, <2>2 DEF Credit, Kept, Attached
<1> QED
  BY <1>1, <1>2, <1>3 DEF NotifyOverflow, Deliver

-----------------------------------------------------------------------------
(* The steps, with the step of the feed each of them is.                   *)

FeedStep == [Feed!Next]_(Feed!vars)

LEMMA FeedCardinality ==
    ASSUME NEW S
    PROVE  Feed!Cardinality(S) = Cardinality(S)
BY DEF Feed!Cardinality, Cardinality

LEMMA RecordsOfNext == Records(conn)' = Records(conn')
BY DEF Records

\* A handler that ends by delivering carries the feed on: from what it holds
\* when it starts to deliver (c) the reader is kept, lost or drained.
LEMMA CarriesOf ==
    ASSUME NEW c, Settles(c, conn'), Settled(conn')
    PROVE  Feed!Carries(c.status, c.consumer, c.delivered, c.told)
<1>1. /\ conn'.told \in BOOLEAN /\ conn'.closureNotified \in BOOLEAN
      /\ (~Attached(conn') => conn'.delivered = {})
  BY DEF Settled, Flowing, Core, Shape, ConnState
<1>2. CASE Moves(c, conn') /\ Attached(conn')
  <2>1. /\ conn'.status = c.status /\ Grown(c, conn') /\ Records(conn') = Records(c)
        /\ c.consumer # NoConsumer /\ conn'.consumer # NoConsumer
    BY <1>2 DEF Moves, Kept, Grown, Attached, Records
  <2>2. /\ c.delivered \subseteq conn'.delivered
        /\ conn'.delivered \subseteq c.delivered \cup Records(conn')
        /\ conn'.consumer = c.consumer /\ conn'.told = c.told
    BY <2>1 DEF Grown
  <2>3. /\ conn'.inFlight = Feed!Outstanding(conn'.delivered, conn'.acked)
        /\ Pending(conn') = Records(conn') \ conn'.delivered
    BY DEF Settled, Flowing, Credit, Pending, Feed!Outstanding
  <2>4. /\ Cardinality(conn'.inFlight) <= MaxInFlight
        /\ Records(conn') \subseteq conn'.delivered
              \/ Cardinality(conn'.inFlight) = MaxInFlight
    BY <1>2, <2>3 DEF Settled, Flowing, Credit, Full
  <2>5. Feed!Before(conn'.delivered \ c.delivered, Records(conn') \ conn'.delivered)
    BY <1>2, <2>3 DEF Settled, Flowing, Core, InOrder, Feed!Before
  <2>6. conn'.closureNotified
          <=> c.status = "closed" /\ Records(conn') \subseteq conn'.delivered
    BY <1>2, <2>1, <2>3 DEF Settled, Flowing, Core, LastIsClosure, Announced
  <2>7. ~(c.status = "closed" /\ Records(conn') = {})
    BY <1>2, <2>1 DEF Settled, Drained
  <2>8. conn'.closureNotified = (c.status = "closed" /\ Records(conn') \subseteq conn'.delivered)
    BY <1>1, <2>6
  <2>9. Feed!Keeps(c.status, c.consumer, c.delivered, c.told)
    BY <2>1, <2>2, <2>3, <2>4, <2>5, <2>7, <2>8, RecordsOfNext, FeedCardinality DEF Feed!Keeps
  <2> QED
    BY <2>9 DEF Feed!Carries
<1>3. CASE Moves(c, conn') /\ ~Attached(conn')
  <2>1. Feed!NoOneReads
    BY <1>1, <1>3 DEF Settled, Flowing, Credit, Attached, Feed!NoOneReads
  <2>2. Feed!Loses(c.status)
    BY <1>3, <2>1 DEF Moves, Feed!Loses
  <2> QED
    BY <2>2 DEF Feed!Carries
<1>4. CASE Drains(c, conn')
  <2>1. Feed!NoOneReads
    BY <1>1, <1>4 DEF Drains, Settled, Flowing, Credit, Attached, Feed!NoOneReads
  <2>2. Records(conn') = {}
    BY <1>4 DEF Drains, Kept, Records
  <2>3. Feed!Drains(c.status, c.consumer)
    BY <1>4, <2>1, <2>2, RecordsOfNext DEF Drains, Attached, Feed!Drains
  <2> QED
    BY <2>3 DEF Feed!Carries
<1> QED
  BY <1>2, <1>3, <1>4 DEF Settles

\* A consumer that stays keeps its watcher.
LEMMA WatchedKept ==
    ASSUME Watched, NEW c, Settles(c, conn'), c.consumer = conn.consumer,
           c.watcher = conn.watcher, watchers' = watchers, signals' = signals
    PROVE  Watched'
<1>1. SUFFICES ASSUME Attached(conn') PROVE Watched'
  BY DEF Watched, Attached
<1>2. conn'.consumer = conn.consumer /\ conn'.watcher = conn.watcher
  BY <1>1 DEF Settles, Moves, Drains, Grown
<1> QED
  BY <1>1, <1>2 DEF Watched, Attached, Matches


Preserved == Settled(conn') /\ Watched' /\ FeedStep

\* Nothing the feed shows has changed.
LEMMA SilentStep ==
    ASSUME FlowInv, Core(conn'), Kept(conn, conn'), Grown(conn, conn'),
           conn'.status = conn.status, conn'.inFlight = conn.inFlight,
           conn'.delivered = conn.delivered,
           conn'.closureNotified = conn.closureNotified,
           Watched'
    PROVE  Preserved
<1>1. /\ conn'.next = conn.next /\ conn'.acked = conn.acked /\ conn'.dropped = conn.dropped
      /\ Records(conn') = Records(conn) /\ conn'.consumer = conn.consumer
      /\ conn'.told = conn.told
  BY DEF Kept, Grown, Records
<1>2. Settled(conn')
  BY <1>1 DEF FlowInv, Settled, Flowing, Credit, Full, Announced, Drained, Pending, Attached
<1>3. FeedStep
  BY <1>1 DEF FeedStep, Feed!vars, Records
<1> QED
  BY <1>2, <1>3 DEF Preserved

LEMMA UnchangedStep ==
    ASSUME FlowInv, conn' = conn, Watched'
    PROVE  Preserved
<1>1. Core(conn') /\ Kept(conn, conn') /\ Grown(conn, conn')
  BY DEF FlowInv, Settled, Flowing, Kept, Grown
<1> QED
  BY <1>1, SilentStep

LEMMA StopFeed ==
    ASSUME FlowInv, conn.status # "stopped", conn' = Stop(conn)
    PROVE  Preserved
<1>1. /\ Settled(conn') /\ ~Attached(conn') /\ Kept(conn, conn') /\ conn'.status = "stopped"
  BY StopFlow DEF FlowInv, Settled, Flowing
<1>2. /\ conn'.told = FALSE /\ conn'.closureNotified = FALSE /\ conn'.delivered = {}
      /\ conn'.consumer = NoConsumer /\ Records(conn') = Records(conn)
  BY <1>1 DEF Settled, Flowing, Core, Shape, ConnState, Credit, Attached, Kept, Records
<1>3. Feed!End
  BY <1>1, <1>2, RecordsOfNext DEF Kept, Feed!End, Feed!NoOneReads
<1> QED
  BY <1>1, <1>3 DEF Preserved, Watched, Attached, FeedStep, Feed!Next

LEMMA DetachFeed ==
    ASSUME FlowInv, conn' = BeginDetachedEpisode(conn)
    PROVE  Preserved
<1>1. /\ Settled(conn') /\ ~Attached(conn')
      /\ Kept(conn, conn') /\ conn'.status = conn.status
  <2>1. Core(conn) /\ Credit(conn)
    BY DEF FlowInv, Settled, Flowing
  <2>2. ~Attached(conn')
    BY <2>1, DetachCore DEF Core
  <2> QED
    BY <2>1, <2>2, DetachFlow DEF Settled, Moves
<1>2. /\ conn'.told = FALSE /\ conn'.closureNotified = FALSE /\ conn'.delivered = {}
      /\ conn'.consumer = NoConsumer /\ Records(conn') = Records(conn)
  BY <1>1 DEF Settled, Flowing, Core, Shape, ConnState, Credit, Attached, Kept, Records
<1>3. CASE Attached(conn)
  <2>1. Feed!Leave
    BY <1>1, <1>2, <1>3, RecordsOfNext
       DEF Attached, Kept, Feed!Leave, Feed!Loses, Feed!NoOneReads
  <2> QED
    BY <1>1, <2>1 DEF Preserved, Watched, Attached, FeedStep, Feed!Next
<1>4. CASE ~Attached(conn)
  <2>1. /\ conn.told = FALSE /\ conn.closureNotified = FALSE /\ conn.delivered = {}
        /\ conn.consumer = NoConsumer
    BY <1>4 DEF FlowInv, Settled, Flowing, Core, Shape, ConnState, Credit, Attached
  <2>2. FeedStep
    BY <1>1, <1>2, <2>1, RecordsOfNext DEF FeedStep, Feed!vars, Kept
  <2> QED
    BY <1>1, <2>2 DEF Preserved, Watched, Attached
<1> QED
  BY <1>3, <1>4

LEMMA CloseFeed ==
    ASSUME FlowInv, conn.status = "open",
           conn' \in UpstreamClosed(conn) \/ conn' \in SendFailed(conn),
           watchers' = watchers, signals' = signals
    PROVE  Preserved
<1> DEFINE b == Closed(conn)
<1>1. Settled(conn') /\ Settles(b, conn')
  BY ClosingFlow DEF FlowInv
<1>2. /\ b.status = "closed" /\ b.consumer = conn.consumer /\ b.watcher = conn.watcher
      /\ b.delivered = conn.delivered /\ b.told = conn.told /\ b.next = conn.next
      /\ b.acked = conn.acked /\ b.dropped = conn.dropped /\ b.table = conn.table
  BY DEF FlowInv, Settled, Flowing, Core, Shape, ConnState, Closed
<1> HIDE DEF b
<1>3. Feed!Carries(b.status, b.consumer, b.delivered, b.told)
  BY <1>1, CarriesOf
<1>4. Kept(conn, conn') /\ Records(conn') = Records(conn)
  BY <1>1, <1>2 DEF Settles, Moves, Drains, Kept, Records
<1>5. Feed!Close
  BY <1>2, <1>3, <1>4, RecordsOfNext DEF Kept, Feed!Close
<1>6. Watched'
  BY <1>1, <1>2, WatchedKept DEF FlowInv
<1> QED
  BY <1>1, <1>5, <1>6 DEF Preserved, FeedStep, Feed!Next

LEMMA AttachFeed ==
    ASSUME FlowInv, IInv', NEW x \in Consumers, Attach(x)
    PROVE  Preserved
<1> DEFINE id == conn.attachments + 1
           attached == [conn EXCEPT !.consumer = x, !.watcher = id,
                                    !.attachments = id, !.inFlight = {},
                                    !.overflowPending = FALSE,
                                    !.closureNotified = FALSE,
                                    !.told = conn.dropped > 0]
<1>1. /\ conn.delivered = {} /\ conn \in ConnState /\ Core(conn) /\ Credit(conn)
      /\ conn.consumer = NoConsumer /\ conn.status \in {"open", "closed"}
  BY DEF Attach, Idle, FlowInv, Settled, Flowing, Core, Shape, Attached
<1>2. /\ attached.table = conn.table /\ attached.next = conn.next
      /\ attached.inFlight = {} /\ attached.delivered = {}
      /\ attached.acked = conn.acked /\ attached.dropped = conn.dropped
      /\ ~attached.closureNotified /\ attached.told = (conn.dropped > 0)
      /\ attached.consumer = x /\ attached.watcher = id /\ attached.status = conn.status
  BY <1>1 DEF ConnState
<1>3. Core(attached)
  BY AttachedCore DEF FlowInv, Attach
<1>4. conn' \in DispatchAndSettle(attached) /\ signals' = signals
      /\ watchers' = watchers \cup {[id |-> id, consumer |-> x]}
  BY DEF Attach
<1> HIDE DEF attached, id
<1>5. Credit(attached)
  <2>1. Attached(attached) /\ Cardinality({}) = 0
    BY <1>2, ConsumerAssumption, FS_EmptySet DEF Attached
  <2> QED
    BY <1>1, <1>2, <2>1, BufferAssumption DEF Credit, Records
<1>6. Settled(conn') /\ Settles(attached, conn')
  BY <1>3, <1>4, <1>5, DispatchAndSettleFlow
<1>7. Feed!Carries(conn.status, x, {}, conn.dropped > 0)
  BY <1>2, <1>6, CarriesOf
<1>8. Kept(conn, conn') /\ Records(conn') = Records(conn)
  BY <1>2, <1>6 DEF Settles, Moves, Drains, Kept, Records
<1>9. Feed!Attach(x)
  BY <1>1, <1>7, <1>8, RecordsOfNext DEF Kept, Feed!Attach
<1>10. Watched'
  <2>1. Attached(conn') => conn'.consumer = x /\ conn'.watcher = id
    BY <1>2, <1>6 DEF Settles, Moves, Drains, Grown
  <2> QED
    BY <1>4, <2>1 DEF Watched, Attached
<1> QED
  BY <1>6, <1>9, <1>10 DEF Preserved, FeedStep, Feed!Next

LEMMA AckFeed ==
    ASSUME FlowInv, NEW x \in Consumers, NEW n \in 1..MaxSequence,
           Ack(x, n) \/ AckWithCheckpoint(x, n)
    PROVE  Preserved
<1>1. /\ n \in conn.inFlight /\ n > conn.acked /\ conn.consumer = x /\ IInv
      /\ conn.status \in {"open", "closed"} /\ Credit(conn) /\ Core(conn)
      /\ watchers' = watchers /\ signals' = signals
  BY DEF Ack, AckWithCheckpoint, NewAck, Idle, FlowInv, Settled, Flowing
<1>2. PICK c : /\ Shape(c) /\ Core(Acknowledged(c, n)) /\ Same(conn, c)
               /\ Same(c, Acknowledged(c, n))
               /\ conn' \in DispatchAndSettle(Acknowledged(c, n))
               /\ c.table = conn.table /\ c.next = conn.next /\ c.dropped = conn.dropped
               /\ c.acked = conn.acked /\ c.inFlight = conn.inFlight
               /\ c.delivered = conn.delivered /\ c.consumer = conn.consumer
               /\ c.watcher = conn.watcher /\ c.told = conn.told
               /\ c.closureNotified = conn.closureNotified
  BY <1>1, AckDispatches
<1>3. Credit(c) /\ Records(c) = Records(conn)
  BY <1>1, <1>2 DEF Credit, Records, Attached
<1> DEFINE b == Acknowledged(c, n)
<1>4. Credit(b) /\ Records(b) = {m \in Records(conn) : m > n} /\ b.acked = n
  BY <1>1, <1>2, <1>3, AcknowledgedFlow
<1>5. /\ b.status = conn.status /\ b.next = conn.next /\ b.dropped = conn.dropped
      /\ b.delivered = conn.delivered /\ b.consumer = conn.consumer
      /\ b.watcher = conn.watcher /\ b.told = conn.told
  BY <1>2 DEF Shape, ConnState, Acknowledged, Same
<1> HIDE DEF b
<1>6. Settled(conn') /\ Settles(b, conn')
  BY <1>2, <1>4, DispatchAndSettleFlow DEF b
<1>7. Feed!Carries(conn.status, conn.consumer, conn.delivered, conn.told)
  BY <1>5, <1>6, CarriesOf
<1>8. /\ conn'.next = conn.next /\ conn'.dropped = conn.dropped /\ conn'.acked = n
      /\ Records(conn') = {m \in Records(conn) : m > n}
  BY <1>4, <1>5, <1>6 DEF Settles, Moves, Drains, Kept, Records
<1>9. n \in conn.delivered /\ conn.consumer # NoConsumer
  BY <1>1, ConsumerAssumption DEF Credit
<1>10. Feed!Acknowledge(n)
  BY <1>1, <1>7, <1>8, <1>9, RecordsOfNext DEF Feed!Acknowledge
<1>11. Watched'
  BY <1>1, <1>5, <1>6, WatchedKept DEF FlowInv
<1> QED
  BY <1>6, <1>9, <1>10, <1>11 DEF Preserved, FeedStep, Feed!Next

LEMMA ForwardFeed ==
    ASSUME FlowInv, ApplyForward
    PROVE  Preserved
<1> DEFINE size == Head(chunk.todo).size
<1>1. /\ Core(conn) /\ Credit(conn) /\ conn.status = "open" /\ conn.next <= MaxSequence
      /\ size \in PayloadSizes /\ watchers' = watchers /\ signals' = signals
  <2>1. /\ chunk \in Chunks /\ chunk # NoChunk /\ conn.status = "open" /\ chunk.todo # <<>>
    BY DEF FlowInv, IInv, Messages, ApplyForward, NoChunk
  <2>2. Head(chunk.todo) \in AdapterActions
    BY <2>1 DEF Chunks
  <2> QED
    BY <2>1, <2>2 DEF AdapterActions, ApplyForward, FlowInv, Settled, Flowing
<1>2. PICK c \in Push(conn, size) :
        \E d \in NotifyOverflow(c, c.dropped - conn.dropped) :
           conn' \in DispatchAvailable(d)
  BY DEF ApplyForward
<1>3. PICK d \in NotifyOverflow(c, c.dropped - conn.dropped) :
        conn' \in DispatchAvailable(d)
  BY <1>2
<1> HIDE DEF size
<1> DEFINE all == Records(conn) \cup {conn.next}
           lost == Records(c) # all
<1>4. /\ Credit(c) /\ c.next = conn.next + 1 /\ c.acked = conn.acked
      /\ c.consumer = conn.consumer /\ c.watcher = conn.watcher /\ c.told = conn.told
      /\ c.delivered = conn.delivered /\ c.status = conn.status
      /\ \/ Records(c) = Records(conn)
         \/ /\ conn.next \in Records(c) /\ Records(c) \subseteq all
            /\ \A m \in all \ Records(c), k \in Records(c) : m < k
      /\ c.dropped > 0 <=> conn.dropped > 0 \/ lost
      /\ c.dropped > conn.dropped <=> lost
  BY <1>1, PushFlow
<1>5. /\ Shape(c) /\ NoLoss(c) /\ Checkpointed(c) /\ InOrder(c) /\ LastIsClosure(c)
      /\ c.dropped \in Nat /\ c.dropped >= conn.dropped /\ conn.dropped \in Nat
      /\ c.overflowPending = conn.overflowPending
  BY <1>1, PushCore DEF Core, Shape, ConnState
<1>6. Core(d)
  BY <1>1, <1>4, <1>5, NotifyOverflowCore
<1>7. /\ Credit(d) /\ Kept(c, d) /\ d.status = c.status
      /\ \/ ~Attached(d)
         \/ /\ d.consumer = c.consumer /\ d.watcher = c.watcher
            /\ d.delivered = c.delivered /\ d.told = (c.told \/ c.dropped > conn.dropped)
  BY <1>1, <1>4, <1>5, <1>6, NotifyOverflowFlow
<1>8. Flowing(conn') /\ Moves(d, conn')
  BY <1>3, <1>6, <1>7, DispatchFlow
<1>9. /\ conn'.status = "open" /\ conn'.next = conn.next + 1 /\ conn'.acked = conn.acked
      /\ conn'.dropped = c.dropped /\ Records(conn') = Records(c)
  BY <1>1, <1>4, <1>7, <1>8 DEF Moves, Kept, Records
<1>10. Settled(conn') /\ Settles(d, conn')
  BY <1>8, <1>9 DEF Settled, Announced, Drained, Settles
<1>11. Feed!Carries(conn.status, conn.consumer, conn.delivered, conn.told \/ lost)
  <2>1. CASE Attached(d)
    <3>1. Feed!Carries(d.status, d.consumer, d.delivered, d.told)
      BY <1>10, CarriesOf
    <3>2. d.told = (conn.told \/ lost)
      BY <1>4, <1>7, <2>1
    <3> HIDE DEF lost
    <3> QED
      BY <1>4, <1>7, <2>1, <3>1, <3>2
  <2>2. CASE ~Attached(d)
    <3>1. ~Attached(conn')
      BY <1>8, <2>2 DEF Moves, Grown, Attached
    <3>2. /\ conn'.told = FALSE /\ conn'.closureNotified = FALSE /\ conn'.delivered = {}
          /\ conn'.consumer = NoConsumer
      BY <1>8, <3>1 DEF Flowing, Core, Shape, ConnState, Credit, Attached
    <3> QED
      BY <1>1, <1>9, <3>2 DEF Feed!Carries, Feed!Loses, Feed!NoOneReads
  <2> QED
    BY <2>1, <2>2
<1>12. Feed!Receive
  <2>1. (conn.next - 1) + 1 = conn.next /\ (conn.next + 1) - 1 = conn.next
    BY <1>1 DEF Core, Shape, ConnState
  <2>2. (conn'.dropped > 0) = (conn.dropped > 0 \/ lost)
    BY <1>4, <1>9
  <2>3. \/ Records(conn') = Records(conn)
        \/ /\ conn.next \in Records(conn') /\ Records(conn') \subseteq all
           /\ Feed!Before(all \ Records(conn'), Records(conn'))
    BY <1>4, <1>9 DEF Feed!Before
  <2>4. lost = (Records(conn') # all)
    BY <1>9
  <2> HIDE DEF lost
  <2> QED
    BY <1>1, <1>9, <1>11, <2>1, <2>2, <2>3, <2>4, RecordsOfNext DEF Feed!Receive
<1>13. Watched'
  <2>1. Attached(conn') => conn'.consumer = conn.consumer /\ conn'.watcher = conn.watcher
    BY <1>4, <1>7, <1>8 DEF Moves, Grown, Attached
  <2> QED
    BY <1>1, <2>1 DEF FlowInv, Watched, Attached, Matches
<1> QED
  BY <1>10, <1>12, <1>13 DEF Preserved, FeedStep, Feed!Next

LEMMA SignalFeed ==
    ASSUME FlowInv, NEW signal \in signals, TakeSignal(signal)
    PROVE  Preserved
<1>1. CASE Matches(signal, conn)
  BY <1>1, DetachFeed DEF TakeSignal
<1>2. CASE ~Matches(signal, conn)
  <2>1. conn' = conn /\ watchers' = watchers /\ signals' = signals \ {signal}
    BY <1>2 DEF TakeSignal
  <2>2. Watched'
    BY <1>2, <2>1 DEF FlowInv, Watched
  <2> QED
    BY <2>1, <2>2, UnchangedStep
<1> QED
  BY <1>1, <1>2

\* A watcher that ends for its attachment leaves its signal behind.
LEMMA WatcherFeed ==
    ASSUME FlowInv, NEW w \in watchers,
           WatcherReports(w) \/ LinkLost(w) \/ WatcherDies(w) \/ WatcherEnds(w)
    PROVE  Preserved
<1> DEFINE mine == [id |-> conn.watcher, consumer |-> conn.consumer]
<1>1. conn' = conn /\ watchers' = watchers \ {w} /\ signals \subseteq signals'
  BY DEF WatcherReports, LinkLost, Report, WatcherDies, WatcherEnds
<1>2. Watched'
  <2>1. SUFFICES ASSUME Attached(conn) PROVE mine \in watchers' \/ \E m \in signals' : Matches(m, conn)
    BY <1>1 DEF Watched
  <2>2. CASE \E m \in signals : Matches(m, conn)
    BY <1>1, <2>2
  <2>3. CASE mine \in watchers /\ w # mine
    BY <1>1, <2>3
  <2>4. CASE w = mine
    <3>1. w.id = conn.watcher /\ w.consumer = conn.consumer
      BY <2>4
    <3>2. \E kind \in {"consumer_down", "DOWN"} :
             [kind |-> kind, watcher |-> w.id, consumer |-> w.consumer] \in signals'
      BY <3>1 DEF WatcherReports, LinkLost, Report, WatcherDies, WatcherEnds
    <3> QED
      BY <3>1, <3>2 DEF Matches
  <2> QED
    BY <2>1, <2>2, <2>3, <2>4 DEF FlowInv, Watched
<1> QED
  BY <1>1, <1>2, UnchangedStep

LEMMA NextFlow ==
    ASSUME FlowInv, IInv', [Next]_vars
    PROVE  Preserved
<1>0. Core(conn') /\ Core(conn) /\ Settled(conn)
  BY DEF IInv, FlowInv, Settled, Flowing
<1>1. ASSUME conn' = conn, watchers' = watchers, signals' = signals PROVE Preserved
  BY <1>1, UnchangedStep DEF FlowInv, Watched
<1>2. ASSUME conn' \in UpstreamClosed(conn) \/ conn' \in SendFailed(conn),
             conn.status = "open", watchers' = watchers, signals' = signals
      PROVE  Preserved
  BY <1>2, CloseFeed
<1>3. CASE Connect
  <2>1. CASE conn' = [conn EXCEPT !.status = "open"]
    <3>1. /\ conn.status = "opening" /\ conn'.status = "open" /\ conn'.next = conn.next
          /\ conn'.acked = conn.acked /\ conn'.dropped = conn.dropped
          /\ Records(conn') = Records(conn) /\ conn'.consumer = conn.consumer
          /\ conn'.told = conn.told /\ conn'.delivered = conn.delivered
          /\ conn'.closureNotified = conn.closureNotified /\ conn'.inFlight = conn.inFlight
          /\ conn'.watcher = conn.watcher
      BY <1>0, <1>3, <2>1 DEF Connect, Core, Shape, ConnState, Records
    <3>2. Settled(conn')
      BY <1>0, <3>1 DEF Settled, Flowing, Credit, Full, Announced, Drained, Pending, Attached
    <3>3. Feed!Open
      BY <3>1, RecordsOfNext DEF Feed!Open
    <3>4. Watched'
      BY <1>3, <3>1 DEF Connect, FlowInv, Watched, Attached, Matches
    <3> QED
      BY <3>2, <3>3, <3>4 DEF Preserved, FeedStep, Feed!Next
  <2>2. CASE conn' = Stop(conn)
    BY <1>3, <2>2, StopFeed DEF Connect
  <2> QED
    BY <1>3, <2>1, <2>2 DEF Connect
<1>4. ASSUME NEW x \in Consumers, Attach(x) PROVE Preserved
  BY <1>4, AttachFeed
<1>5. ASSUME NEW x \in Consumers, Detach(x) PROVE Preserved
  BY <1>5, DetachFeed DEF Detach
<1>6. ASSUME NEW x \in Consumers, PutCheckpoint(x) PROVE Preserved
  <2>1. conn' = [conn EXCEPT !.checkpoint = TRUE] /\ watchers' = watchers /\ signals' = signals
    BY <1>6 DEF PutCheckpoint
  <2>2. /\ Kept(conn, conn') /\ Grown(conn, conn') /\ conn'.status = conn.status
        /\ conn'.inFlight = conn.inFlight /\ conn'.delivered = conn.delivered
        /\ conn'.closureNotified = conn.closureNotified
    BY <1>0, <2>1 DEF Core, Shape, ConnState, Kept, Grown
  <2>3. Watched'
    BY <2>1, <2>2 DEF FlowInv, Watched, Attached, Matches, Grown
  <2> QED
    BY <1>0, <2>2, <2>3, SilentStep
<1>7. ASSUME NEW x \in Consumers, NEW n \in 1..MaxSequence, Ack(x, n) \/ AckWithCheckpoint(x, n)
      PROVE  Preserved
  BY <1>7, AckFeed
<1>8. CASE SendData
  BY <1>2, <1>8 DEF SendData
<1>9. ASSUME NEW keys \in (SUBSET Keys) \ {{}}, SendDataOnce(keys) PROVE Preserved
  <2>1. conn.status = "open" /\ watchers' = watchers /\ signals' = signals
    BY <1>9 DEF SendDataOnce, SendOnceAccepted
  <2>2. CASE conn' = [conn EXCEPT !.sentOnce = @ \cup keys]
    <3>1. /\ Kept(conn, conn') /\ Grown(conn, conn') /\ conn'.status = conn.status
          /\ conn'.inFlight = conn.inFlight /\ conn'.delivered = conn.delivered
          /\ conn'.closureNotified = conn.closureNotified
      BY <1>0, <2>2 DEF Core, Shape, ConnState, Kept, Grown
    <3>2. Watched'
      BY <2>1, <3>1 DEF FlowInv, Watched, Attached, Matches, Grown
    <3> QED
      BY <1>0, <3>1, <3>2, SilentStep
  <2>3. CASE conn' \in SendFailed(conn)
    BY <1>2, <2>1, <2>3
  <2> QED
    BY <1>9, <2>2, <2>3 DEF SendDataOnce
<1>10. CASE Close
  BY <1>10, StopFeed DEF Close, Idle
<1>11. CASE Inbound
  BY <1>1, <1>11 DEF Inbound
<1>12. CASE ApplyForward
  BY <1>12, ForwardFeed
<1>13. CASE ApplyReply
  BY <1>1, <1>13 DEF ApplyReply
<1>14. CASE ApplyFails
  <2>1. chunk # NoChunk
    BY <1>14 DEF ApplyFails, NoChunk
  <2> QED
    BY <1>2, <1>14, <2>1 DEF ApplyFails, FlowInv, IInv
<1>15. CASE FinishChunk
  BY <1>1, <1>2, <1>15 DEF FinishChunk, FlowInv, IInv
<1>16. CASE UpstreamCloses
  BY <1>2, <1>16 DEF UpstreamCloses
<1>17. CASE RetentionExpires
  BY <1>17, StopFeed DEF RetentionExpires, Idle
<1>18. ASSUME NEW signal \in signals, TakeSignal(signal) PROVE Preserved
  BY <1>18, SignalFeed
<1>19. CASE Killed
  BY <1>19, StopFeed DEF Killed
<1>20. ASSUME NEW x \in Consumers, ConsumerDies(x) PROVE Preserved
  BY <1>1, <1>20 DEF ConsumerDies
<1>21. ASSUME NEW w \in watchers,
              WatcherReports(w) \/ LinkLost(w) \/ WatcherDies(w) \/ WatcherEnds(w)
       PROVE  Preserved
  BY <1>21, WatcherFeed
<1>22. CASE UNCHANGED vars
  BY <1>1, <1>22 DEF vars
<1> QED
  BY <1>3, <1>4, <1>5, <1>6, <1>7, <1>8, <1>9, <1>10, <1>11, <1>12, <1>13, <1>14, <1>15,
     <1>16, <1>17, <1>18, <1>19, <1>20, <1>21, <1>22 DEF Next, HandlerStep, WatcherStep

LEMMA InitFlow == Init => FlowInv /\ Feed!Init
<1> SUFFICES ASSUME Init PROVE FlowInv /\ Feed!Init
  OBVIOUS
<1>1. IInv
  BY InitIInv
<1>2. /\ conn.status = "opening" /\ conn.consumer = NoConsumer /\ Records(conn) = {}
      /\ conn.next = 1 /\ conn.acked = 0 /\ conn.dropped = 0 /\ conn.inFlight = {}
      /\ conn.delivered = {} /\ conn.told = FALSE /\ conn.closureNotified = FALSE
  BY DEF Init, Records
<1>3. Credit(conn)
  <2>1. Cardinality({}) = 0
    BY FS_EmptySet
  <2> QED
    BY <1>2, <2>1, BufferAssumption DEF Credit
<1>4. Settled(conn) /\ Watched
  BY <1>1, <1>2, <1>3
     DEF IInv, Settled, Flowing, Full, Announced, Drained, Watched, Attached
<1>5. Feed!Init
  BY <1>2 DEF Feed!Init
<1> QED
  BY <1>1, <1>4, <1>5 DEF FlowInv

LEMMA StepFlow == FlowInv /\ [Next]_vars => FlowInv' /\ FeedStep
<1> SUFFICES ASSUME FlowInv, [Next]_vars PROVE FlowInv' /\ FeedStep
  OBVIOUS
<1>1. IInv'
  BY NextIInv DEF FlowInv
<1>2. Preserved
  BY <1>1, NextFlow
<1> QED
  BY <1>1, <1>2 DEF FlowInv, Preserved

LEMMA InvariantFlow == Spec => []FlowInv
<1>1. FlowInv /\ [Next]_vars => FlowInv'
  BY StepFlow
<1> QED
  BY InitFlow, <1>1, PTL DEF Spec

-----------------------------------------------------------------------------
(* The theorems.                                                           *)

\* connection.ex implements the feed: every step of the process, whatever is
\* evicted, refused, coalesced, acknowledged or closed in it, is one step of
\* ReplayFeed or none.
THEOREM ImplementsReplayFeed == Spec => RefinesReplayFeed
<1>1. FlowInv /\ [Next]_vars => [Feed!Next]_(Feed!vars)
  BY StepFlow DEF FeedStep
<1>2. Init => Feed!Init
  BY InitFlow
<1> QED
  BY <1>1, <1>2, InvariantFlow, PTL DEF Spec, RefinesReplayFeed, Feed!Spec

\* dispatch_available and maybe_notify_closed run wherever credit or the last
\* record comes free: nothing deliverable waits for an event that is not due.
THEOREM DeliveryNeverStalls == Spec => []NoStalledDelivery
<1>1. FlowInv => NoStalledDelivery
  BY DEF FlowInv, Settled, Flowing, Full, Announced, NoStalledDelivery
<1> QED
  BY <1>1, InvariantFlow, PTL

\* max_in_flight bounds what a consumer has in its mailbox, evicted records
\* that it has still to acknowledge included.
THEOREM CreditBoundsMailbox == Spec => []MailboxBounded
<1>1. FlowInv => MailboxBounded
  BY DEF FlowInv, Settled, Flowing, Credit, MailboxBounded
<1> QED
  BY <1>1, InvariantFlow, PTL

\* An attached consumer that is gone will be noticed: its watcher runs or has
\* left a message that ends this attachment (consumer_watcher.ex).
THEOREM DeadConsumersAreWatched == Spec => []DeadConsumerIsWatched
<1>1. FlowInv => DeadConsumerIsWatched
  BY ConsumerAssumption DEF FlowInv, IInv, Messages, Watched, Attached, DeadConsumerIsWatched
<1> QED
  BY <1>1, InvariantFlow, PTL

\* The watermark moves by an ACK alone, and only to a record that the consumer
\* attached at the time was given.
THEOREM AcksCoverDelivered == Spec => AckCoversDelivered
<1>1. FlowInv /\ [Next]_vars =>
        [/\ conn'.acked >= conn.acked
         /\ conn'.acked > conn.acked => conn'.acked \in conn.delivered]_vars
  <2> SUFFICES ASSUME FlowInv, [Next]_vars
               PROVE  /\ conn'.acked >= conn.acked
                      /\ conn'.acked > conn.acked => conn'.acked \in conn.delivered
    OBVIOUS
  <2>1. FeedStep /\ conn.acked \in Nat
    BY StepFlow DEF FlowInv, Settled, Flowing, Core, Shape, ConnState
  <2>2. CASE \E n \in conn.delivered : Feed!Acknowledge(n)
    BY <2>1, <2>2 DEF Feed!Acknowledge, FlowInv, Settled, Flowing, Core, Shape
  <2>3. CASE conn'.acked = conn.acked
    BY <2>1, <2>3
  <2> QED
    BY <2>1, <2>2, <2>3 DEF FeedStep, Feed!Next, Feed!vars, Feed!Open, Feed!Receive,
                            Feed!Attach, Feed!Leave, Feed!Close, Feed!End
<1> QED
  BY <1>1, InvariantFlow, PTL DEF Spec, AckCoversDelivered
=============================================================================
