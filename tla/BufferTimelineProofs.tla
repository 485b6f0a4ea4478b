------------------------ MODULE BufferTimelineProofs ------------------------
(***************************************************************************)
(* Theorems about a buffer's timeline, for any limits, page sizes and      *)
(* bounds: its types, that no message is shown twice, that nothing is      *)
(* missing from a quiet timeline, that a history that was fetched is       *)
(* whole, and that what a timeline says of a message comes true.           *)
(*                                                                         *)
(* Two invariants carry them.  TInv says what each part holds.  Every      *)
(* operation that makes a timeline picks entries of the one before and of  *)
(* a page, each of them at most once, replaces an entry by another copy of *)
(* the same message, or appends one that was not there.  Pages hold stored *)
(* messages, each once and with a status the server had; a batch of a      *)
(* reconciliation may hold a command twice, and what the pages of a        *)
(* conversation's history bring is older than what they have brought.      *)
(*                                                                         *)
(* SInv, built on it, says what is still to come.  While the frames of the *)
(* session are not broken off, every status that is behind has a frame on  *)
(* its way that tells the new one, and every message that is missing has a *)
(* frame, a page that will bring it, or is older than all that is on show. *)
(* The frames are those that wait for the refresh and then those on the    *)
(* socket, so that the two readers of a frame, at once or after a refresh, *)
(* leave the same of it to the frames behind.                              *)
(***************************************************************************)
EXTENDS BufferTimeline, NumberLemmas, SequenceTheorems

-----------------------------------------------------------------------------
(* The invariant, part by part.  l is the log, u the steps that were       *)
(* counted (the identifiers that were given out), S the pushes.            *)

Message == [rank : Ranks, own : BOOLEAN]
Frame == [type : {"message"}, id : Nat, rank : Ranks]
            \cup [type : {"thread"}, rev : Nat]
            \cup [type : {"reply"}, cid : Int, id : Nat]
Held == [frame : Frame, session : Nat]
Push == [cid : Int, waiting : BOOLEAN, served : BOOLEAN, online : BOOLEAN]

StoredEntry(e, l) ==
    /\ e \in EntryType /\ e.id \in DOMAIN l /\ e.at = e.id /\ e.state = "sent"
    /\ e.rank <= l[e.id].rank
UnsentEntry(e, u) ==
    e \in EntryType /\ e.id \in (-u)..(-1) /\ e.rank = 0 /\ e.state # "sent"

\* Messages that may be shown twice.
Excused(l) == {n \in DOMAIN l : l[n].own \/ l[n].rank > 0}
Commands(l) == {n \in DOMAIN l : l[n].rank > 0}

Once(tl, X) == \A i, j \in DOMAIN tl : i # j /\ tl[i].id = tl[j].id => tl[i].id \in X

Awaited(tl, S) ==
    \A i \in DOMAIN tl : tl[i].state = "pending" => \E s \in S : s.cid = tl[i].id /\ s.waiting

LineOK(tl, l, u, S) ==
    /\ tl \in Seq(EntryType)
    /\ \A i \in DOMAIN tl : StoredEntry(tl[i], l) \/ UnsentEntry(tl[i], u)
    /\ Once(tl, Excused(l))
    /\ Awaited(tl, S)

PageOK(q, l, X) == q \in Seq(EntryType) /\ (\A i \in DOMAIN q : StoredEntry(q[i], l)) /\ Once(q, X)

FrameOK(f, l, u) ==
    /\ f \in Frame
    /\ f.type # "thread" => f.id \in DOMAIN l
    /\ f.type = "message" => f.rank <= l[f.id].rank
    /\ f.type = "reply" => l[f.id].own /\ f.cid \in (-u)..(-1)

WireOK(q, l, u) == q \in Seq(Frame) /\ \A i \in DOMAIN q : FrameOK(q[i], l, u)
QueueOK(q, l, u) ==
    q \in Seq(Held) /\ \A i \in DOMAIN q : FrameOK(q[i].frame, l, u) /\ q[i].frame.type # "reply"

OlderOK(r, l) ==
    /\ r \in [stage : {"idle", "sent", "answered"}, before : Nat, page : Seq(EntryType)]
    /\ PageOK(r.page, l, {})

ReconOK(r, l) ==
    /\ r \in [stage : {"idle", "sent", "answered"}, commands : SUBSET Nat, batch : Seq(EntryType)]
    /\ r.commands \subseteq Commands(l)
    /\ PageOK(r.batch, l, Commands(l))

RefreshOK(r, l) ==
    /\ r \in [stage : {"idle", "sent", "answered", "waiting", "done"}, page : Seq(EntryType),
              rev : Nat, session : Nat, again : BOOLEAN]
    /\ PageOK(r.page, l, {})

Hydration == [busy : BOOLEAN, done : BOOLEAN, retry : BOOLEAN, stage : {"idle", "sent", "answered"},
              before : Nat \cup {None}, got : Seq(EntryType), page : Seq(EntryType)]

HydrationOK(h, l) ==
    /\ h \in Hydration
    /\ h.busy <=> h.stage # "idle"
    /\ PageOK(h.got, l, {}) /\ PageOK(h.page, l, {})
    /\ h.before = None => h.got = <<>>
    /\ h.before # None => /\ \A i \in DOMAIN h.got : h.before <= h.got[i].id
                          /\ \A i \in DOMAIN h.page : h.page[i].id < h.before
    /\ \A i \in DOMAIN h.page : h.page[1].id <= h.page[i].id

SendsOK(S, u) ==
    \A s \in S : s \in Push /\ s.cid \in (-u)..(-1) /\ (s.waiting \/ ~s.served)

ServerOK ==
    /\ kind \in {"channel", "direct"}
    /\ log \in Seq(Message) /\ Len(log) <= MaxLog
    /\ thread \in Nat /\ known \in Nat /\ sessions \in Nat
    /\ link \in {"joined", "down"} /\ reading \in BOOLEAN
    /\ synced \in BOOLEAN /\ torn \in BOOLEAN /\ lagging \in BOOLEAN
    /\ spent \in [steps : 0..MaxSteps, drops : 0..MaxDrops]

PartsOK(l, u) ==
    /\ LineOK(timeline, l, u, sends)
    /\ WireOK(wire, l, u) /\ QueueOK(queue, l, u)
    /\ OlderOK(loadingOlder, l) /\ ReconOK(recon, l) /\ RefreshOK(refresh, l)
    /\ HydrationOK(hydration, l)
    /\ SendsOK(sends, u)

TInv ==
    /\ ServerOK
    /\ PartsOK(log, spent.steps)
    /\ refresh.stage = "idle" => queue = <<>>

LEMMA BoundsAre ==
    /\ RenderLimit \in Nat \ {0} /\ BootPage \in Nat \ {0} /\ Page \in Nat \ {0}
    /\ DirectPage \in Nat \ {0} /\ MaxLog \in Nat /\ MaxSteps \in Nat /\ MaxDrops \in Nat
    /\ Stored \in 0..MaxLog /\ None \notin Nat
BY TimelineAssumption DEF TimelineAssumption

-----------------------------------------------------------------------------
(* Sequences: what is picked from one, and a stable sort.                  *)

\* q holds what f has at the places of a set, each once and in their order.
Picks(q, f, I) ==
    /\ Len(q) \in Nat /\ DOMAIN q = 1..Len(q)
    /\ \A k \in DOMAIN q : Nth(I, k) \in I /\ q[k] = f[Nth(I, k)]
    /\ \A k, l \in DOMAIN q : k < l => Nth(I, k) < Nth(I, l)
    /\ \A i \in I : \E k \in DOMAIN q : Nth(I, k) = i

LEMMA PickedKeeps ==
    ASSUME NEW T, NEW m \in Nat, NEW I, I \subseteq 1..m, NEW f, \A i \in I : f[i] \in T
    PROVE  Picked(f, I) \in Seq(T) /\ Len(Picked(f, I)) <= m /\ Picks(Picked(f, I), f, I)
<1> DEFINE R(i) == {j \in I : j <= i}
           c == Cardinality(I)
<1>1. I \subseteq 1..m /\ m \in Nat /\ \A i \in I : f[i] \in T
  OBVIOUS
<1>2. IsFiniteSet(I) /\ c \in Nat
  BY <1>1, IntervalSubset
<1>3. c <= m
  <2> DEFINE S == 1..m
  <2>1. IsFiniteSet(S)
    BY <1>1, FS_Interval
  <2>2. Cardinality(S) = IF 1 > m THEN 0 ELSE m - 1 + 1
    BY <1>1, FS_Interval
  <2>3. I \subseteq S
    BY <1>1
  <2> HIDE DEF S
  <2>4. c <= Cardinality(S)
    BY <2>1, <2>3, FS_Subset
  <2> QED
    BY <2>2, <2>4, <1>1
<1>4. \A k \in 1..c : Nth(I, k) \in I /\ Cardinality(R(Nth(I, k))) = k
  <2> TAKE k \in 1..c
  <2>1. \E i \in I : Cardinality(AtOrBelow(I, i)) = k
    BY <1>1, RankExists
  <2> QED
    BY <2>1 DEF Nth, AtOrBelow
<1>5. \A i, j \in I : i < j => Cardinality(R(i)) < Cardinality(R(j))
  <2> SUFFICES ASSUME NEW i \in I, NEW j \in I, i < j
               PROVE  Cardinality(R(i)) < Cardinality(R(j))
    OBVIOUS
  <2>1. i \in Int /\ j \in Int
    BY <1>1
  <2>2. R(i) \subseteq R(j) /\ j \in R(j) /\ j \notin R(i)
    <3>1. \A n \in I : n \in Int
      BY <1>1
    <3>2. \A n \in I : n <= i => n <= j
      BY <2>1, <3>1
    <3>3. j <= j /\ ~(j <= i)
      BY <2>1
    <3> QED
      BY <3>2, <3>3
  <2>3. IsFiniteSet(R(j))
    <3>1. R(j) \subseteq I
      OBVIOUS
    <3> QED
      BY <3>1, <1>2, FS_Subset
  <2> HIDE DEF R
  <2>4. R(i) # R(j)
    BY <2>2
  <2>5. Cardinality(R(i)) \in Nat /\ Cardinality(R(j)) \in Nat
    BY <2>2, <2>3, FS_Subset, FS_CardinalityType
  <2>6. Cardinality(R(i)) <= Cardinality(R(j))
    BY <2>2, <2>3, FS_Subset
  <2>7. Cardinality(R(i)) # Cardinality(R(j))
    BY <2>2, <2>3, <2>4, FS_Subset
  <2> QED
    BY <2>5, <2>6, <2>7
<1>6. \A i \in I : Cardinality(R(i)) \in 1..c
  <2> TAKE i \in I
  <2>1. R(i) \subseteq I /\ i \in R(i)
    BY <1>1
  <2> HIDE DEF R
  <2>2. IsFiniteSet(R(i))
    BY <2>1, <1>2, FS_Subset
  <2>3. Cardinality(R(i)) \in Nat /\ Cardinality(R(i)) <= c
    BY <2>1, <2>2, <1>2, FS_Subset, FS_CardinalityType
  <2>4. Cardinality(R(i)) # 0
    BY <2>1, <2>2, FS_EmptySet
  <2> QED
    BY <2>3, <2>4, <1>2
<1> HIDE DEF R
<1>7. Picked(f, I) = [k \in 1..c |-> f[Nth(I, k)]]
  BY DEF Picked
<1>8. /\ Picked(f, I) \in Seq(T) /\ Len(Picked(f, I)) = c /\ DOMAIN Picked(f, I) = 1..c
      /\ \A k \in 1..c : Picked(f, I)[k] = f[Nth(I, k)]
  <2>1. \A k \in 1..c : f[Nth(I, k)] \in T
    BY <1>1, <1>4
  <2> HIDE DEF c
  <2> QED
    BY <1>2, <1>7, <2>1
<1>9. \A k, l \in 1..c : k < l => Nth(I, k) < Nth(I, l)
  <2> SUFFICES ASSUME NEW k \in 1..c, NEW l \in 1..c, k < l
               PROVE  Nth(I, k) < Nth(I, l)
    OBVIOUS
  <2> DEFINE a == Nth(I, k)
             b == Nth(I, l)
  <2>1. a \in I /\ b \in I /\ Cardinality(R(a)) = k /\ Cardinality(R(b)) = l
    BY <1>4
  <2> HIDE DEF a, b
  <2>2. a \in Int /\ b \in Int
    BY <2>1, <1>1
  <2>3. a # b /\ ~(b < a)
    <3>1. k \in Int /\ l \in Int
      BY <1>2
    <3> QED
      BY <2>1, <1>5, <3>1
  <2>4. a < b
    BY <2>2, <2>3
  <2> QED
    BY <2>4 DEF a, b
<1>10. \A i \in I : \E k \in 1..c : Nth(I, k) = i
  <2> TAKE i \in I
  <2> DEFINE k == Cardinality(R(i))
             a == Nth(I, k)
  <2>1. k \in 1..c
    BY <1>6
  <2>2. a \in I /\ Cardinality(R(a)) = k
    BY <2>1, <1>4
  <2>3. a = i
    <3>1. a \in Int /\ i \in Int /\ k \in Int
      <4>1. k \in Int
        BY <2>1, <1>2
      <4>2. \A n \in I : n \in Int
        BY <1>1
      <4> HIDE DEF a, k
      <4> QED
        BY <2>2, <4>1, <4>2
    <3> HIDE DEF a
    <3>2. ~(k < k)
      BY <3>1
    <3>3. ~(a < i) /\ ~(i < a)
      <4> HIDE DEF R, k
      <4>1. Cardinality(R(a)) = Cardinality(R(i))
        BY <2>2 DEF k
      <4>2. ~(Cardinality(R(i)) < Cardinality(R(i)))
        BY <3>2 DEF k
      <4> QED
        BY <2>2, <1>5, <4>1, <4>2, Zenon
    <3> QED
      BY <3>1, <3>3
  <2> QED
    BY <2>1, <2>3
<1> QED
  BY <1>2, <1>3, <1>4, <1>8, <1>9, <1>10 DEF Picks

\* A stable sort permutes a timeline, and orders it by time.
LEMMA SortedPermutes ==
    ASSUME NEW tl \in Seq(EntryType)
    PROVE  /\ Sorted(tl) \in Seq(EntryType) /\ DOMAIN Sorted(tl) = DOMAIN tl
           /\ Len(Sorted(tl)) = Len(tl)
           /\ \E p \in [DOMAIN tl -> DOMAIN tl] :
                  /\ \A k, l \in DOMAIN tl : p[k] = p[l] => k = l
                  /\ \A i \in DOMAIN tl : \E k \in DOMAIN tl : p[k] = i
                  /\ \A k \in DOMAIN tl : Sorted(tl)[k] = tl[p[k]]
           /\ \A k, l \in DOMAIN tl : k <= l => Sorted(tl)[k].at <= Sorted(tl)[l].at
<1> DEFINE D == DOMAIN tl
           B(i) == {j \in D : tl[j].at < tl[i].at \/ (tl[j].at = tl[i].at /\ j <= i)}
           P == [i \in D |-> Place(tl, i)]
<1>1. Len(tl) \in Nat /\ D = 1..Len(tl) /\ \A i \in D : tl[i] \in EntryType
  OBVIOUS
<1>2. \A i \in D : tl[i].at \in Int /\ i \in Int
  BY <1>1 DEF EntryType
<1>3. IsFiniteSet(D) /\ Cardinality(D) = Len(tl)
  BY <1>1, FS_Interval
<1>4. \A i \in D : Place(tl, i) = Cardinality(B(i))
  BY DEF Place
<1>5. \A i \in D : IsFiniteSet(B(i)) /\ Cardinality(B(i)) \in 1..Len(tl)
  <2> SUFFICES ASSUME NEW i \in D
               PROVE  IsFiniteSet(B(i)) /\ Cardinality(B(i)) \in 1..Len(tl)
    OBVIOUS
  <2>1. B(i) \subseteq D /\ i \in B(i)
    BY <1>2
  <2> HIDE DEF B, D
  <2>2. IsFiniteSet(B(i)) /\ Cardinality(B(i)) \in Nat /\ Cardinality(B(i)) <= Len(tl)
    BY <2>1, <1>3, FS_Subset, FS_CardinalityType
  <2>3. Cardinality(B(i)) # 0
    BY <2>1, <2>2, FS_EmptySet
  <2> QED
    BY <2>2, <2>3, <1>1
<1>6. \A i, j \in D : tl[i].at < tl[j].at \/ (tl[i].at = tl[j].at /\ i < j)
                        => Cardinality(B(i)) < Cardinality(B(j))
  <2> SUFFICES ASSUME NEW i \in D, NEW j \in D,
                      tl[i].at < tl[j].at \/ (tl[i].at = tl[j].at /\ i < j)
               PROVE  Cardinality(B(i)) < Cardinality(B(j))
    OBVIOUS
  <2>1. B(i) \subseteq B(j) /\ j \in B(j) /\ j \notin B(i)
    BY <1>2
  <2> HIDE DEF B, D
  <2>2. IsFiniteSet(B(j)) /\ Cardinality(B(i)) \in Nat /\ Cardinality(B(j)) \in Nat
    BY <1>1, <1>5
  <2>3. B(i) # B(j)
    BY <2>1
  <2>4. Cardinality(B(i)) <= Cardinality(B(j)) /\ Cardinality(B(i)) # Cardinality(B(j))
    BY <2>1, <2>2, <2>3, FS_Subset
  <2> QED
    BY <2>2, <2>4
<1> HIDE DEF B
<1>7. \A i, j \in D : Place(tl, i) = Place(tl, j) => i = j
  <2> SUFFICES ASSUME NEW i \in D, NEW j \in D, Cardinality(B(i)) = Cardinality(B(j)), i # j
               PROVE  FALSE
    BY <1>4
  <2>1. Cardinality(B(i)) \in Int /\ Cardinality(B(j)) \in Int
    BY <1>5
  <2>2. \/ tl[i].at < tl[j].at \/ (tl[i].at = tl[j].at /\ i < j)
        \/ tl[j].at < tl[i].at \/ (tl[j].at = tl[i].at /\ j < i)
    BY <1>2
  <2> QED
    BY <1>6, <2>1, <2>2
<1>8. \A n \in D : \E i \in D : Place(tl, i) = n
  <2>1. P \in [D -> D]
    BY <1>1, <1>4, <1>5
  <2>2. P \in Injection(D, D)
    BY <2>1, <1>7 DEF Injection, IsInjective
  <2> HIDE DEF P, D
  <2>3. P \in Surjection(D, D)
    BY <2>2, <1>3, FS_Injection
  <2>4. \A n \in D : \E i \in D : P[i] = n
    BY <2>3 DEF Surjection
  <2> QED
    BY <2>4 DEF P
<1> DEFINE p == [n \in D |-> CHOOSE i \in D : Place(tl, i) = n]
<1>9. \A n \in D : p[n] \in D /\ Place(tl, p[n]) = n
  BY <1>8
<1>10. p \in [D -> D]
  BY <1>9
<1>11. Sorted(tl) = [n \in D |-> tl[p[n]]]
  BY DEF Sorted
<1> HIDE DEF p, P
<1>12. \A k, l \in D : p[k] = p[l] => k = l
  BY <1>9
<1>13. \A i \in D : \E k \in D : p[k] = i
  <2> TAKE i \in D
  <2>1. Place(tl, i) \in D
    BY <1>1, <1>4, <1>5
  <2>2. p[Place(tl, i)] = i
    BY <2>1, <1>7, <1>9
  <2> QED
    BY <2>1, <2>2
<1>14. \A k \in D : Sorted(tl)[k] = tl[p[k]] /\ tl[p[k]] \in EntryType
  BY <1>1, <1>9, <1>11
<1>15. /\ Sorted(tl) \in Seq(EntryType) /\ DOMAIN Sorted(tl) = D /\ Len(Sorted(tl)) = Len(tl)
  <2>1. Sorted(tl) = [n \in 1..Len(tl) |-> tl[p[n]]]
    BY <1>1, <1>11
  <2>2. \A n \in 1..Len(tl) : tl[p[n]] \in EntryType
    BY <1>1, <1>14
  <2> HIDE DEF D
  <2> QED
    BY <1>1, <2>1, <2>2
<1>16. \A k, l \in D : k <= l => Sorted(tl)[k].at <= Sorted(tl)[l].at
  <2> SUFFICES ASSUME NEW k \in D, NEW l \in D, k <= l, ~(tl[p[k]].at <= tl[p[l]].at)
               PROVE  FALSE
    BY <1>14
  <2>1. p[k] \in D /\ p[l] \in D /\ Cardinality(B(p[k])) = k /\ Cardinality(B(p[l])) = l
    BY <1>4, <1>9
  <2>2. tl[p[l]].at < tl[p[k]].at
    BY <2>1, <1>2
  <2>3. l < k
    BY <2>1, <2>2, <1>6
  <2> QED
    BY <2>3, <1>2
<1> QED
  BY <1>10, <1>12, <1>13, <1>14, <1>15, <1>16

-----------------------------------------------------------------------------
(* Timelines: what their operators keep.                                   *)

\* Every entry of one is an entry of the other, a different one each.
PartOf(new, old) ==
    /\ new \in Seq(EntryType)
    /\ \E p \in [DOMAIN new -> DOMAIN old] :
           /\ \A k, l \in DOMAIN new : p[k] = p[l] => k = l
           /\ \A k \in DOMAIN new : new[k] = old[p[k]]

LEMMA PartKeepsLine ==
    ASSUME NEW new, NEW old, NEW l, NEW u, NEW S, LineOK(old, l, u, S), PartOf(new, old)
    PROVE  LineOK(new, l, u, S)
<1>1. PICK p \in [DOMAIN new -> DOMAIN old] :
           /\ \A k, m \in DOMAIN new : p[k] = p[m] => k = m
           /\ \A k \in DOMAIN new : new[k] = old[p[k]]
  BY DEF PartOf
<1>2. \A k \in DOMAIN new : p[k] \in DOMAIN old
  OBVIOUS
<1>3. \A k \in DOMAIN new : StoredEntry(new[k], l) \/ UnsentEntry(new[k], u)
  BY <1>1, <1>2 DEF LineOK
<1>4. Once(new, Excused(l))
  <2> SUFFICES ASSUME NEW i \in DOMAIN new, NEW j \in DOMAIN new, i # j, new[i].id = new[j].id
               PROVE  new[i].id \in Excused(l)
    BY DEF Once
  <2>1. p[i] # p[j] /\ old[p[i]].id = old[p[j]].id
    BY <1>1
  <2> QED
    BY <1>1, <1>2, <2>1 DEF LineOK, Once
<1>5. Awaited(new, S)
  <2>1. \A k \in DOMAIN old : old[k].state = "pending" => \E s \in S : s.cid = old[k].id /\ s.waiting
    BY DEF LineOK, Awaited
  <2> QED
    BY <1>1, <1>2, <2>1 DEF Awaited
<1> QED
  BY <1>3, <1>4, <1>5 DEF LineOK, PartOf

LEMMA SortedLine ==
    ASSUME NEW tl, NEW l, NEW u, NEW S, LineOK(tl, l, u, S)
    PROVE  LineOK(Sorted(tl), l, u, S)
<1>1. tl \in Seq(EntryType)
  BY DEF LineOK
<1>2. /\ Sorted(tl) \in Seq(EntryType) /\ DOMAIN Sorted(tl) = DOMAIN tl
      /\ \E p \in [DOMAIN tl -> DOMAIN tl] :
             /\ \A k, m \in DOMAIN tl : p[k] = p[m] => k = m
             /\ \A k \in DOMAIN tl : Sorted(tl)[k] = tl[p[k]]
  <2>1. PICK p \in [DOMAIN tl -> DOMAIN tl] :
             /\ \A k, m \in DOMAIN tl : p[k] = p[m] => k = m
             /\ \A k \in DOMAIN tl : Sorted(tl)[k] = tl[p[k]]
    BY <1>1, SortedPermutes, Zenon
  <2> QED
    BY <1>1, <2>1, SortedPermutes, Zenon
<1>3. PartOf(Sorted(tl), tl)
  BY <1>2, Zenon DEF PartOf
<1> QED
  BY <1>3, PartKeepsLine

LEMMA TrimmedLine ==
    ASSUME NEW tl, NEW l, NEW u, NEW S, LineOK(tl, l, u, S), NEW limit \in Nat
    PROVE  LineOK(TrimToLimit(tl, limit), l, u, S)
<1>1. tl \in Seq(EntryType) /\ Len(tl) \in Nat /\ DOMAIN tl = 1..Len(tl)
  BY DEF LineOK
<1>2. CASE Len(tl) <= limit
  BY <1>2 DEF TrimToLimit
<1>3. CASE ~(Len(tl) <= limit)
  <2> DEFINE d == Len(tl) - limit
             new == SubSeq(tl, d + 1, Len(tl))
  <2>1. d \in Nat /\ d + 1 \in Int /\ \A i \in (d + 1)..Len(tl) : tl[i] \in EntryType
    BY <1>1, <1>3
  <2>2. new \in Seq(EntryType) /\ Len(new) = limit /\ \A i \in 1..limit : new[i] = tl[d + i]
    <3>1. /\ new \in Seq(EntryType)
          /\ Len(new) = IF d + 1 <= Len(tl) THEN Len(tl) - (d + 1) + 1 ELSE 0
          /\ \A i \in 1..(Len(tl) - (d + 1) + 1) : new[i] = tl[(d + 1) + i - 1]
      <4> HIDE DEF d
      <4> QED
        BY <1>1, <2>1, SubSeqProperties
    <3>2. Len(tl) - (d + 1) + 1 = limit /\ \A i \in 1..limit : (d + 1) + i - 1 = d + i
      BY <1>1
    <3>3. Len(new) = limit
      BY <1>1, <1>3, <3>1
    <3> QED
      BY <3>1, <3>2, <3>3
  <2> DEFINE p == [i \in 1..limit |-> d + i]
  <2>3. p \in [1..limit -> DOMAIN tl]
    BY <1>1, <1>3, <2>1
  <2>4. (\A k, m \in 1..limit : p[k] = p[m] => k = m) /\ \A k \in 1..limit : new[k] = tl[p[k]]
    BY <2>1, <2>2
  <2>5. DOMAIN new = 1..limit
    BY <2>2
  <2> HIDE DEF new, p
  <2>6. PartOf(new, tl)
    BY <2>2, <2>3, <2>4, <2>5 DEF PartOf
  <2>7. TrimToLimit(tl, limit) = new
    BY <1>3 DEF TrimToLimit, new
  <2> QED
    BY <2>6, <2>7, PartKeepsLine
<1> QED
  BY <1>2, <1>3

LEMMA PageIsLine ==
    ASSUME NEW q, NEW l, NEW u, NEW S, NEW X, PageOK(q, l, X), X \subseteq Excused(l)
    PROVE  LineOK(q, l, u, S)
<1>1. Once(q, Excused(l))
  BY DEF PageOK, Once
<1>2. Awaited(q, S)
  BY DEF PageOK, Awaited, StoredEntry
<1> QED
  BY <1>1, <1>2 DEF LineOK, PageOK

LEMMA JoinedLine ==
    ASSUME NEW a, NEW b, NEW l, NEW u, NEW S, LineOK(a, l, u, S), LineOK(b, l, u, S),
           \A i \in DOMAIN a : \A j \in DOMAIN b : a[i].id # b[j].id
    PROVE  LineOK(a \o b, l, u, S)
<1>1. a \in Seq(EntryType) /\ b \in Seq(EntryType)
  BY DEF LineOK
<1> DEFINE c == a \o b
<1>2. /\ c \in Seq(EntryType) /\ Len(c) = Len(a) + Len(b)
      /\ \A i \in 1..(Len(a) + Len(b)) : c[i] = IF i <= Len(a) THEN a[i] ELSE b[i - Len(a)]
  BY <1>1, ConcatProperties
<1> HIDE DEF c
<1>3. \A i \in DOMAIN c : \/ i \in DOMAIN a /\ c[i] = a[i]
                          \/ i - Len(a) \in DOMAIN b /\ c[i] = b[i - Len(a)] /\ i \notin DOMAIN a
  BY <1>1, <1>2
<1>4. \A i \in DOMAIN c : StoredEntry(c[i], l) \/ UnsentEntry(c[i], u)
  <2>1. /\ \A i \in DOMAIN a : StoredEntry(a[i], l) \/ UnsentEntry(a[i], u)
        /\ \A i \in DOMAIN b : StoredEntry(b[i], l) \/ UnsentEntry(b[i], u)
    BY DEF LineOK
  <2> QED
    BY <1>3, <2>1
<1>5. Once(c, Excused(l))
  <2> SUFFICES ASSUME NEW i \in DOMAIN c, NEW j \in DOMAIN c, i # j, c[i].id = c[j].id
               PROVE  c[i].id \in Excused(l)
    BY DEF Once
  <2>1. Once(a, Excused(l)) /\ Once(b, Excused(l))
    BY DEF LineOK
  <2>2. CASE i \in DOMAIN a /\ j \in DOMAIN a
    <3>1. c[i] = a[i] /\ c[j] = a[j]
      BY <1>3, <2>2
    <3> QED
      BY <2>1, <2>2, <3>1 DEF Once
  <2>3. CASE i \notin DOMAIN a /\ j \notin DOMAIN a
    <3>1. /\ i - Len(a) \in DOMAIN b /\ c[i] = b[i - Len(a)]
          /\ j - Len(a) \in DOMAIN b /\ c[j] = b[j - Len(a)]
      BY <1>3, <2>3
    <3>2. i - Len(a) # j - Len(a)
      BY <1>1, <1>2
    <3> QED
      BY <2>1, <3>1, <3>2 DEF Once
  <2>4. CASE i \in DOMAIN a /\ j \notin DOMAIN a
    BY <1>3, <2>4
  <2>5. CASE i \notin DOMAIN a /\ j \in DOMAIN a
    BY <1>3, <2>5
  <2> QED
    BY <2>2, <2>3, <2>4, <2>5
<1>6. Awaited(c, S)
  <2>1. /\ \A i \in DOMAIN a : a[i].state = "pending" => \E s \in S : s.cid = a[i].id /\ s.waiting
        /\ \A i \in DOMAIN b : b[i].state = "pending" => \E s \in S : s.cid = b[i].id /\ s.waiting
    BY DEF LineOK, Awaited
  <2> QED
    BY <1>3, <2>1 DEF Awaited
<1> QED
  BY <1>2, <1>4, <1>5, <1>6 DEF LineOK, c

LEMMA FreshIs ==
    ASSUME NEW tl, NEW page, NEW l, NEW u, NEW S, NEW X, LineOK(tl, l, u, S), PageOK(page, l, X),
           l \in Seq(Message)
    PROVE  /\ PageOK(Fresh(tl, page), l, X)
           /\ \A i \in DOMAIN Fresh(tl, page) : \A j \in DOMAIN tl : Fresh(tl, page)[i].id # tl[j].id
<1> DEFINE I == {i \in DOMAIN page : page[i].id \notin Ids(tl)}
           q == Picked(page, I)
<1>1. page \in Seq(EntryType) /\ Len(page) \in Nat /\ DOMAIN page = 1..Len(page)
  BY DEF PageOK
<1>2. I \subseteq 1..Len(page) /\ \A i \in I : page[i] \in EntryType
  BY <1>1
<1>3. Fresh(tl, page) = q
  BY DEF Fresh
<1> HIDE DEF I
<1>4. /\ q \in Seq(EntryType)
      /\ \A k \in DOMAIN q : Nth(I, k) \in I /\ q[k] = page[Nth(I, k)]
      /\ \A k, m \in DOMAIN q : k < m => Nth(I, k) < Nth(I, m)
  <2> HIDE DEF q
  <2>1. Len(page) \in Nat /\ I \subseteq 1..Len(page) /\ \A i \in I : page[i] \in EntryType
    BY <1>1, <1>2
  <2>2. Picked(page, I) \in Seq(EntryType) /\ Picks(Picked(page, I), page, I)
    BY <2>1, PickedKeeps, Zenon
  <2> QED
    BY <2>2, Zenon DEF q, Picks
<1> HIDE DEF q
<1>5. \A i \in DOMAIN q : StoredEntry(q[i], l)
  BY <1>1, <1>2, <1>4 DEF PageOK
<1>6. Once(q, X)
  <2> SUFFICES ASSUME NEW i \in DOMAIN q, NEW j \in DOMAIN q, i # j, q[i].id = q[j].id
               PROVE  q[i].id \in X
    BY DEF Once
  <2>1. i < j \/ j < i
    <3>1. q \in Seq(EntryType)
      BY <1>4
    <3>2. i \in 1..Len(q) /\ j \in 1..Len(q) /\ Len(q) \in Nat
      BY <3>1
    <3> QED
      BY <3>2
  <2>2. Nth(I, i) \in DOMAIN page /\ Nth(I, j) \in DOMAIN page /\ Nth(I, i) # Nth(I, j)
    <3>1. Nth(I, i) \in 1..Len(page) /\ Nth(I, j) \in 1..Len(page)
      BY <1>2, <1>4
    <3>2. Nth(I, i) < Nth(I, j) \/ Nth(I, j) < Nth(I, i)
      BY <1>4, <2>1
    <3> QED
      BY <1>1, <3>1, <3>2
  <2> QED
    BY <1>4, <2>2 DEF PageOK, Once
<1>7. \A i \in DOMAIN q : \A j \in DOMAIN tl : q[i].id # tl[j].id
  <2> SUFFICES ASSUME NEW i \in DOMAIN q, NEW j \in DOMAIN tl, q[i].id = tl[j].id
               PROVE  FALSE
    OBVIOUS
  <2>1. q[i].id \notin Ids(tl)
    BY <1>4 DEF I
  <2>2. q[i].id \in Nat
    BY <1>5 DEF StoredEntry
  <2> QED
    BY <2>1, <2>2 DEF Ids
<1> QED
  BY <1>3, <1>4, <1>5, <1>6, <1>7 DEF PageOK

LEMMA RefreshedLine ==
    ASSUME NEW tl, NEW page, NEW l, NEW u, NEW S, NEW X, LineOK(tl, l, u, S), PageOK(page, l, X)
    PROVE  /\ LineOK(Refreshed(tl, page), l, u, S)
           /\ DOMAIN Refreshed(tl, page) = DOMAIN tl
           /\ \A i \in DOMAIN tl : Refreshed(tl, page)[i].id = tl[i].id
<1> DEFINE N(i) == {j \in DOMAIN page : page[j].id = tl[i].id /\ page[j].rank >= tl[i].rank}
           new == Refreshed(tl, page)
<1>1. tl \in Seq(EntryType) /\ DOMAIN new = DOMAIN tl
  BY DEF LineOK, Refreshed
<1>2. \A i \in DOMAIN tl : new[i] = tl[i] \/ \E j \in DOMAIN page : page[j].id = tl[i].id /\ new[i] = page[j]
  <2> SUFFICES ASSUME NEW i \in DOMAIN tl, new[i] # tl[i]
               PROVE  \E j \in DOMAIN page : page[j].id = tl[i].id /\ new[i] = page[j]
    OBVIOUS
  <2>1. new[i] = IF tl[i].id > 0 /\ N(i) # {} THEN page[CHOOSE j \in N(i) : TRUE] ELSE tl[i]
    BY DEF Refreshed
  <2>2. N(i) # {} /\ new[i] = page[CHOOSE j \in N(i) : TRUE]
    BY <2>1
  <2> QED
    BY <2>2
<1>3. \A j \in DOMAIN page : StoredEntry(page[j], l) /\ page[j] \in EntryType /\ page[j].state = "sent"
  BY DEF PageOK, StoredEntry
<1>4. new = [i \in 1..Len(tl) |-> new[i]]
  BY <1>1 DEF Refreshed
<1> HIDE DEF new, N
<1>5. new \in Seq(EntryType)
  <2>1. \A i \in 1..Len(tl) : new[i] \in EntryType
    BY <1>1, <1>2, <1>3
  <2>2. Len(tl) \in Nat
    BY <1>1
  <2> QED
    BY <1>4, <2>1, <2>2
<1>6. \A i \in DOMAIN tl : new[i].id = tl[i].id
  BY <1>2
<1>7. \A i \in DOMAIN tl : StoredEntry(new[i], l) \/ UnsentEntry(new[i], u)
  BY <1>2, <1>3 DEF LineOK
<1>8. Once(new, Excused(l))
  BY <1>1, <1>6 DEF LineOK, Once
<1>9. Awaited(new, S)
  <2>1. \A i \in DOMAIN tl : tl[i].state = "pending" => \E s \in S : s.cid = tl[i].id /\ s.waiting
    BY DEF LineOK, Awaited
  <2>2. \A i \in DOMAIN tl : new[i].state = "pending" => new[i] = tl[i]
    BY <1>2, <1>3
  <2> QED
    BY <1>1, <2>1, <2>2 DEF Awaited
<1> QED
  BY <1>1, <1>5, <1>6, <1>7, <1>8, <1>9 DEF LineOK, new

LEMMA MergedLine ==
    ASSUME NEW tl, NEW page, NEW l, NEW u, NEW S, NEW X, LineOK(tl, l, u, S), PageOK(page, l, X),
           X \subseteq Excused(l), l \in Seq(Message)
    PROVE  /\ LineOK(MergeOlder(page, tl), l, u, S)
           /\ LineOK(MergeNewer(tl, page), l, u, S)
<1> DEFINE new == Fresh(tl, page)
           old == Refreshed(tl, page)
<1>1. PageOK(new, l, X) /\ \A i \in DOMAIN new : \A j \in DOMAIN tl : new[i].id # tl[j].id
  BY FreshIs
<1>2. LineOK(new, l, u, S)
  BY <1>1, PageIsLine
<1>3. /\ LineOK(old, l, u, S) /\ DOMAIN old = DOMAIN tl
      /\ \A j \in DOMAIN tl : old[j].id = tl[j].id
  BY RefreshedLine
<1> HIDE DEF new, old
<1>4. \A i \in DOMAIN new : \A j \in DOMAIN old : new[i].id # old[j].id /\ old[j].id # new[i].id
  BY <1>1, <1>3
<1>5. LineOK(new \o old, l, u, S) /\ LineOK(old \o new, l, u, S)
  BY <1>2, <1>3, <1>4, JoinedLine
<1>6. LineOK(Sorted(new \o old), l, u, S) /\ LineOK(Sorted(old \o new), l, u, S)
  BY <1>5, SortedLine
<1> QED
  BY <1>6, TrimmedLine, BoundsAre DEF MergeOlder, MergeNewer, new, old

\* An entry for every message of the same number: the same message, or none.
LEMMA RenewedLine ==
    ASSUME NEW tl, NEW n, NEW e, NEW l, NEW u, NEW S, LineOK(tl, l, u, S), StoredEntry(e, l),
           n = e.id \/ (e.id \in Excused(l) /\ n < 0),
           NEW W, \A s \in W : s.cid = n
    PROVE  LineOK([i \in DOMAIN tl |-> IF tl[i].id = n THEN e ELSE tl[i]], l, u, S \ W)
<1> DEFINE new == [i \in DOMAIN tl |-> IF tl[i].id = n THEN e ELSE tl[i]]
<1>1. tl \in Seq(EntryType) /\ Len(tl) \in Nat /\ DOMAIN tl = 1..Len(tl) /\ DOMAIN new = DOMAIN tl
  BY DEF LineOK
<1>2. e \in EntryType /\ e.state = "sent"
  BY DEF StoredEntry
<1>3. new \in Seq(EntryType)
  <2>1. new = [i \in 1..Len(tl) |-> new[i]] /\ \A i \in 1..Len(tl) : new[i] \in EntryType
    BY <1>1, <1>2
  <2> HIDE DEF new
  <2> QED
    BY <1>1, <2>1
<1>4. \A i \in DOMAIN tl : \/ tl[i].id = n /\ new[i] = e
                           \/ tl[i].id # n /\ new[i] = tl[i]
  OBVIOUS
<1> HIDE DEF new
<1>5. \A i \in DOMAIN tl : StoredEntry(new[i], l) \/ UnsentEntry(new[i], u)
  BY <1>4 DEF LineOK
<1>6. Once(new, Excused(l))
  <2> SUFFICES ASSUME NEW i \in DOMAIN tl, NEW j \in DOMAIN tl, i # j, new[i].id = new[j].id,
                      new[i].id \notin Excused(l)
               PROVE  FALSE
    BY <1>1 DEF Once
  <2>1. Once(tl, Excused(l))
    BY DEF LineOK
  <2>2. \A k \in DOMAIN tl : tl[k].id = n => n = e.id \/ e.id \in Excused(l)
    OBVIOUS
  <2>3. tl[i].id = tl[j].id \/ e.id \in Excused(l)
    BY <1>4
  <2>4. CASE tl[i].id = tl[j].id /\ e.id \notin Excused(l)
    BY <1>4, <2>1, <2>4 DEF Once
  <2>5. CASE e.id \in Excused(l)
    BY <1>4, <2>1, <2>5 DEF Once
  <2> QED
    BY <2>3, <2>4, <2>5
<1>7. Awaited(new, S \ W)
  <2>1. \A i \in DOMAIN tl : tl[i].state = "pending" => \E s \in S : s.cid = tl[i].id /\ s.waiting
    BY DEF LineOK, Awaited
  <2>2. \A i \in DOMAIN tl : new[i].state = "pending" => new[i] = tl[i] /\ tl[i].id # n
    BY <1>2, <1>4
  <2>3. \A i \in DOMAIN tl : new[i].state = "pending"
            => \E s \in S : s.cid = tl[i].id /\ s.waiting /\ s \notin W
    BY <2>1, <2>2
  <2> QED
    BY <1>1, <2>2, <2>3 DEF Awaited
<1> QED
  BY <1>1, <1>3, <1>5, <1>6, <1>7 DEF LineOK, new

LEMMA AppendedLine ==
    ASSUME NEW tl, NEW e, NEW keep, NEW l, NEW u, NEW S, LineOK(tl, l, u, S), StoredEntry(e, l),
           l \in Seq(Message)
    PROVE  LineOK(AppendTimeline(tl, e, keep), l, u, S)
<1>0. e.id \in Nat /\ RenderLimit \in Nat
  BY TimelineAssumption DEF StoredEntry, TimelineAssumption
<1>1. CASE e.id \in Ids(tl)
  <2>1. LineOK([i \in DOMAIN tl |-> IF tl[i].id = e.id THEN e ELSE tl[i]], l, u, S \ {})
    BY RenewedLine
  <2>2. S \ {} = S
    OBVIOUS
  <2> QED
    BY <1>1, <2>1, <2>2, Zenon DEF AppendTimeline
<1>2. CASE e.id \notin Ids(tl)
  <2> DEFINE q == <<e>>
  <2>1. /\ q \in Seq(EntryType) /\ DOMAIN q = {1} /\ q[1] = e
    BY DEF StoredEntry
  <2> HIDE DEF q
  <2>2. PageOK(q, l, {})
    BY <2>1 DEF PageOK, Once
  <2>3. LineOK(q, l, u, S)
    BY <2>2, PageIsLine
  <2>4. \A i \in DOMAIN tl : \A j \in DOMAIN q : tl[i].id # q[j].id
    BY <1>0, <1>2, <2>1 DEF Ids
  <2>5. LineOK(tl \o q, l, u, S)
    BY <2>3, <2>4, JoinedLine
  <2>6. Append(tl, e) = tl \o q
    <3>1. tl \in Seq(EntryType) /\ e \in EntryType
      BY DEF LineOK, StoredEntry
    <3> QED
      BY <3>1, AppendIsConcat DEF q
  <2>7. LineOK(Sorted(Append(tl, e)), l, u, S)
    BY <2>5, <2>6, SortedLine
  <2> QED
    BY <1>0, <1>2, <2>7, TrimmedLine DEF AppendTimeline
<1> QED
  BY <1>1, <1>2

-----------------------------------------------------------------------------
(* Frames, and the hydration they start and cancel.                        *)

ClientRecord ==
    [tl : Seq(EntryType), rev : Nat, hyd : Hydration, torn : BOOLEAN, lag : BOOLEAN]

ClientOK(c, l, u, S) ==
    /\ c \in ClientRecord
    /\ LineOK(c.tl, l, u, S) /\ HydrationOK(c.hyd, l)

LEMMA NothingIsOK ==
    /\ \A l, X : PageOK(<<>>, l, X)
    /\ \A l, u, S : LineOK(<<>>, l, u, S)
<1>1. <<>> \in Seq(EntryType) /\ DOMAIN <<>> = {}
  OBVIOUS
<1> QED
  BY <1>1 DEF PageOK, LineOK, Once, Awaited

LEMMA RequestOK ==
    ASSUME NEW h \in Hydration, NEW before \in Nat \cup {None}, NEW got, NEW l, PageOK(got, l, {}),
           before = None => got = <<>>,
           before # None => \A i \in DOMAIN got : before <= got[i].id
    PROVE  HydrationOK(Request(h, before, got), l)
<1>1. PageOK(<<>>, l, {}) /\ <<>> \in Seq(EntryType) /\ DOMAIN <<>> = {}
  BY NothingIsOK DEF PageOK
<1>2. got \in Seq(EntryType)
  BY DEF PageOK
<1> DEFINE r == Request(h, before, got)
<1>3. /\ r \in Hydration /\ r.busy /\ r.stage = "sent"
      /\ r.before = before /\ r.got = got /\ r.page = <<>>
  BY <1>1, <1>2 DEF Request, Hydration
<1> HIDE DEF r
<1>4. HydrationOK(r, l)
  BY <1>1, <1>3 DEF HydrationOK
<1> QED
  BY <1>4 DEF r

LEMMA HydrateOK ==
    ASSUME NEW h, NEW l, HydrationOK(h, l)
    PROVE  HydrationOK(Hydrate(h), l)
<1>1. h \in Hydration
  BY DEF HydrationOK
<1>2. CASE h.done
  BY <1>2 DEF Hydrate
<1>3. CASE ~h.done /\ h.busy
  <2>1. Hydrate(h) = [h EXCEPT !.retry = TRUE]
    BY <1>3 DEF Hydrate
  <2>2. /\ Hydrate(h) \in Hydration
        /\ Hydrate(h).busy = h.busy /\ Hydrate(h).stage = h.stage /\ Hydrate(h).got = h.got
        /\ Hydrate(h).page = h.page /\ Hydrate(h).before = h.before
    BY <1>1, <2>1 DEF Hydration
  <2> QED
    BY <2>2 DEF HydrationOK
<1>4. CASE ~h.done /\ ~h.busy
  <2>1. PageOK(<<>>, l, {})
    BY NothingIsOK
  <2>2. HydrationOK(Request(h, None, <<>>), l)
    BY <1>1, <2>1, RequestOK
  <2> QED
    BY <1>4, <2>2 DEF Hydrate
<1> QED
  BY <1>2, <1>3, <1>4

LEMMA FreeOK ==
    ASSUME NEW l, NEW done \in BOOLEAN
    PROVE  HydrationOK([NoHydration EXCEPT !.done = done], l)
<1>1. PageOK(<<>>, l, {}) /\ <<>> \in Seq(EntryType) /\ DOMAIN <<>> = {}
  BY NothingIsOK DEF PageOK
<1> QED
  BY <1>1 DEF NoHydration, HydrationOK, Hydration

LEMMA NoHydrationOK ==
    ASSUME NEW l
    PROVE  HydrationOK(NoHydration, l)
<1>1. PageOK(<<>>, l, {}) /\ <<>> \in Seq(EntryType) /\ DOMAIN <<>> = {}
  BY NothingIsOK DEF PageOK
<1> QED
  BY <1>1 DEF NoHydration, HydrationOK, Hydration

LEMMA HydrationEndsOK ==
    ASSUME NEW h, NEW done \in BOOLEAN, NEW l
    PROVE  HydrationOK(HydrationEnds(h, done), l)
BY FreeOK, HydrateOK DEF HydrationEnds

LEMMA FrameKeepsClient ==
    ASSUME NEW c, NEW f, NEW l, NEW u, NEW S, ClientOK(c, l, u, S), FrameOK(f, l, u), f.type # "reply",
           l \in Seq(Message), Len(l) <= MaxLog
    PROVE  ClientOK(ApplyFrame(c, f), l, u, S)
<1>1. c \in ClientRecord
  BY DEF ClientOK
<1>2. CASE f.type = "message"
  <2>1. f \in [type : {"message"}, id : Nat, rank : Ranks] /\ f.id \in DOMAIN l /\ f.rank <= l[f.id].rank
    BY <1>2 DEF FrameOK, Frame
  <2>2. f.id \in 1..MaxLog /\ f.rank \in Ranks /\ MaxLog \in Nat /\ MaxSteps \in Nat
    <3>1. Len(l) \in Nat /\ DOMAIN l = 1..Len(l)
      OBVIOUS
    <3> QED
      BY <2>1, <3>1, TimelineAssumption DEF TimelineAssumption
  <2>3. StoredEntry(Entry(f), l)
    BY <2>1, <2>2 DEF StoredEntry, Entry, EntryType
  <2>4. CASE ~Open(c.rev)
    <3> DEFINE g == c.lag \/ Missed(c.tl, f)
    <3>1. ApplyFrame(c, f) = [c EXCEPT !.lag = g]
      BY <1>2, <2>4 DEF ApplyFrame, ApplyMessage
    <3>2. g \in BOOLEAN
      BY <1>1 DEF Missed, ClientRecord
    <3> HIDE DEF g
    <3>3. /\ ApplyFrame(c, f) \in ClientRecord
          /\ ApplyFrame(c, f).tl = c.tl /\ ApplyFrame(c, f).hyd = c.hyd
      BY <1>1, <3>1, <3>2 DEF ClientRecord
    <3> QED
      BY <3>3 DEF ClientOK
  <2>5. CASE Open(c.rev)
    <3> DEFINE tl == AppendTimeline(c.tl, Entry(f), reading \/ kind = "direct")
               t == c.torn \/ Tears(<<Entry(f)>>, c.tl)
    <3>1. LineOK(tl, l, u, S)
      BY <2>3, AppendedLine DEF ClientOK
    <3>2. ApplyFrame(c, f) = [c EXCEPT !.tl = tl, !.torn = t]
      BY <1>2, <2>5 DEF ApplyFrame, ApplyMessage
    <3>3. t \in BOOLEAN
      BY <1>1 DEF Tears, ClientRecord
    <3> HIDE DEF tl, t
    <3>4. tl \in Seq(EntryType)
      BY <3>1 DEF LineOK
    <3>5. /\ ApplyFrame(c, f) \in ClientRecord
          /\ ApplyFrame(c, f).tl = tl /\ ApplyFrame(c, f).hyd = c.hyd
      BY <1>1, <3>2, <3>3, <3>4 DEF ClientRecord
    <3> QED
      BY <3>1, <3>5 DEF ClientOK
  <2> QED
    BY <2>4, <2>5
<1>3. CASE f.type = "thread"
  <2>1. f.rev \in Nat
    BY <1>3 DEF FrameOK, Frame
  <2>2. ApplyFrame(c, f) = ApplyThread(c, f)
    BY <1>3 DEF ApplyFrame
  <2>3. CASE f.rev <= c.rev
    BY <1>1, <2>1, <2>2, <2>3 DEF ApplyThread, ClientRecord
  <2>4. CASE f.rev > c.rev /\ Open(f.rev)
    <3>1. ~(f.rev <= c.rev)
      BY <1>1, <2>1, <2>4 DEF ClientRecord
    <3>2. ApplyThread(c, f) = [c EXCEPT !.rev = f.rev, !.hyd = Hydrate(@)]
      BY <2>4, <3>1 DEF ApplyThread
    <3>3. HydrationOK(Hydrate(c.hyd), l)
      BY HydrateOK DEF ClientOK
    <3>4. Hydrate(c.hyd) \in Hydration
      BY <3>3 DEF HydrationOK
    <3>5. /\ ApplyFrame(c, f) \in ClientRecord
          /\ ApplyFrame(c, f).tl = c.tl /\ ApplyFrame(c, f).hyd = Hydrate(c.hyd)
      BY <1>1, <2>1, <2>2, <3>2, <3>4 DEF ClientRecord
    <3> QED
      BY <3>3, <3>5 DEF ClientOK
  <2>5. CASE f.rev > c.rev /\ ~Open(f.rev)
    <3>1. ~(f.rev <= c.rev)
      BY <1>1, <2>1, <2>5 DEF ClientRecord
    <3>2. ApplyThread(c, f) = [tl |-> <<>>, rev |-> f.rev, hyd |-> NoHydration, torn |-> FALSE, lag |-> FALSE]
      BY <2>5, <3>1 DEF ApplyThread
    <3>3. HydrationOK(NoHydration, l) /\ LineOK(<<>>, l, u, S)
      BY NoHydrationOK, NothingIsOK
    <3>4. NoHydration \in Hydration /\ <<>> \in Seq(EntryType)
      BY <3>3 DEF HydrationOK
    <3>5. ApplyFrame(c, f) \in ClientRecord
      BY <2>1, <2>2, <3>2, <3>4 DEF ClientRecord
    <3> QED
      BY <2>2, <3>2, <3>3, <3>5 DEF ClientOK
  <2> QED
    BY <1>1, <2>1, <2>3, <2>4, <2>5 DEF ClientRecord
<1>4. f.type \in {"message", "thread", "reply"}
  BY DEF FrameOK, Frame
<1> QED
  BY <1>2, <1>3, <1>4

\* Frames applied one after another: what each of them keeps, all keep.
\* (That the recursive function exists at all is proved by the least number
\* up to which there would be none.)
LEMMA FramesKeep ==
    ASSUME NEW U, NEW q, Len(q) \in Nat, NEW G \in [0..Len(q) -> SUBSET U], NEW c \in G[0],
           \A i \in 1..Len(q) : \A v \in G[i - 1] : ApplyFrame(v, q[i].frame) \in G[i]
    PROVE  ApplyFrames(c, q) \in G[Len(q)]
<1> DEFINE N == Len(q)
           Step(v, i) == ApplyFrame(v, q[i].frame)
           Run(n, r) == r \in [0..n -> U] /\ r[0] = c /\ (\A i \in 0..n : r[i] \in G[i])
                        /\ \A i \in 1..n : r[i] = Step(r[i - 1], i)
           Body(f) == [n \in 0..N |-> IF n = 0 THEN c ELSE Step(f[n - 1], n)]
           after == CHOOSE f : f = Body(f)
<1>0. /\ N \in Nat /\ G \in [0..N -> SUBSET U] /\ c \in G[0]
      /\ \A i \in 1..N : \A v \in G[i - 1] : Step(v, i) \in G[i]
  OBVIOUS
<1>1. ApplyFrames(c, q) = after[N]
  BY DEF ApplyFrames
<1> HIDE DEF N, Step
<1>2. \E r : Run(N, r)
  <2> DEFINE Bad == {n \in 0..N : ~ \E r : Run(n, r)}
  <2>1. CASE Bad = {}
    <3>1. N \in 0..N
      BY <1>0
    <3> HIDE DEF Run
    <3>2. N \notin Bad
      <4> HIDE DEF Bad
      <4> QED
        BY <2>1
    <3> QED
      BY <3>1, <3>2, Zenon
  <2>2. CASE Bad # {}
    <3>1. PICK n \in Bad : \A m \in Bad : n <= m
      <4>1. Bad \subseteq Nat
        BY <1>0
      <4> HIDE DEF Bad
      <4> QED
        BY <2>2, <4>1, LeastNumber
    <3>2. Run(0, [i \in 0..0 |-> c])
      BY <1>0
    <3>3. n \in 1..N /\ n - 1 \in 0..N /\ n - 1 \notin Bad
      <4> HIDE DEF Run
      <4>1. n # 0
        BY <3>1, <3>2
      <4> QED
        BY <1>0, <3>1, <4>1
    <3>4. PICK r : Run(n - 1, r)
      BY <3>3
    <3> DEFINE s == [i \in 0..n |-> IF i = n THEN Step(r[n - 1], n) ELSE r[i]]
    <3>5. r[n - 1] \in G[n - 1] /\ Step(r[n - 1], n) \in G[n] /\ Step(r[n - 1], n) \in U
      <4>1. r[n - 1] \in G[n - 1]
        BY <3>3, <3>4
      <4>2. Step(r[n - 1], n) \in G[n]
        BY <1>0, <3>3, <4>1
      <4> QED
        BY <1>0, <3>3, <4>1, <4>2
    <3>6. s \in [0..n -> U] /\ s[0] = c /\ \A i \in 0..n : s[i] \in G[i]
      BY <3>3, <3>4, <3>5
    <3>7. \A i \in 1..n : s[i] = Step(s[i - 1], i)
      <4> SUFFICES ASSUME NEW i \in 1..n
                   PROVE  s[i] = Step(s[i - 1], i)
        OBVIOUS
      <4>1. s[i - 1] = r[i - 1]
        BY <3>3
      <4>2. CASE i = n
        BY <3>3, <4>1, <4>2
      <4>3. CASE i # n
        <5>1. s[i] = r[i] /\ i \in 1..(n - 1)
          BY <3>3, <4>3
        <5> QED
          BY <3>4, <4>1, <5>1
      <4> QED
        BY <4>2, <4>3
    <3> HIDE DEF s
    <3>8. Run(n, s)
      BY <3>6, <3>7
    <3> QED
      BY <3>1, <3>8
  <2> QED
    BY <2>1, <2>2
<1>3. PICK r : Run(N, r)
  BY <1>2
<1>4. r = Body(r)
  BY <1>0, <1>3
<1>5. after = Body(after)
  <2> HIDE DEF Body
  <2> QED
    BY <1>4
<1> HIDE DEF after
<1>6. \A n \in 0..N : after[n] \in G[n]
  <2> DEFINE Bad == {n \in 0..N : after[n] \notin G[n]}
  <2>1. CASE Bad # {}
    <3>1. PICK n \in Bad : \A m \in Bad : n <= m
      <4>1. Bad \subseteq Nat
        BY <1>0
      <4> HIDE DEF Bad
      <4> QED
        BY <2>1, <4>1, LeastNumber
    <3>2. n \in 0..N /\ after[n] \notin G[n]
      BY <3>1
    <3>3. n # 0
      BY <1>0, <1>5, <3>2
    <3>4. n - 1 \in 0..N /\ after[n - 1] \in G[n - 1]
      BY <1>0, <3>1, <3>2, <3>3
    <3>5. after[n] = Step(after[n - 1], n) /\ n \in 1..N
      BY <1>0, <1>5, <3>2, <3>3
    <3> QED
      BY <1>0, <3>2, <3>4, <3>5
  <2> QED
    BY <2>1
<1> QED
  BY <1>0, <1>1, <1>6

LEMMA QueueKeepsClient ==
    ASSUME NEW c, NEW q, NEW l, NEW u, NEW S, ClientOK(c, l, u, S), QueueOK(q, l, u),
           l \in Seq(Message), Len(l) <= MaxLog
    PROVE  ClientOK(ApplyFrames(c, q), l, u, S)
<1> DEFINE K == {v \in ClientRecord : ClientOK(v, l, u, S)}
           G == [i \in 0..Len(q) |-> K]
<1>1. q \in Seq(Held) /\ Len(q) \in Nat /\ DOMAIN q = 1..Len(q)
  BY DEF QueueOK
<1>2. \A v : v \in K <=> ClientOK(v, l, u, S)
  BY DEF ClientOK
<1>3. \A i \in 1..Len(q) : \A v \in K : ApplyFrame(v, q[i].frame) \in K
  <2> SUFFICES ASSUME NEW v, ClientOK(v, l, u, S), NEW i \in 1..Len(q)
               PROVE  ClientOK(ApplyFrame(v, q[i].frame), l, u, S)
    BY <1>2
  <2>1. FrameOK(q[i].frame, l, u) /\ q[i].frame.type # "reply"
    BY <1>1 DEF QueueOK
  <2> QED
    BY <2>1, FrameKeepsClient
<1>4. c \in K /\ \A i \in 0..Len(q) : G[i] = K
  BY <1>2
<1>5. G \in [0..Len(q) -> SUBSET K] /\ \A i \in 1..Len(q) : i - 1 \in 0..Len(q) /\ i \in 0..Len(q)
  BY <1>1
<1>6. 0 \in 0..Len(q) /\ Len(q) \in 0..Len(q)
  BY <1>1
<1> HIDE DEF G, K
<1>7. \A i \in 1..Len(q) : \A v \in G[i - 1] : ApplyFrame(v, q[i].frame) \in G[i]
  BY <1>3, <1>4, <1>5
<1>8. c \in G[0] /\ G[Len(q)] = K
  BY <1>4, <1>6
<1>9. ApplyFrames(c, q) \in G[Len(q)]
  BY <1>1, <1>5, <1>7, <1>8, FramesKeep
<1> QED
  BY <1>2, <1>8, <1>9

-----------------------------------------------------------------------------
(* The server: pages of the log, and a log that grows.                     *)

LogOK(l) == l \in Seq(Message) /\ Len(l) <= MaxLog

LEMMA MessageFields ==
    ASSUME NEW l \in Seq(Message)
    PROVE  /\ Len(l) \in Nat /\ DOMAIN l = 1..Len(l)
           /\ \A n \in DOMAIN l : /\ l[n].rank \in Ranks /\ l[n].rank \in Int
                                 /\ l[n].own \in BOOLEAN /\ n \in Nat \ {0}
<1>1. Len(l) \in Nat /\ DOMAIN l = 1..Len(l)
  OBVIOUS
<1>2. \A n \in DOMAIN l : l[n] \in Message /\ n \in Nat \ {0}
  BY <1>1
<1>3. \A x \in Message : x.rank \in Ranks /\ x.own \in BOOLEAN
  BY DEF Message
<1>4. Ranks \subseteq Int
  BY DEF Ranks
<1> QED
  BY <1>1, <1>2, <1>3, <1>4

\* A page holds the messages asked for, each once and in their order.
LEMMA PageOfIs ==
    ASSUME LogOK(log), NEW I, I \subseteq DOMAIN log
    PROVE  /\ PageOK(PageOf(I), log, {})
           /\ \A k \in DOMAIN PageOf(I) : PageOf(I)[k].id \in I /\ PageOf(I)[k].rank = log[PageOf(I)[k].id].rank
           /\ \A k, m \in DOMAIN PageOf(I) : k < m => PageOf(I)[k].id < PageOf(I)[m].id
           /\ \A n \in I : \E k \in DOMAIN PageOf(I) : PageOf(I)[k].id = n
<1> DEFINE f == [n \in I |-> Stored_(n)]
           q == Picked(f, I)
<1>1. /\ log \in Seq(Message) /\ Len(log) \in Nat /\ DOMAIN log = 1..Len(log) /\ Len(log) <= MaxLog
      /\ MaxLog \in Nat /\ MaxSteps \in Nat
  BY TimelineAssumption DEF LogOK, TimelineAssumption
<1>2. \A n \in I : n \in 1..MaxLog /\ log[n].rank \in Ranks
  BY <1>1, MessageFields
<1>3. \A n \in I : /\ f[n] \in EntryType /\ f[n].id = n /\ f[n].at = n /\ f[n].state = "sent"
                   /\ f[n].rank = log[n].rank
  BY <1>1, <1>2 DEF Stored_, EntryType
<1>4. PageOf(I) = q
  BY DEF PageOf
<1> HIDE DEF f
<1>5. q \in Seq(EntryType) /\ Picks(q, f, I)
  <2> HIDE DEF q
  <2>1. I \subseteq 1..Len(log) /\ \A n \in I : f[n] \in EntryType
    BY <1>1, <1>3
  <2>2. Picked(f, I) \in Seq(EntryType) /\ Picks(Picked(f, I), f, I)
    BY <1>1, <2>1, PickedKeeps, Zenon
  <2> QED
    BY <2>2, Zenon DEF q
<1> HIDE DEF q
<1>6. \A k \in DOMAIN q : Nth(I, k) \in I /\ q[k] = f[Nth(I, k)]
  BY <1>5 DEF Picks
<1>7. \A k \in DOMAIN q : q[k].id = Nth(I, k)
  BY <1>3, <1>6
<1>8. \A k \in DOMAIN q : StoredEntry(q[k], log) /\ q[k].id \in I /\ q[k].rank = log[q[k].id].rank
  BY <1>2, <1>3, <1>6 DEF StoredEntry, Ranks
<1>9. \A k, m \in DOMAIN q : k < m => q[k].id < q[m].id
  BY <1>5, <1>7 DEF Picks
<1>10. Once(q, {})
  <2> SUFFICES ASSUME NEW k \in DOMAIN q, NEW m \in DOMAIN q, k # m, q[k].id = q[m].id
               PROVE  FALSE
    BY DEF Once
  <2>1. k < m \/ m < k
    BY <1>5 DEF Picks
  <2>2. q[k].id \in Int /\ q[m].id \in Int
    BY <1>2, <1>8
  <2> QED
    BY <1>9, <2>1, <2>2
<1>11. \A n \in I : \E k \in DOMAIN q : q[k].id = n
  BY <1>5, <1>7 DEF Picks
<1> QED
  BY <1>4, <1>5, <1>8, <1>9, <1>10, <1>11 DEF PageOK

\* Messages are added, statuses rise, and who sent a message does not change.
Grows(l, m) ==
    /\ l \in Seq(Message) /\ m \in Seq(Message) /\ DOMAIN l \subseteq DOMAIN m
    /\ \A n \in DOMAIN l : l[n].rank <= m[n].rank /\ (l[n].own => m[n].own)

LEMMA GrowsIs ==
    ASSUME NEW l, NEW m, Grows(l, m)
    PROVE  /\ Excused(l) \subseteq Excused(m) /\ Commands(l) \subseteq Commands(m)
           /\ \A e : StoredEntry(e, l) => StoredEntry(e, m)
<1>1. \A n \in DOMAIN l : /\ n \in DOMAIN m /\ l[n].rank \in Int /\ m[n].rank \in Int
                          /\ l[n].rank <= m[n].rank /\ (l[n].own => m[n].own)
  BY MessageFields DEF Grows
<1>2. \A e : e \in EntryType => e.rank \in Int
  BY DEF EntryType, Ranks
<1> QED
  BY <1>1, <1>2 DEF Excused, Commands, StoredEntry

LEMMA LaterParts ==
    ASSUME NEW l, NEW m, Grows(l, m), NEW u \in Nat, NEW v \in Nat, u <= v
    PROVE  /\ \A tl, S : LineOK(tl, l, u, S) => LineOK(tl, m, v, S)
           /\ \A q, X : PageOK(q, l, X) => PageOK(q, m, X)
           /\ \A f : FrameOK(f, l, u) => FrameOK(f, m, v)
           /\ \A S : SendsOK(S, u) => SendsOK(S, v)
<1>1. /\ Excused(l) \subseteq Excused(m) /\ Commands(l) \subseteq Commands(m)
      /\ \A e : StoredEntry(e, l) => StoredEntry(e, m)
  BY GrowsIs
<1>2. (-u)..(-1) \subseteq (-v)..(-1)
  OBVIOUS
<1>3. \A e : UnsentEntry(e, u) => UnsentEntry(e, v)
  BY <1>2 DEF UnsentEntry
<1>4. \A tl, S : LineOK(tl, l, u, S) => LineOK(tl, m, v, S)
  <2> SUFFICES ASSUME NEW tl, NEW S, LineOK(tl, l, u, S)
               PROVE  LineOK(tl, m, v, S)
    OBVIOUS
  <2>1. Once(tl, Excused(m))
    BY <1>1 DEF LineOK, Once
  <2> QED
    BY <1>1, <1>3, <2>1 DEF LineOK
<1>5. \A q, X : PageOK(q, l, X) => PageOK(q, m, X)
  BY <1>1 DEF PageOK
<1>6. \A f : FrameOK(f, l, u) => FrameOK(f, m, v)
  <2> SUFFICES ASSUME NEW f, FrameOK(f, l, u)
               PROVE  FrameOK(f, m, v)
    OBVIOUS
  <2>1. \A n \in DOMAIN l : /\ n \in DOMAIN m /\ l[n].rank \in Int /\ m[n].rank \in Int
                            /\ l[n].rank <= m[n].rank /\ (l[n].own => m[n].own)
    BY MessageFields DEF Grows
  <2>2. f.type = "message" => f.rank \in Int
    BY DEF FrameOK, Frame, Ranks
  <2>3. f.type # "thread" => f.id \in DOMAIN m
    BY <2>1 DEF FrameOK
  <2>4. f.type = "message" => f.rank <= m[f.id].rank
    BY <2>1, <2>2 DEF FrameOK
  <2>5. f.type = "reply" => m[f.id].own /\ f.cid \in (-v)..(-1)
    BY <1>2, <2>1 DEF FrameOK
  <2> QED
    BY <2>3, <2>4, <2>5 DEF FrameOK
<1>7. \A S : SendsOK(S, u) => SendsOK(S, v)
  BY <1>2 DEF SendsOK
<1> QED
  BY <1>4, <1>5, <1>6, <1>7

\* Every part of the invariant survives a longer log and more steps.
LEMMA LaterOK ==
    ASSUME NEW l, NEW m, Grows(l, m), NEW u \in Nat, NEW v \in Nat, u <= v, PartsOK(l, u)
    PROVE  PartsOK(m, v)
<1>1. LineOK(timeline, m, v, sends) /\ SendsOK(sends, v)
  BY LaterParts DEF PartsOK
<1>2. WireOK(wire, m, v) /\ QueueOK(queue, m, v)
  BY LaterParts DEF PartsOK, WireOK, QueueOK
<1>3. OlderOK(loadingOlder, m) /\ RefreshOK(refresh, m) /\ HydrationOK(hydration, m)
  BY LaterParts DEF PartsOK, OlderOK, RefreshOK, HydrationOK
<1>4. ReconOK(recon, m)
  <2>1. Commands(l) \subseteq Commands(m)
    BY GrowsIs
  <2>2. PageOK(recon.batch, m, Commands(m))
    <3>1. PageOK(recon.batch, m, Commands(l))
      BY LaterParts DEF PartsOK, ReconOK
    <3> QED
      BY <2>1, <3>1 DEF PageOK, Once
  <2> QED
    BY <2>1, <2>2 DEF PartsOK, ReconOK
<1> QED
  BY <1>1, <1>2, <1>3, <1>4 DEF PartsOK

-----------------------------------------------------------------------------
(* The invariant holds at the beginning.                                   *)

LEMMA TInvInit ==
    ASSUME Init
    PROVE  TInv
<1>1. /\ spent.steps = 0 /\ spent.drops = 0
      /\ spent \in [steps : 0..MaxSteps, drops : 0..MaxDrops]
  BY BoundsAre DEF Init
<1>2. log \in Seq(Message) /\ Len(log) <= MaxLog
  <2> DEFINE m == [rank |-> 0, own |-> FALSE]
  <2>1. log = [i \in 1..Stored |-> m] /\ m \in Message /\ Stored \in Nat
    BY BoundsAre DEF Init, Message, Ranks
  <2> HIDE DEF m
  <2>2. log \in Seq(Message) /\ Len(log) = Stored
    BY <2>1
  <2> QED
    BY <2>2, BoundsAre
<1>3. ServerOK
  BY <1>1, <1>2 DEF Init, ServerOK
<1>4. PageOK(timeline, log, {})
  <2>1. timeline = PageOf(Newest(BootPage, Len(log) + 1))
    BY DEF Init, Tail_
  <2>2. Newest(BootPage, Len(log) + 1) \subseteq DOMAIN log
    BY DEF Newest
  <2> QED
    BY <1>2, <2>1, <2>2, PageOfIs DEF LogOK
<1>5. LineOK(timeline, log, spent.steps, sends)
  BY <1>4, PageIsLine
<1>6. wire = <<>> /\ queue = <<>> /\ <<>> \in Seq(Frame) /\ <<>> \in Seq(Held) /\ DOMAIN <<>> = {}
  BY DEF Init
<1>7. WireOK(wire, log, spent.steps) /\ QueueOK(queue, log, spent.steps)
  BY <1>6 DEF WireOK, QueueOK
<1>8. PageOK(<<>>, log, {}) /\ PageOK(<<>>, log, Commands(log)) /\ <<>> \in Seq(EntryType)
  BY NothingIsOK DEF PageOK
<1>9. OlderOK(loadingOlder, log) /\ ReconOK(recon, log) /\ RefreshOK(refresh, log)
  BY <1>8 DEF Init, NoOlder, NoRecon, NoRefresh, OlderOK, ReconOK, RefreshOK
<1>10. HydrationOK(hydration, log) /\ SendsOK(sends, spent.steps)
  BY NoHydrationOK DEF Init, SendsOK
<1> QED
  BY <1>3, <1>5, <1>6, <1>7, <1>9, <1>10 DEF TInv, PartsOK

-----------------------------------------------------------------------------
(* What every step starts from.                                            *)

LEMMA SpendsIs ==
    ASSUME ServerOK, NEW n \in Nat, Spends(n)
    PROVE  /\ spent' \in [steps : 0..MaxSteps, drops : 0..MaxDrops]
           /\ spent'.steps = spent.steps + n /\ spent.steps \in Nat /\ spent'.steps \in Nat
<1>1. spent \in [steps : 0..MaxSteps, drops : 0..MaxDrops] /\ MaxSteps \in Nat
  BY BoundsAre DEF ServerOK
<1>2. spent.steps + n <= MaxSteps /\ spent' = [spent EXCEPT !.steps = @ + n]
  BY DEF Spends
<1>3. spent.steps \in Nat /\ spent.steps + n \in 0..MaxSteps
  BY <1>1, <1>2
<1> QED
  BY <1>1, <1>2, <1>3

LEMMA UnluckyIs ==
    ASSUME ServerOK, Unlucky
    PROVE  /\ spent' \in [steps : 0..MaxSteps, drops : 0..MaxDrops]
           /\ spent'.steps = spent.steps + 1 /\ spent.steps \in Nat /\ spent'.steps \in Nat
<1>1. spent \in [steps : 0..MaxSteps, drops : 0..MaxDrops] /\ MaxSteps \in Nat /\ MaxDrops \in Nat
  BY BoundsAre DEF ServerOK
<1>2. /\ spent.drops < MaxDrops /\ spent.steps < MaxSteps
      /\ spent' = [steps |-> spent.steps + 1, drops |-> spent.drops + 1]
  BY DEF Unlucky
<1>3. spent.steps \in Nat /\ spent.steps + 1 \in 0..MaxSteps /\ spent.drops + 1 \in 0..MaxDrops
  BY <1>1, <1>2
<1> QED
  BY <1>1, <1>2, <1>3

LEMMA StepsAre ==
    ASSUME ServerOK
    PROVE  spent.steps \in Nat /\ LogOK(log) /\ Grows(log, log)
<1>1. log \in Seq(Message)
  BY DEF ServerOK
<1>2. \A n \in DOMAIN log : log[n].rank <= log[n].rank
  BY <1>1, MessageFields
<1> QED
  BY <1>1, <1>2, BoundsAre DEF ServerOK, LogOK, Grows

\* The parts, at the counters of after the step.
LEMMA CountedOn ==
    ASSUME TInv, NEW v \in Nat, spent.steps <= v
    PROVE  PartsOK(log, v)
<1>1. ServerOK /\ PartsOK(log, spent.steps)
  BY DEF TInv
<1> QED
  BY <1>1, StepsAre, LaterOK

-----------------------------------------------------------------------------
(* Frames on the socket, and the server's steps.                           *)

LEMMA FramesAre ==
    ASSUME NEW f, NEW l, NEW u, FrameOK(f, l, u)
    PROVE  WireOK(Frames(f), l, u)
<1>1. <<f>> \in Seq(Frame) /\ DOMAIN <<f>> = {1} /\ <<f>>[1] = f
  BY DEF FrameOK
<1>2. <<>> \in Seq(Frame) /\ DOMAIN <<>> = {}
  OBVIOUS
<1>3. CASE link = "joined"
  BY <1>1, <1>3 DEF Frames, WireOK
<1>4. CASE link # "joined"
  BY <1>2, <1>4 DEF Frames, WireOK
<1> QED
  BY <1>3, <1>4

LEMMA WireJoined ==
    ASSUME NEW a, NEW b, NEW l, NEW u, WireOK(a, l, u), WireOK(b, l, u)
    PROVE  WireOK(a \o b, l, u)
<1>1. a \in Seq(Frame) /\ b \in Seq(Frame)
  BY DEF WireOK
<1> DEFINE c == a \o b
<1>2. /\ c \in Seq(Frame) /\ Len(c) = Len(a) + Len(b)
      /\ \A i \in 1..(Len(a) + Len(b)) : c[i] = IF i <= Len(a) THEN a[i] ELSE b[i - Len(a)]
  BY <1>1, ConcatProperties
<1> HIDE DEF c
<1>3. \A i \in DOMAIN c : \/ i \in DOMAIN a /\ c[i] = a[i]
                          \/ i - Len(a) \in DOMAIN b /\ c[i] = b[i - Len(a)]
  BY <1>1, <1>2
<1>4. \A i \in DOMAIN c : FrameOK(c[i], l, u)
  <2>1. (\A i \in DOMAIN a : FrameOK(a[i], l, u)) /\ (\A i \in DOMAIN b : FrameOK(b[i], l, u))
    BY DEF WireOK
  <2> QED
    BY <1>3, <2>1
<1> QED
  BY <1>2, <1>4 DEF WireOK, c

LEMMA WirePart ==
    ASSUME NEW a, NEW l, NEW u, WireOK(a, l, u), NEW i \in 1..(Len(a) + 1), NEW j \in 0..Len(a)
    PROVE  WireOK(SubSeq(a, i, j), l, u)
<1>1. a \in Seq(Frame) /\ Len(a) \in Nat /\ \A k \in 1..Len(a) : FrameOK(a[k], l, u) /\ a[k] \in Frame
  BY DEF WireOK
<1>2. i \in Int /\ j \in Int /\ \A k \in i..j : k \in 1..Len(a)
  BY <1>1
<1> DEFINE c == SubSeq(a, i, j)
<1>3. /\ c \in Seq(Frame) /\ Len(c) = IF i <= j THEN j - i + 1 ELSE 0
      /\ \A k \in 1..(j - i + 1) : c[k] = a[i + k - 1]
  BY <1>1, <1>2, SubSeqProperties
<1> HIDE DEF c
<1>4. \A k \in DOMAIN c : c[k] = a[i + k - 1] /\ i + k - 1 \in 1..Len(a)
  <2> SUFFICES ASSUME NEW k \in DOMAIN c
               PROVE  c[k] = a[i + k - 1] /\ i + k - 1 \in 1..Len(a)
    OBVIOUS
  <2>1. k \in 1..(j - i + 1) /\ k \in Int
    BY <1>2, <1>3
  <2>2. i + k - 1 \in i..j
    BY <1>2, <2>1
  <2> QED
    BY <1>2, <1>3, <2>1, <2>2
<1> QED
  BY <1>1, <1>3, <1>4 DEF WireOK, c

\* A message stored.
LEMMA LogAppended ==
    ASSUME LogOK(log), Len(log) < MaxLog, NEW x \in Message
    PROVE  /\ LogOK(Append(log, x)) /\ Grows(log, Append(log, x))
           /\ Len(log) + 1 \in DOMAIN Append(log, x) /\ Len(log) + 1 \in Nat
           /\ Append(log, x)[Len(log) + 1] = x
<1> DEFINE m == Append(log, x)
<1>1. log \in Seq(Message) /\ Len(log) \in Nat /\ DOMAIN log = 1..Len(log)
  BY DEF LogOK
<1>2. /\ m \in Seq(Message) /\ Len(m) = Len(log) + 1 /\ m[Len(log) + 1] = x
      /\ \A i \in 1..Len(log) : m[i] = log[i]
  BY <1>1, AppendProperties
<1> HIDE DEF m
<1>3. Len(m) <= MaxLog /\ DOMAIN m = 1..(Len(log) + 1)
  BY <1>1, <1>2, BoundsAre DEF LogOK
<1>4. Grows(log, m)
  <2>1. \A n \in DOMAIN log : log[n].rank <= log[n].rank
    BY <1>1, MessageFields
  <2> QED
    BY <1>1, <1>2, <1>3, <2>1 DEF Grows
<1> QED
  BY <1>1, <1>2, <1>3, <1>4 DEF LogOK, m

LEMMA PostInv ==
    ASSUME TInv, NEW rank \in {0, 1}, Post(rank)
    PROVE  TInv'
<1>1. ServerOK /\ PartsOK(log, spent.steps) /\ LogOK(log)
  BY StepsAre DEF TInv
<1>2. /\ spent' \in [steps : 0..MaxSteps, drops : 0..MaxDrops]
      /\ spent'.steps = spent.steps + 1 /\ spent.steps \in Nat /\ spent'.steps \in Nat
  BY <1>1, SpendsIs DEF Post
<1> DEFINE x == [rank |-> rank, own |-> FALSE]
<1>3. log' = Append(log, x) /\ Len(log) < MaxLog /\ x \in Message /\ x.rank = rank
  BY DEF Post, Message, Ranks
<1> HIDE DEF x
<1>4. /\ LogOK(log') /\ Grows(log, log') /\ Len(log) + 1 \in DOMAIN log' /\ Len(log) + 1 \in Nat
      /\ log'[Len(log) + 1] = x
  BY <1>1, <1>3, LogAppended
<1>5. PartsOK(log', spent'.steps)
  BY <1>1, <1>2, <1>4, LaterOK
<1>6. FrameOK(MessageFrame(Len(log) + 1, rank), log', spent'.steps)
  BY <1>3, <1>4 DEF FrameOK, Frame, MessageFrame, Ranks
<1>7. WireOK(wire', log', spent'.steps)
  BY <1>5, <1>6, FramesAre, WireJoined DEF Post, PartsOK
<1>8. PartsOK(log, spent.steps)'
  BY <1>5, <1>7 DEF Post, PartsOK, requests
<1>9. ServerOK'
  BY <1>1, <1>2, <1>4 DEF Post, ServerOK, LogOK, history
<1> QED
  BY <1>8, <1>9 DEF TInv, Post

LEMMA CommandProgressesInv ==
    ASSUME TInv, NEW n \in DOMAIN log, CommandProgresses(n)
    PROVE  TInv'
<1>1. ServerOK /\ PartsOK(log, spent.steps) /\ LogOK(log) /\ log \in Seq(Message)
  BY StepsAre DEF TInv, LogOK
<1>2. /\ spent' \in [steps : 0..MaxSteps, drops : 0..MaxDrops]
      /\ spent'.steps = spent.steps + 1 /\ spent.steps \in Nat /\ spent'.steps \in Nat
  BY <1>1, SpendsIs DEF CommandProgresses
<1> DEFINE x == [log[n] EXCEPT !.rank = @ + 1]
<1>3. log[n] \in Message /\ log[n].rank \in 1..2 /\ n \in 1..Len(log) /\ Len(log) \in Nat
  BY <1>1 DEF CommandProgresses
<1>4. x \in Message /\ x.rank = log[n].rank + 1 /\ x.own = log[n].own
  BY <1>3 DEF Message, Ranks
<1>5. log' = [log EXCEPT ![n] = x]
  BY DEF CommandProgresses
<1> HIDE DEF x
<1>6. /\ log' \in Seq(Message) /\ Len(log') = Len(log) /\ DOMAIN log' = DOMAIN log
      /\ \A i \in DOMAIN log : log'[i] = IF i = n THEN x ELSE log[i]
  BY <1>1, <1>3, <1>4, <1>5
<1>7. LogOK(log') /\ Grows(log, log')
  <2>1. \A i \in DOMAIN log : log[i].rank \in Int
    BY <1>1, MessageFields
  <2>2. \A i \in DOMAIN log : log[i].rank <= log'[i].rank /\ (log[i].own => log'[i].own)
    BY <1>4, <1>6, <2>1
  <2> QED
    BY <1>1, <1>6, <2>2 DEF LogOK, Grows
<1>8. PartsOK(log', spent'.steps)
  BY <1>1, <1>2, <1>7, LaterOK
<1>9. FrameOK(MessageFrame(n, log[n].rank + 1), log', spent'.steps)
  BY <1>3, <1>4, <1>6 DEF FrameOK, Frame, MessageFrame, Ranks
<1>10. WireOK(wire', log', spent'.steps)
  BY <1>8, <1>9, FramesAre, WireJoined DEF CommandProgresses, PartsOK
<1>11. PartsOK(log, spent.steps)'
  BY <1>8, <1>10 DEF CommandProgresses, PartsOK, requests
<1>12. ServerOK'
  BY <1>1, <1>2, <1>7 DEF CommandProgresses, ServerOK, LogOK, history
<1> QED
  BY <1>11, <1>12 DEF TInv, CommandProgresses

LEMMA ThreadChangesInv ==
    ASSUME TInv, ThreadChanges
    PROVE  TInv'
<1>1. ServerOK
  BY DEF TInv
<1>2. /\ spent' \in [steps : 0..MaxSteps, drops : 0..MaxDrops]
      /\ spent'.steps = spent.steps + 1 /\ spent.steps \in Nat /\ spent'.steps \in Nat
  BY <1>1, SpendsIs DEF ThreadChanges
<1>3. PartsOK(log, spent'.steps)
  BY <1>2, CountedOn
<1>4. FrameOK([type |-> "thread", rev |-> thread + 1], log, spent'.steps)
  BY <1>1 DEF ServerOK, FrameOK, Frame
<1>5. WireOK(wire', log, spent'.steps)
  BY <1>3, <1>4, FramesAre, WireJoined DEF ThreadChanges, PartsOK
<1>6. PartsOK(log, spent.steps)'
  BY <1>3, <1>5 DEF ThreadChanges, PartsOK, requests
<1>7. ServerOK'
  BY <1>1, <1>2 DEF ThreadChanges, ServerOK, history
<1> QED
  BY <1>6, <1>7 DEF TInv, ThreadChanges

-----------------------------------------------------------------------------
(* Hydration.                                                              *)

LEMMA JoinedPage ==
    ASSUME NEW a, NEW b, NEW l, NEW X, PageOK(a, l, X), PageOK(b, l, X),
           \A i \in DOMAIN a : \A j \in DOMAIN b : a[i].id = b[j].id => a[i].id \in X
    PROVE  /\ PageOK(a \o b, l, X)
           /\ Len(a \o b) = Len(a) + Len(b)
           /\ \A i \in DOMAIN (a \o b) : \/ i \in DOMAIN a /\ (a \o b)[i] = a[i]
                                         \/ /\ i \notin DOMAIN a /\ i - Len(a) \in DOMAIN b
                                            /\ (a \o b)[i] = b[i - Len(a)]
<1> DEFINE c == a \o b
<1>1. a \in Seq(EntryType) /\ b \in Seq(EntryType)
  BY DEF PageOK
<1>2. /\ c \in Seq(EntryType) /\ Len(c) = Len(a) + Len(b)
      /\ \A i \in 1..(Len(a) + Len(b)) : c[i] = IF i <= Len(a) THEN a[i] ELSE b[i - Len(a)]
  BY <1>1, ConcatProperties
<1> HIDE DEF c
<1>3. \A i \in DOMAIN c : \/ i \in DOMAIN a /\ c[i] = a[i]
                          \/ i \notin DOMAIN a /\ i - Len(a) \in DOMAIN b /\ c[i] = b[i - Len(a)]
  BY <1>1, <1>2
<1>4. \A i \in DOMAIN c : StoredEntry(c[i], l)
  <2>1. (\A i \in DOMAIN a : StoredEntry(a[i], l)) /\ (\A i \in DOMAIN b : StoredEntry(b[i], l))
    BY DEF PageOK
  <2> QED
    BY <1>3, <2>1
<1>5. Once(c, X)
  <2> SUFFICES ASSUME NEW i \in DOMAIN c, NEW j \in DOMAIN c, i # j, c[i].id = c[j].id
               PROVE  c[i].id \in X
    BY DEF Once
  <2>1. Once(a, X) /\ Once(b, X)
    BY DEF PageOK
  <2>2. CASE i \in DOMAIN a /\ j \in DOMAIN a
    <3>1. c[i] = a[i] /\ c[j] = a[j]
      BY <1>3, <2>2
    <3> QED
      BY <2>1, <2>2, <3>1 DEF Once
  <2>3. CASE i \notin DOMAIN a /\ j \notin DOMAIN a
    <3>1. /\ i - Len(a) \in DOMAIN b /\ c[i] = b[i - Len(a)]
          /\ j - Len(a) \in DOMAIN b /\ c[j] = b[j - Len(a)]
      BY <1>3, <2>3
    <3>2. i - Len(a) # j - Len(a)
      BY <1>1, <1>2
    <3> QED
      BY <2>1, <3>1, <3>2 DEF Once
  <2>4. CASE i \in DOMAIN a /\ j \notin DOMAIN a
    BY <1>3, <2>4
  <2>5. CASE i \notin DOMAIN a /\ j \in DOMAIN a
    <3>1. c[j] = a[j] /\ i - Len(a) \in DOMAIN b /\ c[i] = b[i - Len(a)]
      BY <1>3, <2>5
    <3> QED
      BY <2>5, <3>1
  <2> QED
    BY <2>2, <2>3, <2>4, <2>5
<1> QED
  BY <1>2, <1>3, <1>4, <1>5 DEF PageOK, c

LEMMA HydrationServedInv ==
    ASSUME TInv, HydrationServed
    PROVE  TInv'
<1>1. ServerOK /\ PartsOK(log, spent.steps) /\ LogOK(log)
  BY StepsAre DEF TInv
<1> DEFINE I == IF hydration.before = None THEN Newest(DirectPage, Len(log) + 1)
                ELSE Newest(DirectPage, hydration.before)
           q == PageOf(I)
<1>2. HydrationOK(hydration, log)
  BY <1>1 DEF PartsOK
<1>3. hydration \in Hydration /\ hydration.stage = "sent" /\ hydration.busy
  BY <1>2 DEF HydrationServed, HydrationOK
<1>4. hydration' = [hydration EXCEPT !.stage = "answered", !.page = q]
  BY DEF HydrationServed, Tail_
<1>5. I \subseteq DOMAIN log /\ (hydration.before # None => \A n \in I : n < hydration.before)
  BY DEF Newest
<1> HIDE DEF I
<1>6. /\ PageOK(q, log, {}) /\ \A k \in DOMAIN q : q[k].id \in I
      /\ \A k, m \in DOMAIN q : k < m => q[k].id < q[m].id
  BY <1>1, <1>5, PageOfIs
<1> HIDE DEF q
<1>7. q \in Seq(EntryType) /\ Len(q) \in Nat /\ DOMAIN q = 1..Len(q) /\ \A k \in DOMAIN q : q[k].id \in Int
  <2>1. q \in Seq(EntryType)
    BY <1>6 DEF PageOK
  <2>2. \A k \in DOMAIN q : q[k] \in EntryType
    BY <2>1
  <2> QED
    BY <2>1, <2>2, BoundsAre DEF EntryType
<1>8. \A k \in DOMAIN q : q[1].id <= q[k].id
  <2> SUFFICES ASSUME NEW k \in DOMAIN q
               PROVE  q[1].id <= q[k].id
    OBVIOUS
  <2>1. 1 \in DOMAIN q /\ (k = 1 \/ 1 < k)
    BY <1>7
  <2> QED
    BY <1>6, <1>7, <2>1
<1>9. /\ hydration' \in Hydration /\ hydration'.busy /\ hydration'.stage = "answered"
      /\ hydration'.got = hydration.got /\ hydration'.before = hydration.before
      /\ hydration'.page = q
  BY <1>3, <1>4, <1>7 DEF Hydration
<1>10. HydrationOK(hydration', log)
  BY <1>2, <1>5, <1>6, <1>8, <1>9 DEF HydrationOK
<1>11. PartsOK(log, spent.steps)'
  BY <1>1, <1>10 DEF PartsOK, HydrationServed, server
<1>12. ServerOK'
  BY <1>1 DEF ServerOK, HydrationServed, server, history
<1> QED
  BY <1>11, <1>12 DEF TInv, HydrationServed

LEMMA HydrationPageInv ==
    ASSUME TInv, HydrationPage
    PROVE  TInv'
<1>1. ServerOK /\ PartsOK(log, spent.steps) /\ LogOK(log)
  BY StepsAre DEF TInv
<1> DEFINE h == hydration
           got == h.page \o h.got
<1>2. HydrationOK(h, log) /\ LineOK(timeline, log, spent.steps, sends)
  BY <1>1 DEF PartsOK
<1>3. h \in Hydration /\ PageOK(h.page, log, {}) /\ PageOK(h.got, log, {})
  BY <1>2 DEF HydrationOK
<1>4. h.page \in Seq(EntryType) /\ h.got \in Seq(EntryType) /\ h.before \in Nat \cup {None}
  BY <1>3 DEF PageOK, Hydration
<1>5. /\ \A k \in DOMAIN h.page : h.page[k].id \in Nat
      /\ \A k \in DOMAIN h.got : h.got[k].id \in Nat
  <2>1. /\ \A k \in DOMAIN h.page : h.page[k].id \in DOMAIN log
        /\ \A k \in DOMAIN h.got : h.got[k].id \in DOMAIN log
    BY <1>3 DEF PageOK, StoredEntry
  <2>2. \A n \in DOMAIN log : n \in Nat
    BY <1>1, MessageFields DEF LogOK
  <2> QED
    BY <2>1, <2>2
<1>6. \A i \in DOMAIN h.page : \A j \in DOMAIN h.got : h.page[i].id < h.got[j].id
  <2> SUFFICES ASSUME NEW i \in DOMAIN h.page, NEW j \in DOMAIN h.got
               PROVE  h.page[i].id < h.got[j].id
    OBVIOUS
  <2>1. h.before # None
    BY <1>2 DEF HydrationOK
  <2>2. h.page[i].id < h.before /\ h.before <= h.got[j].id /\ h.before \in Nat
    BY <1>2, <1>4, <2>1 DEF HydrationOK
  <2> QED
    BY <1>5, <2>2
<1>7. \A i \in DOMAIN h.page : \A j \in DOMAIN h.got : h.page[i].id = h.got[j].id => h.page[i].id \in {}
  <2> SUFFICES ASSUME NEW i \in DOMAIN h.page, NEW j \in DOMAIN h.got
               PROVE  h.page[i].id # h.got[j].id
    OBVIOUS
  <2> QED
    BY <1>5, <1>6
<1>8. /\ PageOK(got, log, {})
      /\ \A i \in DOMAIN got : \/ i \in DOMAIN h.page /\ got[i] = h.page[i]
                               \/ i - Len(h.page) \in DOMAIN h.got /\ got[i] = h.got[i - Len(h.page)]
  <2> DEFINE a == h.page
             b == h.got
             none == {}
  <2>1. /\ PageOK(a, log, none) /\ PageOK(b, log, none)
        /\ \A i \in DOMAIN a : \A j \in DOMAIN b : a[i].id = b[j].id => a[i].id \in none
    BY <1>3, <1>7
  <2> HIDE DEF a, b, none
  <2>2. /\ PageOK(a \o b, log, none)
        /\ \A i \in DOMAIN (a \o b) : \/ i \in DOMAIN a /\ (a \o b)[i] = a[i]
                                      \/ i - Len(a) \in DOMAIN b /\ (a \o b)[i] = b[i - Len(a)]
    BY <2>1, JoinedPage
  <2> QED
    BY <2>2 DEF a, b, none
<1>9. ServerOK'
  <2>1. torn' \in BOOLEAN
    BY <1>1 DEF ServerOK, HydrationPage, Tears
  <2> QED
    BY <1>1, <2>1 DEF ServerOK, HydrationPage, server
<1>10. CASE Len(h.page) = DirectPage
  <2> DEFINE n == Head(h.page).id
  <2>1. hydration' = Request(h, n, got) /\ timeline' = timeline
    BY <1>10 DEF HydrationPage
  <2>2. h.page # <<>> /\ 1 \in DOMAIN h.page /\ n = h.page[1].id
    BY <1>4, <1>10, BoundsAre
  <2>3. n \in Nat /\ n # None
    BY <1>5, <2>2, BoundsAre
  <2>4. \A i \in DOMAIN h.page : n <= h.page[i].id
    BY <1>2, <2>2 DEF HydrationOK
  <2>5. \A i \in DOMAIN h.got : n <= h.got[i].id
    BY <1>5, <1>6, <2>2, <2>3
  <2> HIDE DEF n
  <2>6. \A i \in DOMAIN got : n <= got[i].id
    <3> HIDE DEF got
    <3> QED
      BY <1>8, <2>4, <2>5
  <2> HIDE DEF got
  <2>7. HydrationOK(hydration', log)
    BY <1>3, <1>8, <2>1, <2>3, <2>6, RequestOK
  <2>8. PartsOK(log, spent.steps)'
    BY <1>1, <2>1, <2>7 DEF PartsOK, HydrationPage, server
  <2> QED
    BY <1>9, <2>8 DEF TInv, HydrationPage
<1>11. CASE Len(h.page) # DirectPage
  <2>1. timeline' = MergeOlder(got, timeline) /\ hydration' = HydrationEnds(h, TRUE)
    BY <1>11 DEF HydrationPage
  <2>2. LineOK(timeline', log, spent.steps, sends)
    <3>1. {} \subseteq Excused(log) /\ log \in Seq(Message)
      BY <1>1 DEF LogOK
    <3> HIDE DEF got
    <3> QED
      BY <1>2, <1>8, <2>1, <3>1, MergedLine
  <2>3. HydrationOK(hydration', log)
    BY <2>1, HydrationEndsOK
  <2>4. PartsOK(log, spent.steps)'
    BY <1>1, <2>2, <2>3 DEF PartsOK, HydrationPage, server
  <2> QED
    BY <1>9, <2>4 DEF TInv, HydrationPage
<1> QED
  BY <1>10, <1>11

LEMMA HydrationFailsInv ==
    ASSUME TInv, HydrationFails
    PROVE  TInv'
<1>1. ServerOK
  BY DEF TInv
<1>2. /\ spent' \in [steps : 0..MaxSteps, drops : 0..MaxDrops]
      /\ spent'.steps = spent.steps + 1 /\ spent.steps \in Nat /\ spent'.steps \in Nat
  BY <1>1, UnluckyIs DEF HydrationFails
<1>3. PartsOK(log, spent'.steps)
  BY <1>2, CountedOn
<1>4. HydrationOK(hydration', log)
  BY HydrationEndsOK DEF HydrationFails
<1>5. PartsOK(log, spent.steps)'
  BY <1>3, <1>4 DEF PartsOK, HydrationFails, server
<1>6. ServerOK'
  BY <1>1, <1>2 DEF ServerOK, HydrationFails, server, history
<1> QED
  BY <1>5, <1>6 DEF TInv, HydrationFails

-----------------------------------------------------------------------------
(* Frames received, and those that waited for a refresh.                   *)

LEMMA HeadOK ==
    ASSUME NEW l, NEW u, WireOK(wire, l, u), wire # <<>>
    PROVE  FrameOK(Head(wire), l, u) /\ WireOK(Tail(wire), l, u)
<1>1. wire \in Seq(Frame) /\ Len(wire) \in Nat /\ DOMAIN wire = 1..Len(wire)
      /\ \A i \in DOMAIN wire : FrameOK(wire[i], l, u)
  BY DEF WireOK
<1>2. 1 \in DOMAIN wire /\ Head(wire) = wire[1]
  BY <1>1
<1>3. /\ Tail(wire) \in Seq(Frame) /\ DOMAIN Tail(wire) = 1..(Len(wire) - 1)
      /\ \A i \in DOMAIN Tail(wire) : Tail(wire)[i] = wire[i + 1] /\ i + 1 \in DOMAIN wire
  BY <1>1
<1> QED
  BY <1>1, <1>2, <1>3 DEF WireOK

LEMMA ClientIs ==
    ASSUME ServerOK, PartsOK(log, spent.steps)
    PROVE  ClientOK(Client, log, spent.steps, sends)
<1>1. /\ timeline \in Seq(EntryType) /\ hydration \in Hydration /\ known \in Nat
      /\ torn \in BOOLEAN /\ lagging \in BOOLEAN
  BY DEF ServerOK, PartsOK, LineOK, HydrationOK
<1> QED
  BY <1>1 DEF Client, ClientOK, ClientRecord, PartsOK

\* What the client becomes with frames applied to it.
LEMMA BecomesOK ==
    ASSUME NEW c, NEW l, NEW u, NEW S, ClientOK(c, l, u, S), Becomes(c)
    PROVE  /\ LineOK(timeline', l, u, S) /\ HydrationOK(hydration', l)
           /\ known' \in Nat /\ torn' \in BOOLEAN /\ lagging' \in BOOLEAN
<1>1. c.rev \in Nat /\ c.torn \in BOOLEAN /\ c.lag \in BOOLEAN
  BY DEF ClientOK, ClientRecord
<1> QED
  BY <1>1 DEF Becomes, ClientOK

LEMMA ReceiveFrameInv ==
    ASSUME TInv, ReceiveFrame
    PROVE  TInv'
<1>1. ServerOK /\ PartsOK(log, spent.steps) /\ LogOK(log)
  BY StepsAre DEF TInv
<1> DEFINE f == Head(wire)
           u == spent.steps
<1>2. FrameOK(f, log, u) /\ WireOK(wire', log, u) /\ f.type # "reply"
  BY <1>1, HeadOK DEF ReceiveFrame, PartsOK
<1> HIDE DEF f, u
<1>3. CASE refresh.stage = "idle"
  <2>1. ClientOK(ApplyFrame(Client, f), log, u, sends)
    BY <1>1, <1>2, ClientIs, FrameKeepsClient DEF LogOK, u
  <2>2. Becomes(ApplyFrame(Client, f)) /\ queue' = queue
    BY <1>3 DEF ReceiveFrame, f
  <2>3. LineOK(timeline', log, u, sends) /\ HydrationOK(hydration', log) /\ known' \in Nat
        /\ torn' \in BOOLEAN /\ lagging' \in BOOLEAN
    BY <2>1, <2>2, BecomesOK
  <2>4. PartsOK(log, spent.steps)'
    BY <1>1, <1>2, <2>2, <2>3 DEF PartsOK, ReceiveFrame, server, u
  <2>5. ServerOK'
    BY <1>1, <2>3 DEF ServerOK, ReceiveFrame, server
  <2>6. (refresh.stage = "idle" => queue = <<>>)'
    BY <2>2 DEF TInv, ReceiveFrame
  <2> QED
    BY <2>4, <2>5, <2>6 DEF TInv
<1>4. CASE refresh.stage # "idle"
  <2> DEFINE x == [frame |-> f, session |-> sessions]
  <2>1. queue' = Append(queue, x) /\ UNCHANGED <<timeline, known, hydration, torn, lagging, refresh>>
    BY <1>4 DEF ReceiveFrame, f
  <2>2. x \in Held /\ x.frame = f
    BY <1>1, <1>2 DEF Held, FrameOK, ServerOK
  <2> HIDE DEF x
  <2>3. QueueOK(queue', log, u)
    <3>1. queue \in Seq(Held) /\ Len(queue) \in Nat
      BY <1>1 DEF PartsOK, QueueOK
    <3>2. /\ queue' \in Seq(Held) /\ Len(queue') = Len(queue) + 1 /\ queue'[Len(queue) + 1] = x
          /\ \A i \in 1..Len(queue) : queue'[i] = queue[i]
      BY <2>1, <2>2, <3>1, AppendProperties
    <3>3. \A i \in DOMAIN queue' : queue'[i] = x \/ (i \in DOMAIN queue /\ queue'[i] = queue[i])
      BY <3>1, <3>2
    <3> QED
      BY <1>1, <1>2, <2>2, <3>2, <3>3 DEF PartsOK, QueueOK, u
  <2>4. PartsOK(log, spent.steps)'
    BY <1>1, <1>2, <2>1, <2>3 DEF PartsOK, ReceiveFrame, server, u
  <2>5. ServerOK'
    BY <1>1, <2>1 DEF ServerOK, ReceiveFrame, server
  <2> QED
    BY <1>4, <2>1, <2>4, <2>5 DEF TInv
<1> QED
  BY <1>3, <1>4

LEMMA RefreshSettlesInv ==
    ASSUME TInv, RefreshSettles
    PROVE  TInv'
<1>1. ServerOK /\ PartsOK(log, spent.steps) /\ LogOK(log)
  BY StepsAre DEF TInv
<1>2. RefreshOK(NoRefresh, log) /\ RefreshOK([NoRefresh EXCEPT !.stage = "sent"], log)
  BY NothingIsOK DEF NoRefresh, RefreshOK, PageOK
<1>3. CASE refresh.again
  <2>1. refresh' = [NoRefresh EXCEPT !.stage = "sent"] /\ UNCHANGED <<timeline, known, hydration, queue, history>>
    BY <1>3 DEF RefreshSettles
  <2>2. PartsOK(log, spent.steps)'
    BY <1>1, <1>2, <2>1 DEF PartsOK, RefreshSettles, server
  <2>3. ServerOK'
    BY <1>1, <2>1 DEF ServerOK, RefreshSettles, server, history
  <2>4. refresh'.stage # "idle"
    BY <2>1 DEF NoRefresh
  <2> QED
    BY <2>2, <2>3, <2>4 DEF TInv
<1>4. CASE ~refresh.again
  <2>1. refresh' = NoRefresh /\ Becomes(ApplyFrames(Client, queue)) /\ queue' = <<>>
    BY <1>4 DEF RefreshSettles
  <2>2. ClientOK(ApplyFrames(Client, queue), log, spent.steps, sends)
    BY <1>1, ClientIs, QueueKeepsClient DEF LogOK, PartsOK
  <2>3. LineOK(timeline', log, spent.steps, sends) /\ HydrationOK(hydration', log) /\ known' \in Nat
        /\ torn' \in BOOLEAN /\ lagging' \in BOOLEAN
    BY <2>1, <2>2, BecomesOK
  <2>4. QueueOK(queue', log, spent.steps)
    <3>1. <<>> \in Seq(Held) /\ DOMAIN <<>> = {}
      OBVIOUS
    <3> QED
      BY <2>1, <3>1 DEF QueueOK
  <2>5. PartsOK(log, spent.steps)'
    BY <1>1, <1>2, <2>1, <2>3, <2>4 DEF PartsOK, RefreshSettles, server
  <2>6. ServerOK'
    <3>1. synced' = (synced /\ \A i \in DOMAIN queue : queue[i].session = sessions)
      BY <1>4 DEF RefreshSettles
    <3>2. synced' \in BOOLEAN
      BY <3>1
    <3> QED
      BY <1>1, <2>3, <3>2 DEF ServerOK, RefreshSettles, server
  <2> QED
    BY <2>1, <2>5, <2>6 DEF TInv
<1> QED
  BY <1>3, <1>4

-----------------------------------------------------------------------------
(* Reconciliation.                                                         *)

LEMMA NewestPageOK ==
    ASSUME LogOK(log), NEW n
    PROVE  /\ PageOK(Tail_(n), log, {})
           /\ \A before : PageOK(PageOf(Newest(n, before)), log, {})
<1>1. \A before : Newest(n, before) \subseteq DOMAIN log
  BY DEF Newest
<1> QED
  BY <1>1, PageOfIs DEF Tail_

\* What a reconciliation asks for are commands of the server.
LEMMA ReconcilingOK ==
    ASSUME NEW tl, NEW u, NEW S, LineOK(tl, log, u, S), LogOK(log)
    PROVE  ReconOK(Reconciling(tl), log)
<1>1. \A i \in DOMAIN tl : tl[i].rank \in 1..2 => tl[i].id \in Commands(log) /\ tl[i].id \in Nat
  <2> SUFFICES ASSUME NEW i \in DOMAIN tl, tl[i].rank \in 1..2
               PROVE  tl[i].id \in Commands(log) /\ tl[i].id \in Nat
    OBVIOUS
  <2>1. ~UnsentEntry(tl[i], u)
    BY DEF UnsentEntry
  <2>2. StoredEntry(tl[i], log)
    BY <2>1 DEF LineOK
  <2>3. tl[i].id \in DOMAIN log /\ log[tl[i].id].rank \in Int /\ tl[i].id \in Nat
    BY <2>2, MessageFields DEF StoredEntry, LogOK
  <2> QED
    BY <2>2, <2>3 DEF StoredEntry, Commands
<1>2. OpenCommands(tl) \subseteq Commands(log) /\ OpenCommands(tl) \subseteq Nat
  BY <1>1 DEF OpenCommands
<1>3. PageOK(<<>>, log, Commands(log)) /\ <<>> \in Seq(EntryType)
  BY NothingIsOK
<1> QED
  BY <1>2, <1>3 DEF Reconciling, NoRecon, ReconOK

LEMMA NoReconOK ==
    ASSUME NEW l
    PROVE  ReconOK(NoRecon, l)
BY NothingIsOK DEF NoRecon, ReconOK, PageOK

LEMMA ReconcileServerBuffersInv ==
    ASSUME TInv, ReconcileServerBuffers
    PROVE  TInv'
<1>1. ServerOK
  BY DEF TInv
<1>2. /\ spent' \in [steps : 0..MaxSteps, drops : 0..MaxDrops]
      /\ spent'.steps = spent.steps + 2 /\ spent.steps \in Nat /\ spent'.steps \in Nat
  BY <1>1, SpendsIs DEF ReconcileServerBuffers
<1>3. PartsOK(log, spent'.steps)
  BY <1>2, CountedOn
<1>4. ReconOK(recon', log)
  BY <1>1, <1>3, ReconcilingOK, StepsAre DEF ReconcileServerBuffers, PartsOK
<1>5. PartsOK(log, spent.steps)'
  BY <1>3, <1>4 DEF PartsOK, ReconcileServerBuffers, server
<1>6. ServerOK'
  BY <1>1, <1>2 DEF ServerOK, ReconcileServerBuffers, server, history
<1> QED
  BY <1>5, <1>6 DEF TInv, ReconcileServerBuffers

\* The two batches of a reconciliation may hold the same command.
LEMMA ReconServedInv ==
    ASSUME TInv, ReconServed
    PROVE  TInv'
<1>1. ServerOK /\ PartsOK(log, spent.steps) /\ LogOK(log)
  BY StepsAre DEF TInv
<1> DEFINE a == Tail_(Page)
           b == PageOf(recon.commands)
           X == Commands(log)
<1>2. ReconOK(recon, log) /\ recon.commands \subseteq X /\ X \subseteq DOMAIN log
  BY <1>1 DEF PartsOK, ReconOK, Commands
<1>3. /\ PageOK(a, log, {}) /\ PageOK(b, log, {})
      /\ \A k \in DOMAIN b : b[k].id \in recon.commands
  BY <1>1, <1>2, NewestPageOK, PageOfIs
<1>4. recon' = [recon EXCEPT !.stage = "answered", !.batch = a \o b]
  BY DEF ReconServed
<1> HIDE DEF a, b
<1>5. /\ PageOK(a, log, X) /\ PageOK(b, log, X)
      /\ \A i \in DOMAIN a : \A j \in DOMAIN b : a[i].id = b[j].id => a[i].id \in X
  BY <1>2, <1>3 DEF PageOK, Once
<1> HIDE DEF X
<1>6. PageOK(a \o b, log, X) /\ a \o b \in Seq(EntryType)
  BY <1>5, JoinedPage DEF PageOK
<1>7. ReconOK(recon', log)
  BY <1>2, <1>4, <1>6 DEF ReconOK, X
<1>8. PartsOK(log, spent.steps)'
  BY <1>1, <1>7 DEF PartsOK, ReconServed, server
<1>9. ServerOK'
  BY <1>1 DEF ServerOK, ReconServed, server, history
<1> QED
  BY <1>8, <1>9 DEF TInv, ReconServed

LEMMA ReconAppliedInv ==
    ASSUME TInv, ReconApplied
    PROVE  TInv'
<1>1. ServerOK /\ PartsOK(log, spent.steps) /\ LogOK(log)
  BY StepsAre DEF TInv
<1>2. PageOK(recon.batch, log, Commands(log)) /\ Commands(log) \subseteq Excused(log) /\ log \in Seq(Message)
  BY <1>1 DEF PartsOK, ReconOK, Commands, Excused, LogOK
<1>4. LineOK(MergeNewer(timeline, recon.batch), log, spent.steps, sends)
  BY <1>1, <1>2, MergedLine DEF PartsOK
<1>5. LineOK(timeline', log, spent.steps, sends)
  BY <1>1, <1>4 DEF ReconApplied, PartsOK
<1>6. ReconOK(recon', log)
  BY NoReconOK DEF ReconApplied
<1>7. PartsOK(log, spent.steps)'
  BY <1>1, <1>5, <1>6 DEF PartsOK, ReconApplied, server
<1>8. torn' \in BOOLEAN /\ lagging' \in BOOLEAN
  BY <1>1 DEF ServerOK, ReconApplied, Tears, Lags
<1>9. ServerOK'
  BY <1>1, <1>8 DEF ServerOK, ReconApplied, server
<1> QED
  BY <1>7, <1>9 DEF TInv, ReconApplied

LEMMA ReconFailsInv ==
    ASSUME TInv, ReconFails
    PROVE  TInv'
<1>1. ServerOK
  BY DEF TInv
<1>2. /\ spent' \in [steps : 0..MaxSteps, drops : 0..MaxDrops]
      /\ spent'.steps = spent.steps + 1 /\ spent.steps \in Nat /\ spent'.steps \in Nat
  BY <1>1, UnluckyIs DEF ReconFails
<1>3. PartsOK(log, spent'.steps)
  BY <1>2, CountedOn
<1>4. ReconOK(recon', log)
  BY NoReconOK DEF ReconFails
<1>5. PartsOK(log, spent.steps)'
  BY <1>3, <1>4 DEF PartsOK, ReconFails, server
<1>6. ServerOK'
  BY <1>1, <1>2 DEF ServerOK, ReconFails, server, history
<1> QED
  BY <1>5, <1>6 DEF TInv, ReconFails

-----------------------------------------------------------------------------
(* The refresh and the socket.                                             *)

LEMMA RefreshServedInv ==
    ASSUME TInv, RefreshServed
    PROVE  TInv'
<1>1. ServerOK /\ PartsOK(log, spent.steps) /\ LogOK(log)
  BY StepsAre DEF TInv
<1> DEFINE q == Tail_(BootPage)
           n == IF link = "joined" THEN sessions ELSE 0
<1>2. PageOK(q, log, {}) /\ q \in Seq(EntryType)
  BY <1>1, NewestPageOK DEF PageOK
<1>3. n \in Nat /\ thread \in Nat
  BY <1>1 DEF ServerOK
<1>4. refresh' = [refresh EXCEPT !.stage = "answered", !.page = q, !.rev = thread, !.session = n]
  BY DEF RefreshServed
<1> HIDE DEF q, n
<1>5. RefreshOK(refresh', log) /\ refresh'.stage = "answered"
  BY <1>1, <1>2, <1>3, <1>4 DEF PartsOK, RefreshOK
<1>6. PartsOK(log, spent.steps)'
  BY <1>1, <1>5 DEF PartsOK, RefreshServed, server, requests
<1>7. ServerOK'
  BY <1>1 DEF ServerOK, RefreshServed, server, history
<1> QED
  BY <1>5, <1>6, <1>7 DEF TInv

LEMMA RefreshAppliedInv ==
    ASSUME TInv, RefreshApplied
    PROVE  TInv'
<1>1. ServerOK /\ PartsOK(log, spent.steps) /\ LogOK(log)
  BY StepsAre DEF TInv
<1> DEFINE tl == IF Open(refresh.rev) THEN refresh.page ELSE <<>>
<1>2. RefreshOK(refresh, log) /\ ReconOK(recon, log)
  BY <1>1 DEF PartsOK
<1>3. LineOK(tl, log, spent.steps, sends)
  BY <1>2, PageIsLine, NothingIsOK DEF RefreshOK
<1>4. timeline' = tl /\ recon' = IF recon.stage = "idle" /\ Open(refresh.rev) THEN Reconciling(tl) ELSE recon
  BY DEF RefreshApplied
<1> HIDE DEF tl
<1>5. LineOK(timeline', log, spent.steps, sends) /\ ReconOK(recon', log)
  BY <1>1, <1>2, <1>3, <1>4, ReconcilingOK
<1>6. HydrationOK(hydration', log)
  BY NoHydrationOK, HydrateOK DEF RefreshApplied
<1>7. RefreshOK(refresh', log) /\ refresh'.stage # "idle"
  BY <1>2 DEF RefreshApplied, RefreshOK
<1>8. PartsOK(log, spent.steps)'
  BY <1>1, <1>5, <1>6, <1>7 DEF PartsOK, RefreshApplied, server
<1>9. known' \in Nat /\ torn' \in BOOLEAN /\ lagging' \in BOOLEAN /\ synced' \in BOOLEAN
  BY <1>1, <1>2 DEF ServerOK, RefreshApplied, RefreshOK
<1>10. ServerOK'
  BY <1>1, <1>9 DEF ServerOK, RefreshApplied, server
<1> QED
  BY <1>7, <1>8, <1>10 DEF TInv

LEMMA RefreshFailsInv ==
    ASSUME TInv, RefreshFails
    PROVE  TInv'
<1>1. ServerOK
  BY DEF TInv
<1>2. /\ spent' \in [steps : 0..MaxSteps, drops : 0..MaxDrops]
      /\ spent'.steps = spent.steps + 1 /\ spent.steps \in Nat /\ spent'.steps \in Nat
  BY <1>1, UnluckyIs DEF RefreshFails
<1>3. PartsOK(log, spent'.steps)
  BY <1>2, CountedOn
<1>4. ReconOK(recon', log)
  BY <1>1, <1>3, ReconcilingOK, StepsAre DEF RefreshFails, PartsOK
<1>5. RefreshOK(refresh', log) /\ refresh'.stage # "idle"
  BY <1>3 DEF RefreshFails, RefreshOK, PartsOK
<1>6. PartsOK(log, spent.steps)'
  BY <1>3, <1>4, <1>5 DEF PartsOK, RefreshFails, server
<1>7. ServerOK'
  BY <1>1, <1>2 DEF ServerOK, RefreshFails, server, history
<1> QED
  BY <1>5, <1>6, <1>7 DEF TInv

LEMMA LinkLostInv ==
    ASSUME TInv, LinkLost
    PROVE  TInv'
<1>1. ServerOK
  BY DEF TInv
<1>2. /\ spent' \in [steps : 0..MaxSteps, drops : 0..MaxDrops]
      /\ spent'.steps = spent.steps + 1 /\ spent.steps \in Nat /\ spent'.steps \in Nat
  BY <1>1, UnluckyIs DEF LinkLost
<1> DEFINE u == spent'.steps
           lost(s) == [s EXCEPT !.online = FALSE]
<1>3. PartsOK(log, u)
  BY <1>2, CountedOn
<1> HIDE DEF u
<1>4. sends' = {lost(s) : s \in sends}
  BY DEF LinkLost
<1>5. \A s \in sends : /\ lost(s) \in Push /\ lost(s).cid = s.cid
                       /\ lost(s).waiting = s.waiting /\ lost(s).served = s.served
  BY <1>3 DEF PartsOK, SendsOK, Push
<1> HIDE DEF lost
<1>6. SendsOK(sends', u)
  BY <1>3, <1>4, <1>5 DEF PartsOK, SendsOK
<1>7. Awaited(timeline, sends')
  <2> SUFFICES ASSUME NEW i \in DOMAIN timeline, timeline[i].state = "pending"
               PROVE  \E s \in sends' : s.cid = timeline[i].id /\ s.waiting
    BY DEF Awaited
  <2>1. PICK s \in sends : s.cid = timeline[i].id /\ s.waiting
    BY <1>3 DEF PartsOK, LineOK, Awaited
  <2>2. lost(s) \in sends' /\ lost(s).cid = timeline[i].id /\ lost(s).waiting
    BY <1>4, <1>5, <2>1
  <2> QED
    BY <2>2
<1>8. LineOK(timeline, log, u, sends')
  BY <1>3, <1>7 DEF PartsOK, LineOK
<1>9. WireOK(wire', log, u)
  BY DEF LinkLost, WireOK
<1>10. PartsOK(log, spent.steps)'
  BY <1>3, <1>6, <1>8, <1>9 DEF PartsOK, LinkLost, server, requests, u
<1>11. ServerOK'
  BY <1>1, <1>2 DEF ServerOK, LinkLost, server
<1> QED
  BY <1>10, <1>11 DEF TInv, LinkLost

LEMMA JoinOkInv ==
    ASSUME TInv, JoinOk
    PROVE  TInv'
<1>1. ServerOK /\ PartsOK(log, spent.steps)
  BY DEF TInv
<1>2. RefreshOK(refresh', log) /\ refresh'.stage # "idle"
  <2>1. CASE refresh.stage = "idle"
    BY <2>1, NothingIsOK DEF JoinOk, RequestRefresh, NoRefresh, RefreshOK, PageOK
  <2>2. CASE refresh.stage # "idle"
    BY <1>1, <2>2 DEF JoinOk, RequestRefresh, RefreshOK, PartsOK
  <2> QED
    BY <2>1, <2>2
<1>3. PartsOK(log, spent.steps)'
  BY <1>1, <1>2 DEF PartsOK, JoinOk, server, requests
<1>4. ServerOK'
  BY <1>1 DEF ServerOK, JoinOk, server, history
<1> QED
  BY <1>2, <1>3, <1>4 DEF TInv

-----------------------------------------------------------------------------
(* Older pages and reading.                                                *)

LEMMA NoOlderOK ==
    ASSUME NEW l
    PROVE  OlderOK(NoOlder, l)
BY NothingIsOK DEF NoOlder, OlderOK, PageOK

LEMMA LoadOlderInv ==
    ASSUME TInv, LoadOlder
    PROVE  TInv'
<1>1. ServerOK
  BY DEF TInv
<1>2. /\ spent' \in [steps : 0..MaxSteps, drops : 0..MaxDrops]
      /\ spent'.steps = spent.steps + 1 /\ spent.steps \in Nat /\ spent'.steps \in Nat
  BY <1>1, SpendsIs DEF LoadOlder
<1>3. PartsOK(log, spent'.steps)
  BY <1>2, CountedOn
<1> DEFINE n == Head(timeline).id
<1>4. n \in Nat
  <2>1. timeline \in Seq(EntryType) /\ timeline # <<>> /\ n > 0
    BY <1>3 DEF LoadOlder, PartsOK, LineOK
  <2>2. Head(timeline) \in EntryType
    BY <2>1
  <2>3. n \in (-MaxSteps)..MaxLog
    BY <2>2 DEF EntryType
  <2> HIDE DEF n
  <2> QED
    BY <2>1, <2>3, BoundsAre
<1>5. loadingOlder' = [NoOlder EXCEPT !.stage = "sent", !.before = n]
  BY DEF LoadOlder
<1> HIDE DEF n
<1>6. OlderOK(loadingOlder', log)
  BY <1>4, <1>5, NothingIsOK DEF NoOlder, OlderOK, PageOK
<1>7. PartsOK(log, spent.steps)'
  BY <1>3, <1>6 DEF PartsOK, LoadOlder, server
<1>8. ServerOK'
  BY <1>1, <1>2 DEF ServerOK, LoadOlder, server, history
<1> QED
  BY <1>7, <1>8 DEF TInv, LoadOlder

LEMMA OlderServedInv ==
    ASSUME TInv, OlderServed
    PROVE  TInv'
<1>1. ServerOK /\ PartsOK(log, spent.steps) /\ LogOK(log)
  BY StepsAre DEF TInv
<1> DEFINE q == PageOf(Newest(Page, loadingOlder.before))
<1>2. PageOK(q, log, {}) /\ q \in Seq(EntryType)
  BY <1>1, NewestPageOK DEF PageOK
<1>3. loadingOlder' = [loadingOlder EXCEPT !.stage = "answered", !.page = q]
  BY DEF OlderServed
<1> HIDE DEF q
<1>4. OlderOK(loadingOlder', log)
  BY <1>1, <1>2, <1>3 DEF PartsOK, OlderOK
<1>5. PartsOK(log, spent.steps)'
  BY <1>1, <1>4 DEF PartsOK, OlderServed, server
<1>6. ServerOK'
  BY <1>1 DEF ServerOK, OlderServed, server, history
<1> QED
  BY <1>5, <1>6 DEF TInv, OlderServed

LEMMA OlderAppliedInv ==
    ASSUME TInv, OlderApplied
    PROVE  TInv'
<1>1. ServerOK /\ PartsOK(log, spent.steps) /\ LogOK(log)
  BY StepsAre DEF TInv
<1>2. PageOK(loadingOlder.page, log, {}) /\ {} \subseteq Excused(log) /\ log \in Seq(Message)
  BY <1>1 DEF PartsOK, OlderOK, LogOK
<1>3. LineOK(timeline', log, spent.steps, sends)
  <2>1. LineOK(timeline, log, spent.steps, sends)
    BY <1>1 DEF PartsOK
  <2>2. LineOK(MergeOlder(loadingOlder.page, timeline), log, spent.steps, sends)
    BY <1>2, <2>1, MergedLine
  <2> QED
    BY <2>1, <2>2 DEF OlderApplied
<1>4. OlderOK(loadingOlder', log)
  BY NoOlderOK DEF OlderApplied
<1>5. PartsOK(log, spent.steps)'
  BY <1>1, <1>3, <1>4 DEF PartsOK, OlderApplied, server
<1>6. torn' \in BOOLEAN /\ lagging' \in BOOLEAN
  BY <1>1 DEF ServerOK, OlderApplied, Tears, Lags
<1>7. ServerOK'
  BY <1>1, <1>6 DEF ServerOK, OlderApplied, server
<1> QED
  BY <1>5, <1>7 DEF TInv, OlderApplied

LEMMA OlderFailsInv ==
    ASSUME TInv, OlderFails
    PROVE  TInv'
<1>1. ServerOK
  BY DEF TInv
<1>2. /\ spent' \in [steps : 0..MaxSteps, drops : 0..MaxDrops]
      /\ spent'.steps = spent.steps + 1 /\ spent.steps \in Nat /\ spent'.steps \in Nat
  BY <1>1, UnluckyIs DEF OlderFails
<1>3. PartsOK(log, spent'.steps)
  BY <1>2, CountedOn
<1>4. OlderOK(loadingOlder', log)
  BY NoOlderOK DEF OlderFails
<1>5. PartsOK(log, spent.steps)'
  BY <1>3, <1>4 DEF PartsOK, OlderFails, server
<1>6. ServerOK'
  BY <1>1, <1>2 DEF ServerOK, OlderFails, server, history
<1> QED
  BY <1>5, <1>6 DEF TInv, OlderFails

LEMMA SetReadingInv ==
    ASSUME TInv, NEW older \in BOOLEAN, SetReading(older)
    PROVE  TInv'
<1>1. ServerOK
  BY DEF TInv
<1>2. /\ spent' \in [steps : 0..MaxSteps, drops : 0..MaxDrops]
      /\ spent'.steps = spent.steps + 1 /\ spent.steps \in Nat /\ spent'.steps \in Nat
  BY <1>1, SpendsIs DEF SetReading
<1>3. PartsOK(log, spent'.steps) /\ RenderLimit \in Nat
  BY <1>2, CountedOn, BoundsAre
<1>4. LineOK(timeline', log, spent'.steps, sends)
  BY <1>3, TrimmedLine DEF PartsOK, SetReading
<1>5. PartsOK(log, spent.steps)'
  BY <1>3, <1>4 DEF PartsOK, SetReading, server, requests
<1>6. torn' \in BOOLEAN
  BY <1>1 DEF ServerOK, SetReading, Cuts
<1>7. ServerOK'
  BY <1>1, <1>2, <1>6 DEF ServerOK, SetReading, server, history
<1> QED
  BY <1>5, <1>7 DEF TInv, SetReading

-----------------------------------------------------------------------------
(* Sending.                                                                *)

\* A new identifier is nobody's.
LEMMA NewIdIs ==
    ASSUME ServerOK, NEW v \in 0..MaxSteps, spent.steps + 1 <= v
    PROVE  /\ UnsentEntry(Pending(NewId), v) /\ Pending(NewId) \in EntryType
           /\ Pending(NewId).id = NewId /\ Pending(NewId).state = "pending"
           /\ Pushed(NewId) \in Push /\ Pushed(NewId).cid = NewId /\ Pushed(NewId).waiting
           /\ NewId \in (-v)..(-1)
           /\ \A e : StoredEntry(e, log) \/ UnsentEntry(e, spent.steps) => e.id # NewId
<1>1. spent.steps \in Nat /\ v \in Nat /\ Len(log) \in 0..MaxLog /\ MaxSteps \in Nat /\ v <= MaxSteps
      /\ log \in Seq(Message)
  <2>1. log \in Seq(Message) /\ Len(log) <= MaxLog
    BY DEF ServerOK
  <2>2. Len(log) \in Nat
    BY <2>1
  <2> QED
    BY <2>1, <2>2, StepsAre, BoundsAre
<1>2. NewId \in (-v)..(-1) /\ NewId \in (-MaxSteps)..MaxLog /\ NewId < -spent.steps /\ NewId \in Int
  BY <1>1, BoundsAre DEF NewId
<1>3. /\ Pending(NewId) \in EntryType /\ UnsentEntry(Pending(NewId), v)
      /\ Pending(NewId).id = NewId /\ Pending(NewId).state = "pending"
  BY <1>1, <1>2 DEF Pending, EntryType, UnsentEntry, Ranks
<1>4. Pushed(NewId) \in Push /\ Pushed(NewId).cid = NewId /\ Pushed(NewId).waiting
  BY <1>2 DEF Pushed, Push
<1>5. \A e : StoredEntry(e, log) => e.id # NewId
  <2>1. \A n \in DOMAIN log : n \in Nat /\ n # NewId
    BY <1>1, <1>2, MessageFields
  <2> QED
    BY <2>1 DEF StoredEntry
<1>6. \A e : UnsentEntry(e, spent.steps) => e.id # NewId
  BY <1>1, <1>2 DEF UnsentEntry
<1> QED
  BY <1>2, <1>3, <1>4, <1>5, <1>6

LEMMA SendInv ==
    ASSUME TInv, Send
    PROVE  TInv'
<1>1. ServerOK
  BY DEF TInv
<1>2. /\ spent' \in [steps : 0..MaxSteps, drops : 0..MaxDrops]
      /\ spent'.steps = spent.steps + 2 /\ spent.steps \in Nat /\ spent'.steps \in Nat
  BY <1>1, SpendsIs DEF Send
<1> DEFINE v == spent'.steps
           e == Pending(NewId)
           p == Pushed(NewId)
<1>3. PartsOK(log, v) /\ v \in 0..MaxSteps /\ spent.steps + 1 <= v /\ LineOK(timeline, log, spent.steps, sends)
  BY <1>2, CountedOn DEF TInv, PartsOK
<1>4. /\ UnsentEntry(e, v) /\ e \in EntryType /\ e.id = NewId /\ e.state = "pending"
      /\ p \in Push /\ p.cid = NewId /\ p.waiting /\ NewId \in (-v)..(-1)
      /\ \A x : StoredEntry(x, log) \/ UnsentEntry(x, spent.steps) => x.id # NewId
  BY <1>1, <1>3, NewIdIs
<1>5. timeline' = Append(timeline, e) /\ sends' = sends \cup {p}
  BY DEF Send
<1> HIDE DEF v, e, p
<1>6. SendsOK(sends', v)
  BY <1>3, <1>4, <1>5 DEF PartsOK, SendsOK
<1>7. timeline \in Seq(EntryType) /\ Len(timeline) \in Nat /\ DOMAIN timeline = 1..Len(timeline)
  BY <1>3 DEF LineOK
<1>8. /\ timeline' \in Seq(EntryType) /\ Len(timeline') = Len(timeline) + 1
      /\ timeline'[Len(timeline) + 1] = e
      /\ \A i \in 1..Len(timeline) : timeline'[i] = timeline[i]
  BY <1>4, <1>5, <1>7, AppendProperties
<1>9. \A i \in DOMAIN timeline' :
          (i = Len(timeline) + 1 /\ timeline'[i] = e) \/ (i \in DOMAIN timeline /\ timeline'[i] = timeline[i])
  BY <1>7, <1>8
<1>10. \A i \in DOMAIN timeline : timeline[i].id # e.id
  BY <1>3, <1>4 DEF LineOK
<1>11. LineOK(timeline', log, v, sends')
  <2>1. \A i \in DOMAIN timeline' : StoredEntry(timeline'[i], log) \/ UnsentEntry(timeline'[i], v)
    <3>1. \A i \in DOMAIN timeline : StoredEntry(timeline[i], log) \/ UnsentEntry(timeline[i], v)
      BY <1>3 DEF PartsOK, LineOK
    <3> QED
      BY <1>4, <1>9, <3>1
  <2>2. Once(timeline', Excused(log))
    <3> SUFFICES ASSUME NEW i \in DOMAIN timeline', NEW j \in DOMAIN timeline', i # j,
                        timeline'[i].id = timeline'[j].id
                 PROVE  timeline'[i].id \in Excused(log)
      BY DEF Once
    <3>1. i \in DOMAIN timeline /\ timeline'[i] = timeline[i] /\ j \in DOMAIN timeline /\ timeline'[j] = timeline[j]
      BY <1>9, <1>10
    <3> QED
      BY <1>3, <3>1 DEF LineOK, Once
  <2>3. Awaited(timeline', sends')
    <3> SUFFICES ASSUME NEW i \in DOMAIN timeline', timeline'[i].state = "pending"
                 PROVE  \E s \in sends' : s.cid = timeline'[i].id /\ s.waiting
      BY DEF Awaited
    <3>1. CASE timeline'[i] = e
      BY <1>4, <1>5, <3>1
    <3>2. CASE i \in DOMAIN timeline /\ timeline'[i] = timeline[i]
      BY <1>3, <1>5, <3>2 DEF LineOK, Awaited
    <3> QED
      BY <1>9, <3>1, <3>2
  <2> QED
    BY <1>8, <2>1, <2>2, <2>3 DEF LineOK
<1>12. PartsOK(log, spent.steps)'
  BY <1>3, <1>6, <1>11 DEF PartsOK, Send, server, requests, v
<1>13. ServerOK'
  BY <1>1, <1>2 DEF ServerOK, Send, server, history
<1> QED
  BY <1>12, <1>13 DEF TInv, Send

LEMMA RetryInv ==
    ASSUME TInv, NEW n \in DOMAIN timeline, Retry(n)
    PROVE  TInv'
<1>1. ServerOK
  BY DEF TInv
<1>2. /\ spent' \in [steps : 0..MaxSteps, drops : 0..MaxDrops]
      /\ spent'.steps = spent.steps + 1 /\ spent.steps \in Nat /\ spent'.steps \in Nat
  BY <1>1, SpendsIs DEF Retry
<1> DEFINE v == spent'.steps
           e == Pending(NewId)
           p == Pushed(NewId)
<1>3. PartsOK(log, v) /\ v \in 0..MaxSteps /\ spent.steps + 1 <= v /\ LineOK(timeline, log, spent.steps, sends)
  BY <1>2, CountedOn DEF TInv, PartsOK
<1>4. /\ UnsentEntry(e, v) /\ e \in EntryType /\ e.id = NewId /\ e.state = "pending"
      /\ p \in Push /\ p.cid = NewId /\ p.waiting /\ NewId \in (-v)..(-1)
      /\ \A x : StoredEntry(x, log) \/ UnsentEntry(x, spent.steps) => x.id # NewId
  BY <1>1, <1>3, NewIdIs
<1>5. timeline' = [timeline EXCEPT ![n] = e] /\ sends' = sends \cup {p}
  BY DEF Retry
<1> HIDE DEF v, e, p
<1>6. SendsOK(sends', v)
  BY <1>3, <1>4, <1>5 DEF PartsOK, SendsOK
<1>7. timeline \in Seq(EntryType) /\ DOMAIN timeline = 1..Len(timeline)
  BY <1>3 DEF LineOK
<1>8. /\ timeline' \in Seq(EntryType) /\ DOMAIN timeline' = DOMAIN timeline
      /\ \A i \in DOMAIN timeline : timeline'[i] = IF i = n THEN e ELSE timeline[i]
  BY <1>4, <1>5, <1>7
<1>9. \A i \in DOMAIN timeline : timeline[i].id # e.id
  BY <1>3, <1>4 DEF LineOK
<1>10. LineOK(timeline', log, v, sends')
  <2>1. \A i \in DOMAIN timeline' : StoredEntry(timeline'[i], log) \/ UnsentEntry(timeline'[i], v)
    BY <1>3, <1>4, <1>8 DEF PartsOK, LineOK
  <2>2. Once(timeline', Excused(log))
    <3> SUFFICES ASSUME NEW i \in DOMAIN timeline, NEW j \in DOMAIN timeline, i # j,
                        timeline'[i].id = timeline'[j].id
                 PROVE  timeline'[i].id \in Excused(log)
      BY <1>8 DEF Once
    <3>1. timeline'[i] = timeline[i] /\ timeline'[j] = timeline[j]
      BY <1>8, <1>9
    <3> QED
      BY <1>3, <3>1 DEF LineOK, Once
  <2>3. Awaited(timeline', sends')
    <3> SUFFICES ASSUME NEW i \in DOMAIN timeline, timeline'[i].state = "pending"
                 PROVE  \E s \in sends' : s.cid = timeline'[i].id /\ s.waiting
      BY <1>8 DEF Awaited
    <3>1. CASE i = n
      BY <1>4, <1>5, <1>8, <3>1
    <3>2. CASE i # n
      BY <1>3, <1>5, <1>8, <3>2 DEF LineOK, Awaited
    <3> QED
      BY <3>1, <3>2
  <2> QED
    BY <1>8, <2>1, <2>2, <2>3 DEF LineOK
<1>11. PartsOK(log, spent.steps)'
  BY <1>3, <1>6, <1>10 DEF PartsOK, Retry, server, requests, v
<1>12. ServerOK'
  BY <1>1, <1>2 DEF ServerOK, Retry, server, history
<1> QED
  BY <1>11, <1>12 DEF TInv, Retry

LEMMA WithOK ==
    ASSUME NEW u, SendsOK(sends, u), NEW s \in sends, NEW t \in Push, t.cid = s.cid
    PROVE  SendsOK(With(s, t), u)
<1>1. s.cid \in (-u)..(-1)
  BY DEF SendsOK
<1> QED
  BY <1>1 DEF SendsOK, With

LEMMA SendServedInv ==
    ASSUME TInv, NEW s \in sends, SendServed(s)
    PROVE  TInv'
<1>1. ServerOK /\ PartsOK(log, spent.steps) /\ LogOK(log) /\ spent.steps \in Nat
  BY StepsAre DEF TInv
<1> DEFINE x == [rank |-> 0, own |-> TRUE]
           n == Len(log) + 1
           u == spent.steps
           t == [s EXCEPT !.served = TRUE]
           answer == [type |-> "reply", cid |-> s.cid, id |-> n]
<1>2. log' = Append(log, x) /\ Len(log) < MaxLog /\ x \in Message /\ x.rank = 0 /\ x.own = TRUE
  BY DEF SendServed, Message, Ranks
<1> HIDE DEF x
<1>3. LogOK(log') /\ Grows(log, log') /\ n \in DOMAIN log' /\ n \in Nat /\ log'[n] = x
  BY <1>1, <1>2, LogAppended
<1>4. PartsOK(log', u)
  BY <1>1, <1>3, LaterOK
<1>5. s \in Push /\ s.cid \in (-u)..(-1) /\ s.cid \in Int
  BY <1>1 DEF PartsOK, SendsOK
<1>6. sends' = With(s, t) /\ t \in Push /\ t.cid = s.cid /\ t.waiting = s.waiting
  BY <1>5 DEF SendServed, Push
<1>7. FrameOK(answer, log', u)
  BY <1>2, <1>3, <1>5 DEF FrameOK, Frame
<1>8. FrameOK(MessageFrame(n, 0), log', u)
  BY <1>2, <1>3 DEF FrameOK, Frame, MessageFrame, Ranks
<1> DEFINE first == IF s.online THEN <<answer>> ELSE <<>>
           last == Frames(MessageFrame(n, 0))
<1>9. PICK k \in 1..(Len(wire) + 1) :
          wire' = SubSeq(wire, 1, k - 1) \o first \o SubSeq(wire, k, Len(wire)) \o last
  BY DEF SendServed
<1> HIDE DEF t, answer
<1>10. WireOK(first, log', u) /\ WireOK(last, log', u)
  <2>1. <<answer>> \in Seq(Frame) /\ DOMAIN <<answer>> = {1} /\ <<answer>>[1] = answer
    BY <1>7 DEF FrameOK
  <2>2. <<>> \in Seq(Frame) /\ DOMAIN <<>> = {}
    OBVIOUS
  <2>3. WireOK(<<answer>>, log', u) /\ WireOK(<<>>, log', u)
    BY <1>7, <2>1, <2>2 DEF WireOK
  <2> QED
    BY <1>8, <2>3, FramesAre
<1> HIDE DEF first, last, n, u
<1>11. WireOK(wire', log', u)
  <2>1. WireOK(wire, log', u) /\ wire \in Seq(Frame) /\ Len(wire) \in Nat
    BY <1>4 DEF PartsOK, WireOK
  <2>2. k \in 1..(Len(wire) + 1) /\ k - 1 \in 0..Len(wire) /\ 1 \in 1..(Len(wire) + 1) /\ Len(wire) \in 0..Len(wire)
    BY <2>1
  <2>3. WireOK(SubSeq(wire, 1, k - 1), log', u) /\ WireOK(SubSeq(wire, k, Len(wire)), log', u)
    BY <2>1, <2>2, WirePart
  <2>4. WireOK(SubSeq(wire, 1, k - 1) \o first, log', u)
    BY <1>10, <2>3, WireJoined
  <2>5. WireOK(SubSeq(wire, 1, k - 1) \o first \o SubSeq(wire, k, Len(wire)), log', u)
    BY <2>3, <2>4, WireJoined
  <2>6. WireOK(SubSeq(wire, 1, k - 1) \o first \o SubSeq(wire, k, Len(wire)) \o last, log', u)
    BY <1>10, <2>5, WireJoined
  <2> QED
    BY <1>9, <2>6
<1>12. SendsOK(sends', u)
  BY <1>4, <1>6, WithOK DEF PartsOK
<1>13. LineOK(timeline, log', u, sends')
  <2>1. LineOK(timeline, log', u, sends)
    BY <1>4 DEF PartsOK
  <2>2. Awaited(timeline, sends')
    <3> SUFFICES ASSUME NEW i \in DOMAIN timeline, timeline[i].state = "pending"
                 PROVE  \E r \in sends' : r.cid = timeline[i].id /\ r.waiting
      BY DEF Awaited
    <3>1. PICK r \in sends : r.cid = timeline[i].id /\ r.waiting
      BY <2>1 DEF LineOK, Awaited
    <3>2. CASE r = s
      BY <1>6, <3>1, <3>2 DEF With
    <3>3. CASE r # s
      BY <1>6, <3>1, <3>3 DEF With
    <3> QED
      BY <3>2, <3>3
  <2> QED
    BY <2>1, <2>2 DEF LineOK
<1>14. PartsOK(log, spent.steps)'
  BY <1>4, <1>11, <1>12, <1>13 DEF PartsOK, SendServed, requests, u
<1>15. ServerOK'
  BY <1>1, <1>3 DEF ServerOK, SendServed, LogOK, history
<1> QED
  BY <1>14, <1>15 DEF TInv, SendServed

LEMMA SendRepliedInv ==
    ASSUME TInv, SendReplied
    PROVE  TInv'
<1>1. ServerOK /\ PartsOK(log, spent.steps) /\ LogOK(log)
  BY StepsAre DEF TInv
<1> DEFINE f == Head(wire)
           u == spent.steps
           e == Stored_(f.id)
           heard == {s \in sends : s.cid = f.cid}
<1>2. FrameOK(f, log, u) /\ WireOK(wire', log, u) /\ f.type = "reply"
  BY <1>1, HeadOK DEF SendReplied, PartsOK
<1>3. /\ timeline' = IF heard = {} THEN timeline ELSE Replaced(timeline, f.cid, e)
      /\ sends' = sends \ heard
  BY DEF SendReplied
<1> HIDE DEF f, u
<1>4. f.id \in DOMAIN log /\ log[f.id].own /\ f.cid < 0
  <2>1. f.cid \in (-u)..(-1) /\ u \in Nat
    BY <1>1, <1>2, StepsAre DEF FrameOK, u
  <2> QED
    BY <1>2, <2>1 DEF FrameOK
<1>5. StoredEntry(e, log) /\ e.id = f.id
  <2>1. f.id \in 1..MaxLog /\ log[f.id].rank \in Ranks /\ log[f.id].rank <= log[f.id].rank
    <3>1. log \in Seq(Message) /\ Len(log) <= MaxLog
      BY <1>1 DEF LogOK
    <3> QED
      BY <1>4, <3>1, MessageFields, BoundsAre
  <2>2. e \in EntryType
    BY <2>1, BoundsAre DEF Stored_, EntryType
  <2> QED
    BY <1>4, <2>1, <2>2 DEF Stored_, StoredEntry
<1>6. e.id \in Excused(log)
  BY <1>4, <1>5 DEF Excused
<1>7. LineOK(timeline, log, u, sends)
  BY <1>1 DEF PartsOK, u
<1>8. LineOK(timeline', log, u, sends')
  <2> HIDE DEF e
  <2>1. CASE heard = {}
    BY <1>3, <1>7, <2>1
  <2>2. CASE heard # {}
    <3>1. \A s \in heard : s.cid = f.cid
      OBVIOUS
    <3> HIDE DEF heard
    <3>2. LineOK(Replaced(timeline, f.cid, e), log, u, sends \ heard)
      BY <1>4, <1>5, <1>6, <1>7, <3>1, RenewedLine DEF Replaced
    <3> QED
      BY <1>3, <2>2, <3>2
  <2> QED
    BY <2>1, <2>2
<1>9. SendsOK(sends', u)
  BY <1>1, <1>3 DEF PartsOK, SendsOK, u
<1>10. PartsOK(log, spent.steps)'
  BY <1>1, <1>2, <1>8, <1>9 DEF PartsOK, SendReplied, server, requests, u
<1>11. ServerOK'
  BY <1>1 DEF ServerOK, SendReplied, server, history
<1> QED
  BY <1>10, <1>11 DEF TInv, SendReplied

\* Only what waited for this push is marked.
LEMMA SendFailsInv ==
    ASSUME TInv, NEW s \in sends, SendFails(s)
    PROVE  TInv'
<1>1. ServerOK
  BY DEF TInv
<1> DEFINE v == spent'.steps
<1>2. spent' \in [steps : 0..MaxSteps, drops : 0..MaxDrops] /\ v \in Nat /\ spent.steps <= v
  <2>1. CASE Unlucky
    <3>1. /\ spent' \in [steps : 0..MaxSteps, drops : 0..MaxDrops]
          /\ spent'.steps = spent.steps + 1 /\ spent.steps \in Nat /\ spent'.steps \in Nat
      BY <1>1, <2>1, UnluckyIs
    <3> QED
      BY <3>1
  <2>2. CASE UNCHANGED spent
    BY <1>1, <2>2, StepsAre DEF ServerOK
  <2> QED
    BY <2>1, <2>2 DEF SendFails
<1>3. PartsOK(log, v)
  BY <1>2, CountedOn
<1> HIDE DEF v
<1> DEFINE t == [s EXCEPT !.waiting = FALSE]
<1>4. s \in Push /\ s.cid \in (-v)..(-1)
  BY <1>3 DEF PartsOK, SendsOK
<1>5. sends' = With(s, t) /\ t \in Push /\ t.cid = s.cid
  BY <1>4 DEF SendFails, Push
<1> HIDE DEF t
<1>6. SendsOK(sends', v)
  BY <1>3, <1>5, WithOK DEF PartsOK
<1>7. LineOK(timeline, log, v, sends)
  BY <1>3 DEF PartsOK
<1>8. timeline \in Seq(EntryType) /\ DOMAIN timeline = 1..Len(timeline) /\ Len(timeline) \in Nat
  BY <1>7 DEF LineOK
<1>9. \A i \in DOMAIN timeline : timeline[i].id = s.cid => UnsentEntry(timeline[i], v)
  <2>1. \A n \in DOMAIN log : n # s.cid
    <3>1. \A n \in DOMAIN log : n \in Nat \ {0}
      BY <1>1, MessageFields DEF ServerOK
    <3>2. s.cid < 0 /\ s.cid \in Int
      BY <1>2, <1>4
    <3> QED
      BY <3>1, <3>2
  <2> QED
    BY <1>7, <2>1 DEF LineOK, StoredEntry
<1> DEFINE mark(i) == IF timeline[i].id = s.cid THEN [timeline[i] EXCEPT !.state = "failed"] ELSE timeline[i]
<1>10. timeline' = [i \in DOMAIN timeline |-> mark(i)]
  BY DEF SendFails, MarkFailed
<1>11. \A i \in DOMAIN timeline :
          /\ mark(i) \in EntryType /\ mark(i).id = timeline[i].id
          /\ StoredEntry(mark(i), log) \/ UnsentEntry(mark(i), v)
          /\ mark(i).state = "pending" => timeline[i].state = "pending" /\ timeline[i].id # s.cid
  <2> SUFFICES ASSUME NEW i \in DOMAIN timeline
               PROVE  /\ mark(i) \in EntryType /\ mark(i).id = timeline[i].id
                      /\ StoredEntry(mark(i), log) \/ UnsentEntry(mark(i), v)
                      /\ mark(i).state = "pending" => timeline[i].state = "pending" /\ timeline[i].id # s.cid
    OBVIOUS
  <2>1. timeline[i] \in EntryType
    BY <1>8
  <2>2. CASE timeline[i].id = s.cid
    BY <1>9, <2>1, <2>2 DEF EntryType, UnsentEntry
  <2>3. CASE timeline[i].id # s.cid
    BY <1>7, <2>1, <2>3 DEF LineOK
  <2> QED
    BY <2>2, <2>3
<1> HIDE DEF mark
<1>12. timeline' \in Seq(EntryType) /\ DOMAIN timeline' = DOMAIN timeline
       /\ \A i \in DOMAIN timeline : timeline'[i] = mark(i)
  BY <1>8, <1>10, <1>11
<1>13. LineOK(timeline', log, v, sends')
  <2>1. \A i \in DOMAIN timeline' : StoredEntry(timeline'[i], log) \/ UnsentEntry(timeline'[i], v)
    BY <1>11, <1>12
  <2>2. Once(timeline', Excused(log))
    BY <1>7, <1>11, <1>12 DEF LineOK, Once
  <2>3. Awaited(timeline', sends')
    <3> SUFFICES ASSUME NEW i \in DOMAIN timeline, mark(i).state = "pending"
                 PROVE  \E r \in sends' : r.cid = mark(i).id /\ r.waiting
      BY <1>12 DEF Awaited
    <3>1. timeline[i].state = "pending" /\ timeline[i].id # s.cid /\ mark(i).id = timeline[i].id
      BY <1>11
    <3>2. PICK r \in sends : r.cid = timeline[i].id /\ r.waiting
      BY <1>7, <3>1 DEF LineOK, Awaited
    <3>3. r # s
      BY <3>1, <3>2
    <3> QED
      BY <1>5, <3>1, <3>2, <3>3 DEF With
  <2> QED
    BY <1>12, <2>1, <2>2, <2>3 DEF LineOK
<1>14. PartsOK(log, spent.steps)'
  BY <1>3, <1>6, <1>13 DEF PartsOK, SendFails, server, requests, v
<1>15. ServerOK'
  BY <1>1, <1>2 DEF ServerOK, SendFails, server, history
<1> QED
  BY <1>14, <1>15 DEF TInv, SendFails

-----------------------------------------------------------------------------
(* The invariant and what it says.                                         *)

LEMMA StutterInv ==
    ASSUME TInv, UNCHANGED vars
    PROVE  TInv'
<1>1. /\ UNCHANGED <<kind, log, thread, wire, link, sessions, timeline, reading, loadingOlder, known>>
      /\ UNCHANGED <<recon, refresh, queue, hydration, sends, synced, torn, lagging, spent>>
  BY DEF vars
<1>2. ServerOK' /\ (refresh.stage = "idle" => queue = <<>>)'
  BY <1>1 DEF TInv, ServerOK
<1>3. PartsOK(log, spent.steps)'
  BY <1>1 DEF TInv, PartsOK
<1> QED
  BY <1>2, <1>3 DEF TInv

LEMMA TInvNext ==
    ASSUME TInv, [Next]_vars
    PROVE  TInv'
<1>1. CASE \E rank \in {0, 1} : Post(rank)
  BY <1>1, PostInv
<1>2. CASE \E n \in DOMAIN log : CommandProgresses(n)
  BY <1>2, CommandProgressesInv
<1>3. CASE ThreadChanges
  BY <1>3, ThreadChangesInv
<1>4. CASE ReconcileServerBuffers
  BY <1>4, ReconcileServerBuffersInv
<1>5. CASE LoadOlder
  BY <1>5, LoadOlderInv
<1>6. CASE \E older \in BOOLEAN : SetReading(older)
  BY <1>6, SetReadingInv
<1>7. CASE Send
  BY <1>7, SendInv
<1>8. CASE \E i \in DOMAIN timeline : Retry(i)
  BY <1>8, RetryInv
<1>9. CASE \E s \in sends : SendServed(s) \/ SendFails(s)
  BY <1>9, SendServedInv, SendFailsInv
<1>10. CASE HydrationFails \/ ReconFails \/ RefreshFails \/ OlderFails
  BY <1>10, HydrationFailsInv, ReconFailsInv, RefreshFailsInv, OlderFailsInv
<1>11. CASE LinkLost
  BY <1>11, LinkLostInv
<1>12. CASE Serve
  <2>1. CASE HydrationServed \/ HydrationPage
    BY <2>1, HydrationServedInv, HydrationPageInv
  <2>2. CASE ReconServed \/ ReconApplied
    BY <2>2, ReconServedInv, ReconAppliedInv
  <2>3. CASE RefreshServed \/ RefreshApplied \/ RefreshSettles
    BY <2>3, RefreshServedInv, RefreshAppliedInv, RefreshSettlesInv
  <2>4. CASE OlderServed \/ OlderApplied
    BY <2>4, OlderServedInv, OlderAppliedInv
  <2>5. CASE ReceiveFrame \/ SendReplied \/ JoinOk
    BY <2>5, ReceiveFrameInv, SendRepliedInv, JoinOkInv
  <2> QED
    BY <1>12, <2>1, <2>2, <2>3, <2>4, <2>5 DEF Serve
<1>13. CASE UNCHANGED vars
  BY <1>13, StutterInv
<1> QED
  BY <1>1, <1>2, <1>3, <1>4, <1>5, <1>6, <1>7, <1>8, <1>9, <1>10, <1>11, <1>12, <1>13 DEF Next

LEMMA TInvAlways == Spec => []TInv
<1>1. Init => TInv
  BY TInvInit
<1>2. TInv /\ [Next]_vars => TInv'
  BY TInvNext
<1> QED
  BY <1>1, <1>2, PTL DEF Spec

\* The types of the whole: entries are stored messages or the user's own, no
\* stored message is shown as pending or failed, frames wait for a refresh
\* and for nothing else (the queue of use_realtime_connections), a history
\* is being fetched exactly when it says so, and a push is forgotten once
\* both the server and the client are done with it.
THEOREM TimelineTypeCorrect == Spec => []TypeOK
<1>1. TInv => TypeOK
  <2> SUFFICES ASSUME TInv
               PROVE  TypeOK
    OBVIOUS
  <2>1. ServerOK /\ PartsOK(log, spent.steps)
    BY DEF TInv
  <2>2. timeline \in Seq(EntryType)
    BY <2>1 DEF PartsOK, LineOK
  <2>3. \A i \in DOMAIN timeline : (timeline[i].state = "sent") <=> (timeline[i].id > 0)
    <3> SUFFICES ASSUME NEW i \in DOMAIN timeline
                 PROVE  (timeline[i].state = "sent") <=> (timeline[i].id > 0)
      OBVIOUS
    <3>1. CASE StoredEntry(timeline[i], log)
      <4>1. \A n \in DOMAIN log : n > 0
        BY <2>1, MessageFields DEF ServerOK
      <4> QED
        BY <3>1, <4>1 DEF StoredEntry
    <3>2. CASE UnsentEntry(timeline[i], spent.steps)
      <4>1. spent.steps \in Nat
        BY <2>1, StepsAre
      <4> QED
        BY <3>2, <4>1 DEF UnsentEntry
    <3> QED
      BY <2>1, <3>1, <3>2 DEF PartsOK, LineOK
  <2>4. /\ Len(log) <= MaxLog
        /\ loadingOlder.stage \in {"idle", "sent", "answered"}
        /\ recon.stage \in {"idle", "sent", "answered"}
        /\ refresh.stage \in {"idle", "sent", "answered", "waiting", "done"}
    BY <2>1 DEF ServerOK, PartsOK, OlderOK, ReconOK, RefreshOK
  <2>5. /\ hydration.busy <=> hydration.stage # "idle"
        /\ refresh.stage = "idle" => queue = <<>>
        /\ \A s \in sends : s.waiting \/ ~s.served
    BY <2>1 DEF TInv, PartsOK, HydrationOK, SendsOK
  <2> QED
    BY <2>2, <2>3, <2>4, <2>5 DEF TypeOK
<1> QED
  BY <1>1, TInvAlways, PTL

\* However pages, batches, frames, bootstraps and answers are interleaved, a
\* timeline shows two entries of one message only if the user sent it or a
\* command did: everybody else's messages appear once.  (A merge looks for
\* what it adds among what is on show, chat_store's mergeNewerMessages and
\* mergeOlderMessages, and an append replaces the copy it finds.)
THEOREM NothingShownTwice == Spec => []NoDuplicates
<1>1. TInv => NoDuplicates
  BY DEF TInv, PartsOK, LineOK, Once, Excused, NoDuplicates
<1> QED
  BY <1>1, TInvAlways, PTL

-----------------------------------------------------------------------------
(* What a timeline shows: the numbers of its messages, and statuses that   *)
(* are behind.  F is the set of the frames that are still to come.         *)

Late(e, l) == e.rank < l[e.id].rank
Tells(F, n, l) == MessageFrame(n, l[n].rank) \in F
Brought(F) == {f.id : f \in {g \in F : g.type = "message"}}
LateTold(tl, F, l) == \A i \in DOMAIN tl : tl[i].id > 0 /\ Late(tl[i], l) => Tells(F, tl[i].id, l)

Below(A, n) == A # {} /\ \A m \in A : n < m
Accounted(A, N, l) == \A n \in DOMAIN l : n \in A \/ n \in N \/ Below(A, n)

UnsentIds(tl) == {tl[i].id : i \in {j \in DOMAIN tl : tl[j].id < 0}}

\* What a cut leaves: nothing is dropped that stands above what is kept.
Kept(new, old) ==
    /\ \A i \in DOMAIN new : \E j \in DOMAIN old : new[i] = old[j]
    /\ Ids(old) # {} => Ids(new) # {}
    /\ \A n \in Ids(old) \ Ids(new) : Below(Ids(new), n)

LEMMA IdsAre ==
    ASSUME NEW tl, NEW l, NEW u, NEW S, LineOK(tl, l, u, S), l \in Seq(Message)
    PROVE  /\ \A n : n \in Ids(tl) <=> \E i \in DOMAIN tl : tl[i].id = n /\ tl[i].id > 0
           /\ \A n \in Ids(tl) : n \in DOMAIN l
           /\ \A i \in DOMAIN tl :
                  /\ tl[i].id \in Int /\ tl[i].rank \in Int /\ tl[i].at \in Int
                  /\ (tl[i].id > 0 \/ tl[i].id < 0)
                  /\ (tl[i].id > 0 => StoredEntry(tl[i], l) /\ tl[i].at = tl[i].id)
<1>1. tl \in Seq(EntryType) /\ MaxSteps \in Nat /\ MaxLog \in Nat
  BY BoundsAre DEF LineOK
<1>2. \A i \in DOMAIN tl : tl[i] \in EntryType /\ (StoredEntry(tl[i], l) \/ UnsentEntry(tl[i], u))
  BY <1>1 DEF LineOK
<1>3. \A n \in DOMAIN l : n \in Nat /\ n > 0
  BY MessageFields
<1>4. \A e \in EntryType : e.id \in Int /\ e.rank \in Int /\ e.at \in Int
  BY <1>1 DEF EntryType, Ranks
<1>5. \A i \in DOMAIN tl : tl[i].id > 0 \/ tl[i].id < 0
  BY <1>2, <1>3, <1>4 DEF StoredEntry, UnsentEntry
<1>6. \A i \in DOMAIN tl : tl[i].id > 0 => StoredEntry(tl[i], l)
  BY <1>2, <1>4 DEF UnsentEntry
<1>7. \A n : n \in Ids(tl) <=> \E i \in DOMAIN tl : tl[i].id = n /\ tl[i].id > 0
  BY <1>2, <1>4, <1>5 DEF Ids
<1> QED
  BY <1>2, <1>4, <1>5, <1>6, <1>7 DEF StoredEntry

LEMMA PageIdsAre ==
    ASSUME NEW q, NEW l, NEW X, PageOK(q, l, X), l \in Seq(Message)
    PROVE  /\ \A n : n \in Ids(q) <=> \E i \in DOMAIN q : q[i].id = n
           /\ \A n \in Ids(q) : n \in DOMAIN l
           /\ \A i \in DOMAIN q :
                  /\ q[i].id \in DOMAIN l /\ q[i].id \in Nat /\ q[i].id > 0
                  /\ q[i].rank \in Int /\ q[i].id \in Ids(q)
<1>1. \A i \in DOMAIN q : q[i].id \in DOMAIN l /\ q[i] \in EntryType
  BY DEF PageOK, StoredEntry
<1>2. \A n \in DOMAIN l : n \in Nat /\ n > 0
  BY MessageFields
<1>3. \A e \in EntryType : e.rank \in Int
  BY DEF EntryType, Ranks
<1>4. \A n : n \in Ids(q) <=> \E i \in DOMAIN q : q[i].id = n
  BY <1>1, <1>2 DEF Ids
<1> QED
  BY <1>1, <1>2, <1>3, <1>4

LEMMA UnsentAre ==
    ASSUME NEW tl, NEW l, NEW u \in Nat, NEW S, LineOK(tl, l, u, S), l \in Seq(Message)
    PROVE  /\ UnsentIds(tl) \subseteq (-u)..(-1)
           /\ IsFiniteSet(UnsentIds(tl)) /\ Cardinality(UnsentIds(tl)) \in Nat
<1>1. UnsentIds(tl) \subseteq (-u)..(-1)
  <2> SUFFICES ASSUME NEW i \in DOMAIN tl, tl[i].id < 0
               PROVE  tl[i].id \in (-u)..(-1)
    BY DEF UnsentIds
  <2>1. ~StoredEntry(tl[i], l)
    BY MessageFields DEF StoredEntry
  <2> QED
    BY <2>1 DEF LineOK, UnsentEntry
<1>2. IsFiniteSet((-u)..(-1))
  BY FS_Interval
<1> QED
  BY <1>1, <1>2, FS_Subset, FS_CardinalityType

LEMMA KeptKeeps ==
    ASSUME NEW new, NEW old, Kept(new, old)
    PROVE  /\ Ids(new) \subseteq Ids(old) /\ UnsentIds(new) \subseteq UnsentIds(old)
           /\ \A F, l : LateTold(old, F, l) => LateTold(new, F, l)
           /\ \A N, l : Accounted(Ids(old), N, l) => Accounted(Ids(new), N, l)
<1>1. \A i \in DOMAIN new : \E j \in DOMAIN old : new[i] = old[j]
  BY DEF Kept
<1>2. Ids(new) \subseteq Ids(old) /\ UnsentIds(new) \subseteq UnsentIds(old)
  BY <1>1 DEF Ids, UnsentIds
<1>3. \A F, l : LateTold(old, F, l) => LateTold(new, F, l)
  BY <1>1 DEF LateTold
<1>4. ASSUME NEW N, NEW l, Accounted(Ids(old), N, l), NEW n \in DOMAIN l
      PROVE  n \in Ids(new) \/ n \in N \/ Below(Ids(new), n)
  <2>1. CASE n \in Ids(old)
    BY <2>1 DEF Kept
  <2>2. CASE Below(Ids(old), n)
    BY <1>2, <2>2 DEF Below, Kept
  <2> QED
    BY <1>4, <2>1, <2>2 DEF Accounted
<1>5. \A N, l : Accounted(Ids(old), N, l) => Accounted(Ids(new), N, l)
  BY <1>4 DEF Accounted
<1> QED
  BY <1>2, <1>3, <1>5

\* A cut to the limit, of a timeline in order or of one where the history
\* has no entry for it: unsent messages are fewer than the limit.
LEMMA TrimKeeps ==
    ASSUME NEW tl, NEW l, NEW u \in Nat, NEW S, LineOK(tl, l, u, S), l \in Seq(Message),
           Cardinality(UnsentIds(tl)) <= MaxUnsent,
           \/ \A i, j \in DOMAIN tl : i <= j => tl[i].at <= tl[j].at
           \/ ~Cuts(tl, RenderLimit)
    PROVE  Kept(TrimToLimit(tl, RenderLimit), tl)
<1>1. tl \in Seq(EntryType) /\ Len(tl) \in Nat /\ DOMAIN tl = 1..Len(tl) /\ RenderLimit \in Nat
      /\ MaxUnsent < RenderLimit /\ MaxUnsent \in Nat
  BY TimelineAssumption DEF LineOK, TimelineAssumption
<1>0. /\ \A n : n \in Ids(tl) <=> \E i \in DOMAIN tl : tl[i].id = n /\ tl[i].id > 0
      /\ \A i \in DOMAIN tl :
             /\ tl[i].id \in Int /\ tl[i].at \in Int
             /\ (tl[i].id > 0 \/ tl[i].id < 0)
             /\ (tl[i].id > 0 => tl[i].at = tl[i].id)
  BY IdsAre
<1>2. CASE Len(tl) <= RenderLimit
  BY <1>2 DEF TrimToLimit, Kept
<1>3. CASE ~(Len(tl) <= RenderLimit)
  <2> DEFINE d == Len(tl) - RenderLimit
             new == SubSeq(tl, d + 1, Len(tl))
  <2>1. d \in Nat /\ d + 1 \in Int /\ \A i \in (d + 1)..Len(tl) : tl[i] \in EntryType
    BY <1>1, <1>3
  <2>2. DOMAIN new = 1..RenderLimit /\ \A i \in 1..RenderLimit : new[i] = tl[d + i]
    <3>1. /\ new \in Seq(EntryType)
          /\ Len(new) = IF d + 1 <= Len(tl) THEN Len(tl) - (d + 1) + 1 ELSE 0
          /\ \A i \in 1..(Len(tl) - (d + 1) + 1) : new[i] = tl[(d + 1) + i - 1]
      <4> HIDE DEF d
      <4> QED
        BY <1>1, <2>1, SubSeqProperties
    <3>2. Len(tl) - (d + 1) + 1 = RenderLimit /\ \A i \in 1..RenderLimit : (d + 1) + i - 1 = d + i
      BY <1>1
    <3>3. Len(new) = RenderLimit
      BY <1>1, <1>3, <3>1
    <3> QED
      BY <3>1, <3>2, <3>3
  <2>3. TrimToLimit(tl, RenderLimit) = new
    BY <1>3 DEF TrimToLimit
  <2>4. \A i \in 1..RenderLimit : d + i \in DOMAIN tl
    BY <1>1, <1>3
  <2>5. Len(tl) = d + RenderLimit
    BY <1>1
  <2> HIDE DEF new, d
  <2>6. \A j \in DOMAIN tl : j > d => j - d \in 1..RenderLimit /\ d + (j - d) = j
    BY <1>1, <2>1, <2>5
  <2>7. Ids(new) # {}
    <3> SUFFICES ASSUME Ids(new) = {}
                 PROVE  FALSE
      OBVIOUS
    <3> DEFINE P == 1..RenderLimit
               f == [i \in P |-> tl[d + i].id]
    <3>1. \A i \in P : tl[d + i].id < 0
      <4> SUFFICES ASSUME NEW i \in P, ~(tl[d + i].id < 0)
                   PROVE  FALSE
        OBVIOUS
      <4>1. tl[d + i].id > 0 /\ tl[d + i].id \in Nat
        BY <1>0, <2>4
      <4>2. new[i].id \in Ids(new)
        BY <2>2, <4>1 DEF Ids
      <4> QED
        BY <4>2
    <3>2. f \in [P -> UnsentIds(tl)]
      BY <2>4, <3>1 DEF UnsentIds
    <3>3. IsFiniteSet(P) /\ Cardinality(P) = RenderLimit
      <4>1. 1 \in Int /\ RenderLimit \in Int /\ (1 > RenderLimit => RenderLimit = 0)
            /\ RenderLimit - 1 + 1 = RenderLimit
        BY <1>1
      <4>2. Cardinality(P) = IF 1 > RenderLimit THEN 0 ELSE RenderLimit - 1 + 1
        BY <4>1, FS_Interval, Zenon
      <4> QED
        BY <4>1, <4>2, FS_Interval
    <3>4. IsFiniteSet(UnsentIds(tl)) /\ Cardinality(UnsentIds(tl)) < Cardinality(P)
      BY <1>1, <3>3, UnsentAre
    <3> HIDE DEF P
    <3>5. PICK x, y \in P : x # y /\ f[x] = f[y]
      <4> HIDE DEF f
      <4> QED
        BY <3>2, <3>3, <3>4, FS_PigeonHole
    <3>6. tl[d + x].id = tl[d + y].id /\ d + x \in DOMAIN tl /\ d + y \in DOMAIN tl /\ d + x # d + y
      BY <2>1, <2>4, <3>5 DEF P
    <3>7. tl[d + x].id \in Excused(l)
      BY <3>6 DEF LineOK, Once
    <3> QED
      BY <3>1, <3>5, <3>7, MessageFields DEF Excused
  <2>8. ASSUME NEW n \in Ids(tl) \ Ids(new)
        PROVE  Below(Ids(new), n)
    <3> SUFFICES ASSUME NEW m \in Ids(new)
                 PROVE  n < m
      BY <2>7 DEF Below
    <3>1. n \in Nat /\ m \in Nat /\ n # m
      BY <2>8 DEF Ids
    <3>2. PICK i \in DOMAIN tl : tl[i].id = n
      BY <2>8 DEF Ids
    <3>3. PICK k \in 1..RenderLimit : new[k].id = m
      BY <2>2 DEF Ids
    <3>4. i <= d
      <4> SUFFICES ASSUME i > d
                   PROVE  FALSE
        BY <1>1, <2>1
      <4>1. new[i - d] = tl[i] /\ i - d \in DOMAIN new
        BY <2>2, <2>6
      <4>2. n \in Ids(new)
        BY <3>1, <3>2, <4>1 DEF Ids
      <4> QED
        BY <2>8, <4>2
    <3>5. CASE \A a, b \in DOMAIN tl : a <= b => tl[a].at <= tl[b].at
      <4>1. tl[d + k].id = m /\ d + k \in DOMAIN tl /\ i <= d + k
        <5>1. d \in Int /\ k \in Int /\ i \in Int /\ k >= 1
          BY <1>1, <2>1
        <5> QED
          BY <2>2, <2>4, <3>3, <3>4, <5>1
      <4>2. tl[i].at <= tl[d + k].at
        BY <3>5, <4>1
      <4>3. n > 0 /\ m > 0
        BY <1>0, <3>1, <3>2, <4>1
      <4>4. tl[i].at = n /\ tl[d + k].at = m
        BY <1>0, <3>2, <4>1, <4>3
      <4> QED
        BY <3>1, <4>2, <4>4
    <3>6. CASE ~Cuts(tl, RenderLimit)
      <4>1. ~(m < n)
        BY <2>3, <2>8, <3>6 DEF Cuts
      <4> QED
        BY <3>1, <4>1
    <3> QED
      BY <3>5, <3>6
  <2>9. \A i \in DOMAIN new : \E j \in DOMAIN tl : new[i] = tl[j]
    BY <2>2, <2>4
  <2> QED
    BY <2>3, <2>7, <2>8, <2>9 DEF Kept
<1> QED
  BY <1>2, <1>3

LEMMA SortedShows ==
    ASSUME NEW tl \in Seq(EntryType)
    PROVE  /\ Ids(Sorted(tl)) = Ids(tl) /\ UnsentIds(Sorted(tl)) = UnsentIds(tl)
           /\ \A k \in DOMAIN Sorted(tl) : \E i \in DOMAIN tl : Sorted(tl)[k] = tl[i]
           /\ \A i, j \in DOMAIN Sorted(tl) : i <= j => Sorted(tl)[i].at <= Sorted(tl)[j].at
<1> DEFINE new == Sorted(tl)
<1>1. /\ DOMAIN new = DOMAIN tl
      /\ \A i, j \in DOMAIN tl : i <= j => new[i].at <= new[j].at
      /\ \A k \in DOMAIN tl : \E i \in DOMAIN tl : new[k] = tl[i]
      /\ \A i \in DOMAIN tl : \E k \in DOMAIN tl : new[k] = tl[i]
  <2>1. PICK p \in [DOMAIN tl -> DOMAIN tl] :
            /\ \A i \in DOMAIN tl : \E k \in DOMAIN tl : p[k] = i
            /\ \A k \in DOMAIN tl : new[k] = tl[p[k]]
    BY SortedPermutes, Zenon
  <2>2. DOMAIN new = DOMAIN tl /\ \A i, j \in DOMAIN tl : i <= j => new[i].at <= new[j].at
    BY SortedPermutes, Zenon
  <2> HIDE DEF new
  <2>3. \A k \in DOMAIN tl : p[k] \in DOMAIN tl
    OBVIOUS
  <2>4. \A k \in DOMAIN tl : \E i \in DOMAIN tl : new[k] = tl[i]
    BY <2>1, <2>3
  <2>5. \A i \in DOMAIN tl : \E k \in DOMAIN tl : new[k] = tl[i]
    <3> TAKE i \in DOMAIN tl
    <3>1. PICK k \in DOMAIN tl : p[k] = i
      BY <2>1
    <3> QED
      BY <2>1, <3>1
  <2> QED
    BY <2>2, <2>4, <2>5
<1> HIDE DEF new
<1>3. Ids(new) = Ids(tl)
  <2>1. ASSUME NEW n
        PROVE  n \in Ids(new) <=> n \in Ids(tl)
    <3>1. n \in Ids(new) <=> n \in Nat /\ \E k \in DOMAIN tl : new[k].id = n
      BY <1>1 DEF Ids
    <3>2. n \in Ids(tl) <=> n \in Nat /\ \E k \in DOMAIN tl : tl[k].id = n
      BY DEF Ids
    <3> QED
      BY <1>1, <3>1, <3>2
  <2> QED
    BY <2>1
<1>4. UnsentIds(new) = UnsentIds(tl)
  <2>1. ASSUME NEW n
        PROVE  n \in UnsentIds(new) <=> n \in UnsentIds(tl)
    <3>1. n \in UnsentIds(new) <=> \E k \in DOMAIN tl : new[k].id < 0 /\ new[k].id = n
      BY <1>1 DEF UnsentIds
    <3>2. n \in UnsentIds(tl) <=> \E k \in DOMAIN tl : tl[k].id < 0 /\ tl[k].id = n
      BY DEF UnsentIds
    <3> QED
      BY <1>1, <3>1, <3>2
  <2> QED
    BY <2>1
<1> QED
  BY <1>1, <1>3, <1>4 DEF new

\* What a merge shows: everything both had, a status never set back, and
\* what is new to the timeline as the page has it.
Merges(new, tl, page) ==
    /\ Ids(new) = Ids(tl) \cup Ids(page)
    /\ UnsentIds(new) \subseteq UnsentIds(tl)
    /\ \A k \in DOMAIN new :
           \/ /\ new[k].rank \in Int
              /\ \E i \in DOMAIN tl : new[k].id = tl[i].id /\ tl[i].rank <= new[k].rank
           \/ \E i \in DOMAIN Fresh(tl, page) : new[k] = Fresh(tl, page)[i]

LEMMA FreshCovers ==
    ASSUME NEW tl, NEW page, NEW l, NEW X, PageOK(page, l, X), l \in Seq(Message)
    PROVE  /\ \A i \in DOMAIN page : page[i].id \in Ids(tl)
                  \/ \E k \in DOMAIN Fresh(tl, page) : Fresh(tl, page)[k] = page[i]
           /\ \A k \in DOMAIN Fresh(tl, page) : \E i \in DOMAIN page : Fresh(tl, page)[k] = page[i]
<1> DEFINE I == {i \in DOMAIN page : page[i].id \notin Ids(tl)}
           q == Picked(page, I)
<1>1. page \in Seq(EntryType) /\ Len(page) \in Nat /\ DOMAIN page = 1..Len(page)
  BY DEF PageOK
<1>2. I \subseteq 1..Len(page) /\ \A i \in I : page[i] \in EntryType
  BY <1>1
<1>3. \A i \in DOMAIN page : page[i].id \in Ids(tl) \/ i \in I
  OBVIOUS
<1>4. I \subseteq DOMAIN page
  OBVIOUS
<1>5. Fresh(tl, page) = q
  BY DEF Fresh
<1> HIDE DEF I
<1>6. Picks(q, page, I)
  BY <1>1, <1>2, PickedKeeps, Zenon
<1> HIDE DEF q
<1>7. \A k \in DOMAIN q : Nth(I, k) \in I /\ q[k] = page[Nth(I, k)]
  BY <1>6 DEF Picks
<1>8. \A i \in I : \E k \in DOMAIN q : Nth(I, k) = i
  BY <1>6 DEF Picks
<1>9. \A i \in I : \E k \in DOMAIN q : q[k] = page[i]
  BY <1>7, <1>8
<1> QED
  BY <1>3, <1>4, <1>5, <1>7, <1>9

LEMMA ConcatIs ==
    ASSUME NEW T, NEW a, NEW b, a \in Seq(T), b \in Seq(T), NEW c, c = a \o b
    PROVE  /\ Len(a) \in Nat /\ Len(b) \in Nat /\ DOMAIN a = 1..Len(a) /\ DOMAIN b = 1..Len(b)
           /\ c \in Seq(T) /\ Len(c) = Len(a) + Len(b) /\ DOMAIN c = 1..Len(c)
           /\ \A k \in 1..Len(c) : c[k] = IF k <= Len(a) THEN a[k] ELSE b[k - Len(a)]
BY ConcatProperties

\* Where the entries of a concatenation come from, and that it has them all.
LEMMA ConcatFrom ==
    ASSUME NEW T, NEW a, NEW b, a \in Seq(T), b \in Seq(T), NEW c, c = a \o b, NEW k \in DOMAIN c
    PROVE  (\E i \in DOMAIN a : c[k] = a[i]) \/ \E i \in DOMAIN b : c[k] = b[i]
<1>1. /\ Len(a) \in Nat /\ Len(b) \in Nat /\ DOMAIN a = 1..Len(a) /\ DOMAIN b = 1..Len(b)
      /\ Len(c) = Len(a) + Len(b) /\ DOMAIN c = 1..Len(c)
      /\ \A j \in 1..Len(c) : c[j] = IF j <= Len(a) THEN a[j] ELSE b[j - Len(a)]
  BY ConcatIs
<1>2. CASE k <= Len(a)
  BY <1>1, <1>2
<1>3. CASE ~(k <= Len(a))
  <2>1. k - Len(a) \in DOMAIN b /\ c[k] = b[k - Len(a)]
    BY <1>1, <1>3
  <2> QED
    BY <2>1
<1> QED
  BY <1>2, <1>3

LEMMA ConcatHolds ==
    ASSUME NEW T, NEW a, NEW b, a \in Seq(T), b \in Seq(T), NEW c, c = a \o b
    PROVE  /\ \A i \in DOMAIN a : i \in DOMAIN c /\ c[i] = a[i]
           /\ \A i \in DOMAIN b : Len(a) + i \in DOMAIN c /\ c[Len(a) + i] = b[i]
<1>1. /\ Len(a) \in Nat /\ Len(b) \in Nat /\ DOMAIN a = 1..Len(a) /\ DOMAIN b = 1..Len(b)
      /\ Len(c) = Len(a) + Len(b) /\ DOMAIN c = 1..Len(c)
      /\ \A j \in 1..Len(c) : c[j] = IF j <= Len(a) THEN a[j] ELSE b[j - Len(a)]
  BY ConcatIs
<1>2. \A i \in DOMAIN a : i \in DOMAIN c /\ c[i] = a[i]
  BY <1>1
<1>3. ASSUME NEW i \in DOMAIN b
      PROVE  Len(a) + i \in DOMAIN c /\ c[Len(a) + i] = b[i]
  <2>1. Len(a) + i \in 1..Len(c) /\ ~(Len(a) + i <= Len(a)) /\ Len(a) + i - Len(a) = i
    BY <1>1
  <2> QED
    BY <1>1, <2>1
<1> QED
  BY <1>2, <1>3

LEMMA RefreshedShows ==
    ASSUME NEW tl, NEW page, NEW l, NEW u, NEW S, LineOK(tl, l, u, S), l \in Seq(Message)
    PROVE  /\ DOMAIN Refreshed(tl, page) = DOMAIN tl
           /\ \A i \in DOMAIN tl :
                  Refreshed(tl, page)[i].id = tl[i].id /\ tl[i].rank <= Refreshed(tl, page)[i].rank
<1> SUFFICES ASSUME NEW i \in DOMAIN tl
             PROVE  Refreshed(tl, page)[i].id = tl[i].id /\ tl[i].rank <= Refreshed(tl, page)[i].rank
  BY DEF Refreshed
<1> DEFINE N == {j \in DOMAIN page : page[j].id = tl[i].id /\ page[j].rank >= tl[i].rank}
           e == Refreshed(tl, page)[i]
<1>1. e = IF tl[i].id > 0 /\ N # {} THEN page[CHOOSE j \in N : TRUE] ELSE tl[i]
  BY DEF Refreshed
<1>2. tl[i].rank \in Int
  BY IdsAre
<1> HIDE DEF e
<1>3. CASE N = {} \/ ~(tl[i].id > 0)
  BY <1>1, <1>2, <1>3 DEF e
<1>4. CASE N # {} /\ tl[i].id > 0
  <2>1. (CHOOSE j \in N : TRUE) \in N
    BY <1>4
  <2>2. PICK j \in N : e = page[j]
    BY <1>1, <1>4, <2>1
  <2>3. page[j].id = tl[i].id /\ page[j].rank >= tl[i].rank
    BY <2>2
  <2> QED
    BY <2>2, <2>3 DEF e
<1> QED
  BY <1>3, <1>4

LEMMA MidMerges ==
    ASSUME NEW tl, NEW page, NEW mid, NEW l, NEW u, NEW S, NEW X, LineOK(tl, l, u, S),
           PageOK(page, l, X), l \in Seq(Message),
           \A k \in DOMAIN mid : \/ \E i \in DOMAIN Refreshed(tl, page) : mid[k] = Refreshed(tl, page)[i]
                                 \/ \E i \in DOMAIN Fresh(tl, page) : mid[k] = Fresh(tl, page)[i],
           \A i \in DOMAIN Refreshed(tl, page) : \E k \in DOMAIN mid : mid[k] = Refreshed(tl, page)[i],
           \A i \in DOMAIN Fresh(tl, page) : \E k \in DOMAIN mid : mid[k] = Fresh(tl, page)[i]
    PROVE  Merges(mid, tl, page)
<1> DEFINE old == Refreshed(tl, page)
           new == Fresh(tl, page)
<1>1. /\ DOMAIN old = DOMAIN tl
      /\ \A i \in DOMAIN tl : old[i].id = tl[i].id /\ tl[i].rank <= old[i].rank
      /\ \A i \in DOMAIN tl : old[i].rank \in Int
  <2>1. LineOK(old, l, u, S) /\ DOMAIN old = DOMAIN tl
    BY RefreshedLine
  <2>2. \A i \in DOMAIN tl : old[i].id = tl[i].id /\ tl[i].rank <= old[i].rank
    BY RefreshedShows
  <2> HIDE DEF old
  <2>3. \A i \in DOMAIN old : old[i].rank \in Int
    BY <2>1, IdsAre
  <2> QED
    BY <2>1, <2>2, <2>3
<1>2. /\ \A i \in DOMAIN page : page[i].id \in Ids(tl) \/ \E k \in DOMAIN new : new[k] = page[i]
      /\ \A k \in DOMAIN new : \E i \in DOMAIN page : new[k] = page[i]
  BY FreshCovers
<1>3. /\ \A n : n \in Ids(page) <=> \E i \in DOMAIN page : page[i].id = n
      /\ \A i \in DOMAIN page : page[i].id \in Nat /\ page[i].id > 0
  BY PageIdsAre
<1>4. /\ \A k \in DOMAIN mid : (\E i \in DOMAIN old : mid[k] = old[i]) \/ \E i \in DOMAIN new : mid[k] = new[i]
      /\ \A i \in DOMAIN old : \E k \in DOMAIN mid : mid[k] = old[i]
      /\ \A i \in DOMAIN new : \E k \in DOMAIN mid : mid[k] = new[i]
  OBVIOUS
<1> HIDE DEF old, new
<1>5. ASSUME NEW n \in Ids(mid)
      PROVE  n \in Ids(tl) \cup Ids(page)
  <2>1. n \in Nat
    BY <1>5 DEF Ids
  <2>2. PICK k \in DOMAIN mid : mid[k].id = n
    BY <1>5 DEF Ids
  <2>3. CASE \E i \in DOMAIN old : mid[k] = old[i]
    BY <1>1, <2>1, <2>2, <2>3 DEF Ids
  <2>4. CASE \E i \in DOMAIN new : mid[k] = new[i]
    BY <1>2, <1>3, <2>2, <2>4
  <2> QED
    BY <1>4, <2>3, <2>4
<1>6. ASSUME NEW n \in Ids(tl)
      PROVE  n \in Ids(mid)
  <2>1. PICK i \in DOMAIN tl : tl[i].id = n /\ n \in Nat
    BY <1>6 DEF Ids
  <2>2. PICK k \in DOMAIN mid : mid[k] = old[i]
    BY <1>1, <1>4
  <2>3. mid[k].id = n
    BY <1>1, <2>1, <2>2
  <2> QED
    BY <2>1, <2>3 DEF Ids
<1>7. ASSUME NEW n \in Ids(page)
      PROVE  n \in Ids(mid)
  <2>1. PICK i \in DOMAIN page : page[i].id = n /\ n \in Nat
    BY <1>3, <1>7
  <2>2. CASE page[i].id \in Ids(tl)
    BY <1>6, <2>1, <2>2
  <2>3. CASE \E k \in DOMAIN new : new[k] = page[i]
    <3>1. \E k \in DOMAIN mid : mid[k] = page[i]
      BY <1>4, <2>3
    <3> QED
      BY <2>1, <3>1 DEF Ids
  <2> QED
    BY <1>2, <2>2, <2>3
<1>8. Ids(mid) = Ids(tl) \cup Ids(page)
  BY <1>5, <1>6, <1>7
<1>9. ASSUME NEW n \in UnsentIds(mid)
      PROVE  n \in UnsentIds(tl)
  <2>1. PICK k \in DOMAIN mid : mid[k].id = n /\ n < 0
    BY <1>9 DEF UnsentIds
  <2>2. CASE \E i \in DOMAIN new : mid[k] = new[i]
    <3>1. n \in Nat
      BY <1>2, <1>3, <2>1, <2>2
    <3> QED
      BY <2>1, <3>1
  <2>3. CASE \E i \in DOMAIN old : mid[k] = old[i]
    BY <1>1, <2>1, <2>3 DEF UnsentIds
  <2> QED
    BY <1>4, <2>2, <2>3
<1>10. \A k \in DOMAIN mid :
           \/ /\ mid[k].rank \in Int
              /\ \E i \in DOMAIN tl : mid[k].id = tl[i].id /\ tl[i].rank <= mid[k].rank
           \/ \E i \in DOMAIN new : mid[k] = new[i]
  BY <1>1, <1>4
<1> QED
  BY <1>8, <1>9, <1>10 DEF Merges, new

LEMMA SortedMerges ==
    ASSUME NEW tl, NEW page, NEW q \in Seq(EntryType), NEW l, NEW u, NEW S, NEW X, LineOK(tl, l, u, S),
           PageOK(page, l, X), l \in Seq(Message),
           \/ q = Refreshed(tl, page) \o Fresh(tl, page)
           \/ q = Fresh(tl, page) \o Refreshed(tl, page)
    PROVE  Merges(Sorted(q), tl, page)
<1>1. Refreshed(tl, page) \in Seq(EntryType)
  BY RefreshedLine DEF LineOK
<1>2. Fresh(tl, page) \in Seq(EntryType)
  BY FreshIs DEF PageOK
<1> DEFINE old == Refreshed(tl, page)
           new == Fresh(tl, page)
<1>3. q = old \o new \/ q = new \o old
  OBVIOUS
<1> HIDE DEF old, new
<1>4. /\ \A k \in DOMAIN q : (\E i \in DOMAIN old : q[k] = old[i]) \/ \E i \in DOMAIN new : q[k] = new[i]
      /\ \A i \in DOMAIN old : \E k \in DOMAIN q : q[k] = old[i]
      /\ \A i \in DOMAIN new : \E k \in DOMAIN q : q[k] = new[i]
  <2>1. old \in Seq(EntryType) /\ new \in Seq(EntryType)
    BY <1>1, <1>2 DEF old, new
  <2>2. \A k \in DOMAIN q : (\E i \in DOMAIN old : q[k] = old[i]) \/ \E i \in DOMAIN new : q[k] = new[i]
    <3> TAKE k \in DOMAIN q
    <3>1. CASE q = old \o new
      BY <2>1, <3>1, ConcatFrom
    <3>2. CASE q = new \o old
      <4>1. (\E i \in DOMAIN new : q[k] = new[i]) \/ \E i \in DOMAIN old : q[k] = old[i]
        BY ONLY <2>1, <3>2, k \in DOMAIN q, ConcatFrom
      <4> QED
        BY <4>1
    <3> QED
      BY <1>3, <3>1, <3>2
  <2>4. \A i \in DOMAIN old : \E k \in DOMAIN q : q[k] = old[i]
    <3> TAKE i \in DOMAIN old
    <3>1. CASE q = old \o new
      <4>1. i \in DOMAIN q /\ q[i] = old[i]
        BY <2>1, <3>1, ConcatHolds
      <4> QED
        BY <4>1
    <3>2. CASE q = new \o old
      <4>1. Len(new) + i \in DOMAIN q /\ q[Len(new) + i] = old[i]
        BY <2>1, <3>2, ConcatHolds
      <4> QED
        BY <4>1
    <3> QED
      BY <1>3, <3>1, <3>2
  <2>5. \A i \in DOMAIN new : \E k \in DOMAIN q : q[k] = new[i]
    <3> TAKE i \in DOMAIN new
    <3>1. CASE q = old \o new
      <4>1. Len(old) + i \in DOMAIN q /\ q[Len(old) + i] = new[i]
        BY <2>1, <3>1, ConcatHolds
      <4> QED
        BY <4>1
    <3>2. CASE q = new \o old
      <4>1. i \in DOMAIN q /\ q[i] = new[i]
        BY <2>1, <3>2, ConcatHolds
      <4> QED
        BY <4>1
    <3> QED
      BY <1>3, <3>1, <3>2
  <2> QED
    BY <2>2, <2>4, <2>5, Zenon
<1>5. Merges(q, tl, page)
  BY <1>4, MidMerges DEF old, new
<1> DEFINE s == Sorted(q)
<1>6. /\ Ids(s) = Ids(q) /\ UnsentIds(s) = UnsentIds(q)
      /\ \A k \in DOMAIN s : \E i \in DOMAIN q : s[k] = q[i]
  BY SortedShows
<1> HIDE DEF s
<1> QED
  BY <1>5, <1>6 DEF Merges, s

\* What the two merges show: the merge, and for a channel a cut of it.
LEMMA MergedShows ==
    ASSUME NEW tl, NEW page, NEW l, NEW u \in Nat, NEW S, NEW X, LineOK(tl, l, u, S), PageOK(page, l, X),
           X \subseteq Excused(l), l \in Seq(Message), Cardinality(UnsentIds(tl)) <= MaxUnsent
    PROVE  /\ Merges(MergeOlder(page, tl), tl, page)
           /\ \E mid : /\ Merges(mid, tl, page)
                       /\ Kept(MergeNewer(tl, page), mid)
                       /\ kind = "direct" => MergeNewer(tl, page) = mid
<1> DEFINE old == Refreshed(tl, page)
           new == Fresh(tl, page)
           q == old \o new
           mid == Sorted(q)
<1>1. LineOK(old, l, u, S) /\ LineOK(new, l, u, S)
      /\ \A i \in DOMAIN new : \A j \in DOMAIN old : new[i].id # old[j].id /\ old[j].id # new[i].id
  <2>1. /\ LineOK(old, l, u, S) /\ DOMAIN old = DOMAIN tl
        /\ \A j \in DOMAIN tl : old[j].id = tl[j].id
    BY RefreshedLine
  <2>2. PageOK(new, l, X) /\ \A i \in DOMAIN new : \A j \in DOMAIN tl : new[i].id # tl[j].id
    BY FreshIs
  <2>3. LineOK(new, l, u, S)
    BY <2>2, PageIsLine
  <2> HIDE DEF old, new
  <2> QED
    BY <2>1, <2>2, <2>3
<1>2. LineOK(old \o new, l, u, S) /\ LineOK(new \o old, l, u, S)
  <2> HIDE DEF old, new
  <2> QED
    BY <1>1, JoinedLine
<1>3. q \in Seq(EntryType) /\ new \o old \in Seq(EntryType)
  BY <1>2 DEF LineOK
<1>4. Merges(MergeOlder(page, tl), tl, page)
  BY <1>3, SortedMerges DEF MergeOlder
<1>5. Merges(mid, tl, page)
  BY <1>3, SortedMerges
<1>6. LineOK(mid, l, u, S)
  BY <1>2, SortedLine
<1>7. \A i, j \in DOMAIN mid : i <= j => mid[i].at <= mid[j].at
  BY <1>3, SortedShows
<1>8. MergeNewer(tl, page) = IF kind = "direct" THEN mid ELSE TrimToLimit(mid, RenderLimit)
  BY DEF MergeNewer
<1> HIDE DEF mid, q, old, new
<1>9. Cardinality(UnsentIds(mid)) <= MaxUnsent
  <2>1. UnsentIds(mid) \in SUBSET UnsentIds(tl)
    BY <1>5 DEF Merges
  <2>2. IsFiniteSet(UnsentIds(tl)) /\ Cardinality(UnsentIds(tl)) \in Nat
    BY UnsentAre
  <2>3. IsFiniteSet(UnsentIds(mid)) /\ Cardinality(UnsentIds(mid)) <= Cardinality(UnsentIds(tl))
    BY <2>1, <2>2, FS_Subset
  <2>4. Cardinality(UnsentIds(mid)) \in Nat /\ MaxUnsent \in Nat
    BY <2>3, FS_CardinalityType, TimelineAssumption DEF TimelineAssumption
  <2> QED
    BY <2>2, <2>3, <2>4
<1>10. Kept(MergeNewer(tl, page), mid)
  <2>1. Kept(TrimToLimit(mid, RenderLimit), mid)
    BY <1>6, <1>7, <1>9, TrimKeeps
  <2>2. Kept(mid, mid)
    BY DEF Kept
  <2> QED
    BY <1>8, <2>1, <2>2
<1> QED
  BY <1>4, <1>5, <1>8, <1>10

\* An entry in the place of every entry of a number.
Renews(new, tl, n, e) ==
    DOMAIN new = DOMAIN tl /\ \A i \in DOMAIN tl : new[i] = IF tl[i].id = n THEN e ELSE tl[i]

LEMMA RenewedShows ==
    ASSUME NEW tl, NEW n, NEW e, NEW l, NEW u, NEW S, LineOK(tl, l, u, S), StoredEntry(e, l),
           l \in Seq(Message), n = e.id \/ n < 0,
           NEW new, Renews(new, tl, n, e)
    PROVE  /\ Ids(tl) \subseteq Ids(new) /\ Ids(new) \subseteq Ids(tl) \cup {e.id}
           /\ (\E i \in DOMAIN tl : tl[i].id = n) => e.id \in Ids(new)
           /\ UnsentIds(new) \subseteq UnsentIds(tl)
           /\ \A k \in DOMAIN new : new[k] = e \/ (k \in DOMAIN tl /\ new[k] = tl[k] /\ tl[k].id # n)
<1>1. e.id \in Nat /\ e.id > 0
  BY MessageFields DEF StoredEntry
<1>2. \A k \in DOMAIN new : new[k] = e \/ (k \in DOMAIN tl /\ new[k] = tl[k] /\ tl[k].id # n)
  BY DEF Renews
<1>3. DOMAIN new = DOMAIN tl /\ \A k \in DOMAIN tl : new[k] = IF tl[k].id = n THEN e ELSE tl[k]
  BY DEF Renews
<1>4. \A m : m \in Ids(tl) <=> \E i \in DOMAIN tl : tl[i].id = m /\ tl[i].id > 0
  BY IdsAre
<1>5. \A i \in DOMAIN tl : tl[i].id \in Int
  BY IdsAre
<1>6. ASSUME NEW m \in Ids(tl)
      PROVE  m \in Ids(new)
  <2>1. PICK i \in DOMAIN tl : tl[i].id = m /\ tl[i].id > 0 /\ m \in Nat
    BY <1>4, <1>5, <1>6
  <2>2. new[i].id = m
    BY <1>1, <1>3, <2>1
  <2> QED
    BY <1>3, <2>1, <2>2 DEF Ids
<1>7. ASSUME NEW m \in Ids(new)
      PROVE  m \in Ids(tl) \cup {e.id}
  <2>1. PICK i \in DOMAIN tl : new[i].id = m /\ m \in Nat
    BY <1>3, <1>7 DEF Ids
  <2> QED
    BY <1>3, <2>1 DEF Ids
<1>8. ASSUME NEW i \in DOMAIN tl, tl[i].id = n
      PROVE  e.id \in Ids(new)
  <2>1. new[i].id = e.id /\ i \in DOMAIN new
    BY <1>3, <1>8
  <2> QED
    BY <1>1, <2>1 DEF Ids
<1>9. ASSUME NEW m \in UnsentIds(new)
      PROVE  m \in UnsentIds(tl)
  <2>1. PICK i \in DOMAIN tl : new[i].id = m /\ m < 0
    BY <1>3, <1>9 DEF UnsentIds
  <2>2. new[i] = tl[i]
    BY <1>1, <1>3, <2>1
  <2> QED
    BY <2>1, <2>2 DEF UnsentIds
<1> QED
  BY <1>2, <1>6, <1>7, <1>8, <1>9

\* An entry that is appended takes the place of the copies there are, or a
\* place of its own before a cut.
Appends(new, tl, e) ==
    /\ Ids(new) = Ids(tl) \cup {e.id}
    /\ UnsentIds(new) \subseteq UnsentIds(tl)
    /\ \A k \in DOMAIN new : new[k] = e \/ \E i \in DOMAIN tl : new[k] = tl[i] /\ tl[i].id # e.id

LEMMA AppendedShows ==
    ASSUME NEW tl, NEW e, NEW keep \in BOOLEAN, NEW l, NEW u \in Nat, NEW S, LineOK(tl, l, u, S),
           StoredEntry(e, l), l \in Seq(Message), Cardinality(UnsentIds(tl)) <= MaxUnsent
    PROVE  \E mid : /\ Appends(mid, tl, e)
                    /\ Kept(AppendTimeline(tl, e, keep), mid)
                    /\ keep => AppendTimeline(tl, e, keep) = mid
<1>1. e.id \in Nat /\ e.id > 0 /\ e \in EntryType /\ tl \in Seq(EntryType)
  BY MessageFields DEF StoredEntry, LineOK
<1>2. CASE e.id \in Ids(tl)
  <2> DEFINE new == [i \in DOMAIN tl |-> IF tl[i].id = e.id THEN e ELSE tl[i]]
  <2>1. AppendTimeline(tl, e, keep) = new
    BY <1>2 DEF AppendTimeline
  <2>5. Renews(new, tl, e.id, e)
    BY DEF Renews
  <2> HIDE DEF new
  <2>2. /\ Ids(tl) \subseteq Ids(new) /\ Ids(new) \subseteq Ids(tl) \cup {e.id}
        /\ UnsentIds(new) \subseteq UnsentIds(tl)
    BY <2>5, RenewedShows
  <2>6. \A k \in DOMAIN new : new[k] = e \/ (k \in DOMAIN tl /\ new[k] = tl[k] /\ tl[k].id # e.id)
    BY <2>5 DEF Renews
  <2>3. Appends(new, tl, e)
    BY <1>2, <2>2, <2>6 DEF Appends
  <2>4. Kept(new, new)
    BY DEF Kept
  <2> QED
    BY <2>1, <2>3, <2>4
<1>3. CASE e.id \notin Ids(tl)
  <2> DEFINE q == Append(tl, e)
             mid == Sorted(q)
  <2>1. /\ q \in Seq(EntryType) /\ DOMAIN q = 1..(Len(tl) + 1) /\ q[Len(tl) + 1] = e
        /\ \A i \in 1..Len(tl) : q[i] = tl[i]
        /\ Len(tl) \in Nat /\ DOMAIN tl = 1..Len(tl)
    BY <1>1, AppendProperties
  <2>2. /\ Ids(mid) = Ids(q) /\ UnsentIds(mid) = UnsentIds(q)
        /\ \A i, j \in DOMAIN mid : i <= j => mid[i].at <= mid[j].at
    BY <2>1, SortedShows
  <2>3. \A k \in DOMAIN mid : \E i \in DOMAIN q : mid[k] = q[i]
    BY <2>1, SortedShows
  <2>4. AppendTimeline(tl, e, keep) = IF keep THEN mid ELSE TrimToLimit(mid, RenderLimit)
    BY <1>3 DEF AppendTimeline
  <2>5. LineOK(mid, l, u, S)
    <3>1. LineOK(AppendTimeline(tl, e, TRUE), l, u, S)
      BY AppendedLine
    <3>2. AppendTimeline(tl, e, TRUE) = mid
      BY <1>3 DEF AppendTimeline
    <3> QED
      BY <3>1, <3>2
  <2> HIDE DEF q, mid
  <2>6. \A i \in DOMAIN tl : tl[i].id # e.id
    BY <1>1, <1>3 DEF Ids
  <2>7. \A i \in DOMAIN q : q[i] = e \/ (i \in DOMAIN tl /\ q[i] = tl[i] /\ tl[i].id # e.id)
    BY <2>1, <2>6
  <2>8. Ids(q) = Ids(tl) \cup {e.id}
    <3>1. ASSUME NEW n
          PROVE  n \in Ids(q) <=> n \in Ids(tl) \/ n = e.id
      <4>1. n \in Ids(q) <=> n \in Nat /\ \E i \in DOMAIN q : q[i].id = n
        BY DEF Ids
      <4>2. n \in Ids(tl) <=> n \in Nat /\ \E i \in DOMAIN tl : tl[i].id = n
        BY DEF Ids
      <4>3. (\E i \in DOMAIN q : q[i].id = n) => n = e.id \/ \E i \in DOMAIN tl : tl[i].id = n
        BY <2>7
      <4>4. (\E i \in DOMAIN tl : tl[i].id = n) => \E i \in DOMAIN q : q[i].id = n
        BY <2>1
      <4>5. n = e.id => \E i \in DOMAIN q : q[i].id = n
        BY <2>1
      <4> QED
        BY <1>1, <4>1, <4>2, <4>3, <4>4, <4>5
    <3> QED
      BY <3>1
  <2>9. UnsentIds(q) \subseteq UnsentIds(tl)
    <3> SUFFICES ASSUME NEW i \in DOMAIN q, q[i].id < 0
                 PROVE  q[i].id \in UnsentIds(tl)
      BY DEF UnsentIds
    <3>1. i \in DOMAIN tl /\ q[i] = tl[i]
      BY <1>1, <2>7
    <3> QED
      BY <3>1 DEF UnsentIds
  <2>10. \A k \in DOMAIN mid : mid[k] = e \/ \E i \in DOMAIN tl : mid[k] = tl[i] /\ tl[i].id # e.id
    <3> TAKE k \in DOMAIN mid
    <3>1. PICK i \in DOMAIN q : mid[k] = q[i]
      BY <2>3
    <3> QED
      BY <2>7, <3>1
  <2>11. Appends(mid, tl, e)
    BY <2>2, <2>8, <2>9, <2>10 DEF Appends
  <2>12. Cardinality(UnsentIds(mid)) <= MaxUnsent
    <3>1. UnsentIds(mid) \in SUBSET UnsentIds(tl) /\ MaxUnsent \in Nat
      BY <2>2, <2>9, TimelineAssumption DEF TimelineAssumption
    <3>2. IsFiniteSet(UnsentIds(tl)) /\ Cardinality(UnsentIds(tl)) \in Nat
      BY UnsentAre
    <3>3. IsFiniteSet(UnsentIds(mid)) /\ Cardinality(UnsentIds(mid)) <= Cardinality(UnsentIds(tl))
      BY <3>1, <3>2, FS_Subset
    <3>4. Cardinality(UnsentIds(mid)) \in Nat
      BY <3>3, FS_CardinalityType
    <3> QED
      BY <3>1, <3>2, <3>3, <3>4
  <2>13. Kept(TrimToLimit(mid, RenderLimit), mid) /\ Kept(mid, mid)
    <3>1. Kept(TrimToLimit(mid, RenderLimit), mid)
      BY <2>2, <2>5, <2>12, TrimKeeps
    <3> QED
      BY <3>1 DEF Kept
  <2> QED
    BY <2>4, <2>11, <2>13
<1> QED
  BY <1>2, <1>3

-----------------------------------------------------------------------------
(* What the client holds is accounted for by what is still to come: every  *)
(* status that is behind has a frame that tells the new one, and every     *)
(* message that is missing has a frame, a page that will bring it, or is   *)
(* older than everything on show.                                          *)

EntryTold(e, A, F, l) == Late(e, l) => Tells(F, e.id, l) \/ e.id \in A

\* What the history being fetched still has to bring.
Remains(h, n) ==
    IF h.stage = "sent" THEN h.before = None \/ n < h.before
    ELSE n \in Ids(h.page) \/ (Len(h.page) = DirectPage /\ n < h.page[1].id)

Supplied(h, A, F, l) ==
    /\ h.busy => /\ h.before # None => h.before \in Ids(h.got)
                 /\ \A i \in DOMAIN h.got : EntryTold(h.got[i], A, F, l)
                 /\ \A i \in DOMAIN h.page : EntryTold(h.page[i], A, F, l)
                 /\ \A n \in DOMAIN l : n \in A \/ n \in Brought(F) \/ n \in Ids(h.got) \/ Remains(h, n)
    /\ h.done => \A n \in DOMAIN l : n \in A \/ n \in Brought(F)

Settled(c, F, l) ==
    /\ ~c.lag => LateTold(c.tl, F, l)
    /\ Supplied(c.hyd, Ids(c.tl), F, l)
    /\ kind = "channel" /\ ~c.torn => Accounted(Ids(c.tl), Brought(F), l)

\* A log that grew, and the frames that say so.
MoreFrames(F, G) == \A f \in F : f.type = "message" => f \in G
Tidings(l, m, G) ==
    /\ DOMAIN l \subseteq DOMAIN m
    /\ \A n \in DOMAIN m : (n \in DOMAIN l /\ m[n].rank = l[n].rank) \/ MessageFrame(n, m[n].rank) \in G

LEMMA FramesBring ==
    ASSUME NEW F, NEW G, MoreFrames(F, G)
    PROVE  /\ Brought(F) \subseteq Brought(G)
           /\ \A n, r : MessageFrame(n, r) \in F => MessageFrame(n, r) \in G
           /\ \A n, r : MessageFrame(n, r) \in F => n \in Brought(F)
BY DEF MoreFrames, Brought, MessageFrame

LEMMA TidingsTell ==
    ASSUME NEW F, NEW G, NEW l, NEW m, MoreFrames(F, G), Tidings(l, m, G), NEW e, e.id \in DOMAIN l, Late(e, m)
    PROVE  \/ Tells(G, e.id, m)
           \/ Late(e, l) /\ (Tells(F, e.id, l) => Tells(G, e.id, m))
<1>1. e.id \in DOMAIN m
  BY DEF Tidings
<1>2. CASE MessageFrame(e.id, m[e.id].rank) \in G
  BY <1>2 DEF Tells
<1>3. CASE m[e.id].rank = l[e.id].rank
  <2>1. Late(e, l)
    BY <1>3 DEF Late
  <2>2. Tells(F, e.id, l) => Tells(G, e.id, m)
    BY <1>3, FramesBring DEF Tells
  <2> QED
    BY <2>1, <2>2
<1> QED
  BY <1>1, <1>2, <1>3 DEF Tidings

LEMMA LateTidings ==
    ASSUME NEW F, NEW G, NEW l, NEW m, MoreFrames(F, G), Tidings(l, m, G), NEW tl, LateTold(tl, F, l),
           \A i \in DOMAIN tl : tl[i].id > 0 => tl[i].id \in DOMAIN l
    PROVE  LateTold(tl, G, m)
<1> SUFFICES ASSUME NEW i \in DOMAIN tl, tl[i].id > 0, Late(tl[i], m)
             PROVE  Tells(G, tl[i].id, m)
  BY DEF LateTold
<1>1. Late(tl[i], l) => Tells(F, tl[i].id, l)
  BY DEF LateTold
<1> QED
  BY <1>1, TidingsTell

LEMMA EntryTidings ==
    ASSUME NEW F, NEW G, NEW l, NEW m, MoreFrames(F, G), Tidings(l, m, G), NEW e, NEW A,
           e.id \in DOMAIN l, EntryTold(e, A, F, l)
    PROVE  EntryTold(e, A, G, m)
BY TidingsTell DEF EntryTold

LEMMA AccountedTidings ==
    ASSUME NEW F, NEW G, NEW l, NEW m, MoreFrames(F, G), Tidings(l, m, G)
    PROVE  \A n \in DOMAIN m : n \in DOMAIN l \/ n \in Brought(G)
<1>1. MoreFrames(G, G)
  BY DEF MoreFrames
<1>2. \A n, r : MessageFrame(n, r) \in G => n \in Brought(G)
  BY <1>1, FramesBring
<1> QED
  BY <1>2, Zenon DEF Tidings

LEMMA SuppliedTidings ==
    ASSUME NEW F, NEW G, NEW l, NEW m, MoreFrames(F, G), Tidings(l, m, G), l \in Seq(Message),
           NEW h, HydrationOK(h, l), NEW A, Supplied(h, A, F, l)
    PROVE  Supplied(h, A, G, m)
<1>1. Brought(F) \subseteq Brought(G)
  BY FramesBring
<1>2. \A n \in DOMAIN m : n \in DOMAIN l \/ n \in Brought(G)
  BY AccountedTidings
<1>3. /\ \A i \in DOMAIN h.got : h.got[i].id \in DOMAIN l
      /\ \A i \in DOMAIN h.page : h.page[i].id \in DOMAIN l
  BY DEF HydrationOK, PageOK, StoredEntry
<1>4. CASE h.busy
  <2>1. \A i \in DOMAIN h.got : EntryTold(h.got[i], A, G, m)
    BY <1>3, <1>4, EntryTidings DEF Supplied
  <2>2. \A i \in DOMAIN h.page : EntryTold(h.page[i], A, G, m)
    BY <1>3, <1>4, EntryTidings DEF Supplied
  <2>3. \A n \in DOMAIN m : n \in A \/ n \in Brought(G) \/ n \in Ids(h.got) \/ Remains(h, n)
    BY <1>1, <1>2, <1>4 DEF Supplied
  <2>4. h.done => \A n \in DOMAIN m : n \in A \/ n \in Brought(G)
    BY <1>1, <1>2 DEF Supplied
  <2> QED
    BY <2>1, <2>2, <2>3, <2>4 DEF Supplied
<1>5. CASE ~h.busy
  BY <1>1, <1>2, <1>5 DEF Supplied
<1> QED
  BY <1>4, <1>5

\* As the log and the frames to come grow together, what was accounted for
\* stays so.
LEMMA SettledTidings ==
    ASSUME NEW F, NEW G, NEW l, NEW m, MoreFrames(F, G), Tidings(l, m, G), l \in Seq(Message),
           NEW c, NEW u, NEW S, ClientOK(c, l, u, S), Settled(c, F, l)
    PROVE  Settled(c, G, m)
<1>1. \A i \in DOMAIN c.tl : c.tl[i].id > 0 => c.tl[i].id \in DOMAIN l
  BY IdsAre DEF ClientOK, StoredEntry
<1>2. ~c.lag => LateTold(c.tl, G, m)
  BY <1>1, LateTidings DEF Settled
<1>3. Supplied(c.hyd, Ids(c.tl), G, m)
  BY SuppliedTidings DEF ClientOK, Settled
<1>4. kind = "channel" /\ ~c.torn => Accounted(Ids(c.tl), Brought(G), m)
  <2>1. Brought(F) \subseteq Brought(G)
    BY FramesBring
  <2>2. \A n \in DOMAIN m : n \in DOMAIN l \/ n \in Brought(G)
    BY AccountedTidings
  <2> QED
    BY <2>1, <2>2 DEF Settled, Accounted
<1> QED
  BY <1>2, <1>3, <1>4 DEF Settled

\* A page that adjoins what is on show leaves no hole.
LEMMA AccountedMerge ==
    ASSUME NEW A, NEW B, NEW N, NEW M, A \cup B \subseteq DOMAIN log, log \in Seq(Message),
           Holes(B \cup A) \subseteq Holes(A), Accounted(A, N, log), N \subseteq M \cup B
    PROVE  Accounted(A \cup B, M, log)
<1> SUFFICES ASSUME NEW n \in DOMAIN log, n \notin A \cup B, n \notin M
             PROVE  Below(A \cup B, n)
  BY DEF Accounted
<1>1. Below(A, n)
  BY DEF Accounted
<1>2. \A x \in DOMAIN log : x \in Nat
  BY MessageFields
<1>3. ASSUME NEW b \in B, ~(n < b)
      PROVE  FALSE
  <2>1. b < n
    BY <1>2, <1>3
  <2>2. PICK a \in A : n < a
    BY <1>1 DEF Below
  <2>3. n \in Holes(B \cup A)
    BY <2>1, <2>2 DEF Holes
  <2>4. PICK x \in A : x < n
    BY <2>3 DEF Holes
  <2> QED
    BY <1>1, <1>2, <2>4 DEF Below
<1> QED
  BY <1>1, <1>3 DEF Below

-----------------------------------------------------------------------------
(* A frame applied to the client.                                          *)

Basics(c) ==
    /\ ~Open(c.rev) \/ kind = "channel" => ~c.hyd.busy /\ ~c.hyd.done
    /\ c.rev <= thread
    /\ Cardinality(UnsentIds(c.tl)) <= MaxUnsent

FrameFits(f) == f.type = "thread" => kind = "direct" /\ f.rev <= thread

\* What a frame is to be told by: the frames after it.
FrameTold(f, F, l) == f.type = "message" /\ Late(f, l) => Tells(F, f.id, l)

LEMMA EntryIs ==
    ASSUME NEW f, NEW l, NEW u, FrameOK(f, l, u), f.type = "message", l \in Seq(Message), Len(l) <= MaxLog
    PROVE  /\ StoredEntry(Entry(f), l) /\ Entry(f).id = f.id /\ Entry(f).rank = f.rank
           /\ f.id \in Nat /\ f.id > 0 /\ f.rank \in Int /\ f.id \in DOMAIN l
           /\ PageOK(<<Entry(f)>>, l, {}) /\ Ids(<<Entry(f)>>) = {f.id}
<1>1. f \in [type : {"message"}, id : Nat, rank : Ranks] /\ f.id \in DOMAIN l /\ f.rank <= l[f.id].rank
  BY DEF FrameOK, Frame
<1>2. f.id \in 1..MaxLog /\ f.rank \in Ranks /\ MaxLog \in Nat /\ MaxSteps \in Nat
  <2>1. Len(l) \in Nat /\ DOMAIN l = 1..Len(l)
    OBVIOUS
  <2> QED
    BY <1>1, <2>1, TimelineAssumption DEF TimelineAssumption
<1>3. StoredEntry(Entry(f), l)
  BY <1>1, <1>2 DEF StoredEntry, Entry, EntryType
<1>4. Entry(f).id = f.id /\ Entry(f).rank = f.rank
  BY DEF Entry
<1> DEFINE e == Entry(f)
<1>5. e \in EntryType
  BY <1>3 DEF StoredEntry
<1> HIDE DEF e
<1>6. <<e>> \in Seq(EntryType) /\ DOMAIN <<e>> = {1} /\ <<e>>[1] = e
  BY <1>5
<1>7. PageOK(<<e>>, l, {})
  BY <1>3, <1>6 DEF PageOK, Once, e
<1>8. Ids(<<e>>) = {f.id}
  BY <1>2, <1>4, <1>6 DEF Ids, e
<1> QED
  BY <1>1, <1>2, <1>3, <1>4, <1>7, <1>8 DEF e, Ranks

\* The frame of a message, by what the client knows of the conversation.
LEMMA MessageApplies ==
    ASSUME NEW c \in ClientRecord, NEW f, f.type = "message"
    PROVE  /\ ApplyFrame(c, f).rev = c.rev /\ ApplyFrame(c, f).hyd = c.hyd
           /\ ~Open(c.rev) => /\ ApplyFrame(c, f).tl = c.tl /\ ApplyFrame(c, f).torn = c.torn
                              /\ ApplyFrame(c, f).lag = (c.lag \/ Missed(c.tl, f))
           /\ Open(c.rev) => /\ ApplyFrame(c, f).tl = AppendTimeline(c.tl, Entry(f), reading \/ kind = "direct")
                             /\ ApplyFrame(c, f).torn = (c.torn \/ Tears(<<Entry(f)>>, c.tl))
                             /\ ApplyFrame(c, f).lag = c.lag
<1> DEFINE g == c.lag \/ Missed(c.tl, f)
           tl == AppendTimeline(c.tl, Entry(f), reading \/ kind = "direct")
           t == c.torn \/ Tears(<<Entry(f)>>, c.tl)
<1>1. ApplyFrame(c, f) = ApplyMessage(c, f)
  BY DEF ApplyFrame
<1>2. ~Open(c.rev) => ApplyMessage(c, f) = [c EXCEPT !.lag = g]
  BY DEF ApplyMessage
<1>3. Open(c.rev) => ApplyMessage(c, f) = [c EXCEPT !.tl = tl, !.torn = t]
  BY DEF ApplyMessage
<1> HIDE DEF g, tl, t
<1>4. ~Open(c.rev) => /\ ApplyFrame(c, f).rev = c.rev /\ ApplyFrame(c, f).hyd = c.hyd
                      /\ ApplyFrame(c, f).tl = c.tl /\ ApplyFrame(c, f).torn = c.torn
                      /\ ApplyFrame(c, f).lag = g
  BY <1>1, <1>2 DEF ClientRecord
<1>5. Open(c.rev) => /\ ApplyFrame(c, f).rev = c.rev /\ ApplyFrame(c, f).hyd = c.hyd
                     /\ ApplyFrame(c, f).tl = tl /\ ApplyFrame(c, f).torn = t
                     /\ ApplyFrame(c, f).lag = c.lag
  BY <1>1, <1>3 DEF ClientRecord
<1> QED
  BY <1>4, <1>5 DEF g, tl, t

\* The frame of a conversation closed or opened again: old, open, closed.
LEMMA ThreadApplies ==
    ASSUME NEW c \in ClientRecord, NEW f, f.type = "thread", f.rev \in Nat
    PROVE  \/ ApplyFrame(c, f) = c
           \/ /\ f.rev > c.rev /\ Open(f.rev)
              /\ ApplyFrame(c, f).tl = c.tl /\ ApplyFrame(c, f).torn = c.torn
              /\ ApplyFrame(c, f).lag = c.lag /\ ApplyFrame(c, f).rev = f.rev
              /\ ApplyFrame(c, f).hyd = Hydrate(c.hyd)
           \/ /\ f.rev > c.rev /\ ~Open(f.rev)
              /\ ApplyFrame(c, f).tl = <<>> /\ ApplyFrame(c, f).torn = FALSE
              /\ ApplyFrame(c, f).lag = FALSE /\ ApplyFrame(c, f).rev = f.rev
              /\ ApplyFrame(c, f).hyd = NoHydration
<1>1. ApplyFrame(c, f) = ApplyThread(c, f) /\ c.rev \in Nat
  BY DEF ApplyFrame, ClientRecord
<1>2. CASE f.rev <= c.rev
  <2>1. ApplyThread(c, f) = c
    <3>1. ~(f.rev > c.rev)
      BY <1>1, <1>2
    <3> QED
      BY <1>2, <3>1, Zenon DEF ApplyThread
  <2> QED
    BY <1>1, <2>1, Zenon
<1>3. CASE f.rev > c.rev /\ Open(f.rev)
  <2>1. ~(f.rev <= c.rev)
    BY <1>1, <1>3
  <2> DEFINE h == Hydrate(c.hyd)
  <2>2. ApplyFrame(c, f) = [c EXCEPT !.rev = f.rev, !.hyd = h]
    BY <1>1, <1>3, <2>1 DEF ApplyThread
  <2> HIDE DEF h
  <2>3. /\ ApplyFrame(c, f).tl = c.tl /\ ApplyFrame(c, f).torn = c.torn
        /\ ApplyFrame(c, f).lag = c.lag /\ ApplyFrame(c, f).rev = f.rev
        /\ ApplyFrame(c, f).hyd = h
    BY <2>2 DEF ClientRecord
  <2> QED
    BY <1>3, <2>3, Zenon DEF h
<1>4. CASE f.rev > c.rev /\ ~Open(f.rev)
  <2>1. ~(f.rev <= c.rev)
    BY <1>1, <1>4
  <2> DEFINE h == NoHydration
  <2>2. ApplyFrame(c, f) = [tl |-> <<>>, rev |-> f.rev, hyd |-> h, torn |-> FALSE, lag |-> FALSE]
    BY <1>1, <1>4, <2>1 DEF ApplyThread
  <2> HIDE DEF h
  <2>3. /\ ApplyFrame(c, f).tl = <<>> /\ ApplyFrame(c, f).torn = FALSE
        /\ ApplyFrame(c, f).lag = FALSE /\ ApplyFrame(c, f).rev = f.rev
        /\ ApplyFrame(c, f).hyd = h
    BY <2>2
  <2> QED
    BY <1>4, <2>3, Zenon DEF h
<1>5. f.rev <= c.rev \/ f.rev > c.rev
  BY <1>1
<1> QED
  BY <1>2, <1>3, <1>4, <1>5, Zenon

\* Fewer unsent messages stay few.
LEMMA FewUnsent ==
    ASSUME NEW new, NEW tl, NEW l, NEW u \in Nat, NEW S, LineOK(tl, l, u, S), l \in Seq(Message),
           UnsentIds(new) \subseteq UnsentIds(tl), Cardinality(UnsentIds(tl)) <= MaxUnsent
    PROVE  Cardinality(UnsentIds(new)) <= MaxUnsent
<1>1. UnsentIds(new) \in SUBSET UnsentIds(tl) /\ MaxUnsent \in Nat
  BY TimelineAssumption DEF TimelineAssumption
<1>2. IsFiniteSet(UnsentIds(tl)) /\ Cardinality(UnsentIds(tl)) \in Nat
  BY UnsentAre
<1>3. IsFiniteSet(UnsentIds(new)) /\ Cardinality(UnsentIds(new)) <= Cardinality(UnsentIds(tl))
  BY <1>1, <1>2, FS_Subset
<1>4. Cardinality(UnsentIds(new)) \in Nat
  BY <1>3, FS_CardinalityType
<1> QED
  BY <1>1, <1>2, <1>3, <1>4

LEMMA NothingUnsent == UnsentIds(<<>>) = {} /\ Ids(<<>>) = {} /\ Cardinality(UnsentIds(<<>>)) <= MaxUnsent
<1>1. UnsentIds(<<>>) = {} /\ Ids(<<>>) = {}
  BY DEF UnsentIds, Ids
<1>2. Cardinality(UnsentIds(<<>>)) = 0
  BY <1>1, FS_EmptySet
<1> QED
  BY <1>1, <1>2, TimelineAssumption DEF TimelineAssumption

LEMMA AppendedFew ==
    ASSUME NEW tl, NEW e, NEW keep \in BOOLEAN, NEW l, NEW u \in Nat, NEW S, LineOK(tl, l, u, S),
           StoredEntry(e, l), l \in Seq(Message), Cardinality(UnsentIds(tl)) <= MaxUnsent
    PROVE  Cardinality(UnsentIds(AppendTimeline(tl, e, keep))) <= MaxUnsent
<1>1. PICK mid : Appends(mid, tl, e) /\ Kept(AppendTimeline(tl, e, keep), mid)
  BY AppendedShows
<1>2. UnsentIds(AppendTimeline(tl, e, keep)) \subseteq UnsentIds(tl)
  BY <1>1, KeptKeeps DEF Appends
<1> QED
  BY <1>2, FewUnsent

LEMMA FrameBasics ==
    ASSUME NEW c, NEW f, NEW l, NEW u \in Nat, NEW S, ClientOK(c, l, u, S), FrameOK(f, l, u),
           f.type # "reply", l \in Seq(Message), Len(l) <= MaxLog, thread \in Nat,
           Basics(c), FrameFits(f)
    PROVE  Basics(ApplyFrame(c, f))
<1> DEFINE d == ApplyFrame(c, f)
<1>1. c \in ClientRecord /\ c.rev \in Nat /\ LineOK(c.tl, l, u, S)
  BY DEF ClientOK, ClientRecord
<1>2. CASE f.type = "message"
  <2>1. StoredEntry(Entry(f), l) /\ (reading \/ kind = "direct") \in BOOLEAN
    BY <1>2, EntryIs
  <2>2. /\ d.rev = c.rev /\ d.hyd = c.hyd
        /\ d.tl = c.tl \/ d.tl = AppendTimeline(c.tl, Entry(f), reading \/ kind = "direct")
    BY <1>1, <1>2, MessageApplies
  <2> HIDE DEF d
  <2>3. Cardinality(UnsentIds(d.tl)) <= MaxUnsent
    BY <1>1, <2>1, <2>2, AppendedFew DEF Basics
  <2> QED
    BY <2>2, <2>3 DEF Basics, d
<1>3. CASE f.type = "thread"
  <2>1. f.rev \in Nat /\ f.rev <= thread /\ kind = "direct"
    BY <1>3 DEF FrameFits, FrameOK, Frame
  <2>2. \/ d = c
        \/ f.rev > c.rev /\ Open(f.rev) /\ d.tl = c.tl /\ d.rev = f.rev
        \/ f.rev > c.rev /\ ~Open(f.rev) /\ d.tl = <<>> /\ d.rev = f.rev /\ d.hyd = NoHydration
    BY <1>1, <1>3, <2>1, ThreadApplies
  <2> HIDE DEF d
  <2>3. ~NoHydration.busy /\ ~NoHydration.done
    BY DEF NoHydration
  <2>4. CASE d = c
    BY <2>4 DEF d
  <2>5. CASE f.rev > c.rev /\ Open(f.rev) /\ d.tl = c.tl /\ d.rev = f.rev
    BY <2>1, <2>5 DEF Basics, d
  <2>6. CASE f.rev > c.rev /\ ~Open(f.rev) /\ d.tl = <<>> /\ d.rev = f.rev /\ d.hyd = NoHydration
    BY <2>1, <2>3, <2>6, NothingUnsent DEF Basics, d
  <2> QED
    BY <2>2, <2>4, <2>5, <2>6
<1>4. f.type \in {"message", "thread", "reply"}
  BY DEF FrameOK, Frame
<1> QED
  BY <1>2, <1>3, <1>4

\* What a hydration that starts, or is asked to start again, has to bring.
LEMMA HydrateSupplies ==
    ASSUME NEW h \in Hydration, NEW A, NEW F, NEW l, Supplied(h, A, F, l)
    PROVE  Supplied(Hydrate(h), A, F, l)
<1>1. CASE h.done
  BY <1>1 DEF Hydrate
<1>2. CASE ~h.done /\ h.busy
  <2> DEFINE g == Hydrate(h)
  <2>1. g = [h EXCEPT !.retry = TRUE]
    BY <1>2 DEF Hydrate
  <2>2. /\ g.busy = h.busy /\ g.done = h.done /\ g.stage = h.stage /\ g.got = h.got
        /\ g.page = h.page /\ g.before = h.before
    BY <2>1 DEF Hydration
  <2> HIDE DEF g
  <2>3. Supplied(g, A, F, l)
    BY <2>2 DEF Supplied, Remains
  <2> QED
    BY <2>3 DEF g
<1>3. CASE ~h.done /\ ~h.busy
  <2> DEFINE g == Hydrate(h)
  <2>1. g = Request(h, None, <<>>)
    BY <1>3 DEF Hydrate
  <2>2. g.busy /\ ~g.done /\ g.stage = "sent" /\ g.got = <<>> /\ g.page = <<>> /\ g.before = None
    BY <1>3, <2>1 DEF Request, Hydration
  <2> HIDE DEF g
  <2>3. Supplied(g, A, F, l)
    BY <2>2 DEF Supplied, Remains
  <2> QED
    BY <2>3 DEF g
<1> QED
  BY <1>1, <1>2, <1>3

LEMMA NoneSupplied ==
    ASSUME NEW h, ~h.busy, ~h.done, NEW A, NEW F, NEW l
    PROVE  Supplied(h, A, F, l)
BY DEF Supplied

LEMMA ThreadSettles ==
    ASSUME NEW c, NEW f, NEW u \in Nat, NEW S, ClientOK(c, log, u, S), FrameOK(f, log, u),
           f.type = "thread", LogOK(log), FrameFits(f),
           NEW F, NEW G, MoreFrames(F, G), Settled(c, F, log)
    PROVE  Settled(ApplyFrame(c, f), G, log)
<1> DEFINE d == ApplyFrame(c, f)
<1>1. c \in ClientRecord /\ c.hyd \in Hydration
  BY DEF ClientOK, HydrationOK
<1>2. Settled(c, G, log)
  <2>1. Tidings(log, log, G)
    BY DEF Tidings
  <2> QED
    BY <2>1, SettledTidings DEF LogOK
<1>3. f.rev \in Nat /\ kind = "direct"
  BY DEF FrameFits, FrameOK, Frame
<1>4. \/ d = c
      \/ d.tl = c.tl /\ d.torn = c.torn /\ d.lag = c.lag /\ d.hyd = Hydrate(c.hyd)
      \/ d.tl = <<>> /\ d.hyd = NoHydration
  BY <1>1, <1>3, ThreadApplies
<1> HIDE DEF d
<1>5. CASE d = c
  BY <1>2, <1>5 DEF d
<1>6. CASE d.tl = c.tl /\ d.torn = c.torn /\ d.lag = c.lag /\ d.hyd = Hydrate(c.hyd)
  <2>1. Supplied(Hydrate(c.hyd), Ids(c.tl), G, log)
    BY <1>1, <1>2, HydrateSupplies DEF Settled
  <2> QED
    BY <1>2, <1>6, <2>1 DEF Settled, d
<1>7. CASE d.tl = <<>> /\ d.hyd = NoHydration
  <2>1. ~NoHydration.busy /\ ~NoHydration.done
    BY DEF NoHydration
  <2>2. Supplied(d.hyd, Ids(d.tl), G, log)
    BY <1>7, <2>1, NoneSupplied
  <2>3. LateTold(d.tl, G, log)
    BY <1>7 DEF LateTold
  <2>4. kind # "channel"
    BY <1>3
  <2> QED
    BY <2>2, <2>3, <2>4 DEF Settled, d
<1> QED
  BY <1>4, <1>5, <1>6, <1>7

\* The frames before one, and those after it.
Follows(F, f, G) == \A g \in F : g.type = "message" => g = f \/ g \in G

LEMMA FollowsBring ==
    ASSUME NEW F, NEW f, NEW G, Follows(F, f, G)
    PROVE  /\ \A n \in Brought(F) : n = f.id \/ n \in Brought(G)
           /\ \A n, l : Tells(F, n, l) => MessageFrame(n, l[n].rank) = f \/ Tells(G, n, l)
           /\ \A n, l : Tells(F, n, l) /\ n # f.id => Tells(G, n, l)
<1>1. \A n \in Brought(F) : n = f.id \/ n \in Brought(G)
  BY DEF Follows, Brought
<1>2. ASSUME NEW n, NEW l, Tells(F, n, l)
      PROVE  MessageFrame(n, l[n].rank) = f \/ Tells(G, n, l)
  <2>1. MessageFrame(n, l[n].rank).type = "message"
    BY DEF MessageFrame
  <2> QED
    BY <1>2, <2>1 DEF Follows, Tells
<1>3. ASSUME NEW n, NEW l, Tells(F, n, l), n # f.id
      PROVE  Tells(G, n, l)
  <2>1. MessageFrame(n, l[n].rank).id = n
    BY DEF MessageFrame
  <2> QED
    BY <1>2, <1>3, <2>1
<1> QED
  BY <1>1, <1>2, <1>3

LEMMA MissedSettles ==
    ASSUME NEW c, NEW f, NEW u \in Nat, NEW S, ClientOK(c, log, u, S), FrameOK(f, log, u),
           f.type = "message", LogOK(log), ~Open(c.rev), Basics(c),
           NEW F, NEW G, Follows(F, f, G), Settled(c, F, log)
    PROVE  Settled(ApplyFrame(c, f), G, log)
<1> DEFINE d == ApplyFrame(c, f)
<1>1. c \in ClientRecord
  BY DEF ClientOK
<1>2. d.tl = c.tl /\ d.hyd = c.hyd /\ (d.lag <=> c.lag \/ Missed(c.tl, f))
  BY <1>1, MessageApplies
<1>3. kind # "channel" /\ ~c.hyd.busy /\ ~c.hyd.done
  BY DEF Open, Basics
<1> HIDE DEF d
<1>4. Supplied(d.hyd, Ids(d.tl), G, log)
  BY <1>2, <1>3, NoneSupplied
<1>5. ASSUME ~d.lag, NEW i \in DOMAIN c.tl, c.tl[i].id > 0, Late(c.tl[i], log)
      PROVE  Tells(G, c.tl[i].id, log)
  <2>1. Tells(F, c.tl[i].id, log)
    BY <1>2, <1>5 DEF Settled, LateTold
  <2>2. CASE MessageFrame(c.tl[i].id, log[c.tl[i].id].rank) = f
    <3>1. f.id = c.tl[i].id /\ f.rank = log[c.tl[i].id].rank
      BY <2>2 DEF MessageFrame
    <3>2. c.tl[i].rank < f.rank
      BY <1>5, <3>1 DEF Late
    <3>3. Missed(c.tl, f)
      BY <3>1, <3>2 DEF Missed
    <3> QED
      BY <1>2, <1>5, <3>3
  <2>3. CASE Tells(G, c.tl[i].id, log)
    BY <2>3
  <2> QED
    BY <2>1, <2>2, <2>3, FollowsBring
<1>6. ~d.lag => LateTold(d.tl, G, log)
  BY <1>2, <1>5 DEF LateTold
<1> QED
  BY <1>3, <1>4, <1>6 DEF Settled, d

\* What an append leaves to be told and to be brought.
LEMMA AppendedLate ==
    ASSUME NEW tl, NEW e, NEW mid, NEW new, Appends(mid, tl, e), Kept(new, mid),
           NEW F, NEW f, NEW G, Follows(F, f, G), f.id = e.id, f.rank = e.rank,
           LateTold(tl, F, log), FrameTold(f, G, log), f.type = "message"
    PROVE  LateTold(new, G, log)
<1>1. LateTold(mid, G, log)
  <2> SUFFICES ASSUME NEW k \in DOMAIN mid, mid[k].id > 0, Late(mid[k], log)
               PROVE  Tells(G, mid[k].id, log)
    BY DEF LateTold
  <2>1. CASE mid[k] = e
    BY <2>1 DEF FrameTold, Late
  <2>2. CASE \E i \in DOMAIN tl : mid[k] = tl[i] /\ tl[i].id # e.id
    <3>1. Tells(F, mid[k].id, log) /\ mid[k].id # f.id
      BY <2>2 DEF LateTold
    <3> QED
      BY <3>1, FollowsBring
  <2> QED
    BY <2>1, <2>2 DEF Appends
<1> QED
  BY <1>1, KeptKeeps

LEMMA AppendedSupplies ==
    ASSUME NEW h, NEW A, NEW F, NEW f, NEW G, Follows(F, f, G), Supplied(h, A, F, log)
    PROVE  Supplied(h, A \cup {f.id}, G, log)
<1>1. \A n : n \in A \/ n \in Brought(F) => n \in A \cup {f.id} \/ n \in Brought(G)
  BY FollowsBring
<1>2. \A e : EntryTold(e, A, F, log) => EntryTold(e, A \cup {f.id}, G, log)
  BY FollowsBring DEF EntryTold
<1>3. CASE h.busy
  <2>1. /\ \A i \in DOMAIN h.got : EntryTold(h.got[i], A \cup {f.id}, G, log)
        /\ \A i \in DOMAIN h.page : EntryTold(h.page[i], A \cup {f.id}, G, log)
    BY <1>2, <1>3 DEF Supplied
  <2>2. \A n \in DOMAIN log : n \in A \cup {f.id} \/ n \in Brought(G) \/ n \in Ids(h.got) \/ Remains(h, n)
    BY <1>1, <1>3 DEF Supplied
  <2>3. h.done => \A n \in DOMAIN log : n \in A \cup {f.id} \/ n \in Brought(G)
    BY <1>1 DEF Supplied
  <2> QED
    BY <2>1, <2>2, <2>3 DEF Supplied
<1>4. CASE ~h.busy
  BY <1>1, <1>4 DEF Supplied
<1> QED
  BY <1>3, <1>4

LEMMA MessageSettles ==
    ASSUME NEW c, NEW f, NEW u \in Nat, NEW S, ClientOK(c, log, u, S), FrameOK(f, log, u),
           f.type = "message", LogOK(log), Open(c.rev), Basics(c), kind \in {"channel", "direct"},
           NEW F, NEW G, Follows(F, f, G), FrameTold(f, G, log), Settled(c, F, log)
    PROVE  Settled(ApplyFrame(c, f), G, log)
<1> DEFINE d == ApplyFrame(c, f)
           e == Entry(f)
           keep == reading \/ kind = "direct"
           new == AppendTimeline(c.tl, e, keep)
<1>1. c \in ClientRecord /\ LineOK(c.tl, log, u, S) /\ log \in Seq(Message) /\ Len(log) <= MaxLog
  BY DEF ClientOK, LogOK
<1>2. d.tl = new /\ d.hyd = c.hyd /\ d.lag = c.lag /\ (d.torn <=> c.torn \/ Tears(<<e>>, c.tl))
  BY <1>1, MessageApplies
<1>3. /\ StoredEntry(e, log) /\ e.id = f.id /\ e.rank = f.rank /\ Ids(<<e>>) = {f.id}
      /\ f.id \in DOMAIN log
  BY <1>1, EntryIs
<1> HIDE DEF d, e
<1>4. keep \in BOOLEAN
  OBVIOUS
<1>5. PICK mid : Appends(mid, c.tl, e) /\ Kept(new, mid) /\ (keep => new = mid)
  BY <1>1, <1>3, <1>4, AppendedShows DEF Basics
<1> HIDE DEF new
<1>6. Ids(mid) = Ids(c.tl) \cup {f.id}
  BY <1>3, <1>5 DEF Appends
<1>7. ~d.lag => LateTold(d.tl, G, log)
  BY <1>2, <1>3, <1>5, AppendedLate DEF Settled
<1>8. Supplied(d.hyd, Ids(d.tl), G, log)
  <2>1. CASE kind = "channel"
    BY <1>2, <2>1, NoneSupplied DEF Basics
  <2>2. CASE kind = "direct"
    <3>1. Ids(d.tl) = Ids(c.tl) \cup {f.id}
      BY <1>2, <1>5, <1>6, <2>2
    <3> QED
      BY <1>2, <3>1, AppendedSupplies DEF Settled
  <2> QED
    BY <2>1, <2>2
<1>9. ASSUME kind = "channel", ~d.torn
      PROVE  Accounted(Ids(d.tl), Brought(G), log)
  <2>1. ~c.torn /\ Holes({f.id} \cup Ids(c.tl)) \subseteq Holes(Ids(c.tl))
    BY <1>2, <1>3, <1>9 DEF Tears
  <2>2. Accounted(Ids(c.tl), Brought(F), log)
    BY <1>9, <2>1 DEF Settled
  <2>3. Brought(F) \subseteq Brought(G) \cup {f.id}
    BY FollowsBring
  <2>4. Ids(c.tl) \cup {f.id} \subseteq DOMAIN log
    BY <1>1, <1>3, IdsAre
  <2>5. Accounted(Ids(c.tl) \cup {f.id}, Brought(G), log)
    BY <1>1, <2>1, <2>2, <2>3, <2>4, AccountedMerge
  <2> QED
    BY <1>2, <1>5, <1>6, <2>5, KeptKeeps
<1> QED
  BY <1>7, <1>8, <1>9 DEF Settled, d

\* A frame applied: what it told and brought is no longer to come.
LEMMA FrameSettles ==
    ASSUME NEW c, NEW f, NEW u \in Nat, NEW S, ClientOK(c, log, u, S), FrameOK(f, log, u),
           f.type # "reply", LogOK(log), Basics(c), FrameFits(f), kind \in {"channel", "direct"},
           NEW F, NEW G, Follows(F, f, G), FrameTold(f, G, log), Settled(c, F, log)
    PROVE  Settled(ApplyFrame(c, f), G, log)
<1>1. CASE f.type = "message"
  BY <1>1, MissedSettles, MessageSettles
<1>2. CASE f.type = "thread"
  <2>1. MoreFrames(F, G)
    BY <1>2 DEF Follows, MoreFrames
  <2> QED
    BY <1>2, <2>1, ThreadSettles
<1> QED
  BY <1>1, <1>2 DEF FrameOK, Frame

-----------------------------------------------------------------------------
(* The second invariant, part by part.                                     *)

\* The frames that come after one on the socket, and after one that waits:
\* those that wait behind it and all that are on the socket.
After(q, k) == {q[j] : j \in {i \in DOMAIN q : i > k}}
Behind(held, q, k) == {held[j].frame : j \in {i \in DOMAIN held : i > k}} \cup After(q, 0)
Coming == Behind(queue, wire, 0)

\* No frame of this session is lost: the bootstrap that was applied and the
\* frames that wait are of it.
Current(held, n) == \A i \in DOMAIN held : held[i].session = n
Live == link = "joined" /\ synced /\ Current(queue, sessions)

RevisionsOK ==
    /\ refresh.stage = "answered" => known <= refresh.rev /\ refresh.rev <= thread
    /\ \A i \in DOMAIN wire : FrameFits(wire[i])
    /\ \A i \in DOMAIN queue : FrameFits(queue[i].frame)

SessionsOK ==
    /\ synced => link = "joined"
    /\ sessions >= 1 /\ refresh.session <= sessions
    /\ \A i \in DOMAIN queue : queue[i].session <= sessions
    /\ link = "down" => wire = <<>> /\ \A s \in sends : ~s.online

\* A frame with an old status is followed by one with the new one, and an
\* answer by the frames of every message since the one it answers.
FramesTold(held, q, l, n) ==
    /\ \A i \in DOMAIN q : FrameTold(q[i], After(q, i), l)
    /\ \A i \in DOMAIN held : held[i].session = n => FrameTold(held[i].frame, Behind(held, q, i), l)
    /\ \A i \in DOMAIN q : q[i].type = "reply" => \A m \in DOMAIN l : m >= q[i].id => m \in Brought(After(q, i))

\* A bootstrap that was answered is made complete by the frames to come.
PageTold(page, F, l) == LateTold(page, F, l) /\ Accounted(Ids(page), Brought(F), l)
Answered == refresh.stage = "answered" /\ link = "joined" /\ refresh.session = sessions

SInv ==
    /\ Basics(Client)
    /\ RevisionsOK
    /\ SessionsOK
    /\ link = "joined" => FramesTold(queue, wire, log, sessions)
    /\ Answered => PageTold(refresh.page, Coming, log)
    /\ Live => Settled(Client, Coming, log)

LEMMA ClientFields ==
    /\ Client.tl = timeline /\ Client.rev = known /\ Client.hyd = hydration
    /\ Client.torn = torn /\ Client.lag = lagging
BY DEF Client

LEMMA NextBasics ==
    ASSUME NEW c, Becomes(c), kind' = kind, thread <= thread', thread \in Nat, thread' \in Nat,
           c.rev \in Nat, Basics(c)
    PROVE  Basics(Client)'
<1>1. /\ Client'.tl = c.tl /\ Client'.rev = c.rev /\ Client'.hyd = c.hyd
  BY DEF Client, Becomes
<1>2. c.rev <= thread'
  BY DEF Basics
<1> QED
  BY <1>1, <1>2 DEF Basics, Open

LEMMA NextSettled ==
    ASSUME NEW c, Becomes(c), kind' = kind, NEW F, Coming' = F, NEW l, log' = l, Settled(c, F, l)
    PROVE  Settled(Client, Coming, log)'
<1>1. /\ Client'.tl = c.tl /\ Client'.hyd = c.hyd /\ Client'.torn = c.torn /\ Client'.lag = c.lag
  BY DEF Client, Becomes
<1> HIDE DEF Coming
<1> QED
  BY <1>1 DEF Settled

\* Steps that change only what the client shows.
LEMMA ClientSteps ==
    ASSUME TInv, SInv, UNCHANGED <<server, wire, link, sessions, refresh, queue, synced>>,
           NEW c, Becomes(c), c.rev = known, Basics(c), Live => Settled(c, Coming, log),
           link = "down" => \A s \in sends' : ~s.online
    PROVE  SInv'
<1>1. thread \in Nat /\ known \in Nat
  BY DEF TInv, ServerOK
<1>2. Basics(Client)'
  BY <1>1, NextBasics DEF server
<1>3. Coming' = Coming /\ (Live' <=> Live) /\ (Answered' <=> Answered)
  BY DEF Coming, Behind, Live, Answered
<1>4. RevisionsOK'
  <2>1. known' = known
    BY DEF Becomes
  <2> QED
    BY <2>1 DEF SInv, RevisionsOK, FrameFits, server
<1>5. SessionsOK'
  BY DEF SInv, SessionsOK
<1>6. (link = "joined" => FramesTold(queue, wire, log, sessions))'
  BY DEF SInv, server
<1>7. (Answered => PageTold(refresh.page, Coming, log))'
  BY <1>3 DEF SInv, server
<1>8. (Live => Settled(Client, Coming, log))'
  BY <1>3, NextSettled DEF server
<1> QED
  BY <1>2, <1>4, <1>5, <1>6, <1>7, <1>8 DEF SInv

LEMMA UnchangedSteps ==
    ASSUME TInv, SInv,
           UNCHANGED <<server, wire, link, sessions, refresh, queue, history, timeline, known, hydration, sends>>
    PROVE  SInv'
<1>1. Becomes(Client)
  BY ClientFields DEF Becomes, history
<1>2. Basics(Client) /\ (Live => Settled(Client, Coming, log)) /\ Client.rev = known
  BY ClientFields DEF SInv
<1>3. link = "down" => \A s \in sends' : ~s.online
  BY DEF SInv, SessionsOK
<1> QED
  BY <1>1, <1>2, <1>3, ClientSteps DEF history

LEMMA SuppliedMore ==
    ASSUME NEW h, NEW A, NEW B, A \subseteq B, NEW F, NEW l, Supplied(h, A, F, l)
    PROVE  Supplied(h, B, F, l)
BY DEF Supplied, EntryTold

LEMMA ServerIs ==
    ASSUME TInv
    PROVE  /\ ServerOK /\ LogOK(log) /\ log \in Seq(Message) /\ Len(log) <= MaxLog
           /\ LineOK(timeline, log, spent.steps, sends) /\ HydrationOK(hydration, log)
           /\ spent.steps \in Nat /\ kind \in {"channel", "direct"} /\ thread \in Nat /\ known \in Nat
           /\ WireOK(wire, log, spent.steps) /\ QueueOK(queue, log, spent.steps)
           /\ ClientOK(Client, log, spent.steps, sends)
<1>1. ServerOK /\ PartsOK(log, spent.steps)
  BY DEF TInv
<1> QED
  BY <1>1, StepsAre, ClientIs DEF ServerOK, PartsOK, LogOK

\* Steps that change only the timeline: it shows what it showed, or is cut,
\* and what is new on it is told.
LEMMA TimelineSteps ==
    ASSUME TInv, SInv, UNCHANGED <<server, wire, link, sessions, refresh, queue, synced, known, hydration>>,
           link = "down" => \A s \in sends' : ~s.online,
           Cardinality(UnsentIds(timeline')) <= MaxUnsent,
           kind = "direct" => Ids(timeline) \subseteq Ids(timeline'),
           ~lagging' => ~lagging,
           ~torn' => ~torn,
           ~lagging' /\ LateTold(timeline, Coming, log) => LateTold(timeline', Coming, log),
           kind = "channel" /\ ~torn' /\ Accounted(Ids(timeline), Brought(Coming), log)
               => Accounted(Ids(timeline'), Brought(Coming), log)
    PROVE  SInv'
<1> DEFINE c == [tl |-> timeline', rev |-> known', hyd |-> hydration', torn |-> torn', lag |-> lagging']
<1>1. /\ c.tl = timeline' /\ c.rev = known /\ c.hyd = hydration /\ c.torn = torn' /\ c.lag = lagging'
      /\ Becomes(c)
  BY DEF Becomes
<1> HIDE DEF c
<1>2. Basics(c)
  BY <1>1, ClientFields DEF SInv, Basics
<1>3. ASSUME Live
      PROVE  Settled(c, Coming, log)
  <2>1. Settled(Client, Coming, log)
    BY <1>3 DEF SInv
  <2>2. Supplied(hydration, Ids(timeline'), Coming, log)
    <3>1. CASE kind = "channel"
      BY <3>1, NoneSupplied, ClientFields DEF SInv, Basics
    <3>2. CASE kind = "direct"
      BY <2>1, <3>2, SuppliedMore, ClientFields DEF Settled
    <3> QED
      BY <3>1, <3>2, ServerIs
  <2>3. ~lagging' => LateTold(timeline', Coming, log)
    BY <2>1, ClientFields DEF Settled
  <2>4. kind = "channel" /\ ~torn' => Accounted(Ids(timeline'), Brought(Coming), log)
    BY <2>1, ClientFields DEF Settled
  <2> QED
    BY <1>1, <2>2, <2>3, <2>4 DEF Settled
<1> QED
  BY <1>1, <1>2, <1>3, ClientSteps

LEMMA ToldIs ==
    ASSUME TInv, NEW n, Told(n)
    PROVE  Tells(Coming, n, log)
<1>1. \A i \in DOMAIN wire : i > 0
  BY ServerIs DEF WireOK
<1>2. \A i \in DOMAIN queue : i > 0
  BY ServerIs DEF QueueOK
<1> DEFINE f == MessageFrame(n, log[n].rank)
<1> HIDE DEF f
<1>3. (\E i \in DOMAIN wire : wire[i] = f) \/ \E i \in DOMAIN queue : queue[i].frame = f
  BY DEF Told, f
<1>4. f \in Coming
  BY <1>1, <1>2, <1>3 DEF Coming, Behind, After
<1> QED
  BY <1>4 DEF Tells, f

\* What a merge makes late was late, or is new to the timeline.
LEMMA MergedLate ==
    ASSUME NEW tl, NEW page, NEW new, NEW u, NEW S, NEW F, LineOK(tl, log, u, S), LogOK(log),
           NEW X, PageOK(page, log, X), Merges(new, tl, page), LateTold(tl, F, log),
           \A i \in DOMAIN page : page[i].id \notin Ids(tl) /\ Late(page[i], log) => Tells(F, page[i].id, log)
    PROVE  LateTold(new, F, log)
<1> SUFFICES ASSUME NEW k \in DOMAIN new, new[k].id > 0, Late(new[k], log)
             PROVE  Tells(F, new[k].id, log)
  BY DEF LateTold
<1>1. CASE new[k].rank \in Int /\ \E i \in DOMAIN tl : new[k].id = tl[i].id /\ tl[i].rank <= new[k].rank
  <2>1. PICK i \in DOMAIN tl : new[k].id = tl[i].id /\ tl[i].rank <= new[k].rank
    BY <1>1
  <2>2. tl[i].rank \in Int /\ tl[i].id \in DOMAIN log
    BY <2>1, IdsAre DEF LogOK, StoredEntry
  <2>3. log[tl[i].id].rank \in Int
    BY <2>2, MessageFields DEF LogOK
  <2>4. Late(tl[i], log)
    BY <1>1, <2>1, <2>2, <2>3 DEF Late
  <2> QED
    BY <2>1, <2>4 DEF LateTold
<1>2. CASE \E i \in DOMAIN Fresh(tl, page) : new[k] = Fresh(tl, page)[i]
  <2>1. PICK i \in DOMAIN Fresh(tl, page) : new[k] = Fresh(tl, page)[i]
    BY <1>2
  <2>2. PICK j \in DOMAIN page : Fresh(tl, page)[i] = page[j]
    BY <2>1, FreshCovers DEF LogOK
  <2>3. \A n : n \in Ids(tl) <=> \E m \in DOMAIN tl : tl[m].id = n /\ tl[m].id > 0
    BY IdsAre DEF LogOK
  <2>4. \A m \in DOMAIN tl : Fresh(tl, page)[i].id # tl[m].id
    BY <2>1, FreshIs DEF LogOK
  <2>5. page[j].id \notin Ids(tl)
    BY <2>2, <2>3, <2>4
  <2> QED
    BY <2>1, <2>2, <2>5
<1> QED
  BY <1>1, <1>2 DEF Merges

\* Unless the history has an entry for it, a page brings no status that is
\* behind and of which no frame tells the new one.
LEMMA LagsIs ==
    ASSUME TInv, NEW page, NEW X, PageOK(page, log, X), ~Lags(page, timeline)
    PROVE  \A i \in DOMAIN page :
               page[i].id \notin Ids(timeline) /\ Late(page[i], log) => Tells(Coming, page[i].id, log)
<1> SUFFICES ASSUME NEW i \in DOMAIN page, page[i].id \notin Ids(timeline), Late(page[i], log)
             PROVE  Tells(Coming, page[i].id, log)
  OBVIOUS
<1>1. PICK k \in DOMAIN Fresh(timeline, page) : Fresh(timeline, page)[k] = page[i]
  BY ServerIs, FreshCovers
<1>2. Told(page[i].id)
  BY <1>1 DEF Lags, Late
<1> QED
  BY <1>2, ToldIs

\* A merge of a page that leaves no hole, or of which the history knows.
LEMMA MergeSteps ==
    ASSUME TInv, SInv, UNCHANGED <<server, wire, link, sessions, refresh, queue, sends, synced, known, hydration>>,
           NEW page, NEW X, PageOK(page, log, X), NEW mid, Merges(mid, timeline, page),
           Kept(timeline', mid), kind = "direct" => timeline' = mid,
           torn' = (torn \/ Tears(page, timeline)), lagging' = (lagging \/ Lags(page, timeline))
    PROVE  SInv'
<1>1. link = "down" => \A s \in sends' : ~s.online
  BY DEF SInv, SessionsOK
<1>2. Cardinality(UnsentIds(timeline')) <= MaxUnsent
  <2>1. UnsentIds(timeline') \subseteq UnsentIds(timeline)
    BY KeptKeeps DEF Merges
  <2> QED
    BY <2>1, FewUnsent, ServerIs, ClientFields DEF SInv, Basics
<1>3. kind = "direct" => Ids(timeline) \subseteq Ids(timeline')
  BY DEF Merges
<1>4. ASSUME ~lagging', LateTold(timeline, Coming, log)
      PROVE  LateTold(timeline', Coming, log)
  <2>1. LateTold(mid, Coming, log)
    BY <1>4, ServerIs, LagsIs, MergedLate
  <2> QED
    BY <2>1, KeptKeeps
<1>5. ASSUME kind = "channel", ~torn', Accounted(Ids(timeline), Brought(Coming), log)
      PROVE  Accounted(Ids(timeline'), Brought(Coming), log)
  <2>1. Holes(Ids(page) \cup Ids(timeline)) \subseteq Holes(Ids(timeline))
    BY <1>5 DEF Tears
  <2>2. Ids(timeline) \cup Ids(page) \subseteq DOMAIN log
    BY ServerIs, IdsAre, PageIdsAre
  <2>3. Accounted(Ids(timeline) \cup Ids(page), Brought(Coming), log)
    BY <1>5, <2>1, <2>2, ServerIs, AccountedMerge
  <2>4. Accounted(Ids(mid), Brought(Coming), log)
    BY <2>3 DEF Merges
  <2> QED
    BY <2>4, KeptKeeps
<1>6. (~torn' => ~torn) /\ (~lagging' => ~lagging)
  OBVIOUS
<1>7. UNCHANGED <<server, wire, link, sessions, refresh, queue, synced, known, hydration>>
  OBVIOUS
<1>8. ~lagging' /\ LateTold(timeline, Coming, log) => LateTold(timeline', Coming, log)
  BY <1>4
<1>9. kind = "channel" /\ ~torn' /\ Accounted(Ids(timeline), Brought(Coming), log)
          => Accounted(Ids(timeline'), Brought(Coming), log)
  BY <1>5
<1> QED
  BY <1>1, <1>2, <1>3, <1>6, <1>7, <1>8, <1>9, TimelineSteps, Zenon

LEMMA ReconAppliedSettled ==
    ASSUME TInv, SInv, ReconApplied
    PROVE  SInv'
<1> DEFINE page == recon.batch
           X == Commands(log)
<1>1. PageOK(page, log, X) /\ X \subseteq Excused(log)
  BY DEF TInv, PartsOK, ReconOK, Excused, Commands
<1>2. Cardinality(UnsentIds(timeline)) <= MaxUnsent
  BY ClientFields DEF SInv, Basics
<1>3. \E mid : /\ Merges(mid, timeline, page)
               /\ Kept(timeline', mid)
               /\ kind = "direct" => timeline' = mid
  <2>1. CASE page = <<>>
    <3>1. timeline' = timeline
      BY <2>1 DEF ReconApplied
    <3>2. \A i \in DOMAIN timeline : timeline[i].rank \in Int
      BY ServerIs, IdsAre
    <3>3. Merges(timeline, timeline, page)
      BY <2>1, <3>2, NothingUnsent DEF Merges
    <3>4. Kept(timeline, timeline)
      BY DEF Kept
    <3> QED
      BY <3>1, <3>3, <3>4
  <2>2. CASE page # <<>>
    <3>1. timeline' = MergeNewer(timeline, page)
      BY <2>2 DEF ReconApplied
    <3> HIDE DEF page, X
    <3> QED
      BY <1>1, <1>2, <3>1, ServerIs, MergedShows
  <2> QED
    BY <2>1, <2>2
<1>4. /\ UNCHANGED <<server, wire, link, sessions, refresh, queue, sends, synced, known, hydration>>
      /\ torn' = (torn \/ Tears(page, timeline)) /\ lagging' = (lagging \/ Lags(page, timeline))
  BY DEF ReconApplied
<1> HIDE DEF page, X
<1> QED
  BY <1>1, <1>3, <1>4, MergeSteps

LEMMA OlderAppliedSettled ==
    ASSUME TInv, SInv, OlderApplied
    PROVE  SInv'
<1> DEFINE page == loadingOlder.page
           none == {}
<1>1. PageOK(page, log, none) /\ none \subseteq Excused(log)
  BY DEF TInv, PartsOK, OlderOK
<1>2. Cardinality(UnsentIds(timeline)) <= MaxUnsent
  BY ClientFields DEF SInv, Basics
<1>3. /\ UNCHANGED <<server, wire, link, sessions, refresh, queue, sends, synced, known, hydration>>
      /\ torn' = (torn \/ Tears(page, timeline)) /\ lagging' = (lagging \/ Lags(page, timeline))
      /\ timeline' = IF page = <<>> THEN timeline ELSE MergeOlder(page, timeline)
  BY DEF OlderApplied
<1> HIDE DEF page, none
<1>4. Merges(timeline', timeline, page)
  <2>1. CASE page = <<>>
    <3>1. \A i \in DOMAIN timeline : timeline[i].rank \in Int
      BY ServerIs, IdsAre
    <3> QED
      BY <1>3, <2>1, <3>1, NothingUnsent DEF Merges
  <2>2. CASE page # <<>>
    BY <1>1, <1>2, <1>3, <2>2, ServerIs, MergedShows
  <2> QED
    BY <2>1, <2>2
<1>5. Kept(timeline', timeline')
  BY DEF Kept
<1> QED
  BY <1>1, <1>3, <1>4, <1>5, MergeSteps

\* What a cut leaves was on show.
LEMMA TrimIsPart ==
    ASSUME NEW tl \in Seq(EntryType), NEW limit \in Nat
    PROVE  \A k \in DOMAIN TrimToLimit(tl, limit) : \E i \in DOMAIN tl : TrimToLimit(tl, limit)[k] = tl[i]
<1>1. CASE Len(tl) <= limit
  BY <1>1 DEF TrimToLimit
<1>2. CASE ~(Len(tl) <= limit)
  <2> DEFINE d == Len(tl) - limit
  <2>1. Len(tl) \in Nat /\ d \in Nat /\ DOMAIN tl = 1..Len(tl)
    BY <1>2
  <2>2. TrimToLimit(tl, limit) = SubSeq(tl, d + 1, Len(tl))
    BY <1>2 DEF TrimToLimit
  <2>3. TrimToLimit(tl, limit) = [k \in 1..limit |-> tl[k + d]]
    BY <2>1, <2>2
  <2> HIDE DEF d
  <2>4. \A k \in 1..limit : k + d \in 1..Len(tl)
    BY <2>1 DEF d
  <2> QED
    BY <2>1, <2>3, <2>4
<1> QED
  BY <1>1, <1>2

LEMMA SetReadingSettled ==
    ASSUME TInv, SInv, NEW older \in BOOLEAN, SetReading(older)
    PROVE  SInv'
<1>1. /\ UNCHANGED <<server, wire, link, sessions, refresh, queue, sends, synced, known, hydration, lagging>>
  BY DEF SetReading, requests
<1>2. CASE older \/ kind = "direct"
  <2>1. UNCHANGED <<server, wire, link, sessions, refresh, queue, history, timeline, known, hydration, sends>>
    BY <1>1, <1>2 DEF SetReading, history
  <2> QED
    BY <2>1, UnchangedSteps
<1>3. CASE ~(older \/ kind = "direct")
  <2>1. /\ timeline' = TrimToLimit(timeline, RenderLimit) /\ torn' = (torn \/ Cuts(timeline, RenderLimit))
        /\ kind # "direct"
    BY <1>3 DEF SetReading
  <2>2. \A k \in DOMAIN timeline' : \E i \in DOMAIN timeline : timeline'[k] = timeline[i]
    BY <2>1, ServerIs, TrimIsPart, BoundsAre DEF LineOK
  <2>3. LateTold(timeline, Coming, log) => LateTold(timeline', Coming, log)
    BY <2>2 DEF LateTold
  <2>4. UnsentIds(timeline') \subseteq UnsentIds(timeline)
    BY <2>2 DEF UnsentIds
  <2>5. Cardinality(UnsentIds(timeline)) <= MaxUnsent
    BY ClientFields DEF SInv, Basics
  <2>6. Cardinality(UnsentIds(timeline')) <= MaxUnsent
    BY <2>4, <2>5, FewUnsent, ServerIs
  <2>7. ASSUME ~torn', Accounted(Ids(timeline), Brought(Coming), log)
        PROVE  Accounted(Ids(timeline'), Brought(Coming), log)
    <3>1. ~Cuts(timeline, RenderLimit)
      BY <2>1, <2>7
    <3>2. Kept(timeline', timeline)
      BY <2>1, <2>5, <3>1, TrimKeeps, ServerIs
    <3> QED
      BY <2>7, <3>2, KeptKeeps
  <2>8. kind = "channel" /\ ~torn' /\ Accounted(Ids(timeline), Brought(Coming), log)
            => Accounted(Ids(timeline'), Brought(Coming), log)
    BY <2>7
  <2>9. (~torn' => ~torn) /\ (~lagging' => ~lagging)
    BY <1>1, <2>1
  <2>10. UNCHANGED <<server, wire, link, sessions, refresh, queue, synced, known, hydration>>
    BY <1>1
  <2>11. link = "down" => \A s \in sends' : ~s.online
    BY <1>1 DEF SInv, SessionsOK
  <2>12. ~lagging' /\ LateTold(timeline, Coming, log) => LateTold(timeline', Coming, log)
    BY <2>3
  <2>13. kind = "direct" => Ids(timeline) \subseteq Ids(timeline')
    BY <2>1
  <2> QED
    BY <2>6, <2>8, <2>9, <2>10, <2>11, <2>12, <2>13, TimelineSteps, Zenon
<1> QED
  BY <1>2, <1>3

\* What is not stored does not count as shown.
LEMMA SameSteps ==
    ASSUME TInv, SInv,
           UNCHANGED <<server, wire, link, sessions, refresh, queue, history, known, hydration>>,
           link = "down" => \A s \in sends' : ~s.online,
           Cardinality(UnsentIds(timeline')) <= MaxUnsent,
           \A k \in DOMAIN timeline' :
               \/ timeline'[k].id \in Int /\ timeline'[k].id < 0
               \/ \E i \in DOMAIN timeline : timeline'[k].id = timeline[i].id /\ timeline'[k].rank = timeline[i].rank,
           \A i \in DOMAIN timeline : timeline[i].id > 0
               => \E k \in DOMAIN timeline' : timeline'[k].id = timeline[i].id
    PROVE  SInv'
<1>1. \A n : n \in Ids(timeline) <=> \E i \in DOMAIN timeline : timeline[i].id = n /\ timeline[i].id > 0
  BY ServerIs, IdsAre
<1>2. \A i \in DOMAIN timeline : timeline[i].id \in Int
  BY ServerIs, IdsAre
<1>3. Ids(timeline) \subseteq Ids(timeline')
  <2> SUFFICES ASSUME NEW n \in Ids(timeline)
               PROVE  n \in Ids(timeline')
    OBVIOUS
  <2>1. n \in Nat
    BY DEF Ids
  <2>2. \E k \in DOMAIN timeline' : timeline'[k].id = n
    BY <1>1
  <2> QED
    BY <2>1, <2>2 DEF Ids
<1>4. Ids(timeline') \subseteq Ids(timeline)
  <2> SUFFICES ASSUME NEW n \in Ids(timeline')
               PROVE  n \in Ids(timeline)
    OBVIOUS
  <2>1. PICK k \in DOMAIN timeline' : timeline'[k].id = n /\ n \in Nat
    BY DEF Ids
  <2>2. \E i \in DOMAIN timeline : n = timeline[i].id
    BY <2>1
  <2> QED
    BY <2>1, <2>2 DEF Ids
<1>5. ASSUME LateTold(timeline, Coming, log)
      PROVE  LateTold(timeline', Coming, log)
  <2> SUFFICES ASSUME NEW k \in DOMAIN timeline', timeline'[k].id > 0, Late(timeline'[k], log)
               PROVE  Tells(Coming, timeline'[k].id, log)
    BY DEF LateTold
  <2>1. PICK i \in DOMAIN timeline : timeline'[k].id = timeline[i].id /\ timeline'[k].rank = timeline[i].rank
    OBVIOUS
  <2>2. timeline[i].id > 0 /\ Late(timeline[i], log)
    BY <2>1 DEF Late
  <2> QED
    BY <1>5, <2>1, <2>2 DEF LateTold
<1>6. Ids(timeline') = Ids(timeline)
  BY <1>3, <1>4
<1>7. ~lagging' /\ LateTold(timeline, Coming, log) => LateTold(timeline', Coming, log)
  BY <1>5
<1>8. kind = "channel" /\ ~torn' /\ Accounted(Ids(timeline), Brought(Coming), log)
          => Accounted(Ids(timeline'), Brought(Coming), log)
  BY <1>6
<1>9. /\ UNCHANGED <<server, wire, link, sessions, refresh, queue, synced, known, hydration>>
      /\ (~torn' => ~torn) /\ (~lagging' => ~lagging)
  BY DEF history
<1> QED
  BY <1>3, <1>7, <1>8, <1>9, TimelineSteps, Zenon

LEMMA NewIdUnsent ==
    ASSUME TInv
    PROVE  /\ NewId \in Int /\ NewId < 0 /\ Pending(NewId).id = NewId
           /\ \A i \in DOMAIN timeline : timeline[i].id # NewId
<1>1. spent.steps \in Nat /\ \A i \in DOMAIN timeline : StoredEntry(timeline[i], log) \/ UnsentEntry(timeline[i], spent.steps)
  BY ServerIs DEF LineOK
<1>2. NewId \in Int /\ NewId < 0 /\ NewId < - spent.steps
  BY <1>1 DEF NewId
<1>3. \A e : UnsentEntry(e, spent.steps) => e.id # NewId
  BY <1>1, <1>2 DEF UnsentEntry
<1>4. \A e : StoredEntry(e, log) => e.id # NewId
  BY <1>2, ServerIs, MessageFields DEF StoredEntry
<1>5. Pending(NewId).id = NewId
  BY DEF Pending
<1> QED
  BY <1>1, <1>2, <1>3, <1>4, <1>5

\* Unsent messages are no more than their places.
LEMMA UnsentPlaces ==
    ASSUME TInv
    PROVE  IsFiniteSet(Unsent) /\ IsFiniteSet(UnsentIds(timeline)) /\ Cardinality(Unsent) \in Nat
           /\ Cardinality(UnsentIds(timeline)) \in Nat
           /\ Cardinality(UnsentIds(timeline)) <= Cardinality(Unsent)
<1> DEFINE A == Unsent
           B == UnsentIds(timeline)
           f == [i \in A |-> timeline[i].id]
<1>1. DOMAIN timeline = 1..Len(timeline) /\ Len(timeline) \in Nat
  BY ServerIs DEF LineOK
<1>2. IsFiniteSet(DOMAIN timeline)
  BY <1>1, FS_Interval
<1>3. A \subseteq DOMAIN timeline
  BY DEF Unsent
<1>4. f \in [A -> B] /\ \A n \in B : \E i \in A : f[i] = n
  BY DEF Unsent, UnsentIds
<1>5. f \in Surjection(A, B)
  BY <1>4 DEF Surjection
<1> HIDE DEF A, B, f
<1>6. IsFiniteSet(A)
  BY <1>2, <1>3, FS_Subset
<1>7. IsFiniteSet(B) /\ Cardinality(B) <= Cardinality(A)
  BY <1>5, <1>6, FS_Surjection
<1> QED
  BY <1>6, <1>7, FS_CardinalityType DEF A, B

LEMMA SendSettled ==
    ASSUME TInv, SInv, Send
    PROVE  SInv'
<1> DEFINE e == Pending(NewId)
           N == UnsentIds(timeline)
<1>1. timeline' = Append(timeline, e) /\ link = "joined"
  BY DEF Send, Ready
<1>2. e.id = NewId /\ NewId \in Int /\ NewId < 0
  BY NewIdUnsent
<1> HIDE DEF e
<1>3. timeline \in Seq(EntryType) /\ Len(timeline) \in Nat /\ DOMAIN timeline = 1..Len(timeline)
  BY ServerIs DEF LineOK
<1>4. /\ DOMAIN timeline' = 1..(Len(timeline) + 1) /\ timeline'[Len(timeline) + 1] = e
      /\ \A i \in 1..Len(timeline) : timeline'[i] = timeline[i]
  BY <1>1, <1>3
<1>5. \A k \in DOMAIN timeline' : timeline'[k] = e \/ (k \in DOMAIN timeline /\ timeline'[k] = timeline[k])
  BY <1>3, <1>4
<1>6. UnsentIds(timeline') \subseteq N \cup {NewId}
  BY <1>2, <1>5 DEF UnsentIds
<1> HIDE DEF N
<1>7. Cardinality(UnsentIds(timeline')) <= MaxUnsent
  <2>1. IsFiniteSet(N) /\ Cardinality(N) \in Nat /\ Cardinality(N) <= Cardinality(Unsent)
        /\ Cardinality(Unsent) \in Nat
    BY UnsentPlaces DEF N
  <2>2. Cardinality(Unsent) < MaxUnsent /\ MaxUnsent \in Nat
    BY TimelineAssumption DEF Send, TimelineAssumption
  <2>3. IsFiniteSet(N \cup {NewId}) /\ Cardinality(N \cup {NewId}) <= Cardinality(N) + 1
        /\ Cardinality(N \cup {NewId}) \in Nat
    <3>1. /\ IsFiniteSet(N \cup {NewId})
          /\ Cardinality(N \cup {NewId}) = IF NewId \in N THEN Cardinality(N) ELSE Cardinality(N) + 1
      BY <2>1, FS_AddElement
    <3> QED
      BY <2>1, <3>1
  <2>4. /\ IsFiniteSet(UnsentIds(timeline'))
        /\ Cardinality(UnsentIds(timeline')) <= Cardinality(N \cup {NewId})
    BY <1>6, <2>3, FS_Subset
  <2>5. Cardinality(UnsentIds(timeline')) \in Nat
    BY <2>4, FS_CardinalityType
  <2> QED
    BY <2>1, <2>2, <2>3, <2>4, <2>5
<1>8. \A k \in DOMAIN timeline' :
          \/ timeline'[k].id \in Int /\ timeline'[k].id < 0
          \/ \E i \in DOMAIN timeline : timeline'[k].id = timeline[i].id /\ timeline'[k].rank = timeline[i].rank
  BY <1>2, <1>5
<1>9. \A i \in DOMAIN timeline : timeline[i].id > 0 => \E k \in DOMAIN timeline' : timeline'[k].id = timeline[i].id
  BY <1>3, <1>4
<1>10. UNCHANGED <<server, wire, link, sessions, refresh, queue, history, known, hydration>>
  BY DEF Send, requests
<1>11. link = "down" => \A s \in sends' : ~s.online
  BY <1>1
<1> QED
  BY <1>7, <1>8, <1>9, <1>10, <1>11, SameSteps, Zenon

LEMMA RetrySettled ==
    ASSUME TInv, SInv, NEW n \in DOMAIN timeline, Retry(n)
    PROVE  SInv'
<1> DEFINE e == Pending(NewId)
           N == UnsentIds(timeline)
           old == timeline[n].id
<1>1. timeline' = [timeline EXCEPT ![n] = e] /\ link = "joined" /\ timeline[n].state = "failed"
  BY DEF Retry, Ready
<1>2. e.id = NewId /\ NewId \in Int /\ NewId < 0 /\ NewId \notin N
  BY NewIdUnsent DEF UnsentIds
<1>3. timeline \in Seq(EntryType) /\ DOMAIN timeline = 1..Len(timeline)
  BY ServerIs DEF LineOK
<1>4. DOMAIN timeline' = DOMAIN timeline /\ \A k \in DOMAIN timeline : timeline'[k] = IF k = n THEN e ELSE timeline[k]
  BY <1>1, <1>3
<1>5. old \in Int /\ old < 0
  <2>1. ~StoredEntry(timeline[n], log)
    BY <1>1 DEF StoredEntry
  <2>2. UnsentEntry(timeline[n], spent.steps)
    BY <2>1, ServerIs DEF LineOK
  <2> QED
    BY <2>2, ServerIs DEF UnsentEntry
<1>6. \A k \in DOMAIN timeline : timeline[k].id = old => k = n
  <2> SUFFICES ASSUME NEW k \in DOMAIN timeline, timeline[k].id = old, k # n
               PROVE  FALSE
    OBVIOUS
  <2>1. old \in Excused(log)
    BY ServerIs DEF LineOK, Once
  <2>2. old > 0
    BY <2>1, ServerIs, MessageFields DEF Excused
  <2> QED
    BY <1>5, <2>2
<1> HIDE DEF e
<1>7. UnsentIds(timeline') \subseteq (N \ {old}) \cup {NewId}
  <2> SUFFICES ASSUME NEW k \in DOMAIN timeline, timeline'[k].id < 0
               PROVE  timeline'[k].id \in (N \ {old}) \cup {NewId}
    BY <1>4 DEF UnsentIds
  <2>1. CASE k = n
    BY <1>2, <1>4, <2>1
  <2>2. CASE k # n
    BY <1>4, <1>6, <2>2 DEF UnsentIds
  <2> QED
    BY <2>1, <2>2
<1>8. old \in N
  BY <1>5 DEF UnsentIds
<1> HIDE DEF N, old
<1>9. Cardinality(UnsentIds(timeline')) <= MaxUnsent
  <2> DEFINE M == N \ {old}
  <2>1. IsFiniteSet(N) /\ Cardinality(N) \in Nat /\ Cardinality(N) <= MaxUnsent /\ MaxUnsent \in Nat
    BY UnsentPlaces, ClientFields, TimelineAssumption DEF N, SInv, Basics, TimelineAssumption
  <2>2. IsFiniteSet(M) /\ Cardinality(M) = Cardinality(N) - 1
    BY <1>8, <2>1, FS_RemoveElement
  <2> HIDE DEF M
  <2>3. IsFiniteSet(M \cup {NewId}) /\ Cardinality(M \cup {NewId}) <= Cardinality(M) + 1
    <3>1. /\ IsFiniteSet(M \cup {NewId})
          /\ Cardinality(M \cup {NewId}) = IF NewId \in M THEN Cardinality(M) ELSE Cardinality(M) + 1
      BY <2>2, FS_AddElement
    <3> QED
      BY <2>1, <2>2, <3>1
  <2>4. /\ IsFiniteSet(UnsentIds(timeline'))
        /\ Cardinality(UnsentIds(timeline')) <= Cardinality(M \cup {NewId})
    BY <1>7, <2>3, FS_Subset DEF M
  <2>5. Cardinality(UnsentIds(timeline')) \in Nat /\ Cardinality(M \cup {NewId}) \in Nat
    BY <2>3, <2>4, FS_CardinalityType
  <2> QED
    BY <2>1, <2>2, <2>3, <2>4, <2>5
<1>10. \A k \in DOMAIN timeline' :
           \/ timeline'[k].id \in Int /\ timeline'[k].id < 0
           \/ \E i \in DOMAIN timeline : timeline'[k].id = timeline[i].id /\ timeline'[k].rank = timeline[i].rank
  BY <1>2, <1>4
<1>11. \A i \in DOMAIN timeline : timeline[i].id > 0 => \E k \in DOMAIN timeline' : timeline'[k].id = timeline[i].id
  <2> SUFFICES ASSUME NEW i \in DOMAIN timeline, timeline[i].id > 0
               PROVE  i \in DOMAIN timeline' /\ timeline'[i].id = timeline[i].id
    BY Zenon
  <2>1. i # n
    BY <1>5 DEF old
  <2> QED
    BY <1>4, <2>1
<1>12. UNCHANGED <<server, wire, link, sessions, refresh, queue, history, known, hydration>>
  BY DEF Retry, requests
<1>13. link = "down" => \A s \in sends' : ~s.online
  BY <1>1
<1> QED
  BY <1>9, <1>10, <1>11, <1>12, <1>13, SameSteps, Zenon

LEMMA SendFailsSettled ==
    ASSUME TInv, SInv, NEW s \in sends, SendFails(s)
    PROVE  SInv'
<1>1. timeline' = MarkFailed(timeline, s.cid)
  BY DEF SendFails
<1>2. timeline \in Seq(EntryType)
  BY ServerIs DEF LineOK
<1>3. \A e \in EntryType : [e EXCEPT !.state = "failed"].id = e.id /\ [e EXCEPT !.state = "failed"].rank = e.rank
  BY DEF EntryType
<1>4. DOMAIN timeline' = DOMAIN timeline
      /\ \A i \in DOMAIN timeline : timeline'[i].id = timeline[i].id /\ timeline'[i].rank = timeline[i].rank
  <2>1. \A i \in DOMAIN timeline : timeline[i] \in EntryType
    BY <1>2
  <2> QED
    BY <1>1, <1>3, <2>1 DEF MarkFailed
<1>5. UnsentIds(timeline') \subseteq UnsentIds(timeline)
  BY <1>4 DEF UnsentIds
<1>6. Cardinality(UnsentIds(timeline')) <= MaxUnsent
  BY <1>5, FewUnsent, ServerIs, ClientFields DEF SInv, Basics
<1>7. link = "down" => \A t \in sends' : ~t.online
  <2>1. s \in Push
    BY DEF TInv, PartsOK, SendsOK
  <2>2. [s EXCEPT !.waiting = FALSE].online = s.online
    BY <2>1 DEF Push
  <2>3. link = "down" => \A t \in sends : ~t.online
    BY DEF SInv, SessionsOK
  <2> QED
    BY <2>2, <2>3 DEF SendFails, With
<1>8. UNCHANGED <<server, wire, link, sessions, refresh, queue, history, known, hydration>>
  BY DEF SendFails, requests
<1>9. \A k \in DOMAIN timeline' :
          \/ timeline'[k].id \in Int /\ timeline'[k].id < 0
          \/ \E i \in DOMAIN timeline : timeline'[k].id = timeline[i].id /\ timeline'[k].rank = timeline[i].rank
  BY <1>4
<1>10. \A i \in DOMAIN timeline : timeline[i].id > 0 => \E k \in DOMAIN timeline' : timeline'[k].id = timeline[i].id
  BY <1>4
<1> QED
  BY <1>6, <1>7, <1>8, <1>9, <1>10, SameSteps, Zenon

LEMMA StandingSettled ==
    ASSUME TInv, SInv,
           ReconcileServerBuffers \/ ReconServed \/ ReconFails \/ LoadOlder \/ OlderServed \/ OlderFails
               \/ UNCHANGED vars
    PROVE  SInv'
<1>1. UNCHANGED <<server, wire, link, sessions, refresh, queue, history, timeline, known, hydration, sends>>
  BY DEF ReconcileServerBuffers, ReconServed, ReconFails, LoadOlder, OlderServed, OlderFails, vars,
         server, history
<1> QED
  BY <1>1, UnchangedSteps

\* Steps of the refresh that leave what the client shows alone.
LEMMA RefreshSteps ==
    ASSUME TInv, SInv,
           UNCHANGED <<server, wire, link, sessions, queue, history, timeline, known, hydration, sends>>,
           refresh'.stage = "answered" => known <= refresh'.rev /\ refresh'.rev <= thread,
           refresh'.session <= sessions,
           Answered' => PageTold(refresh'.page, Coming, log)
    PROVE  SInv'
<1>1. Becomes(Client)
  BY ClientFields DEF Becomes, history
<1>2. Basics(Client)'
  <2>1. thread \in Nat /\ thread <= thread /\ known \in Nat
    BY ServerIs
  <2> QED
    BY <1>1, <2>1, NextBasics, ClientFields DEF SInv, server
<1>3. Coming' = Coming /\ (Live' <=> Live)
  BY DEF Coming, Behind, Live, history
<1>4. RevisionsOK'
  BY DEF SInv, RevisionsOK, FrameFits, server
<1>5. SessionsOK'
  BY DEF SInv, SessionsOK, history
<1>6. (link = "joined" => FramesTold(queue, wire, log, sessions))'
  BY DEF SInv, server
<1>7. (Answered => PageTold(refresh.page, Coming, log))'
  BY <1>3 DEF server
<1>8. (Live => Settled(Client, Coming, log))'
  BY <1>1, <1>3, NextSettled DEF SInv, server
<1> QED
  BY <1>2, <1>4, <1>5, <1>6, <1>7, <1>8 DEF SInv

LEMMA RefreshFailsSettled ==
    ASSUME TInv, SInv, RefreshFails
    PROVE  SInv'
<1>1. refresh \in [stage : {"idle", "sent", "answered", "waiting", "done"}, page : Seq(EntryType),
                   rev : Nat, session : Nat, again : BOOLEAN]
  BY DEF TInv, PartsOK, RefreshOK
<1>2. refresh'.stage \in {"waiting", "done"} /\ refresh'.session = refresh.session
  BY <1>1 DEF RefreshFails
<1>3. UNCHANGED <<server, wire, link, sessions, queue, history, timeline, known, hydration, sends>>
  BY DEF RefreshFails
<1>4. refresh.session <= sessions
  BY DEF SInv, SessionsOK
<1>5. refresh'.stage # "answered" /\ ~Answered'
  BY <1>2 DEF Answered
<1> QED
  BY <1>2, <1>3, <1>4, <1>5, RefreshSteps

\* The newest page holds what the server has, and everything else is older.
LEMMA NewestTold ==
    ASSUME LogOK(log), NEW n \in Nat \ {0}, NEW F
    PROVE  PageTold(Tail_(n), F, log)
<1> DEFINE top == Len(log) + 1
           I == Newest(n, top)
           q == PageOf(I)
<1>1. Tail_(n) = q
  BY DEF Tail_
<1>2. Len(log) \in Nat /\ DOMAIN log = 1..Len(log) /\ I \subseteq DOMAIN log
  BY MessageFields DEF LogOK, Newest
<1>3. \A i \in DOMAIN log : i \in I <=> i >= top - n
  BY <1>2 DEF Newest
<1> HIDE DEF I
<1>4. /\ PageOK(q, log, {})
      /\ \A k \in DOMAIN q : q[k].id \in I /\ q[k].rank = log[q[k].id].rank
      /\ \A i \in I : \E k \in DOMAIN q : q[k].id = i
  BY <1>2, PageOfIs
<1> HIDE DEF q
<1>5. LateTold(q, F, log)
  <2> SUFFICES ASSUME NEW k \in DOMAIN q, Late(q[k], log)
               PROVE  FALSE
    BY DEF LateTold
  <2>1. q[k].rank = log[q[k].id].rank /\ q[k].rank \in Int
    BY <1>4, PageIdsAre DEF LogOK
  <2> QED
    BY <2>1 DEF Late
<1>6. Ids(q) = I
  <2>1. \A i : i \in Ids(q) <=> \E k \in DOMAIN q : q[k].id = i
    BY <1>4, PageIdsAre DEF LogOK
  <2>2. \A i : i \in I <=> \E k \in DOMAIN q : q[k].id = i
    BY <1>4
  <2> QED
    BY <2>1, <2>2
<1>7. Accounted(Ids(q), Brought(F), log)
  <2> SUFFICES ASSUME NEW i \in DOMAIN log, i \notin I
               PROVE  Below(I, i)
    BY <1>6 DEF Accounted
  <2>1. ~(i >= top - n)
    BY <1>3
  <2>2. \A m \in I : m \in DOMAIN log /\ m >= top - n
    BY <1>2, <1>3
  <2>3. \A m \in I : i < m
    BY <1>2, <2>1, <2>2
  <2>4. Len(log) \in I
    BY <1>2, <1>3
  <2> QED
    BY <2>3, <2>4 DEF Below
<1> QED
  BY <1>1, <1>5, <1>7 DEF PageTold

LEMMA RefreshServedSettled ==
    ASSUME TInv, SInv, RefreshServed
    PROVE  SInv'
<1>1. refresh \in [stage : {"idle", "sent", "answered", "waiting", "done"}, page : Seq(EntryType),
                   rev : Nat, session : Nat, again : BOOLEAN]
  BY DEF TInv, PartsOK, RefreshOK
<1> DEFINE x == IF link = "joined" THEN sessions ELSE 0
           page == Tail_(BootPage)
<1>2. refresh' = [refresh EXCEPT !.stage = "answered", !.page = page, !.rev = thread, !.session = x]
  BY DEF RefreshServed
<1> HIDE DEF x, page
<1>3. refresh'.rev = thread /\ refresh'.page = page /\ refresh'.session = x
  BY <1>1, <1>2
<1>4. x <= sessions
  BY DEF x, TInv, ServerOK
<1>5. PageTold(page, Coming, log)
  BY ServerIs, BoundsAre, NewestTold DEF page
<1>6. known <= thread /\ thread <= thread
  BY ServerIs, ClientFields DEF SInv, Basics
<1>7. UNCHANGED <<server, wire, link, sessions, queue, history, timeline, known, hydration, sends>>
  BY DEF RefreshServed, requests
<1> QED
  BY <1>3, <1>4, <1>5, <1>6, <1>7, RefreshSteps

LEMMA LinkLostSettled ==
    ASSUME TInv, SInv, LinkLost
    PROVE  SInv'
<1>1. Becomes(Client)
  BY ClientFields DEF Becomes, LinkLost, requests
<1>2. Basics(Client)'
  <2>1. thread \in Nat /\ thread <= thread /\ known \in Nat
    BY ServerIs
  <2> QED
    BY <1>1, <2>1, NextBasics, ClientFields DEF SInv, server, LinkLost
<1>3. link' = "down" /\ ~synced' /\ ~Live' /\ ~Answered' /\ wire' = <<>>
  BY DEF LinkLost, Live, Answered
<1>4. RevisionsOK'
  BY <1>3 DEF SInv, RevisionsOK, FrameFits, server, LinkLost
<1>5. SessionsOK'
  <2>1. \A s \in sends : [s EXCEPT !.online = FALSE].online = FALSE
    <3>1. \A s \in sends : s \in Push
      BY DEF TInv, PartsOK, SendsOK
    <3> QED
      BY <3>1 DEF Push
  <2>2. \A s \in sends' : ~s.online
    BY <2>1 DEF LinkLost
  <2> QED
    BY <1>3, <2>2 DEF SInv, SessionsOK, LinkLost
<1> QED
  BY <1>2, <1>3, <1>4, <1>5 DEF SInv

LEMMA JoinOkSettled ==
    ASSUME TInv, SInv, JoinOk
    PROVE  SInv'
<1>1. Becomes(Client) /\ link = "down" /\ ~synced /\ wire = <<>> /\ wire' = <<>>
  BY ClientFields DEF Becomes, JoinOk, requests, history, SInv, SessionsOK
<1>2. Basics(Client)'
  <2>1. thread \in Nat /\ thread <= thread /\ known \in Nat
    BY ServerIs
  <2> QED
    BY <1>1, <2>1, NextBasics, ClientFields DEF SInv, server, JoinOk
<1>3. /\ refresh \in [stage : {"idle", "sent", "answered", "waiting", "done"}, page : Seq(EntryType),
                      rev : Nat, session : Nat, again : BOOLEAN]
      /\ sessions \in Nat
  BY DEF TInv, PartsOK, RefreshOK, ServerOK
<1>4. sessions' = sessions + 1 /\ refresh.session <= sessions /\ sessions >= 1
      /\ \A i \in DOMAIN queue : queue[i].session <= sessions
  BY DEF JoinOk, SInv, SessionsOK
<1>5. \/ refresh'.stage = "sent" /\ refresh'.session = 0
      \/ refresh'.stage = refresh.stage /\ refresh'.rev = refresh.rev /\ refresh'.session = refresh.session
  BY <1>3 DEF JoinOk, RequestRefresh, NoRefresh
<1>6. refresh'.session <= sessions
  BY <1>3, <1>4, <1>5
<1>7. ~Live' /\ ~Answered'
  <2>1. ~synced'
    BY <1>1 DEF JoinOk, history
  <2>2. refresh'.session # sessions'
    BY <1>3, <1>4, <1>5, <1>6
  <2> QED
    BY <2>1, <2>2 DEF Live, Answered
<1>8. RevisionsOK'
  BY <1>1, <1>5 DEF SInv, RevisionsOK, FrameFits, server, JoinOk
<1>9. \A i \in DOMAIN queue : queue[i].session \in Nat
  <2>1. queue \in Seq(Held)
    BY ServerIs DEF QueueOK
  <2>2. \A h \in Held : h.session \in Nat
    BY DEF Held
  <2>3. \A i \in DOMAIN queue : queue[i] \in Held
    BY <2>1
  <2> QED
    BY <2>2, <2>3
<1>10. SessionsOK'
  <2>1. sessions' >= 1 /\ refresh'.session <= sessions' /\ \A i \in DOMAIN queue : queue[i].session <= sessions'
    <3>1. refresh'.session \in Nat
      BY <1>3, <1>5
    <3> QED
      BY <1>3, <1>4, <1>6, <1>9, <3>1
  <2> QED
    BY <1>1, <2>1 DEF SessionsOK, JoinOk, history
<1>11. FramesTold(queue', wire', log', sessions')
  <2>1. DOMAIN wire' = {}
    BY <1>1
  <2>2. \A i \in DOMAIN queue : queue[i].session # sessions'
    BY <1>3, <1>4, <1>9
  <2> QED
    BY <2>1, <2>2 DEF FramesTold, JoinOk
<1> QED
  BY <1>2, <1>7, <1>8, <1>10, <1>11 DEF SInv

\* A page of older messages: what it leaves out, if it is full, is older.
LEMMA OlderPageIs ==
    ASSUME LogOK(log), NEW n \in Nat \ {0}, NEW before \in 1..(Len(log) + 1), NEW q,
           q = PageOf(Newest(n, before))
    PROVE  /\ PageOK(q, log, {}) /\ \A k \in DOMAIN q : q[k].rank = log[q[k].id].rank
           /\ \A i \in DOMAIN log : i < before => i \in Ids(q) \/ (Len(q) = n /\ i < q[1].id)
<1> DEFINE I == Newest(n, before)
           lo == before - n
<1>1. Len(log) \in Nat /\ DOMAIN log = 1..Len(log) /\ I \subseteq DOMAIN log
  BY MessageFields DEF LogOK, Newest
<1>2. \A i \in DOMAIN log : i \in I <=> i >= lo /\ i < before
  BY <1>1 DEF Newest
<1>0. lo \in Int /\ lo < before /\ before \in Nat
  BY <1>1
<1>7. lo >= 1 => I = lo..(before - 1)
  <2> SUFFICES ASSUME lo >= 1
               PROVE  I = lo..(before - 1)
    OBVIOUS
  <2> HIDE DEF I, lo
  <2>1. ASSUME NEW i
        PROVE  i \in I <=> i \in lo..(before - 1)
    BY <1>0, <1>1, <1>2
  <2> QED
    BY <2>1
<1>8. Cardinality(I) \in Nat => Len(q) = Cardinality(I)
  <2> DEFINE f == [m \in I |-> Stored_(m)]
  <2>1. q = [m \in 1..Cardinality(I) |-> f[Nth(I, m)]]
    BY DEF PageOf, Picked
  <2> HIDE DEF f, I
  <2> QED
    BY <2>1
<1>9. q = PageOf(I)
  OBVIOUS
<1> HIDE DEF I, lo
<1>3. /\ PageOK(q, log, {})
      /\ \A k \in DOMAIN q : q[k].id \in I /\ q[k].rank = log[q[k].id].rank
      /\ \A k, m \in DOMAIN q : k < m => q[k].id < q[m].id
      /\ \A i \in I : \E k \in DOMAIN q : q[k].id = i
  BY <1>1, <1>9, PageOfIs
<1>4. \A i \in Ids(q) : \E k \in DOMAIN q : q[k].id = i
  BY DEF Ids
<1>5. \A i \in I : i \in Ids(q)
  BY <1>3, PageIdsAre DEF LogOK
<1>6. ASSUME NEW i \in DOMAIN log, i < before, i \notin Ids(q)
      PROVE  Len(q) = n /\ i < q[1].id
  <2>1. i < lo
    BY <1>0, <1>1, <1>2, <1>5, <1>6
  <2>2. lo >= 1 /\ lo \in DOMAIN log /\ lo \in I
    BY <1>0, <1>1, <1>2, <2>1
  <2>3. Cardinality(I) = n
    <3>1. /\ IsFiniteSet(lo..(before - 1))
          /\ Cardinality(lo..(before - 1)) = IF lo > before - 1 THEN 0 ELSE before - 1 - lo + 1
      BY <1>0, FS_Interval
    <3>2. before - 1 - lo + 1 = n /\ ~(lo > before - 1)
      BY <1>0 DEF lo
    <3> QED
      BY <1>7, <2>2, <3>1, <3>2
  <2>4. Len(q) = n /\ n >= 1 /\ q \in Seq(EntryType)
    BY <1>3, <1>8, <2>3 DEF PageOK
  <2>5. 1 \in DOMAIN q
    BY <2>4
  <2>6. q[1].id \in I
    BY <1>3, <2>5
  <2>7. q[1].id >= lo
    BY <1>1, <1>2, <2>6
  <2>8. q[1].id \in Int
    BY <1>1, <2>6
  <2> QED
    BY <1>0, <1>1, <2>1, <2>4, <2>7, <2>8
<1> QED
  BY <1>3, <1>6

\* Steps that change only the hydration.
LEMMA HydrationSteps ==
    ASSUME TInv, SInv,
           UNCHANGED <<server, wire, link, sessions, refresh, queue, history, timeline, known, sends>>,
           ~Open(known) \/ kind = "channel" => ~hydration'.busy /\ ~hydration'.done,
           Live => Supplied(hydration', Ids(timeline), Coming, log)
    PROVE  SInv'
<1> DEFINE c == [tl |-> timeline, rev |-> known, hyd |-> hydration', torn |-> torn, lag |-> lagging]
<1>1. /\ c.tl = timeline /\ c.rev = known /\ c.hyd = hydration' /\ c.torn = torn /\ c.lag = lagging
      /\ Becomes(c)
  BY DEF Becomes, history
<1> HIDE DEF c
<1>2. Basics(c)
  BY <1>1, ClientFields DEF SInv, Basics
<1>3. Live => Settled(c, Coming, log)
  BY <1>1, ClientFields DEF SInv, Settled
<1>4. link = "down" => \A s \in sends' : ~s.online
  BY DEF SInv, SessionsOK
<1>5. UNCHANGED <<server, wire, link, sessions, refresh, queue, synced>>
  BY DEF history
<1> QED
  BY <1>1, <1>2, <1>3, <1>4, <1>5, ClientSteps

LEMMA HydrationServedSettled ==
    ASSUME TInv, SInv, HydrationServed
    PROVE  SInv'
<1> DEFINE h == hydration
           top == IF h.before = None THEN Len(log) + 1 ELSE h.before
           q == PageOf(Newest(DirectPage, top))
<1>1. h \in Hydration /\ h.stage = "sent" /\ h.busy /\ PageOK(h.got, log, {})
  BY ServerIs DEF HydrationServed, HydrationOK
<1>2. h' = [h EXCEPT !.stage = "answered", !.page = q]
  BY DEF HydrationServed, Tail_
<1> HIDE DEF q, top
<1>3. /\ h'.busy = h.busy /\ h'.done = h.done /\ h'.stage = "answered" /\ h'.got = h.got
      /\ h'.page = q /\ h'.before = h.before
  BY <1>1, <1>2 DEF Hydration
<1>4. ~Open(known) \/ kind = "channel" => ~h'.busy /\ ~h'.done
  BY <1>3, ClientFields DEF SInv, Basics
<1>5. ASSUME Live
      PROVE  Supplied(h', Ids(timeline), Coming, log)
  <2>1. Supplied(h, Ids(timeline), Coming, log)
    BY <1>5, ClientFields DEF SInv, Settled
  <2>2. top \in 1..(Len(log) + 1)
    <3>1. Len(log) \in Nat /\ DOMAIN log = 1..Len(log)
      BY ServerIs, MessageFields
    <3>2. CASE h.before = None
      BY <3>1, <3>2 DEF top
    <3>3. CASE h.before # None
      <4>1. h.before \in Ids(h.got)
        BY <1>1, <2>1, <3>3 DEF Supplied
      <4>2. h.before \in DOMAIN log
        BY <1>1, <4>1, ServerIs, PageIdsAre
      <4> QED
        BY <3>1, <3>3, <4>2 DEF top
    <3> QED
      BY <3>2, <3>3
  <2>3. /\ PageOK(q, log, {}) /\ \A k \in DOMAIN q : q[k].rank = log[q[k].id].rank
        /\ \A i \in DOMAIN log : i < top => i \in Ids(q) \/ (Len(q) = DirectPage /\ i < q[1].id)
    BY <2>2, ServerIs, BoundsAre, OlderPageIs DEF q
  <2>4. \A k \in DOMAIN q : EntryTold(q[k], Ids(timeline), Coming, log)
    <3> SUFFICES ASSUME NEW k \in DOMAIN q
                 PROVE  ~Late(q[k], log)
      BY DEF EntryTold
    <3>1. q[k].rank \in Int /\ q[k].rank = log[q[k].id].rank
      BY <2>3, ServerIs, PageIdsAre
    <3> QED
      BY <3>1 DEF Late
  <2>5. ASSUME NEW n \in DOMAIN log, Remains(h, n)
        PROVE  Remains(h', n)
    <3>1. n < top
      <4>1. Len(log) \in Nat /\ DOMAIN log = 1..Len(log)
        BY ServerIs, MessageFields
      <4> QED
        BY <1>1, <2>5, <4>1 DEF Remains, top
    <3> QED
      BY <1>3, <2>3, <3>1 DEF Remains
  <2> QED
    BY <1>1, <1>3, <2>1, <2>4, <2>5 DEF Supplied
<1>6. UNCHANGED <<server, wire, link, sessions, refresh, queue, history, timeline, known, sends>>
  BY DEF HydrationServed
<1> QED
  BY <1>4, <1>5, <1>6, HydrationSteps

LEMMA EndsAre ==
    ASSUME NEW h, NEW done \in BOOLEAN
    PROVE  /\ done => HydrationEnds(h, done).done /\ ~HydrationEnds(h, done).busy
           /\ \A A, F, l : ~done => Supplied(HydrationEnds(h, done), A, F, l)
<1> DEFINE free == [NoHydration EXCEPT !.done = done]
<1>1. free \in Hydration
  BY FreeOK DEF HydrationOK
<1>2. free.done = done /\ ~free.busy
  BY DEF NoHydration
<1>3. HydrationEnds(h, done) = IF h.retry THEN Hydrate(free) ELSE free
  BY DEF HydrationEnds
<1> HIDE DEF free
<1>4. done => Hydrate(free) = free
  BY <1>2 DEF Hydrate
<1>5. ASSUME NEW A, NEW F, NEW l, ~done
      PROVE  Supplied(HydrationEnds(h, done), A, F, l)
  <2>1. Supplied(free, A, F, l)
    BY <1>2, <1>5, NoneSupplied
  <2>2. Supplied(Hydrate(free), A, F, l)
    BY <1>1, <2>1, HydrateSupplies
  <2> QED
    BY <1>3, <2>1, <2>2
<1> QED
  BY <1>2, <1>3, <1>4, <1>5

LEMMA HydrationFailsSettled ==
    ASSUME TInv, SInv, HydrationFails
    PROVE  SInv'
<1>1. hydration' = HydrationEnds(hydration, FALSE) /\ hydration.busy
  BY DEF HydrationFails
<1>2. UNCHANGED <<server, wire, link, sessions, refresh, queue, history, timeline, known, sends>>
  BY DEF HydrationFails
<1>3. ~(~Open(known) \/ kind = "channel")
  BY <1>1, ClientFields DEF SInv, Basics
<1>4. Live => Supplied(hydration', Ids(timeline), Coming, log)
  BY <1>1, EndsAre
<1> QED
  BY <1>2, <1>3, <1>4, HydrationSteps
Holds(q, e) == \E i \in DOMAIN q : e = q[i]

\* The pages of a direct conversation that were fetched so far, with the one
\* that was answered in front.
LEMMA HydrationGot ==
    ASSUME TInv, NEW h, HydrationOK(h, log), NEW got, got = h.page \o h.got
    PROVE  /\ PageOK(got, log, {}) /\ Ids(got) = Ids(h.page) \cup Ids(h.got)
           /\ \A k \in DOMAIN got : Holds(h.page, got[k]) \/ Holds(h.got, got[k])
<1>1. log \in Seq(Message)
  BY ServerIs
<1>2. h \in Hydration /\ PageOK(h.page, log, {}) /\ PageOK(h.got, log, {})
  BY DEF HydrationOK
<1>3. h.page \in Seq(EntryType) /\ h.got \in Seq(EntryType) /\ h.before \in Nat \cup {None}
  BY <1>2 DEF PageOK, Hydration
<1>4. /\ \A k \in DOMAIN h.page : h.page[k].id \in Nat
      /\ \A k \in DOMAIN h.got : h.got[k].id \in Nat
  BY <1>1, <1>2, PageIdsAre
<1>5. ASSUME NEW i \in DOMAIN h.page, NEW j \in DOMAIN h.got
      PROVE  h.page[i].id # h.got[j].id
  <2>1. h.before # None
    BY <1>5 DEF HydrationOK
  <2>2. h.page[i].id < h.before /\ h.before <= h.got[j].id /\ h.before \in Nat
    BY <1>3, <1>5, <2>1 DEF HydrationOK
  <2> QED
    BY <1>4, <1>5, <2>2
<1>6. PageOK(got, log, {})
  <2> DEFINE none == {}
  <2>1. \A i \in DOMAIN h.page : \A j \in DOMAIN h.got : h.page[i].id = h.got[j].id => h.page[i].id \in none
    BY <1>5
  <2>2. PageOK(h.page, log, none) /\ PageOK(h.got, log, none)
    BY <1>2
  <2> HIDE DEF none
  <2>3. PageOK(got, log, none)
    BY <2>1, <2>2, JoinedPage
  <2> QED
    BY <2>3 DEF none
<1> DEFINE a == h.page
           b == h.got
<1>7. ASSUME NEW k \in DOMAIN got
      PROVE  (\E i \in DOMAIN h.page : got[k] = h.page[i]) \/ \E i \in DOMAIN h.got : got[k] = h.got[i]
  <2>1. a \in Seq(EntryType) /\ b \in Seq(EntryType) /\ got = a \o b
    BY <1>3
  <2> HIDE DEF a, b
  <2>2. (\E i \in DOMAIN a : got[k] = a[i]) \/ \E i \in DOMAIN b : got[k] = b[i]
    BY <2>1, ConcatFrom
  <2> QED
    BY <2>2 DEF a, b
<1>8. /\ \A i \in DOMAIN h.page : \E k \in DOMAIN got : got[k] = h.page[i]
      /\ \A i \in DOMAIN h.got : \E k \in DOMAIN got : got[k] = h.got[i]
  <2>1. a \in Seq(EntryType) /\ b \in Seq(EntryType) /\ got = a \o b
    BY <1>3
  <2> HIDE DEF a, b
  <2>2. /\ \A i \in DOMAIN a : i \in DOMAIN got /\ got[i] = a[i]
        /\ \A i \in DOMAIN b : Len(a) + i \in DOMAIN got /\ got[Len(a) + i] = b[i]
    BY <2>1, ConcatHolds
  <2>3. /\ \A i \in DOMAIN a : \E k \in DOMAIN got : got[k] = a[i]
        /\ \A i \in DOMAIN b : \E k \in DOMAIN got : got[k] = b[i]
    BY <2>2
  <2> QED
    BY <2>3 DEF a, b
<1>9. ASSUME NEW n
      PROVE  n \in Ids(got) <=> n \in Ids(h.page) \cup Ids(h.got)
  <2>1. n \in Ids(got) => n \in Ids(h.page) \cup Ids(h.got)
    BY <1>7 DEF Ids
  <2>2. n \in Ids(h.page) => n \in Ids(got)
    BY <1>8 DEF Ids
  <2>3. n \in Ids(h.got) => n \in Ids(got)
    BY <1>8 DEF Ids
  <2> QED
    BY <2>1, <2>2, <2>3
<1>10. Ids(got) = Ids(h.page) \cup Ids(h.got)
  BY <1>9
<1>11. \A k \in DOMAIN got : Holds(h.page, got[k]) \/ Holds(h.got, got[k])
  BY <1>7 DEF Holds
<1> QED
  BY <1>6, <1>10, <1>11

LEMMA HydrationPageSettled ==
    ASSUME TInv, SInv, HydrationPage
    PROVE  SInv'
<1> DEFINE h == hydration
           got == h.page \o h.got
           A == Ids(timeline)
<1>1. HydrationOK(h, log) /\ h \in Hydration /\ h.stage = "answered" /\ h.busy /\ PageOK(h.page, log, {})
  BY ServerIs DEF HydrationPage, HydrationOK
<1>2. /\ PageOK(got, log, {}) /\ Ids(got) = Ids(h.page) \cup Ids(h.got)
      /\ \A k \in DOMAIN got : Holds(h.page, got[k]) \/ Holds(h.got, got[k])
  <2>1. got = h.page \o h.got
    OBVIOUS
  <2> HIDE DEF got, h
  <2>2. PageOK(got, log, {})
    BY <1>1, <2>1, HydrationGot, Zenon
  <2>3. Ids(got) = Ids(h.page) \cup Ids(h.got)
    BY <1>1, <2>1, HydrationGot, Zenon
  <2>4. \A k \in DOMAIN got : Holds(h.page, got[k]) \/ Holds(h.got, got[k])
    BY <1>1, <2>1, HydrationGot
  <2> QED
    BY <2>2, <2>3, <2>4
<1>3. Open(known) /\ kind = "direct"
  BY <1>1, ServerIs, ClientFields DEF SInv, Basics
<1>4. ASSUME Live
      PROVE  /\ Supplied(h, A, Coming, log)
             /\ \A k \in DOMAIN got : EntryTold(got[k], A, Coming, log)
             /\ \A n \in DOMAIN log : n \in A \/ n \in Brought(Coming) \/ n \in Ids(got)
                                          \/ (Len(h.page) = DirectPage /\ n < h.page[1].id)
  <2>1. Supplied(h, A, Coming, log)
    BY <1>4, ClientFields DEF SInv, Settled
  <2>2. \A k \in DOMAIN got : EntryTold(got[k], A, Coming, log)
    BY <1>1, <1>2, <2>1 DEF Supplied, Holds
  <2>3. \A n \in DOMAIN log : n \in A \/ n \in Brought(Coming) \/ n \in Ids(h.got) \/ Remains(h, n)
    BY <1>1, <2>1 DEF Supplied
  <2>4. \A n : Remains(h, n) => n \in Ids(h.page) \/ (Len(h.page) = DirectPage /\ n < h.page[1].id)
    BY <1>1 DEF Remains
  <2> QED
    BY <1>2, <2>1, <2>2, <2>3, <2>4
<1> HIDE DEF got
<1>5. UNCHANGED <<server, wire, link, sessions, refresh, queue, synced, known, sends, lagging>>
  BY DEF HydrationPage
<1>6. CASE Len(h.page) = DirectPage
  <2> DEFINE n == Head(h.page).id
  <2>1. hydration' = Request(h, n, got) /\ timeline' = timeline /\ torn' = torn
    BY <1>6 DEF HydrationPage, got
  <2>2. h.page \in Seq(EntryType) /\ h.page # <<>> /\ 1 \in DOMAIN h.page /\ n = h.page[1].id
    BY <1>1, <1>6, BoundsAre DEF PageOK
  <2>3. n \in Ids(got) /\ n \in Nat /\ n # None
    BY <1>1, <1>2, <2>2, ServerIs, BoundsAre, PageIdsAre
  <2> HIDE DEF n
  <2>4. /\ hydration'.busy /\ hydration'.done = h.done /\ hydration'.stage = "sent" /\ hydration'.page = <<>>
        /\ hydration'.before = n /\ hydration'.got = got
    BY <1>1, <2>1 DEF Request, Hydration
  <2>5. ASSUME Live
        PROVE  Supplied(hydration', A, Coming, log)
    <3>1. h.done => \A m \in DOMAIN log : m \in A \/ m \in Brought(Coming)
      BY <1>4, <2>5 DEF Supplied
    <3>2. \A m \in DOMAIN log : m \in A \/ m \in Brought(Coming) \/ m \in Ids(got) \/ m < n
      BY <1>4, <2>2, <2>5
    <3>3. \A k \in DOMAIN got : EntryTold(got[k], A, Coming, log)
      BY <1>4, <2>5
    <3>4. DOMAIN hydration'.page = {}
      BY <2>4
    <3>5. \A m \in DOMAIN log : m < n => Remains(hydration', m)
      BY <2>4 DEF Remains
    <3> HIDE DEF A
    <3> QED
      BY <2>3, <2>4, <3>1, <3>2, <3>3, <3>4, <3>5 DEF Supplied
  <2>6. UNCHANGED <<server, wire, link, sessions, refresh, queue, history, timeline, known, sends>>
    BY <1>5, <2>1 DEF history
  <2>7. ~(~Open(known) \/ kind = "channel")
    BY <1>3
  <2> QED
    BY <2>5, <2>6, <2>7, HydrationSteps
<1>7. CASE Len(h.page) # DirectPage
  <2>1. /\ timeline' = MergeOlder(got, timeline) /\ torn' = (torn \/ Tears(got, timeline))
        /\ hydration' = HydrationEnds(h, TRUE)
    BY <1>7 DEF HydrationPage, got
  <2>2. hydration'.done /\ ~hydration'.busy
    BY <2>1, EndsAre
  <2>3. Merges(timeline', timeline, got)
    <3> DEFINE none == {}
    <3>1. none \subseteq Excused(log) /\ PageOK(got, log, none)
      BY <1>2
    <3>2. Cardinality(UnsentIds(timeline)) <= MaxUnsent
      BY ClientFields DEF SInv, Basics
    <3> HIDE DEF none
    <3>3. Merges(MergeOlder(got, timeline), timeline, got)
      BY <3>1, <3>2, ServerIs, MergedShows
    <3> QED
      BY <2>1, <3>3
  <2> DEFINE c == [tl |-> timeline', rev |-> known', hyd |-> hydration', torn |-> torn', lag |-> lagging']
  <2>4. /\ c.tl = timeline' /\ c.rev = known /\ c.hyd = hydration' /\ c.torn = torn' /\ c.lag = lagging
        /\ Becomes(c)
    BY <1>5 DEF Becomes
  <2> HIDE DEF c
  <2>5. Basics(c)
    <3>1. UnsentIds(timeline') \subseteq UnsentIds(timeline)
      BY <2>3 DEF Merges
    <3>2. Cardinality(UnsentIds(timeline')) <= MaxUnsent
      BY <3>1, FewUnsent, ServerIs, ClientFields DEF SInv, Basics
    <3> QED
      BY <1>3, <2>4, <3>2, ClientFields DEF SInv, Basics
  <2>6. ASSUME Live
        PROVE  Settled(c, Coming, log)
    <3>1. Settled(Client, Coming, log)
      BY <2>6 DEF SInv
    <3>2. ASSUME ~lagging
          PROVE  LateTold(timeline', Coming, log)
      <4>1. LateTold(timeline, Coming, log)
        BY <3>1, <3>2, ClientFields DEF Settled
      <4>2. \A k \in DOMAIN got : got[k].id \notin A /\ Late(got[k], log) => Tells(Coming, got[k].id, log)
        BY <1>4, <2>6 DEF EntryTold
      <4> QED
        BY <1>2, <2>3, <4>1, <4>2, ServerIs, MergedLate
    <3>3. Ids(timeline') = A \cup Ids(got)
      BY <2>3 DEF Merges
    <3>4. \A n \in DOMAIN log : n \in Ids(timeline') \/ n \in Brought(Coming)
      BY <1>4, <1>7, <2>6, <3>3
    <3>5. Supplied(hydration', Ids(timeline'), Coming, log)
      BY <2>2, <3>4 DEF Supplied
    <3>6. ~c.lag => LateTold(c.tl, Coming, log)
      BY <2>4, <3>2
    <3>7. Supplied(c.hyd, Ids(c.tl), Coming, log)
      BY <2>4, <3>5
    <3>8. ~(kind = "channel")
      BY <1>3
    <3> QED
      BY <3>6, <3>7, <3>8 DEF Settled
  <2>7. link = "down" => \A s \in sends' : ~s.online
    BY <1>5 DEF SInv, SessionsOK
  <2>8. UNCHANGED <<server, wire, link, sessions, refresh, queue, synced>>
    BY <1>5
  <2> QED
    BY <2>4, <2>5, <2>6, <2>7, <2>8, ClientSteps
<1> QED
  BY <1>6, <1>7
-----------------------------------------------------------------------------
(* The server's steps: the log may grow, and a frame comes last.           *)

LEMMA PageTidings ==
    ASSUME NEW F, NEW G, NEW l, NEW m, MoreFrames(F, G), Tidings(l, m, G), NEW page, NEW X, PageOK(page, l, X),
           PageTold(page, F, l)
    PROVE  PageTold(page, G, m)
<1>1. LateTold(page, G, m)
  <2>1. \A i \in DOMAIN page : page[i].id \in DOMAIN l
    BY DEF PageOK, StoredEntry
  <2> QED
    BY <2>1, LateTidings DEF PageTold
<1>2. Brought(F) \subseteq Brought(G) /\ \A n \in DOMAIN m : n \in DOMAIN l \/ n \in Brought(G)
  BY FramesBring, AccountedTidings
<1> QED
  BY <1>1, <1>2 DEF PageTold, Accounted

LEMMA TidingsMore ==
    ASSUME NEW l, NEW m, NEW f, Tidings(l, m, {f}), NEW G, f \in G
    PROVE  Tidings(l, m, G)
BY DEF Tidings

LEMMA ToldTidings ==
    ASSUME NEW F, NEW G, NEW l, NEW m, MoreFrames(F, G), Tidings(l, m, G), NEW f, NEW u, FrameOK(f, l, u),
           FrameTold(f, F, l)
    PROVE  FrameTold(f, G, m)
<1> SUFFICES ASSUME f.type = "message", Late(f, m)
             PROVE  Tells(G, f.id, m)
  BY DEF FrameTold
<1>1. f.id \in DOMAIN l
  BY DEF FrameOK
<1> QED
  BY <1>1, TidingsTell DEF FrameTold

\* The frames that were on the socket still are, in their order, f is the
\* last one, and what else is new are answers that come before it.
Spread(w, v, p, f) ==
    /\ \A i \in DOMAIN w : p[i] \in 1..(Len(v) - 1) /\ v[p[i]] = w[i]
    /\ \A i, j \in DOMAIN w : i < j => p[i] < p[j]
    /\ Len(v) \in Nat \ {0} /\ DOMAIN v = 1..Len(v) /\ v[Len(v)] = f
    /\ \A k \in 1..(Len(v) - 1) : (\E i \in DOMAIN w : k = p[i]) \/ v[k].type = "reply"

\* An answer that is new is followed by the frame of the newest message.
Answers(w, v, p, f, m) ==
    \A k \in DOMAIN v : v[k].type = "reply" /\ (\A i \in DOMAIN w : k # p[i])
        => \A x \in DOMAIN m : x >= v[k].id => x = f.id /\ f.type = "message"

LEMMA SpreadsAfter ==
    ASSUME NEW w, NEW v, NEW p, NEW f, Spread(w, v, p, f), DOMAIN w \subseteq Nat \ {0}
    PROVE  /\ \A i \in DOMAIN w : After(w, i) \subseteq After(v, p[i])
           /\ \A k \in 0..(Len(v) - 1) : f \in After(v, k)
           /\ After(w, 0) \subseteq After(v, 0)
<1>1. Len(v) \in Nat \ {0} /\ DOMAIN v = 1..Len(v) /\ v[Len(v)] = f
  BY DEF Spread
<1>2. \A i \in DOMAIN w : p[i] \in DOMAIN v /\ p[i] > 0 /\ v[p[i]] = w[i]
  BY <1>1 DEF Spread
<1>3. \A k \in 0..(Len(v) - 1) : f \in After(v, k)
  <2> SUFFICES ASSUME NEW k \in 0..(Len(v) - 1)
               PROVE  f \in After(v, k)
    OBVIOUS
  <2>1. Len(v) \in DOMAIN v /\ Len(v) > k
    BY <1>1
  <2> QED
    BY <1>1, <2>1 DEF After
<1>4. ASSUME NEW i \in DOMAIN w, NEW g \in After(w, i)
      PROVE  g \in After(v, p[i])
  <2>1. PICK j \in DOMAIN w : j > i /\ g = w[j]
    BY <1>4 DEF After
  <2>2. i < j
    BY <2>1
  <2>3. p[j] > p[i]
    <3>1. p[i] < p[j] /\ p[i] \in Int /\ p[j] \in Int
      BY <1>1, <1>2, <2>2 DEF Spread
    <3> QED
      BY <3>1
  <2> QED
    BY <1>2, <2>1, <2>3 DEF After
<1>5. ASSUME NEW g \in After(w, 0)
      PROVE  g \in After(v, 0)
  <2>1. PICK j \in DOMAIN w : g = w[j]
    BY <1>5 DEF After
  <2> QED
    BY <1>2, <2>1 DEF After
<1> QED
  BY <1>3, <1>4, <1>5

LEMMA GrowthTold ==
    ASSUME NEW w, NEW v, NEW p, NEW f, Spread(w, v, p, f), NEW l, NEW m, NEW u, WireOK(w, l, u),
           Tidings(l, m, {f}), f.type = "message" => ~Late(f, m), f.type # "reply",
           NEW held, NEW n, FramesTold(held, w, l, n), QueueOK(held, l, u), Answers(w, v, p, f, m)
    PROVE  FramesTold(held, v, m, n)
<1>1. /\ \A i \in DOMAIN w : After(w, i) \subseteq After(v, p[i])
      /\ \A k \in 0..(Len(v) - 1) : f \in After(v, k)
      /\ After(w, 0) \subseteq After(v, 0)
  <2>1. DOMAIN w \subseteq Nat \ {0}
    BY DEF WireOK
  <2> QED
    BY <2>1, SpreadsAfter
<1>2. Len(v) \in Nat \ {0} /\ DOMAIN v = 1..Len(v) /\ v[Len(v)] = f
  BY DEF Spread
<1>3. ASSUME NEW i \in DOMAIN w
      PROVE  MoreFrames(After(w, i), After(v, p[i])) /\ Tidings(l, m, After(v, p[i]))
  <2>1. f \in After(v, p[i])
    <3>1. p[i] \in 0..(Len(v) - 1)
      BY <1>2 DEF Spread
    <3> QED
      BY <1>1, <3>1
  <2> QED
    BY <1>1, <2>1, TidingsMore DEF MoreFrames
<1>4. ASSUME NEW k \in DOMAIN v
      PROVE  /\ FrameTold(v[k], After(v, k), m)
             /\ v[k].type = "reply" => \A x \in DOMAIN m : x >= v[k].id => x \in Brought(After(v, k))
  <2>1. CASE \E i \in DOMAIN w : k = p[i]
    <3>1. PICK i \in DOMAIN w : k = p[i]
      BY <2>1
    <3>2. v[k] = w[i] /\ FrameOK(w[i], l, u)
      BY <3>1 DEF Spread, WireOK
    <3>3. FrameTold(w[i], After(w, i), l)
      BY DEF FramesTold
    <3>4. FrameTold(v[k], After(v, k), m)
      BY <1>3, <3>1, <3>2, <3>3, ToldTidings
    <3>5. ASSUME v[k].type = "reply", NEW x \in DOMAIN m, x >= v[k].id
          PROVE  x \in Brought(After(v, k))
      <4>1. x \in DOMAIN l \/ x \in Brought(After(v, k))
        BY <1>3, <3>1, AccountedTidings
      <4>2. x \in DOMAIN l => x \in Brought(After(w, i))
        BY <3>2, <3>5 DEF FramesTold
      <4> QED
        BY <1>3, <3>1, <4>1, <4>2, FramesBring
    <3> QED
      BY <3>4, <3>5
  <2>2. CASE k = Len(v)
    BY <1>2, <2>2 DEF FrameTold
  <2>3. CASE k # Len(v) /\ \A i \in DOMAIN w : k # p[i]
    <3>1. k \in 1..(Len(v) - 1) /\ k \in 0..(Len(v) - 1)
      BY <1>2, <2>3
    <3>2. v[k].type = "reply" /\ f \in After(v, k)
      BY <1>1, <2>3, <3>1 DEF Spread
    <3>3. \A x \in DOMAIN m : x >= v[k].id => x = f.id /\ f.type = "message"
      BY <2>3, <3>2 DEF Answers
    <3> QED
      BY <3>2, <3>3 DEF Brought, FrameTold
  <2> QED
    BY <2>1, <2>2, <2>3
<1>5. ASSUME NEW i \in DOMAIN held, held[i].session = n
      PROVE  FrameTold(held[i].frame, Behind(held, v, i), m)
  <2>1. FrameTold(held[i].frame, Behind(held, w, i), l)
    BY <1>5 DEF FramesTold
  <2>2. MoreFrames(Behind(held, w, i), Behind(held, v, i))
    BY <1>1 DEF Behind, MoreFrames
  <2>3. f \in Behind(held, v, i)
    <3>1. 0 \in 0..(Len(v) - 1)
      BY <1>2
    <3> QED
      BY <1>1, <3>1 DEF Behind
  <2>4. Tidings(l, m, Behind(held, v, i))
    BY <2>3, TidingsMore
  <2>5. FrameOK(held[i].frame, l, u)
    BY DEF QueueOK
  <2> QED
    BY <2>1, <2>2, <2>4, <2>5, ToldTidings
<1> QED
  BY <1>4, <1>5 DEF FramesTold

\* Whatever the server does while the socket is up.
LEMMA GrowthSteps ==
    ASSUME TInv, SInv, link = "joined",
           UNCHANGED <<kind, link, sessions, timeline, known, hydration, history, refresh, queue>>,
           thread' \in Nat, thread <= thread',
           NEW p, NEW f, Spread(wire, wire', p, f), Tidings(log, log', {f}),
           f.type = "message" => ~Late(f, log'), f.type # "reply",
           f.type = "thread" => kind = "direct" /\ f.rev <= thread', f.type = "thread" => f.rev \in Nat,
           Answers(wire, wire', p, f, log')
    PROVE  SInv'
<1>1. Becomes(Client)
  BY ClientFields DEF Becomes, history
<1>2. WireOK(wire, log, spent.steps) /\ QueueOK(queue, log, spent.steps)
  BY ServerIs
<1>3. Basics(Client)'
  BY <1>1, ServerIs, NextBasics, ClientFields DEF SInv
<1>4. RevisionsOK'
  <2> DEFINE Fits(g) == g.type = "thread" => kind = "direct" /\ g.rev <= thread'
  <2>1. thread \in Nat /\ \A g \in Frame : g.type = "thread" => g.rev \in Nat
    BY ServerIs DEF Frame
  <2>2. \A g \in Frame : FrameFits(g) => Fits(g)
    BY <2>1 DEF FrameFits
  <2>3. \A i \in DOMAIN wire : wire[i] \in Frame /\ FrameFits(wire[i])
    BY <1>2 DEF WireOK, FrameOK, SInv, RevisionsOK
  <2>4. \A i \in DOMAIN queue : queue[i].frame \in Frame /\ FrameFits(queue[i].frame)
    BY <1>2 DEF QueueOK, FrameOK, SInv, RevisionsOK
  <2>5. ASSUME NEW k \in DOMAIN wire'
        PROVE  Fits(wire'[k])
    <3>1. CASE \E i \in DOMAIN wire : wire'[k] = wire[i]
      BY <2>2, <2>3, <3>1
    <3>2. CASE wire'[k].type = "reply"
      BY <3>2
    <3>3. CASE wire'[k] = f
      BY <3>3
    <3>4. \/ \E i \in DOMAIN wire : wire'[k] = wire[i]
          \/ wire'[k].type = "reply" \/ wire'[k] = f
      <4>1. k = Len(wire') \/ k \in 1..(Len(wire') - 1)
        BY DEF Spread
      <4> QED
        BY <4>1 DEF Spread
    <3> QED
      BY <3>1, <3>2, <3>3, <3>4
  <2>6. \A i \in DOMAIN queue : Fits(queue[i].frame)
    BY <2>2, <2>4
  <2>7. refresh.stage = "answered" => known <= refresh.rev /\ refresh.rev <= thread'
    <3>1. refresh.rev \in Nat
      BY DEF TInv, PartsOK, RefreshOK
    <3> QED
      BY <2>1, <3>1 DEF SInv, RevisionsOK
  <2> QED
    BY <2>5, <2>6, <2>7 DEF RevisionsOK, FrameFits
<1>5. SessionsOK'
  BY DEF SInv, SessionsOK, history
<1>6. FramesTold(queue, wire', log', sessions)
  <2>1. FramesTold(queue, wire, log, sessions)
    BY DEF SInv
  <2> QED
    BY <1>2, <2>1, GrowthTold
<1> DEFINE G == Behind(queue, wire', 0)
<1>7. MoreFrames(Coming, G) /\ Tidings(log, log', G) /\ Coming' = G
  <2>1. DOMAIN wire \subseteq Nat \ {0}
    BY <1>2 DEF WireOK
  <2>2. 0 \in 0..(Len(wire') - 1)
    BY DEF Spread
  <2>3. After(wire, 0) \subseteq After(wire', 0) /\ f \in After(wire', 0)
    BY <2>1, <2>2, SpreadsAfter
  <2>4. MoreFrames(Coming, G) /\ f \in G
    BY <2>3 DEF MoreFrames, Coming, Behind
  <2>5. Tidings(log, log', G)
    BY <2>4, TidingsMore
  <2> QED
    BY <2>4, <2>5 DEF Coming
<1> HIDE DEF G
<1>8. (Live' <=> Live) /\ (Answered' <=> Answered)
  BY DEF Live, Answered, history
<1>9. (Answered => PageTold(refresh.page, Coming, log))'
  <2>1. PageOK(refresh.page, log, {})
    BY DEF TInv, PartsOK, RefreshOK
  <2>2. Answered => PageTold(refresh.page, G, log')
    BY <1>7, <2>1, PageTidings DEF SInv
  <2> QED
    BY <1>7, <1>8, <2>2
<1>10. (Live => Settled(Client, Coming, log))'
  <2>1. ASSUME Live
        PROVE  Settled(Client, G, log')
    BY <1>7, <2>1, ServerIs, SettledTidings DEF SInv
  <2> QED
    BY <1>1, <1>7, <1>8, <2>1, NextSettled
<1> QED
  BY <1>3, <1>4, <1>5, <1>6, <1>9, <1>10 DEF SInv
LEMMA GrowthUnseen ==
    ASSUME TInv, SInv, link = "down",
           UNCHANGED <<kind, link, sessions, timeline, known, hydration, history, refresh, queue, wire>>,
           thread' \in Nat, thread <= thread', \A s \in sends' : ~s.online
    PROVE  SInv'
<1>1. Becomes(Client) /\ wire = <<>> /\ ~synced
  BY ClientFields DEF Becomes, history, SInv, SessionsOK
<1>2. Basics(Client)'
  BY <1>1, ServerIs, NextBasics, ClientFields DEF SInv
<1>3. RevisionsOK'
  <2>1. thread \in Nat /\ refresh.rev \in Nat
    BY ServerIs DEF TInv, PartsOK, RefreshOK
  <2>2. \A i \in DOMAIN queue : queue[i].frame \in Frame
    BY ServerIs DEF QueueOK, FrameOK
  <2>3. \A g \in Frame : g.type = "thread" => g.rev \in Nat
    BY DEF Frame
  <2>4. DOMAIN wire' = {}
    BY <1>1
  <2> QED
    BY <2>1, <2>2, <2>3, <2>4 DEF SInv, RevisionsOK, FrameFits
<1>4. SessionsOK'
  BY <1>1 DEF SInv, SessionsOK, history
<1>5. ~Live' /\ ~Answered' /\ link' = "down"
  BY DEF Live, Answered
<1> QED
  BY <1>2, <1>3, <1>4, <1>5 DEF SInv

LEMMA GrowthAppends ==
    ASSUME TInv, SInv, UNCHANGED <<kind, link, sessions, timeline, known, hydration, history, refresh, queue, sends>>,
           thread' \in Nat, thread <= thread',
           NEW f, wire' = wire \o Frames(f), f \in Frame, Tidings(log, log', {f}),
           f.type = "message" => ~Late(f, log'), f.type # "reply",
           f.type = "thread" => kind = "direct" /\ f.rev <= thread'
    PROVE  SInv'
<1>1. link \in {"joined", "down"} /\ wire \in Seq(Frame) /\ Len(wire) \in Nat /\ DOMAIN wire = 1..Len(wire)
  BY ServerIs DEF ServerOK, WireOK
<1>2. CASE link = "down"
  <2>1. wire' = wire
    BY <1>1, <1>2 DEF Frames
  <2>2. \A s \in sends' : ~s.online
    BY <1>2 DEF SInv, SessionsOK
  <2> QED
    BY <1>2, <2>1, <2>2, GrowthUnseen
<1>3. CASE link = "joined"
  <2> DEFINE p == [i \in DOMAIN wire |-> i]
             v == wire'
  <2>1. Len(v) = Len(wire) + 1 /\ DOMAIN v = 1..Len(v) /\ v[Len(v)] = f /\ \A i \in DOMAIN wire : v[i] = wire[i]
    <3>1. v = wire \o <<f>>
      BY <1>3 DEF Frames
    <3>2. <<f>> \in Seq(Frame) /\ Len(<<f>>) = 1 /\ <<f>>[1] = f
      OBVIOUS
    <3>3. /\ v \in Seq(Frame) /\ Len(v) = Len(wire) + Len(<<f>>)
          /\ \A k \in 1..(Len(wire) + Len(<<f>>)) : v[k] = IF k <= Len(wire) THEN wire[k] ELSE <<f>>[k - Len(wire)]
      BY <1>1, <3>1, <3>2, ConcatProperties
    <3> HIDE DEF v
    <3> QED
      BY <1>1, <3>2, <3>3
  <2> HIDE DEF v
  <2>2. Spread(wire, v, p, f)
    BY <1>1, <2>1 DEF Spread
  <2>3. Answers(wire, v, p, f, log')
    BY <1>1, <2>1 DEF Answers
  <2>4. f.type = "thread" => f.rev \in Nat
    BY DEF Frame
  <2> HIDE DEF p
  <2>5. Spread(wire, wire', p, f) /\ Answers(wire, wire', p, f, log')
    BY <2>2, <2>3 DEF v
  <2> QED
    BY <1>3, <2>4, <2>5, GrowthSteps
<1> QED
  BY <1>1, <1>2, <1>3

LEMMA AppendedTidings ==
    ASSUME LogOK(log), Len(log) < MaxLog, NEW x \in Message, NEW m, m = Append(log, x), NEW f,
           f = MessageFrame(Len(log) + 1, x.rank)
    PROVE  /\ f \in Frame /\ f.type = "message" /\ f.id = Len(log) + 1
           /\ Tidings(log, m, {f}) /\ ~Late(f, m) /\ \A n \in DOMAIN m : n >= Len(log) + 1 => n = Len(log) + 1
<1>1. log \in Seq(Message) /\ Len(log) \in Nat /\ DOMAIN log = 1..Len(log) /\ x.rank \in Ranks
  BY DEF LogOK, Message
<1>2. /\ m \in Seq(Message) /\ Len(m) = Len(log) + 1 /\ m[Len(log) + 1] = x
      /\ \A i \in 1..Len(log) : m[i] = log[i]
  BY <1>1, AppendProperties
<1>3. DOMAIN m = 1..(Len(log) + 1)
  BY <1>2
<1>4. f \in Frame /\ f.type = "message" /\ f.id = Len(log) + 1 /\ f.rank = x.rank
  BY <1>1 DEF MessageFrame, Frame
<1>5. ~Late(f, m)
  BY <1>1, <1>2, <1>4 DEF Late, Ranks
<1>6. Tidings(log, m, {f})
  <2>1. DOMAIN log \subseteq DOMAIN m
    BY <1>1, <1>3
  <2>2. ASSUME NEW n \in DOMAIN m
        PROVE  (n \in DOMAIN log /\ m[n].rank = log[n].rank) \/ MessageFrame(n, m[n].rank) \in {f}
    <3>1. n \in DOMAIN log \/ n = Len(log) + 1
      BY <1>1, <1>3
    <3>2. n \in DOMAIN log => m[n] = log[n]
      BY <1>1, <1>2
    <3>3. n = Len(log) + 1 => MessageFrame(n, m[n].rank) = f
      BY <1>2
    <3> QED
      BY <3>1, <3>2, <3>3
  <2> QED
    BY <2>1, <2>2 DEF Tidings
<1> QED
  BY <1>1, <1>3, <1>4, <1>5, <1>6

LEMMA PostSettled ==
    ASSUME TInv, SInv, NEW rank \in {0, 1}, Post(rank)
    PROVE  SInv'
<1> DEFINE x == [rank |-> rank, own |-> FALSE]
           f == MessageFrame(Len(log) + 1, rank)
<1>1. x \in Message /\ x.rank = rank /\ Len(log) < MaxLog /\ log' = Append(log, x) /\ wire' = wire \o Frames(f)
  BY DEF Post, Message, Ranks
<1> HIDE DEF x, f
<1>2. f = MessageFrame(Len(log) + 1, x.rank)
  BY <1>1 DEF f
<1>3. f \in Frame /\ f.type = "message" /\ Tidings(log, log', {f}) /\ ~Late(f, log')
  BY <1>1, <1>2, ServerIs, AppendedTidings
<1>4. /\ UNCHANGED <<kind, link, sessions, timeline, known, hydration, history, refresh, queue, sends>>
      /\ thread' = thread
  BY DEF Post, requests
<1>5. thread' \in Nat /\ thread <= thread'
  BY <1>4, ServerIs
<1> QED
  BY <1>1, <1>3, <1>4, <1>5, GrowthAppends

LEMMA CommandProgressesSettled ==
    ASSUME TInv, SInv, NEW n \in DOMAIN log, CommandProgresses(n)
    PROVE  SInv'
<1> DEFINE f == MessageFrame(n, log[n].rank + 1)
<1>1. log' = [log EXCEPT ![n].rank = @ + 1] /\ log[n].rank \in 1..2 /\ wire' = wire \o Frames(f)
  BY DEF CommandProgresses
<1>2. n \in Nat /\ \A k \in DOMAIN log : log[k] \in Message
  BY ServerIs, MessageFields
<1>3. /\ DOMAIN log' = DOMAIN log /\ log'[n].rank = log[n].rank + 1
      /\ \A k \in DOMAIN log : k # n => log'[k] = log[k]
  <2>1. log[n] \in Message /\ DOMAIN [log[n] EXCEPT !.rank = log[n].rank + 1] = {"rank", "own"}
    BY <1>2 DEF Message
  <2>2. [log[n] EXCEPT !.rank = log[n].rank + 1].rank = log[n].rank + 1
    BY <2>1 DEF Message
  <2> QED
    BY <1>1, <2>2
<1>4. f \in Frame /\ f.type = "message" /\ f.id = n /\ f.rank = log[n].rank + 1
  BY <1>1, <1>2 DEF MessageFrame, Frame, Ranks
<1>5. MessageFrame(n, log'[n].rank) = f
  BY <1>3
<1> HIDE DEF f
<1>6. Tidings(log, log', {f}) /\ ~Late(f, log')
  <2>1. ~Late(f, log')
    BY <1>1, <1>3, <1>4 DEF Late
  <2>2. \A k \in DOMAIN log' : (k \in DOMAIN log /\ log'[k].rank = log[k].rank) \/ MessageFrame(k, log'[k].rank) \in {f}
    BY <1>3, <1>5
  <2> QED
    BY <1>3, <2>1, <2>2 DEF Tidings
<1>7. /\ UNCHANGED <<kind, link, sessions, timeline, known, hydration, history, refresh, queue, sends>>
      /\ thread' = thread
  BY DEF CommandProgresses, requests
<1>8. thread' \in Nat /\ thread <= thread'
  BY <1>7, ServerIs
<1> QED
  BY <1>1, <1>4, <1>6, <1>7, <1>8, GrowthAppends

LEMMA ThreadChangesSettled ==
    ASSUME TInv, SInv, ThreadChanges
    PROVE  SInv'
<1> DEFINE f == [type |-> "thread", rev |-> thread + 1]
<1>1. kind = "direct" /\ thread' = thread + 1 /\ wire' = wire \o Frames(f) /\ log' = log
  BY DEF ThreadChanges, server
<1>2. thread \in Nat /\ thread' \in Nat /\ thread <= thread'
  BY <1>1, ServerIs
<1>3. f \in Frame /\ f.type = "thread" /\ f.rev <= thread'
  BY <1>1, <1>2 DEF Frame
<1>4. Tidings(log, log', {f})
  BY <1>1 DEF Tidings
<1>5. UNCHANGED <<kind, link, sessions, timeline, known, hydration, history, refresh, queue, sends>>
  BY DEF ThreadChanges, requests
<1> HIDE DEF f
<1> QED
  BY <1>1, <1>2, <1>3, <1>4, <1>5, GrowthAppends
\* Sequences put together, place by place.
Joined(a, b, c) ==
    /\ DOMAIN c = 1..Len(c) /\ Len(c) = Len(a) + Len(b)
    /\ \A i \in 1..Len(c) : c[i] = IF i <= Len(a) THEN a[i] ELSE b[i - Len(a)]
Piece(a, w, lo, hi) == Len(a) = hi - lo + 1 /\ \A i \in 1..(hi - lo + 1) : a[i] = w[lo + i - 1]

LEMMA JoinedIs ==
    ASSUME NEW a, NEW b, NEW c, Joined(a, b, c), Len(a) \in Nat, Len(b) \in Nat
    PROVE  /\ \A i \in 1..Len(a) : c[i] = a[i]
           /\ \A i \in 1..Len(b) : c[Len(a) + i] = b[i]
<1>1. ASSUME NEW i \in 1..Len(a)
      PROVE  c[i] = a[i]
  <2>1. i \in 1..Len(c) /\ i <= Len(a)
    BY DEF Joined
  <2> QED
    BY <2>1 DEF Joined
<1>2. ASSUME NEW i \in 1..Len(b)
      PROVE  c[Len(a) + i] = b[i]
  <2>1. Len(a) + i \in 1..Len(c) /\ ~(Len(a) + i <= Len(a)) /\ Len(a) + i - Len(a) = i
    BY DEF Joined
  <2> QED
    BY <2>1 DEF Joined
<1> QED
  BY <1>1, <1>2

LEMMA ConcatJoins ==
    ASSUME NEW T, NEW a, NEW b, a \in Seq(T), b \in Seq(T)
    PROVE  a \o b \in Seq(T) /\ Joined(a, b, a \o b)
<1> DEFINE c == a \o b
<1>1. /\ c \in Seq(T) /\ Len(c) = Len(a) + Len(b) /\ DOMAIN c = 1..Len(c)
      /\ \A k \in 1..Len(c) : c[k] = IF k <= Len(a) THEN a[k] ELSE b[k - Len(a)]
  <2>1. c = a \o b
    OBVIOUS
  <2> HIDE DEF c
  <2> QED
    BY <2>1, ConcatIs
<1> HIDE DEF c
<1>2. c \in Seq(T) /\ Joined(a, b, c)
  BY <1>1 DEF Joined
<1> QED
  BY <1>2 DEF c

LEMMA SubSeqPiece ==
    ASSUME NEW T, NEW w, w \in Seq(T), NEW lo \in Nat, NEW hi \in Nat, 1 <= lo, lo <= hi + 1, hi <= Len(w)
    PROVE  SubSeq(w, lo, hi) \in Seq(T) /\ Piece(SubSeq(w, lo, hi), w, lo, hi)
<1>1. lo \in Int /\ hi \in Int /\ \A i \in lo..hi : w[i] \in T
  OBVIOUS
<1>2. /\ SubSeq(w, lo, hi) \in Seq(T) /\ Len(SubSeq(w, lo, hi)) = IF lo <= hi THEN hi - lo + 1 ELSE 0
      /\ \A i \in 1..(hi - lo + 1) : SubSeq(w, lo, hi)[i] = w[lo + i - 1]
  BY <1>1, SubSeqProperties
<1>3. ~(lo <= hi) => hi - lo + 1 = 0
  OBVIOUS
<1> QED
  BY <1>2, <1>3 DEF Piece

\* The places of w in v: m others stand before the k-th, and one at the end.
Inserted(w, v, n, k, m) ==
    /\ DOMAIN v = 1..Len(v) /\ Len(v) = n + m + 1
    /\ \A i \in 1..(k - 1) : v[i] = w[i]
    /\ \A i \in k..n : v[i + m] = w[i]
Moved(w, k, m) == [i \in DOMAIN w |-> IF i < k THEN i ELSE i + m]

\* What v is built from, step by step.
Built(w, n, k, first, m, a, b, c, d, one, v) ==
    /\ n \in Nat /\ n = Len(w) /\ m \in Nat /\ m = Len(first) /\ Len(one) = 1 /\ k \in 1..(n + 1)
    /\ Piece(a, w, 1, k - 1) /\ Piece(b, w, k, n)
    /\ Joined(a, first, c) /\ Joined(c, b, d) /\ Joined(d, one, v)

LEMMA InsertPlaces ==
    ASSUME NEW w, NEW n, NEW k, NEW first, NEW m, NEW a, NEW b, NEW c, NEW d, NEW one, NEW v,
           Built(w, n, k, first, m, a, b, c, d, one, v)
    PROVE  /\ Inserted(w, v, n, k, m) /\ v[n + m + 1] = one[1]
           /\ \A i \in 1..m : v[k - 1 + i] = first[i]
<1>0. /\ n \in Nat /\ n = Len(w) /\ m \in Nat /\ m = Len(first) /\ Len(one) = 1 /\ k \in 1..(n + 1)
      /\ Piece(a, w, 1, k - 1) /\ Piece(b, w, k, n)
      /\ Joined(a, first, c) /\ Joined(c, b, d) /\ Joined(d, one, v)
  BY DEF Built
<1>1. Len(a) = k - 1 /\ Len(b) = n - k + 1 /\ k - 1 \in Nat /\ n - k + 1 \in Nat
  BY <1>0 DEF Piece
<1>2. Len(c) = k - 1 + m
  BY <1>0, <1>1 DEF Joined
<1>3. Len(d) = n + m
  BY <1>0, <1>1, <1>2 DEF Joined
<1>4. Len(v) = n + m + 1 /\ DOMAIN v = 1..Len(v)
  BY <1>0, <1>3 DEF Joined
<1>5. v[n + m + 1] = one[1]
  <2>1. n + m + 1 \in 1..Len(v) /\ ~(n + m + 1 <= Len(d)) /\ n + m + 1 - Len(d) = 1
    BY <1>0, <1>3, <1>4
  <2> QED
    BY <1>0, <2>1 DEF Joined
<1>6. \A i \in 1..(n + m) : v[i] = d[i]
  <2>0. Len(one) \in Nat /\ Len(d) \in Nat
    BY <1>0, <1>3
  <2>1. \A i \in 1..Len(d) : v[i] = d[i]
    BY <1>0, <2>0, JoinedIs
  <2> QED
    BY <1>0, <1>3, <2>1
<1>7. (\A i \in 1..(k - 1 + m) : d[i] = c[i]) /\ \A i \in 1..(n - k + 1) : d[k - 1 + m + i] = b[i]
  <2>0. Len(c) \in Nat /\ Len(b) \in Nat
    BY <1>0, <1>1, <1>2
  <2>1. (\A i \in 1..Len(c) : d[i] = c[i]) /\ \A i \in 1..Len(b) : d[Len(c) + i] = b[i]
    BY <1>0, <2>0, JoinedIs
  <2> QED
    BY <1>0, <1>1, <1>2, <2>1
<1>8. (\A i \in 1..(k - 1) : c[i] = a[i]) /\ \A i \in 1..m : c[k - 1 + i] = first[i]
  <2>0. Len(a) \in Nat /\ Len(first) \in Nat
    BY <1>0, <1>1
  <2>1. (\A i \in 1..Len(a) : c[i] = a[i]) /\ \A i \in 1..Len(first) : c[Len(a) + i] = first[i]
    BY <1>0, <2>0, JoinedIs
  <2> QED
    BY <1>0, <1>1, <2>1
<1>9. ASSUME NEW i \in 1..(k - 1)
      PROVE  v[i] = w[i]
  <2>1. i \in 1..(n + m) /\ i \in 1..(k - 1 + m) /\ i \in 1..(k - 1 - 1 + 1) /\ 1 + i - 1 = i
    BY <1>0
  <2>2. a[i] = w[i]
    BY <1>0, <2>1 DEF Piece
  <2> QED
    BY <1>0, <1>6, <1>7, <1>8, <2>1, <2>2
<1>10. ASSUME NEW i \in k..n
       PROVE  v[i + m] = w[i]
  <2>1. /\ i + m \in 1..(n + m) /\ i - k + 1 \in 1..(n - k + 1) /\ k - 1 + m + (i - k + 1) = i + m
        /\ k + (i - k + 1) - 1 = i
    BY <1>0
  <2>2. b[i - k + 1] = w[i]
    BY <1>0, <2>1 DEF Piece
  <2>3. d[i + m] = b[i - k + 1]
    BY <1>0, <1>7, <2>1
  <2> QED
    BY <1>0, <1>6, <2>1, <2>2, <2>3
<1>11. ASSUME NEW i \in 1..m
       PROVE  v[k - 1 + i] = first[i]
  <2>1. k - 1 + i \in 1..(n + m) /\ k - 1 + i \in 1..(k - 1 + m)
    BY <1>0
  <2> QED
    BY <1>0, <1>6, <1>7, <1>8, <2>1
<1> QED
  BY <1>4, <1>5, <1>9, <1>10, <1>11 DEF Inserted

LEMMA PlacesSpread ==
    ASSUME NEW n \in Nat, NEW a \in {0, 1}, NEW k \in 1..(n + 1), NEW w, NEW v, NEW f, NEW x,
           DOMAIN w = 1..n, Inserted(w, v, n, k, a), v[n + a + 1] = f,
           a = 1 => v[k] = x /\ x.type = "reply", NEW p, p = Moved(w, k, a),
           NEW l, f.type = "message", \A y \in DOMAIN l : y >= x.id => y = f.id
    PROVE  Spread(w, v, p, f) /\ Answers(w, v, p, f, l)
<1> DEFINE m == n + a
<1>0. /\ DOMAIN v = 1..Len(v) /\ Len(v) = n + a + 1 /\ v[Len(v)] = f
      /\ \A i \in 1..(k - 1) : v[i] = w[i]
      /\ \A i \in k..n : v[i + a] = w[i]
      /\ \A i \in DOMAIN w : p[i] = IF i < k THEN i ELSE i + a
      /\ m \in Nat /\ Len(v) - 1 = m /\ Len(v) \in Nat \ {0}
  BY DEF Inserted, Moved
<1>1. ASSUME NEW i \in DOMAIN w
      PROVE  p[i] \in 1..(Len(v) - 1) /\ v[p[i]] = w[i]
  <2>1. CASE i < k
    <3>1. i \in 1..(k - 1) /\ i \in 1..m /\ p[i] = i
      BY <1>0, <2>1
    <3> QED
      BY <1>0, <3>1
  <2>2. CASE ~(i < k)
    <3>1. p[i] = i + a /\ i \in k..n /\ i + a \in 1..m
      BY <1>0, <2>2
    <3> QED
      BY <1>0, <3>1
  <2> QED
    BY <2>1, <2>2
<1>2. \A i, j \in DOMAIN w : i < j => p[i] < p[j]
  BY <1>0
<1>3. ASSUME NEW j \in 1..m
      PROVE  (\E i \in DOMAIN w : j = p[i]) \/ (a = 1 /\ v[j] = x)
  <2>1. CASE j < k
    <3>1. j \in 1..n /\ j \in DOMAIN w
      BY <1>0, <2>1
    <3>2. p[j] = j
      BY <1>0, <2>1, <3>1
    <3> QED
      BY <3>1, <3>2
  <2>2. CASE j >= k + a
    <3>1. j - a \in DOMAIN w /\ ~(j - a < k) /\ j - a + a = j
      BY <2>2
    <3>2. p[j - a] = j
      BY <1>0, <3>1
    <3> QED
      BY <3>1, <3>2
  <2>3. CASE j = k /\ a = 1
    BY <2>3
  <2>4. j < k \/ j >= k + a \/ (j = k /\ a = 1)
    OBVIOUS
  <2> QED
    BY <2>1, <2>2, <2>3, <2>4
<1>4. Spread(w, v, p, f)
  <2>1. \A j \in 1..(Len(v) - 1) : (\E i \in DOMAIN w : j = p[i]) \/ v[j].type = "reply"
    BY <1>0, <1>3
  <2> QED
    BY <1>0, <1>1, <1>2, <2>1 DEF Spread
<1>5. ASSUME NEW j \in DOMAIN v, \A i \in DOMAIN w : j # p[i]
      PROVE  v[j] = f \/ (a = 1 /\ v[j] = x)
  <2>1. j = Len(v) \/ j \in 1..m
    BY <1>0
  <2> QED
    BY <1>0, <1>3, <1>5, <2>1
<1> QED
  BY <1>4, <1>5 DEF Answers
LEMMA WithOffline ==
    ASSUME NEW s \in sends, \A r \in sends : ~r.online, NEW t, ~t.online
    PROVE  \A r \in With(s, t) : ~r.online
BY DEF With

LEMMA SendServedSettled ==
    ASSUME TInv, SInv, NEW s \in sends, SendServed(s)
    PROVE  SInv'
<1> DEFINE x == [rank |-> 0, own |-> TRUE]
           n == Len(log) + 1
           f == MessageFrame(n, 0)
           t == [s EXCEPT !.served = TRUE]
           answer == [type |-> "reply", cid |-> s.cid, id |-> n]
           first == IF s.online THEN <<answer>> ELSE <<>>
<1>1. log' = Append(log, x) /\ Len(log) < MaxLog /\ x \in Message /\ x.rank = 0
  BY DEF SendServed, Message, Ranks
<1>2. f = MessageFrame(Len(log) + 1, x.rank)
  BY <1>1
<1>3. /\ UNCHANGED <<kind, link, sessions, timeline, known, hydration, history, refresh, queue>>
      /\ thread' = thread
  BY DEF SendServed, requests
<1>4. thread' \in Nat /\ thread <= thread'
  BY <1>3, ServerIs
<1>5. SendsOK(sends, spent.steps)
  BY DEF TInv, PartsOK
<1>6. s \in Push /\ sends' = With(s, t)
  BY <1>5 DEF SendServed, SendsOK
<1>7. t.online = s.online /\ s.online \in BOOLEAN
  BY <1>6 DEF Push
<1>8. wire \in Seq(Frame) /\ Len(wire) \in Nat /\ DOMAIN wire = 1..Len(wire) /\ link \in {"joined", "down"}
  BY ServerIs DEF ServerOK, WireOK
<1>9. PICK k \in 1..(Len(wire) + 1) :
          /\ s.online \/ k = 1 + Len(wire)
          /\ wire' = SubSeq(wire, 1, k - 1) \o first \o SubSeq(wire, k, Len(wire)) \o Frames(f)
  BY DEF SendServed
<1> HIDE DEF x, t
<1>10. answer \in [type : {"reply"}, cid : {s.cid}, id : {n}] /\ answer.type = "reply" /\ answer.id = n
  OBVIOUS
<1> HIDE DEF answer
<1>11. CASE link = "down"
  <2>1. wire = <<>> /\ \A r \in sends : ~r.online
    BY <1>11 DEF SInv, SessionsOK
  <2>2. ~s.online /\ k = 1
    BY <1>9, <2>1
  <2>3. \A r \in sends' : ~r.online
    BY <1>6, <1>7, <2>1, <2>2, WithOffline
  <2>4. wire' = wire
    <3>1. SubSeq(wire, 1, 0) = <<>> /\ SubSeq(wire, 1, Len(wire)) = <<>>
      BY <2>1
    <3>2. Frames(f) = <<>> /\ first = <<>>
      BY <1>11, <2>2 DEF Frames
    <3>3. wire' = SubSeq(wire, 1, 0) \o first \o SubSeq(wire, 1, Len(wire)) \o Frames(f)
      BY <1>9, <2>2
    <3>4. <<>> \o <<>> \o <<>> \o <<>> = <<>>
      OBVIOUS
    <3> QED
      BY <2>1, <3>1, <3>2, <3>3, <3>4
  <2> QED
    BY <1>3, <1>4, <1>11, <2>3, <2>4, GrowthUnseen
<1>12. CASE link = "joined"
  <2>1. /\ f \in Frame /\ f.type = "message" /\ f.id = n /\ Tidings(log, log', {f}) /\ ~Late(f, log')
        /\ \A y \in DOMAIN log' : y >= n => y = n
    BY <1>1, <1>2, ServerIs, AppendedTidings
  <2> HIDE DEF f
  <2> DEFINE w == wire
             N == Len(wire)
             one == <<f>>
             T == Frame \cup {answer}
             a == SubSeq(w, 1, k - 1)
             b == SubSeq(w, k, N)
             c == a \o first
             d == c \o b
             v == d \o one
             m == IF s.online THEN 1 ELSE 0
             p == Moved(w, k, m)
  <2>2. wire' = v
    BY <1>9, <1>12 DEF Frames
  <2>3. w \in Seq(T) /\ one \in Seq(T) /\ Len(one) = 1 /\ one[1] = f
    BY <1>8, <2>1
  <2>4. first \in Seq(T) /\ Len(first) = m /\ (m = 1 => first[1] = answer)
    <3>1. CASE s.online
      BY <3>1
    <3>2. CASE ~s.online
      BY <3>2
    <3> QED
      BY <3>1, <3>2
  <2>5. N \in Nat /\ k \in 1..(N + 1) /\ k \in Nat /\ k - 1 \in Nat /\ m \in {0, 1} /\ m \in Nat /\ DOMAIN w = 1..N
    BY <1>7, <1>8
  <2> HIDE DEF first, one, m, T
  <2>6. /\ a \in Seq(T) /\ Piece(a, w, 1, k - 1)
        /\ b \in Seq(T) /\ Piece(b, w, k, N)
    <3>1. 1 <= k /\ 1 <= (k - 1) + 1 /\ k - 1 <= N /\ k <= N + 1 /\ 1 \in Nat
      BY <2>5
    <3> HIDE DEF N
    <3>2. N = Len(w)
      BY DEF N
    <3> HIDE DEF w
    <3>3. a \in Seq(T) /\ Piece(a, w, 1, k - 1)
      BY <2>3, <2>5, <3>1, <3>2, SubSeqPiece
    <3>4. b \in Seq(T) /\ Piece(b, w, k, N)
      BY <2>3, <2>5, <3>1, <3>2, SubSeqPiece
    <3> QED
      BY <3>3, <3>4
  <2> HIDE DEF a, b
  <2>7. c \in Seq(T) /\ Joined(a, first, c)
    BY <2>4, <2>6, ConcatJoins
  <2> HIDE DEF c
  <2>8. d \in Seq(T) /\ Joined(c, b, d)
    BY <2>6, <2>7, ConcatJoins
  <2> HIDE DEF d
  <2>9. v \in Seq(T) /\ Joined(d, one, v)
    BY <2>3, <2>8, ConcatJoins
  <2> HIDE DEF v
  <2>10. N = Len(w)
    OBVIOUS
  <2> HIDE DEF w, N
  <2>11. /\ Inserted(w, v, N, k, m) /\ v[N + m + 1] = one[1]
         /\ \A i \in 1..m : v[k - 1 + i] = first[i]
    <3>1. Built(w, N, k, first, m, a, b, c, d, one, v)
      BY <2>3, <2>4, <2>5, <2>6, <2>7, <2>8, <2>9, <2>10 DEF Built
    <3> QED
      BY <3>1, InsertPlaces
  <2>12. m = 1 => v[k] = answer /\ answer.type = "reply"
    BY <1>10, <2>4, <2>5, <2>11
  <2>13. v[N + m + 1] = f
    BY <2>3, <2>11
  <2> HIDE DEF p
  <2>14. p = Moved(w, k, m)
    BY DEF p
  <2>15. \A y \in DOMAIN log' : y >= answer.id => y = f.id
    BY <1>10, <2>1
  <2>16. Spread(w, v, p, f) /\ Answers(w, v, p, f, log')
    BY <2>1, <2>5, <2>11, <2>12, <2>13, <2>14, <2>15, PlacesSpread
  <2>17. w = wire
    BY DEF w
  <2> QED
    BY <1>3, <1>4, <1>12, <2>1, <2>2, <2>16, <2>17, GrowthSteps
<1> QED
  BY <1>8, <1>11, <1>12

\* The first frame of the socket is taken.
LEMMA TailAfter ==
    ASSUME NEW q \in Seq(Frame), q # <<>>
    PROVE  /\ Head(q) = q[1] /\ 1 \in DOMAIN q
           /\ \A i \in DOMAIN Tail(q) : Tail(q)[i] = q[i + 1] /\ i + 1 \in DOMAIN q /\ After(Tail(q), i) = After(q, i + 1)
           /\ After(Tail(q), 0) = After(q, 1)
           /\ \A g : g \in After(q, 0) <=> g = q[1] \/ g \in After(q, 1)
<1> DEFINE t == Tail(q)
<1>1. Len(q) \in Nat /\ DOMAIN q = 1..Len(q) /\ Len(q) > 0 /\ Head(q) = q[1]
  OBVIOUS
<1>2. DOMAIN t = 1..(Len(q) - 1) /\ \A i \in 1..(Len(q) - 1) : t[i] = q[i + 1]
  BY <1>1
<1> HIDE DEF t
<1>3. ASSUME NEW i \in Nat
      PROVE  After(t, i) = After(q, i + 1)
  <2>1. ASSUME NEW g \in After(t, i)
        PROVE  g \in After(q, i + 1)
    <3>1. PICK j \in DOMAIN t : j > i /\ g = t[j]
      BY <2>1 DEF After
    <3>2. j + 1 \in DOMAIN q /\ j + 1 > i + 1 /\ g = q[j + 1]
      BY <1>1, <1>2, <3>1
    <3> QED
      BY <3>2 DEF After
  <2>2. ASSUME NEW g \in After(q, i + 1)
        PROVE  g \in After(t, i)
    <3>1. PICK j \in DOMAIN q : j > i + 1 /\ g = q[j]
      BY <2>2 DEF After
    <3>2. j - 1 \in DOMAIN t /\ j - 1 > i /\ g = t[j - 1]
      BY <1>1, <1>2, <3>1
    <3> QED
      BY <3>2 DEF After
  <2> QED
    BY <2>1, <2>2
<1>4. After(t, 0) = After(q, 1)
  BY <1>3
<1>5. \A g : g \in After(q, 0) <=> g = q[1] \/ g \in After(q, 1)
  <2>1. ASSUME NEW g \in After(q, 0)
        PROVE  g = q[1] \/ g \in After(q, 1)
    <3>1. PICK j \in DOMAIN q : j > 0 /\ g = q[j]
      BY <2>1 DEF After
    <3>2. j = 1 \/ j > 1
      BY <1>1
    <3> QED
      BY <3>1, <3>2 DEF After
  <2>2. ASSUME NEW g, g = q[1] \/ g \in After(q, 1)
        PROVE  g \in After(q, 0)
    <3>1. PICK j \in DOMAIN q : j > 0 /\ g = q[j]
      <4>1. CASE g = q[1]
        BY <1>1, <4>1
      <4>2. CASE g \in After(q, 1)
        <5>1. PICK j \in DOMAIN q : j > 1 /\ g = q[j]
          BY <4>2 DEF After
        <5> QED
          BY <1>1, <5>1
      <4> QED
        BY <2>2, <4>1, <4>2
    <3> QED
      BY <3>1 DEF After
  <2> QED
    BY <2>1, <2>2
<1>6. \A i \in DOMAIN t : i \in Nat /\ t[i] = q[i + 1] /\ i + 1 \in DOMAIN q
  BY <1>1, <1>2
<1> QED
  BY <1>1, <1>3, <1>4, <1>5, <1>6 DEF t

LEMMA HeadTaken ==
    ASSUME TInv, SInv, wire # <<>>, wire' = Tail(wire)
    PROVE  /\ link = "joined" /\ FrameOK(Head(wire), log, spent.steps) /\ FrameFits(Head(wire))
           /\ FrameTold(Head(wire), After(wire', 0), log)
           /\ Head(wire).type = "reply" => \A m \in DOMAIN log : m >= Head(wire).id => m \in Brought(After(wire', 0))
           /\ \A i \in DOMAIN wire' : FrameFits(wire'[i]) /\ FrameTold(wire'[i], After(wire', i), log)
           /\ \A i \in DOMAIN wire' : wire'[i].type = "reply" =>
                  \A m \in DOMAIN log : m >= wire'[i].id => m \in Brought(After(wire', i))
           /\ \A g : g \in After(wire, 0) <=> g = Head(wire) \/ g \in After(wire', 0)
<1>1. WireOK(wire, log, spent.steps) /\ wire \in Seq(Frame) /\ link \in {"joined", "down"}
  BY ServerIs DEF WireOK, ServerOK
<1>2. link = "joined"
  BY <1>1 DEF SInv, SessionsOK
<1>3. FramesTold(queue, wire, log, sessions) /\ \A i \in DOMAIN wire : FrameFits(wire[i])
  BY <1>2 DEF SInv, RevisionsOK
<1>4. FrameOK(Head(wire), log, spent.steps)
  BY <1>1, HeadOK
<1>5. /\ Head(wire) = wire[1] /\ 1 \in DOMAIN wire
      /\ \A i \in DOMAIN wire' : wire'[i] = wire[i + 1] /\ i + 1 \in DOMAIN wire /\ After(wire', i) = After(wire, i + 1)
      /\ After(wire', 0) = After(wire, 1)
      /\ \A g : g \in After(wire, 0) <=> g = wire[1] \/ g \in After(wire, 1)
  BY <1>1, TailAfter
<1>6. /\ FrameTold(Head(wire), After(wire', 0), log) /\ FrameFits(Head(wire))
      /\ Head(wire).type = "reply" => \A m \in DOMAIN log : m >= Head(wire).id => m \in Brought(After(wire', 0))
  BY <1>3, <1>5 DEF FramesTold
<1>7. ASSUME NEW i \in DOMAIN wire'
      PROVE  /\ FrameFits(wire'[i]) /\ FrameTold(wire'[i], After(wire', i), log)
             /\ wire'[i].type = "reply" => \A m \in DOMAIN log : m >= wire'[i].id => m \in Brought(After(wire', i))
  BY <1>3, <1>5 DEF FramesTold
<1> QED
  BY <1>2, <1>4, <1>5, <1>6, <1>7

\* What waits, with one more.
LEMMA QueueAppended ==
    ASSUME NEW held \in Seq(Held), NEW x \in Held, NEW w, NEW v, \A g : g \in After(w, 0) <=> g = x.frame \/ g \in After(v, 0)
    PROVE  /\ \A i \in 0..Len(held) : Behind(Append(held, x), v, i) = Behind(held, w, i)
           /\ Behind(Append(held, x), v, Len(held) + 1) = After(v, 0)
<1> DEFINE q == Append(held, x)
           n == Len(held)
<1>1. /\ n \in Nat /\ DOMAIN held = 1..n /\ DOMAIN q = 1..(n + 1) /\ q[n + 1] = x
      /\ \A i \in 1..n : q[i] = held[i]
  <2>1. q \in Seq(Held) /\ Len(q) = n + 1 /\ n \in Nat
    BY AppendProperties
  <2> QED
    BY <2>1, AppendProperties
<1> HIDE DEF q, n
<1>2. ASSUME NEW i \in 0..n, NEW g \in Behind(q, v, i)
      PROVE  g \in Behind(held, w, i)
  <2>1. CASE g \in After(v, 0)
    BY <2>1 DEF Behind
  <2>2. CASE g \notin After(v, 0)
    <3>1. PICK j \in DOMAIN q : j > i /\ g = q[j].frame
      BY <1>2, <2>2 DEF Behind
    <3>2. CASE j = n + 1
      BY <1>1, <3>1, <3>2 DEF Behind
    <3>3. CASE j # n + 1
      <4>1. j \in DOMAIN held /\ g = held[j].frame
        BY <1>1, <3>1, <3>3
      <4> QED
        BY <3>1, <4>1 DEF Behind
    <3> QED
      BY <3>2, <3>3
  <2> QED
    BY <2>1, <2>2
<1>3. ASSUME NEW i \in 0..n, NEW g \in Behind(held, w, i)
      PROVE  g \in Behind(q, v, i)
  <2>1. CASE g \in After(v, 0)
    BY <2>1 DEF Behind
  <2>2. CASE g = x.frame
    <3>1. n + 1 \in DOMAIN q /\ n + 1 > i /\ g = q[n + 1].frame
      BY <1>1, <2>2
    <3> QED
      BY <3>1 DEF Behind
  <2>3. CASE g \notin After(w, 0)
    <3>1. PICK j \in DOMAIN held : j > i /\ g = held[j].frame
      BY <1>3, <2>3 DEF Behind
    <3>2. j \in DOMAIN q /\ g = q[j].frame
      BY <1>1, <3>1
    <3> QED
      BY <3>1, <3>2 DEF Behind
  <2> QED
    BY <2>1, <2>2, <2>3
<1>4. Behind(q, v, n + 1) = After(v, 0)
  <2>1. \A j \in DOMAIN q : ~(j > n + 1)
    BY <1>1
  <2> QED
    BY <2>1 DEF Behind
<1>5. \A i \in 0..n : Behind(q, v, i) = Behind(held, w, i)
  BY <1>2, <1>3
<1> QED
  BY <1>4, <1>5 DEF q, n

LEMMA ReceiveFrameSettled ==
    ASSUME TInv, SInv, ReceiveFrame
    PROVE  SInv'
<1> DEFINE f == Head(wire)
           w == wire'
<1>1. wire # <<>> /\ wire' = Tail(wire) /\ f.type # "reply"
  BY DEF ReceiveFrame
<1>2. UNCHANGED <<kind, log, thread, link, sessions, refresh, sends, synced>>
  BY DEF ReceiveFrame, server
<1>3. /\ link = "joined" /\ FrameOK(f, log, spent.steps) /\ FrameFits(f)
      /\ FrameTold(f, After(w, 0), log)
      /\ \A i \in DOMAIN w : FrameFits(w[i]) /\ FrameTold(w[i], After(w, i), log)
      /\ \A i \in DOMAIN w : w[i].type = "reply" =>
             \A m \in DOMAIN log : m >= w[i].id => m \in Brought(After(w, i))
      /\ \A g : g \in After(wire, 0) <=> g = f \/ g \in After(w, 0)
  BY <1>1, HeadTaken
<1>4. f \in Frame
  BY <1>3 DEF FrameOK
<1>5. queue \in Seq(Held) /\ Len(queue) \in Nat /\ DOMAIN queue = 1..Len(queue) /\ sessions \in Nat
  BY ServerIs DEF QueueOK, ServerOK
<1>6. FramesTold(queue, wire, log, sessions)
  BY <1>3 DEF SInv
<1>7. SessionsOK'
  <2>1. synced => link = "joined"
    BY DEF SInv, SessionsOK
  <2>2. sessions >= 1 /\ refresh.session <= sessions /\ \A i \in DOMAIN queue : queue[i].session <= sessions
    BY DEF SInv, SessionsOK
  <2>3. \A i \in DOMAIN queue' : queue'[i].session <= sessions
    <3>1. CASE refresh.stage = "idle"
      BY <2>2, <3>1 DEF ReceiveFrame
    <3>2. CASE refresh.stage # "idle"
      <4> DEFINE x == [frame |-> f, session |-> sessions]
      <4>1. queue' = Append(queue, x) /\ x.session = sessions
        BY <3>2 DEF ReceiveFrame
      <4>2. x \in Held
        BY <1>4, <1>5 DEF Held
      <4> HIDE DEF x
      <4>3. \A i \in DOMAIN queue' : queue'[i] = x \/ (i \in DOMAIN queue /\ queue'[i] = queue[i])
        BY <1>5, <4>1, <4>2, AppendProperties
      <4>4. sessions <= sessions
        BY <1>5
      <4> QED
        BY <2>2, <4>1, <4>3, <4>4
    <3> QED
      BY <3>1, <3>2
  <2> QED
    BY <1>2, <1>3, <2>1, <2>2, <2>3 DEF SessionsOK
<1> DEFINE Fits(g) == g.type = "thread" => kind' = "direct" /\ g.rev <= thread'
<1>0. Fits(f) /\ (\A i \in DOMAIN w : Fits(w[i])) /\ \A i \in DOMAIN queue : Fits(queue[i].frame)
  <2>1. kind' = kind /\ thread' = thread
    BY <1>2
  <2>2. \A i \in DOMAIN queue : FrameFits(queue[i].frame)
    BY DEF SInv, RevisionsOK
  <2> QED
    BY <1>3, <2>1, <2>2 DEF FrameFits
<1> HIDE DEF Fits
<1>8. CASE refresh.stage = "idle"
  <2>1. queue = <<>> /\ queue' = <<>> /\ DOMAIN queue = {} /\ Becomes(ApplyFrame(Client, f))
    BY <1>8 DEF TInv, ReceiveFrame
  <2> DEFINE c == ApplyFrame(Client, f)
             F == After(w, 0)
  <2>2. Coming = After(wire, 0) /\ Coming' = F
    <3>1. {queue[j].frame : j \in {i \in DOMAIN queue : i > 0}} = {} /\ {queue'[j].frame : j \in {i \in DOMAIN queue' : i > 0}} = {}
      BY <2>1
    <3> QED
      BY <3>1 DEF Coming, Behind
  <2>3. Basics(c) /\ c.rev \in Nat
    <3>1. Basics(c)
      BY <1>1, <1>3, ServerIs, FrameBasics DEF SInv
    <3>2. ClientOK(c, log, spent.steps, sends)
      BY <1>1, <1>3, ServerIs, FrameKeepsClient
    <3> QED
      BY <3>1, <3>2 DEF ClientOK, ClientRecord
  <2>4. ASSUME Live
        PROVE  Settled(c, F, log)
    <3>1. Settled(Client, Coming, log)
      BY <2>4 DEF SInv
    <3> DEFINE G == After(wire, 0)
    <3>2. Follows(G, f, F)
      BY <1>3 DEF Follows
    <3>3. Settled(Client, G, log)
      BY <2>2, <3>1
    <3> HIDE DEF F, G
    <3>4. FrameTold(f, F, log)
      BY <1>3 DEF F
    <3> QED
      BY <1>1, <1>3, <3>2, <3>3, <3>4, ServerIs, FrameSettles DEF SInv
  <2> HIDE DEF c, F
  <2>5. Becomes(c)
    BY <2>1 DEF c
  <2>6. Basics(Client)'
    BY <1>2, <2>3, <2>5, ServerIs, NextBasics
  <2>7. Live' => Live
    BY <1>2, <2>1 DEF Live
  <2>8. (Live => Settled(Client, Coming, log))'
    BY <1>2, <2>2, <2>4, <2>5, <2>7, NextSettled
  <2>9. RevisionsOK'
    <3>1. refresh'.stage # "answered"
      BY <1>2, <1>8
    <3>2. \A i \in DOMAIN wire' : Fits(wire'[i])
      BY <1>0
    <3>3. DOMAIN queue' = {}
      BY <2>1
    <3> QED
      BY <3>1, <3>2, <3>3 DEF RevisionsOK, FrameFits, Fits
  <2>10. FramesTold(queue', wire', log', sessions')
    <3>1. DOMAIN queue' = {}
      BY <2>1
    <3> QED
      BY <1>2, <1>3, <3>1 DEF FramesTold
  <2>11. ~Answered'
    BY <1>2, <1>8 DEF Answered
  <2> QED
    BY <1>7, <2>6, <2>8, <2>9, <2>10, <2>11 DEF SInv
<1>9. CASE refresh.stage # "idle"
  <2> DEFINE x == [frame |-> f, session |-> sessions]
             q == queue'
             n == Len(queue)
  <2>1. q = Append(queue, x) /\ UNCHANGED <<timeline, known, hydration, torn, lagging>>
    BY <1>9 DEF ReceiveFrame
  <2>2. x \in Held /\ x.frame = f /\ x.session = sessions
    BY <1>4, <1>5 DEF Held
  <2> HIDE DEF x
  <2>3. DOMAIN q = 1..(n + 1) /\ q[n + 1] = x /\ \A i \in 1..n : q[i] = queue[i]
    BY <1>5, <2>1, <2>2, AppendProperties
  <2>4. /\ \A i \in 0..n : Behind(q, w, i) = Behind(queue, wire, i)
        /\ Behind(q, w, n + 1) = After(w, 0)
    BY <1>3, <1>5, <2>1, <2>2, QueueAppended
  <2> HIDE DEF q, n
  <2>5. n \in Nat /\ DOMAIN queue = 1..n
    BY <1>5 DEF n
  <2>6. Coming' = Coming
    <3>1. Behind(q, w, 0) = Behind(queue, wire, 0)
      BY <2>4, <2>5
    <3> QED
      BY <3>1 DEF Coming, q
  <2>7. Live' <=> Live
    <3>1. Current(q, sessions) <=> Current(queue, sessions)
      BY <2>2, <2>3, <2>5 DEF Current
    <3> QED
      BY <1>2, <3>1 DEF Live, q
  <2>8. Becomes(Client)
    BY <2>1, ClientFields DEF Becomes
  <2>9. Basics(Client)'
    BY <1>2, <2>8, ServerIs, NextBasics, ClientFields DEF SInv
  <2>10. (Live => Settled(Client, Coming, log))'
    <3> DEFINE F == Coming
    <3> HIDE DEF F
    <3>1. Coming' = F
      BY <2>6 DEF F
    <3>2. Live => Settled(Client, F, log)
      BY DEF SInv, F
    <3> QED
      BY <1>2, <2>7, <2>8, <3>1, <3>2, NextSettled
  <2>11. RevisionsOK'
    <3>1. refresh'.stage = "answered" => known' <= refresh'.rev /\ refresh'.rev <= thread'
      BY <1>2, <2>1 DEF SInv, RevisionsOK
    <3>2. \A i \in DOMAIN wire' : Fits(wire'[i])
      BY <1>0
    <3>3. \A i \in DOMAIN q : Fits(q[i].frame)
      <4>1. \A i \in DOMAIN q : q[i] = x \/ (i \in DOMAIN queue /\ q[i] = queue[i])
        BY <2>3, <2>5
      <4> QED
        BY <1>0, <2>2, <4>1
    <3> QED
      BY <3>1, <3>2, <3>3 DEF RevisionsOK, FrameFits, Fits, q
  <2>12. FramesTold(q, w, log, sessions)
    <3>1. ASSUME NEW i \in DOMAIN q, q[i].session = sessions
          PROVE  FrameTold(q[i].frame, Behind(q, w, i), log)
      <4>1. CASE i = n + 1
        BY <1>3, <2>2, <2>3, <2>4, <4>1
      <4>2. CASE i \in 1..n
        <5>1. q[i] = queue[i] /\ i \in DOMAIN queue /\ i \in 0..n
          BY <2>3, <2>5, <4>2
        <5>2. FrameTold(queue[i].frame, Behind(queue, wire, i), log)
          BY <1>6, <3>1, <5>1 DEF FramesTold
        <5> QED
          BY <2>4, <5>1, <5>2
      <4> QED
        BY <2>3, <2>5, <4>1, <4>2
    <3> QED
      BY <1>3, <3>1 DEF FramesTold
  <2>13. (Answered => PageTold(refresh.page, Coming, log))'
    <3>1. Answered' <=> Answered
      BY <1>2 DEF Answered
    <3> QED
      BY <1>2, <2>6, <3>1 DEF SInv
  <2> QED
    BY <1>2, <1>7, <2>9, <2>10, <2>11, <2>12, <2>13 DEF SInv, q
<1> QED
  BY <1>8, <1>9

\* What a bootstrap shows of this buffer.
LEMMA RefreshAppliedSettled ==
    ASSUME TInv, SInv, RefreshApplied
    PROVE  SInv'
<1> DEFINE shown == Open(refresh.rev)
           tl == IF shown THEN refresh.page ELSE <<>>
           hyd == IF kind = "direct" /\ shown THEN Hydrate(NoHydration) ELSE NoHydration
           F == Coming
<1>1. RefreshOK(refresh, log) /\ ServerOK /\ LogOK(log) /\ log \in Seq(Message)
  BY ServerIs DEF TInv, PartsOK
<1>2. /\ refresh.stage = "answered" /\ timeline' = tl /\ hydration' = hyd
      /\ known' = IF refresh.rev > known THEN refresh.rev ELSE known
      /\ synced' = (link = "joined" /\ refresh.session = sessions)
      /\ UNCHANGED <<kind, log, thread, wire, link, sessions, queue, sends>>
  BY DEF RefreshApplied, server
<1>3. refresh'.stage # "answered" /\ refresh'.session = refresh.session
  BY <1>1 DEF RefreshApplied, RefreshOK
<1>4. known' = refresh.rev /\ refresh.rev <= thread /\ refresh.rev \in Nat /\ thread \in Nat
  <2>1. known <= refresh.rev /\ refresh.rev <= thread
    BY <1>2 DEF SInv, RevisionsOK
  <2>2. refresh.rev \in Nat /\ known \in Nat /\ thread \in Nat
    BY <1>1 DEF RefreshOK, ServerOK
  <2> QED
    BY <1>2, <2>1, <2>2
<1>5. UnsentIds(tl) = {}
  <2>1. PageOK(refresh.page, log, {})
    BY <1>1, <1>2 DEF RefreshOK
  <2>2. \A i \in DOMAIN refresh.page : refresh.page[i].id \in Nat
    BY <1>1, <2>1, PageIdsAre
  <2>3. UnsentIds(refresh.page) = {}
    BY <2>2 DEF UnsentIds
  <2> QED
    BY <2>3, NothingUnsent
<1>6. Cardinality(UnsentIds(tl)) <= MaxUnsent
  <2> HIDE DEF tl
  <2> QED
    BY <1>5, FS_EmptySet, TimelineAssumption DEF TimelineAssumption
<1>7. /\ ~NoHydration.busy /\ ~NoHydration.done /\ NoHydration \in Hydration
      /\ kind \in {"channel", "direct"}
  BY NoHydrationOK, ServerIs DEF NoHydration, HydrationOK
<1>8. Basics(Client)'
  <2>1. Client'.tl = tl /\ Client'.rev = refresh.rev /\ Client'.hyd = hyd
    BY <1>2, <1>4 DEF Client
  <2>2. ~Open(refresh.rev) \/ kind = "channel" => ~hyd.busy /\ ~hyd.done
    BY <1>7
  <2> HIDE DEF tl, hyd
  <2> QED
    BY <1>2, <1>4, <1>6, <2>1, <2>2 DEF Basics, Open
<1>9. ASSUME Live'
      PROVE  Settled(Client, Coming, log)'
  <2>1. Answered
    BY <1>2, <1>9 DEF Live, Answered
  <2>2. PageTold(refresh.page, F, log)
    BY <2>1 DEF SInv
  <2>3. Coming' = F
    BY <1>2 DEF Coming, Behind
  <2> HIDE DEF F
  <2>4. Supplied(hyd, Ids(tl), F, log)
    <3>1. Supplied(NoHydration, Ids(tl), F, log)
      BY <1>7, NoneSupplied
    <3>2. Supplied(Hydrate(NoHydration), Ids(tl), F, log)
      BY <1>7, <3>1, HydrateSupplies
    <3> QED
      BY <3>1, <3>2
  <2>5. LateTold(tl, F, log)
    <3>1. LateTold(<<>>, F, log)
      BY DEF LateTold
    <3> QED
      BY <2>2, <3>1 DEF PageTold
  <2>6. kind = "channel" => Accounted(Ids(tl), Brought(F), log)
    BY <2>2 DEF PageTold, Open
  <2>7. Client'.tl = tl /\ Client'.hyd = hyd /\ log' = log /\ kind' = kind
    BY <1>2 DEF Client
  <2> HIDE DEF tl, hyd
  <2> QED
    BY <2>3, <2>4, <2>5, <2>6, <2>7 DEF Settled
<1>10. RevisionsOK'
  BY <1>2, <1>3 DEF SInv, RevisionsOK, FrameFits
<1>11. SessionsOK'
  BY <1>2, <1>3 DEF SInv, SessionsOK
<1>12. (link = "joined" => FramesTold(queue, wire, log, sessions))'
  BY <1>2 DEF SInv
<1>13. ~Answered'
  BY <1>3 DEF Answered
<1> QED
  BY <1>8, <1>9, <1>10, <1>11, <1>12, <1>13 DEF SInv

\* The frames that waited are applied.
LEMMA QueueSettles ==
    ASSUME TInv, SInv, NEW d, d = ApplyFrames(Client, queue)
    PROVE  Basics(d) /\ d.rev \in Nat /\ (Live => Settled(d, After(wire, 0), log))
<1> DEFINE u == spent.steps
           N == Len(queue)
           Good(v, i) == ClientOK(v, log, u, sends) /\ Basics(v) /\ (Live => Settled(v, Behind(queue, wire, i), log))
           G == [i \in 0..N |-> {v \in ClientRecord : Good(v, i)}]
<1>1. /\ queue \in Seq(Held) /\ N \in Nat /\ DOMAIN queue = 1..N
      /\ \A i \in 1..N : FrameOK(queue[i].frame, log, u) /\ queue[i].frame.type # "reply"
  BY ServerIs DEF QueueOK
<1>2. ASSUME NEW i \in 1..N, NEW v, Good(v, i - 1)
      PROVE  Good(ApplyFrame(v, queue[i].frame), i)
  <2> DEFINE f == queue[i].frame
  <2>1. FrameOK(f, log, u) /\ f.type # "reply" /\ FrameFits(f) /\ i \in DOMAIN queue
    BY <1>1 DEF SInv, RevisionsOK
  <2>2. ClientOK(ApplyFrame(v, f), log, u, sends)
    BY <1>2, <2>1, ServerIs, FrameKeepsClient
  <2>3. Basics(ApplyFrame(v, f))
    BY <1>2, <2>1, ServerIs, FrameBasics
  <2>4. ASSUME Live
        PROVE  Settled(ApplyFrame(v, f), Behind(queue, wire, i), log)
    <3> DEFINE A == Behind(queue, wire, i - 1)
               B == Behind(queue, wire, i)
    <3>1. Follows(A, f, B)
      <4> SUFFICES ASSUME NEW g \in A, g # f
                   PROVE  g \in B
        BY DEF Follows
      <4>1. CASE g \in After(wire, 0)
        BY <4>1 DEF Behind
      <4>2. CASE g \notin After(wire, 0)
        <5>1. PICK j \in DOMAIN queue : j > i - 1 /\ g = queue[j].frame
          BY <4>2 DEF Behind
        <5>2. j # i
          BY <5>1
        <5>3. j > i
          BY <1>1, <5>1, <5>2
        <5> QED
          BY <5>1, <5>3 DEF Behind
      <4> QED
        BY <4>1, <4>2
    <3>2. FrameTold(f, B, log)
      BY <2>1, <2>4 DEF SInv, Live, Current, FramesTold
    <3>3. Settled(v, A, log)
      BY <1>2, <2>4
    <3> HIDE DEF A, B, f
    <3>4. Settled(ApplyFrame(v, f), B, log)
      BY <1>2, <2>1, <3>1, <3>2, <3>3, ServerIs, FrameSettles
    <3> QED
      BY <3>4 DEF B, f
  <2> QED
    BY <2>2, <2>3, <2>4
<1>3. Good(Client, 0)
  BY ServerIs DEF SInv, Coming
<1>4. \A v, i : Good(v, i) => v \in ClientRecord
  BY DEF ClientOK
<1> HIDE DEF Good
<1>5. \A i \in 0..N : \A v : v \in G[i] <=> Good(v, i)
  BY <1>4
<1>6. G \in [0..N -> SUBSET ClientRecord]
  OBVIOUS
<1> HIDE DEF G
<1>7. Client \in G[0]
  BY <1>1, <1>3, <1>5
<1>8. \A i \in 1..N : \A v \in G[i - 1] : ApplyFrame(v, queue[i].frame) \in G[i]
  <2> SUFFICES ASSUME NEW i \in 1..N, NEW v \in G[i - 1]
               PROVE  ApplyFrame(v, queue[i].frame) \in G[i]
    OBVIOUS
  <2>1. i - 1 \in 0..N /\ i \in 0..N
    BY <1>1
  <2> QED
    BY <1>2, <1>5, <2>1
<1>9. ApplyFrames(Client, queue) \in G[Len(queue)]
  BY <1>1, <1>6, <1>7, <1>8, FramesKeep
<1>10. Good(d, N)
  BY <1>1, <1>5, <1>9
<1>11. Behind(queue, wire, N) = After(wire, 0)
  <2>1. \A j \in DOMAIN queue : ~(j > N)
    BY <1>1
  <2> QED
    BY <2>1 DEF Behind
<1>12. ClientOK(d, log, u, sends) /\ Basics(d) /\ (Live => Settled(d, Behind(queue, wire, N), log))
  BY <1>10 DEF Good
<1> QED
  BY <1>11, <1>12 DEF ClientOK, ClientRecord

LEMMA RefreshSettlesSettled ==
    ASSUME TInv, SInv, RefreshSettles
    PROVE  SInv'
<1>1. UNCHANGED <<kind, log, thread, wire, link, sessions, sends>>
  BY DEF RefreshSettles, server
<1>2. sessions >= 1 /\ refresh.session <= sessions /\ sessions \in Nat
  BY ServerIs DEF SInv, SessionsOK, ServerOK
<1>3. CASE refresh.again
  <2>1. refresh' = [NoRefresh EXCEPT !.stage = "sent"] /\ UNCHANGED <<timeline, known, hydration, queue, history>>
    BY <1>3 DEF RefreshSettles
  <2>2. refresh'.stage = "sent" /\ refresh'.session = 0
    BY <2>1 DEF NoRefresh
  <2>3. refresh'.session <= sessions /\ ~Answered'
    BY <1>2, <2>2 DEF Answered
  <2>4. UNCHANGED <<server, wire, link, sessions, queue, history, timeline, known, hydration, sends>>
    BY <1>1, <2>1 DEF server
  <2> QED
    BY <2>2, <2>3, <2>4, RefreshSteps
<1>4. CASE ~refresh.again
  <2> DEFINE d == ApplyFrames(Client, queue)
             F == After(wire, 0)
  <2>1. /\ refresh' = NoRefresh /\ Becomes(d) /\ queue' = <<>> /\ DOMAIN queue' = {}
        /\ synced' = (synced /\ \A i \in DOMAIN queue : queue[i].session = sessions)
    BY <1>4 DEF RefreshSettles
  <2>2. Basics(d) /\ d.rev \in Nat /\ (Live => Settled(d, F, log))
    BY QueueSettles
  <2> HIDE DEF d
  <2>3. Coming' = F
    <3>1. {queue'[j].frame : j \in {i \in DOMAIN queue' : i > 0}} = {}
      BY <2>1
    <3> QED
      BY <1>1, <3>1 DEF Coming, Behind
  <2> HIDE DEF F
  <2>4. refresh'.stage = "idle" /\ refresh'.session = 0
    BY <2>1 DEF NoRefresh
  <2>5. Live' => Live
    BY <1>1, <2>1 DEF Live, Current
  <2>6. Basics(Client)'
    BY <1>1, <2>1, <2>2, ServerIs, NextBasics
  <2>7. (Live => Settled(Client, Coming, log))'
    BY <1>1, <2>1, <2>2, <2>3, <2>5, NextSettled
  <2>8. RevisionsOK'
    BY <1>1, <2>1, <2>4 DEF SInv, RevisionsOK, FrameFits
  <2>9. SessionsOK'
    <3>1. synced' => link = "joined"
      BY <2>1 DEF SInv, SessionsOK
    <3>2. refresh'.session <= sessions
      BY <1>2, <2>4
    <3>3. link = "down" => wire = <<>> /\ \A s \in sends : ~s.online
      BY DEF SInv, SessionsOK
    <3>4. \A i \in DOMAIN queue' : queue'[i].session <= sessions
      BY <2>1
    <3> QED
      BY <1>1, <1>2, <3>1, <3>2, <3>3, <3>4 DEF SessionsOK
  <2>10. (link = "joined" => FramesTold(queue, wire, log, sessions))'
    BY <1>1, <2>1 DEF SInv, FramesTold
  <2>11. ~Answered'
    BY <2>4 DEF Answered
  <2> QED
    BY <2>6, <2>7, <2>8, <2>9, <2>10, <2>11 DEF SInv
<1> QED
  BY <1>3, <1>4

\* The answer of a push puts the stored message in the place of the pending
\* one; the frames of all messages from it on are still to come.
LEMMA AnswerAccounted ==
    ASSUME NEW A, NEW B, NEW n \in Nat, A \subseteq B, B \subseteq A \cup {n}, NEW N, NEW l \in Seq(Message),
           Accounted(A, N, l), \A m \in DOMAIN l : m >= n => m \in N
    PROVE  Accounted(B, N, l)
<1> SUFFICES ASSUME NEW m \in DOMAIN l, m \notin B, m \notin N
             PROVE  Below(B, m)
  BY DEF Accounted
<1>1. m \in Nat /\ Below(A, m)
  BY MessageFields DEF Accounted
<1>2. m < n
  BY <1>1
<1> QED
  BY <1>1, <1>2 DEF Below

LEMMA SendRepliedSettled ==
    ASSUME TInv, SInv, SendReplied
    PROVE  SInv'
<1> DEFINE f == Head(wire)
           w == wire'
           e == Stored_(f.id)
           heard == {s \in sends : s.cid = f.cid}
           u == spent.steps
           new == timeline'
           F == Coming
           G == Behind(queue, w, 0)
<1>1. /\ wire # <<>> /\ wire' = Tail(wire) /\ f.type = "reply"
      /\ new = IF heard = {} THEN timeline ELSE Replaced(timeline, f.cid, e)
      /\ sends' = sends \ heard
  BY DEF SendReplied
<1>2. /\ UNCHANGED <<kind, log, thread, link, sessions, known, refresh, queue, synced>>
      /\ UNCHANGED <<hydration, torn, lagging>>
  BY DEF SendReplied, server, requests, history
<1>3. /\ link = "joined" /\ FrameOK(f, log, u)
      /\ \A m \in DOMAIN log : m >= f.id => m \in Brought(After(w, 0))
      /\ \A i \in DOMAIN w : FrameFits(w[i]) /\ FrameTold(w[i], After(w, i), log)
      /\ \A i \in DOMAIN w : w[i].type = "reply" =>
             \A m \in DOMAIN log : m >= w[i].id => m \in Brought(After(w, i))
      /\ \A g : g \in After(wire, 0) <=> g = f \/ g \in After(w, 0)
  BY <1>1, HeadTaken
<1>4. log \in Seq(Message) /\ LogOK(log) /\ u \in Nat
  BY ServerIs
<1>5. f.id \in DOMAIN log /\ f.cid < 0 /\ f.id \in Nat
  <2>1. f.id \in DOMAIN log /\ f.cid \in (-u)..(-1)
    BY <1>1, <1>3 DEF FrameOK
  <2> QED
    BY <1>4, <2>1, MessageFields
<1>6. StoredEntry(e, log) /\ e.id = f.id /\ ~Late(e, log)
  <2>1. f.id \in 1..MaxLog /\ log[f.id].rank \in Ranks /\ log[f.id].rank <= log[f.id].rank
    BY <1>4, <1>5, MessageFields, BoundsAre DEF LogOK
  <2>2. e \in EntryType
    BY <2>1, BoundsAre DEF Stored_, EntryType
  <2>3. ~(log[f.id].rank < log[f.id].rank)
    BY <2>1 DEF Ranks
  <2> QED
    BY <1>5, <2>1, <2>2, <2>3 DEF Stored_, StoredEntry, Late
<1> HIDE DEF e, u
<1>7. /\ Ids(timeline) \subseteq Ids(new) /\ Ids(new) \subseteq Ids(timeline) \cup {f.id}
      /\ UnsentIds(new) \subseteq UnsentIds(timeline)
      /\ \A k \in DOMAIN new : new[k] = e \/ (k \in DOMAIN timeline /\ new[k] = timeline[k])
  <2>1. CASE heard = {}
    BY <1>1, <2>1
  <2>2. CASE heard # {}
    <3> DEFINE n == f.cid
    <3>1. Renews(new, timeline, n, e)
      BY <1>1, <2>2 DEF Renews, Replaced
    <3>2. n < 0
      BY <1>5
    <3>3. LineOK(timeline, log, u, sends)
      BY ServerIs DEF u
    <3> HIDE DEF new, n
    <3> QED
      BY <1>4, <1>6, <3>1, <3>2, <3>3, RenewedShows
  <2> QED
    BY <2>1, <2>2
<1> HIDE DEF new, heard, f
<1>8. Brought(After(w, 0)) \subseteq Brought(G)
  BY DEF Behind, Brought
<1>9. \A i \in 0..Len(queue) : MoreFrames(Behind(queue, wire, i), Behind(queue, w, i))
  BY <1>1, <1>3 DEF Behind, MoreFrames
<1>10. Tidings(log, log, G) /\ \A i \in 0..Len(queue) : Tidings(log, log, Behind(queue, w, i))
  BY DEF Tidings
<1>11. /\ queue \in Seq(Held) /\ Len(queue) \in Nat /\ DOMAIN queue = 1..Len(queue)
       /\ \A i \in DOMAIN queue : FrameOK(queue[i].frame, log, u)
  BY ServerIs DEF QueueOK, u
<1>12. MoreFrames(F, G)
  <2>1. 0 \in 0..Len(queue)
    BY <1>11
  <2> QED
    BY <1>9, <2>1 DEF Coming
<1>13. Coming' = G
  BY <1>2 DEF Coming, Behind
<1> HIDE DEF G, F
<1> DEFINE c == Client'
<1>14. c.tl = new /\ c.rev = known /\ c.hyd = hydration /\ c.torn = torn /\ c.lag = lagging
  BY <1>2 DEF Client, new
<1> HIDE DEF c
<1>15. Basics(Client)'
  <2>1. Cardinality(UnsentIds(new)) <= MaxUnsent
    BY <1>4, <1>7, FewUnsent, ServerIs, ClientFields DEF SInv, Basics, u
  <2>2. c.rev <= thread /\ (~Open(c.rev) \/ kind = "channel" => ~c.hyd.busy /\ ~c.hyd.done)
    BY <1>14, ClientFields DEF SInv, Basics
  <2> QED
    BY <1>2, <1>14, <2>1, <2>2 DEF Basics, Open, c
<1>16. ASSUME Live
       PROVE  Settled(c, G, log)
  <2>1. Settled(Client, F, log)
    BY <1>16 DEF SInv, F
  <2>2. Settled(Client, G, log)
    BY <1>4, <1>10, <1>12, <2>1, ServerIs, SettledTidings
  <2>3. /\ ~lagging => LateTold(timeline, G, log)
        /\ Supplied(hydration, Ids(timeline), G, log)
        /\ kind = "channel" /\ ~torn => Accounted(Ids(timeline), Brought(G), log)
    BY <2>2, ClientFields DEF Settled
  <2>4. ~lagging => LateTold(new, G, log)
    BY <1>6, <1>7, <2>3 DEF LateTold
  <2>5. Supplied(hydration, Ids(new), G, log)
    BY <1>7, <2>3, SuppliedMore
  <2>6. kind = "channel" /\ ~torn => Accounted(Ids(new), Brought(G), log)
    <3>1. \A m \in DOMAIN log : m >= f.id => m \in Brought(G)
      BY <1>3, <1>8
    <3> QED
      BY <1>4, <1>5, <1>7, <2>3, <3>1, AnswerAccounted
  <2> QED
    BY <1>14, <2>4, <2>5, <2>6 DEF Settled
<1>17. (Live => Settled(Client, Coming, log))'
  <2>1. Live' <=> Live
    BY <1>2 DEF Live
  <2> QED
    BY <1>2, <1>13, <1>16, <2>1 DEF Settled, c
<1>18. RevisionsOK'
  <2> DEFINE Fits(g) == g.type = "thread" => kind' = "direct" /\ g.rev <= thread'
  <2>1. kind' = kind /\ thread' = thread
    BY <1>2
  <2>2. (\A i \in DOMAIN w : Fits(w[i])) /\ \A i \in DOMAIN queue : Fits(queue[i].frame)
    BY <1>3, <2>1 DEF SInv, RevisionsOK, FrameFits
  <2>3. refresh.stage = "answered" => known <= refresh.rev /\ refresh.rev <= thread
    BY DEF SInv, RevisionsOK
  <2> QED
    BY <1>2, <2>1, <2>2, <2>3 DEF RevisionsOK, FrameFits
<1>19. SessionsOK'
  BY <1>1, <1>2, <1>3 DEF SInv, SessionsOK
<1>20. FramesTold(queue, w, log, sessions)
  <2>1. FramesTold(queue, wire, log, sessions)
    BY <1>3 DEF SInv
  <2>2. ASSUME NEW i \in DOMAIN queue, queue[i].session = sessions
        PROVE  FrameTold(queue[i].frame, Behind(queue, w, i), log)
    <3> DEFINE A == Behind(queue, wire, i)
               B == Behind(queue, w, i)
               g == queue[i].frame
    <3>1. i \in 0..Len(queue)
      BY <1>11
    <3>2. MoreFrames(A, B) /\ Tidings(log, log, B) /\ FrameOK(g, log, u) /\ FrameTold(g, A, log)
      BY <1>9, <1>10, <1>11, <2>1, <2>2, <3>1 DEF FramesTold
    <3> HIDE DEF A, B, g
    <3>3. FrameTold(g, B, log)
      BY <3>2, ToldTidings
    <3> QED
      BY <3>3 DEF B, g
  <2> QED
    BY <1>3, <2>2 DEF FramesTold
<1>21. (Answered => PageTold(refresh.page, Coming, log))'
  <2> SUFFICES ASSUME Answered
               PROVE  PageTold(refresh.page, G, log)
    BY <1>2, <1>13 DEF Answered
  <2>1. PageTold(refresh.page, F, log)
    BY DEF SInv, F
  <2>2. PageOK(refresh.page, log, {})
    BY DEF TInv, PartsOK, RefreshOK, Answered
  <2> QED
    BY <1>10, <1>12, <2>1, <2>2, PageTidings
<1> QED
  BY <1>2, <1>15, <1>17, <1>18, <1>19, <1>20, <1>21 DEF SInv

-----------------------------------------------------------------------------
(* The second invariant of the whole.                                      *)

LEMMA SInvInit ==
    ASSUME Init, TInv
    PROVE  SInv
<1>1. /\ thread = 1 /\ known = 1 /\ link = "joined" /\ sessions = 1 /\ ~synced
      /\ hydration = NoHydration /\ refresh = [NoRefresh EXCEPT !.stage = "sent"]
      /\ DOMAIN wire = {} /\ DOMAIN queue = {}
  BY DEF Init
<1>2. UnsentIds(timeline) = {}
  <2>1. PageOK(timeline, log, {})
    BY ServerIs, NewestPageOK DEF Init
  <2>2. \A i \in DOMAIN timeline : timeline[i].id \in Nat
    BY <2>1, ServerIs, PageIdsAre
  <2> QED
    BY <2>2 DEF UnsentIds
<1>3. Cardinality(UnsentIds(timeline)) <= MaxUnsent
  BY <1>2, FS_EmptySet, TimelineAssumption DEF TimelineAssumption
<1>4. Basics(Client)
  BY <1>1, <1>3, ClientFields DEF Basics, NoHydration
<1>5. refresh.stage = "sent" /\ refresh.session = 0
  BY <1>1 DEF NoRefresh
<1>6. RevisionsOK
  BY <1>1, <1>5 DEF RevisionsOK
<1>7. SessionsOK
  BY <1>1, <1>5 DEF SessionsOK
<1>8. FramesTold(queue, wire, log, sessions)
  BY <1>1 DEF FramesTold
<1>9. ~Answered /\ ~Live
  BY <1>1, <1>5 DEF Answered, Live
<1> QED
  BY <1>4, <1>6, <1>7, <1>8, <1>9 DEF SInv

LEMMA SInvNext ==
    ASSUME TInv, SInv, [Next]_vars
    PROVE  SInv'
<1>1. CASE \E rank \in {0, 1} : Post(rank)
  BY <1>1, PostSettled
<1>2. CASE \E n \in DOMAIN log : CommandProgresses(n)
  BY <1>2, CommandProgressesSettled
<1>3. CASE ThreadChanges
  BY <1>3, ThreadChangesSettled
<1>4. CASE ReconcileServerBuffers \/ LoadOlder
  BY <1>4, StandingSettled
<1>5. CASE \E older \in BOOLEAN : SetReading(older)
  BY <1>5, SetReadingSettled
<1>6. CASE Send
  BY <1>6, SendSettled
<1>7. CASE \E i \in DOMAIN timeline : Retry(i)
  BY <1>7, RetrySettled
<1>8. CASE \E s \in sends : SendServed(s) \/ SendFails(s)
  BY <1>8, SendServedSettled, SendFailsSettled
<1>9. CASE HydrationFails \/ ReconFails \/ RefreshFails \/ OlderFails
  BY <1>9, HydrationFailsSettled, StandingSettled, RefreshFailsSettled
<1>10. CASE LinkLost
  BY <1>10, LinkLostSettled
<1>11. CASE Serve
  <2>1. CASE HydrationServed \/ HydrationPage
    BY <2>1, HydrationServedSettled, HydrationPageSettled
  <2>2. CASE ReconServed \/ ReconApplied
    BY <2>2, StandingSettled, ReconAppliedSettled
  <2>3. CASE RefreshServed \/ RefreshApplied \/ RefreshSettles
    BY <2>3, RefreshServedSettled, RefreshAppliedSettled, RefreshSettlesSettled
  <2>4. CASE OlderServed \/ OlderApplied
    BY <2>4, StandingSettled, OlderAppliedSettled
  <2>5. CASE ReceiveFrame \/ SendReplied \/ JoinOk
    BY <2>5, ReceiveFrameSettled, SendRepliedSettled, JoinOkSettled
  <2> QED
    BY <1>11, <2>1, <2>2, <2>3, <2>4, <2>5 DEF Serve
<1>12. CASE UNCHANGED vars
  BY <1>12, StandingSettled
<1> QED
  BY <1>1, <1>2, <1>3, <1>4, <1>5, <1>6, <1>7, <1>8, <1>9, <1>10, <1>11, <1>12 DEF Next

LEMMA SInvAlways == Spec => [](TInv /\ SInv)
<1>1. Init => TInv /\ SInv
  BY TInvInit, SInvInit
<1>2. TInv /\ SInv /\ [Next]_vars => TInv' /\ SInv'
  BY TInvNext, SInvNext
<1> QED
  BY <1>1, <1>2, PTL DEF Spec

\* A quiet timeline has nothing to come: what is on show is all there is.
LEMMA QuietIs ==
    ASSUME TInv, SInv, Quiet
    PROVE  Settled(Client, {}, log)
<1>1. link = "joined" /\ wire = <<>> /\ queue = <<>> /\ synced
  BY DEF Quiet, TInv
<1>2. DOMAIN wire = {} /\ DOMAIN queue = {}
  BY <1>1
<1>3. Live
  BY <1>1, <1>2 DEF Live, Current
<1>4. Coming = {}
  BY <1>2 DEF Coming, Behind, After
<1> QED
  BY <1>3, <1>4 DEF SInv

LEMMA NothingBrought == Brought({}) = {}
BY DEF Brought

LEMMA ShownAre ==
    ASSUME TInv
    PROVE  Ids(timeline) \subseteq DOMAIN log /\ DOMAIN log = 1..Len(log) /\ Len(log) \in Nat
<1>1. Ids(timeline) \subseteq DOMAIN log
  BY ServerIs, IdsAre
<1>2. DOMAIN log = 1..Len(log) /\ Len(log) \in Nat
  BY ServerIs
<1> QED
  BY <1>1, <1>2

LEMMA QuietHistory ==
    ASSUME TInv, SInv, Quiet, hydration.done
    PROVE  Ids(timeline) = DOMAIN log
<1>1. Settled(Client, {}, log)
  BY QuietIs
<1>2. \A n \in DOMAIN log : n \in Ids(timeline) \/ n \in Brought({})
  BY <1>1, ClientFields DEF Settled, Supplied
<1> QED
  BY <1>2, NothingBrought, ShownAre

LEMMA QuietWindow ==
    ASSUME TInv, SInv, Quiet, ~torn, kind = "channel", Ids(timeline) # DOMAIN log
    PROVE  \E oldest \in Ids(timeline) : Ids(timeline) = oldest..Len(log)
<1> DEFINE A == Ids(timeline)
<1>1. A \subseteq DOMAIN log /\ DOMAIN log = 1..Len(log) /\ Len(log) \in Nat
  BY ShownAre
<1>2. \A n \in DOMAIN log : n \in A \/ Below(A, n)
  <2>1. Accounted(A, Brought({}), log)
    BY QuietIs, ClientFields DEF Settled
  <2> QED
    BY <2>1, NothingBrought DEF Accounted
<1> HIDE DEF A
<1>3. A # {} /\ A \subseteq Nat
  <2>1. PICK n \in DOMAIN log : n \notin A
    BY <1>1 DEF A
  <2> QED
    BY <1>1, <1>2, <2>1 DEF Below
<1>4. PICK oldest \in A : \A m \in A : oldest <= m
  BY <1>3, LeastNumber
<1>5. A = oldest..Len(log)
  <2>1. \A n \in A : n \in oldest..Len(log)
    BY <1>1, <1>4
  <2>2. ASSUME NEW n \in oldest..Len(log)
        PROVE  n \in A
    <3>1. n \in DOMAIN log /\ ~(n < oldest)
      BY <1>1, <1>3, <1>4
    <3> QED
      BY <1>2, <1>4, <3>1 DEF Below
  <2> QED
    BY <2>1, <2>2
<1> QED
  BY <1>4, <1>5 DEF A

\* However bootstraps, reconciliations, older pages, frames, answers, cuts,
\* losses of the socket and of requests, and reconnections come in, once
\* nothing is on its way a timeline shows the newest message and every one
\* between it and the oldest on show (chat_store's merges and trimMessagesToLimit,
\* use_buffer_messages, and the refresh of use_server_connections).
THEOREM TimelineHasNoHoles == Spec => []NothingMissing
<1>1. TInv /\ SInv => NothingMissing
  <2> SUFFICES ASSUME TInv, SInv, Quiet, ~torn, kind = "channel" \/ hydration.done
               PROVE  Ids(timeline) = DOMAIN log \/ \E oldest \in Ids(timeline) : Ids(timeline) = oldest..Len(log)
    BY DEF NothingMissing
  <2> QED
    BY QuietHistory, QuietWindow
<1> QED
  BY <1>1, SInvAlways, PTL

\* What is shown as pending belongs to a push that still waits, after any
\* number of reconnections, retries, bootstraps, cuts and merges (sendMessage
\* and retryMessage of topics_club_app.tsx); and the status a quiet timeline
\* shows of a command is the server's, whatever copies of it came in which
\* order (commandStatusRank of chat_store).
THEOREM StatusesComeTrue == Spec => []StatusesConverge
<1>1. TInv /\ SInv => StatusesConverge
  <2> SUFFICES ASSUME TInv, SInv
               PROVE  StatusesConverge
    OBVIOUS
  <2>1. LineOK(timeline, log, spent.steps, sends)
    BY ServerIs
  <2>2. Awaited(timeline, sends)
    BY <2>1 DEF LineOK
  <2>3. ASSUME Quiet, ~lagging, NEW i \in DOMAIN timeline, timeline[i].id > 0
        PROVE  timeline[i].rank = log[timeline[i].id].rank
    <3>1. LateTold(timeline, {}, log)
      BY <2>3, QuietIs, ClientFields DEF Settled
    <3>2. ~Late(timeline[i], log)
      BY <2>3, <3>1 DEF LateTold, Tells
    <3>3. StoredEntry(timeline[i], log) /\ timeline[i].rank \in Int
      BY <2>1, <2>3, ServerIs, IdsAre
    <3>4. log[timeline[i].id].rank \in Int /\ timeline[i].rank <= log[timeline[i].id].rank
      BY <3>3, ServerIs, MessageFields DEF StoredEntry, Ranks
    <3> QED
      BY <3>2, <3>3, <3>4 DEF Late
  <2> QED
    BY <2>2, <2>3 DEF StatusesConverge, Awaited
<1> QED
  BY <1>1, SInvAlways, PTL

\* A direct conversation's history that counts as fetched is all of it, also
\* after closings and openings while its pages were on their way
\* (hydrateDirectMessageHistory of use_buffer_messages).
THEOREM HistoryIsWhole == Spec => []HydratedIsComplete
<1>1. TInv /\ SInv => HydratedIsComplete
  BY QuietHistory DEF HydratedIsComplete
<1> QED
  BY <1>1, SInvAlways, PTL
=============================================================================
