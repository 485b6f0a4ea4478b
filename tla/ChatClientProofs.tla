-------------------------- MODULE ChatClientProofs --------------------------
(***************************************************************************)
(* Theorems about the browser's picture of the user's connections: its     *)
(* types, the queue of held frames, the selection, the listings, the       *)
(* revisions of threads and that the picture becomes the server's, for any *)
(* servers, channels, threads and bounds.                                  *)
(*                                                                         *)
(* Two ideas carry the first five.  Every operator that makes a picture out *)
(* of a picture makes one that Follows it: the owner of what is shown is   *)
(* known, the selection is shown if it was, no revision is lower.  And the *)
(* parts of CInv fit together: an answer on the socket has exactly one call *)
(* waiting for it, an answered call holds a reply of the kind its settling *)
(* applies, and a listing request that is level with its counter asked for *)
(* what was asked for last.                                                *)
(*                                                                         *)
(* The last theorem needs to know of what is not yet there: PictureInv says *)
(* that every frame still to come, held back or on the socket, tells the   *)
(* truth or is followed by one that does, and that the picture, but for what *)
(* is excluded, is the truth wherever none of them is about to make it so. *)
(***************************************************************************)
EXTENDS ChatClient, NumberLemmas, SequenceTheorems

-----------------------------------------------------------------------------
(* The picture: what its operators keep.                                   *)

OwnersKnown(u) == \A b \in Shown(u) : Owner[b] \in u.known
Picture(u) == u \in Ui /\ OwnersKnown(u)

Selection(u) ==
    /\ u.view = "chat" => u.buf \in Shown(u)
    /\ u.view = "directory" => u.server \in u.known

\* v may follow u: the selection is shown if it was, and no revision falls.
Follows(u, v) ==
    /\ Picture(v)
    /\ Selection(u) => Selection(v)
    /\ \A d \in Dms : v.revs[d] >= u.revs[d]

LEMMA Revisions ==
    ASSUME NEW u, Picture(u)
    PROVE  \A d \in Dms : u.revs[d] \in Int
BY DEF Picture, Ui, Absent

LEMMA FollowsItself ==
    ASSUME NEW u, Picture(u)
    PROVE  Follows(u, u)
<1>1. \A d \in Dms : u.revs[d] \in Int
  BY Revisions
<1> QED
  BY <1>1 DEF Follows

LEMMA FollowsOn ==
    ASSUME NEW u, NEW v, NEW w, Picture(u), Follows(u, v), Follows(v, w)
    PROVE  Follows(u, w)
<1>1. Picture(v) /\ Picture(w)
  BY DEF Follows
<1>2. \A d \in Dms : u.revs[d] \in Int /\ v.revs[d] \in Int /\ w.revs[d] \in Int
  BY <1>1, Revisions
<1>3. \A d \in Dms : w.revs[d] >= u.revs[d]
  BY <1>2 DEF Follows
<1> QED
  BY <1>3 DEF Follows

LEMMA FirstOfIs ==
    ASSUME NEW S, S \subseteq Servers \cup Buffers, S # {}
    PROVE  FirstOf(S) \in S
<1> DEFINE P == {i \in DOMAIN Order : Order[i] \in S}
<1>1. P \subseteq Nat /\ P # {}
  BY ClientAssumption DEF ClientAssumption
<1>2. PICK i \in P : \A j \in P : i <= j
  <2> HIDE DEF P
  <2> QED
    BY <1>1, LeastNumber
<1>3. \A j \in 1..(i - 1) : Order[j] \notin S
  BY <1>2, ClientAssumption DEF ClientAssumption
<1> QED
  BY <1>2, <1>3 DEF FirstOf

\* Frames applied one after another: if each of them takes a picture of its
\* place to one of the next place, all take the first to the last.  (That the
\* recursive function exists at all is proved by the least number up to which
\* there would be none.)
LEMMA FramesRun ==
    ASSUME NEW G, NEW u \in G[0], NEW q, Len(q) \in Nat,
           \A i \in 1..Len(q) : \A v \in G[i - 1] : ApplyFrame(v, q[i].frame) \in G[i]
    PROVE  ApplyFrames(u, q) \in G[Len(q)]
<1> DEFINE N == Len(q)
           Step(v, i) == ApplyFrame(v, q[i].frame)
           Run(n, r) == /\ r = [i \in 0..n |-> r[i]] /\ r[0] = u
                        /\ \A i \in 0..n : r[i] \in G[i]
                        /\ \A i \in 1..n : r[i] = Step(r[i - 1], i)
           Body(f) == [n \in 0..N |-> IF n = 0 THEN u ELSE Step(f[n - 1], n)]
           after == CHOOSE f : f = Body(f)
<1>0. N \in Nat /\ \A i \in 1..N : \A v \in G[i - 1] : Step(v, i) \in G[i]
  OBVIOUS
<1>1. ApplyFrames(u, q) = after[N]
  BY DEF ApplyFrames
<1> HIDE DEF N, Step
<1>2. \E r : Run(N, r)
  <2> DEFINE Bad == {n \in 0..N : ~ \E r : Run(n, r)}
  <2>1. CASE Bad = {}
    <3>1. N \in 0..N
      BY <1>0
    <3> HIDE DEF Run
    <3>2. N \notin Bad
      <4> HIDE DEF Bad
      <4> QED
        BY <2>1
    <3> QED
      BY <3>1, <3>2, Zenon
  <2>2. CASE Bad # {}
    <3>1. PICK n \in Bad : \A m \in Bad : n <= m
      <4>1. Bad \subseteq Nat
        BY <1>0
      <4> HIDE DEF Bad
      <4> QED
        BY <2>2, <4>1, LeastNumber
    <3>2. Run(0, [i \in 0..0 |-> u])
      OBVIOUS
    <3>3. n \in 1..N /\ n - 1 \in 0..N /\ n - 1 \notin Bad
      <4>1. n # 0
        BY <3>2
      <4> QED
        BY <1>0, <3>1, <4>1
    <3>4. PICK r : Run(n - 1, r)
      BY <3>3
    <3> DEFINE s == [i \in 0..n |-> IF i = n THEN Step(r[n - 1], n) ELSE r[i]]
    <3>5. r[n - 1] \in G[n - 1] /\ Step(r[n - 1], n) \in G[n]
      BY <1>0, <3>3, <3>4
    <3>6. s = [i \in 0..n |-> s[i]] /\ s[0] = u
      BY <3>3, <3>4
    <3>a. \A i \in 0..n : s[i] \in G[i]
      <4> SUFFICES ASSUME NEW i \in 0..n
                   PROVE  s[i] \in G[i]
        OBVIOUS
      <4>1. i # n => i \in 0..(n - 1)
        BY <3>3
      <4> QED
        BY <3>4, <3>5, <4>1
    <3>7. \A i \in 1..n : s[i] = Step(s[i - 1], i)
      <4> SUFFICES ASSUME NEW i \in 1..n
                   PROVE  s[i] = Step(s[i - 1], i)
        OBVIOUS
      <4>1. s[i - 1] = r[i - 1]
        BY <3>3
      <4>2. CASE i = n
        BY <3>3, <4>1, <4>2
      <4>3. CASE i # n
        <5>1. s[i] = r[i] /\ i \in 1..(n - 1)
          BY <3>3, <4>3
        <5> QED
          BY <3>4, <4>1, <5>1
      <4> QED
        BY <4>2, <4>3
    <3> HIDE DEF s
    <3>8. Run(n, s)
      BY <3>6, <3>7, <3>a
    <3> QED
      BY <3>1, <3>8
  <2> QED
    BY <2>1, <2>2
<1>3. PICK r : Run(N, r)
  BY <1>2
<1>4. r = Body(r)
  <2>1. \A n \in 0..N : r[n] = IF n = 0 THEN u ELSE Step(r[n - 1], n)
    <3>1. r[0] = u /\ \A n \in 1..N : r[n] = Step(r[n - 1], n)
      BY <1>3
    <3>2. \A n \in 0..N : n = 0 \/ n \in 1..N
      BY <1>0
    <3> QED
      BY ONLY <3>1, <3>2, Zenon
  <2>2. Body(r) = [n \in 0..N |-> r[n]]
    BY <2>1
  <2>3. r = [n \in 0..N |-> r[n]]
    BY <1>3
  <2> HIDE DEF Body
  <2> QED
    BY ONLY <2>2, <2>3
<1>5. after = Body(after)
  <2> HIDE DEF Body
  <2> QED
    BY <1>4
<1> HIDE DEF after
<1>6. \A n \in 0..N : after[n] \in G[n]
  <2> DEFINE Bad == {n \in 0..N : after[n] \notin G[n]}
  <2>1. CASE Bad # {}
    <3>1. PICK n \in Bad : \A m \in Bad : n <= m
      <4>1. Bad \subseteq Nat
        BY <1>0
      <4> HIDE DEF Bad
      <4> QED
        BY <2>1, <4>1, LeastNumber
    <3>2. n \in 0..N /\ after[n] \notin G[n]
      BY <3>1
    <3>3. n # 0
      BY <1>5, <3>2
    <3>4. n - 1 \in 0..N /\ after[n - 1] \in G[n - 1]
      BY <1>0, <3>1, <3>2, <3>3
    <3>5. after[n] = Step(after[n - 1], n) /\ n \in 1..N
      BY <1>0, <1>5, <3>2, <3>3
    <3> QED
      BY <1>0, <3>2, <3>4, <3>5
  <2> QED
    BY <2>1
<1> QED
  BY <1>0, <1>1, <1>6 DEF N

\* In particular what each of them keeps, all keep.
LEMMA FramesKeep ==
    ASSUME NEW G, NEW u \in G, NEW q, Len(q) \in Nat,
           \A v \in G : \A i \in 1..Len(q) : ApplyFrame(v, q[i].frame) \in G
    PROVE  ApplyFrames(u, q) \in G
<1> DEFINE H == [i \in 0..Len(q) |-> G]
<1>1. /\ u \in H[0] /\ H[Len(q)] = G
      /\ \A i \in 1..Len(q) : \A v \in H[i - 1] : ApplyFrame(v, q[i].frame) \in H[i]
  <2>1. \A i \in 0..Len(q) : H[i] = G
    OBVIOUS
  <2>2. 0 \in 0..Len(q) /\ Len(q) \in 0..Len(q) /\ \A i \in 1..Len(q) : i \in 0..Len(q) /\ i - 1 \in 0..Len(q)
    OBVIOUS
  <2> HIDE DEF H
  <2> QED
    BY <2>1, <2>2
<1> HIDE DEF H
<1> QED
  BY <1>1, FramesRun

LEMMA PictureFields ==
    ASSUME NEW u, Picture(u)
    PROVE  /\ u.known \subseteq Servers /\ u.status \in [Servers -> Status]
           /\ u.unread \in [Channels -> ChannelRecord] /\ u.dm \in [Dms -> ThreadRecord]
           /\ u.revs \in [Dms -> {Absent} \cup Nat]
           /\ u.rejected \subseteq Channels /\ u.versions \in [Channels -> Nat]
           /\ u.view \in Views /\ u.server \in Servers \cup {None}
           /\ u.buf \in Buffers \cup {None} /\ u.wanted \in Buffers \cup {None}
           /\ u.skipped \subseteq Channels
           /\ Shown(u) \subseteq Buffers
           /\ \A b \in Shown(u) : Owner[b] \in u.known
BY DEF Picture, OwnersKnown, Ui, Shown, Buffers

LEMMA SelectKeeps ==
    ASSUME NEW u, Picture(u), NEW view \in Views, NEW s \in Servers \cup {None},
           NEW b \in Buffers \cup {None}
    PROVE  /\ Picture(Select(u, view, s, b)) /\ Shown(Select(u, view, s, b)) = Shown(u)
           /\ Select(u, view, s, b).known = u.known /\ Select(u, view, s, b).revs = u.revs
           /\ Select(u, view, s, b).view = view /\ Select(u, view, s, b).server = s
           /\ Select(u, view, s, b).buf = b /\ Select(u, view, s, b).wanted = u.wanted
<1>1. u \in Ui
  BY DEF Picture
<1>2. Select(u, view, s, b) \in Ui
  BY <1>1 DEF Select, Ui
<1>3. /\ Shown(Select(u, view, s, b)) = Shown(u)
      /\ Select(u, view, s, b).known = u.known /\ Select(u, view, s, b).revs = u.revs
      /\ Select(u, view, s, b).view = view /\ Select(u, view, s, b).server = s
      /\ Select(u, view, s, b).buf = b /\ Select(u, view, s, b).wanted = u.wanted
  BY <1>1 DEF Select, Ui, Shown
<1> QED
  BY <1>2, <1>3 DEF Picture, OwnersKnown

\* What is selected follows if it is on show.
LEMMA SelectFollows ==
    ASSUME NEW u, Picture(u), NEW view \in Views, NEW s \in Servers \cup {None},
           NEW b \in Buffers \cup {None},
           view = "chat" => b \in Shown(u), view = "directory" => s \in u.known
    PROVE  Follows(u, Select(u, view, s, b)) /\ Selection(Select(u, view, s, b))
<1>1. \A d \in Dms : u.revs[d] \in Int
  BY Revisions
<1>2. Selection(Select(u, view, s, b))
  BY SelectKeeps DEF Selection
<1> QED
  BY <1>1, <1>2, SelectKeeps DEF Follows

LEMMA SelectBufferFollows ==
    ASSUME NEW u, Picture(u), NEW b
    PROVE  Follows(u, SelectBuffer(u, b))
<1>1. CASE b \notin Shown(u)
  BY <1>1, FollowsItself DEF SelectBuffer
<1>2. CASE b \in Shown(u)
  <2> DEFINE v == Select(u, "chat", Owner[b], b)
             w == [v EXCEPT !.wanted = IF @ = b THEN None ELSE @]
  <2>1. SelectBuffer(u, b) = w
    BY <1>2 DEF SelectBuffer
  <2>2. b \in Buffers /\ Owner[b] \in Servers
    BY <1>2, PictureFields, ClientAssumption DEF ClientAssumption
  <2>3. Follows(u, v)
    BY <1>2, <2>2, SelectFollows DEF Views
  <2> HIDE DEF v
  <2>4. Picture(v)
    BY <2>3 DEF Follows
  <2>5. w \in Ui /\ Shown(w) = Shown(v) /\ w.known = v.known /\ w.revs = v.revs
        /\ w.view = v.view /\ w.buf = v.buf /\ w.server = v.server
    BY <2>4 DEF Picture, Ui, Shown
  <2> HIDE DEF w
  <2>6. Follows(v, w)
    BY <2>4, <2>5, Revisions DEF Follows, Picture, OwnersKnown, Selection
  <2> QED
    BY <2>1, <2>3, <2>6, FollowsOn
<1> QED
  BY <1>1, <1>2

LEMMA SelectPendingFollows ==
    ASSUME NEW u, Picture(u)
    PROVE  Follows(u, SelectPendingBuffer(u))
BY FollowsItself, SelectBufferFollows DEF SelectPendingBuffer

LEMMA DropKeeps ==
    ASSUME NEW u, Picture(u), NEW gone
    PROVE  /\ Drop(u, gone) \in Ui /\ Picture(Drop(u, gone))
           /\ Shown(Drop(u, gone)) = Shown(u) \ gone
           /\ Drop(u, gone).known = u.known /\ Drop(u, gone).revs = u.revs
           /\ Drop(u, gone).view = u.view /\ Drop(u, gone).server = u.server
           /\ Drop(u, gone).buf = u.buf
<1>1. u \in Ui
  BY DEF Picture
<1>2. Absent \in ChannelRecord /\ NoDm \in ThreadRecord /\ NoDm.rev = Absent
  BY DEF ChannelRecord, NoDm, ThreadRecord
<1>3. Drop(u, gone) \in Ui
  BY <1>1, <1>2 DEF Drop, Ui
<1>4. /\ Drop(u, gone).known = u.known /\ Drop(u, gone).revs = u.revs
      /\ Drop(u, gone).view = u.view /\ Drop(u, gone).server = u.server
      /\ Drop(u, gone).buf = u.buf
      /\ Drop(u, gone).unread = [c \in Channels |-> IF c \in gone THEN Absent ELSE u.unread[c]]
      /\ Drop(u, gone).dm = [d \in Dms |-> IF d \in gone THEN NoDm ELSE u.dm[d]]
  BY <1>1 DEF Drop, Ui
<1>5. Shown(Drop(u, gone)) = Shown(u) \ gone
  BY <1>2, <1>4, ClientAssumption DEF Shown, ClientAssumption
<1> QED
  BY <1>3, <1>4, <1>5 DEF Picture, OwnersKnown

(* Joins.                                                                  *)

LEMMA UpsertJoinedKeeps ==
    ASSUME NEW u, Picture(u), NEW c \in Channels, NEW status \in Status, NEW update
    PROVE  LET v == UpsertJoinedChannel(u, c, status, update)
           IN /\ v \in Ui /\ Picture(v) /\ Follows(u, v)
              /\ c \in Shown(v) /\ Owner[c] \in v.known /\ v.versions = u.versions
<1> DEFINE v == UpsertJoinedChannel(u, c, status, update)
           a == IF update \/ Owner[c] \notin u.known THEN status ELSE u.status[Owner[c]]
           n == IF u.unread[c] = Absent THEN 0 ELSE u.unread[c]
<1>1. u \in Ui /\ Owner[c] \in Servers /\ c \notin Dms
  BY ClientAssumption DEF Picture, ClientAssumption, Buffers
<1>2. a \in Status /\ n \in ChannelRecord /\ n # Absent
  BY <1>1 DEF Ui, ChannelRecord, Absent
<1>3. v = [[[u EXCEPT !.known = u.known \cup {Owner[c]}] EXCEPT !.status = [u.status EXCEPT ![Owner[c]] = a]]
             EXCEPT !.unread = [u.unread EXCEPT ![c] = n]]
  BY <1>1 DEF UpsertJoinedChannel, Ui
<1> HIDE DEF v, a, n
<1>4. /\ v \in Ui /\ v.known = u.known \cup {Owner[c]} /\ v.dm = u.dm /\ v.revs = u.revs
      /\ v.unread = [u.unread EXCEPT ![c] = n] /\ v.view = u.view /\ v.buf = u.buf
      /\ v.server = u.server /\ v.versions = u.versions
  BY <1>1, <1>2, <1>3 DEF Ui
<1>5. Shown(v) = Shown(u) \cup {c}
  BY <1>1, <1>2, <1>4 DEF Shown, Ui
<1>6. Picture(v)
  BY <1>4, <1>5 DEF Picture, OwnersKnown
<1>7. Follows(u, v)
  BY <1>4, <1>5, <1>6, Revisions DEF Follows, Selection
<1> QED
  BY <1>4, <1>5, <1>6, <1>7 DEF v

LEMMA ApplyJoinedFollows ==
    ASSUME NEW u, Picture(u), NEW c \in Channels, NEW status \in Status, NEW update
    PROVE  Follows(u, ApplyJoined(u, c, status, update))
<1> DEFINE v == UpsertJoinedChannel(u, c, status, update)
           w == [v EXCEPT !.rejected = v.rejected \ {c}]
<1>1. v \in Ui /\ Picture(v) /\ Follows(u, v) /\ c \in Shown(v) /\ Owner[c] \in v.known
  BY UpsertJoinedKeeps
<1>2. ApplyJoined(u, c, status, update) = Select(w, "chat", Owner[c], c)
  BY DEF ApplyJoined
<1> HIDE DEF v
<1>3. /\ w \in Ui /\ Shown(w) = Shown(v) /\ w.known = v.known /\ w.revs = v.revs
      /\ w.view = v.view /\ w.buf = v.buf /\ w.server = v.server
  BY <1>1 DEF Ui, Shown
<1> HIDE DEF w
<1>4. Follows(v, w)
  BY <1>1, <1>3, Revisions DEF Follows, Picture, OwnersKnown, Selection
<1>5. Picture(w)
  BY <1>4 DEF Follows
<1>6. Owner[c] \in Servers /\ c \in Buffers
  BY ClientAssumption DEF ClientAssumption, Buffers
<1>7. Follows(w, Select(w, "chat", Owner[c], c))
  BY <1>1, <1>3, <1>5, <1>6, SelectFollows DEF Views
<1> QED
  BY <1>1, <1>2, <1>4, <1>7, FollowsOn

LEMMA ApplyAuthoritativeJoinedFollows ==
    ASSUME NEW u, Picture(u), NEW f \in JoinedFrame
    PROVE  Follows(u, ApplyAuthoritativeJoined(u, f))
<1> DEFINE v == ApplyJoined(u, f.buf, f.status, FALSE)
<1>1. f.buf \in Channels /\ f.status \in Status
  BY DEF JoinedFrame
<1>2. Follows(u, v)
  BY <1>1, ApplyJoinedFollows
<1> HIDE DEF v
<1>3. Follows(v, SelectPendingBuffer(v))
  BY <1>2, SelectPendingFollows DEF Follows
<1> QED
  BY <1>2, <1>3, FollowsOn DEF ApplyAuthoritativeJoined, v

(* Removals.                                                               *)

LEMMA DropFollows ==
    ASSUME NEW u, Picture(u), NEW gone, u.buf \notin gone
    PROVE  Follows(u, Drop(u, gone))
BY DropKeeps, Revisions DEF Follows, Selection

LEMMA RemoveServerFollows ==
    ASSUME NEW u, Picture(u), NEW s \in Servers
    PROVE  Follows(u, RemoveServer(u, s))
<1> DEFINE w == Drop(u, OnServer(s))
           v == [w EXCEPT !.known = w.known \ {s}]
           next == FirstOf(v.known)
           nextBuffer == FirstOf(ShownOn(v, next))
<1>1. CASE s \notin u.known
  BY <1>1, FollowsItself DEF RemoveServer
<1>2. CASE s \in u.known
  <2>1. /\ w \in Ui /\ Shown(w) = Shown(u) \ OnServer(s) /\ w.known = u.known
        /\ w.revs = u.revs /\ w.view = u.view /\ w.server = u.server /\ w.buf = u.buf
    BY DropKeeps
  <2> HIDE DEF w
  <2>2. /\ v \in Ui /\ Shown(v) = Shown(u) \ OnServer(s) /\ v.known = u.known \ {s}
        /\ v.revs = u.revs /\ v.view = u.view /\ v.server = u.server /\ v.buf = u.buf
    BY <2>1 DEF Ui, Shown
  <2>3. RemoveServer(u, s) =
          CASE s \notin u.known -> u
            [] s \in u.known /\ u.server # s /\ u.buf \notin ShownOn(u, s) -> v
            [] OTHER -> IF next = None THEN [v EXCEPT !.view = "discover"]
                        ELSE IF nextBuffer # None THEN Select(v, "chat", next, nextBuffer)
                        ELSE Select(v, "server", next, v.buf)
    BY DEF RemoveServer, w
  <2> HIDE DEF v
  <2>4. Picture(v)
    <3>1. SUFFICES ASSUME NEW b \in Shown(v)
                   PROVE  Owner[b] \in v.known
      BY <2>2 DEF Picture, OwnersKnown
    <3>2. b \in Shown(u) /\ b \notin OnServer(s) /\ b \in Buffers
      BY <2>2, PictureFields
    <3>3. Owner[b] \in u.known /\ Owner[b] # s
      BY <3>2, PictureFields DEF OnServer
    <3> QED
      BY <2>2, <3>3
  <2>5. \A d \in Dms : v.revs[d] >= u.revs[d]
    BY <2>2, Revisions
  <2>6. CASE u.server # s /\ u.buf \notin ShownOn(u, s)
    <3>1. Selection(u) => Selection(v)
      BY <2>2, <2>6, PictureFields DEF Selection, ShownOn
    <3>2. RemoveServer(u, s) = v
      BY <1>2, <2>3, <2>6
    <3> QED
      BY <2>4, <2>5, <3>1, <3>2 DEF Follows
  <2>7. CASE ~(u.server # s /\ u.buf \notin ShownOn(u, s)) /\ next = None
    <3> DEFINE x == [v EXCEPT !.view = "discover"]
    <3>1. RemoveServer(u, s) = x
      BY <1>2, <2>3, <2>7
    <3>2. x \in Ui /\ Shown(x) = Shown(v) /\ x.known = v.known /\ x.revs = v.revs /\ x.view = "discover"
      BY <2>2 DEF Ui, Shown, Views
    <3> HIDE DEF x
    <3>3. Picture(x) /\ Selection(x)
      BY <2>4, <3>2 DEF Picture, OwnersKnown, Selection
    <3> QED
      BY <2>5, <3>1, <3>2, <3>3 DEF Follows
  <2>8. CASE ~(u.server # s /\ u.buf \notin ShownOn(u, s)) /\ next # None
    <3>1. next \in v.known
      <4>1. v.known # {}
        BY <2>8 DEF FirstOf
      <4>2. v.known \subseteq Servers \cup Buffers
        BY <2>2 DEF Ui
      <4> QED
        BY <4>1, <4>2, FirstOfIs
    <3>2. nextBuffer # None => nextBuffer \in Shown(v)
      <4>1. ShownOn(v, next) \subseteq Shown(v) /\ Shown(v) \subseteq Buffers
        BY <2>4, PictureFields DEF ShownOn
      <4> QED
        BY <4>1, FirstOfIs DEF FirstOf
    <3>3. next \in Servers /\ v.buf \in Buffers \cup {None} /\ Shown(v) \subseteq Buffers
      BY <2>4, <3>1, PictureFields
    <3> HIDE DEF next, nextBuffer
    <3>4. CASE nextBuffer # None
      <4>1. RemoveServer(u, s) = Select(v, "chat", next, nextBuffer)
        BY <1>2, <2>3, <2>8, <3>4
      <4>2. nextBuffer \in Shown(v) /\ nextBuffer \in Buffers
        BY <3>2, <3>3, <3>4
      <4>3. Follows(v, Select(v, "chat", next, nextBuffer)) /\ Selection(Select(v, "chat", next, nextBuffer))
        BY <2>4, <3>3, <4>2, SelectFollows DEF Views
      <4>4. Select(v, "chat", next, nextBuffer).revs = v.revs
        BY <2>4, <3>3, <4>2, SelectKeeps DEF Views
      <4> QED
        BY <2>5, <4>1, <4>3, <4>4 DEF Follows
    <3>5. CASE nextBuffer = None
      <4>1. RemoveServer(u, s) = Select(v, "server", next, v.buf)
        BY <1>2, <2>3, <2>8, <3>5
      <4>3. Follows(v, Select(v, "server", next, v.buf)) /\ Selection(Select(v, "server", next, v.buf))
        BY <2>4, <3>3, SelectFollows DEF Views
      <4>4. Select(v, "server", next, v.buf).revs = v.revs
        BY <2>4, <3>3, SelectKeeps DEF Views
      <4> QED
        BY <2>5, <4>1, <4>3, <4>4 DEF Follows
    <3> QED
      BY <3>4, <3>5
  <2> QED
    BY <2>6, <2>7, <2>8
<1> QED
  BY <1>1, <1>2

LEMMA ApplyBufferLeftFollows ==
    ASSUME NEW u, Picture(u), NEW f \in LeftFrame
    PROVE  Follows(u, ApplyBufferLeft(u, f))
<1>1. f.buf \in Channels \cup Servers
  BY DEF LeftFrame
<1>2. CASE f.buf \in Servers
  BY <1>2, RemoveServerFollows DEF ApplyBufferLeft
<1>3. CASE f.buf \notin Servers
  <2> DEFINE w == Drop(u, {f.buf})
             n == w.versions[f.buf] + 1
             v == [[w EXCEPT !.rejected = w.rejected \cup {f.buf}] EXCEPT !.versions = [w.versions EXCEPT ![f.buf] = n]]
  <2>1. /\ w \in Ui /\ Picture(w) /\ Shown(w) = Shown(u) \ {f.buf} /\ w.revs = u.revs
        /\ w.view = u.view /\ w.server = u.server /\ w.buf = u.buf /\ w.known = u.known
    BY DropKeeps
  <2>2. ApplyBufferLeft(u, f) = IF u.buf = f.buf THEN Select(v, "server", Owner[f.buf], None) ELSE v
    BY <1>3 DEF ApplyBufferLeft
  <2> HIDE DEF w
  <2>3. n \in Nat
    BY <1>1, <1>3, <2>1 DEF Ui
  <2> HIDE DEF n
  <2>4. /\ v \in Ui /\ Shown(v) = Shown(w) /\ v.revs = w.revs /\ v.known = w.known
        /\ v.view = w.view /\ v.server = w.server /\ v.buf = w.buf
    BY <1>1, <1>3, <2>1, <2>3 DEF Ui, Shown
  <2> HIDE DEF v
  <2>5. Picture(v)
    BY <2>1, <2>4 DEF Picture, OwnersKnown
  <2>6. \A d \in Dms : v.revs[d] >= u.revs[d]
    BY <2>1, <2>4, Revisions
  <2>7. CASE u.buf = f.buf
    <3>1. Owner[f.buf] \in Servers
      BY <1>1, <1>3, ClientAssumption DEF ClientAssumption, Buffers
    <3>2. /\ Follows(v, Select(v, "server", Owner[f.buf], None))
          /\ Selection(Select(v, "server", Owner[f.buf], None))
      BY <2>5, <3>1, SelectFollows DEF Views
    <3>3. Select(v, "server", Owner[f.buf], None).revs = v.revs
      BY <2>5, <3>1, SelectKeeps DEF Views
    <3> QED
      BY <2>2, <2>6, <2>7, <3>2, <3>3 DEF Follows
  <2>8. CASE u.buf # f.buf
    <3>1. Selection(u) => Selection(v)
      BY <2>1, <2>4, <2>8 DEF Selection
    <3> QED
      BY <2>2, <2>5, <2>6, <2>8, <3>1 DEF Follows
  <2> QED
    BY <2>7, <2>8
<1> QED
  BY <1>2, <1>3

(* Counts, statuses and threads.                                           *)

LEMMA TakeUnreadFollows ==
    ASSUME NEW u, Picture(u), NEW f \in UnreadFrame, f.buf \in Shown(u)
    PROVE  Follows(u, TakeUnread(u, f))
<1> DEFINE v == TakeUnread(u, f)
<1>1. u \in Ui /\ f.buf \in Channels /\ f.unread \in ChannelRecord /\ f.unread # Absent
  BY DEF Picture, UnreadFrame, ChannelRecord, Absent
<1>2. v = [[u EXCEPT !.unread = [u.unread EXCEPT ![f.buf] = f.unread]] EXCEPT !.skipped = u.skipped \ {f.buf}]
  BY <1>1 DEF TakeUnread, Ui
<1> HIDE DEF v
<1>3. /\ v \in Ui /\ v.known = u.known /\ v.revs = u.revs /\ v.view = u.view /\ v.dm = u.dm
      /\ v.buf = u.buf /\ v.server = u.server /\ v.unread = [u.unread EXCEPT ![f.buf] = f.unread]
  BY <1>1, <1>2 DEF Ui
<1>4. f.buf \notin Dms
  BY <1>1, ClientAssumption DEF ClientAssumption
<1>5. Shown(v) = Shown(u)
  BY <1>1, <1>3, <1>4 DEF Shown, Ui
<1> QED
  BY <1>3, <1>5, Revisions DEF Follows, Picture, OwnersKnown, Selection, v

LEMMA ApplyBufferReadFollows ==
    ASSUME NEW u, Picture(u), NEW f \in UnreadFrame
    PROVE  Follows(u, ApplyBufferRead(u, f))
BY TakeUnreadFollows, FollowsItself DEF ApplyBufferRead

LEMMA ApplyChannelUnreadFollows ==
    ASSUME NEW u, Picture(u), NEW f \in UnreadFrame
    PROVE  Follows(u, ApplyChannelUnread(u, f))
<1> DEFINE v == [u EXCEPT !.skipped = u.skipped \cup {f.buf}]
<1>1. u \in Ui /\ f.buf \in Channels
  BY DEF Picture, UnreadFrame
<1>2. /\ v \in Ui /\ v.known = u.known /\ v.revs = u.revs /\ v.view = u.view
      /\ v.buf = u.buf /\ v.server = u.server /\ Shown(v) = Shown(u)
  BY <1>1 DEF Ui, Shown
<1>3. ApplyChannelUnread(u, f) \in {u, v, TakeUnread(u, f)}
      /\ (f.buf \notin Shown(u) => ApplyChannelUnread(u, f) = u)
  BY DEF ApplyChannelUnread
<1> HIDE DEF v
<1>4. Follows(u, v)
  BY <1>2, Revisions DEF Follows, Picture, OwnersKnown, Selection
<1> QED
  BY <1>3, <1>4, FollowsItself, TakeUnreadFollows

LEMMA ApplyServerStatusFollows ==
    ASSUME NEW u, Picture(u), NEW f \in StatusFrame
    PROVE  Follows(u, ApplyServerStatus(u, f))
<1> DEFINE v == [u EXCEPT !.status = [u.status EXCEPT ![f.buf] = f.status]]
<1>1. u \in Ui /\ f.buf \in Servers /\ f.status \in Status
  BY DEF Picture, StatusFrame
<1>2. /\ v \in Ui /\ v.known = u.known /\ v.revs = u.revs /\ v.view = u.view
      /\ v.buf = u.buf /\ v.server = u.server /\ Shown(v) = Shown(u)
  BY <1>1 DEF Ui, Shown
<1>3. ApplyServerStatus(u, f) = IF f.buf \in u.known THEN v ELSE u
  BY <1>1 DEF ApplyServerStatus, Ui
<1> HIDE DEF v
<1>4. Follows(u, v)
  BY <1>2, Revisions DEF Follows, Picture, OwnersKnown, Selection
<1> QED
  BY <1>3, <1>4, FollowsItself

LEMMA UpsertDirectKeeps ==
    ASSUME NEW u, Picture(u), NEW f \in DirectFrame, f.rev > u.revs[f.buf]
    PROVE  /\ Follows(u, UpsertDirectMessage(u, f))
           /\ f.buf \in Shown(UpsertDirectMessage(u, f))
           /\ Owner[f.buf] \in UpsertDirectMessage(u, f).known
<1> DEFINE v == UpsertDirectMessage(u, f)
           a == IF Owner[f.buf] \in u.known THEN u.status[Owner[f.buf]] ELSE f.status
           e == [rev |-> f.rev, blocked |-> f.blocked]
<1>1. u \in Ui /\ f.buf \in Dms /\ f.status \in Status /\ f.rev \in Nat /\ f.blocked \in BOOLEAN
  BY DEF Picture, DirectFrame
<1>2. f.buf \notin Channels /\ Owner[f.buf] \in Servers
  BY <1>1, ClientAssumption DEF ClientAssumption, Buffers
<1>3. a \in Status /\ e \in ThreadRecord /\ e.rev = f.rev /\ f.rev # Absent
  BY <1>1, <1>2 DEF Ui, ThreadRecord, Absent
<1>4. v = [[[[u EXCEPT !.known = u.known \cup {Owner[f.buf]}]
                EXCEPT !.status = [u.status EXCEPT ![Owner[f.buf]] = a]]
                EXCEPT !.dm = [u.dm EXCEPT ![f.buf] = e]]
                EXCEPT !.revs = [u.revs EXCEPT ![f.buf] = f.rev]]
  BY <1>1 DEF UpsertDirectMessage, Ui
<1> HIDE DEF v, a, e
<1>5. /\ v \in Ui /\ v.known = u.known \cup {Owner[f.buf]} /\ v.unread = u.unread /\ v.view = u.view
      /\ v.buf = u.buf /\ v.server = u.server /\ v.dm = [u.dm EXCEPT ![f.buf] = e]
      /\ v.revs = [u.revs EXCEPT ![f.buf] = f.rev]
  BY <1>1, <1>2, <1>3, <1>4 DEF Ui
<1>6. Shown(v) = Shown(u) \cup {f.buf}
  BY <1>1, <1>2, <1>3, <1>5 DEF Shown, Ui
<1>7. Picture(v)
  BY <1>5, <1>6 DEF Picture, OwnersKnown
<1>8. \A d \in Dms : v.revs[d] >= u.revs[d]
  <2> TAKE d \in Dms
  <2>1. u.revs[d] \in Int /\ f.rev \in Int /\ u.revs \in [Dms -> {Absent} \cup Nat]
    BY <1>1, Revisions DEF Ui
  <2> QED
    BY <1>5, <2>1
<1>9. Selection(u) => Selection(v)
  BY <1>5, <1>6 DEF Selection
<1> QED
  BY <1>5, <1>6, <1>7, <1>8, <1>9 DEF Follows, v

LEMMA ApplyTombstoneFollows ==
    ASSUME NEW u, Picture(u), NEW f \in DirectFrame, f.rev > u.revs[f.buf]
    PROVE  Follows(u, ApplyTombstone(u, f))
<1> DEFINE w == Drop(u, {f.buf})
           v == [w EXCEPT !.revs = [w.revs EXCEPT ![f.buf] = f.rev]]
           next == FirstOf(ShownOn(v, Owner[f.buf]))
<1>1. f.buf \in Dms /\ f.rev \in Nat /\ Owner[f.buf] \in Servers
  BY ClientAssumption DEF DirectFrame, ClientAssumption, Buffers
<1>2. /\ w \in Ui /\ Picture(w) /\ Shown(w) = Shown(u) \ {f.buf} /\ w.revs = u.revs
      /\ w.view = u.view /\ w.server = u.server /\ w.buf = u.buf /\ w.known = u.known
  BY DropKeeps
<1>3. ApplyTombstone(u, f) = IF u.buf # f.buf THEN v
          ELSE Select(v, IF next = None THEN "server" ELSE "chat", Owner[f.buf], next)
  BY DEF ApplyTombstone
<1> HIDE DEF w
<1>4. /\ v \in Ui /\ Shown(v) = Shown(w) /\ v.revs = [w.revs EXCEPT ![f.buf] = f.rev]
      /\ v.known = w.known /\ v.view = w.view /\ v.server = w.server /\ v.buf = w.buf
  BY <1>1, <1>2 DEF Ui, Shown
<1> HIDE DEF v
<1>5. Picture(v)
  BY <1>2, <1>4 DEF Picture, OwnersKnown
<1>6. \A d \in Dms : v.revs[d] >= u.revs[d]
  <2> TAKE d \in Dms
  <2>1. u.revs[d] \in Int /\ f.rev \in Int /\ u.revs \in [Dms -> {Absent} \cup Nat]
    BY <1>1, Revisions DEF Picture, Ui
  <2> QED
    BY <1>2, <1>4, <2>1
<1>7. next # None => next \in Shown(v)
  <2>1. ShownOn(v, Owner[f.buf]) \subseteq Shown(v) /\ Shown(v) \subseteq Buffers
    BY <1>5, PictureFields DEF ShownOn
  <2> QED
    BY <2>1, FirstOfIs DEF FirstOf
<1>8. next \in Buffers \cup {None}
  BY <1>5, <1>7, PictureFields
<1> HIDE DEF next
<1>9. CASE u.buf # f.buf
  <2>1. Selection(u) => Selection(v)
    BY <1>2, <1>4, <1>9 DEF Selection
  <2> QED
    BY <1>3, <1>5, <1>6, <1>9, <2>1 DEF Follows
<1>10. CASE u.buf = f.buf
  <2> DEFINE view == IF next = None THEN "server" ELSE "chat"
  <2>1. view \in Views /\ (view = "chat" => next \in Shown(v)) /\ view # "directory"
    BY <1>7 DEF Views
  <2> HIDE DEF view
  <2>2. Follows(v, Select(v, view, Owner[f.buf], next)) /\ Selection(Select(v, view, Owner[f.buf], next))
    BY <1>1, <1>5, <1>8, <2>1, SelectFollows
  <2>3. Select(v, view, Owner[f.buf], next).revs = v.revs
    BY <1>1, <1>5, <1>8, <2>1, SelectKeeps
  <2> QED
    BY <1>3, <1>6, <1>10, <2>2, <2>3 DEF Follows, view
<1> QED
  BY <1>9, <1>10

LEMMA ApplyDirectMessageFollows ==
    ASSUME NEW u, Picture(u), NEW f \in DirectFrame
    PROVE  Follows(u, ApplyDirectMessage(u, f))
BY UpsertDirectKeeps, ApplyTombstoneFollows, FollowsItself
   DEF ApplyDirectMessage, AcceptDirectMessageRevision

\* A frame of a type is one of that type's records.
LEMMA FrameTypes ==
    ASSUME NEW f \in Frame
    PROVE  /\ f.type = "buffer:joined" => f \in JoinedFrame
           /\ f.type = "buffer:left" => f \in LeftFrame
           /\ f.type \in {"buffer:read", "buffer:message"} => f \in UnreadFrame
           /\ f.type = "server:status" => f \in StatusFrame
           /\ f.type = "direct_message" => f \in DirectFrame
           /\ f.type \in {"buffer:joined", "buffer:left", "buffer:read", "buffer:message",
                          "server:status", "direct_message"}
BY DEF Frame, JoinedFrame, LeftFrame, UnreadFrame, StatusFrame, DirectFrame

LEMMA ApplyFrameFollows ==
    ASSUME NEW u, Picture(u), NEW f \in Frame
    PROVE  Follows(u, ApplyFrame(u, f))
<1>1. CASE f.type = "buffer:joined"
  BY <1>1, FrameTypes, ApplyAuthoritativeJoinedFollows DEF ApplyFrame
<1>2. CASE f.type = "buffer:left"
  BY <1>2, FrameTypes, ApplyBufferLeftFollows DEF ApplyFrame
<1>3. CASE f.type = "buffer:read"
  BY <1>3, FrameTypes, ApplyBufferReadFollows DEF ApplyFrame
<1>4. CASE f.type = "buffer:message"
  BY <1>4, FrameTypes, ApplyChannelUnreadFollows DEF ApplyFrame
<1>5. CASE f.type = "server:status"
  BY <1>5, FrameTypes, ApplyServerStatusFollows DEF ApplyFrame
<1>6. CASE f.type = "direct_message"
  <2> DEFINE v == ApplyDirectMessage(u, f)
  <2>1. Follows(u, v)
    BY <1>6, FrameTypes, ApplyDirectMessageFollows
  <2>2. ApplyFrame(u, f) \in {v, SelectPendingBuffer(v)}
    BY <1>6 DEF ApplyFrame
  <2> HIDE DEF v
  <2>3. Picture(v) /\ Follows(v, SelectPendingBuffer(v))
    BY <2>1, SelectPendingFollows DEF Follows
  <2> QED
    BY <2>1, <2>2, <2>3, FollowsOn
<1> QED
  BY <1>1, <1>2, <1>3, <1>4, <1>5, <1>6, FrameTypes

LEMMA Elements ==
    ASSUME NEW T, NEW s \in Seq(T)
    PROVE  DOMAIN s = 1..Len(s) /\ Len(s) \in Nat /\ \A i \in 1..Len(s) : s[i] \in T
OBVIOUS

LEMMA ApplyFramesFollows ==
    ASSUME NEW u, Picture(u), NEW held \in Seq([frame : Frame, session : Nat])
    PROVE  Follows(u, ApplyFrames(u, held))
<1> DEFINE G == {v \in Ui : Follows(u, v)}
<1>1. u \in G
  BY FollowsItself DEF Picture
<1>2. \A v \in G : \A i \in 1..Len(held) : ApplyFrame(v, held[i].frame) \in G
  <2> TAKE v \in G
  <2> TAKE i \in 1..Len(held)
  <2>0. held[i] \in [frame : Frame, session : Nat]
    BY Elements
  <2>1. held[i].frame \in Frame /\ Picture(v) /\ Follows(u, v)
    BY <2>0 DEF Follows
  <2>2. Follows(v, ApplyFrame(v, held[i].frame))
    BY <2>1, ApplyFrameFollows
  <2>3. Follows(u, ApplyFrame(v, held[i].frame))
    BY <2>1, <2>2, FollowsOn
  <2> QED
    BY <2>2, <2>3 DEF Follows, Picture
<1>3. ApplyFrames(u, held) \in G
  <2> HIDE DEF G
  <2> QED
    BY <1>1, <1>2, FramesKeep
<1> QED
  BY <1>3

(* Snapshots.                                                              *)

LEMMA InstallKeeps ==
    ASSUME NEW u, Picture(u), NEW snap \in Truth
    PROVE  /\ Picture(InstallSnapshot(u, snap))
           /\ \A d \in Dms : InstallSnapshot(u, snap).revs[d] >= u.revs[d]
<1> DEFINE v == InstallSnapshot(u, snap)
           st == [s \in Servers |-> IF s \in snap.live THEN snap.status[s] ELSE u.status[s]]
<1>1. u \in Ui
  BY DEF Picture
<1>2. /\ snap.live \subseteq Servers /\ snap.status \in [Servers -> Status]
      /\ snap.unread \in [Channels -> 0..1]
      /\ snap.dm \in [Dms -> [rev : Nat, open : BOOLEAN, blocked : BOOLEAN]]
  BY DEF Truth
<1>3. st \in [Servers -> Status]
  BY <1>1, <1>2 DEF Ui
<1>4. SnapshotUnread(snap) \in [Channels -> ChannelRecord]
  BY <1>2 DEF SnapshotUnread, ChannelRecord
<1>5. SnapshotDms(snap) \in [Dms -> ThreadRecord]
  BY <1>2 DEF SnapshotDms, ThreadRecord, NoDm
<1>6. SnapshotRevisions(u, snap) \in [Dms -> {Absent} \cup Nat]
      /\ \A d \in Dms : SnapshotRevisions(u, snap)[d] >= u.revs[d]
  <2>1. \A d \in Dms : /\ snap.dm[d].rev \in Nat /\ u.revs[d] \in {Absent} \cup Nat
                       /\ Larger(u.revs[d], snap.dm[d].rev) \in {Absent} \cup Nat
                       /\ Larger(u.revs[d], snap.dm[d].rev) >= u.revs[d]
                       /\ u.revs[d] >= u.revs[d]
    BY <1>1, <1>2 DEF Ui, Larger, Absent
  <2> QED
    BY <2>1 DEF SnapshotRevisions
<1>7. v = [[[[[[u EXCEPT !.known = snap.live] EXCEPT !.status = st] EXCEPT !.unread = SnapshotUnread(snap)]
               EXCEPT !.dm = SnapshotDms(snap)] EXCEPT !.revs = SnapshotRevisions(u, snap)] EXCEPT !.skipped = {}]
  BY <1>1 DEF InstallSnapshot, Ui
<1> HIDE DEF v, st
<1>8. /\ v \in Ui /\ v.known = snap.live /\ v.unread = SnapshotUnread(snap)
      /\ v.dm = SnapshotDms(snap) /\ v.revs = SnapshotRevisions(u, snap)
  BY <1>1, <1>2, <1>3, <1>4, <1>5, <1>6, <1>7 DEF Ui
<1>9. OwnersKnown(v)
  <2>1. \A c \in Channels : SnapshotUnread(snap)[c] # Absent => Owner[c] \in snap.live
    BY DEF SnapshotUnread
  <2>2. \A d \in Dms : SnapshotDms(snap)[d].rev # Absent => Owner[d] \in snap.live
    BY DEF SnapshotDms, NoDm
  <2> QED
    BY <1>8, <2>1, <2>2 DEF OwnersKnown, Shown
<1> QED
  BY <1>6, <1>8, <1>9 DEF Picture, v

LEMMA SelectAnySelects ==
    ASSUME NEW u, Picture(u), NEW b \in Shown(u) \cup u.known
    PROVE  Follows(u, SelectAny(u, b)) /\ Selection(SelectAny(u, b))
<1>1. CASE b \in Servers
  BY <1>1, SelectFollows DEF SelectAny, Views
<1>2. CASE b \notin Servers
  <2>1. b \in Shown(u) /\ b \in Buffers
    BY <1>2, PictureFields
  <2>2. Owner[b] \in Servers
    BY <2>1, ClientAssumption DEF ClientAssumption
  <2>3. Follows(u, Select(u, "chat", Owner[b], b)) /\ Selection(Select(u, "chat", Owner[b], b))
    BY <2>1, <2>2, SelectFollows DEF Views
  <2> QED
    BY <1>2, <2>3 DEF SelectAny
<1> QED
  BY <1>1, <1>2

LEMMA ActiveBufferIs ==
    ASSUME NEW u, Picture(u), u.known # {}
    PROVE  ActiveBuffer(u) \in Shown(u) \cup u.known
<1>1. u.known \subseteq Servers \cup Buffers /\ Shown(u) \subseteq Servers \cup Buffers
  BY PictureFields
<1>2. FirstOf(u.known) \in u.known
  BY <1>1, FirstOfIs
<1>3. Shown(u) \cap Channels # {} => FirstOf(Shown(u) \cap Channels) \in Shown(u)
  BY <1>1, FirstOfIs
<1> QED
  BY <1>2, <1>3 DEF ActiveBuffer

LEMMA CurrentBufferIs ==
    ASSUME NEW u, Picture(u)
    PROVE  CurrentBuffer(u) \in Servers \cup Buffers \cup {None}
<1>1. u.known \subseteq Servers \cup Buffers /\ Shown(u) \subseteq Servers \cup Buffers
  BY PictureFields
<1>2. \A S \in SUBSET (Servers \cup Buffers) : FirstOf(S) \in Servers \cup Buffers \cup {None}
  BY FirstOfIs DEF FirstOf
<1>3. FirstOf(u.known) \in Servers \cup Buffers \cup {None} /\ FirstOf(Shown(u)) \in Servers \cup Buffers \cup {None}
  BY <1>1, <1>2
<1> QED
  BY <1>1, <1>3 DEF CurrentBuffer

LEMMA ReselectSelects ==
    ASSUME NEW u, Picture(u), NEW selected, NEW preserve \in BOOLEAN
    PROVE  Follows(u, Reselect(u, selected, preserve)) /\ Selection(Reselect(u, selected, preserve))
<1> DEFINE wanted == u.wanted \in Shown(u)
           v == IF wanted THEN [u EXCEPT !.wanted = None] ELSE u
           stay == preserve /\ (u.view = "discover" \/ (u.view = "directory" /\ u.server \in u.known))
           x == IF wanted THEN SelectAny(v, u.wanted)
                ELSE IF preserve /\ Selectable(u, selected) THEN SelectAny(v, selected)
                ELSE IF u.known = {} THEN Select(v, "discover", None, None)
                ELSE IF ActiveBuffer(u) \in Servers
                     THEN [v EXCEPT !.view = "server", !.server = ActiveBuffer(u)]
                ELSE SelectAny(v, ActiveBuffer(u))
<1>1. /\ v \in Ui /\ Shown(v) = Shown(u) /\ v.known = u.known /\ v.revs = u.revs
      /\ v.view = u.view /\ v.buf = u.buf /\ v.server = u.server
  <2>1. u \in Ui
    BY DEF Picture
  <2>2. CASE wanted
    BY <2>1, <2>2 DEF Ui, Shown
  <2>3. CASE ~wanted
    BY <2>1, <2>3
  <2> QED
    BY <2>2, <2>3
<1>2. Reselect(u, selected, preserve) = IF stay THEN v ELSE x
  BY DEF Reselect
<1> DEFINE res == Reselect(u, selected, preserve)
           sel(z) == Follows(v, z) /\ Selection(z)
<1> HIDE DEF v
<1>3. Follows(u, v) /\ Picture(v)
  BY <1>1, Revisions DEF Follows, Picture, OwnersKnown, Selection
<1>4. stay => sel(v)
  BY <1>1, <1>3, FollowsItself DEF Selection
<1>5. sel(x)
  <2>1. CASE wanted
    BY <1>1, <1>3, <2>1, SelectAnySelects
  <2>2. CASE ~wanted /\ preserve /\ Selectable(u, selected)
    <3>1. selected \in Shown(v) \cup v.known
      BY <1>1, <2>2 DEF Selectable
    <3> QED
      BY <1>3, <2>2, <3>1, SelectAnySelects
  <2>3. CASE ~wanted /\ ~(preserve /\ Selectable(u, selected)) /\ u.known = {}
    <3>1. sel(Select(v, "discover", None, None))
      BY <1>3, SelectFollows DEF Views
    <3> QED
      BY <2>3, <3>1
  <2>4. CASE ~wanted /\ ~(preserve /\ Selectable(u, selected)) /\ u.known # {} /\ ActiveBuffer(u) \in Servers
    <3> DEFINE a == ActiveBuffer(u)
               y == [[v EXCEPT !.view = "server"] EXCEPT !.server = a]
    <3>1. x = y
      BY <1>1, <2>4 DEF Ui
    <3> HIDE DEF a
    <3>2. a \in Servers
      BY <2>4 DEF a
    <3>3. /\ y \in Ui /\ Shown(y) = Shown(v) /\ y.known = v.known /\ y.revs = v.revs
          /\ y.view = "server"
      BY <1>1, <3>2 DEF Ui, Shown, Views
    <3> HIDE DEF y
    <3>4. Picture(y) /\ Selection(y)
      BY <1>3, <3>3 DEF Picture, OwnersKnown, Selection
    <3>5. sel(y)
      BY <1>3, <3>3, <3>4, Revisions DEF Follows
    <3> QED
      BY <3>1, <3>5
  <2>5. CASE ~wanted /\ ~(preserve /\ Selectable(u, selected)) /\ u.known # {} /\ ActiveBuffer(u) \notin Servers
    <3>1. ActiveBuffer(u) \in Shown(v) \cup v.known
      BY <1>1, <2>5, ActiveBufferIs
    <3> QED
      BY <1>3, <2>5, <3>1, SelectAnySelects
  <2> QED
    BY <2>1, <2>2, <2>3, <2>4, <2>5
<1> HIDE DEF x, stay
<1>6. sel(res)
  BY <1>2, <1>4, <1>5
<1> QED
  BY <1>3, <1>6, FollowsOn

LEMMA BootstrapSelects ==
    ASSUME NEW u, Picture(u), NEW snap \in Truth, NEW selected, NEW preserve \in BOOLEAN
    PROVE  /\ Follows(u, ApplyBootstrap(u, snap, selected, preserve))
           /\ Selection(ApplyBootstrap(u, snap, selected, preserve))
<1> DEFINE v == InstallSnapshot(u, snap)
           w == Reselect(v, selected, preserve)
<1>1. Picture(v) /\ \A d \in Dms : v.revs[d] >= u.revs[d]
  BY InstallKeeps
<1> HIDE DEF v
<1>2. Follows(v, w) /\ Selection(w)
  BY <1>1, ReselectSelects
<1>3. ApplyBootstrap(u, snap, selected, preserve) = w
  BY DEF ApplyBootstrap, v
<1> HIDE DEF w
<1>4. \A d \in Dms : w.revs[d] >= u.revs[d]
  <2>1. Picture(w)
    BY <1>2 DEF Follows
  <2>2. \A d \in Dms : u.revs[d] \in Int /\ v.revs[d] \in Int /\ w.revs[d] \in Int
    BY <1>1, <2>1, Revisions
  <2> QED
    BY <1>1, <1>2, <2>2 DEF Follows
<1> QED
  BY <1>2, <1>3, <1>4 DEF Follows

-----------------------------------------------------------------------------
(* The server: what an operation leaves and what it says.                  *)

ThreadOps == {"say", "read", "close", "block"}
ChannelOps == {"join", "create", "leave", "mention", "seen"}
ServerOps == {"up", "down", "delete"}
Operations == ThreadOps \cup ChannelOps \cup ServerOps

LEMMA PossibleOn ==
    ASSUME truth \in Truth, NEW op \in Operations, NEW b, Possible(op, b)
    PROVE  /\ op \in ThreadOps => b \in Dms
           /\ op \in ChannelOps => b \in Channels
           /\ op \in ServerOps => b \in Servers
<1>1. truth.live \subseteq Servers /\ truth.joined \subseteq Channels
  BY DEF Truth
<1> QED
  BY <1>1 DEF Possible, Operations, ThreadOps, ChannelOps, ServerOps

LEMMA ChangedTruth ==
    ASSUME truth \in Truth, NEW op \in Operations, NEW b, Possible(op, b)
    PROVE  Changed(op, b) \in Truth
<1>1. /\ truth.live \subseteq Servers /\ truth.dead \subseteq Servers
      /\ truth.status \in [Servers -> Status] /\ truth.joined \subseteq Channels
      /\ truth.unread \in [Channels -> 0..1]
      /\ truth.dm \in [Dms -> [rev : Nat, open : BOOLEAN, blocked : BOOLEAN]]
  BY DEF Truth
<1>2. CASE op \in ChannelOps
  <2>1. b \in Channels /\ Owner[b] \in Servers
    BY <1>2, PossibleOn, ClientAssumption DEF ClientAssumption, Buffers
  <2>2. CASE op = "join"
    <3> DEFINE j == truth.joined \cup {b}
               n == [truth.unread EXCEPT ![b] = 0]
    <3>1. Changed(op, b) = [[truth EXCEPT !.joined = j] EXCEPT !.unread = n]
      BY <2>2 DEF Changed, Truth
    <3>2. j \in SUBSET Channels /\ n \in [Channels -> 0..1]
      BY <1>1, <2>1
    <3> HIDE DEF j, n
    <3> QED
      BY <3>1, <3>2 DEF Truth
  <2>3. CASE op = "create"
    BY <2>1, <2>3 DEF Changed, Truth
  <2>4. CASE op = "leave"
    <3> DEFINE j == truth.joined \ {b}
               n == [truth.unread EXCEPT ![b] = 0]
    <3>1. Changed(op, b) = [[truth EXCEPT !.joined = j] EXCEPT !.unread = n]
      BY <2>4 DEF Changed, Truth
    <3>2. j \in SUBSET Channels /\ n \in [Channels -> 0..1]
      BY <1>1, <2>1
    <3> HIDE DEF j, n
    <3> QED
      BY <3>1, <3>2 DEF Truth
  <2>5. CASE op = "mention"
    BY <2>1, <2>5 DEF Changed, Truth
  <2>6. CASE op = "seen"
    BY <2>1, <2>6 DEF Changed, Truth
  <2> QED
    BY <1>2, <2>2, <2>3, <2>4, <2>5, <2>6 DEF ChannelOps
<1>3. CASE op \in ServerOps
  <2>1. b \in Servers
    BY <1>3, PossibleOn
  <2>2. CASE op = "up"
    BY <2>1, <2>2 DEF Changed, Truth, Status
  <2>3. CASE op = "down"
    BY <2>1, <2>3 DEF Changed, Truth, Status
  <2>4. CASE op = "delete"
    <3> DEFINE n == [c \in Channels |-> IF Owner[c] = b THEN 0 ELSE truth.unread[c]]
               l == truth.live \ {b}
               d == truth.dead \cup {b}
               j == truth.joined \ OnServer(b)
    <3>1. n \in [Channels -> 0..1] /\ l \in SUBSET Servers /\ d \in SUBSET Servers /\ j \in SUBSET Channels
      BY <1>1, <2>1
    <3>2. Changed(op, b) = [[[[truth EXCEPT !.live = l] EXCEPT !.dead = d] EXCEPT !.joined = j] EXCEPT !.unread = n]
      BY <2>4 DEF Changed, Truth
    <3> HIDE DEF n, l, d, j
    <3> QED
      BY <3>1, <3>2 DEF Truth
  <2> QED
    BY <1>3, <2>2, <2>3, <2>4 DEF ServerOps
<1>4. CASE op \in ThreadOps
  <2> DEFINE r == truth.dm[b].rev + 1
             x == CASE op = "say" -> [[truth.dm[b] EXCEPT !.rev = r] EXCEPT !.open = TRUE]
                    [] op = "read" -> [truth.dm[b] EXCEPT !.rev = r]
                    [] op = "close" -> [[truth.dm[b] EXCEPT !.rev = r] EXCEPT !.open = FALSE]
                    [] op = "block" -> [[truth.dm[b] EXCEPT !.rev = r] EXCEPT !.blocked = ~truth.dm[b].blocked]
  <2>1. b \in Dms /\ truth.dm[b] \in [rev : Nat, open : BOOLEAN, blocked : BOOLEAN]
    BY <1>1, <1>4, PossibleOn
  <2>2. r \in Nat
    BY <2>1
  <2>3. truth \in Truth
    OBVIOUS
  <2>4. Changed(op, b) = [truth EXCEPT !.dm = [truth.dm EXCEPT ![b] = x]]
    <3>1. CASE op = "say"
      BY <1>1, <2>1, <2>3, <3>1 DEF Changed, Truth
    <3>2. CASE op = "read"
      BY <1>1, <2>1, <2>3, <3>2 DEF Changed, Truth
    <3>3. CASE op = "close"
      BY <1>1, <2>1, <2>3, <3>3 DEF Changed, Truth
    <3>4. CASE op = "block"
      BY <1>1, <2>1, <2>3, <3>4 DEF Changed, Truth
    <3> QED
      BY <1>4, <3>1, <3>2, <3>3, <3>4 DEF ThreadOps
  <2> HIDE DEF r
  <2>5. x \in [rev : Nat, open : BOOLEAN, blocked : BOOLEAN]
    <3> DEFINE nb == ~truth.dm[b].blocked
    <3>0. nb \in BOOLEAN
      OBVIOUS
    <3>1. x \in {[[truth.dm[b] EXCEPT !.rev = r] EXCEPT !.open = TRUE], [truth.dm[b] EXCEPT !.rev = r],
                 [[truth.dm[b] EXCEPT !.rev = r] EXCEPT !.open = FALSE], [[truth.dm[b] EXCEPT !.rev = r] EXCEPT !.blocked = nb]}
      BY <1>4, Zenon DEF ThreadOps
    <3> HIDE DEF nb, x
    <3> QED
      BY <2>1, <2>2, <3>0, <3>1
  <2> HIDE DEF x
  <2>6. [truth.dm EXCEPT ![b] = x] \in [Dms -> [rev : Nat, open : BOOLEAN, blocked : BOOLEAN]]
    BY <1>1, <2>1, <2>5
  <2> DEFINE m == [truth.dm EXCEPT ![b] = x]
  <2> HIDE DEF m
  <2>7. Changed(op, b) = [truth EXCEPT !.dm = m] /\ m \in [Dms -> [rev : Nat, open : BOOLEAN, blocked : BOOLEAN]]
    BY <2>4, <2>6 DEF m
  <2> QED
    BY <2>7 DEF Truth
<1> QED
  BY <1>2, <1>3, <1>4 DEF Operations

LEMMA DirectFrameIs ==
    ASSUME NEW t \in Truth, NEW d \in Dms
    PROVE  /\ DirectFrameOf(t, d) \in DirectFrame /\ DirectFrameOf(t, d).buf = d
           /\ DirectFrameOf(t, d).open = t.dm[d].open
<1>1. /\ t.dm[d] \in [rev : Nat, open : BOOLEAN, blocked : BOOLEAN]
      /\ t.status[Owner[d]] \in Status
  BY ClientAssumption DEF Truth, ClientAssumption, Buffers
<1> QED
  BY <1>1 DEF DirectFrameOf, DirectFrame

LEMMA FrameOfIs ==
    ASSUME truth \in Truth, NEW op \in Operations, NEW b, Possible(op, b), NEW t \in Truth
    PROVE  /\ op \in ThreadOps => FrameOf(op, b, t) = DirectFrameOf(t, b)
           /\ op \in {"up", "down"} => FrameOf(op, b, t) \in StatusFrame /\ FrameOf(op, b, t).buf = b
           /\ FrameOf(op, b, t) \in Frame
<1>1. CASE op \in ThreadOps
  <2>1. FrameOf(op, b, t) = DirectFrameOf(t, b)
    BY <1>1 DEF FrameOf, ThreadOps
  <2>2. b \in Dms /\ op \notin {"up", "down"}
    BY <1>1, PossibleOn DEF ThreadOps
  <2> QED
    BY <2>1, <2>2, DirectFrameIs DEF Frame
<1>2. CASE op \in ChannelOps
  <2>1. b \in Channels /\ op \notin ThreadOps /\ op \notin {"up", "down"}
    BY <1>2, PossibleOn DEF ChannelOps, ThreadOps
  <2>2. t.status[Owner[b]] \in Status
    BY <2>1, ClientAssumption DEF Truth, ClientAssumption, Buffers
  <2>3. FrameOf(op, b, t) \in JoinedFrame \cup LeftFrame \cup UnreadFrame
    BY <1>2, <2>1, <2>2 DEF FrameOf, ChannelOps, JoinedFrame, LeftFrame, UnreadFrame
  <2> QED
    BY <2>1, <2>3 DEF Frame
<1>3. CASE op \in ServerOps
  <2>1. b \in Servers /\ op \notin ThreadOps
    BY <1>3, PossibleOn DEF ServerOps, ThreadOps
  <2>2. t.status[b] \in Status
    BY <2>1 DEF Truth
  <2>3. op \in {"up", "down"} => FrameOf(op, b, t) \in StatusFrame /\ FrameOf(op, b, t).buf = b
    BY <2>1, <2>2 DEF FrameOf, StatusFrame
  <2>4. op = "delete" => FrameOf(op, b, t) \in LeftFrame
    BY <2>1 DEF FrameOf, LeftFrame
  <2> QED
    BY <1>3, <2>1, <2>3, <2>4 DEF ServerOps, Frame
<1> QED
  BY <1>1, <1>2, <1>3 DEF Operations

LEMMA SayOpens ==
    ASSUME truth \in Truth, NEW d \in Dms
    PROVE  Changed("say", d).dm[d].open = TRUE
<1>1. truth.dm \in [Dms -> [rev : Nat, open : BOOLEAN, blocked : BOOLEAN]]
  BY DEF Truth
<1>2. truth.dm[d] \in [rev : Nat, open : BOOLEAN, blocked : BOOLEAN]
  BY <1>1
<1> DEFINE r == truth.dm[d].rev + 1
           x == [[truth.dm[d] EXCEPT !.rev = r] EXCEPT !.open = TRUE]
<1>3. Changed("say", d) = [truth EXCEPT !.dm = [truth.dm EXCEPT ![d] = x]]
  BY <1>1 DEF Changed, Truth
<1>4. x.open = TRUE
  BY <1>2
<1> HIDE DEF x
<1>5. [truth.dm EXCEPT ![d] = x][d] = x
  BY <1>1
<1> DEFINE m == [truth.dm EXCEPT ![d] = x]
<1> HIDE DEF m
<1>6. Changed("say", d) = [truth EXCEPT !.dm = m] /\ m[d] = x
  BY <1>3, <1>5 DEF m
<1>7. Changed("say", d).dm = m
  BY <1>6 DEF Truth
<1> QED
  BY <1>4, <1>6, <1>7

LEMMA CommitKeeps ==
    ASSUME truth \in Truth, unpublished \subseteq DirectFrame, NEW op \in Operations, NEW b,
           Possible(op, b), Commit(op, b)
    PROVE  truth' \in Truth /\ unpublished' \subseteq DirectFrame
<1>1. Changed(op, b) \in Truth
  BY ChangedTruth
<1>2. b \in Dms => FrameOf(op, b, Changed(op, b)) \in DirectFrame
  <2> SUFFICES ASSUME b \in Dms
               PROVE  FrameOf(op, b, Changed(op, b)) \in DirectFrame
    OBVIOUS
  <2>1. op \in ThreadOps
    BY PossibleOn, ClientAssumption DEF ClientAssumption, Operations, Buffers
  <2> QED
    BY <1>1, <2>1, FrameOfIs, DirectFrameIs
<1> QED
  BY <1>1, <1>2 DEF Commit

LEMMA PublishedIs ==
    ASSUME truth \in Truth, NEW op \in Operations, NEW b, Possible(op, b)
    PROVE  Published(op, b) \in Seq(Frame)
<1>1. FrameOf(op, b, Changed(op, b)) \in Frame
  BY ChangedTruth, FrameOfIs
<1> DEFINE f == FrameOf(op, b, Changed(op, b))
<1> HIDE DEF f
<1>2. f \in Frame
  BY <1>1 DEF f
<1>3. <<f>> \in Seq(Frame) /\ <<>> \in Seq(Frame)
  BY <1>2
<1> QED
  BY <1>3 DEF Published, f

-----------------------------------------------------------------------------
(* The wire: what is on it and who waits for it.                           *)

Answers == [type : {"reply"}, id : Nat]
IsReply(e) == e.type = "reply"

\* A call of cs waits for the answer that is on the socket.
Awaited(cs, id) == \E c \in cs : c.id = id /\ c.op \in Pushes /\ c.stage \notin {"sent", "lost"}

WireOK(w, cs) ==
    /\ w \in Seq(Frame \cup Answers)
    /\ \A i \in DOMAIN w : IsReply(w[i]) => Awaited(cs, w[i].id)
    /\ \A i, j \in DOMAIN w : IsReply(w[i]) /\ w[i] = w[j] => i = j

LEMMA ReplyIs ==
    ASSUME NEW e \in Frame \cup Answers
    PROVE  /\ IsReply(e) => e \in Answers /\ e = Reply(e.id)
           /\ ~IsReply(e) => e \in Frame
<1>1. e \in Frame => ~IsReply(e)
  BY FrameTypes DEF IsReply
<1>2. e \in Answers => IsReply(e) /\ e = Reply(e.id)
  BY DEF Answers, IsReply, Reply
<1> QED
  BY <1>1, <1>2

LEMMA FramesAreNoReplies ==
    ASSUME NEW f \in Frame
    PROVE  ~IsReply(f)
BY FrameTypes DEF IsReply

LEMMA WireGrows ==
    ASSUME NEW w, NEW cs, WireOK(w, cs), NEW fs \in Seq(Frame)
    PROVE  WireOK(w \o fs, cs)
<1> DEFINE T == Frame \cup Answers
           v == w \o fs
<1>1. w \in Seq(T) /\ fs \in Seq(T)
  BY DEF WireOK
<1> HIDE DEF T
<1>2. /\ v \in Seq(T) /\ DOMAIN v = 1..(Len(w) + Len(fs))
      /\ Len(w) \in Nat /\ Len(fs) \in Nat /\ DOMAIN w = 1..Len(w) /\ DOMAIN fs = 1..Len(fs)
      /\ \A i \in 1..Len(w) : v[i] = w[i]
      /\ \A i \in DOMAIN v : i > Len(w) => i - Len(w) \in DOMAIN fs /\ v[i] = fs[i - Len(w)]
  BY <1>1
<1> HIDE DEF v
<1>3. \A k \in DOMAIN fs : ~IsReply(fs[k])
  BY Elements, FramesAreNoReplies
<1>4. \A i \in DOMAIN v : IsReply(v[i]) => i \in DOMAIN w /\ v[i] = w[i]
  BY <1>2, <1>3
<1>5. \A i, j \in DOMAIN v : IsReply(v[i]) /\ v[i] = v[j] => i = j
  BY <1>4 DEF WireOK
<1> QED
  BY <1>2, <1>4, <1>5 DEF WireOK, T, v

LEMMA WireTail ==
    ASSUME NEW w, NEW cs, WireOK(w, cs), w # <<>>
    PROVE  /\ WireOK(Tail(w), cs) /\ Head(w) \in Frame \cup Answers
           /\ IsReply(Head(w)) => \A i \in DOMAIN Tail(w) : Tail(w)[i] # Head(w)
<1> DEFINE T == Frame \cup Answers
           v == Tail(w)
<1>1. w \in Seq(T)
  BY DEF WireOK
<1> HIDE DEF T
<1>2. /\ v \in Seq(T) /\ 1 \in DOMAIN w /\ Head(w) = w[1] /\ w[1] \in T
      /\ \A i \in DOMAIN v : i \in Nat /\ i + 1 # 1 /\ i + 1 \in DOMAIN w /\ v[i] = w[i + 1]
  BY <1>1
<1> HIDE DEF v
<1>3. \A i, j \in DOMAIN v : IsReply(v[i]) /\ v[i] = v[j] => i = j
  <2>1. \A i, j \in DOMAIN v : IsReply(v[i]) /\ v[i] = v[j] => i + 1 = j + 1
    BY <1>2 DEF WireOK
  <2> QED
    BY <1>2, <2>1
<1>4. \A i \in DOMAIN v : IsReply(v[i]) => Awaited(cs, v[i].id)
  BY <1>2 DEF WireOK
<1>5. IsReply(Head(w)) => \A i \in DOMAIN v : v[i] # Head(w)
  BY <1>2 DEF WireOK
<1> QED
  BY <1>2, <1>3, <1>4, <1>5 DEF WireOK, T, v

\* The calls change, those whose answers are on the socket still wait.
LEMMA WireAwaited ==
    ASSUME NEW w, NEW cs, NEW ds, WireOK(w, cs),
           \A id \in Nat : Awaited(cs, id) /\ (\E i \in DOMAIN w : w[i] = Reply(id)) => Awaited(ds, id)
    PROVE  WireOK(w, ds)
<1>1. \A i \in DOMAIN w : IsReply(w[i]) => Awaited(ds, w[i].id)
  <2> SUFFICES ASSUME NEW i \in DOMAIN w, IsReply(w[i])
               PROVE  Awaited(ds, w[i].id)
    OBVIOUS
  <2>1. w[i] \in Frame \cup Answers
    BY Elements DEF WireOK
  <2>2. w[i] = Reply(w[i].id) /\ w[i].id \in Nat
    BY <2>1, ReplyIs DEF Answers
  <2> QED
    BY <2>2 DEF WireOK
<1> QED
  BY <1>1 DEF WireOK

LEMMA ConcatIs ==
    ASSUME NEW T, NEW x \in Seq(T), NEW y \in Seq(T)
    PROVE  /\ x \o y \in Seq(T) /\ Len(x \o y) = Len(x) + Len(y) /\ Len(x) \in Nat /\ Len(y) \in Nat
           /\ DOMAIN (x \o y) = 1..(Len(x) + Len(y))
           /\ \A i \in 1..Len(x) : (x \o y)[i] = x[i]
           /\ \A i \in 1..(Len(x) + Len(y)) : i > Len(x) => (x \o y)[i] = y[i - Len(x)]
OBVIOUS

\* a is w with the element of o put behind its k-th place.
Inserted(a, T, w, k, o) ==
    /\ a \in Seq(T) /\ DOMAIN a = 1..(Len(w) + 1)
    /\ \A i \in DOMAIN a : /\ i <= k => i \in DOMAIN w /\ a[i] = w[i]
                           /\ i = k + 1 => a[i] = o[1]
                           /\ i > k + 1 => i - 1 \in DOMAIN w /\ a[i] = w[i - 1]

LEMMA InsertedIs ==
    ASSUME NEW T, NEW w \in Seq(T), NEW k \in 0..Len(w), NEW o \in Seq(T), Len(o) = 1
    PROVE  Inserted(SubSeq(w, 1, k) \o o \o SubSeq(w, k + 1, Len(w)), T, w, k, o)
<1> DEFINE x == SubSeq(w, 1, k)
           y == SubSeq(w, k + 1, Len(w))
           z == x \o o
           a == z \o y
<1>1. Len(w) \in Nat /\ DOMAIN w = 1..Len(w) /\ k \in Nat
  OBVIOUS
<1>2. x \in Seq(T) /\ Len(x) = k /\ \A i \in 1..k : x[i] = w[i]
  BY <1>1
<1>3. y \in Seq(T) /\ Len(y) = Len(w) - k /\ \A i \in 1..(Len(w) - k) : y[i] = w[k + i]
  <2>1. /\ y \in Seq(T) /\ Len(y) = Len(w) - (k + 1) + 1
        /\ \A i \in 1..(Len(w) - (k + 1) + 1) : y[i] = w[k + 1 + i - 1]
    <3>1. k + 1 \in 1..(Len(w) + 1) /\ Len(w) \in ((k + 1) - 1)..Len(w)
      BY <1>1
    <3>2. w \in Seq(T)
      OBVIOUS
    <3> QED
      BY ONLY <3>1, <3>2, SubSeqProperties
  <2>2. Len(w) - (k + 1) + 1 = Len(w) - k /\ \A i \in 1..(Len(w) - k) : k + 1 + i - 1 = k + i
    BY ONLY <1>1
  <2> HIDE DEF y
  <2> QED
    BY ONLY <2>1, <2>2
<1>o. o \in Seq(T) /\ Len(o) = 1
  OBVIOUS
<1> HIDE DEF x, y
<1>4. z \in Seq(T) /\ Len(z) = k + 1 /\ \A i \in 1..k : z[i] = x[i]
  <2>1. /\ z \in Seq(T) /\ Len(z) = Len(x) + Len(o)
        /\ \A i \in 1..Len(x) : z[i] = x[i]
    BY ONLY <1>2, <1>o, ConcatIs
  <2> QED
    BY ONLY <1>2, <1>o, <2>1
<1>5. z[k + 1] = o[1]
  <2>1. \A i \in 1..(Len(x) + Len(o)) : i > Len(x) => z[i] = o[i - Len(x)]
    BY ONLY <1>2, <1>o, ConcatIs
  <2>2. k + 1 \in 1..(Len(x) + Len(o)) /\ k + 1 > Len(x) /\ Len(x) = k /\ (k + 1) - k = 1
    BY ONLY <1>1, <1>2, <1>o
  <2> HIDE DEF z
  <2> QED
    BY ONLY <2>1, <2>2
<1> HIDE DEF z
<1>6. /\ a \in Seq(T) /\ DOMAIN a = 1..(Len(w) + 1)
      /\ \A i \in 1..(k + 1) : a[i] = z[i]
      /\ \A i \in 1..(Len(w) + 1) : i > k + 1 => a[i] = y[i - (k + 1)]
  <2>1. /\ a \in Seq(T) /\ DOMAIN a = 1..(Len(z) + Len(y))
        /\ \A i \in 1..Len(z) : a[i] = z[i]
        /\ \A i \in 1..(Len(z) + Len(y)) : i > Len(z) => a[i] = y[i - Len(z)]
    <3>1. z \in Seq(T) /\ y \in Seq(T)
      BY ONLY <1>3, <1>4
    <3> QED
      BY ONLY <3>1, ConcatIs
  <2>2. Len(z) = k + 1 /\ Len(z) + Len(y) = Len(w) + 1
    BY ONLY <1>1, <1>3, <1>4
  <2> HIDE DEF a
  <2> QED
    BY ONLY <2>1, <2>2
<1> HIDE DEF a
<1>7. \A i \in 1..(Len(w) + 1) : i > k + 1 => /\ i - (k + 1) \in 1..(Len(w) - k) /\ k + (i - (k + 1)) = i - 1
                                            /\ i - 1 \in 1..Len(w)
  BY ONLY <1>1
<1>8. \A i \in DOMAIN a : i > k + 1 => i - 1 \in DOMAIN w /\ a[i] = w[i - 1]
  <2> SUFFICES ASSUME NEW i \in 1..(Len(w) + 1), i > k + 1
               PROVE  i - 1 \in DOMAIN w /\ a[i] = w[i - 1]
    BY <1>6
  <2>1. a[i] = y[i - (k + 1)]
    BY <1>6
  <2>2. y[i - (k + 1)] = w[k + (i - (k + 1))]
    BY <1>3, <1>7
  <2> QED
    BY <1>1, <1>7, <2>1, <2>2
<1>9. \A i \in DOMAIN a : i <= k => i \in DOMAIN w /\ a[i] = w[i]
  BY ONLY <1>1, <1>2, <1>4, <1>6
<1>10. \A i \in DOMAIN a : i = k + 1 => a[i] = o[1]
  BY ONLY <1>1, <1>5, <1>6
<1>11. a \in Seq(T) /\ DOMAIN a = 1..(Len(w) + 1)
  BY ONLY <1>6
<1> QED
  BY <1>8, <1>9, <1>10, <1>11 DEF a, z, x, y, Inserted

LEMMA WireAnswered ==
    ASSUME NEW w, NEW cs, WireOK(w, cs), NEW id \in Nat, Awaited(cs, id),
           \A i \in DOMAIN w : w[i] # Reply(id),
           NEW k \in 0..Len(w), NEW fs \in Seq(Frame)
    PROVE  WireOK(SubSeq(w, 1, k) \o <<Reply(id)>> \o SubSeq(w, k + 1, Len(w)) \o fs, cs)
<1> DEFINE T == Frame \cup Answers
           r == Reply(id)
           o == <<r>>
           a == SubSeq(w, 1, k) \o o \o SubSeq(w, k + 1, Len(w))
<1>1. w \in Seq(T) /\ r \in T /\ r.id = id
  <2>1. r \in Answers /\ r.id = id
    BY DEF Reply, Answers
  <2> QED
    BY <2>1 DEF WireOK
<1> HIDE DEF T, r
<1>o. o \in Seq(T) /\ Len(o) = 1 /\ o[1] = r
  BY ONLY <1>1
<1> HIDE DEF o
<1>2. /\ a \in Seq(T) /\ DOMAIN a = 1..(Len(w) + 1)
      /\ \A i \in DOMAIN a : /\ i <= k => i \in DOMAIN w /\ a[i] = w[i]
                             /\ i = k + 1 => a[i] = o[1]
                             /\ i > k + 1 => i - 1 \in DOMAIN w /\ a[i] = w[i - 1]
  <2>1. w \in Seq(T) /\ k \in 0..Len(w) /\ o \in Seq(T) /\ Len(o) = 1
    BY <1>1, <1>o
  <2>2. Inserted(a, T, w, k, o)
    BY ONLY <2>1, InsertedIs
  <2> HIDE DEF a
  <2> QED
    BY ONLY <2>2 DEF Inserted
<1>k. Len(w) \in Nat /\ k \in Int
  BY <1>1, Elements
<1> HIDE DEF a
<1>3. \A i \in DOMAIN a : i = k + 1 \/ (a[i] # r /\ \E j \in DOMAIN w : a[i] = w[j])
  <2> SUFFICES ASSUME NEW i \in DOMAIN a, i # k + 1
               PROVE  a[i] # r /\ \E j \in DOMAIN w : a[i] = w[j]
    OBVIOUS
  <2>1. i \in Int /\ (i <= k \/ i > k + 1)
    BY <1>2, <1>k
  <2> QED
    BY <1>2, <1>o, <2>1 DEF r
<1>4. \A i \in DOMAIN a : IsReply(a[i]) => Awaited(cs, a[i].id)
  BY <1>1, <1>o, <1>2, <1>3 DEF WireOK
<1>5. \A i, j \in DOMAIN a : IsReply(a[i]) /\ a[i] = a[j] => i = j
  <2> SUFFICES ASSUME NEW i \in DOMAIN a, NEW j \in DOMAIN a, IsReply(a[i]), a[i] = a[j]
               PROVE  i = j
    OBVIOUS
  <2>1. i \in Int /\ j \in Int
    BY <1>2
  <2>2. CASE i = k + 1 \/ j = k + 1
    BY <1>2, <1>o, <1>3, <2>2
  <2>3. CASE i # k + 1 /\ j # k + 1
    <3>1. (i <= k \/ i > k + 1) /\ (j <= k \/ j > k + 1)
      BY <1>2, <1>k, <2>1, <2>3
    <3> DEFINE p == IF i <= k THEN i ELSE i - 1
               q == IF j <= k THEN j ELSE j - 1
    <3>2. p \in DOMAIN w /\ q \in DOMAIN w /\ a[i] = w[p] /\ a[j] = w[q]
      BY <1>2, <1>k, <2>1, <3>1
    <3>3. p = q
      BY <3>2 DEF WireOK
    <3> QED
      BY <1>2, <1>k, <2>1, <3>1, <3>3
  <2> QED
    BY <2>2, <2>3
<1>6. WireOK(a, cs)
  BY <1>2, <1>4, <1>5 DEF WireOK, T
<1> QED
  BY <1>6, WireGrows DEF a, o, r

-----------------------------------------------------------------------------
(* The inductive invariant, in parts that are predicates of values.        *)

Ops == DirectOps \cup {"msg", "seen", "leave", "up", "down", "delete", "update"} \cup Joins \cup ListingOps
Stages == {"sent", "answered", "stale", "refused", "lost"}

Call == [id : Nat, op : Ops, buf : Servers \cup Buffers \cup {None}, held : Int,
         status : Status \cup {None}, query : Queries \cup {None}, session : Nat,
         stage : Stages, reply : Frame \cup {None}]

\* What a call is about and what its answer holds.
About(c) ==
    /\ c.op \in DirectOps \cup {"msg"} => c.buf \in Dms
    /\ c.op \in {"seen", "leave"} \cup Joins => c.buf \in Channels
    /\ c.op \in {"up", "down", "delete", "update"} => c.buf \in Servers
    /\ c.op \in ListingOps => c.buf \in Servers \cup {None}
    /\ c.op \in Joins => c.status \in Status
Fits(op, b, reply) ==
    /\ op \in DirectOps \cup {"msg"} => reply \in DirectFrame /\ reply.buf = b
    /\ op = "msg" => reply.open
    /\ op \in {"up", "down", "update"} => reply \in StatusFrame /\ reply.buf = b
    /\ op \in Joins => reply \in StatusFrame
Answered(c) == c.stage = "answered" => Fits(c.op, c.buf, c.reply)
CallOK(c) == c \in Call /\ About(c) /\ Answered(c)

CallsOK(cs, steps) ==
    /\ \A c \in cs : CallOK(c) /\ c.id <= steps
    /\ \A c, d \in cs : c.id = d.id => c = d

SearchOf == (Servers \cup {None}) \X (Queries \cup {None})
Listing == [req : Nat,
            dir : [server : Servers \cup {None}, query : Queries \cup {None},
                   status : {"idle", "loading", "ready", "error"}],
            dirAsked : SearchOf,
            disc : [req : Nat, server : Servers \cup {None}, query : Queries \cup {None},
                    status : {"idle", "loading", "ready", "error"}],
            discAsked : SearchOf]

\* A listing request is not ahead of the counter, and the one that is level
\* with it asked for what was asked for last.
Asked(l, c) ==
    /\ c.held # 0
    /\ c.held > 0 => c.held <= l.req /\ (c.held = l.req => <<c.buf, c.query>> = l.dirAsked)
    /\ c.held < 0 => -c.held <= l.disc.req /\ (-c.held = l.disc.req => <<c.buf, c.query>> = l.discAsked)

Answering(l) ==
    /\ l.dir.status = "ready" => <<l.dir.server, l.dir.query>> = l.dirAsked
    /\ l.disc.status = "ready" => <<l.disc.server, l.disc.query>> = l.discAsked

ListingsOK(l, cs) ==
    /\ l \in Listing /\ Answering(l)
    /\ \A c \in cs : c.op \in ListingOps => Asked(l, c)

TruthOK(t, fs) == t \in Truth /\ fs \subseteq DirectFrame

BootOK(b) ==
    /\ b \in [stage : {"loading", "answered", "ready"}, snapshot : Truth \cup {None}]
    /\ b.stage = "answered" => b.snapshot \in Truth

PictureOK(u, b) == Picture(u) /\ (b.stage = "ready" => Selection(u))

RefreshOK(r, q, a) ==
    /\ r \in [stage : {"idle", "sent", "answered", "reconciling"},
              snapshot : Truth \cup {None}, selected : Servers \cup Buffers \cup {None}]
    /\ r.stage = "answered" => r.snapshot \in Truth
    /\ r.stage = "idle" => q = <<>> /\ ~a
    /\ a \in BOOLEAN /\ q \in Seq([frame : Frame, session : Nat])

Spent == [steps : 0..MaxSteps, events : 0..MaxEvents, drops : 0..MaxDrops]
Rest(l, n, un, s) ==
    /\ l \in {"none", "down", "joining", "refused", "joined", "closed"} /\ n \in Nat
    /\ un \subseteq Servers \cup Buffers /\ s \in Spent

CInv ==
    /\ TruthOK(truth, unpublished)
    /\ CallsOK(calls, spent.steps) /\ WireOK(wire, calls) /\ ListingsOK(listing, calls)
    /\ BootOK(boot) /\ PictureOK(ui, boot) /\ RefreshOK(refresh, queue, again)
    /\ Rest(link, sessions, unsure, spent)

LEMMA InitCInv ==
    ASSUME Init
    PROVE  CInv
<1> USE DEF Init
<1>1. TruthOK(truth, unpublished)
  BY ClientAssumption DEF TruthOK, Truth, ClientAssumption, Status
<1>2. CallsOK(calls, spent.steps)
  BY DEF CallsOK
<1>3. WireOK(wire, calls)
  <2>1. wire = <<>> /\ <<>> \in Seq(Frame \cup Answers)
    OBVIOUS
  <2> QED
    BY <2>1 DEF WireOK
<1>4. ListingsOK(listing, calls)
  <2>1. NoListing \in Listing
    BY DEF NoListing, Listing, SearchOf
  <2>2. Answering(NoListing)
    BY DEF NoListing, Answering
  <2> QED
    BY <2>1, <2>2 DEF ListingsOK
<1>5. BootOK(boot)
  BY DEF BootOK
<1>6. PictureOK(ui, boot)
  <2>1. ui \in Ui
    <3>1. Absent \in ChannelRecord /\ NoDm \in ThreadRecord
      BY DEF ChannelRecord, NoDm, ThreadRecord
    <3> QED
      BY <3>1, ClientAssumption DEF Ui, ClientAssumption, Status, Views, Buffers
  <2>2. Shown(ui) = {}
    BY DEF Shown, NoDm
  <2> QED
    BY <2>1, <2>2 DEF PictureOK, Picture, OwnersKnown
<1>7. RefreshOK(refresh, queue, again)
  <2>1. queue \in Seq([frame : Frame, session : Nat]) /\ queue = <<>> /\ again = FALSE
    OBVIOUS
  <2>2. /\ NoRefresh \in [stage : {"idle", "sent", "answered", "reconciling"},
                       snapshot : Truth \cup {None}, selected : Servers \cup Buffers \cup {None}]
        /\ NoRefresh.stage = "idle"
    BY DEF NoRefresh
  <2>3. refresh = NoRefresh
    OBVIOUS
  <2> QED
    BY ONLY <2>1, <2>2, <2>3 DEF RefreshOK
<1>8. Rest(link, sessions, unsure, spent)
  BY ClientAssumption DEF Rest, Spent, ClientAssumption
<1> QED
  BY <1>1, <1>2, <1>3, <1>4, <1>5, <1>6, <1>7, <1>8 DEF CInv

-----------------------------------------------------------------------------
(* What happens to calls.                                                  *)

\* The call d is c further on.
Further(c, d) == d.id = c.id /\ d.held = c.held /\ d.buf = c.buf /\ d.query = c.query
                 /\ (d.op \in ListingOps => c.op \in ListingOps)

LEMMA CallFields ==
    ASSUME NEW c, CallOK(c)
    PROVE  /\ c.id \in Nat /\ c.op \in Ops /\ c.held \in Int /\ c.session \in Nat
           /\ c.stage \in Stages /\ c.reply \in Frame \cup {None}
BY DEF CallOK, Call

Staged(c, stage, reply) == [c EXCEPT !.stage = stage, !.reply = reply]

LEMMA StagedCall ==
    ASSUME NEW c, CallOK(c), NEW stage \in Stages, NEW reply \in Frame \cup {None}
    PROVE  LET d == Staged(c, stage, reply)
           IN /\ d \in Call /\ About(d) /\ Further(c, d) /\ d.op = c.op
              /\ d.stage = stage /\ d.reply = reply
              /\ (stage = "answered" => Fits(c.op, c.buf, reply)) => CallOK(d)
<1> DEFINE d == [[c EXCEPT !.stage = stage] EXCEPT !.reply = reply]
<1>1. c \in Call
  BY DEF CallOK
<1>2. /\ d \in Call /\ d.id = c.id /\ d.op = c.op /\ d.buf = c.buf /\ d.held = c.held
      /\ d.status = c.status /\ d.query = c.query /\ d.stage = stage /\ d.reply = reply
  BY <1>1 DEF Call
<1>3. Staged(c, stage, reply) = d
  BY <1>1 DEF Staged, Call
<1> HIDE DEF d
<1>4. About(d)
  BY <1>2 DEF CallOK, About
<1>5. (stage = "answered" => Fits(c.op, c.buf, reply)) => CallOK(d)
  BY <1>2, <1>4 DEF CallOK, Answered
<1> QED
  BY <1>2, <1>3, <1>4, <1>5 DEF Further

\* One call is replaced by what it becomes.
LEMMA CallsReplaced ==
    ASSUME NEW cs, NEW n, CallsOK(cs, n), NEW c \in cs, NEW d, CallOK(d), Further(c, d),
           NEW l, ListingsOK(l, cs)
    PROVE  CallsOK((cs \ {c}) \cup {d}, n) /\ ListingsOK(l, (cs \ {c}) \cup {d})
<1>1. CallsOK((cs \ {c}) \cup {d}, n)
  BY DEF CallsOK, Further
<1>2. d.op \in ListingOps => Asked(l, d)
  BY DEF Asked, Further, ListingsOK
<1> QED
  BY <1>1, <1>2 DEF ListingsOK

LEMMA CallsRemoved ==
    ASSUME NEW cs, NEW n, CallsOK(cs, n), NEW c, NEW l, ListingsOK(l, cs)
    PROVE  CallsOK(cs \ {c}, n) /\ ListingsOK(l, cs \ {c})
BY DEF CallsOK, ListingsOK

LEMMA AwaitedIsUnique ==
    ASSUME NEW cs, NEW n, CallsOK(cs, n), NEW w, WireOK(w, cs), NEW c \in cs,
           NEW i \in DOMAIN w, w[i] = Reply(c.id)
    PROVE  c.op \in Pushes /\ c.stage \notin {"sent", "lost"}
<1>1. IsReply(w[i]) /\ w[i].id = c.id
  BY DEF IsReply, Reply
<1>2. Awaited(cs, c.id)
  BY <1>1 DEF WireOK
<1> QED
  BY <1>2 DEF Awaited, CallsOK

\* A call that nothing on the socket answers may change as it likes.
LEMMA WireWithout ==
    ASSUME NEW cs, NEW w, WireOK(w, cs), NEW c, \A i \in DOMAIN w : w[i] # Reply(c.id),
           NEW ds, cs \ {c} \subseteq ds
    PROVE  WireOK(w, ds)
<1>1. \A id \in Nat : Awaited(cs, id) /\ (\E i \in DOMAIN w : w[i] = Reply(id)) => Awaited(ds, id)
  BY DEF Awaited
<1> QED
  BY <1>1, WireAwaited

\* A request begins.
LEMMA AskKeeps ==
    ASSUME CInv, NEW op \in Ops, NEW b, NEW held, NEW status, NEW query,
           Ask(op, b, held, status, query),
           b \in Servers \cup Buffers \cup {None}, held \in Int, status \in Status \cup {None},
           query \in Queries \cup {None},
           op \in DirectOps \cup {"msg"} => b \in Dms,
           op \in {"seen", "leave"} \cup Joins => b \in Channels,
           op \in {"up", "down", "delete", "update"} => b \in Servers,
           op \in ListingOps => b \in Servers \cup {None},
           op \in Joins => status \in Status
    PROVE  /\ spent' \in Spent /\ CallsOK(calls', spent'.steps) /\ WireOK(wire, calls')
           /\ boot.stage = "ready"
           /\ \E d : /\ calls' = calls \cup {d} /\ d.op = op /\ d.held = held
                     /\ d.buf = b /\ d.query = query
<1> DEFINE cost == CASE op \in ListingOps -> 3 [] op \in Joins -> 4 [] OTHER -> 5
           d == [id |-> spent.steps + 1, op |-> op, buf |-> b, held |-> held,
                 status |-> status, query |-> query, session |-> sessions,
                 stage |-> "sent", reply |-> None]
<1>1. /\ Operated(cost) /\ calls' = calls \cup {d}
  BY DEF Ask
<1>2. cost \in {3, 4, 5}
  OBVIOUS
<1> HIDE DEF cost
<1>3. spent \in Spent /\ sessions \in Nat /\ MaxSteps \in Nat
  BY ClientAssumption DEF CInv, Rest, ClientAssumption
<1>4. /\ boot.stage = "ready" /\ spent.steps + cost <= MaxSteps
      /\ spent' = [spent EXCEPT !.steps = spent.steps + cost]
  BY <1>1 DEF Operated
<1>5. spent.steps \in Nat /\ spent.steps + cost \in 0..MaxSteps
  BY <1>2, <1>3, <1>4 DEF Spent
<1>6. spent' \in Spent /\ spent'.steps = spent.steps + cost
  BY <1>3, <1>4, <1>5 DEF Spent
<1>7. d \in Call /\ d.id = spent.steps + 1
  BY <1>3, <1>5 DEF Call, Stages
<1>8. /\ d.op = op /\ d.held = held /\ d.buf = b /\ d.query = query /\ d.status = status
      /\ d.stage = "sent"
  OBVIOUS
<1> HIDE DEF d
<1>9. CallOK(d)
  BY <1>7, <1>8 DEF CallOK, About, Answered
<1>10. \A c \in calls : c.id \in Nat /\ c.id <= spent.steps /\ c.id <= spent'.steps /\ c.id # d.id
  <2>1. \A c \in calls : c.id \in Nat /\ c.id <= spent.steps
    BY CallFields DEF CInv, CallsOK
  <2> QED
    BY <1>2, <1>5, <1>6, <1>7, <2>1
<1>11. d.id <= spent'.steps
  BY <1>2, <1>5, <1>6, <1>7
<1>12. CallsOK(calls', spent'.steps)
  BY <1>1, <1>9, <1>10, <1>11 DEF CInv, CallsOK
<1>13. WireOK(wire, calls')
  <2>1. \A id \in Nat : Awaited(calls, id) => Awaited(calls', id)
    BY <1>1 DEF Awaited
  <2>2. WireOK(wire, calls)
    BY DEF CInv
  <2> QED
    BY <2>1, <2>2, WireAwaited
<1> QED
  BY <1>1, <1>4, <1>6, <1>8, <1>12, <1>13

-----------------------------------------------------------------------------
(* What the bounds count.                                                  *)

LEMMA SpentOn ==
    ASSUME CInv, NEW n, spent' \in Spent, spent'.steps = spent.steps + n, n \in Nat
    PROVE  CallsOK(calls, spent'.steps)
<1>1. spent.steps \in Int
  BY DEF CInv, Rest, Spent
<1>2. CallsOK(calls, spent.steps)
  BY DEF CInv
<1>3. \A c \in calls : c.id \in Int /\ c.id <= spent'.steps
  BY <1>1, <1>2, CallFields DEF CallsOK
<1> QED
  BY <1>2, <1>3 DEF CallsOK

LEMMA Spends ==
    ASSUME CInv, Unlucky \/ \E cost \in 0..5 : Operated(cost)
    PROVE  /\ spent' \in Spent /\ CallsOK(calls, spent'.steps)
           /\ ~Unlucky => boot.stage = "ready"
<1>1. spent \in Spent /\ {MaxSteps, MaxEvents, MaxDrops} \subseteq Nat
  BY ClientAssumption DEF CInv, Rest, ClientAssumption
<1>2. CASE Unlucky
  <2>1. spent' \in Spent /\ spent'.steps = spent.steps + 1
    BY <1>1, <1>2 DEF Unlucky, Spent
  <2> QED
    BY <1>2, <2>1, SpentOn
<1>3. ASSUME NEW cost \in 0..5, Operated(cost)
      PROVE  spent' \in Spent /\ CallsOK(calls, spent'.steps) /\ boot.stage = "ready"
  <2>1. spent.steps + cost \in 0..MaxSteps
    BY <1>1, <1>3 DEF Operated, Spent
  <2>2. spent' = [spent EXCEPT !.steps = spent.steps + cost] /\ boot.stage = "ready"
    BY <1>3 DEF Operated
  <2>3. spent' \in Spent /\ spent'.steps = spent.steps + cost
    BY <1>1, <2>1, <2>2 DEF Spent
  <2> QED
    BY <2>2, <2>3, SpentOn
<1> QED
  BY <1>2, <1>3

-----------------------------------------------------------------------------
(* Calls are served.                                                       *)

\* The call of a served request: its answer has a place, and waits for it.
LEMMA AnswerKeeps ==
    ASSUME CInv, NEW c, NEW stage \in {"answered", "stale", "refused"},
           NEW reply \in Frame \cup {None}, NEW frames \in Seq(Frame),
           Answer(c, stage, reply, frames), stage = "answered" => Fits(c.op, c.buf, reply)
    PROVE  CallsOK(calls', spent.steps) /\ WireOK(wire', calls') /\ ListingsOK(listing, calls')
<1> DEFINE d == Staged(c, stage, reply)
<1>1. /\ c \in calls /\ c.stage = "sent" /\ calls' = (calls \ {c}) \cup {d}
      /\ IF c.op \in Pushes
         THEN \E i \in 0..Len(wire) :
                wire' = SubSeq(wire, 1, i) \o <<Reply(c.id)>> \o SubSeq(wire, i + 1, Len(wire)) \o frames
         ELSE wire' = wire \o frames
  BY DEF Answer, Staged
<1>2. CallsOK(calls, spent.steps) /\ WireOK(wire, calls) /\ ListingsOK(listing, calls)
  BY DEF CInv
<1>3. CallOK(c)
  BY <1>1, <1>2 DEF CallsOK
<1>4. CallOK(d) /\ Further(c, d) /\ d.op = c.op /\ d.stage = stage
  <2>1. stage \in Stages
    BY DEF Stages
  <2> QED
    BY <1>3, <2>1, StagedCall
<1> HIDE DEF d
<1>5. CallsOK(calls', spent.steps) /\ ListingsOK(listing, calls')
  BY <1>1, <1>2, <1>4, CallsReplaced
<1>6. \A i \in DOMAIN wire : wire[i] # Reply(c.id)
  BY <1>1, <1>2, AwaitedIsUnique
<1>7. WireOK(wire, calls')
  BY <1>1, <1>2, <1>6, WireWithout
<1>8. CASE c.op \notin Pushes
  <2>1. wire' = wire \o frames
    BY <1>1, <1>8
  <2>2. WireOK(wire \o frames, calls')
    BY <1>7, WireGrows
  <2> QED
    BY <1>5, <2>1, <2>2
<1>9. CASE c.op \in Pushes
  <2>1. Awaited(calls', c.id) /\ c.id \in Nat
    BY <1>1, <1>3, <1>4, <1>9, CallFields DEF Awaited, Further
  <2> QED
    <3>1. PICK i \in 0..Len(wire) :
            wire' = SubSeq(wire, 1, i) \o <<Reply(c.id)>> \o SubSeq(wire, i + 1, Len(wire)) \o frames
      BY <1>1, <1>9
    <3>2. WireOK(SubSeq(wire, 1, i) \o <<Reply(c.id)>> \o SubSeq(wire, i + 1, Len(wire)) \o frames, calls')
      BY <1>6, <1>7, <2>1, WireAnswered
    <3> QED
      BY <1>5, <3>1, <3>2
<1> QED
  BY <1>8, <1>9

LEMMA AnswerUnchangedKeeps ==
    ASSUME CInv, NEW c, NEW stage \in {"answered", "stale", "refused"},
           NEW reply \in Frame \cup {None},
           AnswerUnchanged(c, stage, reply), stage = "answered" => Fits(c.op, c.buf, reply)
    PROVE  CInv' /\ ui' = ui
<1>1. Answer(c, stage, reply, <<>>) /\ UNCHANGED <<truth, unpublished>>
  BY DEF AnswerUnchanged
<1>2. CallsOK(calls', spent.steps) /\ WireOK(wire', calls') /\ ListingsOK(listing, calls')
  <2>1. <<>> \in Seq(Frame)
    OBVIOUS
  <2> QED
    BY <1>1, <2>1, AnswerKeeps
<1>3. UNCHANGED <<link, sessions, boot, ui, refresh, again, queue, listing, unsure, spent>>
  BY <1>1 DEF Answer
<1> QED
  BY <1>1, <1>2, <1>3 DEF CInv

LEMMA AnswerCommittingKeeps ==
    ASSUME CInv, NEW c, NEW op \in Operations, NEW reply \in Frame \cup {None},
           Possible(op, c.buf), AnswerCommitting(c, op, reply), Fits(c.op, c.buf, reply)
    PROVE  CInv' /\ ui' = ui
<1>1. Answer(c, "answered", reply, Published(op, c.buf)) /\ Commit(op, c.buf)
  BY DEF AnswerCommitting
<1>2. truth \in Truth /\ unpublished \subseteq DirectFrame
  BY DEF CInv, TruthOK
<1>3. truth' \in Truth /\ unpublished' \subseteq DirectFrame
  BY <1>1, <1>2, CommitKeeps
<1>4. Published(op, c.buf) \in Seq(Frame)
  BY <1>2, PublishedIs
<1>5. CallsOK(calls', spent.steps) /\ WireOK(wire', calls') /\ ListingsOK(listing, calls')
  BY <1>1, <1>4, AnswerKeeps
<1>6. UNCHANGED <<link, sessions, boot, ui, refresh, again, queue, listing, unsure, spent>>
  BY <1>1 DEF Answer
<1> QED
  BY <1>3, <1>5, <1>6 DEF CInv, TruthOK

LEMMA OfTheCall ==
    ASSUME CInv, NEW c \in calls
    PROVE  CallOK(c) /\ c \in Call /\ About(c) /\ Answered(c)
BY DEF CInv, CallsOK, CallOK
LEMMA ServeDirectKeeps ==
    ASSUME CInv, NEW c \in calls, ServeDirect(c)
    PROVE  CInv' /\ ui' = ui
<1>1. truth \in Truth /\ c.op \in DirectOps /\ None \in Frame \cup {None}
  BY DEF ServeDirect, CInv, TruthOK
<1>2. CASE AnswerUnchanged(c, "refused", None)
  BY <1>1, <1>2, AnswerUnchangedKeeps
<1>3. CASE AnswerUnchanged(c, "stale", None)
  BY <1>1, <1>3, AnswerUnchangedKeeps
<1>4. ASSUME Possible(c.op, c.buf),
             AnswerCommitting(c, c.op, DirectFrameOf(Changed(c.op, c.buf), c.buf))
      PROVE  CInv' /\ ui' = ui
  <2> DEFINE r == DirectFrameOf(Changed(c.op, c.buf), c.buf)
  <2>1. c.op \in Operations /\ c.op \in ThreadOps /\ c.op # "msg" /\ c.op \notin Joins
        /\ c.op \notin {"up", "down", "update"}
    BY <1>1 DEF DirectOps, ThreadOps, Operations, Joins, GuardedJoins, DiscoverJoins
  <2>2. c.buf \in Dms /\ Changed(c.op, c.buf) \in Truth
    BY <1>1, <1>4, <2>1, PossibleOn, ChangedTruth
  <2>3. r \in DirectFrame /\ r.buf = c.buf
    BY <2>2, DirectFrameIs
  <2> HIDE DEF r
  <2>4. Fits(c.op, c.buf, r) /\ r \in Frame \cup {None}
    BY <2>1, <2>3 DEF Fits, Frame
  <2>5. AnswerCommitting(c, c.op, r)
    BY <1>4 DEF r
  <2> QED
    BY <1>4, <2>1, <2>4, <2>5, AnswerCommittingKeeps
<1> QED
  BY <1>2, <1>3, <1>4 DEF ServeDirect

LEMMA ServeMessageKeeps ==
    ASSUME CInv, NEW c \in calls, ServeMessage(c)
    PROVE  CInv' /\ ui' = ui
<1>1. truth \in Truth /\ c.op = "msg" /\ None \in Frame \cup {None}
  BY DEF ServeMessage, CInv, TruthOK
<1>2. CASE AnswerUnchanged(c, "refused", None)
  BY <1>1, <1>2, AnswerUnchangedKeeps
<1>3. ASSUME Possible("say", c.buf),
             AnswerCommitting(c, "say", DirectFrameOf(Changed("say", c.buf), c.buf))
      PROVE  CInv' /\ ui' = ui
  <2> DEFINE r == DirectFrameOf(Changed("say", c.buf), c.buf)
  <2>1. "say" \in Operations /\ "say" \in ThreadOps
    BY DEF ThreadOps, Operations
  <2>2. c.buf \in Dms /\ Changed("say", c.buf) \in Truth
    BY <1>1, <1>3, <2>1, PossibleOn, ChangedTruth
  <2>3. r \in DirectFrame /\ r.buf = c.buf /\ r.open
    BY <1>1, <2>2, DirectFrameIs, SayOpens
  <2> HIDE DEF r
  <2>4. Fits(c.op, c.buf, r) /\ r \in Frame \cup {None}
    BY <1>1, <2>3 DEF Fits, Frame, Joins, GuardedJoins, DiscoverJoins
  <2>5. AnswerCommitting(c, "say", r)
    BY <1>3 DEF r
  <2> QED
    BY <1>3, <2>1, <2>4, <2>5, AnswerCommittingKeeps
<1> QED
  BY <1>2, <1>3 DEF ServeMessage

LEMMA ServePlainKeeps ==
    ASSUME CInv, NEW c \in calls, ServePlain(c)
    PROVE  CInv' /\ ui' = ui
<1>1. /\ truth \in Truth /\ c.op \in {"seen", "leave", "up", "down", "delete"}
      /\ None \in Frame \cup {None}
  BY DEF ServePlain, CInv, TruthOK
<1>2. CASE AnswerUnchanged(c, "refused", None)
  BY <1>1, <1>2, AnswerUnchangedKeeps
<1>3. ASSUME Possible(c.op, c.buf), AnswerCommitting(c, c.op, PlainReply(c.op, c.buf))
      PROVE  CInv' /\ ui' = ui
  <2> DEFINE r == PlainReply(c.op, c.buf)
  <2>1. c.op \in Operations /\ c.op \notin DirectOps \cup {"msg"} /\ c.op \notin Joins
    BY <1>1 DEF DirectOps, ThreadOps, ChannelOps, ServerOps, Operations, Joins, GuardedJoins, DiscoverJoins
  <2>2. Changed(c.op, c.buf) \in Truth
    BY <1>1, <1>3, <2>1, ChangedTruth
  <2>3. c.op \in {"up", "down"} => r \in StatusFrame /\ r.buf = c.buf
    BY <1>1, <1>3, <2>1, <2>2, FrameOfIs DEF PlainReply
  <2>4. c.op \notin {"up", "down"} => r = None
    BY DEF PlainReply
  <2> HIDE DEF r
  <2>5. Fits(c.op, c.buf, r) /\ r \in Frame \cup {None}
    BY <1>1, <2>1, <2>3, <2>4 DEF Fits, Frame
  <2>6. AnswerCommitting(c, c.op, r)
    BY <1>3 DEF r
  <2> QED
    BY <1>3, <2>1, <2>5, <2>6, AnswerCommittingKeeps
<1> QED
  BY <1>2, <1>3 DEF ServePlain

\* The server record of an answer.
LEMMA StatusFrameIs ==
    ASSUME truth \in Truth, NEW s \in Servers
    PROVE  /\ [type |-> "server:status", buf |-> s, status |-> truth.status[s]] \in StatusFrame
           /\ [type |-> "server:status", buf |-> s, status |-> truth.status[s]] \in Frame
           /\ [type |-> "server:status", buf |-> s, status |-> truth.status[s]].buf = s
BY DEF Truth, StatusFrame, Frame

LEMMA ServeUpdateKeeps ==
    ASSUME CInv, NEW c \in calls, ServeUpdate(c)
    PROVE  CInv' /\ ui' = ui
<1>1. truth \in Truth /\ c.op = "update" /\ None \in Frame \cup {None}
  BY DEF ServeUpdate, CInv, TruthOK
<1>2. CASE AnswerUnchanged(c, "refused", None)
  BY <1>1, <1>2, AnswerUnchangedKeeps
<1> DEFINE r == [type |-> "server:status", buf |-> c.buf, status |-> truth.status[c.buf]]
<1>3. CASE AnswerUnchanged(c, "answered", r)
  <2>1. c.buf \in Servers
    BY <1>1, OfTheCall DEF About
  <2>2. r \in StatusFrame /\ r \in Frame /\ r.buf = c.buf
    BY <1>1, <2>1, StatusFrameIs
  <2> HIDE DEF r
  <2>3. Fits(c.op, c.buf, r)
    BY <1>1, <2>2 DEF Fits, DirectOps, Joins, GuardedJoins, DiscoverJoins
  <2> QED
    BY <1>3, <2>2, <2>3, AnswerUnchangedKeeps
<1> QED
  BY <1>2, <1>3 DEF ServeUpdate

LEMMA ServeJoinKeeps ==
    ASSUME CInv, NEW c \in calls, ServeJoin(c)
    PROVE  CInv' /\ ui' = ui
<1>1. truth \in Truth /\ c.op \in Joins /\ None \in Frame \cup {None}
  BY DEF ServeJoin, CInv, TruthOK
<1> DEFINE r == [type |-> "server:status", buf |-> Owner[c.buf], status |-> truth.status[Owner[c.buf]]]
<1>2. CASE AnswerUnchanged(c, "refused", None)
  BY <1>1, <1>2, AnswerUnchangedKeeps
<1>3. Owner[c.buf] \in Servers
  BY <1>1, OfTheCall, ClientAssumption DEF About, ClientAssumption, Buffers
<1>4. r \in StatusFrame /\ r \in Frame
  BY <1>1, <1>3, StatusFrameIs
<1>5. \/ Possible("join", c.buf) /\ AnswerCommitting(c, "join", r)
      \/ AnswerUnchanged(c, "answered", r)
      \/ Possible("create", c.buf) /\ AnswerCommitting(c, "create", r)
      \/ AnswerUnchanged(c, "refused", None)
  BY DEF ServeJoin
<1> HIDE DEF r
<1>6. Fits(c.op, c.buf, r) /\ {"join", "create"} \subseteq Operations
  BY <1>1, <1>4 DEF Fits, DirectOps, Joins, GuardedJoins, DiscoverJoins, Operations, ChannelOps
<1>7. CASE Possible("join", c.buf) /\ AnswerCommitting(c, "join", r)
  BY <1>4, <1>6, <1>7, AnswerCommittingKeeps
<1>8. CASE Possible("create", c.buf) /\ AnswerCommitting(c, "create", r)
  BY <1>4, <1>6, <1>8, AnswerCommittingKeeps
<1>9. CASE AnswerUnchanged(c, "answered", r)
  BY <1>4, <1>6, <1>9, AnswerUnchangedKeeps
<1> QED
  BY <1>2, <1>5, <1>7, <1>8, <1>9

LEMMA ServeListingKeeps ==
    ASSUME CInv, NEW c \in calls, ServeListing(c)
    PROVE  CInv' /\ ui' = ui
<1>1. c.op \in ListingOps /\ None \in Frame \cup {None}
  BY DEF ServeListing
<1>2. Fits(c.op, c.buf, None)
  BY <1>1 DEF Fits, ListingOps, DirectOps, Joins, GuardedJoins, DiscoverJoins
<1>3. PICK stage \in {"answered", "refused"} : AnswerUnchanged(c, stage, None)
  BY DEF ServeListing
<1> QED
  BY <1>1, <1>2, <1>3, AnswerUnchangedKeeps
-----------------------------------------------------------------------------
(* Calls are settled.                                                      *)

\* What was on the socket for the call is off it.
LEMMA SettledFrees ==
    ASSUME CInv, NEW c, NEW stages, Settled(c, stages), "sent" \notin stages
    PROVE  /\ c \in calls /\ CallOK(c) /\ c.stage \in stages
           /\ WireOK(wire', calls) /\ \A i \in DOMAIN wire' : wire'[i] # Reply(c.id)
           /\ UNCHANGED <<truth, unpublished, link, sessions, boot, queue>>
<1>1. /\ c \in calls /\ c.stage \in stages
      /\ IF c.op \in Pushes /\ c.stage # "lost"
         THEN wire # <<>> /\ Head(wire) = Reply(c.id) /\ wire' = Tail(wire)
         ELSE wire' = wire
      /\ UNCHANGED <<truth, unpublished, link, sessions, boot, queue>>
  BY DEF Settled
<1>2. CallOK(c) /\ WireOK(wire, calls) /\ CallsOK(calls, spent.steps)
  BY <1>1, OfTheCall DEF CInv
<1>3. CASE c.op \in Pushes /\ c.stage # "lost"
  <2>1. wire # <<>> /\ Head(wire) = Reply(c.id) /\ wire' = Tail(wire)
    BY <1>1, <1>3
  <2>2. IsReply(Reply(c.id))
    BY DEF IsReply, Reply
  <2>3. WireOK(Tail(wire), calls) /\ \A i \in DOMAIN Tail(wire) : Tail(wire)[i] # Reply(c.id)
    BY <1>2, <2>1, <2>2, WireTail
  <2> QED
    BY <1>1, <1>2, <2>1, <2>3
<1>4. CASE ~(c.op \in Pushes /\ c.stage # "lost")
  <2>1. wire' = wire
    BY <1>1, <1>4
  <2>2. \A i \in DOMAIN wire : wire[i] # Reply(c.id)
    BY <1>1, <1>2, <1>4, AwaitedIsUnique
  <2> QED
    BY <1>1, <1>2, <2>1, <2>2
<1> QED
  BY <1>3, <1>4

LEMMA DoneKeeps ==
    ASSUME CInv, NEW c, NEW stages, Settled(c, stages), "sent" \notin stages, Done(c)
    PROVE  CallsOK(calls', spent.steps) /\ WireOK(wire', calls') /\ ListingsOK(listing, calls')
<1>1. c \in calls /\ WireOK(wire', calls) /\ \A i \in DOMAIN wire' : wire'[i] # Reply(c.id)
  BY SettledFrees
<1>2. calls' = calls \ {c}
  BY DEF Done
<1>3. WireOK(wire', calls')
  BY <1>1, <1>2, WireWithout
<1> QED
  BY <1>2, <1>3, CallsRemoved DEF CInv

\* A picture that follows is one the invariant allows.
LEMMA PictureKeeps ==
    ASSUME CInv, Follows(ui, ui'), boot' = boot
    PROVE  PictureOK(ui', boot')
BY DEF CInv, PictureOK, Follows

LEMMA StaysInPlace ==
    ASSUME CInv, ui' = ui
    PROVE  Follows(ui, ui')
BY FollowsItself DEF CInv, PictureOK

LEMMA RefreshRequested ==
    ASSUME CInv, RequestRefresh(ui)
    PROVE  RefreshOK(refresh', queue, again') /\ unsure' \subseteq Servers \cup Buffers
<1>1. RefreshOK(refresh, queue, again) /\ unsure \subseteq Servers \cup Buffers /\ Picture(ui)
  BY DEF CInv, Rest, PictureOK
<1>2. CASE refresh.stage # "idle"
  <2>1. again' = TRUE /\ refresh' = refresh /\ unsure' = unsure
    BY <1>2 DEF RequestRefresh
  <2> QED
    BY <1>1, <1>2, <2>1 DEF RefreshOK
<1>3. CASE refresh.stage = "idle"
  <2>1. /\ refresh' = [stage |-> "sent", snapshot |-> None, selected |-> CurrentBuffer(ui)]
        /\ unsure' = {} /\ again' = again
    BY <1>3 DEF RequestRefresh
  <2>2. CurrentBuffer(ui) \in Servers \cup Buffers \cup {None}
    BY <1>1, CurrentBufferIs
  <2> QED
    BY <1>1, <2>1, <2>2 DEF RefreshOK
<1> QED
  BY <1>2, <1>3

LEMMA Settles ==
    ASSUME CInv, NEW c, NEW stages, Settled(c, stages), "sent" \notin stages, Done(c),
           Follows(ui, ui'), RefreshOK(refresh', queue, again'), ListingsOK(listing', calls'),
           unsure' \subseteq Servers \cup Buffers, spent' = spent
    PROVE  CInv'
<1>1. UNCHANGED <<truth, unpublished, link, sessions, boot, queue>>
  BY SettledFrees
<1>2. CallsOK(calls', spent.steps) /\ WireOK(wire', calls')
  BY DoneKeeps
<1>3. PictureOK(ui', boot')
  BY <1>1, PictureKeeps
<1> QED
  BY <1>1, <1>2, <1>3 DEF CInv, Rest

LEMMA SettleDirectKeeps ==
    ASSUME CInv, NEW c \in calls, SettleDirect(c)
    PROVE  CInv' /\ Follows(ui, ui')
<1> DEFINE stages == {"answered", "stale", "refused", "lost"}
<1>1. /\ c.op \in DirectOps /\ Settled(c, stages) /\ Done(c) /\ "sent" \notin stages
      /\ ui' = IF c.stage = "answered" THEN ApplyDirectMessage(ui, c.reply) ELSE ui
      /\ UNCHANGED <<listing, spent>>
  BY DEF SettleDirect
<1> HIDE DEF stages
<1>2. ListingsOK(listing', calls')
  BY <1>1, DoneKeeps
<1>3. Follows(ui, ui')
  <2>1. CASE c.stage = "answered"
    <3>1. c.reply \in DirectFrame
      BY <1>1, <2>1, OfTheCall DEF Answered, Fits
    <3>2. Picture(ui) /\ ui' = ApplyDirectMessage(ui, c.reply)
      BY <1>1, <2>1 DEF CInv, PictureOK
    <3> QED
      BY <3>1, <3>2, ApplyDirectMessageFollows
  <2>2. CASE c.stage # "answered"
    BY <1>1, <2>2, StaysInPlace
  <2> QED
    BY <2>1, <2>2
<1>4. RefreshOK(refresh', queue, again') /\ unsure' \subseteq Servers \cup Buffers
  <2>1. CASE c.stage = "stale"
    BY <2>1, RefreshRequested DEF SettleDirect
  <2>2. CASE c.stage # "stale"
    <3>1. c.buf \in Buffers
      BY <1>1, OfTheCall DEF About, Buffers
    <3>2. refresh' = refresh /\ again' = again /\ unsure' \subseteq unsure \cup {c.buf}
      BY <2>2 DEF SettleDirect
    <3> QED
      BY <3>1, <3>2 DEF CInv, Rest
  <2> QED
    BY <2>1, <2>2
<1> QED
  BY <1>1, <1>2, <1>3, <1>4, Settles

LEMMA SettlePlainKeeps ==
    ASSUME CInv, NEW c \in calls, SettlePlain(c)
    PROVE  CInv' /\ Follows(ui, ui')
<1> DEFINE stages == {"answered", "refused", "lost"}
<1>1. /\ c.op \in {"seen", "leave", "up", "down", "delete"}
      /\ Settled(c, stages) /\ Done(c) /\ "sent" \notin stages
      /\ UNCHANGED <<refresh, again, listing, unsure, spent>>
  BY DEF SettlePlain
<1> HIDE DEF stages
<1>2. ListingsOK(listing', calls')
  BY <1>1, DoneKeeps
<1>3. Picture(ui) /\ RefreshOK(refresh', queue, again') /\ unsure' \subseteq Servers \cup Buffers
  BY <1>1 DEF CInv, PictureOK, Rest
<1>4. Follows(ui, ui')
  <2>1. CASE c.stage = "answered" /\ c.op = "delete"
    <3>1. c.buf \in Servers /\ ui' = RemoveServer(ui, c.buf)
      BY <2>1, OfTheCall DEF About, SettlePlain
    <3> QED
      BY <1>3, <3>1, RemoveServerFollows
  <2>2. CASE c.stage = "answered" /\ c.op \in {"up", "down"}
    <3>1. c.reply \in StatusFrame /\ ui' = ApplyServerStatus(ui, c.reply)
      BY <2>2, OfTheCall DEF Answered, Fits, SettlePlain
    <3> QED
      BY <1>3, <3>1, ApplyServerStatusFollows
  <2>3. CASE c.stage # "answered" \/ c.op \notin {"delete", "up", "down"}
    <3>1. ui' = ui
      BY <2>3 DEF SettlePlain
    <3> QED
      BY <3>1, StaysInPlace
  <2> QED
    BY <2>1, <2>2, <2>3
<1> QED
  BY <1>1, <1>2, <1>3, <1>4, Settles
LEMMA SettleUpdateKeeps ==
    ASSUME CInv, NEW c \in calls, SettleUpdate(c)
    PROVE  CInv' /\ Follows(ui, ui')
<1> DEFINE stages == {"answered", "refused", "lost"}
           d == [c EXCEPT !.op = "up", !.stage = "sent", !.reply = None]
<1>1. /\ c.op = "update" /\ Settled(c, stages) /\ "sent" \notin stages
      /\ UNCHANGED <<refresh, again, listing, spent>>
  BY DEF SettleUpdate
<1>2. /\ c.stage = "answered" =>
           /\ ui' = ApplyServerStatus(ui, c.reply) /\ unsure' = unsure \cup {c.buf}
           /\ calls' = calls \ {c} \/ calls' = (calls \ {c}) \cup {d}
      /\ c.stage # "answered" => calls' = calls \ {c} /\ ui' = ui /\ unsure' = unsure
  BY DEF SettleUpdate, Done
<1>3. CallOK(d) /\ Further(c, d)
  <2>1. c \in Call /\ About(c) /\ c.op \notin ListingOps
    BY <1>1, OfTheCall DEF ListingOps
  <2> DEFINE e == [[[c EXCEPT !.op = "up"] EXCEPT !.stage = "sent"] EXCEPT !.reply = None]
  <2>2. d = e
    BY <2>1 DEF Call
  <2>3. /\ e \in Call /\ e.id = c.id /\ e.op = "up" /\ e.buf = c.buf /\ e.held = c.held
        /\ e.query = c.query /\ e.stage = "sent"
    BY <2>1 DEF Call, Ops, Stages
  <2> HIDE DEF d, e
  <2>4. About(e)
    BY <1>1, <2>1, <2>3 DEF About, DirectOps, Joins, GuardedJoins, DiscoverJoins, ListingOps
  <2>5. "up" \notin ListingOps
    BY DEF ListingOps
  <2> QED
    BY <2>2, <2>3, <2>4, <2>5 DEF CallOK, Answered, Further
<1> HIDE DEF stages, d
<1>4. /\ WireOK(wire', calls) /\ \A i \in DOMAIN wire' : wire'[i] # Reply(c.id)
      /\ UNCHANGED <<truth, unpublished, link, sessions, boot, queue>>
  BY <1>1, SettledFrees
<1>5. WireOK(wire', calls')
  BY <1>2, <1>4, WireWithout
<1>6. CallsOK(calls', spent.steps) /\ ListingsOK(listing, calls')
  <2>1. CallsOK(calls, spent.steps) /\ ListingsOK(listing, calls)
    BY DEF CInv
  <2>2. CallsOK(calls \ {c}, spent.steps) /\ ListingsOK(listing, calls \ {c})
    BY <2>1, CallsRemoved
  <2>3. CallsOK((calls \ {c}) \cup {d}, spent.steps) /\ ListingsOK(listing, (calls \ {c}) \cup {d})
    BY <1>3, <2>1, CallsReplaced
  <2>4. calls' = calls \ {c} \/ calls' = (calls \ {c}) \cup {d}
    BY <1>2
  <2> QED
    BY <2>2, <2>3, <2>4
<1>7. Follows(ui, ui')
  <2>1. CASE c.stage = "answered"
    <3>1. c.reply \in StatusFrame
      BY <1>1, <2>1, OfTheCall DEF Answered, Fits
    <3>2. Picture(ui) /\ ui' = ApplyServerStatus(ui, c.reply)
      BY <1>2, <2>1 DEF CInv, PictureOK
    <3> QED
      BY <3>1, <3>2, ApplyServerStatusFollows
  <2>2. CASE c.stage # "answered"
    BY <1>2, <2>2, StaysInPlace
  <2> QED
    BY <2>1, <2>2
<1>8. unsure' \subseteq Servers \cup Buffers
  <2>1. c.buf \in Servers
    BY <1>1, OfTheCall DEF About
  <2> QED
    BY <1>2, <2>1 DEF CInv, Rest
<1>9. PictureOK(ui', boot')
  BY <1>4, <1>7, PictureKeeps
<1> QED
  BY <1>1, <1>4, <1>5, <1>6, <1>7, <1>8, <1>9 DEF CInv, Rest

\* The counter of listing requests may run ahead of those under way.
LEMMA ListingsCancelled ==
    ASSUME NEW l, NEW cs, ListingsOK(l, cs), NEW n \in {0, 1}, \A c \in cs : c.held \in Int
    PROVE  ListingsOK([l EXCEPT !.req = @ + n], cs)
<1> DEFINE r == l.req + n
           m == [l EXCEPT !.req = r]
<1>1. l \in Listing /\ l.req \in Nat /\ r \in Nat /\ (r = l.req \/ r = l.req + 1)
  BY DEF ListingsOK, Listing
<1>2. /\ m \in Listing /\ m.req = r /\ m.dir = l.dir /\ m.dirAsked = l.dirAsked
      /\ m.disc = l.disc /\ m.discAsked = l.discAsked
  BY <1>1 DEF Listing
<1>3. [l EXCEPT !.req = @ + n] = m
  BY <1>1 DEF Listing
<1> HIDE DEF m, r
<1>4. Answering(m)
  BY <1>2 DEF ListingsOK, Answering
<1>5. ASSUME NEW c \in cs, c.op \in ListingOps
      PROVE  Asked(m, c)
  <2>1. Asked(l, c) /\ c.held \in Int
    BY <1>5 DEF ListingsOK
  <2>2. c.held > 0 => c.held <= m.req /\ (c.held = m.req => c.held = l.req)
    BY <1>1, <1>2, <2>1 DEF Asked
  <2> QED
    BY <1>2, <2>1, <2>2 DEF Asked
<1> QED
  BY <1>2, <1>3, <1>4, <1>5 DEF ListingsOK

LEMMA HeldIsInt ==
    ASSUME NEW cs, NEW n, CallsOK(cs, n)
    PROVE  \A c \in cs : c.held \in Int
BY CallFields DEF CallsOK

LEMMA SettleJoinKeeps ==
    ASSUME CInv, NEW c \in calls, SettleJoin(c)
    PROVE  CInv' /\ Follows(ui, ui')
<1> DEFINE stages == {"answered", "refused", "lost"}
           status == IF c.op \in MembershipJoins THEN c.status ELSE c.reply.status
<1>1. /\ c.op \in Joins /\ Settled(c, stages) /\ Done(c) /\ "sent" \notin stages
      /\ UNCHANGED <<refresh, again, spent>>
  BY DEF SettleJoin
<1> HIDE DEF stages
<1>2. \/ UNCHANGED <<ui, listing, unsure>>
      \/ /\ c.stage = "answered"
         /\ ui' = ApplyJoined(ui, c.buf, status, c.op \in MembershipJoins)
         /\ listing' = [listing EXCEPT !.req = @ + (IF c.op = "command" THEN 1 ELSE 0)]
         /\ unsure' = unsure \cup JoinUnsure(c)
  BY DEF SettleJoin
<1>3. c.buf \in Channels /\ c.status \in Status
  BY <1>1, OfTheCall DEF About
<1>4. ListingsOK(listing', calls')
  <2> DEFINE n == IF c.op = "command" THEN 1 ELSE 0
  <2>1. n \in {0, 1}
    OBVIOUS
  <2>2. CallsOK(calls', spent.steps) /\ ListingsOK(listing, calls')
    BY <1>1, DoneKeeps
  <2>3. listing' = listing \/ listing' = [listing EXCEPT !.req = @ + n]
    BY <1>2
  <2> HIDE DEF n
  <2>4. ListingsOK([listing EXCEPT !.req = @ + n], calls')
    BY <2>1, <2>2, HeldIsInt, ListingsCancelled
  <2> QED
    BY <2>2, <2>3, <2>4
<1>5. Picture(ui) /\ RefreshOK(refresh', queue, again') /\ unsure \subseteq Servers \cup Buffers
  BY <1>1 DEF CInv, PictureOK, Rest
<1>6. Follows(ui, ui')
  <2>1. CASE UNCHANGED <<ui, listing, unsure>>
    BY <2>1, StaysInPlace
  <2>2. CASE c.stage = "answered" /\ ui' = ApplyJoined(ui, c.buf, status, c.op \in MembershipJoins)
    <3>1. c.reply.status \in Status
      BY <1>1, <2>2, OfTheCall DEF Answered, Fits, StatusFrame
    <3>2. status \in Status
      BY <1>3, <3>1
    <3> HIDE DEF status
    <3> QED
      BY <1>3, <1>5, <2>2, <3>2, ApplyJoinedFollows
  <2> QED
    BY <1>2, <2>1, <2>2
<1>7. unsure' \subseteq Servers \cup Buffers
  <2>1. Owner[c.buf] \in Servers /\ c.buf \in Buffers
    BY <1>3, ClientAssumption DEF ClientAssumption, Buffers
  <2>2. JoinUnsure(c) \subseteq Servers \cup Buffers
    BY <2>1 DEF JoinUnsure
  <2> QED
    BY <1>2, <1>5, <2>2
<1> QED
  BY <1>1, <1>4, <1>5, <1>6, <1>7, Settles

LEMMA SettleMessageKeeps ==
    ASSUME CInv, NEW c \in calls, SettleMessage(c)
    PROVE  CInv' /\ Follows(ui, ui')
<1> DEFINE stages == {"answered", "refused", "lost"}
           u == ApplyDirectMessage(ui, c.reply)
           opened == AcceptDirectMessageRevision(ui, c.reply) \/ ui.dm[c.buf].rev = c.reply.rev
<1>1. /\ c.op = "msg" /\ Settled(c, stages) /\ Done(c) /\ "sent" \notin stages
      /\ UNCHANGED <<refresh, again, spent>>
  BY DEF SettleMessage
<1> HIDE DEF stages
<1>2. \/ UNCHANGED <<ui, listing, unsure>>
      \/ /\ c.stage = "answered" /\ Owner[c.buf] \in ui.known
         /\ ui' = IF opened THEN Select(u, "chat", Owner[c.buf], c.buf) ELSE u
         /\ listing' = [listing EXCEPT !.req = @ + (IF opened THEN 1 ELSE 0)]
         /\ unsure' \subseteq unsure \cup {c.buf}
  BY DEF SettleMessage
<1>3. c.buf \in Dms /\ Owner[c.buf] \in Servers /\ c.buf \in Buffers
  BY <1>1, OfTheCall, ClientAssumption DEF About, ClientAssumption, Buffers
<1>4. /\ Picture(ui) /\ RefreshOK(refresh', queue, again') /\ unsure \subseteq Servers \cup Buffers
  BY <1>1 DEF CInv, PictureOK, Rest
<1>5. CallsOK(calls', spent.steps) /\ ListingsOK(listing, calls')
  BY <1>1, DoneKeeps
<1>6. ListingsOK(listing', calls')
  <2> DEFINE n == IF opened THEN 1 ELSE 0
  <2>1. n \in {0, 1}
    OBVIOUS
  <2>2. listing' = listing \/ listing' = [listing EXCEPT !.req = @ + n]
    BY <1>2
  <2> HIDE DEF n
  <2>3. ListingsOK([listing EXCEPT !.req = @ + n], calls')
    BY <1>5, <2>1, HeldIsInt, ListingsCancelled
  <2> QED
    BY <1>5, <2>2, <2>3
<1>7. Follows(ui, ui')
  <2>1. CASE UNCHANGED <<ui, listing, unsure>>
    BY <2>1, StaysInPlace
  <2>2. CASE /\ c.stage = "answered" /\ Owner[c.buf] \in ui.known
             /\ ui' = IF opened THEN Select(u, "chat", Owner[c.buf], c.buf) ELSE u
    <3>1. c.reply \in DirectFrame /\ c.reply.buf = c.buf /\ c.reply.open
      BY <1>1, <2>2, OfTheCall DEF Answered, Fits
    <3>2. Follows(ui, u)
      BY <1>4, <3>1, ApplyDirectMessageFollows
    <3>3. opened => c.buf \in Shown(u)
      <4>1. CASE AcceptDirectMessageRevision(ui, c.reply)
        <5>1. u = UpsertDirectMessage(ui, c.reply) /\ c.reply.rev > ui.revs[c.reply.buf]
          BY <3>1, <4>1 DEF ApplyDirectMessage, AcceptDirectMessageRevision
        <5> QED
          BY <1>4, <3>1, <5>1, UpsertDirectKeeps
      <4>2. CASE ~AcceptDirectMessageRevision(ui, c.reply) /\ ui.dm[c.buf].rev = c.reply.rev
        <5>1. u = ui
          BY <4>2 DEF ApplyDirectMessage
        <5>2. c.reply.rev # Absent
          BY <3>1 DEF DirectFrame, Absent
        <5> QED
          BY <1>3, <4>2, <5>1, <5>2 DEF Shown
      <4> QED
        BY <4>1, <4>2
    <3> HIDE DEF u, opened
    <3>4. Picture(u)
      BY <3>2 DEF Follows
    <3>5. opened => Follows(u, Select(u, "chat", Owner[c.buf], c.buf))
      <4>1. "chat" \in Views /\ "chat" # "directory"
        BY DEF Views
      <4> QED
        BY <1>3, <3>3, <3>4, <4>1, SelectFollows
    <3> QED
      BY <1>4, <2>2, <3>2, <3>5, FollowsOn
  <2> QED
    BY <1>2, <2>1, <2>2
<1>8. unsure' \subseteq Servers \cup Buffers
  BY <1>2, <1>3, <1>4
<1> QED
  BY <1>1, <1>4, <1>6, <1>7, <1>8, Settles
\* What a wanted answer puts on show is what was asked for last.
LEMMA ListedKeeps ==
    ASSUME CInv, NEW c \in calls, c.op \in ListingOps, Wanted(c), NEW status \in {"ready", "error"}
    PROVE  ListingsOK(Listed(c, status), calls)
<1>1. listing \in Listing /\ Answering(listing) /\ Asked(listing, c)
  BY DEF CInv, ListingsOK
<1>2. c.buf \in Servers \cup {None} /\ c.query \in Queries \cup {None} /\ c.held \in Int
  BY OfTheCall DEF About, Call
<1>3. CASE ForDirectory(c)
  <2> DEFINE x == [server |-> c.buf, query |-> c.query, status |-> status]
             m == [listing EXCEPT !.dir = x]
  <2>1. Listed(c, status) = m
    BY <1>3 DEF Listed, InDirectoryView
  <2>2. /\ m \in Listing /\ m.req = listing.req /\ m.dir = x /\ m.dirAsked = listing.dirAsked
        /\ m.disc = listing.disc /\ m.discAsked = listing.discAsked
    BY <1>1, <1>2 DEF Listing
  <2>3. <<x.server, x.query>> = listing.dirAsked
    BY <1>1, <1>2, <1>3 DEF Wanted, ForDirectory, Asked
  <2> HIDE DEF x, m
  <2>4. Answering(m)
    BY <1>1, <2>2, <2>3 DEF Answering
  <2>5. \A e \in calls : e.op \in ListingOps => Asked(m, e)
    BY <2>2 DEF CInv, ListingsOK, Asked
  <2> QED
    BY <2>1, <2>2, <2>4, <2>5 DEF ListingsOK
<1>4. CASE ~ForDirectory(c)
  <2> DEFINE r == listing.disc.req
             x == [req |-> r, server |-> c.buf, query |-> c.query, status |-> status]
             m == [listing EXCEPT !.disc = x]
  <2>1. Listed(c, status) = m
    BY <1>1, <1>4 DEF Listed, Discovered, Listing
  <2>2. /\ m \in Listing /\ m.req = listing.req /\ m.dir = listing.dir
        /\ m.dirAsked = listing.dirAsked
        /\ m.disc = x /\ m.discAsked = listing.discAsked /\ x.req = listing.disc.req
    BY <1>1, <1>2 DEF Listing
  <2>3. <<x.server, x.query>> = listing.discAsked
    BY <1>1, <1>2, <1>4 DEF Wanted, ForDirectory, Asked
  <2> HIDE DEF x, m
  <2>4. Answering(m)
    BY <1>1, <2>2, <2>3 DEF Answering
  <2>5. \A e \in calls : e.op \in ListingOps => Asked(m, e)
    BY <2>2 DEF CInv, ListingsOK, Asked
  <2> QED
    BY <2>1, <2>2, <2>4, <2>5 DEF ListingsOK
<1> QED
  BY <1>3, <1>4

LEMMA SettleListingKeeps ==
    ASSUME CInv, NEW c \in calls, SettleListing(c)
    PROVE  CInv' /\ Follows(ui, ui')
<1> DEFINE stages == {"answered", "refused", "lost"}
<1>1. /\ c.op \in ListingOps /\ Settled(c, stages) /\ Done(c) /\ "sent" \notin stages
      /\ UNCHANGED <<ui, refresh, again, unsure, spent>>
  BY DEF SettleListing
<1> HIDE DEF stages
<1>2. listing' = listing \/ (Wanted(c) /\ \E status \in {"ready", "error"} : listing' = Listed(c, status))
  BY DEF SettleListing, ListingFailed
<1>3. ListingsOK(listing', calls)
  <2>1. ListingsOK(listing, calls)
    BY DEF CInv
  <2> QED
    BY <1>1, <1>2, <2>1, ListedKeeps
<1>4. calls' \subseteq calls
  BY <1>1 DEF Done
<1>5. ListingsOK(listing', calls')
  BY <1>3, <1>4 DEF ListingsOK
<1>6. Follows(ui, ui')
  BY <1>1, StaysInPlace
<1>7. RefreshOK(refresh', queue, again') /\ unsure' \subseteq Servers \cup Buffers /\ spent' = spent
  BY <1>1 DEF CInv, Rest
<1> QED
  BY <1>1, <1>5, <1>6, <1>7, Settles

-----------------------------------------------------------------------------
(* What the user asks for.                                                 *)

\* A request that is no listing: the rest stays as it is.
LEMMA Asks ==
    ASSUME CInv, NEW op \in Ops \ ListingOps, NEW b, NEW held \in Int, NEW status \in Status \cup {None},
           Ask(op, b, held, status, None),
           op \in DirectOps \cup {"msg"} => b \in Dms,
           op \in {"seen", "leave"} \cup Joins => b \in Channels,
           op \in {"up", "down", "delete", "update"} => b \in Servers,
           op \in Joins => status \in Status,
           UNCHANGED <<truth, unpublished, wire, link, sessions, boot, ui, refresh, again, queue, listing, unsure>>
    PROVE  CInv' /\ ui' = ui
<1>1. b \in Servers \cup Buffers \cup {None} /\ (op \in ListingOps => b \in Servers \cup {None})
  BY DEF Ops, Buffers
<1>2. /\ spent' \in Spent /\ CallsOK(calls', spent'.steps) /\ WireOK(wire, calls')
      /\ \E d : calls' = calls \cup {d} /\ d.op = op
  BY <1>1, AskKeeps
<1>3. ListingsOK(listing, calls')
  BY <1>2 DEF CInv, ListingsOK
<1> QED
  BY <1>2, <1>3 DEF CInv, Rest

LEMMA AskDirectKeeps ==
    ASSUME CInv, NEW op \in DirectOps, NEW d \in Dms, AskDirect(op, d)
    PROVE  CInv' /\ ui' = ui
<1>1. op \in Ops \ ListingOps /\ op # "msg" /\ op \notin {"seen", "leave"} \cup Joins
      /\ op \notin {"up", "down", "delete", "update"}
  BY DEF DirectOps, Ops, ListingOps, Joins, GuardedJoins, DiscoverJoins
<1>2. ui.dm[d].rev \in Int
  <2>1. ui.dm \in [Dms -> ThreadRecord]
    BY PictureFields DEF CInv, PictureOK
  <2>2. ui.dm[d] \in ThreadRecord
    BY <2>1
  <2> QED
    BY <2>2 DEF ThreadRecord, Absent
<1>3. /\ Ask(op, d, ui.dm[d].rev, None, None)
      /\ UNCHANGED <<truth, unpublished, wire, link, sessions, boot, ui, refresh, again, queue, listing, unsure>>
  BY DEF AskDirect
<1> QED
  BY <1>1, <1>2, <1>3, Asks

LEMMA AskMessageKeeps ==
    ASSUME CInv, NEW d \in Dms, AskMessage(d)
    PROVE  CInv' /\ ui' = ui
<1>1. "msg" \in Ops \ ListingOps /\ "msg" \notin {"seen", "leave"} \cup Joins
      /\ "msg" \notin {"up", "down", "delete", "update"} /\ Absent \in Int
  BY DEF Ops, ListingOps, Joins, GuardedJoins, DiscoverJoins, Absent
<1>2. /\ Ask("msg", d, Absent, None, None)
      /\ UNCHANGED <<truth, unpublished, wire, link, sessions, boot, ui, refresh, again, queue, listing, unsure>>
  BY DEF AskMessage
<1> QED
  BY <1>1, <1>2, Asks

LEMMA AskPlainKeeps ==
    ASSUME CInv, NEW op \in {"seen", "leave", "up", "down", "delete", "update"},
           NEW b \in Channels \cup Servers, AskPlain(op, b)
    PROVE  CInv' /\ ui' = ui
<1>1. op \in Ops \ ListingOps /\ op \notin DirectOps \cup {"msg"} /\ op \notin Joins /\ Absent \in Int
  BY DEF Ops, ListingOps, DirectOps, Joins, GuardedJoins, DiscoverJoins, Absent
<1>2. (op \in {"seen", "leave"} => b \in Channels) /\ (op \notin {"seen", "leave"} => b \in Servers)
  <2>1. ui.known \subseteq Servers
    BY PictureFields DEF CInv, PictureOK
  <2> QED
    BY <2>1 DEF AskPlain
<1>3. /\ Ask(op, b, Absent, None, None)
      /\ UNCHANGED <<truth, unpublished, wire, link, sessions, boot, ui, refresh, again, queue, listing, unsure>>
  BY DEF AskPlain
<1> QED
  BY <1>1, <1>2, <1>3, Asks

LEMMA AskJoinKeeps ==
    ASSUME CInv, NEW op \in Joins, NEW c \in Channels, AskJoin(op, c)
    PROVE  CInv' /\ ui' = ui
<1> DEFINE held == IF op \in GuardedJoins THEN ui.versions[c] ELSE Absent
           status == IF op = "manual" THEN "disconnected" ELSE ui.status[Owner[c]]
<1>1. op \in Ops \ ListingOps /\ op \notin DirectOps \cup {"msg"}
      /\ op \notin {"up", "down", "delete", "update"}
  BY DEF Ops, ListingOps, DirectOps, Joins, GuardedJoins, DiscoverJoins
<1>2. held \in Int /\ status \in Status
  <2>1. ui.versions \in [Channels -> Nat] /\ ui.status \in [Servers -> Status]
    BY PictureFields DEF CInv, PictureOK
  <2>2. Owner[c] \in Servers
    BY ClientAssumption DEF ClientAssumption, Buffers
  <2> QED
    BY <2>1, <2>2 DEF Absent, Status
<1>3. /\ Ask(op, c, held, status, None)
      /\ UNCHANGED <<truth, unpublished, wire, link, sessions, boot, ui, refresh, again, queue, listing, unsure>>
  BY DEF AskJoin
<1> HIDE DEF held, status
<1> QED
  BY <1>1, <1>2, <1>3, Asks
LEMMA CancelledKeeps ==
    ASSUME CInv
    PROVE  ListingsOK(Cancelled, calls)
<1>1. ListingsOK(listing, calls) /\ \A c \in calls : c.held \in Int
  BY HeldIsInt DEF CInv
<1>2. ListingsOK([listing EXCEPT !.req = @ + 1], calls)
  BY <1>1, ListingsCancelled
<1> QED
  BY <1>2 DEF Cancelled

LEMMA OperatedKeeps ==
    ASSUME CInv, NEW cost \in 0..5, Operated(cost), Follows(ui, ui'), ListingsOK(listing', calls),
           RefreshOK(refresh', queue, again'), unsure' \subseteq Servers \cup Buffers,
           UNCHANGED <<truth, unpublished, wire, calls, link, sessions, boot, queue>>
    PROVE  CInv'
<1>1. spent' \in Spent /\ CallsOK(calls, spent'.steps)
  BY Spends
<1>2. PictureOK(ui', boot')
  BY PictureKeeps
<1> QED
  BY <1>1, <1>2 DEF CInv, Rest

LEMMA NavigateToChannelKeeps ==
    ASSUME CInv, NEW b \in Buffers, NavigateToChannel(b)
    PROVE  CInv' /\ Follows(ui, ui')
<1>1. /\ b \in Shown(ui) /\ Operated(4) /\ ui' = Select(ui, "chat", Owner[b], b) /\ listing' = Cancelled
      /\ UNCHANGED <<truth, unpublished, wire, calls, link, sessions, boot, refresh, again, queue, unsure>>
  BY DEF NavigateToChannel
<1>2. Picture(ui) /\ "chat" \in Views /\ Owner[b] \in Servers
  BY ClientAssumption DEF CInv, PictureOK, Views, ClientAssumption
<1>3. Follows(ui, ui')
  BY <1>1, <1>2, SelectFollows
<1>4. RefreshOK(refresh', queue, again') /\ unsure' \subseteq Servers \cup Buffers
  BY <1>1 DEF CInv, Rest
<1> QED
  BY <1>1, <1>3, <1>4, CancelledKeeps, OperatedKeeps

LEMMA NavigateToServerKeeps ==
    ASSUME CInv, NEW s \in Servers, NavigateToServer(s)
    PROVE  CInv' /\ Follows(ui, ui')
<1>1. /\ Operated(4) /\ ui' = Select(ui, "server", s, None) /\ listing' = Cancelled
      /\ UNCHANGED <<truth, unpublished, wire, calls, link, sessions, boot, refresh, again, queue, unsure>>
  BY DEF NavigateToServer
<1>2. Picture(ui) /\ "server" \in Views
  BY DEF CInv, PictureOK, Views
<1>3. Follows(ui, ui')
  BY <1>1, <1>2, SelectFollows
<1>4. RefreshOK(refresh', queue, again') /\ unsure' \subseteq Servers \cup Buffers
  BY <1>1 DEF CInv, Rest
<1> QED
  BY <1>1, <1>3, <1>4, CancelledKeeps, OperatedKeeps

LEMMA WantedFollows ==
    ASSUME NEW u, Picture(u), NEW b \in Buffers
    PROVE  Follows(u, [u EXCEPT !.wanted = b])
<1> DEFINE v == [u EXCEPT !.wanted = b]
<1>1. u \in Ui
  BY DEF Picture
<1>2. /\ v \in Ui /\ v.known = u.known /\ v.unread = u.unread /\ v.dm = u.dm /\ v.revs = u.revs
      /\ v.view = u.view /\ v.server = u.server /\ v.buf = u.buf
  BY <1>1 DEF Ui
<1> HIDE DEF v
<1>3. Shown(v) = Shown(u)
  BY <1>2 DEF Shown
<1>4. \A d \in Dms : v.revs[d] >= u.revs[d]
  BY <1>2, Revisions
<1>5. Follows(u, v)
  BY <1>2, <1>3, <1>4 DEF Follows, Picture, OwnersKnown, Selection
<1> QED
  BY <1>5 DEF v

LEMMA NotificationClickKeeps ==
    ASSUME CInv, NEW b \in Buffers, NotificationClick(b)
    PROVE  CInv' /\ Follows(ui, ui')
<1> DEFINE v == [ui EXCEPT !.wanted = b]
<1>1. /\ Operated(4)
      /\ UNCHANGED <<truth, unpublished, wire, calls, link, sessions, boot, queue, listing>>
      /\ \/ ui' = SelectBuffer(v, b) /\ UNCHANGED <<refresh, again, unsure>>
         \/ ui' = v /\ RequestRefresh(ui)
  BY DEF NotificationClick
<1>2. Picture(ui) /\ Follows(ui, v)
  BY WantedFollows DEF CInv, PictureOK
<1> HIDE DEF v
<1>3. Picture(v) /\ Follows(v, SelectBuffer(v, b))
  BY <1>2, SelectBufferFollows DEF Follows
<1>4. Follows(ui, ui')
  BY <1>1, <1>2, <1>3, FollowsOn
<1>5. RefreshOK(refresh', queue, again') /\ unsure' \subseteq Servers \cup Buffers
  <2>1. CASE UNCHANGED <<refresh, again, unsure>>
    BY <2>1 DEF CInv, Rest
  <2>2. CASE RequestRefresh(ui)
    BY <2>2, RefreshRequested
  <2> QED
    BY <1>1, <2>1, <2>2
<1>6. ListingsOK(listing', calls)
  BY <1>1 DEF CInv
<1> QED
  BY <1>1, <1>4, <1>5, <1>6, OperatedKeeps

\* The listing request d is the newest: it asked for what was asked for last.
LEMMA NewestAsked ==
    ASSUME NEW l, NEW cs, ListingsOK(l, cs), \A c \in cs : c.held \in Int, NEW d, NEW m, m \in Listing,
           Answering(m), d.held \in Int, m.req = l.req + 1,
           \/ d.held = m.req /\ <<d.buf, d.query>> = m.dirAsked
              /\ m.disc = l.disc /\ m.discAsked = l.discAsked
           \/ d.held = -m.disc.req /\ m.disc.req = l.disc.req + 1 /\ <<d.buf, d.query>> = m.discAsked
    PROVE  ListingsOK(m, cs \cup {d})
<1>1. l.req \in Nat /\ l.disc.req \in Nat /\ m.req \in Nat /\ m.disc.req \in Nat
  BY DEF ListingsOK, Listing
<1>2. Asked(m, d)
  BY <1>1 DEF Asked
<1>3. ASSUME NEW c \in cs, c.op \in ListingOps
      PROVE  Asked(m, c)
  <2>1. Asked(l, c) /\ c.held \in Int
    BY <1>3 DEF ListingsOK
  <2>2. c.held > 0 => c.held <= m.req /\ c.held # m.req
    BY <1>1, <2>1 DEF Asked
  <2>3. CASE m.disc = l.disc /\ m.discAsked = l.discAsked
    BY <2>1, <2>2, <2>3 DEF Asked
  <2>4. CASE m.disc.req = l.disc.req + 1
    <3>1. c.held < 0 => -c.held <= m.disc.req /\ -c.held # m.disc.req
      BY <1>1, <2>1, <2>4 DEF Asked
    <3> QED
      BY <2>1, <2>2, <3>1 DEF Asked
  <2> QED
    BY <2>3, <2>4
<1> QED
  BY <1>2, <1>3 DEF ListingsOK

LEMMA OpenDirectoryKeeps ==
    ASSUME CInv, NEW s \in Servers, NEW q \in Queries, OpenDirectory(s, q)
    PROVE  CInv' /\ Follows(ui, ui')
<1> DEFINE r == listing.req + 1
           x == [server |-> s, query |-> q, status |-> "loading"]
           m == [[[listing EXCEPT !.req = r] EXCEPT !.dir = x] EXCEPT !.dirAsked = <<s, q>>]
<1>1. /\ s \in ui.known /\ ui' = ShowDirectory(ui, s)
      /\ \/ Operated(3) /\ UNCHANGED <<calls, listing>>
         \/ /\ Ask("list", s, r, None, q)
            /\ listing' = [listing EXCEPT !.req = @ + 1, !.dir = x, !.dirAsked = <<s, q>>]
      /\ UNCHANGED <<truth, unpublished, wire, link, sessions, boot, refresh, again, queue, unsure>>
  BY DEF OpenDirectory
<1>2. Picture(ui) /\ listing \in Listing /\ listing.req \in Nat /\ Answering(listing)
  BY DEF CInv, PictureOK, ListingsOK, Listing
<1>3. Follows(ui, ui')
  <2>1. ui.buf \in Buffers \cup {None} /\ "directory" \in Views /\ "directory" # "chat"
    BY <1>2, PictureFields DEF Views
  <2>2. Follows(ui, Select(ui, "directory", s, ui.buf))
    BY <1>1, <1>2, <2>1, SelectFollows
  <2> QED
    BY <1>1, <2>2 DEF ShowDirectory
<1>4. RefreshOK(refresh', queue, again') /\ unsure' \subseteq Servers \cup Buffers
  BY <1>1 DEF CInv, Rest
<1>5. CASE Operated(3) /\ UNCHANGED <<calls, listing>>
  <2>1. ListingsOK(listing', calls)
    BY <1>5 DEF CInv
  <2> QED
    BY <1>1, <1>3, <1>4, <1>5, <2>1, OperatedKeeps
<1>6. CASE /\ Ask("list", s, r, None, q)
           /\ listing' = [listing EXCEPT !.req = @ + 1, !.dir = x, !.dirAsked = <<s, q>>]
  <2>1. "list" \in Ops /\ "list" \in ListingOps /\ "list" \notin DirectOps \cup {"msg"}
        /\ "list" \notin {"seen", "leave"} \cup Joins /\ "list" \notin {"up", "down", "delete", "update"}
        /\ r \in Nat /\ r \in Int
    BY <1>2 DEF Ops, ListingOps, DirectOps, Joins, GuardedJoins, DiscoverJoins
  <2>2. listing' = m
    BY <1>2, <1>6 DEF Listing
  <2>3. /\ m \in Listing /\ m.req = r /\ m.dir = x /\ m.dirAsked = <<s, q>>
        /\ m.disc = listing.disc /\ m.discAsked = listing.discAsked
    BY <1>2, <2>1 DEF Listing, SearchOf
  <2>4. x.status # "ready"
    OBVIOUS
  <2> HIDE DEF m, x
  <2>5. Answering(m)
    BY <1>2, <2>3, <2>4 DEF Answering
  <2> DEFINE h == r
  <2>6. h = listing.req + 1 /\ Ask("list", s, h, None, q)
    BY <1>6
  <2> HIDE DEF h
  <2>7. /\ spent' \in Spent /\ CallsOK(calls', spent'.steps) /\ WireOK(wire, calls')
        /\ \E d : calls' = calls \cup {d} /\ d.held = h /\ d.buf = s /\ d.query = q
    BY <2>1, <2>6, AskKeeps DEF h
  <2>8. PICK d : calls' = calls \cup {d} /\ d.held = h /\ d.buf = s /\ d.query = q
    BY <2>7
  <2>9. ListingsOK(m, calls \cup {d})
    <3>1. ListingsOK(listing, calls) /\ \A c \in calls : c.held \in Int
      BY HeldIsInt DEF CInv
    <3>2. <<d.buf, d.query>> = m.dirAsked /\ d.held = m.req /\ d.held \in Int /\ m.req = listing.req + 1
      BY <2>1, <2>3, <2>6, <2>8 DEF h
    <3> QED
      BY ONLY <2>3, <2>5, <3>1, <3>2, NewestAsked
  <2>10. PictureOK(ui', boot')
    BY <1>1, <1>3, PictureKeeps
  <2> QED
    BY <1>1, <1>3, <1>4, <2>2, <2>7, <2>8, <2>9, <2>10 DEF CInv, Rest
<1> QED
  BY <1>1, <1>5, <1>6
LEMMA NavigateToDiscoverKeeps ==
    ASSUME CInv, NEW tab \in {"all", "server"}, NEW q \in Queries, NavigateToDiscover(tab, q)
    PROVE  CInv' /\ Follows(ui, ui')
<1> DEFINE s == IF tab = "server" THEN DiscoverServer ELSE None
           op == IF tab = "server" THEN "list" ELSE "search"
           r == listing.req + 1
           n == listing.disc.req + 1
           h == -n
           x == [req |-> n, server |-> s, query |-> q, status |-> "loading"]
           m == [[[listing EXCEPT !.req = r] EXCEPT !.disc = x] EXCEPT !.discAsked = <<s, q>>]
<1>1. /\ tab = "server" => s # None
      /\ Ask(op, s, h, None, q)
      /\ ui' = [ui EXCEPT !.view = "discover"]
      /\ listing' = [listing EXCEPT !.req = @ + 1,
                        !.disc = [req |-> @.req + 1, server |-> s, query |-> q, status |-> "loading"],
                        !.discAsked = <<s, q>>]
      /\ UNCHANGED <<truth, unpublished, wire, link, sessions, boot, refresh, again, queue, unsure>>
  BY DEF NavigateToDiscover
<1>2. /\ Picture(ui) /\ ui \in Ui /\ listing \in Listing /\ Answering(listing)
      /\ listing.req \in Nat /\ listing.disc.req \in Nat
  BY DEF CInv, PictureOK, Picture, ListingsOK, Listing
<1>3. Follows(ui, ui')
  <2>1. /\ ui.server \in Servers \cup {None} /\ ui.buf \in Buffers \cup {None}
        /\ "discover" \in Views /\ "discover" \notin {"chat", "directory"}
    BY <1>2, PictureFields DEF Views
  <2>2. Follows(ui, Select(ui, "discover", ui.server, ui.buf))
    BY <1>2, <2>1, SelectFollows
  <2>3. Select(ui, "discover", ui.server, ui.buf) = [ui EXCEPT !.view = "discover"]
    BY <1>2 DEF Select, Ui
  <2> QED
    BY <1>1, <2>2, <2>3
<1>4. s \in Servers \cup {None}
  <2>1. ui.known \subseteq Servers
    BY <1>2, PictureFields
  <2>2. FirstOf(ui.known) \in Servers \cup {None}
    <3>1. CASE ui.known = {}
      BY <3>1 DEF FirstOf
    <3>2. CASE ui.known # {}
      BY <2>1, <3>2, FirstOfIs
    <3> QED
      BY <3>1, <3>2
  <2> QED
    BY <2>1, <2>2 DEF DiscoverServer
<1>5. op \in Ops /\ op \in ListingOps /\ op \notin DirectOps \cup {"msg"}
      /\ op \notin {"seen", "leave"} \cup Joins /\ op \notin {"up", "down", "delete", "update"}
  BY DEF Ops, ListingOps, DirectOps, Joins, GuardedJoins, DiscoverJoins
<1>6. listing' = m
  BY <1>1, <1>2 DEF Listing
<1> HIDE DEF s, op
<1>7. /\ m \in Listing /\ m.req = r /\ m.disc = x /\ m.discAsked = <<s, q>>
      /\ m.dir = listing.dir /\ m.dirAsked = listing.dirAsked
  <2>1. r \in Nat /\ <<s, q>> \in SearchOf
    BY <1>2, <1>4 DEF SearchOf
  <2>2. x \in [req : Nat, server : Servers \cup {None}, query : Queries \cup {None},
               status : {"idle", "loading", "ready", "error"}]
    BY <1>2, <1>4
  <2> DEFINE a == <<s, q>>
  <2> HIDE DEF r, x, a
  <2> QED
    BY <1>2, <2>1, <2>2 DEF Listing, a
<1>8. x.status # "ready" /\ x.req = n
  OBVIOUS
<1> HIDE DEF m, x
<1>9. Answering(m)
  BY <1>2, <1>7, <1>8 DEF Answering
<1>10. h \in Int /\ n = listing.disc.req + 1 /\ h = -n /\ n \in Nat
  <2>1. n = listing.disc.req + 1 /\ n \in Nat
    BY <1>2
  <2> HIDE DEF n
  <2> QED
    BY <2>1
<1> HIDE DEF n, h
<1>11. /\ spent' \in Spent /\ CallsOK(calls', spent'.steps) /\ WireOK(wire, calls')
       /\ \E d : calls' = calls \cup {d} /\ d.held = h /\ d.buf = s /\ d.query = q
  BY <1>1, <1>4, <1>5, <1>10, AskKeeps
<1>12. PICK d : calls' = calls \cup {d} /\ d.held = h /\ d.buf = s /\ d.query = q
  BY <1>11
<1>13. ListingsOK(m, calls \cup {d})
  <2>1. ListingsOK(listing, calls) /\ \A c \in calls : c.held \in Int
    BY HeldIsInt DEF CInv
  <2>2. /\ <<d.buf, d.query>> = m.discAsked /\ d.held = -m.disc.req /\ d.held \in Int
        /\ m.req = listing.req + 1 /\ m.disc.req = listing.disc.req + 1
    BY <1>7, <1>8, <1>10, <1>12
  <2> QED
    BY ONLY <1>7, <1>9, <2>1, <2>2, NewestAsked
<1>14. PictureOK(ui', boot')
  BY <1>1, <1>3, PictureKeeps
<1>15. RefreshOK(refresh', queue', again') /\ unsure' \subseteq Servers \cup Buffers
  BY <1>1 DEF CInv, Rest
<1> QED
  BY <1>1, <1>3, <1>6, <1>11, <1>12, <1>13, <1>14, <1>15 DEF CInv, Rest

-----------------------------------------------------------------------------
(* Snapshots, the link and what arrives.                                   *)

LEMMA BootServedKeeps ==
    ASSUME CInv, BootServed
    PROVE  CInv' /\ ui' = ui
<1>1. boot' = [stage |-> "answered", snapshot |-> truth] /\ truth \in Truth
  BY DEF BootServed, CInv, TruthOK
<1>2. BootOK(boot') /\ boot'.stage # "ready"
  BY <1>1 DEF BootOK
<1>3. UNCHANGED <<truth, unpublished, wire, calls, link, sessions, ui, refresh, again, queue,
                  listing, unsure, spent>>
  BY DEF BootServed
<1> QED
  BY <1>2, <1>3 DEF CInv, PictureOK

LEMMA BootAppliedKeeps ==
    ASSUME CInv, BootApplied
    PROVE  CInv' /\ Follows(ui, ui')
<1>1. /\ boot' = [stage |-> "ready", snapshot |-> None] /\ boot.snapshot \in Truth
      /\ ui' = ApplyBootstrap(ui, boot.snapshot, None, FALSE) /\ link' = "joining"
      /\ UNCHANGED <<truth, unpublished, wire, calls, sessions, refresh, again, queue, listing,
                     unsure, spent>>
  BY DEF BootApplied, CInv, BootOK
<1>2. Follows(ui, ui') /\ Selection(ui')
  <2>1. Picture(ui) /\ FALSE \in BOOLEAN
    BY DEF CInv, PictureOK
  <2> QED
    BY <1>1, <2>1, BootstrapSelects
<1>3. BootOK(boot') /\ PictureOK(ui', boot')
  BY <1>1, <1>2 DEF BootOK, PictureOK, Follows
<1> QED
  BY <1>1, <1>2, <1>3 DEF CInv, Rest

LEMMA RefreshServedKeeps ==
    ASSUME CInv, RefreshServed
    PROVE  CInv' /\ ui' = ui
<1> DEFINE r == [[refresh EXCEPT !.stage = "answered"] EXCEPT !.snapshot = truth]
<1>1. RefreshOK(refresh, queue, again) /\ truth \in Truth
  BY DEF CInv, TruthOK
<1>2. refresh' = r
  BY <1>1 DEF RefreshServed, RefreshOK
<1>3. RefreshOK(r, queue, again)
  BY <1>1 DEF RefreshOK
<1>4. UNCHANGED <<truth, unpublished, wire, calls, link, sessions, boot, ui, again, queue,
                  listing, unsure, spent>>
  BY DEF RefreshServed
<1> HIDE DEF r
<1> QED
  BY <1>2, <1>3, <1>4 DEF CInv

\* The refresh goes on to the reconciliation of its buffers.
LEMMA Reconciles ==
    ASSUME CInv
    PROVE  RefreshOK([NoRefresh EXCEPT !.stage = "reconciling"], queue, again)
<1> DEFINE r == [NoRefresh EXCEPT !.stage = "reconciling"]
<1>1. r = [stage |-> "reconciling", snapshot |-> None, selected |-> None]
  BY DEF NoRefresh
<1>2. RefreshOK(refresh, queue, again)
  BY DEF CInv
<1> HIDE DEF r
<1>3. RefreshOK(r, queue, again)
  BY <1>1, <1>2 DEF RefreshOK
<1> QED
  BY <1>3 DEF r

LEMMA RefreshAppliedKeeps ==
    ASSUME CInv, RefreshApplied
    PROVE  CInv' /\ Follows(ui, ui')
<1>1. /\ refresh.snapshot \in Truth
      /\ ui' = ApplyBootstrap(ui, refresh.snapshot, refresh.selected, TRUE)
      /\ refresh' = [NoRefresh EXCEPT !.stage = "reconciling"]
      /\ UNCHANGED <<truth, unpublished, wire, calls, link, sessions, boot, again, queue,
                     listing, unsure, spent>>
  BY DEF RefreshApplied, CInv, RefreshOK
<1>2. Follows(ui, ui')
  <2>1. Picture(ui) /\ TRUE \in BOOLEAN
    BY DEF CInv, PictureOK
  <2> QED
    BY <1>1, <2>1, BootstrapSelects
<1>3. PictureOK(ui', boot')
  BY <1>1, <1>2, PictureKeeps
<1> QED
  BY <1>1, <1>2, <1>3, Reconciles DEF CInv

LEMMA RefreshFailsKeeps ==
    ASSUME CInv, RefreshFails
    PROVE  CInv' /\ ui' = ui
<1>1. /\ Unlucky /\ refresh' = [NoRefresh EXCEPT !.stage = "reconciling"]
      /\ unsure' = unsure \cup Servers \cup Buffers
      /\ UNCHANGED <<truth, unpublished, wire, calls, link, sessions, boot, ui, again, queue, listing>>
  BY DEF RefreshFails
<1>2. spent' \in Spent /\ CallsOK(calls, spent'.steps)
  BY <1>1, Spends
<1> QED
  BY <1>1, <1>2, Reconciles DEF CInv, Rest

LEMMA RefreshSettlesKeeps ==
    ASSUME CInv, RefreshSettles
    PROVE  CInv' /\ Follows(ui, ui')
<1>1. /\ RefreshOK(refresh, queue, again) /\ Picture(ui) /\ unsure \subseteq Servers \cup Buffers
      /\ queue \in Seq([frame : Frame, session : Nat])
      /\ UNCHANGED <<truth, unpublished, wire, calls, link, sessions, boot, listing, spent>>
  BY DEF RefreshSettles, CInv, PictureOK, Rest, RefreshOK
<1>2. CASE again
  <2>1. /\ refresh' = [stage |-> "sent", snapshot |-> None, selected |-> CurrentBuffer(ui)]
        /\ again' = FALSE /\ unsure' = {} /\ UNCHANGED <<ui, queue>>
    BY <1>2 DEF RefreshSettles
  <2>2. CurrentBuffer(ui) \in Servers \cup Buffers \cup {None}
    BY <1>1, CurrentBufferIs
  <2>3. RefreshOK(refresh', queue', again')
    BY <1>1, <2>1, <2>2 DEF RefreshOK
  <2> QED
    BY <1>1, <2>1, <2>3, StaysInPlace DEF CInv, Rest
<1>3. CASE ~again
  <2>1. /\ refresh' = NoRefresh /\ ui' = ApplyFrames(ui, queue) /\ queue' = <<>>
        /\ unsure' = unsure \cup Outdated(queue) /\ again' = again
    BY <1>3 DEF RefreshSettles
  <2>2. Follows(ui, ui')
    BY <1>1, <2>1, ApplyFramesFollows
  <2>3. PictureOK(ui', boot')
    BY <1>1, <2>2, PictureKeeps
  <2>4. RefreshOK(refresh', queue', again')
    <3>1. queue' \in Seq([frame : Frame, session : Nat]) /\ queue' = <<>>
      BY <2>1
    <3>2. /\ NoRefresh \in [stage : {"idle", "sent", "answered", "reconciling"},
                         snapshot : Truth \cup {None}, selected : Servers \cup Buffers \cup {None}]
          /\ NoRefresh.stage = "idle"
      BY DEF NoRefresh
    <3>3. again' = FALSE
      BY <1>1, <1>3, <2>1 DEF RefreshOK
    <3> QED
      BY ONLY <2>1, <3>1, <3>2, <3>3 DEF RefreshOK
  <2>5. unsure' \subseteq Servers \cup Buffers
    <3>1. \A i \in DOMAIN queue : queue[i] \in [frame : Frame, session : Nat]
      BY <1>1, Elements
    <3>2. \A i \in DOMAIN queue : queue[i].frame.buf \in Servers \cup Buffers
      <4>1. \A f \in Frame : f.buf \in Servers \cup Buffers
        BY DEF Frame, JoinedFrame, LeftFrame, UnreadFrame, StatusFrame, DirectFrame, Buffers
      <4> QED
        BY <3>1, <4>1
    <3>3. Outdated(queue) \subseteq Servers \cup Buffers
      BY <3>2, ClientAssumption DEF Outdated, ClientAssumption
    <3> QED
      BY <1>1, <2>1, <3>3
  <2> QED
    BY <1>1, <2>1, <2>2, <2>3, <2>4, <2>5 DEF CInv, Rest
<1> QED
  BY <1>2, <1>3
LEMMA StatusFramesAre ==
    ASSUME truth \in Truth, NEW S \in SUBSET Servers
    PROVE  StatusFrames(S) \in Seq(Frame)
<1> DEFINE places == {i \in DOMAIN Order : Order[i] \in S}
           At(n) == Order[Nth(places, n)]
           F(n) == [type |-> "server:status", buf |-> At(n), status |-> truth.status[At(n)]]
<1>1. Len(Order) \in Nat /\ places \subseteq 1..Len(Order)
  BY ClientAssumption, Elements DEF ClientAssumption
<1>2. Cardinality(places) \in Nat
  BY <1>1, IntervalSubset
<1>3. ASSUME NEW n \in 1..Cardinality(places)
      PROVE  F(n) \in Frame
  <2>1. \E i \in places : Cardinality(AtOrBelow(places, i)) = n
    BY ONLY <1>1, <1>3, RankExists
  <2>2. Nth(places, n) \in places
    <3> HIDE DEF places
    <3> QED
      BY <2>1 DEF Nth, AtOrBelow
  <2>3. At(n) \in Servers
    BY <2>2
  <2> HIDE DEF At
  <2> QED
    BY <2>3, StatusFrameIs
<1>4. StatusFrames(S) = [n \in 1..Cardinality(places) |-> F(n)]
  BY DEF StatusFrames
<1> HIDE DEF F, places
<1> QED
  BY <1>2, <1>3, <1>4

LEMMA JoinOkKeeps ==
    ASSUME CInv, JoinOk
    PROVE  CInv' /\ ui' = ui
<1>1. /\ link' = "joined" /\ sessions' = sessions + 1 /\ wire' = StatusFrames(truth.live)
      /\ link # "joined" /\ RequestRefresh(ui)
      /\ UNCHANGED <<truth, unpublished, calls, boot, ui, queue, listing, spent>>
  BY DEF JoinOk
<1>2. truth \in Truth /\ truth.live \subseteq Servers /\ sessions' \in Nat
  BY <1>1 DEF CInv, TruthOK, Truth, Rest
<1>3. WireOK(wire', calls)
  <2>1. StatusFrames(truth.live) \in Seq(Frame)
    BY <1>2, StatusFramesAre
  <2> DEFINE w == StatusFrames(truth.live)
  <2> HIDE DEF w
  <2>2. w \in Seq(Frame) /\ wire' = w
    BY <1>1, <2>1 DEF w
  <2>3. w \in Seq(Frame \cup Answers) /\ \A i \in DOMAIN w : w[i] \in Frame
    BY <2>2, Elements
  <2>4. \A i \in DOMAIN w : ~IsReply(w[i])
    BY <2>3, FramesAreNoReplies
  <2> QED
    BY <2>2, <2>3, <2>4 DEF WireOK
<1>4. RefreshOK(refresh', queue, again') /\ unsure' \subseteq Servers \cup Buffers
  BY <1>1, RefreshRequested
<1> QED
  BY <1>1, <1>2, <1>3, <1>4 DEF CInv, Rest

LEMMA JoinFailsKeeps ==
    ASSUME CInv, JoinFails
    PROVE  CInv' /\ ui' = ui
<1>1. /\ Unlucky /\ link' = "refused"
      /\ UNCHANGED <<truth, unpublished, wire, calls, sessions, boot, ui, refresh, again, queue,
                     listing, unsure>>
  BY DEF JoinFails
<1>2. spent' \in Spent /\ CallsOK(calls, spent'.steps)
  BY <1>1, Spends
<1> QED
  BY <1>1, <1>2 DEF CInv, Rest

\* The socket is lost with what was on it: no answer waits, none is waited for.
LEMMA LinkLostKeeps ==
    ASSUME CInv, NEW to \in {"down", "closed"}, LinkLost(to)
    PROVE  CInv' /\ ui' = ui
<1> DEFINE L(c) == IF c.op \in Pushes THEN Staged(c, "lost", None) ELSE c
<1>1. /\ Unlucky /\ link' = to /\ wire' = <<>> /\ calls' = {L(c) : c \in calls}
      /\ UNCHANGED <<truth, unpublished, sessions, boot, ui, refresh, again, queue, listing, unsure>>
  BY DEF LinkLost, Staged
<1>2. spent' \in Spent /\ CallsOK(calls, spent'.steps)
  BY <1>1, Spends
<1>3. \A c \in calls : CallOK(L(c)) /\ Further(c, L(c))
  <2> SUFFICES ASSUME NEW c \in calls
               PROVE  CallOK(L(c)) /\ Further(c, L(c))
    OBVIOUS
  <2>1. CallOK(c) /\ "lost" \in Stages /\ None \in Frame \cup {None} /\ "lost" # "answered"
    BY OfTheCall DEF Stages
  <2>2. CallOK(Staged(c, "lost", None)) /\ Further(c, Staged(c, "lost", None))
    BY <2>1, StagedCall
  <2>3. Further(c, c)
    BY DEF Further
  <2> QED
    BY <2>1, <2>2, <2>3
<1> HIDE DEF L
<1>4. CallsOK(calls', spent'.steps)
  BY <1>1, <1>2, <1>3 DEF CallsOK, Further
<1>5. ListingsOK(listing, calls')
  BY <1>1, <1>3 DEF CInv, ListingsOK, Further, Asked
<1>6. WireOK(wire', calls')
  <2>1. wire' = <<>> /\ <<>> \in Seq(Frame \cup Answers)
    BY <1>1
  <2> QED
    BY <2>1 DEF WireOK
<1> QED
  BY <1>1, <1>2, <1>4, <1>5, <1>6 DEF CInv, Rest

LEMMA LinkMoves ==
    ASSUME CInv, SocketOpens \/ RetryRealtimeConnection
    PROVE  CInv' /\ ui' = ui
<1>1. /\ link' \in {"joining", "down"}
      /\ UNCHANGED <<truth, unpublished, wire, calls, sessions, boot, ui, refresh, again, queue,
                     listing, unsure, spent>>
  BY DEF SocketOpens, RetryRealtimeConnection
<1> QED
  BY <1>1 DEF CInv, Rest

LEMMA PublishDirectMessageKeeps ==
    ASSUME CInv, NEW f \in unpublished, PublishDirectMessage(f)
    PROVE  CInv' /\ ui' = ui
<1>1. /\ unpublished' = unpublished \ {f}
      /\ wire' = Append(wire, f) \/ wire' = wire
      /\ UNCHANGED <<truth, calls, link, sessions, boot, ui, refresh, again, queue, listing, unsure, spent>>
  BY DEF PublishDirectMessage
<1>2. TruthOK(truth, unpublished') /\ f \in Frame /\ WireOK(wire, calls)
  BY <1>1 DEF CInv, TruthOK, Frame
<1> DEFINE o == <<f>>
<1>3. o \in Seq(Frame)
  BY <1>2
<1>4. Append(wire, f) = wire \o o
  <2>1. wire \in Seq(Frame \cup Answers)
    BY <1>2 DEF WireOK
  <2>2. f \in Frame \cup Answers
    BY <1>2
  <2> DEFINE T == Frame \cup Answers
  <2> HIDE DEF T
  <2>3. wire \in Seq(T) /\ f \in T
    BY <2>1, <2>2 DEF T
  <2> QED
    BY <2>3
<1> HIDE DEF o
<1>5. WireOK(wire \o o, calls)
  BY <1>2, <1>3, WireGrows
<1> QED
  BY <1>1, <1>2, <1>4, <1>5 DEF CInv

LEMMA ReceiveFrameKeeps ==
    ASSUME CInv, ReceiveFrame
    PROVE  CInv' /\ Follows(ui, ui')
<1> DEFINE f == Head(wire)
<1>1. /\ wire # <<>> /\ ~IsReply(f) /\ wire' = Tail(wire)
      /\ \/ refresh.stage = "idle" /\ ui' = ApplyFrame(ui, f) /\ UNCHANGED queue
         \/ /\ refresh.stage # "idle" /\ UNCHANGED ui
            /\ queue' = Append(queue, [frame |-> f, session |-> sessions])
      /\ UNCHANGED <<truth, unpublished, calls, link, sessions, boot, refresh, again, listing, unsure, spent>>
  BY DEF ReceiveFrame, IsReply
<1>2. WireOK(wire', calls) /\ f \in Frame
  <2>1. WireOK(wire, calls)
    BY DEF CInv
  <2>2. WireOK(Tail(wire), calls) /\ f \in Frame \cup Answers
    BY <1>1, <2>1, WireTail
  <2> HIDE DEF f
  <2> QED
    BY <1>1, <2>2, ReplyIs
<1> HIDE DEF f
<1>3. Picture(ui) /\ RefreshOK(refresh, queue, again) /\ sessions \in Nat
  BY DEF CInv, PictureOK, Rest
<1>4. Follows(ui, ui')
  BY <1>1, <1>2, <1>3, ApplyFrameFollows, StaysInPlace
<1>5. RefreshOK(refresh', queue', again')
  <2>1. CASE UNCHANGED queue
    BY <1>1, <1>3, <2>1
  <2>2. CASE /\ refresh.stage # "idle"
             /\ queue' = Append(queue, [frame |-> f, session |-> sessions])
    <3> DEFINE Held == [frame : Frame, session : Nat]
               e == [frame |-> f, session |-> sessions]
    <3>1. queue \in Seq(Held) /\ e \in Held
      BY <1>2, <1>3 DEF RefreshOK
    <3> HIDE DEF Held, e
    <3>2. Append(queue, e) \in Seq(Held)
      BY <3>1
    <3>3. queue' \in Seq(Held)
      BY <2>2, <3>2 DEF e
    <3> QED
      BY <1>1, <1>3, <2>2, <3>3 DEF RefreshOK, Held
  <2> QED
    BY <1>1, <2>1, <2>2
<1>6. PictureOK(ui', boot')
  BY <1>1, <1>4, PictureKeeps
<1> QED
  BY <1>1, <1>2, <1>4, <1>5, <1>6 DEF CInv

LEMMA ChangeElsewhereKeeps ==
    ASSUME CInv, NEW op \in ElsewhereOps, NEW b, ChangeElsewhere(op, b)
    PROVE  CInv' /\ ui' = ui
<1>1. /\ spent.events < MaxEvents /\ spent.steps < MaxSteps /\ Possible(op, b) /\ Commit(op, b)
      /\ wire' = wire \o Published(op, b)
      /\ spent' = [spent EXCEPT !.steps = @ + 1, !.events = @ + 1]
      /\ UNCHANGED <<calls, link, sessions, boot, ui, refresh, again, queue, listing, unsure>>
  BY DEF ChangeElsewhere
<1>2. op \in Operations /\ truth \in Truth /\ unpublished \subseteq DirectFrame
  BY DEF ElsewhereOps, Operations, ThreadOps, ChannelOps, ServerOps, CInv, TruthOK
<1>3. truth' \in Truth /\ unpublished' \subseteq DirectFrame
  BY <1>1, <1>2, CommitKeeps
<1>4. WireOK(wire', calls)
  <2>1. Published(op, b) \in Seq(Frame) /\ WireOK(wire, calls)
    BY <1>1, <1>2, PublishedIs DEF CInv
  <2>2. WireOK(wire \o Published(op, b), calls)
    BY <2>1, WireGrows
  <2> QED
    BY <1>1, <2>2
<1>5. spent' \in Spent /\ CallsOK(calls, spent'.steps)
  <2>1. spent \in Spent /\ {MaxSteps, MaxEvents, MaxDrops} \subseteq Nat
    BY ClientAssumption DEF CInv, Rest, ClientAssumption
  <2> DEFINE m == spent.steps + 1
             n == spent.events + 1
  <2>2. m \in 0..MaxSteps /\ n \in 0..MaxEvents
    BY <1>1, <2>1 DEF Spent
  <2>3. spent' = [[spent EXCEPT !.steps = m] EXCEPT !.events = n]
    BY <1>1, <2>1 DEF Spent
  <2>4. spent' \in Spent /\ spent'.steps = spent.steps + 1
    BY <2>1, <2>2, <2>3 DEF Spent
  <2> QED
    BY <2>4, SpentOn
<1> QED
  BY <1>1, <1>3, <1>4, <1>5 DEF CInv, TruthOK, Rest

LEMMA CallFailsKeeps ==
    ASSUME CInv, NEW c \in calls, CallFails(c)
    PROVE  CInv' /\ ui' = ui
<1> DEFINE d == [c EXCEPT !.stage = "lost"]
<1>1. /\ c.stage = "answered" /\ c.op \notin Pushes /\ Unlucky /\ calls' = (calls \ {c}) \cup {d}
      /\ UNCHANGED <<truth, unpublished, wire, link, sessions, boot, ui, refresh, again, queue,
                     listing, unsure>>
  BY DEF CallFails
<1>2. c \in Call /\ About(c) /\ WireOK(wire, calls) /\ CallsOK(calls, spent.steps)
  BY OfTheCall DEF CInv
<1>3. /\ d \in Call /\ d.id = c.id /\ d.op = c.op /\ d.buf = c.buf /\ d.held = c.held
      /\ d.status = c.status /\ d.query = c.query /\ d.stage = "lost"
  BY <1>2 DEF Call, Stages
<1> HIDE DEF d
<1>4. CallOK(d) /\ Further(c, d)
  BY <1>2, <1>3 DEF CallOK, About, Answered, Further
<1>5. spent' \in Spent /\ CallsOK(calls, spent'.steps) /\ ListingsOK(listing, calls)
  BY <1>1, Spends DEF CInv
<1>6. CallsOK(calls', spent'.steps) /\ ListingsOK(listing, calls')
  BY <1>1, <1>4, <1>5, CallsReplaced
<1>7. \A i \in DOMAIN wire : wire[i] # Reply(c.id)
  BY <1>1, <1>2, AwaitedIsUnique
<1>8. WireOK(wire, calls')
  BY <1>1, <1>2, <1>7, WireWithout
<1> QED
  BY <1>1, <1>5, <1>6, <1>8 DEF CInv, Rest
-----------------------------------------------------------------------------
(* Every step keeps the invariant, and its picture follows the last one.   *)

LEMMA UserKeeps ==
    ASSUME CInv, User
    PROVE  CInv' /\ Follows(ui, ui')
<1>1. ASSUME NEW d \in Dms, NEW op \in DirectOps, AskDirect(op, d)
      PROVE  CInv' /\ Follows(ui, ui')
  BY <1>1, AskDirectKeeps, StaysInPlace
<1>2. ASSUME NEW d \in Dms, AskMessage(d)
      PROVE  CInv' /\ Follows(ui, ui')
  BY <1>2, AskMessageKeeps, StaysInPlace
<1>3. ASSUME NEW op \in {"seen", "leave", "up", "down", "delete", "update"},
             NEW b \in Channels \cup Servers, AskPlain(op, b)
      PROVE  CInv' /\ Follows(ui, ui')
  BY <1>3, AskPlainKeeps, StaysInPlace
<1>4. ASSUME NEW op \in Joins, NEW c \in Channels, AskJoin(op, c)
      PROVE  CInv' /\ Follows(ui, ui')
  BY <1>4, AskJoinKeeps, StaysInPlace
<1>5. ASSUME NEW b \in Buffers, NavigateToChannel(b) \/ NotificationClick(b)
      PROVE  CInv' /\ Follows(ui, ui')
  BY <1>5, NavigateToChannelKeeps, NotificationClickKeeps
<1>6. ASSUME NEW s \in Servers, NavigateToServer(s)
      PROVE  CInv' /\ Follows(ui, ui')
  BY <1>6, NavigateToServerKeeps
<1>7. ASSUME NEW s \in Servers, NEW q \in Queries, OpenDirectory(s, q)
      PROVE  CInv' /\ Follows(ui, ui')
  BY <1>7, OpenDirectoryKeeps
<1>8. ASSUME NEW tab \in {"all", "server"}, NEW q \in Queries, NavigateToDiscover(tab, q)
      PROVE  CInv' /\ Follows(ui, ui')
  BY <1>8, NavigateToDiscoverKeeps
<1> QED
  BY <1>1, <1>2, <1>3, <1>4, <1>5, <1>6, <1>7, <1>8 DEF User

LEMMA CallStepKeeps ==
    ASSUME CInv, NEW c \in calls, Serve(c) \/ CallFails(c) \/ Settle(c)
    PROVE  CInv' /\ Follows(ui, ui')
<1>1. CASE Serve(c)
  <2>1. CInv' /\ ui' = ui
    BY <1>1, ServeDirectKeeps, ServeMessageKeeps, ServePlainKeeps, ServeUpdateKeeps,
       ServeJoinKeeps, ServeListingKeeps DEF Serve
  <2> QED
    BY <2>1, StaysInPlace
<1>2. CASE CallFails(c)
  BY <1>2, CallFailsKeeps, StaysInPlace
<1>3. CASE Settle(c)
  BY <1>3, SettleDirectKeeps, SettleMessageKeeps, SettlePlainKeeps, SettleUpdateKeeps,
     SettleJoinKeeps, SettleListingKeeps DEF Settle
<1> QED
  BY <1>1, <1>2, <1>3

LEMMA NextCInv ==
    ASSUME CInv, [Next]_vars
    PROVE  CInv' /\ Follows(ui, ui')
<1>1. CASE BootServed
  BY <1>1, BootServedKeeps, StaysInPlace
<1>2. CASE BootApplied
  BY <1>2, BootAppliedKeeps
<1>3. CASE Linking
  <2>1. CASE JoinOk \/ JoinFails
    BY <2>1, JoinOkKeeps, JoinFailsKeeps, StaysInPlace
  <2>2. CASE SocketCloses \/ ChannelCloses
    BY <2>2, LinkLostKeeps, StaysInPlace DEF SocketCloses, ChannelCloses
  <2>3. CASE SocketOpens \/ RetryRealtimeConnection
    BY <2>3, LinkMoves, StaysInPlace
  <2> QED
    BY <1>3, <2>1, <2>2, <2>3 DEF Linking
<1>4. CASE Refreshing \/ RefreshFails
  <2>1. CASE RefreshServed \/ RefreshFails
    BY <2>1, RefreshServedKeeps, RefreshFailsKeeps, StaysInPlace
  <2> QED
    BY <1>4, <2>1, RefreshAppliedKeeps, RefreshSettlesKeeps DEF Refreshing
<1>5. CASE ReceiveFrame
  BY <1>5, ReceiveFrameKeeps
<1>6. ASSUME NEW f \in unpublished, PublishDirectMessage(f)
      PROVE  CInv' /\ Follows(ui, ui')
  BY <1>6, PublishDirectMessageKeeps, StaysInPlace
<1>7. ASSUME NEW op \in ElsewhereOps, NEW b \in Servers \cup Buffers, ChangeElsewhere(op, b)
      PROVE  CInv' /\ Follows(ui, ui')
  BY <1>7, ChangeElsewhereKeeps, StaysInPlace
<1>8. CASE User
  BY <1>8, UserKeeps
<1>9. ASSUME NEW c \in calls, Serve(c) \/ CallFails(c) \/ Settle(c)
      PROVE  CInv' /\ Follows(ui, ui')
  BY <1>9, CallStepKeeps
<1>10. CASE UNCHANGED vars
  <2>1. UNCHANGED <<truth, unpublished, wire, calls, link, sessions, boot, ui, refresh, again,
                    queue, listing, unsure, spent>>
    BY <1>10 DEF vars
  <2> QED
    BY <2>1, StaysInPlace DEF CInv
<1> QED
  BY <1>1, <1>2, <1>3, <1>4, <1>5, <1>6, <1>7, <1>8, <1>9, <1>10 DEF Next

LEMMA InvariantCInv == Spec => []CInv
<1>1. Init => CInv
  BY InitCInv
<1>2. CInv /\ [Next]_vars => CInv'
  BY NextCInv
<1> QED
  BY <1>1, <1>2, PTL DEF Spec

-----------------------------------------------------------------------------
(* The theorems.                                                           *)

\* Whatever is on the socket is a frame the validators of protocol_payload.ts
\* know or the answer of a push that still waits for it
\* (realtime_client.ts:167-179); the picture holds what
\* use_server_connections.ts puts there, and the queue what
\* applyOrQueueRealtimeEvent does (topics_club_app.tsx:1363-1369).
THEOREM ClientTypeCorrect == Spec => []TypeOK
<1>1. CInv => TypeOK
  <2> SUFFICES ASSUME CInv
               PROVE  TypeOK
    OBVIOUS
  <2>1. truth \in Truth /\ unpublished \subseteq DirectFrame
    BY DEF CInv, TruthOK
  <2>2. \A i \in DOMAIN wire : wire[i] \in Frame \/ \E c \in calls : wire[i] = Reply(c.id)
    <3> SUFFICES ASSUME NEW i \in DOMAIN wire, wire[i] \notin Frame
                 PROVE  \E c \in calls : wire[i] = Reply(c.id)
      OBVIOUS
    <3>1. WireOK(wire, calls)
      BY DEF CInv
    <3>2. wire[i] \in Frame \cup Answers
      BY <3>1, Elements DEF WireOK
    <3>3. IsReply(wire[i]) /\ wire[i] = Reply(wire[i].id)
      BY <3>2, ReplyIs
    <3>4. Awaited(calls, wire[i].id)
      BY <3>1, <3>3 DEF WireOK
    <3> QED
      BY <3>3, <3>4 DEF Awaited
  <2>3. \A c \in calls : /\ c.op \in Pushes \cup Joins \cup {"delete", "update", "search"}
                         /\ c.buf \in Servers \cup Buffers \cup {None}
                         /\ c.held \in Int /\ c.stage \in {"sent", "answered", "stale", "refused", "lost"}
                         /\ c.reply \in Frame \cup {None}
    <3>1. Ops \subseteq Pushes \cup Joins \cup {"delete", "update", "search"}
      BY DEF Ops, DirectOps, ListingOps, Pushes
    <3>2. \A c \in calls : c \in Call
      BY OfTheCall
    <3> QED
      BY <3>1, <3>2 DEF Call, Stages
  <2>4. /\ boot.stage \in {"loading", "answered", "ready"} /\ boot.snapshot \in Truth \cup {None}
        /\ ui \in Ui
    BY DEF CInv, BootOK, PictureOK, Picture
  <2>5. /\ refresh \in [stage : {"idle", "sent", "answered", "reconciling"},
                        snapshot : Truth \cup {None}, selected : Servers \cup Buffers \cup {None}]
        /\ again \in BOOLEAN /\ queue \in Seq([frame : Frame, session : Nat])
    BY DEF CInv, RefreshOK
  <2>6. listing.req \in Nat /\ listing.disc.req \in Nat
    BY DEF CInv, ListingsOK, Listing
  <2>7. /\ link \in {"none", "down", "joining", "refused", "joined", "closed"} /\ sessions \in Nat
        /\ unsure \subseteq Servers \cup Buffers
        /\ spent.steps \in 0..MaxSteps /\ spent.events \in 0..MaxEvents /\ spent.drops \in 0..MaxDrops
    BY DEF CInv, Rest, Spent
  <2> QED
    BY <2>1, <2>2, <2>3, <2>4, <2>5, <2>6, <2>7 DEF TypeOK
<1> QED
  BY <1>1, InvariantCInv, PTL

\* Frames are held back only while a refresh is under way, and a refresh asked
\* for meanwhile starts before the queue is applied (topics_club_app.tsx:1363-
\* 1397): none is left behind when frames are applied at once again.
THEOREM QueueIsNeverLeft == Spec => []IdleHasNoQueue
<1>1. CInv => IdleHasNoQueue
  BY DEF CInv, RefreshOK, IdleHasNoQueue
<1> QED
  BY <1>1, InvariantCInv, PTL

\* Whichever of a snapshot, a frame, a queue of frames and a reply removes what
\* was selected, the chat view is on a buffer of the picture whose server it
\* knows, and the directory on a known server (topics_club_app.tsx:1263-1298,
\* use_server_connections.ts:370-391 and the other reselections there).
THEOREM SelectionStaysShown == Spec => []SelectionIsShown
<1>1. CInv => SelectionIsShown
  BY DEF CInv, PictureOK, Picture, OwnersKnown, Selection, SelectionIsShown
<1> QED
  BY <1>1, InvariantCInv, PTL

\* A slow answer to an earlier listing request is not shown under a later one:
\* the counters of use_channel_directory.ts:79-88,153-161 and
\* topics_club_app.tsx:580-620 tell them apart.
THEOREM ListingsAreCurrent == Spec => []ListingsAnswerTheLatestRequest
<1>1. CInv => ListingsAnswerTheLatestRequest
  BY DEF CInv, ListingsOK, Answering, ListingsAnswerTheLatestRequest
<1> QED
  BY <1>1, InvariantCInv, PTL

\* No snapshot, frame or reply, alone or out of a queue, brings the revision a
\* thread is known at down (use_server_connections.ts:543-578: what is shown
\* and what is closed in a snapshot, and acceptDirectMessageRevision).
THEOREM RevisionsGrow == Spec => RevisionsNeverFall
<1>1. CInv /\ [Next]_vars => [\A d \in Dms : ui'.revs[d] >= ui.revs[d]]_ui
  <2> SUFFICES ASSUME CInv, [Next]_vars
               PROVE  \A d \in Dms : ui'.revs[d] >= ui.revs[d]
    OBVIOUS
  <2> QED
    BY NextCInv DEF Follows
<1> QED
  BY <1>1, InvariantCInv, PTL DEF Spec, RevisionsNeverFall
-----------------------------------------------------------------------------
(* What an operator does to what a picture shows, item by item.            *)

SameCounts(u, v) == v.unread = u.unread /\ v.skipped = u.skipped
SameThreads(u, v) == v.dm = u.dm /\ v.revs = u.revs
SameServers(u, v) == v.known = u.known /\ v.status = u.status

\* v differs from u in what is selected and wanted, and in rejections.
Looks(u, v) == SameServers(u, v) /\ SameCounts(u, v) /\ SameThreads(u, v) /\ v.versions = u.versions

\* What is not shown of a thread is nothing.
Plain(u) == \A d \in Dms : u.dm[d].rev = Absent => u.dm[d] = NoDm

EffectOfJoined(u, c, status, update, v) ==
    /\ v.known = u.known \cup {Owner[c]}
    /\ \A s \in Servers : v.status[s] = IF s = Owner[c] /\ (update \/ s \notin u.known) THEN status ELSE u.status[s]
    /\ \A x \in Channels : v.unread[x] = IF x = c /\ u.unread[c] = Absent THEN 0 ELSE u.unread[x]
    /\ v.skipped = u.skipped /\ SameThreads(u, v) /\ v.versions = u.versions

EffectOfRemoval(u, s, v) ==
    /\ v.known = u.known \ {s} /\ v.status = u.status
    /\ \A c \in Channels : v.unread[c] = IF Owner[c] = s THEN Absent ELSE u.unread[c]
    /\ \A d \in Dms : v.dm[d] = IF Owner[d] = s THEN NoDm ELSE u.dm[d]
    /\ v.revs = u.revs /\ v.skipped = u.skipped /\ v.versions = u.versions

EffectOfLeft(u, c, v) ==
    /\ SameServers(u, v) /\ SameThreads(u, v) /\ v.skipped = u.skipped
    /\ \A x \in Channels : v.unread[x] = IF x = c THEN Absent ELSE u.unread[x]
    /\ \A x \in Channels : v.versions[x] = IF x = c THEN u.versions[x] + 1 ELSE u.versions[x]

EffectOfCount(u, c, n, v) ==
    /\ SameServers(u, v) /\ SameThreads(u, v) /\ v.versions = u.versions
    /\ \A x \in Channels : x # c => v.unread[x] = u.unread[x] /\ (x \in v.skipped <=> x \in u.skipped)
    /\ \/ v.unread[c] = u.unread[c] /\ (u.unread[c] = Absent \/ c \in v.skipped)
       \/ v.unread[c] = n /\ u.unread[c] # Absent

EffectOfStatus(u, s, status, v) ==
    /\ v.known = u.known /\ SameCounts(u, v) /\ SameThreads(u, v) /\ v.versions = u.versions
    /\ \A x \in Servers : v.status[x] = IF x = s /\ s \in u.known THEN status ELSE u.status[x]

EffectOfThread(u, f, v) ==
    /\ SameCounts(u, v) /\ v.versions = u.versions
    /\ \A d \in Dms \ {f.buf} : v.dm[d] = u.dm[d] /\ v.revs[d] = u.revs[d]
    /\ f.rev <= u.revs[f.buf] => SameServers(u, v) /\ SameThreads(u, v)
    /\ f.rev > u.revs[f.buf] =>
         /\ v.revs[f.buf] = f.rev
         /\ v.dm[f.buf] = IF f.open THEN [rev |-> f.rev, blocked |-> f.blocked] ELSE NoDm
         /\ v.known = IF f.open THEN u.known \cup {Owner[f.buf]} ELSE u.known
         /\ \A s \in Servers : v.status[s] = IF f.open /\ s = Owner[f.buf] /\ s \notin u.known
                                             THEN f.status ELSE u.status[s]

Effect(u, f, v) ==
    /\ f.type = "buffer:joined" => EffectOfJoined(u, f.buf, f.status, FALSE, v)
    /\ f.type = "buffer:left" => /\ f.buf \in Servers => EffectOfRemoval(u, f.buf, v)
                                 /\ f.buf \in Channels => EffectOfLeft(u, f.buf, v)
    /\ f.type \in {"buffer:message", "buffer:read"} => EffectOfCount(u, f.buf, f.unread, v)
    /\ f.type = "server:status" => EffectOfStatus(u, f.buf, f.status, v)
    /\ f.type = "direct_message" => EffectOfThread(u, f, v)

LEMMA LooksOn ==
    ASSUME NEW u, NEW v, NEW w, Looks(u, v), Looks(v, w)
    PROVE  Looks(u, w)
BY DEF Looks, SameServers, SameCounts, SameThreads

LEMMA SelectLooks ==
    ASSUME NEW u, u \in Ui, NEW view, NEW s, NEW b
    PROVE  Looks(u, Select(u, view, s, b))
BY DEF Select, Looks, SameServers, SameCounts, SameThreads, Ui

LEMMA SelectBufferLooks ==
    ASSUME NEW u, Picture(u), NEW b
    PROVE  Looks(u, SelectBuffer(u, b))
<1>1. u \in Ui
  BY DEF Picture
<1>2. CASE b \notin Shown(u)
  BY <1>2 DEF SelectBuffer, Looks, SameServers, SameCounts, SameThreads
<1>3. CASE b \in Shown(u)
  <2> DEFINE v == Select(u, "chat", Owner[b], b)
  <2>1. SelectBuffer(u, b) = [v EXCEPT !.wanted = IF @ = b THEN None ELSE @]
    BY <1>3 DEF SelectBuffer
  <2>2. Looks(u, v)
    BY <1>1, SelectLooks
  <2>3. b \in Buffers /\ Owner[b] \in Servers
    BY <1>3, PictureFields, ClientAssumption DEF ClientAssumption
  <2>4. v \in Ui
    BY <2>3, SelectKeeps DEF Views, Picture
  <2> HIDE DEF v
  <2>5. Looks(v, SelectBuffer(u, b))
    BY <2>1, <2>4 DEF Looks, SameServers, SameCounts, SameThreads, Ui
  <2> QED
    BY <2>2, <2>5, LooksOn
<1> QED
  BY <1>2, <1>3

LEMMA SelectPendingLooks ==
    ASSUME NEW u, Picture(u)
    PROVE  Looks(u, SelectPendingBuffer(u))
BY SelectBufferLooks DEF SelectPendingBuffer, Looks, SameServers, SameCounts, SameThreads

LEMMA UpsertJoinedEffect ==
    ASSUME NEW u, Picture(u), NEW c \in Channels, NEW status \in Status, NEW update \in BOOLEAN
    PROVE  EffectOfJoined(u, c, status, update, UpsertJoinedChannel(u, c, status, update))
<1> DEFINE v == UpsertJoinedChannel(u, c, status, update)
           a == IF update \/ Owner[c] \notin u.known THEN status ELSE u.status[Owner[c]]
           n == IF u.unread[c] = Absent THEN 0 ELSE u.unread[c]
<1>1. u \in Ui /\ Owner[c] \in Servers
  BY ClientAssumption DEF Picture, ClientAssumption, Buffers
<1>3. v = [[[u EXCEPT !.known = u.known \cup {Owner[c]}] EXCEPT !.status = [u.status EXCEPT ![Owner[c]] = a]]
             EXCEPT !.unread = [u.unread EXCEPT ![c] = n]]
  BY <1>1 DEF UpsertJoinedChannel, Ui
<1>4. /\ v.known = u.known \cup {Owner[c]} /\ v.dm = u.dm /\ v.revs = u.revs
      /\ v.unread = [u.unread EXCEPT ![c] = n] /\ v.status = [u.status EXCEPT ![Owner[c]] = a]
      /\ v.skipped = u.skipped /\ v.versions = u.versions
  <2> HIDE DEF v, a, n
  <2> QED
    BY <1>1, <1>3 DEF Ui
<1> HIDE DEF v
<1>5. \A s \in Servers : v.status[s] = IF s = Owner[c] /\ (update \/ s \notin u.known) THEN status ELSE u.status[s]
  BY <1>1, <1>4 DEF Ui
<1>6. \A x \in Channels : v.unread[x] = IF x = c /\ u.unread[c] = Absent THEN 0 ELSE u.unread[x]
  BY <1>1, <1>4 DEF Ui
<1> QED
  BY <1>4, <1>5, <1>6 DEF EffectOfJoined, SameThreads, v

LEMMA EffectOfJoinedLooks ==
    ASSUME NEW u, NEW c, NEW status, NEW update, NEW v, NEW w,
           EffectOfJoined(u, c, status, update, v), Looks(v, w)
    PROVE  EffectOfJoined(u, c, status, update, w)
BY DEF EffectOfJoined, Looks, SameServers, SameCounts, SameThreads

LEMMA ApplyJoinedEffect ==
    ASSUME NEW u, Picture(u), NEW c \in Channels, NEW status \in Status, NEW update \in BOOLEAN
    PROVE  EffectOfJoined(u, c, status, update, ApplyJoined(u, c, status, update))
<1> DEFINE v == UpsertJoinedChannel(u, c, status, update)
           w == [v EXCEPT !.rejected = v.rejected \ {c}]
<1>1. v \in Ui /\ Picture(v) /\ EffectOfJoined(u, c, status, update, v)
  BY UpsertJoinedKeeps, UpsertJoinedEffect
<1>2. ApplyJoined(u, c, status, update) = Select(w, "chat", Owner[c], c)
  BY DEF ApplyJoined
<1> HIDE DEF v
<1>3. w \in Ui /\ Looks(v, w)
  BY <1>1 DEF Ui, Looks, SameServers, SameCounts, SameThreads
<1> HIDE DEF w
<1>4. Looks(w, Select(w, "chat", Owner[c], c))
  BY <1>3, SelectLooks
<1> QED
  BY <1>1, <1>2, <1>3, <1>4, EffectOfJoinedLooks, LooksOn

LEMMA JoinedFrameEffect ==
    ASSUME NEW u, Picture(u), NEW f \in JoinedFrame
    PROVE  EffectOfJoined(u, f.buf, f.status, FALSE, ApplyAuthoritativeJoined(u, f))
<1> DEFINE v == ApplyJoined(u, f.buf, f.status, FALSE)
<1>1. f.buf \in Channels /\ f.status \in Status
  BY DEF JoinedFrame
<1>2. EffectOfJoined(u, f.buf, f.status, FALSE, v) /\ Picture(v)
  BY <1>1, ApplyJoinedEffect, ApplyJoinedFollows DEF Follows
<1> HIDE DEF v
<1>3. Looks(v, SelectPendingBuffer(v))
  BY <1>2, SelectPendingLooks
<1> QED
  BY <1>2, <1>3, EffectOfJoinedLooks DEF ApplyAuthoritativeJoined, v

\* What is not on show of a server that is not known is nothing already.
LEMMA DropEffect ==
    ASSUME NEW u, Picture(u), NEW gone
    PROVE  LET v == Drop(u, gone)
           IN /\ SameServers(u, v) /\ v.revs = u.revs /\ v.skipped = u.skipped
              /\ v.versions = u.versions /\ v.rejected = u.rejected
              /\ \A c \in Channels : v.unread[c] = IF c \in gone THEN Absent ELSE u.unread[c]
              /\ \A d \in Dms : v.dm[d] = IF d \in gone THEN NoDm ELSE u.dm[d]
<1>1. u \in Ui
  BY DEF Picture
<1>2. LET v == Drop(u, gone)
      IN /\ SameServers(u, v) /\ v.revs = u.revs /\ v.skipped = u.skipped
         /\ v.versions = u.versions /\ v.rejected = u.rejected
         /\ v.unread = [c \in Channels |-> IF c \in gone THEN Absent ELSE u.unread[c]]
         /\ v.dm = [d \in Dms |-> IF d \in gone THEN NoDm ELSE u.dm[d]]
  BY <1>1 DEF Drop, Ui, SameServers
<1> QED
  BY <1>2

LEMMA EffectOfRemovalLooks ==
    ASSUME NEW u, NEW s, NEW v, NEW w, EffectOfRemoval(u, s, v), Looks(v, w)
    PROVE  EffectOfRemoval(u, s, w)
BY DEF EffectOfRemoval, Looks, SameServers, SameCounts, SameThreads

LEMMA RemoveServerEffect ==
    ASSUME NEW u, Picture(u), Plain(u), NEW s \in Servers
    PROVE  EffectOfRemoval(u, s, RemoveServer(u, s))
<1> DEFINE w == Drop(u, OnServer(s))
           v == [w EXCEPT !.known = w.known \ {s}]
           next == FirstOf(v.known)
           nextBuffer == FirstOf(ShownOn(v, next))
<1>0. s \notin Buffers /\ Channels \subseteq Buffers /\ Dms \subseteq Buffers
  BY ClientAssumption DEF ClientAssumption, Buffers
<1>1. CASE s \notin u.known
  <2>1. RemoveServer(u, s) = u
    BY <1>1 DEF RemoveServer
  <2>2. \A b \in Shown(u) : Owner[b] # s
    BY <1>1, PictureFields
  <2>3. \A c \in Channels : Owner[c] = s => u.unread[c] = Absent
    BY <2>2 DEF Shown
  <2>4. \A d \in Dms : Owner[d] = s => u.dm[d] = NoDm
    BY <2>2 DEF Shown, Plain
  <2> QED
    BY <1>1, <2>1, <2>3, <2>4 DEF EffectOfRemoval
<1>2. CASE s \in u.known
  <2>1. w \in Ui
    BY DropKeeps
  <2>2. /\ SameServers(u, w) /\ w.revs = u.revs /\ w.skipped = u.skipped /\ w.versions = u.versions
        /\ \A c \in Channels : w.unread[c] = IF Owner[c] = s THEN Absent ELSE u.unread[c]
        /\ \A d \in Dms : w.dm[d] = IF Owner[d] = s THEN NoDm ELSE u.dm[d]
    BY <1>0, DropEffect DEF OnServer
  <2>3. RemoveServer(u, s) =
          CASE s \notin u.known -> u
            [] s \in u.known /\ u.server # s /\ u.buf \notin ShownOn(u, s) -> v
            [] OTHER -> IF next = None THEN [v EXCEPT !.view = "discover"]
                        ELSE IF nextBuffer # None THEN Select(v, "chat", next, nextBuffer)
                        ELSE Select(v, "server", next, v.buf)
    BY DropKeeps DEF RemoveServer
  <2> HIDE DEF w
  <2>4. v \in Ui /\ v.known = w.known \ {s} /\ v.status = w.status /\ v.unread = w.unread /\ v.dm = w.dm
        /\ v.revs = w.revs /\ v.skipped = w.skipped /\ v.versions = w.versions
    BY <2>1 DEF Ui
  <2> HIDE DEF v, next, nextBuffer
  <2>5. EffectOfRemoval(u, s, v)
    BY <2>2, <2>4 DEF EffectOfRemoval, SameServers
  <2> DEFINE x == [v EXCEPT !.view = "discover"]
  <2>6. RemoveServer(u, s) \in {v, x, Select(v, "chat", next, nextBuffer), Select(v, "server", next, v.buf)}
    BY <1>2, <2>3
  <2>7. Looks(v, v) /\ Looks(v, x)
    BY <2>4 DEF Looks, SameServers, SameCounts, SameThreads, Ui
  <2>8. Looks(v, Select(v, "chat", next, nextBuffer)) /\ Looks(v, Select(v, "server", next, v.buf))
    BY <2>4, SelectLooks
  <2> HIDE DEF x
  <2> QED
    BY <2>5, <2>6, <2>7, <2>8, EffectOfRemovalLooks
<1> QED
  BY <1>1, <1>2

LEMMA LeftFrameEffect ==
    ASSUME NEW u, Picture(u), NEW f \in LeftFrame, f.buf \in Channels
    PROVE  EffectOfLeft(u, f.buf, ApplyBufferLeft(u, f))
<1> DEFINE w == Drop(u, {f.buf})
           n == w.versions[f.buf] + 1
           v == [[w EXCEPT !.rejected = w.rejected \cup {f.buf}] EXCEPT !.versions = [w.versions EXCEPT ![f.buf] = n]]
<1>1. f.buf \notin Servers /\ f.buf \notin Dms /\ f.buf \in Channels
  BY ClientAssumption DEF ClientAssumption, Buffers
<1>2. /\ w \in Ui /\ SameServers(u, w) /\ w.revs = u.revs /\ w.skipped = u.skipped /\ w.versions = u.versions
      /\ \A x \in Channels : w.unread[x] = IF x = f.buf THEN Absent ELSE u.unread[x]
      /\ \A d \in Dms : w.dm[d] = u.dm[d]
  BY <1>1, DropKeeps, DropEffect
<1>3. ApplyBufferLeft(u, f) = IF u.buf = f.buf THEN Select(v, "server", Owner[f.buf], None) ELSE v
  BY <1>1 DEF ApplyBufferLeft
<1> HIDE DEF w
<1>4. w.dm = u.dm
  <2>1. w.dm \in [Dms -> ThreadRecord] /\ u.dm \in [Dms -> ThreadRecord]
    BY <1>2, PictureFields DEF Ui
  <2> QED
    BY <1>2, <2>1
<1>5. n \in Nat
  BY <1>1, <1>2 DEF Ui
<1>6. /\ v \in Ui /\ SameServers(w, v) /\ SameCounts(w, v) /\ SameThreads(w, v)
      /\ v.versions = [w.versions EXCEPT ![f.buf] = n]
  <2> HIDE DEF n
  <2> QED
    BY <1>1, <1>2, <1>5 DEF Ui, SameServers, SameCounts, SameThreads
<1> HIDE DEF v
<1>7. \A x \in Channels : v.versions[x] = IF x = f.buf THEN u.versions[x] + 1 ELSE u.versions[x]
  BY <1>1, <1>2, <1>6 DEF Ui
<1>8. EffectOfLeft(u, f.buf, v)
  BY <1>2, <1>4, <1>6, <1>7 DEF EffectOfLeft, SameServers, SameCounts, SameThreads
<1>9. Looks(v, Select(v, "server", Owner[f.buf], None))
  BY <1>6, SelectLooks
<1> QED
  BY <1>3, <1>8, <1>9 DEF EffectOfLeft, Looks, SameServers, SameCounts, SameThreads

LEMMA CountFrameEffect ==
    ASSUME NEW u, Picture(u), NEW f \in UnreadFrame, NEW v,
           v \in {ApplyBufferRead(u, f), ApplyChannelUnread(u, f)}
    PROVE  EffectOfCount(u, f.buf, f.unread, v)
<1> DEFINE x == TakeUnread(u, f)
           y == [u EXCEPT !.skipped = u.skipped \cup {f.buf}]
<1>1. u \in Ui /\ f.buf \in Channels /\ f.buf \notin Dms
  BY ClientAssumption DEF Picture, UnreadFrame, ClientAssumption
<1>2. f.buf \in Shown(u) <=> u.unread[f.buf] # Absent
  BY <1>1 DEF Shown
<1>3. x = [[u EXCEPT !.unread = [u.unread EXCEPT ![f.buf] = f.unread]] EXCEPT !.skipped = u.skipped \ {f.buf}]
  BY <1>1 DEF TakeUnread, Ui
<1>4. \/ v = u /\ u.unread[f.buf] = Absent
      \/ v = x /\ u.unread[f.buf] # Absent
      \/ v = y
  BY <1>2 DEF ApplyBufferRead, ApplyChannelUnread
<1> HIDE DEF x
<1>5. /\ SameServers(u, x) /\ SameThreads(u, x) /\ x.versions = u.versions
      /\ x.unread = [u.unread EXCEPT ![f.buf] = f.unread] /\ x.skipped = u.skipped \ {f.buf}
  BY <1>1, <1>3 DEF Ui, SameServers, SameThreads
<1>6. /\ SameServers(u, y) /\ SameThreads(u, y) /\ y.versions = u.versions
      /\ y.unread = u.unread /\ y.skipped = u.skipped \cup {f.buf}
  BY <1>1 DEF Ui, SameServers, SameThreads
<1> HIDE DEF y
<1>7. x.unread[f.buf] = f.unread /\ \A c \in Channels : c # f.buf => x.unread[c] = u.unread[c]
  BY <1>1, <1>5 DEF Ui
<1>8. CASE v = u /\ u.unread[f.buf] = Absent
  BY <1>8 DEF EffectOfCount, SameServers, SameThreads
<1>9. CASE v = x /\ u.unread[f.buf] # Absent
  BY <1>5, <1>7, <1>9 DEF EffectOfCount
<1>10. CASE v = y
  BY <1>6, <1>10 DEF EffectOfCount
<1> QED
  BY <1>4, <1>8, <1>9, <1>10

LEMMA StatusFrameEffect ==
    ASSUME NEW u, Picture(u), NEW f \in StatusFrame
    PROVE  EffectOfStatus(u, f.buf, f.status, ApplyServerStatus(u, f))
<1> DEFINE v == [u EXCEPT !.status = [u.status EXCEPT ![f.buf] = f.status]]
<1>1. u \in Ui /\ f.buf \in Servers /\ f.status \in Status
  BY DEF Picture, StatusFrame
<1>2. /\ v.known = u.known /\ SameCounts(u, v) /\ SameThreads(u, v) /\ v.versions = u.versions
      /\ v.status = [u.status EXCEPT ![f.buf] = f.status]
  BY <1>1 DEF Ui, SameCounts, SameThreads
<1>3. ApplyServerStatus(u, f) = IF f.buf \in u.known THEN v ELSE u
  BY <1>1 DEF ApplyServerStatus, Ui
<1> HIDE DEF v
<1>4. \A s \in Servers : v.status[s] = IF s = f.buf THEN f.status ELSE u.status[s]
  BY <1>1, <1>2 DEF Ui
<1>5. CASE f.buf \in u.known
  BY <1>2, <1>3, <1>4, <1>5 DEF EffectOfStatus
<1>6. CASE f.buf \notin u.known
  BY <1>3, <1>6 DEF EffectOfStatus, SameCounts, SameThreads
<1> QED
  BY <1>5, <1>6

LEMMA UpsertDirectEffect ==
    ASSUME NEW u, Picture(u), NEW f \in DirectFrame, f.rev > u.revs[f.buf], f.open
    PROVE  EffectOfThread(u, f, UpsertDirectMessage(u, f))
<1> DEFINE v == UpsertDirectMessage(u, f)
           a == IF Owner[f.buf] \in u.known THEN u.status[Owner[f.buf]] ELSE f.status
           e == [rev |-> f.rev, blocked |-> f.blocked]
<1>1. u \in Ui /\ f.buf \in Dms /\ Owner[f.buf] \in Servers /\ f.rev \in Int /\ u.revs[f.buf] \in Int
  BY Revisions, ClientAssumption DEF Picture, DirectFrame, ClientAssumption, Buffers
<1>2. v = [[[[u EXCEPT !.known = u.known \cup {Owner[f.buf]}]
                EXCEPT !.status = [u.status EXCEPT ![Owner[f.buf]] = a]]
                EXCEPT !.dm = [u.dm EXCEPT ![f.buf] = e]]
                EXCEPT !.revs = [u.revs EXCEPT ![f.buf] = f.rev]]
  BY <1>1 DEF UpsertDirectMessage, Ui
<1> HIDE DEF v
<1>3. /\ v.known = u.known \cup {Owner[f.buf]} /\ SameCounts(u, v) /\ v.versions = u.versions
      /\ v.status = [u.status EXCEPT ![Owner[f.buf]] = a]
      /\ v.dm = [u.dm EXCEPT ![f.buf] = e] /\ v.revs = [u.revs EXCEPT ![f.buf] = f.rev]
  <2> HIDE DEF a, e
  <2> QED
    BY <1>1, <1>2 DEF Ui, SameCounts
<1>4. v.dm[f.buf] = e /\ v.revs[f.buf] = f.rev /\ \A d \in Dms \ {f.buf} : v.dm[d] = u.dm[d] /\ v.revs[d] = u.revs[d]
  BY <1>1, <1>3 DEF Ui
<1>5. \A s \in Servers : v.status[s] = IF s = Owner[f.buf] /\ s \notin u.known THEN f.status ELSE u.status[s]
  BY <1>1, <1>3 DEF Ui
<1>6. ~(f.rev <= u.revs[f.buf])
  BY <1>1
<1> QED
  BY <1>3, <1>4, <1>5, <1>6 DEF EffectOfThread, v

LEMMA TombstoneEffect ==
    ASSUME NEW u, Picture(u), NEW f \in DirectFrame, f.rev > u.revs[f.buf], ~f.open
    PROVE  EffectOfThread(u, f, ApplyTombstone(u, f))
<1> DEFINE w == Drop(u, {f.buf})
           v == [w EXCEPT !.revs = [w.revs EXCEPT ![f.buf] = f.rev]]
           next == FirstOf(ShownOn(v, Owner[f.buf]))
           view == IF next = None THEN "server" ELSE "chat"
<1>1. u \in Ui /\ f.buf \in Dms /\ f.buf \notin Channels /\ f.rev \in Int /\ u.revs[f.buf] \in Int
  BY Revisions, ClientAssumption DEF Picture, DirectFrame, ClientAssumption
<1>2. /\ w \in Ui /\ SameServers(u, w) /\ w.revs = u.revs /\ w.skipped = u.skipped /\ w.versions = u.versions
      /\ \A c \in Channels : w.unread[c] = u.unread[c]
      /\ \A d \in Dms : w.dm[d] = IF d = f.buf THEN NoDm ELSE u.dm[d]
  BY <1>1, DropKeeps, DropEffect
<1>3. ApplyTombstone(u, f) = IF u.buf # f.buf THEN v ELSE Select(v, view, Owner[f.buf], next)
  BY DEF ApplyTombstone
<1> HIDE DEF w
<1>4. w.unread = u.unread
  <2>1. w.unread \in [Channels -> ChannelRecord] /\ u.unread \in [Channels -> ChannelRecord]
    BY <1>2, PictureFields DEF Ui
  <2> QED
    BY <1>2, <2>1
<1>5. /\ v \in Ui /\ SameServers(w, v) /\ SameCounts(w, v) /\ v.dm = w.dm /\ v.versions = w.versions
      /\ v.revs = [w.revs EXCEPT ![f.buf] = f.rev]
  <2>1. f.rev \in Nat
    BY DEF DirectFrame
  <2> QED
    BY <1>1, <1>2, <2>1 DEF Ui, SameServers, SameCounts
<1> HIDE DEF v
<1>6. v.revs[f.buf] = f.rev /\ \A d \in Dms \ {f.buf} : v.revs[d] = u.revs[d]
  BY <1>1, <1>2, <1>5 DEF Ui
<1>7. ~(f.rev <= u.revs[f.buf])
  BY <1>1
<1>8. EffectOfThread(u, f, v)
  BY <1>1, <1>2, <1>4, <1>5, <1>6, <1>7 DEF EffectOfThread, SameServers, SameCounts
<1>9. Looks(v, Select(v, view, Owner[f.buf], next))
  BY <1>5, SelectLooks
<1> QED
  BY <1>3, <1>8, <1>9 DEF EffectOfThread, Looks, SameServers, SameCounts, SameThreads

LEMMA DirectMessageEffect ==
    ASSUME NEW u, Picture(u), NEW f \in DirectFrame
    PROVE  EffectOfThread(u, f, ApplyDirectMessage(u, f))
<1>1. f.rev \in Int /\ u.revs[f.buf] \in Int
  BY Revisions DEF DirectFrame
<1>2. CASE ~(f.rev > u.revs[f.buf])
  <2>1. ApplyDirectMessage(u, f) = u
    BY <1>2 DEF ApplyDirectMessage, AcceptDirectMessageRevision
  <2> QED
    BY <1>1, <1>2, <2>1 DEF EffectOfThread, SameCounts, SameServers, SameThreads
<1>3. CASE f.rev > u.revs[f.buf]
  BY <1>3, UpsertDirectEffect, TombstoneEffect DEF ApplyDirectMessage, AcceptDirectMessageRevision
<1> QED
  BY <1>2, <1>3

LEMMA FrameEffect ==
    ASSUME NEW u, Picture(u), Plain(u), NEW f \in Frame
    PROVE  Effect(u, f, ApplyFrame(u, f))
<1> DEFINE v == ApplyFrame(u, f)
<1>1. CASE f.type = "buffer:joined"
  <2>1. EffectOfJoined(u, f.buf, f.status, FALSE, v)
    BY <1>1, FrameTypes, JoinedFrameEffect DEF ApplyFrame
  <2> QED
    BY <1>1, <2>1 DEF Effect
<1>2. CASE f.type = "buffer:left"
  <2>1. f \in LeftFrame /\ v = ApplyBufferLeft(u, f)
    BY <1>2, FrameTypes DEF ApplyFrame
  <2>2. f.buf \in Servers => EffectOfRemoval(u, f.buf, v)
    BY <2>1, RemoveServerEffect DEF ApplyBufferLeft
  <2>3. f.buf \in Channels => EffectOfLeft(u, f.buf, v)
    BY <2>1, LeftFrameEffect
  <2> QED
    BY <1>2, <2>2, <2>3 DEF Effect
<1>3. CASE f.type \in {"buffer:read", "buffer:message"}
  <2>1. f \in UnreadFrame /\ v \in {ApplyBufferRead(u, f), ApplyChannelUnread(u, f)}
    BY <1>3, FrameTypes DEF ApplyFrame
  <2>2. EffectOfCount(u, f.buf, f.unread, v)
    BY <2>1, CountFrameEffect
  <2> QED
    BY <1>3, <2>2 DEF Effect
<1>4. CASE f.type = "server:status"
  <2>1. EffectOfStatus(u, f.buf, f.status, v)
    BY <1>4, FrameTypes, StatusFrameEffect DEF ApplyFrame
  <2> QED
    BY <1>4, <2>1 DEF Effect
<1>5. CASE f.type = "direct_message"
  <2> DEFINE w == ApplyDirectMessage(u, f)
  <2>1. EffectOfThread(u, f, w) /\ Picture(w)
    BY <1>5, FrameTypes, DirectMessageEffect, ApplyDirectMessageFollows DEF Follows
  <2>2. v \in {w, SelectPendingBuffer(w)}
    BY <1>5 DEF ApplyFrame
  <2> HIDE DEF w, v
  <2>3. Looks(w, v) \/ v = w
    BY <2>1, <2>2, SelectPendingLooks
  <2>4. EffectOfThread(u, f, v)
    BY <2>1, <2>3 DEF EffectOfThread, Looks, SameServers, SameCounts, SameThreads
  <2> QED
    BY <1>5, <2>4 DEF Effect, v
<1> QED
  BY <1>1, <1>2, <1>3, <1>4, <1>5, FrameTypes

LEMMA InstallEffect ==
    ASSUME NEW u, Picture(u), NEW snap \in Truth
    PROVE  LET v == InstallSnapshot(u, snap)
           IN /\ v.known = snap.live /\ v.skipped = {} /\ v.versions = u.versions
              /\ \A s \in snap.live : v.status[s] = snap.status[s]
              /\ v.unread = SnapshotUnread(snap) /\ v.dm = SnapshotDms(snap)
              /\ v.revs = SnapshotRevisions(u, snap)
<1> DEFINE v == InstallSnapshot(u, snap)
           st == [s \in Servers |-> IF s \in snap.live THEN snap.status[s] ELSE u.status[s]]
<1>1. u \in Ui /\ snap.live \subseteq Servers
  BY DEF Picture, Truth
<1>2. v = [[[[[[u EXCEPT !.known = snap.live] EXCEPT !.status = st] EXCEPT !.unread = SnapshotUnread(snap)]
               EXCEPT !.dm = SnapshotDms(snap)] EXCEPT !.revs = SnapshotRevisions(u, snap)] EXCEPT !.skipped = {}]
  BY <1>1 DEF InstallSnapshot, Ui
<1> HIDE DEF v, st
<1>3. /\ v.known = snap.live /\ v.skipped = {} /\ v.versions = u.versions /\ v.status = st
      /\ v.unread = SnapshotUnread(snap) /\ v.dm = SnapshotDms(snap)
      /\ v.revs = SnapshotRevisions(u, snap)
  BY <1>1, <1>2 DEF Ui
<1>4. \A s \in snap.live : st[s] = snap.status[s]
  BY <1>1 DEF st
<1> QED
  BY <1>3, <1>4 DEF v

LEMMA SelectAnyLooks ==
    ASSUME NEW u, u \in Ui, NEW b
    PROVE  Looks(u, SelectAny(u, b))
BY SelectLooks DEF SelectAny

LEMMA ReselectLooks ==
    ASSUME NEW u, Picture(u), NEW selected, NEW preserve \in BOOLEAN
    PROVE  Looks(u, Reselect(u, selected, preserve))
<1> DEFINE v == IF u.wanted \in Shown(u) THEN [u EXCEPT !.wanted = None] ELSE u
           a == ActiveBuffer(u)
           y == [[v EXCEPT !.view = "server"] EXCEPT !.server = a]
<1>1. u \in Ui
  BY DEF Picture
<1>2. v \in Ui /\ Looks(u, v)
  <2>1. CASE u.wanted \in Shown(u)
    BY <1>1, <2>1 DEF Ui, Looks, SameServers, SameCounts, SameThreads
  <2>2. CASE u.wanted \notin Shown(u)
    BY <1>1, <2>2 DEF Looks, SameServers, SameCounts, SameThreads
  <2> QED
    BY <2>1, <2>2
<1>3. Reselect(u, selected, preserve) \in
        {v, y, SelectAny(v, u.wanted), SelectAny(v, selected), Select(v, "discover", None, None), SelectAny(v, a)}
  <2>1. [v EXCEPT !.view = "server", !.server = a] = y
    BY <1>2 DEF Ui
  <2> HIDE DEF y
  <2> QED
    BY <2>1 DEF Reselect
<1> HIDE DEF v, a
<1>4. Looks(v, v) /\ Looks(v, y)
  BY <1>2 DEF Looks, SameServers, SameCounts, SameThreads, Ui
<1>5. /\ Looks(v, SelectAny(v, u.wanted)) /\ Looks(v, SelectAny(v, selected)) /\ Looks(v, SelectAny(v, a))
      /\ Looks(v, Select(v, "discover", None, None))
  BY <1>2, SelectAnyLooks, SelectLooks
<1> HIDE DEF y
<1> QED
  BY <1>2, <1>3, <1>4, <1>5, LooksOn

LEMMA PlainLooks ==
    ASSUME NEW u, NEW v, Plain(u), Looks(u, v)
    PROVE  Plain(v)
BY DEF Plain, Looks, SameThreads

LEMMA PlainThread ==
    ASSUME NEW u, NEW v, Plain(u), NEW f \in DirectFrame, u.revs[f.buf] \in Int, EffectOfThread(u, f, v)
    PROVE  Plain(v)
<1>1. f.rev \in Nat /\ f.rev # Absent /\ f.buf \in Dms
  BY DEF DirectFrame, Absent
<1>2. CASE f.rev <= u.revs[f.buf]
  BY <1>2 DEF EffectOfThread, Plain, SameThreads
<1>3. CASE f.rev > u.revs[f.buf]
  <2>1. v.dm[f.buf].rev = Absent => v.dm[f.buf] = NoDm
    BY <1>1, <1>3 DEF EffectOfThread
  <2> QED
    BY <1>3, <2>1 DEF EffectOfThread, Plain
<1> QED
  BY <1>1, <1>2, <1>3

LEMMA PlainOn ==
    ASSUME NEW u, NEW v, Picture(u), Plain(u), NEW f \in Frame, Effect(u, f, v)
    PROVE  Plain(v)
<1>1. CASE f.type = "buffer:joined"
  BY <1>1 DEF Effect, EffectOfJoined, Plain, SameThreads
<1>2. CASE f.type = "buffer:left"
  <2>1. f.buf \in Channels \cup Servers
    BY <1>2, FrameTypes DEF LeftFrame
  <2> QED
    BY <1>2, <2>1 DEF Effect, EffectOfRemoval, EffectOfLeft, Plain, SameThreads, NoDm
<1>3. CASE f.type \in {"buffer:read", "buffer:message"}
  BY <1>3 DEF Effect, EffectOfCount, Plain, SameThreads
<1>4. CASE f.type = "server:status"
  BY <1>4 DEF Effect, EffectOfStatus, Plain, SameThreads
<1>5. CASE f.type = "direct_message"
  <2>1. f \in DirectFrame /\ f.buf \in Dms
    BY <1>5, FrameTypes DEF DirectFrame
  <2>2. u.revs[f.buf] \in Int /\ EffectOfThread(u, f, v)
    BY <1>5, <2>1, Revisions DEF Effect
  <2> QED
    BY <2>1, <2>2, PlainThread
<1> QED
  BY <1>1, <1>2, <1>3, <1>4, <1>5, FrameTypes

LEMMA PlainInstalled ==
    ASSUME NEW u, Picture(u), NEW snap \in Truth
    PROVE  Plain(InstallSnapshot(u, snap))
<1>1. \A d \in Dms : snap.dm[d].rev # Absent
  BY DEF Truth, Absent
<1>2. InstallSnapshot(u, snap).dm = SnapshotDms(snap)
  BY InstallEffect
<1> QED
  BY <1>1, <1>2 DEF Plain, SnapshotDms
-----------------------------------------------------------------------------
(* What is on its way to the client: the frames held back, then the socket. *)

Line(q, w, n) ==
    [i \in 1..(Len(q) + Len(w)) |-> IF i <= Len(q) THEN q[i] ELSE [frame |-> w[i - Len(q)], session |-> n]]

Places(l, k) == {i \in DOMAIN l : i > k /\ ~IsReply(l[i].frame)}
Ahead(l, k) == {l[i].frame : i \in Places(l, k)}

JoinsOn(f, s) == f.type = "buffer:joined" /\ Owner[f.buf] = s
DirectOn(f, s) == f.type = "direct_message" /\ Owner[f.buf] = s

\* Servers whose first record a joined channel will bring, not a thread: a
\* thread's frame may carry the status of some time ago.
Introduced(l, k) ==
    {s \in Servers : \E i \in Places(l, k) :
        JoinsOn(l[i].frame, s) /\ \A j \in Places(l, k) : j < i => ~DirectOn(l[j].frame, s)}

LeftIn(G, b) == \E f \in G : f.type = "buffer:left" /\ f.buf = b
Gone(G, c) == LeftIn(G, c) \/ LeftIn(G, Owner[c])
Rejoins(G, c) == \E f \in G : f.type = "buffer:joined" /\ f.buf = c
Counts(G, c, n) == \E f \in G : f.type \in {"buffer:message", "buffer:read"} /\ f.buf = c /\ f.unread = n
Reports(G, s, x) == \E f \in G : f.type = "server:status" /\ f.buf = s /\ f.status = x

Born(t) == t.live \cup t.dead

\* What a truth keeps.
TruthFits(t) ==
    /\ t.live \cap t.dead = {}
    /\ \A c \in t.joined : Owner[c] \in t.live
    /\ \A c \in Channels : c \notin t.joined => t.unread[c] = 0
    /\ \A d \in Dms : Owner[d] \notin Born(t) => ~t.dm[d].open

\* What holds of a frame whenever it comes.
FrameTrue(f, t) ==
    /\ f.type = "buffer:joined" => Owner[f.buf] \in Born(t)
    /\ f.type = "buffer:left" /\ f.buf \in Servers => f.buf \in t.dead
    /\ f.type = "direct_message" =>
         /\ Owner[f.buf] \in Born(t) /\ f.rev <= t.dm[f.buf].rev
         /\ f.rev = t.dm[f.buf].rev => f.open = t.dm[f.buf].open /\ f.blocked = t.dm[f.buf].blocked

\* A frame tells the truth, or what it tells is corrected by one of those (G)
\* that come after it.
Alive(s, G, t) == s \in t.live \/ LeftIn(G, s)
JoinTold(c, x, G, t) ==
    /\ c \in t.joined \/ Gone(G, c)
    /\ Alive(Owner[c], G, t)
    /\ x = t.status[Owner[c]] \/ Reports(G, Owner[c], t.status[Owner[c]])
    /\ t.unread[c] = 0 \/ Counts(G, c, t.unread[c]) \/ Gone(G, c)
LeaveTold(c, G, t) == c \notin t.joined \/ Rejoins(G, c)
CountTold(c, n, G, t) == n = t.unread[c] \/ Counts(G, c, t.unread[c]) \/ Gone(G, c)
StatusTold(s, x, G, t) == x = t.status[s] \/ Reports(G, s, t.status[s])

FrameTold(f, G, t) ==
    /\ f.type = "buffer:joined" => JoinTold(f.buf, f.status, G, t)
    /\ f.type = "buffer:left" /\ f.buf \in Channels => LeaveTold(f.buf, G, t)
    /\ f.type \in {"buffer:message", "buffer:read"} => CountTold(f.buf, f.unread, G, t)
    /\ f.type = "server:status" => StatusTold(f.buf, f.status, G, t)
    /\ f.type = "direct_message" => Alive(Owner[f.buf], G, t)

\* An item of the picture is level with the truth, or will be.
ServerFits(u, s, G, N, t) ==
    /\ s \in t.live /\ s \notin u.known => s \in N
    /\ s \notin t.live /\ s \in u.known => LeftIn(G, s)
    /\ s \in t.live /\ s \in u.known => StatusTold(s, u.status[s], G, t)

ChannelFits(u, c, G, t) ==
    /\ c \in t.joined /\ u.unread[c] = Absent => Rejoins(G, c)
    /\ c \notin t.joined /\ u.unread[c] # Absent => Gone(G, c)
    /\ u.unread[c] # Absent /\ c \notin u.skipped => CountTold(c, u.unread[c], G, t)

Thread(m) == IF m.open THEN [rev |-> m.rev, blocked |-> m.blocked] ELSE NoDm
OnThread(f, d) == f.type = "direct_message" /\ f.buf = d
Owed(u, d, W, t) == u.revs[d] < t.dm[d].rev /\ \E f \in W : OnThread(f, d) /\ f.rev = t.dm[d].rev
Right(u, d, W, t) == u.dm[d] = Thread(t.dm[d]) /\ \A f \in W : OnThread(f, d) => f.rev <= u.revs[d]

ThreadFits(u, d, G, W, R, t) ==
    /\ Owner[d] \notin t.live => u.dm[d] = NoDm \/ LeftIn(G, Owner[d])
    /\ Owner[d] \in t.live => Owed(u, d, W, t) \/ Right(u, d, W \cup R, t)

\* The picture u runs level with the truth t, but for what is in Z: G comes to
\* it, N are the servers this introduces, W are the frames not published yet
\* and R the threads that answers bring.
Sure(b, Z) == b \notin Z /\ Owner[b] \notin Z
Level(u, G, N, W, R, Z, t) ==
    /\ \A s \in Servers : s \notin Z => ServerFits(u, s, G, N, t)
    /\ \A c \in Channels : Sure(c, Z) => ChannelFits(u, c, G, t)
    /\ \A d \in Dms : Sure(d, Z) => ThreadFits(u, d, G, G \cup W, R, t)

PictureTrue(u, t) ==
    /\ Plain(u) /\ u.known \subseteq Born(t)
    /\ \A d \in Dms : u.revs[d] <= t.dm[d].rev
SnapshotTrue(s, t) ==
    /\ s.live \subseteq Born(t)
    /\ \A d \in Dms : s.dm[d].rev <= t.dm[d].rev

Bringing == DirectOps \cup {"msg"}
Telling == Bringing \cup {"up", "down"}
Brings(c) == c.op \in Bringing /\ c.stage = "answered"
Told(cs) == {c.reply : c \in {x \in cs : Brings(x)}}

CallTrue(c, t, n) ==
    /\ c.session <= n
    /\ c.op \in DirectOps => Owner[c.buf] \in Born(t)
    /\ c.stage = "answered" => /\ c.op \in Joins => Owner[c.buf] \in Born(t)
                               /\ c.op = "delete" => c.buf \in t.dead
                               /\ c.op \in Bringing => FrameTrue(c.reply, t)

\* A guarded join whose reply is taken joins a channel there is, or one whose
\* buffer:left, or its server's, is still to come.
JoinHeld(c, u, G, t) ==
    u.versions[c.buf] > c.held \/ c.buf \in t.joined \/ LeftIn(G, c.buf) \/ Owner[c.buf] \in t.dead
JoinFits(c, u, G, t, now) ==
    c.op \in GuardedJoins =>
        /\ c.held <= u.versions[c.buf]
        /\ now /\ c.stage = "answered" => JoinHeld(c, u, G, t)

FramesTold(l, n, t) ==
    \A i \in DOMAIN l : l[i].session = n /\ ~IsReply(l[i].frame) => FrameTold(l[i].frame, Ahead(l, i), t)
ReplyTold(c, l, t) ==
    c.op \in Telling /\ c.stage = "answered" =>
        \A i \in DOMAIN l : l[i].frame = Reply(c.id) => FrameTold(c.reply, Ahead(l, i), t)

CallKnown(c, u, Z, t) == c.op \in DirectOps /\ Owner[c.buf] \in t.live \ Z => Owner[c.buf] \in u.known

\* What the picture will be when the answered refresh is applied, and till then.
View(u, r) == IF r.stage = "answered" THEN InstallSnapshot(u, r.snapshot) ELSE u

Coming == Line(queue, wire, sessions)
Unsure == unsure \cup Outdated(queue)
Current(c) == link = "joined" /\ c.session = sessions

TruthInv ==
    /\ TruthFits(truth)
    /\ \A f \in Ahead(Coming, 0) : FrameTrue(f, truth)
    /\ \A f \in unpublished : FrameTrue(f, truth) /\ Owner[f.buf] \in truth.live
    /\ PictureTrue(ui, truth)
    /\ refresh.stage = "answered" => SnapshotTrue(refresh.snapshot, truth)
    /\ boot.stage = "answered" => SnapshotTrue(boot.snapshot, truth)
    /\ \A i \in DOMAIN queue : queue[i].session <= sessions
    /\ \A c \in calls : CallTrue(c, truth, sessions)

ToldInv ==
    /\ \A c \in calls : JoinFits(c, ui, Ahead(Coming, 0), truth, Current(c))
    /\ link = "joined" => FramesTold(Coming, sessions, truth) /\ \A c \in calls : ReplyTold(c, Coming, truth)

LevelInv ==
    link = "joined" /\ ~again /\ refresh.stage # "sent" =>
        /\ Level(View(ui, refresh), Ahead(Coming, 0), Introduced(Coming, 0), unpublished, Told(calls), Unsure, truth)
        /\ \A c \in calls : CallKnown(c, View(ui, refresh), Unsure, truth)
        /\ \A s \in truth.live \ Unsure : s \in ui.known => s \in View(ui, refresh).known

PictureInv == TruthInv /\ ToldInv /\ LevelInv

-----------------------------------------------------------------------------
(* A frame is applied.                                                     *)

LEMMA WithFrame ==
    ASSUME NEW f, NEW G
    PROVE  /\ \A b : LeftIn({f} \cup G, b) <=> (f.type = "buffer:left" /\ f.buf = b) \/ LeftIn(G, b)
           /\ \A c : Rejoins({f} \cup G, c) <=> (f.type = "buffer:joined" /\ f.buf = c) \/ Rejoins(G, c)
           /\ \A c, n : Counts({f} \cup G, c, n) <=>
                \/ f.type \in {"buffer:message", "buffer:read"} /\ f.buf = c /\ f.unread = n
                \/ Counts(G, c, n)
           /\ \A s, x : Reports({f} \cup G, s, x) <=>
                (f.type = "server:status" /\ f.buf = s /\ f.status = x) \/ Reports(G, s, x)
BY DEF LeftIn, Rejoins, Counts, Reports

\* f is about neither b nor what b is on, nor is b its server.
Elsewhere(f, s) == f.buf # s /\ (f.buf \in Buffers => Owner[f.buf] # s)

LEMMA ServerApplied ==
    ASSUME NEW u, NEW v, Picture(u), NEW f \in Frame, Effect(u, f, v), NEW t, NEW G, NEW N, NEW M,
           NEW s \in Servers, ServerFits(u, s, {f} \cup G, N, t),
           s \in N => JoinsOn(f, s) \/ (~DirectOn(f, s) /\ s \in M),
           TruthFits(t), FrameTrue(f, t), FrameTold(f, G, t) \/ Elsewhere(f, s)
    PROVE  ServerFits(v, s, G, M, t)
<1>0. Servers \cap Buffers = {} /\ Channels \subseteq Buffers /\ Dms \subseteq Buffers
  BY ClientAssumption DEF ClientAssumption, Buffers
<1>1. CASE f.type = "buffer:joined"
  <2>1. f.buf \in Channels /\ EffectOfJoined(u, f.buf, f.status, FALSE, v)
    BY <1>1, FrameTypes DEF JoinedFrame, Effect
  <2>2. Owner[f.buf] = s => Alive(s, G, t) /\ StatusTold(s, f.status, G, t)
    BY <1>0, <1>1, <2>1 DEF FrameTold, JoinTold, StatusTold, Elsewhere
  <2>3. /\ s \in t.live /\ s \notin u.known => s \in N
        /\ s \notin t.live /\ s \in u.known => LeftIn(G, s)
        /\ s \in t.live /\ s \in u.known => StatusTold(s, u.status[s], G, t)
    BY <1>1, WithFrame DEF ServerFits, StatusTold
  <2>4. s \in N => Owner[f.buf] = s \/ s \in M
    BY DEF JoinsOn
  <2> QED
    BY <2>1, <2>2, <2>3, <2>4 DEF ServerFits, EffectOfJoined, Alive
<1>2. CASE f.type = "buffer:left"
  <2>1. s \in N => s \in M
    BY <1>2 DEF JoinsOn
  <2>2. /\ s \in t.live /\ s \notin u.known => s \in N
        /\ s \notin t.live /\ s \in u.known => LeftIn(G, s) \/ f.buf = s
        /\ s \in t.live /\ s \in u.known => StatusTold(s, u.status[s], G, t)
    BY <1>2, WithFrame DEF ServerFits, StatusTold
  <2>3. CASE f.buf \in Channels
    <3>1. SameServers(u, v) /\ f.buf # s
      BY <1>0, <1>2, <2>3 DEF Effect, EffectOfLeft
    <3> QED
      BY <2>1, <2>2, <3>1 DEF ServerFits, SameServers
  <2>4. CASE f.buf \in Servers
    <3>1. v.known = u.known \ {f.buf} /\ v.status = u.status
      BY <1>2, <2>4 DEF Effect, EffectOfRemoval
    <3>2. f.buf # s \/ s \notin t.live
      BY <1>2, <2>4 DEF FrameTrue, TruthFits
    <3> QED
      BY <2>1, <2>2, <3>1, <3>2 DEF ServerFits
  <2> QED
    BY <1>2, <2>3, <2>4, FrameTypes DEF LeftFrame
<1>3. CASE f.type \in {"buffer:read", "buffer:message"}
  <2>1. s \in N => s \in M
    BY <1>3 DEF JoinsOn
  <2>2. SameServers(u, v)
    BY <1>3 DEF Effect, EffectOfCount
  <2> QED
    BY <1>3, <2>1, <2>2, WithFrame DEF ServerFits, StatusTold, SameServers
<1>4. CASE f.type = "server:status"
  <2>1. s \in N => s \in M
    BY <1>4 DEF JoinsOn
  <2>2. EffectOfStatus(u, f.buf, f.status, v)
    BY <1>4 DEF Effect
  <2>3. f.buf = s => StatusTold(s, f.status, G, t)
    BY <1>4 DEF FrameTold, Elsewhere
  <2>4. /\ s \in t.live /\ s \notin u.known => s \in N
        /\ s \notin t.live /\ s \in u.known => LeftIn(G, s)
        /\ s \in t.live /\ s \in u.known /\ f.buf # s => StatusTold(s, u.status[s], G, t)
    BY <1>4, WithFrame DEF ServerFits, StatusTold
  <2> QED
    BY <2>1, <2>2, <2>3, <2>4 DEF ServerFits, EffectOfStatus
<1>5. CASE f.type = "direct_message"
  <2>1. f.buf \in Dms /\ EffectOfThread(u, f, v)
    BY <1>5, FrameTypes DEF DirectFrame, Effect
  <2>2. Owner[f.buf] = s => Alive(s, G, t)
    BY <1>0, <1>5, <2>1 DEF FrameTold, Elsewhere
  <2>3. s \in N => Owner[f.buf] # s /\ s \in M
    BY <1>5 DEF JoinsOn, DirectOn
  <2>4. /\ s \in t.live /\ s \notin u.known => s \in N
        /\ s \notin t.live /\ s \in u.known => LeftIn(G, s)
        /\ s \in t.live /\ s \in u.known => StatusTold(s, u.status[s], G, t)
    BY <1>5, WithFrame DEF ServerFits, StatusTold
  <2>5. \/ SameServers(u, v)
        \/ /\ v.known = u.known \/ v.known = u.known \cup {Owner[f.buf]}
           /\ s \in u.known => v.status[s] = u.status[s]
    <3>1. f.rev \in Int /\ u.revs[f.buf] \in Int
      BY <1>5, <2>1, FrameTypes, Revisions DEF DirectFrame
    <3>2. CASE f.rev <= u.revs[f.buf]
      BY <2>1, <3>2 DEF EffectOfThread
    <3>3. CASE f.rev > u.revs[f.buf]
      BY <2>1, <3>3 DEF EffectOfThread
    <3> QED
      BY <3>1, <3>2, <3>3
  <2> QED
    BY <2>2, <2>3, <2>4, <2>5 DEF ServerFits, SameServers, Alive
<1> QED
  BY <1>1, <1>2, <1>3, <1>4, <1>5, FrameTypes

LEMMA ChannelApplied ==
    ASSUME NEW u, NEW v, Picture(u), NEW f \in Frame, Effect(u, f, v), NEW t, NEW G,
           NEW c \in Channels, ChannelFits(u, c, {f} \cup G, t),
           TruthFits(t), FrameTrue(f, t), FrameTold(f, G, t) \/ (f.buf # c /\ f.buf # Owner[c])
    PROVE  ChannelFits(v, c, G, t)
<1>0. /\ Servers \cap Buffers = {} /\ Channels \subseteq Buffers /\ Dms \subseteq Buffers /\ Channels \cap Dms = {}
      /\ Owner[c] \in Servers
  BY ClientAssumption DEF ClientAssumption, Buffers
<1>a. 0 # Absent
  BY DEF Absent
<1>1. CASE f.type = "buffer:joined"
  <2>1. f.buf \in Channels /\ EffectOfJoined(u, f.buf, f.status, FALSE, v)
    BY <1>1, FrameTypes DEF JoinedFrame, Effect
  <2>2. f.buf = c => (c \in t.joined \/ Gone(G, c)) /\ CountTold(c, 0, G, t)
    BY <1>0, <1>1, <2>1 DEF FrameTold, JoinTold, CountTold
  <2>3. /\ c \in t.joined /\ u.unread[c] = Absent => Rejoins(G, c) \/ f.buf = c
        /\ c \notin t.joined /\ u.unread[c] # Absent => Gone(G, c)
        /\ u.unread[c] # Absent /\ c \notin u.skipped => CountTold(c, u.unread[c], G, t)
    BY <1>1, WithFrame DEF ChannelFits, CountTold, Gone
  <2> QED
    BY <1>a, <2>1, <2>2, <2>3 DEF ChannelFits, EffectOfJoined
<1>2. CASE f.type = "buffer:left"
  <2>1. /\ c \in t.joined /\ u.unread[c] = Absent => Rejoins(G, c)
        /\ c \notin t.joined /\ u.unread[c] # Absent => Gone(G, c) \/ f.buf = c \/ f.buf = Owner[c]
        /\ u.unread[c] # Absent /\ c \notin u.skipped =>
             CountTold(c, u.unread[c], G, t) \/ f.buf = c \/ f.buf = Owner[c]
    BY <1>2, WithFrame DEF ChannelFits, CountTold, Gone
  <2>2. CASE f.buf \in Channels
    <3>1. EffectOfLeft(u, f.buf, v) /\ f.buf # Owner[c]
      BY <1>0, <1>2, <2>2 DEF Effect
    <3>2. f.buf = c => LeaveTold(c, G, t)
      BY <1>2, <2>2 DEF FrameTold
    <3> QED
      BY <2>1, <3>1, <3>2 DEF ChannelFits, EffectOfLeft, LeaveTold
  <2>3. CASE f.buf \in Servers
    <3>1. EffectOfRemoval(u, f.buf, v) /\ f.buf # c
      BY <1>0, <1>2, <2>3 DEF Effect
    <3>2. Owner[c] = f.buf => c \notin t.joined
      BY <1>2, <2>3 DEF FrameTrue, TruthFits
    <3> QED
      BY <2>1, <3>1, <3>2 DEF ChannelFits, EffectOfRemoval
  <2> QED
    BY <1>2, <2>2, <2>3, FrameTypes DEF LeftFrame
<1>3. CASE f.type \in {"buffer:read", "buffer:message"}
  <2>1. f.buf \in Channels /\ f.unread \in 0..1 /\ f.unread # Absent
    BY <1>3, FrameTypes DEF UnreadFrame, Absent
  <2>2. EffectOfCount(u, f.buf, f.unread, v)
    BY <1>3 DEF Effect
  <2>3. f.buf = c => CountTold(c, f.unread, G, t)
    BY <1>0, <1>3, <2>1 DEF FrameTold
  <2>4. /\ c \in t.joined /\ u.unread[c] = Absent => Rejoins(G, c)
        /\ c \notin t.joined /\ u.unread[c] # Absent => Gone(G, c)
        /\ u.unread[c] # Absent /\ c \notin u.skipped =>
             CountTold(c, u.unread[c], G, t) \/ f.buf = c
    BY <1>3, WithFrame DEF ChannelFits, CountTold, Gone
  <2>5. CASE f.buf = c
    BY <2>1, <2>2, <2>3, <2>4, <2>5 DEF ChannelFits, EffectOfCount
  <2>6. CASE f.buf # c
    BY <2>2, <2>4, <2>6 DEF ChannelFits, EffectOfCount
  <2> QED
    BY <2>5, <2>6
<1>4. CASE f.type \in {"server:status", "direct_message"}
  <2>1. SameCounts(u, v)
    BY <1>4 DEF Effect, EffectOfStatus, EffectOfThread
  <2>2. /\ c \in t.joined /\ u.unread[c] = Absent => Rejoins(G, c)
        /\ c \notin t.joined /\ u.unread[c] # Absent => Gone(G, c)
        /\ u.unread[c] # Absent /\ c \notin u.skipped => CountTold(c, u.unread[c], G, t)
    BY <1>4, WithFrame DEF ChannelFits, CountTold, Gone
  <2> QED
    BY <2>1, <2>2 DEF ChannelFits, SameCounts
<1> QED
  BY <1>1, <1>2, <1>3, <1>4, FrameTypes

\* A thread that is right stays right whatever comes, one that is owed a frame
\* is right when it has come.
LEMMA ThreadTaken ==
    ASSUME NEW u, NEW v, Picture(u), NEW f \in DirectFrame, EffectOfThread(u, f, v), NEW t \in Truth,
           FrameTrue(f, t), NEW W, NEW V, V \subseteq W, \A g \in W : g # f => g \in V,
           W \subseteq Frame, \A g \in W : FrameTrue(g, t),
           NEW d \in Dms, NEW R, R \subseteq DirectFrame, \A g \in R : FrameTrue(g, t),
           Owed(u, d, W, t) \/ Right(u, d, W \cup R, t), f \in W \cup R
    PROVE  Owed(v, d, V, t) \/ Right(v, d, V \cup R, t)
<1>1. f.buf \in Dms /\ f.rev \in Nat /\ f.type = "direct_message"
  BY DEF DirectFrame
<1>2. t.dm[d].rev \in Nat /\ u.revs[d] \in Int /\ u.revs[f.buf] \in Int
  BY <1>1, Revisions DEF Truth
<1>3. \A g \in W \cup R : OnThread(g, d) => g.rev \in Nat /\ g.rev <= t.dm[d].rev
  <2> TAKE g \in W \cup R
  <2> HAVE OnThread(g, d)
  <2>1. g \in Frame
    BY DEF Frame
  <2>2. g.rev \in Nat
    BY <2>1, FrameTypes DEF OnThread, DirectFrame
  <2> QED
    BY <2>2 DEF OnThread, FrameTrue
<1>4. CASE f.buf # d
  <2>1. v.revs[d] = u.revs[d] /\ v.dm[d] = u.dm[d]
    BY <1>4 DEF EffectOfThread
  <2>2. \A g \in W : OnThread(g, d) => g \in V
    BY <1>4 DEF OnThread
  <2> QED
    BY <2>1, <2>2 DEF Owed, Right
<1>5. CASE f.buf = d /\ f.rev <= u.revs[d]
  <2>1. v.revs[d] = u.revs[d] /\ v.dm[d] = u.dm[d]
    BY <1>5 DEF EffectOfThread, SameThreads
  <2>2. u.revs[d] < t.dm[d].rev => f.rev # t.dm[d].rev
    BY <1>1, <1>2, <1>5
  <2>3. Owed(u, d, W, t) => Owed(v, d, V, t)
    BY <2>1, <2>2 DEF Owed
  <2> QED
    BY <2>1, <2>3 DEF Right
<1>6. CASE f.buf = d /\ f.rev > u.revs[d]
  <2>1. v.revs[d] = f.rev /\ v.dm[d] = IF f.open THEN [rev |-> f.rev, blocked |-> f.blocked] ELSE NoDm
    BY <1>6 DEF EffectOfThread
  <2>2. Owed(u, d, W, t)
    <3>1. OnThread(f, d) /\ ~(f.rev <= u.revs[d])
      BY <1>1, <1>2, <1>6 DEF OnThread
    <3> QED
      BY <3>1 DEF Right
  <2>3. CASE f.rev = t.dm[d].rev
    <3>1. f.open = t.dm[d].open /\ f.blocked = t.dm[d].blocked
      BY <1>1, <1>6, <2>3 DEF FrameTrue
    <3>2. v.dm[d] = Thread(t.dm[d])
      BY <2>1, <2>3, <3>1 DEF Thread
    <3>3. \A g \in V \cup R : OnThread(g, d) => g.rev <= v.revs[d]
      BY <1>3, <2>1, <2>3
    <3> QED
      BY <3>2, <3>3 DEF Right
  <2>4. CASE f.rev # t.dm[d].rev
    <3>1. f.rev < t.dm[d].rev
      BY <1>1, <1>2, <1>6, <2>4 DEF FrameTrue
    <3> QED
      BY <2>1, <2>2, <2>4, <3>1 DEF Owed
  <2> QED
    BY <2>3, <2>4
<1> QED
  BY <1>1, <1>2, <1>4, <1>5, <1>6

LEMMA ThreadApplied ==
    ASSUME NEW u, NEW v, Picture(u), NEW f \in Frame, Effect(u, f, v), NEW t \in Truth, NEW G, NEW W,
           G \subseteq Frame, W \subseteq Frame, \A g \in G \cup W : FrameTrue(g, t),
           NEW R, R \subseteq DirectFrame, \A g \in R : FrameTrue(g, t),
           NEW d \in Dms, ThreadFits(u, d, {f} \cup G, ({f} \cup G) \cup W, R, t),
           TruthFits(t), FrameTrue(f, t), FrameTold(f, G, t) \/ (f.buf # d /\ f.buf # Owner[d])
    PROVE  ThreadFits(v, d, G, G \cup W, R, t)
<1>0. /\ Servers \cap Buffers = {} /\ Channels \subseteq Buffers /\ Dms \subseteq Buffers /\ Channels \cap Dms = {}
      /\ Owner[d] \in Servers
  BY ClientAssumption DEF ClientAssumption, Buffers
<1>1. CASE f.type = "direct_message"
  <2>1. f \in DirectFrame /\ f.buf \in Dms /\ EffectOfThread(u, f, v)
    BY <1>1, FrameTypes DEF DirectFrame, Effect
  <2>2. CASE Owner[d] \in t.live
    <3> DEFINE V == G \cup W
               X == ({f} \cup G) \cup W
    <3>1. Owed(u, d, X, t) \/ Right(u, d, X \cup R, t)
      BY <2>2 DEF ThreadFits
    <3>2. V \subseteq X /\ (\A g \in X : g # f => g \in V) /\ X \subseteq Frame /\ (\A g \in X : FrameTrue(g, t))
          /\ f \in X \cup R
      OBVIOUS
    <3> HIDE DEF V, X
    <3>3. Owed(v, d, V, t) \/ Right(v, d, V \cup R, t)
      BY <2>1, <3>1, <3>2, ThreadTaken
    <3> QED
      BY <2>2, <3>3 DEF ThreadFits, V
  <2>3. CASE Owner[d] \notin t.live
    <3>1. u.dm[d] = NoDm \/ LeftIn(G, Owner[d])
      BY <1>1, <2>3, WithFrame DEF ThreadFits
    <3>2. f.buf # d => v.dm[d] = u.dm[d]
      BY <2>1 DEF EffectOfThread
    <3>3. f.buf = d => LeftIn(G, Owner[d])
      BY <1>1, <2>3 DEF FrameTold, Alive
    <3> QED
      BY <2>3, <3>1, <3>2, <3>3 DEF ThreadFits
  <2> QED
    BY <2>2, <2>3
<1>2. CASE f.type # "direct_message"
  <2>1. v.revs = u.revs
    BY <1>2, FrameTypes DEF Effect, EffectOfJoined, EffectOfRemoval, EffectOfLeft, EffectOfCount,
                            EffectOfStatus, SameThreads, LeftFrame
  <2>2. v.dm[d] = u.dm[d] \/ (f.type = "buffer:left" /\ f.buf = Owner[d] /\ v.dm[d] = NoDm)
    <3>1. CASE f.type = "buffer:left"
      <4>1. f.buf \in Channels \cup Servers
        BY <3>1, FrameTypes DEF LeftFrame
      <4> QED
        BY <3>1, <4>1 DEF Effect, EffectOfRemoval, EffectOfLeft, SameThreads
    <3>2. CASE f.type # "buffer:left"
      BY <1>2, <3>2, FrameTypes DEF Effect, EffectOfJoined, EffectOfCount, EffectOfStatus, SameThreads
    <3> QED
      BY <3>1, <3>2
  <2>3. f.type = "buffer:left" /\ f.buf = Owner[d] => Owner[d] \notin t.live
    BY <1>0 DEF FrameTrue, TruthFits
  <2>4. CASE Owner[d] \in t.live
    <3>1. v.dm[d] = u.dm[d]
      BY <2>2, <2>3, <2>4
    <3>2. Owed(u, d, G \cup W, t) \/ Right(u, d, (G \cup W) \cup R, t)
      BY <1>2, <2>4 DEF ThreadFits, Owed, Right, OnThread
    <3> QED
      BY <2>1, <2>4, <3>1, <3>2 DEF ThreadFits, Owed, Right
  <2>5. CASE Owner[d] \notin t.live
    <3>1. u.dm[d] = NoDm \/ LeftIn(G, Owner[d]) \/ (f.type = "buffer:left" /\ f.buf = Owner[d])
      BY <2>5, WithFrame DEF ThreadFits
    <3>2. f.type = "buffer:left" /\ f.buf = Owner[d] => v.dm[d] = NoDm
      BY <1>0, <1>2 DEF Effect, EffectOfRemoval
    <3> QED
      BY <2>2, <2>5, <3>1, <3>2 DEF ThreadFits
  <2> QED
    BY <2>4, <2>5
<1> QED
  BY <1>1, <1>2

\* A frame held back since before the last join is about items of Z alone.
Outside(f, Z) == f.buf \in Z /\ (f.buf \in Buffers => Owner[f.buf] \in Z)

LEMMA LevelApplied ==
    ASSUME NEW u, NEW v, Picture(u), NEW f \in Frame, Effect(u, f, v), NEW t \in Truth, NEW G, NEW W,
           G \subseteq Frame, W \subseteq Frame, \A g \in G \cup W : FrameTrue(g, t),
           NEW R, R \subseteq DirectFrame, \A g \in R : FrameTrue(g, t), NEW N, NEW M, NEW Z,
           \A s \in N : JoinsOn(f, s) \/ (~DirectOn(f, s) /\ s \in M),
           TruthFits(t), FrameTrue(f, t), FrameTold(f, G, t) \/ Outside(f, Z),
           Level(u, {f} \cup G, N, W, R, Z, t)
    PROVE  Level(v, G, M, W, R, Z, t)
<1>1. ASSUME NEW s \in Servers, s \notin Z
      PROVE  ServerFits(v, s, G, M, t)
  <2>1. FrameTold(f, G, t) \/ Elsewhere(f, s)
    BY <1>1 DEF Outside, Elsewhere
  <2>2. ServerFits(u, s, {f} \cup G, N, t)
    BY <1>1 DEF Level
  <2> QED
    BY <2>1, <2>2, ServerApplied
<1>2. ASSUME NEW c \in Channels, Sure(c, Z)
      PROVE  ChannelFits(v, c, G, t)
  <2>1. FrameTold(f, G, t) \/ (f.buf # c /\ f.buf # Owner[c])
    BY <1>2 DEF Outside, Sure
  <2>2. ChannelFits(u, c, {f} \cup G, t)
    BY <1>2 DEF Level
  <2> QED
    BY <2>1, <2>2, ChannelApplied
<1>3. ASSUME NEW d \in Dms, Sure(d, Z)
      PROVE  ThreadFits(v, d, G, G \cup W, R, t)
  <2>1. FrameTold(f, G, t) \/ (f.buf # d /\ f.buf # Owner[d])
    BY <1>3 DEF Outside, Sure
  <2>2. ThreadFits(u, d, {f} \cup G, ({f} \cup G) \cup W, R, t)
    BY <1>3 DEF Level
  <2> QED
    BY <2>1, <2>2, ThreadApplied
<1> QED
  BY <1>1, <1>2, <1>3 DEF Level

LEMMA PictureApplied ==
    ASSUME NEW u, NEW v, Picture(u), NEW f \in Frame, Effect(u, f, v), NEW t \in Truth,
           PictureTrue(u, t), FrameTrue(f, t)
    PROVE  PictureTrue(v, t) /\ \A s \in u.known : s \in v.known \/ s \in t.dead
<1>1. Plain(v)
  BY PlainOn DEF PictureTrue
<1>2. v.known \subseteq Born(t) /\ \A s \in u.known : s \in v.known \/ s \in t.dead
  <2>1. CASE f.type = "buffer:joined"
    BY <2>1 DEF Effect, EffectOfJoined, FrameTrue, PictureTrue
  <2>2. CASE f.type = "buffer:left"
    <3>1. f.buf \in Channels \cup Servers
      BY <2>2, FrameTypes DEF LeftFrame
    <3> QED
      BY <2>2, <3>1 DEF Effect, EffectOfRemoval, EffectOfLeft, FrameTrue, PictureTrue, SameServers
  <2>3. CASE f.type \in {"buffer:read", "buffer:message", "server:status"}
    BY <2>3 DEF Effect, EffectOfCount, EffectOfStatus, PictureTrue, SameServers
  <2>4. CASE f.type = "direct_message"
    <3>1. f \in DirectFrame /\ f.buf \in Dms /\ f.rev \in Int /\ u.revs[f.buf] \in Int
      BY <2>4, FrameTypes, Revisions DEF DirectFrame
    <3>2. v.known = u.known \/ v.known = u.known \cup {Owner[f.buf]}
      BY <2>4, <3>1 DEF Effect, EffectOfThread, SameServers
    <3> QED
      BY <2>4, <3>2 DEF FrameTrue, PictureTrue
  <2> QED
    BY <2>1, <2>2, <2>3, <2>4, FrameTypes
<1>3. \A d \in Dms : v.revs[d] <= t.dm[d].rev
  <2>1. CASE f.type # "direct_message"
    <3>1. v.revs = u.revs
      BY <2>1, FrameTypes DEF Effect, EffectOfJoined, EffectOfRemoval, EffectOfLeft, EffectOfCount,
                              EffectOfStatus, SameThreads, LeftFrame
    <3> QED
      BY <3>1 DEF PictureTrue
  <2>2. CASE f.type = "direct_message"
    <3>1. f \in DirectFrame /\ f.buf \in Dms /\ f.rev \in Int /\ u.revs[f.buf] \in Int
      BY <2>2, FrameTypes, Revisions DEF DirectFrame
    <3>2. \A d \in Dms : v.revs[d] = u.revs[d] \/ (d = f.buf /\ v.revs[d] = f.rev)
      BY <2>2, <3>1 DEF Effect, EffectOfThread, SameThreads
    <3> QED
      BY <2>2, <3>2 DEF PictureTrue, FrameTrue
  <2> QED
    BY <2>1, <2>2
<1> QED
  BY <1>1, <1>2, <1>3 DEF PictureTrue

LEMMA VersionsApplied ==
    ASSUME NEW u, NEW v, Picture(u), NEW f \in Frame, Effect(u, f, v)
    PROVE  \A c \in Channels : /\ v.versions[c] >= u.versions[c]
                               /\ f.type = "buffer:left" /\ f.buf = c => v.versions[c] > u.versions[c]
<1>1. \A c \in Channels : u.versions[c] \in Nat
  BY PictureFields
<1>2. CASE f.type = "buffer:left" /\ f.buf \in Channels
  BY <1>1, <1>2 DEF Effect, EffectOfLeft
<1>3. CASE ~(f.type = "buffer:left" /\ f.buf \in Channels)
  <2>1. v.versions = u.versions
    BY <1>3, FrameTypes DEF Effect, EffectOfJoined, EffectOfRemoval, EffectOfCount, EffectOfStatus,
                            EffectOfThread, LeftFrame
  <2> QED
    BY <1>1, <1>3, <2>1
<1> QED
  BY <1>2, <1>3

LEMMA JoinApplied ==
    ASSUME NEW u, NEW v, Picture(u), Picture(v), NEW f \in Frame, Effect(u, f, v), NEW G, NEW t,
           NEW c, c.held \in Int, c.op \in GuardedJoins => c.buf \in Channels, NEW now,
           JoinFits(c, u, {f} \cup G, t, now)
    PROVE  JoinFits(c, v, G, t, now)
<1> SUFFICES ASSUME c.op \in GuardedJoins
             PROVE  JoinFits(c, v, G, t, now)
  BY DEF JoinFits
<1>1. /\ c.buf \in Channels /\ u.versions[c.buf] \in Nat /\ v.versions[c.buf] \in Nat
  BY PictureFields
<1>2. /\ v.versions[c.buf] >= u.versions[c.buf]
      /\ f.type = "buffer:left" /\ f.buf = c.buf => v.versions[c.buf] > u.versions[c.buf]
  BY <1>1, VersionsApplied
<1>3. c.held <= u.versions[c.buf]
  BY DEF JoinFits
<1>4. ASSUME now, c.stage = "answered"
      PROVE  JoinHeld(c, v, G, t)
  <2>1. \/ u.versions[c.buf] > c.held \/ c.buf \in t.joined \/ LeftIn(G, c.buf) \/ Owner[c.buf] \in t.dead
        \/ f.type = "buffer:left" /\ f.buf = c.buf
    BY <1>4, WithFrame DEF JoinFits, JoinHeld
  <2>2. u.versions[c.buf] > c.held \/ (f.type = "buffer:left" /\ f.buf = c.buf) => v.versions[c.buf] > c.held
    BY <1>1, <1>2, <1>3
  <2> QED
    BY <2>1, <2>2 DEF JoinHeld
<1> QED
  BY <1>1, <1>2, <1>3, <1>4 DEF JoinFits

-----------------------------------------------------------------------------
(* The line: what changes when a frame is put on it or comes off it.       *)

\* m brings what l brings and the frames F.
Widens(l, m, F) ==
    /\ Ahead(m, 0) = Ahead(l, 0) \cup F
    /\ \A s \in Introduced(l, 0) : s \in Introduced(m, 0)
    /\ \A f \in F : \A s \in Servers :
          JoinsOn(f, s) /\ (\A g \in Ahead(l, 0) : ~DirectOn(g, s)) => s \in Introduced(m, 0)

\* What is on m is on l, and followed by the same and F, or in X.
Tells(l, m, F, X) ==
    \A j \in DOMAIN m :
        \/ m[j].frame \in X
        \/ \E i \in DOMAIN l : m[j] = l[i] /\ \A f \in Ahead(l, i) \cup F : f \in Ahead(m, j)

LEMMA Advance ==
    ASSUME NEW l, NEW n \in Nat, DOMAIN l = 1..n, NEW k \in 0..(n - 1), ~IsReply(l[k + 1].frame)
    PROVE  /\ Ahead(l, k) = {l[k + 1].frame} \cup Ahead(l, k + 1)
           /\ \A s \in Introduced(l, k) : \/ JoinsOn(l[k + 1].frame, s)
                                          \/ ~DirectOn(l[k + 1].frame, s) /\ s \in Introduced(l, k + 1)
<1>1. Places(l, k) = {k + 1} \cup Places(l, k + 1)
  BY DEF Places
<1>2. ASSUME NEW s \in Introduced(l, k), ~JoinsOn(l[k + 1].frame, s)
      PROVE  ~DirectOn(l[k + 1].frame, s) /\ s \in Introduced(l, k + 1)
  <2>1. PICK i \in Places(l, k) : /\ JoinsOn(l[i].frame, s)
                                  /\ \A j \in Places(l, k) : j < i => ~DirectOn(l[j].frame, s)
    BY DEF Introduced
  <2>2. i \in Places(l, k + 1) /\ k + 1 < i /\ k + 1 \in Places(l, k)
    BY <1>1, <1>2, <2>1 DEF Places
  <2>3. s \in Servers
    BY DEF Introduced
  <2> QED
    BY <1>1, <2>1, <2>2, <2>3 DEF Introduced
<1>3. Ahead(l, k) = {l[k + 1].frame} \cup Ahead(l, k + 1)
  BY <1>1 DEF Ahead
<1> QED
  BY <1>2, <1>3

LEMMA SuffixIs ==
    ASSUME NEW l, NEW m, NEW n \in Nat, NEW k \in 0..n, DOMAIN l = 1..n, DOMAIN m = 1..(n - k),
           \A i \in 1..(n - k) : m[i] = l[i + k]
    PROVE  /\ \A i \in 0..(n - k) : Ahead(m, i) = Ahead(l, i + k)
           /\ \A s \in Introduced(l, k) : s \in Introduced(m, 0)
           /\ Tells(l, m, {}, {})
<1>1. \A i \in 0..(n - k) : \A x \in Places(l, i + k) : x - k \in Places(m, i) /\ m[x - k] = l[x]
  <2> TAKE i \in 0..(n - k)
  <2> TAKE x \in Places(l, i + k)
  <2>1. x \in 1..n /\ x > i + k /\ ~IsReply(l[x].frame)
    BY DEF Places
  <2>2. x - k \in 1..(n - k) /\ x - k > i /\ (x - k) + k = x
    BY <2>1
  <2>3. m[x - k] = l[x]
    BY <2>2
  <2> QED
    BY <2>1, <2>2, <2>3 DEF Places
<1>2. \A i \in 0..(n - k) : \A x \in Places(m, i) : x + k \in Places(l, i + k) /\ m[x] = l[x + k]
  BY DEF Places
<1>3. \A i \in 0..(n - k) : Ahead(m, i) = Ahead(l, i + k)
  <2> TAKE i \in 0..(n - k)
  <2>1. \A x \in Places(l, i + k) : x - k \in Places(m, i) /\ m[x - k] = l[x]
    BY <1>1
  <2>2. \A x \in Places(m, i) : x + k \in Places(l, i + k) /\ m[x] = l[x + k]
    BY <1>2
  <2> QED
    BY <2>1, <2>2 DEF Ahead
<1>4. ASSUME NEW s \in Introduced(l, k)
      PROVE  s \in Introduced(m, 0)
  <2>1. PICK i \in Places(l, k) : /\ JoinsOn(l[i].frame, s)
                                  /\ \A j \in Places(l, k) : j < i => ~DirectOn(l[j].frame, s)
    BY DEF Introduced
  <2>2. s \in Servers
    BY DEF Introduced
  <2>3. 0 \in 0..(n - k) /\ 0 + k = k /\ i \in Int /\ k \in Int
    BY DEF Places
  <2>4. i - k \in Places(m, 0) /\ m[i - k] = l[i]
    BY <1>1, <2>3
  <2>5. \A j \in Places(m, 0) : j + k \in Places(l, k) /\ m[j] = l[j + k] /\ j \in Int
    BY <1>2, <2>3 DEF Places
  <2>6. \A j \in Places(m, 0) : j < i - k => ~DirectOn(m[j].frame, s)
    <3> TAKE j \in Places(m, 0)
    <3> HAVE j < i - k
    <3>1. j + k < i
      BY <2>3, <2>5
    <3> QED
      BY <2>1, <2>5, <3>1
  <2> QED
    BY <2>1, <2>2, <2>4, <2>6 DEF Introduced
<1>5. Tells(l, m, {}, {})
  <2> SUFFICES ASSUME NEW j \in DOMAIN m
               PROVE  \E i \in DOMAIN l : m[j] = l[i] /\ Ahead(l, i) = Ahead(m, j)
    BY DEF Tells
  <2>1. j \in 0..(n - k) /\ j + k \in DOMAIN l /\ m[j] = l[j + k]
    OBVIOUS
  <2> QED
    BY <1>3, <2>1
<1> QED
  BY <1>3, <1>4, <1>5

LEMMA GrownIs ==
    ASSUME NEW l, NEW m, NEW n \in Nat, NEW f, ~IsReply(f), DOMAIN l = 1..n, DOMAIN m = 1..(n + 1),
           \A i \in 1..n : m[i] = l[i], m[n + 1].frame = f
    PROVE  Widens(l, m, {f}) /\ Tells(l, m, {f}, {f})
<1>1. \A k \in 0..n : Places(m, k) = Places(l, k) \cup {n + 1} /\ \A i \in Places(l, k) : m[i] = l[i] /\ i < n + 1
  BY DEF Places
<1>2. \A k \in 0..n : Ahead(m, k) = Ahead(l, k) \cup {f}
  <2> TAKE k \in 0..n
  <2>1. Places(m, k) = Places(l, k) \cup {n + 1} /\ \A i \in Places(l, k) : m[i] = l[i]
    BY <1>1
  <2> QED
    BY <2>1 DEF Ahead
<1>3. 0 \in 0..n
  OBVIOUS
<1>4. ASSUME NEW s \in Introduced(l, 0)
      PROVE  s \in Introduced(m, 0)
  <2>1. PICK i \in Places(l, 0) : /\ JoinsOn(l[i].frame, s)
                                  /\ \A j \in Places(l, 0) : j < i => ~DirectOn(l[j].frame, s)
    BY DEF Introduced
  <2>2. s \in Servers /\ i \in Places(m, 0) /\ m[i] = l[i] /\ i < n + 1 /\ i \in Int
    BY <1>1, <1>3 DEF Introduced, Places
  <2>3. \A j \in Places(m, 0) : j < i => j \in Places(l, 0) /\ m[j] = l[j]
    BY <1>1, <1>3, <2>2
  <2> QED
    BY <2>1, <2>2, <2>3 DEF Introduced
<1>5. ASSUME NEW s \in Servers, JoinsOn(f, s), \A g \in Ahead(l, 0) : ~DirectOn(g, s)
      PROVE  s \in Introduced(m, 0)
  <2>1. n + 1 \in Places(m, 0)
    BY <1>1, <1>3
  <2>2. \A j \in Places(m, 0) : j < n + 1 => j \in Places(l, 0) /\ m[j] = l[j]
    BY <1>1, <1>3
  <2>3. \A j \in Places(l, 0) : ~DirectOn(l[j].frame, s)
    BY <1>5 DEF Ahead
  <2> QED
    BY <1>5, <2>1, <2>2, <2>3 DEF Introduced
<1>6. Widens(l, m, {f})
  BY <1>2, <1>3, <1>4, <1>5 DEF Widens
<1>7. Tells(l, m, {f}, {f})
  <2> SUFFICES ASSUME NEW j \in DOMAIN m, m[j].frame # f
               PROVE  \E i \in DOMAIN l : m[j] = l[i] /\ \A g \in Ahead(l, i) \cup {f} : g \in Ahead(m, j)
    BY DEF Tells
  <2>1. j \in 1..n /\ j \in 0..n
    OBVIOUS
  <2> QED
    BY <1>2, <2>1
<1> QED
  BY <1>6, <1>7

\* An answer among the frames: m is l without its p-th entry.
LEMMA WithoutReply ==
    ASSUME NEW l, NEW m, NEW n \in Nat, DOMAIN l = 1..n, DOMAIN m = 1..(n - 1), NEW p \in 1..n,
           IsReply(l[p].frame),
           \A i \in 1..(n - 1) : m[i] = l[IF i < p THEN i ELSE i + 1]
    PROVE  /\ Widens(l, m, {}) /\ Tells(l, m, {}, {})
           /\ Widens(m, l, {}) /\ Tells(m, l, {}, {l[p].frame})
<1> DEFINE up(i) == IF i < p THEN i ELSE i + 1
           down(i) == IF i < p THEN i ELSE i - 1
<1>0. \A i \in 1..(n - 1) : m[i] = l[up(i)]
  OBVIOUS
<1>1. \A i \in 0..(n - 1) : \A x \in Places(m, i) : x \in Int /\ up(x) \in Places(l, up(i)) /\ m[x] = l[up(x)]
  <2> TAKE i \in 0..(n - 1)
  <2> TAKE x \in Places(m, i)
  <2>1. x \in 1..(n - 1) /\ x > i /\ ~IsReply(m[x].frame) /\ m[x] = l[up(x)]
    BY <1>0 DEF Places
  <2>2. up(x) \in 1..n /\ up(x) > up(i)
    BY <2>1
  <2> HIDE DEF up
  <2> QED
    BY <2>1, <2>2 DEF Places
<1>2. \A i \in 0..(n - 1) : \A x \in Places(l, up(i)) : x \in Int /\ down(x) \in Places(m, i) /\ m[down(x)] = l[x]
  <2> TAKE i \in 0..(n - 1)
  <2> TAKE x \in Places(l, up(i))
  <2>1. x \in 1..n /\ x > up(i) /\ ~IsReply(l[x].frame) /\ x # p
    BY DEF Places
  <2>2. down(x) \in 1..(n - 1) /\ down(x) > i /\ up(down(x)) = x
    BY <2>1
  <2> HIDE DEF up, down
  <2> QED
    BY <1>0, <2>1, <2>2 DEF Places
<1>3. \A i \in 0..(n - 1) : Ahead(m, i) = Ahead(l, up(i))
  <2> TAKE i \in 0..(n - 1)
  <2>1. \A x \in Places(m, i) : up(x) \in Places(l, up(i)) /\ m[x] = l[up(x)]
    BY <1>1
  <2>2. \A x \in Places(l, up(i)) : down(x) \in Places(m, i) /\ m[down(x)] = l[x]
    BY <1>2
  <2> HIDE DEF up, down
  <2> QED
    BY <2>1, <2>2 DEF Ahead
<1>4. \A i \in 0..n : i # p => down(i) \in 0..(n - 1) /\ up(down(i)) = i /\ (i # 0 => down(i) \in 1..(n - 1))
  OBVIOUS
<1>5. Places(l, 0) = Places(l, up(0)) /\ Ahead(m, 0) = Ahead(l, 0)
  <2>1. CASE p = 1
    <3>1. up(0) = 0 /\ 0 \in 0..(n - 1)
      OBVIOUS
    <3> HIDE DEF up
    <3> QED
      BY <1>3, <3>1
  <2>2. CASE p # 1
    <3>1. up(0) = 0 /\ 0 \in 0..(n - 1)
      OBVIOUS
    <3> HIDE DEF up
    <3> QED
      BY <1>3, <3>1
  <2> QED
    BY <2>1, <2>2
<1>6. 0 \in 0..(n - 1)
  OBVIOUS
<1>7. ASSUME NEW s \in Introduced(l, 0)
      PROVE  s \in Introduced(m, 0)
  <2>1. PICK i \in Places(l, 0) : /\ JoinsOn(l[i].frame, s)
                                  /\ \A j \in Places(l, 0) : j < i => ~DirectOn(l[j].frame, s)
    BY DEF Introduced
  <2>2. s \in Servers /\ i \in Int /\ i # p /\ down(i) \in Places(m, 0) /\ m[down(i)] = l[i]
    <3> HIDE DEF up, down
    <3> QED
      BY <1>2, <1>5, <1>6 DEF Introduced, Places
  <2>3. \A j \in Places(m, 0) : j < down(i) => up(j) \in Places(l, 0) /\ m[j] = l[up(j)] /\ up(j) < i
    <3> TAKE j \in Places(m, 0)
    <3> HAVE j < down(i)
    <3>1. j \in Int /\ up(j) \in Places(l, 0) /\ m[j] = l[up(j)]
      <4> HIDE DEF up, down
      <4> QED
        BY <1>1, <1>5, <1>6
    <3>2. up(j) < i
      BY <2>2, <3>1
    <3> QED
      BY <3>1, <3>2
  <2> HIDE DEF up, down
  <2> QED
    BY <2>1, <2>2, <2>3 DEF Introduced
<1>8. ASSUME NEW s \in Introduced(m, 0)
      PROVE  s \in Introduced(l, 0)
  <2>1. PICK i \in Places(m, 0) : /\ JoinsOn(m[i].frame, s)
                                  /\ \A j \in Places(m, 0) : j < i => ~DirectOn(m[j].frame, s)
    BY DEF Introduced
  <2>2. s \in Servers /\ i \in Int /\ up(i) \in Places(l, 0) /\ m[i] = l[up(i)]
    <3> HIDE DEF up, down
    <3> QED
      BY <1>1, <1>5, <1>6 DEF Introduced
  <2>3. \A j \in Places(l, 0) : j < up(i) => down(j) \in Places(m, 0) /\ m[down(j)] = l[j] /\ down(j) < i
    <3> TAKE j \in Places(l, 0)
    <3> HAVE j < up(i)
    <3>1. j \in Int /\ j # p /\ down(j) \in Places(m, 0) /\ m[down(j)] = l[j]
      <4> HIDE DEF up, down
      <4> QED
        BY <1>2, <1>5, <1>6 DEF Places
    <3>2. down(j) < i
      BY <2>2, <3>1
    <3> QED
      BY <3>1, <3>2
  <2> HIDE DEF up, down
  <2> QED
    BY <2>1, <2>2, <2>3 DEF Introduced
<1>9. Widens(l, m, {}) /\ Widens(m, l, {})
  BY <1>5, <1>7, <1>8 DEF Widens
<1>10. Tells(l, m, {}, {})
  <2> SUFFICES ASSUME NEW j \in DOMAIN m
               PROVE  \E i \in DOMAIN l : m[j] = l[i] /\ Ahead(l, i) = Ahead(m, j)
    BY DEF Tells
  <2>1. up(j) \in DOMAIN l /\ m[j] = l[up(j)] /\ j \in 0..(n - 1)
    OBVIOUS
  <2> HIDE DEF up
  <2> QED
    BY <1>3, <2>1
<1>11. Tells(m, l, {}, {l[p].frame})
  <2> SUFFICES ASSUME NEW j \in DOMAIN l, j # p
               PROVE  \E i \in DOMAIN m : l[j] = m[i] /\ Ahead(m, i) = Ahead(l, j)
    BY DEF Tells
  <2>1. j \in 0..n /\ j # 0
    OBVIOUS
  <2>2. down(j) \in DOMAIN m /\ down(j) \in 0..(n - 1) /\ up(down(j)) = j
    <3> HIDE DEF up, down
    <3> QED
      BY <1>4, <2>1
  <2>3. m[down(j)] = l[j] /\ Ahead(m, down(j)) = Ahead(l, j)
    <3> HIDE DEF up, down
    <3> QED
      BY <1>0, <1>3, <2>2
  <2> QED
    BY <2>2, <2>3
<1> QED
  BY <1>9, <1>10, <1>11

Held == [frame : Frame, session : Nat]
OnWire == Frame \cup Answers

LEMMA LineIs ==
    ASSUME NEW q \in Seq(Held), NEW w \in Seq(OnWire), NEW n
    PROVE  LET l == Line(q, w, n)
           IN /\ Len(q) \in Nat /\ Len(w) \in Nat /\ Len(q) + Len(w) \in Nat /\ DOMAIN l = 1..(Len(q) + Len(w))
              /\ \A i \in 1..Len(q) : i \in DOMAIN l /\ l[i] = q[i] /\ q[i] \in Held
              /\ \A i \in DOMAIN l : i > Len(q) => /\ i - Len(q) \in 1..Len(w) /\ w[i - Len(q)] \in OnWire
                                                   /\ l[i] = [frame |-> w[i - Len(q)], session |-> n]
              /\ \A i \in DOMAIN l : l[i].frame \in OnWire
<1>1. Len(q) \in Nat /\ Len(w) \in Nat /\ (\A i \in 1..Len(q) : q[i] \in Held) /\ (\A i \in 1..Len(w) : w[i] \in OnWire)
  BY Elements
<1> DEFINE l == Line(q, w, n)
<1>2. DOMAIN l = 1..(Len(q) + Len(w))
  BY DEF Line
<1>3. \A i \in 1..Len(q) : i \in DOMAIN l /\ l[i] = q[i] /\ q[i] \in Held
  BY <1>1 DEF Line
<1>4. \A i \in DOMAIN l : i > Len(q) => /\ i - Len(q) \in 1..Len(w) /\ w[i - Len(q)] \in OnWire
                                        /\ l[i] = [frame |-> w[i - Len(q)], session |-> n]
  BY <1>1, <1>2 DEF Line
<1> HIDE DEF l
<1>5. \A i \in DOMAIN l : l[i].frame \in OnWire
  <2> TAKE i \in DOMAIN l
  <2>1. CASE i > Len(q)
    BY <1>4, <2>1
  <2>2. CASE ~(i > Len(q))
    BY <1>1, <1>2, <1>3, <2>2 DEF Held, OnWire
  <2> QED
    BY <2>1, <2>2
<1> QED
  BY <1>1, <1>2, <1>3, <1>4, <1>5 DEF l

LEMMA LineGrows ==
    ASSUME NEW q \in Seq(Held), NEW w \in Seq(OnWire), NEW n, NEW f \in Frame
    PROVE  /\ Widens(Line(q, w, n), Line(q, w \o <<f>>, n), {f})
           /\ Tells(Line(q, w, n), Line(q, w \o <<f>>, n), {f}, {f})
<1> DEFINE v == w \o <<f>>
           l == Line(q, w, n)
           m == Line(q, v, n)
<1>1. /\ v \in Seq(OnWire) /\ Len(v) = Len(w) + 1 /\ v[Len(w) + 1] = f
      /\ \A i \in 1..Len(w) : v[i] = w[i]
  BY DEF OnWire
<1> HIDE DEF v
<1>2. ~IsReply(f)
  BY FramesAreNoReplies
<1>3. /\ Len(q) + Len(w) \in Nat /\ DOMAIN l = 1..(Len(q) + Len(w)) /\ DOMAIN m = 1..((Len(q) + Len(w)) + 1)
      /\ \A i \in 1..(Len(q) + Len(w)) : m[i] = l[i]
      /\ m[(Len(q) + Len(w)) + 1].frame = f
  <2>1. Len(q) \in Nat /\ Len(w) \in Nat
    BY Elements
  <2>2. DOMAIN l = 1..(Len(q) + Len(w)) /\ DOMAIN m = 1..((Len(q) + Len(w)) + 1)
    BY <1>1, <2>1 DEF Line
  <2>3. \A i \in 1..(Len(q) + Len(w)) : m[i] = l[i]
    BY <1>1, <2>1 DEF Line
  <2>4. m[(Len(q) + Len(w)) + 1].frame = f
    BY <1>1, <2>1 DEF Line
  <2> QED
    BY <2>1, <2>2, <2>3, <2>4
<1> HIDE DEF l, m
<1>4. Widens(l, m, {f}) /\ Tells(l, m, {f}, {f})
  BY <1>2, <1>3, GrownIs
<1> QED
  BY <1>4 DEF l, m, v

LEMMA LineInserted ==
    ASSUME NEW q \in Seq(Held), NEW w \in Seq(OnWire), NEW n, NEW id \in Nat, NEW k \in 0..Len(w), NEW v, NEW o,
           Inserted(v, OnWire, w, k, o), o[1] = Reply(id)
    PROVE  /\ Widens(Line(q, w, n), Line(q, v, n), {})
           /\ Tells(Line(q, w, n), Line(q, v, n), {}, {Reply(id)})
<1> DEFINE l == Line(q, v, n)
           m == Line(q, w, n)
           p == Len(q) + k + 1
           e == Len(q) + Len(w)
<1> HIDE DEF l, m, p, e
<1>1. IsReply(Reply(id))
  BY DEF Reply, IsReply
<1>2. Len(q) \in Nat /\ Len(w) \in Nat /\ k \in Nat /\ k <= Len(w)
  BY Elements
<1>3. /\ v \in Seq(OnWire) /\ DOMAIN v = 1..(Len(w) + 1) /\ v[k + 1] = Reply(id)
      /\ \A i \in 1..Len(w) : w[i] = v[IF i <= k THEN i ELSE i + 1]
  <2>1. v \in Seq(OnWire) /\ DOMAIN v = 1..(Len(w) + 1)
    BY DEF Inserted
  <2>2. v[k + 1] = Reply(id)
    BY <1>2, <2>1 DEF Inserted
  <2>3. ASSUME NEW i \in 1..Len(w)
        PROVE  w[i] = v[IF i <= k THEN i ELSE i + 1]
    <3>1. CASE i <= k
      <4>1. i \in DOMAIN v
        BY <1>2, <2>1
      <4> QED
        BY <3>1, <4>1 DEF Inserted
    <3>2. CASE ~(i <= k)
      <4>1. i + 1 \in DOMAIN v /\ i + 1 > k + 1 /\ (i + 1) - 1 = i
        BY <1>2, <2>1, <3>2
      <4> QED
        BY <3>2, <4>1 DEF Inserted
    <3> QED
      BY <3>1, <3>2
  <2> QED
    BY <2>1, <2>2, <2>3
<1>4. Len(v) = Len(w) + 1
  <2>1. DOMAIN v = 1..Len(v) /\ Len(v) \in Nat
    BY <1>3, Elements
  <2>2. Len(w) + 1 \in 1..Len(v)
    BY <1>2, <1>3, <2>1
  <2>3. Len(v) <= Len(w) + 1 /\ Len(w) + 1 <= Len(v)
    <3>1. Len(v) \in 1..Len(v)
      BY <1>2, <2>1, <2>2
    <3>2. Len(v) \in 1..(Len(w) + 1)
      BY <1>3, <2>1, <3>1
    <3> QED
      BY <1>2, <2>1, <2>2, <3>2
  <2>4. Len(v) \in Nat /\ Len(w) \in Nat
    BY <1>2, <2>1
  <2> QED
    BY ONLY <2>3, <2>4
<1>5. /\ e + 1 \in Nat /\ DOMAIN l = 1..(e + 1) /\ DOMAIN m = 1..((e + 1) - 1) /\ p \in 1..(e + 1)
  BY <1>2, <1>4 DEF Line, l, m, p, e
<1>6. l[p].frame = Reply(id)
  <2>1. p \in 1..(Len(q) + Len(v)) /\ ~(p <= Len(q)) /\ p - Len(q) = k + 1
    BY <1>2, <1>4 DEF p, e
  <2>2. l[p] = [frame |-> v[p - Len(q)], session |-> n]
    BY <2>1 DEF Line, l, m
  <2> QED
    BY <1>3, <2>1, <2>2
<1>7. ASSUME NEW i \in 1..((e + 1) - 1)
      PROVE  m[i] = l[IF i < p THEN i ELSE i + 1]
  <2>1. i \in 1..(Len(q) + Len(w)) /\ i \in 1..(Len(q) + Len(v)) /\ i + 1 \in 1..(Len(q) + Len(v)) /\ i \in Nat
    BY <1>2, <1>4 DEF p, e
  <2>2. CASE i <= Len(q)
    <3>1. i < p /\ i <= Len(q)
      BY <1>2, <2>1, <2>2 DEF p
    <3>2. m[i] = q[i] /\ l[i] = q[i]
      BY <2>1, <3>1 DEF Line, l, m
    <3> QED
      BY <3>1, <3>2
  <2>3. CASE i > Len(q) /\ i < p
    <3>1. ~(i <= Len(q)) /\ i - Len(q) \in 1..Len(w) /\ i - Len(q) <= k
      BY <1>2, <2>1, <2>3 DEF p
    <3>2. m[i] = [frame |-> w[i - Len(q)], session |-> n] /\ l[i] = [frame |-> v[i - Len(q)], session |-> n]
      BY <2>1, <3>1 DEF Line, l, m
    <3>3. w[i - Len(q)] = v[i - Len(q)]
      BY <1>3, <3>1
    <3> QED
      BY <2>3, <3>2, <3>3
  <2>4. CASE ~(i < p)
    <3>1. /\ ~(i <= Len(q)) /\ ~(i + 1 <= Len(q)) /\ i - Len(q) \in 1..Len(w) /\ ~(i - Len(q) <= k)
          /\ (i + 1) - Len(q) = (i - Len(q)) + 1
      BY <1>2, <2>1, <2>4 DEF p
    <3>2. /\ m[i] = [frame |-> w[i - Len(q)], session |-> n]
          /\ l[i + 1] = [frame |-> v[(i + 1) - Len(q)], session |-> n]
      BY <2>1, <3>1 DEF Line, l, m
    <3>3. w[i - Len(q)] = v[(i - Len(q)) + 1]
      BY <1>3, <3>1
    <3> QED
      BY <2>4, <3>1, <3>2, <3>3
  <2> QED
    BY <1>2, <2>1, <2>2, <2>3, <2>4 DEF p
<1>8. Widens(m, l, {}) /\ Tells(m, l, {}, {Reply(id)})
  <2>1. IsReply(l[p].frame)
    BY <1>1, <1>6
  <2>2. Widens(m, l, {}) /\ Tells(m, l, {}, {l[p].frame})
    BY ONLY <1>5, <1>7, <2>1, WithoutReply
  <2> QED
    BY <1>6, <2>2
<1> QED
  BY <1>8 DEF l, m

LEMMA LineAnswered ==
    ASSUME NEW q \in Seq(Held), NEW w \in Seq(OnWire), NEW n, NEW id \in Nat, NEW k \in 0..Len(w)
    PROVE  LET v == SubSeq(w, 1, k) \o <<Reply(id)>> \o SubSeq(w, k + 1, Len(w))
           IN /\ v \in Seq(OnWire)
              /\ Widens(Line(q, w, n), Line(q, v, n), {})
              /\ Tells(Line(q, w, n), Line(q, v, n), {}, {Reply(id)})
<1> DEFINE o == <<Reply(id)>>
           v == SubSeq(w, 1, k) \o o \o SubSeq(w, k + 1, Len(w))
<1>1. Reply(id) \in OnWire
  BY DEF Reply, OnWire, Answers
<1>2. o \in Seq(OnWire) /\ Len(o) = 1 /\ o[1] = Reply(id)
  BY <1>1
<1> HIDE DEF o
<1>3. Inserted(v, OnWire, w, k, o)
  BY <1>2, InsertedIs
<1> HIDE DEF v
<1>4. v \in Seq(OnWire)
  BY <1>3 DEF Inserted
<1>5. Widens(Line(q, w, n), Line(q, v, n), {}) /\ Tells(Line(q, w, n), Line(q, v, n), {}, {Reply(id)})
  BY <1>2, <1>3, LineInserted
<1> QED
  BY <1>4, <1>5 DEF v, o

LEMMA LineTaken ==
    ASSUME NEW q \in Seq(Held), NEW w \in Seq(OnWire), NEW n, w # <<>>, IsReply(Head(w))
    PROVE  /\ Widens(Line(q, w, n), Line(q, Tail(w), n), {})
           /\ Tells(Line(q, w, n), Line(q, Tail(w), n), {}, {})
<1> DEFINE l == Line(q, w, n)
           v == Tail(w)
           m == Line(q, v, n)
           p == Len(q) + 1
<1>1. /\ Len(q) \in Nat /\ Len(w) \in Nat /\ Len(w) # 0 /\ Len(v) = Len(w) - 1 /\ Head(w) = w[1]
      /\ \A i \in 1..Len(v) : v[i] = w[i + 1]
  BY Elements
<1> HIDE DEF v
<1>2. /\ Len(q) + Len(w) \in Nat /\ DOMAIN l = 1..(Len(q) + Len(w)) /\ DOMAIN m = 1..((Len(q) + Len(w)) - 1)
      /\ p \in 1..(Len(q) + Len(w)) /\ l[p].frame = Head(w)
  BY <1>1 DEF Line
<1>3. \A i \in 1..((Len(q) + Len(w)) - 1) : m[i] = l[IF i < p THEN i ELSE i + 1]
  <2> TAKE i \in 1..((Len(q) + Len(w)) - 1)
  <2>1. CASE i < p
    BY <1>1, <2>1 DEF Line
  <2>2. CASE ~(i < p)
    <3>1. i > Len(q) /\ i \in 1..(Len(q) + Len(v)) /\ i + 1 \in 1..(Len(q) + Len(w)) /\ i + 1 > Len(q)
          /\ (i + 1) - Len(q) = (i - Len(q)) + 1 /\ i - Len(q) \in 1..Len(v)
      BY <1>1, <2>2
    <3>2. m[i] = [frame |-> v[i - Len(q)], session |-> n] /\ l[i + 1] = [frame |-> w[(i - Len(q)) + 1], session |-> n]
      BY <3>1 DEF Line
    <3> QED
      BY <1>1, <2>2, <3>1, <3>2
  <2> QED
    BY <2>1, <2>2
<1> HIDE DEF l, m, p
<1>4. Widens(l, m, {}) /\ Tells(l, m, {}, {})
  <2>1. IsReply(l[p].frame)
    BY <1>2
  <2> QED
    BY ONLY <1>2, <1>3, <2>1, WithoutReply
<1> QED
  BY <1>4 DEF l, m, v

LEMMA TailIs ==
    ASSUME NEW T, NEW w \in Seq(T), w # <<>>
    PROVE  /\ Head(w) = w[1] /\ Head(w) \in T /\ Tail(w) \in Seq(T) /\ Len(w) \in Nat /\ 1 <= Len(w)
           /\ Len(Tail(w)) = Len(w) - 1 /\ \A i \in 1..(Len(w) - 1) : Tail(w)[i] = w[i + 1]
OBVIOUS

\* A frame that is held back only moves on the line.
LEMMA LineQueued ==
    ASSUME NEW q \in Seq(Held), NEW w \in Seq(OnWire), NEW n, w # <<>>, NEW r, r = [frame |-> Head(w), session |-> n],
           r \in Held
    PROVE  Line(Append(q, r), Tail(w), n) = Line(q, w, n)
<1> DEFINE l == Line(q, w, n)
           p == Append(q, r)
           v == Tail(w)
           m == Line(p, v, n)
<1>1. Len(q) \in Nat /\ Len(p) = Len(q) + 1 /\ p[Len(q) + 1] = r /\ \A i \in 1..Len(q) : p[i] = q[i]
  OBVIOUS
<1>2. /\ Head(w) = w[1] /\ Len(w) \in Nat /\ 1 <= Len(w) /\ Len(v) = Len(w) - 1
      /\ \A i \in 1..(Len(w) - 1) : v[i] = w[i + 1]
  BY TailIs
<1> HIDE DEF p, v
<1>3. l = [i \in 1..(Len(q) + Len(w)) |-> IF i <= Len(q) THEN q[i] ELSE [frame |-> w[i - Len(q)], session |-> n]]
  BY DEF Line
<1>4. Len(p) + Len(v) = Len(q) + Len(w)
  BY <1>1, <1>2
<1>5. m = [i \in 1..(Len(q) + Len(w)) |-> IF i <= Len(p) THEN p[i] ELSE [frame |-> v[i - Len(p)], session |-> n]]
  BY <1>4 DEF Line
<1>6. ASSUME NEW i \in 1..(Len(q) + Len(w))
      PROVE  (IF i <= Len(q) THEN q[i] ELSE [frame |-> w[i - Len(q)], session |-> n])
             = (IF i <= Len(p) THEN p[i] ELSE [frame |-> v[i - Len(p)], session |-> n])
  <2>1. CASE i <= Len(q)
    BY <1>1, <2>1
  <2>2. CASE i = Len(q) + 1
    <3>1. w[i - Len(q)] = Head(w)
      BY <1>1, <1>2, <2>2
    <3>2. ~(i <= Len(q)) /\ i <= Len(p) /\ p[i] = r
      BY <1>1, <2>2
    <3> QED
      BY <3>1, <3>2
  <2>3. CASE i > Len(q) + 1
    <3>1. ~(i <= Len(q)) /\ ~(i <= Len(p)) /\ i - Len(p) \in 1..(Len(w) - 1) /\ (i - Len(p)) + 1 = i - Len(q)
      BY <1>1, <1>2, <2>3
    <3>2. v[i - Len(p)] = w[i - Len(q)]
      BY <1>2, <3>1
    <3> QED
      BY <3>1, <3>2
  <2> QED
    BY <1>1, <1>2, <2>1, <2>2, <2>3
<1> HIDE DEF l, m
<1>7. l = m
  BY <1>3, <1>5, <1>6
<1> QED
  BY <1>7 DEF l, m, p, v

\* The socket's next frame is taken, nothing being held back.
LEMMA LineReceived ==
    ASSUME NEW w \in Seq(OnWire), NEW n, w # <<>>
    PROVE  LET l == Line(<<>>, w, n)
               m == Line(<<>>, Tail(w), n)
           IN /\ Len(w) \in Nat /\ 1 <= Len(w) /\ DOMAIN l = 1..Len(w) /\ l[1] = [frame |-> Head(w), session |-> n]
              /\ \A i \in 0..(Len(w) - 1) : Ahead(m, i) = Ahead(l, i + 1)
              /\ \A s \in Introduced(l, 1) : s \in Introduced(m, 0)
              /\ Tells(l, m, {}, {})
<1> DEFINE l == Line(<<>>, w, n)
           v == Tail(w)
           m == Line(<<>>, v, n)
<1>1. /\ Head(w) = w[1] /\ Len(w) \in Nat /\ 1 <= Len(w) /\ Len(v) = Len(w) - 1
      /\ \A i \in 1..(Len(w) - 1) : v[i] = w[i + 1]
  BY TailIs
<1> HIDE DEF v
<1>2. /\ DOMAIN l = 1..Len(w) /\ DOMAIN m = 1..(Len(w) - 1)
      /\ l[1] = [frame |-> Head(w), session |-> n]
      /\ \A i \in 1..Len(w) : l[i] = [frame |-> w[i], session |-> n]
      /\ \A i \in 1..(Len(w) - 1) : m[i] = [frame |-> v[i], session |-> n]
  <2>1. l = [i \in 1..Len(w) |-> [frame |-> w[i], session |-> n]]
    BY <1>1 DEF Line
  <2>2. m = [i \in 1..(Len(w) - 1) |-> [frame |-> v[i], session |-> n]]
    BY <1>1 DEF Line
  <2> HIDE DEF l, m
  <2> QED
    BY <1>1, <2>1, <2>2
<1> HIDE DEF l, m
<1>3. \A i \in 1..(Len(w) - 1) : m[i] = l[i + 1]
  BY <1>1, <1>2
<1>4. /\ \A i \in 0..(Len(w) - 1) : Ahead(m, i) = Ahead(l, i + 1)
      /\ \A s \in Introduced(l, 1) : s \in Introduced(m, 0)
      /\ Tells(l, m, {}, {})
  <2>1. Len(w) \in Nat /\ 1 \in 0..Len(w) /\ DOMAIN l = 1..Len(w) /\ DOMAIN m = 1..(Len(w) - 1)
    BY <1>1, <1>2
  <2> QED
    BY ONLY <1>3, <2>1, SuffixIs
<1> QED
  BY <1>1, <1>2, <1>4 DEF l, m, v

\* The frames held back are applied, the socket's are still to come.
LEMMA LineDrained ==
    ASSUME NEW q \in Seq(Held), NEW w \in Seq(OnWire), NEW n
    PROVE  LET l == Line(q, w, n)
               m == Line(<<>>, w, n)
               k == Len(q)
           IN /\ \A i \in 0..Len(w) : Ahead(m, i) = Ahead(l, i + k)
              /\ \A s \in Introduced(l, k) : s \in Introduced(m, 0)
              /\ Tells(l, m, {}, {})
<1> DEFINE l == Line(q, w, n)
           m == Line(<<>>, w, n)
           k == Len(q)
<1>1. k \in Nat /\ Len(w) \in Nat /\ k + Len(w) \in Nat /\ (k + Len(w)) - k = Len(w) /\ k \in 0..(k + Len(w))
  BY Elements
<1>2. DOMAIN l = 1..(k + Len(w)) /\ DOMAIN m = 1..((k + Len(w)) - k)
  BY <1>1 DEF Line
<1>3. \A i \in 1..((k + Len(w)) - k) : m[i] = l[i + k]
  <2>1. m = [i \in 1..Len(w) |-> [frame |-> w[i], session |-> n]]
    BY <1>1 DEF Line
  <2>2. ASSUME NEW i \in 1..Len(w)
        PROVE  l[i + k] = [frame |-> w[i], session |-> n]
    <3>1. i + k \in 1..(Len(q) + Len(w)) /\ ~(i + k <= Len(q)) /\ (i + k) - Len(q) = i
      BY <1>1
    <3> QED
      BY <3>1 DEF Line
  <2> HIDE DEF l, m
  <2> QED
    BY <1>1, <2>1, <2>2
<1> HIDE DEF l, m, k
<1>4. /\ \A i \in 0..Len(w) : Ahead(m, i) = Ahead(l, i + k)
      /\ \A s \in Introduced(l, k) : s \in Introduced(m, 0)
      /\ Tells(l, m, {}, {})
  <2>1. /\ \A i \in 0..((k + Len(w)) - k) : Ahead(m, i) = Ahead(l, i + k)
        /\ \A s \in Introduced(l, k) : s \in Introduced(m, 0)
        /\ Tells(l, m, {}, {})
    BY ONLY <1>1, <1>2, <1>3, SuffixIs
  <2> QED
    BY <1>1, <2>1
<1> QED
  BY <1>4 DEF l, m, k

-----------------------------------------------------------------------------
(* What may be added to a level picture, and taken from it.                *)

LEMMA ToldOfMore ==
    ASSUME NEW f, NEW G, NEW H, NEW t, G \subseteq H, FrameTold(f, G, t)
    PROVE  FrameTold(f, H, t)
<1>1. \A b : LeftIn(G, b) => LeftIn(H, b)
  BY DEF LeftIn
<1>2. \A c : Gone(G, c) => Gone(H, c)
  BY <1>1 DEF Gone
<1>3. \A c : Rejoins(G, c) => Rejoins(H, c)
  BY DEF Rejoins
<1>4. \A c, n : Counts(G, c, n) => Counts(H, c, n)
  BY DEF Counts
<1>5. \A s, x : Reports(G, s, x) => Reports(H, s, x)
  BY DEF Reports
<1> QED
  BY <1>1, <1>2, <1>3, <1>4, <1>5 DEF FrameTold, JoinTold, LeaveTold, CountTold, StatusTold, Alive

LEMMA LevelWeakens ==
    ASSUME NEW u, NEW v, Looks(u, v), NEW G, NEW H, NEW N, NEW M, NEW W, NEW V, NEW R, NEW S, NEW Z, NEW Y, NEW t,
           Level(u, G, N, W, R, Z, t), G \subseteq H, \A s \in N : s \in M, Z \subseteq Y,
           \A g \in (H \cup V) \cup S : g.type = "direct_message" => g \in (G \cup W) \cup R,
           \A g \in G \cup W : g.type = "direct_message" => g \in H \cup V
    PROVE  Level(v, H, M, V, S, Y, t)
<1>1. \A b : LeftIn(G, b) => LeftIn(H, b)
  BY DEF LeftIn
<1>2. \A c : Gone(G, c) => Gone(H, c)
  BY <1>1 DEF Gone
<1>3. \A c : Rejoins(G, c) => Rejoins(H, c)
  BY DEF Rejoins
<1>4. \A c, n : Counts(G, c, n) => Counts(H, c, n)
  BY DEF Counts
<1>5. \A s, x : Reports(G, s, x) => Reports(H, s, x)
  BY DEF Reports
<1>6. ASSUME NEW s \in Servers, s \notin Y
      PROVE  ServerFits(v, s, H, M, t)
  <2>1. ServerFits(u, s, G, N, t) /\ v.known = u.known /\ v.status = u.status
    BY <1>6 DEF Level, Looks, SameServers
  <2> QED
    BY <1>1, <1>5, <2>1 DEF ServerFits, StatusTold
<1>7. ASSUME NEW c \in Channels, Sure(c, Y)
      PROVE  ChannelFits(v, c, H, t)
  <2>1. ChannelFits(u, c, G, t) /\ v.unread = u.unread /\ v.skipped = u.skipped
    BY <1>7 DEF Level, Looks, SameCounts, Sure
  <2> QED
    BY <1>2, <1>3, <1>4, <2>1 DEF ChannelFits, CountTold
<1>8. ASSUME NEW d \in Dms, Sure(d, Y)
      PROVE  ThreadFits(v, d, H, H \cup V, S, t)
  <2>1. ThreadFits(u, d, G, G \cup W, R, t) /\ v.dm = u.dm /\ v.revs = u.revs
    BY <1>8 DEF Level, Looks, SameThreads, Sure
  <2>2. Owed(u, d, G \cup W, t) => Owed(v, d, H \cup V, t)
    BY <2>1 DEF Owed, OnThread
  <2>3. Right(u, d, (G \cup W) \cup R, t) => Right(v, d, (H \cup V) \cup S, t)
    BY <2>1 DEF Right, OnThread
  <2> QED
    BY <1>1, <2>1, <2>2, <2>3 DEF ThreadFits
<1> QED
  BY <1>6, <1>7, <1>8 DEF Level

\* What an effect is on leaves the rest of the picture level.
LEMMA LevelBeside ==
    ASSUME NEW u, NEW v, NEW G, NEW N, NEW W, NEW R, NEW Z, NEW t, Level(u, G, N, W, R, Z, t),
           \A s \in Servers : s \notin Z => (s \in v.known <=> s \in u.known),
           \A s \in Servers : s \notin Z /\ s \in u.known => v.status[s] = u.status[s],
           \A c \in Channels : Sure(c, Z) => v.unread[c] = u.unread[c] /\ (c \in v.skipped <=> c \in u.skipped),
           \A d \in Dms : Sure(d, Z) => v.dm[d] = u.dm[d] /\ v.revs[d] = u.revs[d]
    PROVE  Level(v, G, N, W, R, Z, t)
<1>1. ASSUME NEW s \in Servers, s \notin Z
      PROVE  ServerFits(v, s, G, N, t)
  <2>1. ServerFits(u, s, G, N, t)
    BY <1>1 DEF Level
  <2>2. s \in v.known <=> s \in u.known
    BY <1>1
  <2>3. CASE s \in u.known
    <3>1. s \in v.known /\ v.status[s] = u.status[s]
      BY <1>1, <2>2, <2>3
    <3> QED
      BY <2>1, <2>3, <3>1 DEF ServerFits, StatusTold
  <2>4. CASE s \notin u.known
    BY <2>1, <2>2, <2>4 DEF ServerFits
  <2> QED
    BY <2>3, <2>4
<1>2. ASSUME NEW c \in Channels, Sure(c, Z)
      PROVE  ChannelFits(v, c, G, t)
  BY <1>2 DEF Level, ChannelFits
<1>3. ASSUME NEW d \in Dms, Sure(d, Z)
      PROVE  ThreadFits(v, d, G, G \cup W, R, t)
  <2>1. ThreadFits(u, d, G, G \cup W, R, t) /\ v.dm[d] = u.dm[d] /\ v.revs[d] = u.revs[d]
    BY <1>3 DEF Level
  <2> QED
    BY <2>1 DEF ThreadFits, Owed, Right
<1> QED
  BY <1>1, <1>2, <1>3 DEF Level

-----------------------------------------------------------------------------
(* Operations: what the truth becomes, told by a frame.                    *)

SameMembers(t, o) == o.live = t.live /\ o.dead = t.dead /\ o.joined = t.joined
Becomes(t, f, o) ==
    /\ f.type = "buffer:joined" =>
         /\ f.buf \notin t.joined /\ Owner[f.buf] \notin t.dead
         /\ o.live = t.live \cup {Owner[f.buf]} /\ o.dead = t.dead /\ o.joined = t.joined \cup {f.buf}
         /\ o.status = t.status /\ o.unread = t.unread /\ o.dm = t.dm
         /\ f.status = t.status[Owner[f.buf]]
    /\ f.type = "buffer:left" /\ f.buf \in Channels =>
         /\ o.live = t.live /\ o.dead = t.dead /\ o.joined = t.joined \ {f.buf}
         /\ o.unread = [t.unread EXCEPT ![f.buf] = 0]
         /\ o.status = t.status /\ o.dm = t.dm
    /\ f.type = "buffer:left" /\ f.buf \in Servers =>
         /\ o.live = t.live \ {f.buf} /\ o.dead = t.dead \cup {f.buf} /\ o.joined = t.joined \ OnServer(f.buf)
         /\ \A c \in Channels : o.unread[c] = IF Owner[c] = f.buf THEN 0 ELSE t.unread[c]
         /\ o.status = t.status /\ o.dm = t.dm
    /\ f.type \in {"buffer:message", "buffer:read"} =>
         /\ SameMembers(t, o) /\ o.status = t.status /\ o.dm = t.dm
         /\ f.buf \in t.joined /\ o.unread = [t.unread EXCEPT ![f.buf] = f.unread]
    /\ f.type = "server:status" =>
         /\ SameMembers(t, o) /\ o.unread = t.unread /\ o.dm = t.dm
         /\ o.status = [t.status EXCEPT ![f.buf] = f.status]
    /\ f.type = "direct_message" =>
         /\ SameMembers(t, o) /\ o.unread = t.unread /\ o.status = t.status
         /\ Owner[f.buf] \in t.live /\ \A d \in Dms \ {f.buf} : o.dm[d] = t.dm[d]
         /\ o.dm[f.buf].rev = t.dm[f.buf].rev + 1
         /\ f.rev = o.dm[f.buf].rev /\ f.open = o.dm[f.buf].open /\ f.blocked = o.dm[f.buf].blocked

LEMMA ThreadOperation ==
    ASSUME truth \in Truth, NEW op \in ThreadOps, NEW d, Possible(op, d)
    PROVE  Becomes(truth, FrameOf(op, d, Changed(op, d)), Changed(op, d))
<1>1. d \in Dms /\ Owner[d] \in truth.live
  BY DEF Possible, ThreadOps
<1>2. /\ truth.dm \in [Dms -> [rev : Nat, open : BOOLEAN, blocked : BOOLEAN]]
      /\ DOMAIN truth.dm = Dms
  BY DEF Truth
<1> DEFINE o == Changed(op, d)
<1>3. /\ SameMembers(truth, o) /\ o.unread = truth.unread /\ o.status = truth.status
      /\ o.dm[d].rev = truth.dm[d].rev + 1 /\ \A x \in Dms \ {d} : o.dm[x] = truth.dm[x]
  <2>1. CASE op = "say"
    BY <1>1, <1>2, <2>1 DEF Changed, SameMembers, Truth
  <2>2. CASE op = "read"
    BY <1>1, <1>2, <2>2 DEF Changed, SameMembers, Truth
  <2>3. CASE op = "close"
    BY <1>1, <1>2, <2>3 DEF Changed, SameMembers, Truth
  <2>4. CASE op = "block"
    BY <1>1, <1>2, <2>4 DEF Changed, SameMembers, Truth
  <2> QED
    BY <2>1, <2>2, <2>3, <2>4 DEF ThreadOps
<1> HIDE DEF o
<1> DEFINE f == FrameOf(op, d, o)
<1>4. /\ f.type = "direct_message" /\ f.buf = d /\ f.rev = o.dm[d].rev /\ f.open = o.dm[d].open
      /\ f.blocked = o.dm[d].blocked
  BY DEF FrameOf, DirectFrameOf, ThreadOps
<1> HIDE DEF f
<1>5. Becomes(truth, f, o)
  BY <1>1, <1>3, <1>4 DEF Becomes
<1> QED
  BY <1>5 DEF f, o

LEMMA JoinOperation ==
    ASSUME truth \in Truth, TruthFits(truth), NEW op \in {"join", "create"}, NEW c, Possible(op, c)
    PROVE  Becomes(truth, FrameOf(op, c, Changed(op, c)), Changed(op, c))
<1>1. c \in Channels /\ c \notin truth.joined /\ Owner[c] \notin truth.dead /\ truth.unread[c] = 0
  BY DEF Possible, TruthFits
<1> DEFINE o == Changed(op, c)
<1>2. truth.unread \in [Channels -> 0..1]
  BY DEF Truth
<1>3. /\ o.live = truth.live \cup {Owner[c]} /\ o.dead = truth.dead /\ o.joined = truth.joined \cup {c}
      /\ o.status = truth.status /\ o.unread = truth.unread /\ o.dm = truth.dm
  <2>1. CASE op = "join"
    <3>1. [truth.unread EXCEPT ![c] = 0] = truth.unread
      BY <1>1, <1>2
    <3>2. Owner[c] \in truth.live
      BY <2>1 DEF Possible
    <3> QED
      BY <2>1, <3>1, <3>2 DEF Changed, Truth
  <2>2. CASE op = "create"
    BY <2>2 DEF Changed, Truth
  <2> QED
    BY <2>1, <2>2
<1> HIDE DEF o
<1> DEFINE f == FrameOf(op, c, o)
<1>4. f.type = "buffer:joined" /\ f.buf = c /\ f.status = o.status[Owner[c]]
  BY DEF FrameOf
<1> HIDE DEF f
<1>5. Becomes(truth, f, o)
  BY <1>1, <1>3, <1>4 DEF Becomes
<1> QED
  BY <1>5 DEF f, o

LEMMA OtherOperation ==
    ASSUME truth \in Truth, NEW op \in {"leave", "mention", "seen", "up", "down", "delete"}, NEW b, Possible(op, b)
    PROVE  Becomes(truth, FrameOf(op, b, Changed(op, b)), Changed(op, b))
<1> DEFINE o == Changed(op, b)
           f == FrameOf(op, b, o)
<1>1. Channels \cap Servers = {}
  BY ClientAssumption DEF Buffers
<1>2. truth.joined \subseteq Channels /\ truth.live \subseteq Servers
  BY DEF Truth
<1>3. CASE op = "leave"
  <2>1. b \in Channels /\ b \notin Servers
    BY <1>1, <1>2, <1>3 DEF Possible
  <2>2. /\ o.live = truth.live /\ o.dead = truth.dead /\ o.joined = truth.joined \ {b}
        /\ o.unread = [truth.unread EXCEPT ![b] = 0] /\ o.status = truth.status /\ o.dm = truth.dm
    BY <1>3 DEF Changed, Truth
  <2>3. f.type = "buffer:left" /\ f.buf = b
    BY <1>3 DEF FrameOf
  <2> HIDE DEF o, f
  <2>4. Becomes(truth, f, o)
    BY <2>1, <2>2, <2>3 DEF Becomes
  <2> QED
    BY <2>4 DEF o, f
<1>4. CASE op \in {"mention", "seen"}
  <2>1. b \in truth.joined
    BY <1>4 DEF Possible
  <2>2. /\ SameMembers(truth, o) /\ o.status = truth.status /\ o.dm = truth.dm
        /\ f.type \in {"buffer:message", "buffer:read"} /\ f.buf = b
        /\ o.unread = [truth.unread EXCEPT ![b] = f.unread]
    <3>1. CASE op = "mention"
      BY <3>1 DEF Changed, Truth, FrameOf, SameMembers
    <3>2. CASE op = "seen"
      BY <3>2 DEF Changed, Truth, FrameOf, SameMembers
    <3> QED
      BY <1>4, <3>1, <3>2
  <2> HIDE DEF o, f
  <2>3. Becomes(truth, f, o)
    BY <2>1, <2>2 DEF Becomes
  <2> QED
    BY <2>3 DEF o, f
<1>5. CASE op \in {"up", "down"}
  <2>1. b \in truth.live /\ b \in Servers
    BY <1>2, <1>5 DEF Possible
  <2>2. truth.status \in [Servers -> Status]
    BY DEF Truth
  <2>3. /\ SameMembers(truth, o) /\ o.unread = truth.unread /\ o.dm = truth.dm
        /\ o.status = [truth.status EXCEPT ![b] = o.status[b]]
    <3>1. CASE op = "up"
      BY <2>1, <2>2, <3>1 DEF Changed, Truth, SameMembers
    <3>2. CASE op = "down"
      BY <2>1, <2>2, <3>2 DEF Changed, Truth, SameMembers
    <3> QED
      BY <1>5, <3>1, <3>2
  <2> HIDE DEF o
  <2>4. f.type = "server:status" /\ f.buf = b /\ f.status = o.status[b]
    BY <1>5 DEF FrameOf
  <2> HIDE DEF f
  <2>5. Becomes(truth, f, o)
    BY <2>3, <2>4 DEF Becomes
  <2> QED
    BY <2>5 DEF o, f
<1>6. CASE op = "delete"
  <2>1. b \in Servers /\ b \notin Channels
    BY <1>1, <1>2, <1>6 DEF Possible
  <2>2. /\ o.live = truth.live \ {b} /\ o.dead = truth.dead \cup {b} /\ o.joined = truth.joined \ OnServer(b)
        /\ o.status = truth.status /\ o.dm = truth.dm
        /\ o.unread = [c \in Channels |-> IF Owner[c] = b THEN 0 ELSE truth.unread[c]]
    BY <1>6 DEF Changed, Truth
  <2>3. f.type = "buffer:left" /\ f.buf = b
    BY <1>6 DEF FrameOf
  <2> HIDE DEF o, f
  <2>4. Becomes(truth, f, o)
    BY <2>1, <2>2, <2>3 DEF Becomes
  <2> QED
    BY <2>4 DEF o, f
<1> QED
  BY <1>3, <1>4, <1>5, <1>6

LEMMA OperationBecomes ==
    ASSUME truth \in Truth, TruthFits(truth), NEW op \in Operations, NEW b, Possible(op, b)
    PROVE  Becomes(truth, FrameOf(op, b, Changed(op, b)), Changed(op, b))
BY ThreadOperation, JoinOperation, OtherOperation DEF Operations, ThreadOps, ChannelOps, ServerOps

LEMMA BecomesFits ==
    ASSUME NEW t \in Truth, NEW o, TruthFits(t), NEW f \in Frame, Becomes(t, f, o)
    PROVE  TruthFits(o)
<1>1. Channels \cap Servers = {} /\ Channels \cap Dms = {} /\ Dms \cap Servers = {}
  BY ClientAssumption DEF Buffers
<1>2. t.joined \subseteq Channels /\ t.unread \in [Channels -> 0..1]
  BY DEF Truth
<1>3. CASE f.type = "buffer:joined"
  <2>1. f.buf \in Channels
    BY <1>3, FrameTypes DEF JoinedFrame
  <2>2. /\ f.buf \notin t.joined /\ Owner[f.buf] \notin t.dead
        /\ o.live = t.live \cup {Owner[f.buf]} /\ o.dead = t.dead /\ o.joined = t.joined \cup {f.buf}
        /\ o.unread = t.unread /\ o.dm = t.dm
    BY <1>3 DEF Becomes
  <2> QED
    BY <2>1, <2>2 DEF TruthFits, Born
<1>4. CASE f.type = "buffer:left" /\ f.buf \in Channels
  <2>1. /\ o.live = t.live /\ o.dead = t.dead /\ o.joined = t.joined \ {f.buf}
        /\ o.unread = [t.unread EXCEPT ![f.buf] = 0] /\ o.dm = t.dm
    BY <1>4 DEF Becomes
  <2> QED
    BY <1>2, <1>4, <2>1 DEF TruthFits, Born
<1>5. CASE f.type = "buffer:left" /\ f.buf \in Servers
  <2>1. /\ o.live = t.live \ {f.buf} /\ o.dead = t.dead \cup {f.buf} /\ o.joined = t.joined \ OnServer(f.buf)
        /\ \A c \in Channels : o.unread[c] = IF Owner[c] = f.buf THEN 0 ELSE t.unread[c]
        /\ o.dm = t.dm
    BY <1>5 DEF Becomes
  <2>2. \A c \in Channels : Owner[c] = f.buf <=> c \in OnServer(f.buf)
    BY DEF OnServer, Buffers
  <2> QED
    BY <1>2, <2>1, <2>2 DEF TruthFits, Born
<1>6. CASE f.type \in {"buffer:message", "buffer:read"}
  <2>1. /\ SameMembers(t, o) /\ o.dm = t.dm
        /\ f.buf \in t.joined /\ o.unread = [t.unread EXCEPT ![f.buf] = f.unread]
    BY <1>6 DEF Becomes
  <2> QED
    BY <1>2, <2>1 DEF TruthFits, Born, SameMembers
<1>7. CASE f.type = "server:status"
  <2>1. SameMembers(t, o) /\ o.unread = t.unread /\ o.dm = t.dm
    BY <1>7 DEF Becomes
  <2> QED
    BY <2>1 DEF TruthFits, Born, SameMembers
<1>8. CASE f.type = "direct_message"
  <2>1. SameMembers(t, o) /\ o.unread = t.unread /\ Owner[f.buf] \in t.live /\ \A d \in Dms \ {f.buf} : o.dm[d] = t.dm[d]
    BY <1>8 DEF Becomes
  <2> QED
    BY <2>1 DEF TruthFits, Born, SameMembers
<1>9. f.type = "buffer:left" => f.buf \in Channels \cup Servers
  BY FrameTypes DEF LeftFrame
<1> QED
  BY <1>3, <1>4, <1>5, <1>6, <1>7, <1>8, <1>9, FrameTypes

\* What an operation leaves as it is, and what it changes.
LEMMA BecomesGrows ==
    ASSUME NEW t \in Truth, NEW o, TruthFits(t), NEW f \in Frame, Becomes(t, f, o)
    PROVE  /\ Born(t) \subseteq Born(o) /\ t.dead \subseteq o.dead
           /\ \A d \in Dms : \/ o.dm[d] = t.dm[d]
                             \/ OnThread(f, d) /\ o.dm[d].rev = t.dm[d].rev + 1 /\ f.rev = o.dm[d].rev
                                /\ Owner[d] \in t.live
           /\ \A s \in Servers : s \in o.live \ t.live => JoinsOn(f, s) /\ s \notin Born(t)
           /\ \A s \in Servers : s \in t.live \ o.live => f.type = "buffer:left" /\ f.buf = s
           /\ \A s \in Servers : \/ o.status[s] = t.status[s]
                                 \/ f.type = "server:status" /\ f.buf = s /\ f.status = o.status[s]
           /\ \A c \in Channels : c \in o.joined \ t.joined => f.type = "buffer:joined" /\ f.buf = c
           /\ \A c \in Channels : c \in t.joined \ o.joined => f.type = "buffer:left" /\ f.buf \in {c, Owner[c]}
           /\ \A c \in Channels : \/ o.unread[c] = t.unread[c]
                                  \/ f.type = "buffer:left" /\ f.buf \in {c, Owner[c]}
                                  \/ f.type \in {"buffer:message", "buffer:read"} /\ f.buf = c /\ f.unread = o.unread[c]
<1>1. /\ t.joined \subseteq Channels /\ t.unread \in [Channels -> 0..1]
      /\ t.status \in [Servers -> Status] /\ t.live \cap t.dead = {}
  BY DEF Truth, TruthFits
<1>2. CASE f.type = "buffer:joined"
  <2>1. /\ f.buf \notin t.joined /\ Owner[f.buf] \notin t.dead
        /\ o.live = t.live \cup {Owner[f.buf]} /\ o.dead = t.dead /\ o.joined = t.joined \cup {f.buf}
        /\ o.status = t.status /\ o.unread = t.unread /\ o.dm = t.dm
    BY <1>2 DEF Becomes
  <2> QED
    BY <1>2, <2>1 DEF Born, JoinsOn
<1>3. CASE f.type = "buffer:left" /\ f.buf \in Channels
  <2>1. /\ o.live = t.live /\ o.dead = t.dead /\ o.joined = t.joined \ {f.buf}
        /\ o.unread = [t.unread EXCEPT ![f.buf] = 0] /\ o.status = t.status /\ o.dm = t.dm
    BY <1>3 DEF Becomes
  <2> QED
    BY <1>1, <1>3, <2>1 DEF Born
<1>4. CASE f.type = "buffer:left" /\ f.buf \in Servers
  <2>1. /\ o.live = t.live \ {f.buf} /\ o.dead = t.dead \cup {f.buf} /\ o.joined = t.joined \ OnServer(f.buf)
        /\ \A c \in Channels : o.unread[c] = IF Owner[c] = f.buf THEN 0 ELSE t.unread[c]
        /\ o.status = t.status /\ o.dm = t.dm
    BY <1>4 DEF Becomes
  <2> QED
    BY <1>4, <2>1 DEF Born, OnServer
<1>5. CASE f.type \in {"buffer:message", "buffer:read"}
  <2>1. /\ SameMembers(t, o) /\ o.dm = t.dm /\ o.status = t.status
        /\ f.buf \in t.joined /\ o.unread = [t.unread EXCEPT ![f.buf] = f.unread]
    BY <1>5 DEF Becomes
  <2> QED
    BY <1>1, <1>5, <2>1 DEF Born, SameMembers
<1>6. CASE f.type = "server:status"
  <2>1. SameMembers(t, o) /\ o.unread = t.unread /\ o.dm = t.dm /\ o.status = [t.status EXCEPT ![f.buf] = f.status]
    BY <1>6 DEF Becomes
  <2> QED
    BY <1>1, <1>6, <2>1 DEF Born, SameMembers
<1>7. CASE f.type = "direct_message"
  <2>1. /\ SameMembers(t, o) /\ o.unread = t.unread /\ o.status = t.status
        /\ Owner[f.buf] \in t.live /\ \A d \in Dms \ {f.buf} : o.dm[d] = t.dm[d]
        /\ o.dm[f.buf].rev = t.dm[f.buf].rev + 1 /\ f.rev = o.dm[f.buf].rev
    BY <1>7 DEF Becomes
  <2> QED
    BY <1>7, <2>1 DEF Born, SameMembers, OnThread
<1>8. f.type = "buffer:left" => f.buf \in Channels \cup Servers
  BY FrameTypes DEF LeftFrame
<1> QED
  BY <1>2, <1>3, <1>4, <1>5, <1>6, <1>7, <1>8, FrameTypes

LEMMA TrueAfter ==
    ASSUME NEW t \in Truth, NEW o, TruthFits(t), NEW f \in Frame, Becomes(t, f, o),
           NEW g \in Frame, FrameTrue(g, t)
    PROVE  FrameTrue(g, o)
<1>1. /\ Born(t) \subseteq Born(o) /\ t.dead \subseteq o.dead
      /\ \A d \in Dms : o.dm[d] = t.dm[d] \/ o.dm[d].rev = t.dm[d].rev + 1
  BY BecomesGrows
<1>2. g.type = "direct_message" => g.buf \in Dms /\ g.rev \in Nat /\ t.dm[g.buf].rev \in Nat
  BY FrameTypes DEF DirectFrame, Truth
<1> QED
  BY <1>1, <1>2 DEF FrameTrue

LEMMA NewsIsTrue ==
    ASSUME NEW t \in Truth, NEW o, NEW f \in Frame, Becomes(t, f, o)
    PROVE  FrameTrue(f, o) /\ (f.type = "direct_message" => Owner[f.buf] \in o.live)
<1>1. CASE f.type = "buffer:joined"
  BY <1>1 DEF FrameTrue, Becomes, Born
<1>2. CASE f.type = "buffer:left"
  BY <1>2 DEF FrameTrue, Becomes
<1>3. CASE f.type = "direct_message"
  <2>1. f.buf \in Dms /\ f.rev \in Nat
    BY <1>3, FrameTypes DEF DirectFrame
  <2>2. /\ o.live = t.live /\ Owner[f.buf] \in t.live
        /\ f.rev = o.dm[f.buf].rev /\ f.open = o.dm[f.buf].open /\ f.blocked = o.dm[f.buf].blocked
    BY <1>3 DEF Becomes, SameMembers
  <2> QED
    BY <1>3, <2>1, <2>2 DEF FrameTrue, Born
<1> QED
  BY <1>1, <1>2, <1>3 DEF FrameTrue

LEMMA NewsIsTold ==
    ASSUME NEW t \in Truth, NEW o, TruthFits(t), NEW f \in Frame, Becomes(t, f, o), NEW G
    PROVE  FrameTold(f, G, o)
<1>1. /\ t.joined \subseteq Channels /\ t.unread \in [Channels -> 0..1] /\ t.status \in [Servers -> Status]
      /\ t.live \cap t.dead = {} /\ \A c \in Channels : c \notin t.joined => t.unread[c] = 0
  BY DEF Truth, TruthFits
<1>2. CASE f.type = "buffer:joined"
  <2>1. f.buf \in Channels
    BY <1>2, FrameTypes DEF JoinedFrame
  <2>2. /\ f.buf \notin t.joined /\ o.live = t.live \cup {Owner[f.buf]} /\ o.joined = t.joined \cup {f.buf}
        /\ o.status = t.status /\ o.unread = t.unread /\ f.status = t.status[Owner[f.buf]]
    BY <1>2 DEF Becomes
  <2> QED
    BY <1>1, <1>2, <2>1, <2>2 DEF FrameTold, JoinTold, Alive
<1>3. CASE f.type = "buffer:left"
  BY <1>3 DEF FrameTold, LeaveTold, Becomes
<1>4. CASE f.type \in {"buffer:message", "buffer:read"}
  <2>1. f.buf \in Channels /\ f.type \notin {"buffer:joined", "buffer:left", "server:status", "direct_message"}
    BY <1>4, FrameTypes DEF UnreadFrame
  <2>2. o.unread = [t.unread EXCEPT ![f.buf] = f.unread]
    BY <1>4 DEF Becomes
  <2> QED
    BY <1>1, <2>1, <2>2 DEF FrameTold, CountTold
<1>5. CASE f.type = "server:status"
  <2>1. f.buf \in Servers
    BY <1>5, FrameTypes DEF StatusFrame
  <2>2. o.status = [t.status EXCEPT ![f.buf] = f.status]
    BY <1>5 DEF Becomes
  <2> QED
    BY <1>1, <1>5, <2>1, <2>2 DEF FrameTold, StatusTold
<1>6. CASE f.type = "direct_message"
  BY <1>6 DEF FrameTold, Alive, Becomes, SameMembers
<1> QED
  BY <1>2, <1>3, <1>4, <1>5, <1>6, FrameTypes

\* What a frame tells is still true after an operation, or the operation's
\* frame corrects it.
LEMMA ToldAfter ==
    ASSUME NEW t \in Truth, NEW o, TruthFits(t), NEW f \in Frame, Becomes(t, f, o),
           NEW g \in Frame, NEW G, NEW H, G \subseteq H, f.type = "direct_message" \/ f \in H, FrameTold(g, G, t)
    PROVE  FrameTold(g, H, o)
<1>1. /\ \A s \in Servers : s \in t.live \ o.live => LeftIn(H, s)
      /\ \A s \in Servers : o.status[s] = t.status[s] \/ Reports(H, s, o.status[s])
      /\ \A c \in Channels : c \in o.joined \ t.joined => Rejoins(H, c)
      /\ \A c \in Channels : c \in t.joined \ o.joined => Gone(H, c)
      /\ \A c \in Channels : o.unread[c] = t.unread[c] \/ Gone(H, c) \/ Counts(H, c, o.unread[c])
  <2>1. f.type = "buffer:left" => f \in H
    OBVIOUS
  <2>2. f.type \in {"buffer:joined", "buffer:message", "buffer:read", "server:status"} => f \in H
    OBVIOUS
  <2>3. \A s \in Servers : s \in t.live \ o.live => f.type = "buffer:left" /\ f.buf = s
    BY BecomesGrows
  <2>4. \A s \in Servers : \/ o.status[s] = t.status[s]
                           \/ f.type = "server:status" /\ f.buf = s /\ f.status = o.status[s]
    BY BecomesGrows
  <2>5. \A c \in Channels : c \in o.joined \ t.joined => f.type = "buffer:joined" /\ f.buf = c
    BY BecomesGrows
  <2>6. \A c \in Channels : c \in t.joined \ o.joined => f.type = "buffer:left" /\ f.buf \in {c, Owner[c]}
    BY BecomesGrows
  <2>7. \A c \in Channels : \/ o.unread[c] = t.unread[c]
                            \/ f.type = "buffer:left" /\ f.buf \in {c, Owner[c]}
                            \/ f.type \in {"buffer:message", "buffer:read"} /\ f.buf = c /\ f.unread = o.unread[c]
    BY BecomesGrows
  <2>8. \A s \in Servers : s \in t.live \ o.live => LeftIn(H, s)
    BY <2>1, <2>3 DEF LeftIn
  <2>9. \A s \in Servers : o.status[s] = t.status[s] \/ Reports(H, s, o.status[s])
    BY <2>2, <2>4 DEF Reports
  <2>10. \A c \in Channels : c \in o.joined \ t.joined => Rejoins(H, c)
    BY <2>2, <2>5 DEF Rejoins
  <2>11. \A c \in Channels : c \in t.joined \ o.joined => Gone(H, c)
    BY <2>1, <2>6 DEF Gone, LeftIn
  <2>12. \A c \in Channels : o.unread[c] = t.unread[c] \/ Gone(H, c) \/ Counts(H, c, o.unread[c])
    BY <2>1, <2>2, <2>7 DEF Gone, LeftIn, Counts
  <2> QED
    BY <2>8, <2>9, <2>10, <2>11, <2>12
<1>2. FrameTold(g, H, t)
  BY ToldOfMore
<1>3. \A c \in Buffers : Owner[c] \in Servers
  BY ClientAssumption
<1>4. CASE g.type = "buffer:joined"
  <2>1. g.buf \in Channels /\ Owner[g.buf] \in Servers /\ JoinTold(g.buf, g.status, H, t)
    BY <1>2, <1>3, <1>4, FrameTypes DEF JoinedFrame, FrameTold, Buffers
  <2>2. JoinTold(g.buf, g.status, H, o)
    BY <1>1, <2>1 DEF JoinTold, Alive
  <2> QED
    BY <1>4, <2>2 DEF FrameTold
<1>5. CASE g.type = "buffer:left"
  BY <1>1, <1>2, <1>5 DEF FrameTold, LeaveTold
<1>6. CASE g.type \in {"buffer:message", "buffer:read"}
  <2>1. /\ g.buf \in Channels /\ CountTold(g.buf, g.unread, H, t)
        /\ g.type \notin {"buffer:joined", "buffer:left", "server:status", "direct_message"}
    BY <1>2, <1>6, FrameTypes DEF UnreadFrame, FrameTold
  <2> QED
    BY <1>1, <2>1 DEF FrameTold, CountTold
<1>7. CASE g.type = "server:status"
  <2>1. g.buf \in Servers /\ StatusTold(g.buf, g.status, H, t)
    BY <1>2, <1>7, FrameTypes DEF StatusFrame, FrameTold
  <2> QED
    BY <1>1, <1>7, <2>1 DEF FrameTold, StatusTold
<1>8. CASE g.type = "direct_message"
  <2>1. g.buf \in Dms /\ Owner[g.buf] \in Servers /\ Alive(Owner[g.buf], H, t)
    BY <1>2, <1>3, <1>8, FrameTypes DEF DirectFrame, FrameTold, Buffers
  <2> QED
    BY <1>1, <1>8, <2>1 DEF FrameTold, Alive
<1> QED
  BY <1>4, <1>5, <1>6, <1>7, <1>8, FrameTypes

\* The operation's frame is on its way (H), or not yet published (V).
LEMMA ServerAfter ==
    ASSUME NEW t \in Truth, NEW o, TruthFits(t), NEW f \in Frame, Becomes(t, f, o),
           NEW u, PictureTrue(u, t), NEW G, NEW H, G \subseteq Frame, \A g \in G : FrameTrue(g, t),
           G \subseteq H, f.type = "direct_message" \/ f \in H, NEW N, NEW M, \A s \in N : s \in M,
           \A s \in Servers : JoinsOn(f, s) /\ (\A g \in G : ~DirectOn(g, s)) => s \in M,
           NEW s \in Servers, ServerFits(u, s, G, N, t)
    PROVE  ServerFits(u, s, H, M, o)
<1>1. /\ s \in o.live \ t.live => JoinsOn(f, s) /\ s \notin Born(t)
      /\ s \in t.live \ o.live => f.type = "buffer:left" /\ f.buf = s
      /\ o.status[s] = t.status[s] \/ (f.type = "server:status" /\ f.buf = s /\ f.status = o.status[s])
  BY BecomesGrows
<1>2. LeftIn(G, s) => LeftIn(H, s)
  BY DEF LeftIn
<1>3. \A x : Reports(G, s, x) => Reports(H, s, x)
  BY DEF Reports
<1>4. s \in t.live \ o.live => LeftIn(H, s)
  BY <1>1 DEF LeftIn
<1>5. o.status[s] = t.status[s] \/ Reports(H, s, o.status[s])
  BY <1>1 DEF Reports
<1>6. s \in o.live \ t.live => s \in M /\ s \notin u.known
  <2>1. HAVE s \in o.live \ t.live
  <2>2. JoinsOn(f, s) /\ s \notin Born(t)
    BY <1>1, <2>1
  <2>3. \A g \in G : ~DirectOn(g, s)
    BY <2>2 DEF FrameTrue, DirectOn
  <2> QED
    BY <2>2, <2>3 DEF PictureTrue
<1> QED
  BY <1>2, <1>3, <1>4, <1>5, <1>6 DEF ServerFits, StatusTold

LEMMA ChannelAfter ==
    ASSUME NEW t \in Truth, NEW o, TruthFits(t), NEW f \in Frame, Becomes(t, f, o), NEW u,
           NEW G, NEW H, G \subseteq H, f.type = "direct_message" \/ f \in H,
           NEW c \in Channels, ChannelFits(u, c, G, t)
    PROVE  ChannelFits(u, c, H, o)
<1>1. /\ c \in o.joined \ t.joined => f.type = "buffer:joined" /\ f.buf = c
      /\ c \in t.joined \ o.joined => f.type = "buffer:left" /\ f.buf \in {c, Owner[c]}
      /\ \/ o.unread[c] = t.unread[c]
         \/ f.type = "buffer:left" /\ f.buf \in {c, Owner[c]}
         \/ f.type \in {"buffer:message", "buffer:read"} /\ f.buf = c /\ f.unread = o.unread[c]
  BY BecomesGrows
<1>2. Gone(G, c) => Gone(H, c)
  BY DEF Gone, LeftIn
<1>3. Rejoins(G, c) => Rejoins(H, c)
  BY DEF Rejoins
<1>4. \A n : Counts(G, c, n) => Counts(H, c, n)
  BY DEF Counts
<1>5. c \in o.joined \ t.joined => Rejoins(H, c)
  BY <1>1 DEF Rejoins
<1>6. c \in t.joined \ o.joined => Gone(H, c)
  BY <1>1 DEF Gone, LeftIn
<1>7. o.unread[c] = t.unread[c] \/ Gone(H, c) \/ Counts(H, c, o.unread[c])
  BY <1>1 DEF Gone, LeftIn, Counts
<1> QED
  BY <1>2, <1>3, <1>4, <1>5, <1>6, <1>7 DEF ChannelFits, CountTold

LEMMA ThreadAfter ==
    ASSUME NEW t \in Truth, NEW o, TruthFits(t), NEW f \in Frame, Becomes(t, f, o),
           NEW u, Picture(u), PictureTrue(u, t), NEW G, NEW H, NEW W, NEW V, NEW R, NEW S,
           (G \cup W) \cup R \subseteq Frame, \A g \in (G \cup W) \cup R : FrameTrue(g, t),
           G \subseteq H, f.type = "direct_message" \/ f \in H, f \in H \cup V,
           \A g \in G \cup W : g \in H \cup V, \A g \in (H \cup V) \cup S : g \in (G \cup W) \cup R \/ g = f,
           NEW d \in Dms, ThreadFits(u, d, G, G \cup W, R, t)
    PROVE  ThreadFits(u, d, H, H \cup V, S, o)
<1> DEFINE s == Owner[d]
<1>1. s \in Servers
  BY ClientAssumption DEF Buffers
<1>2. /\ s \in o.live \ t.live => JoinsOn(f, s) /\ s \notin Born(t)
      /\ s \in t.live \ o.live => f.type = "buffer:left" /\ f.buf = s
      /\ \/ o.dm[d] = t.dm[d]
         \/ OnThread(f, d) /\ o.dm[d].rev = t.dm[d].rev + 1 /\ f.rev = o.dm[d].rev /\ Owner[d] \in t.live
  BY <1>1, BecomesGrows
<1> HIDE DEF s
<1>3. t.dm[d].rev \in Nat /\ u.revs[d] \in Int /\ u.revs[d] <= t.dm[d].rev
  BY Revisions DEF Truth, PictureTrue
<1>4. LeftIn(G, s) => LeftIn(H, s)
  BY DEF LeftIn
<1>5. s \in t.live \ o.live => LeftIn(H, s)
  BY <1>2 DEF LeftIn
<1>6. CASE o.dm[d] # t.dm[d]
  <2>1. OnThread(f, d) /\ o.dm[d].rev = t.dm[d].rev + 1 /\ f.rev = o.dm[d].rev /\ s \in t.live
    BY <1>2, <1>6 DEF s
  <2>2. s \in o.live
    BY <1>2, <2>1 DEF OnThread
  <2>3. Owed(u, d, H \cup V, o)
    BY <1>3, <2>1 DEF Owed
  <2> QED
    BY <2>2, <2>3 DEF ThreadFits, s
<1>7. CASE o.dm[d] = t.dm[d]
  <2>1. ~OnThread(f, d)
    BY <1>3, <1>7 DEF OnThread, Becomes
  <2>2. CASE s \notin o.live
    BY <1>4, <1>5, <2>2 DEF ThreadFits, s
  <2>3. CASE s \in o.live /\ s \in t.live
    <3>1. Owed(u, d, G \cup W, t) => Owed(u, d, H \cup V, o)
      BY <1>7 DEF Owed
    <3>2. Right(u, d, (G \cup W) \cup R, t) => Right(u, d, (H \cup V) \cup S, o)
      BY <1>7, <2>1 DEF Right
    <3> QED
      BY <2>3, <3>1, <3>2 DEF ThreadFits, s
  <2>4. CASE s \in o.live /\ s \notin t.live
    <3>1. s \notin Born(t) /\ s \notin t.dead
      BY <1>2, <2>4 DEF Born
    <3>2. ~LeftIn(G, s)
      BY <1>1, <3>1 DEF LeftIn, FrameTrue
    <3>3. u.dm[d] = NoDm
      BY <2>4, <3>2 DEF ThreadFits, s
    <3>4. Thread(o.dm[d]) = NoDm
      BY <1>7, <3>1 DEF Thread, TruthFits, s
    <3>5. \A g \in (G \cup W) \cup R : ~OnThread(g, d)
      BY <3>1 DEF OnThread, FrameTrue, s
    <3>6. Right(u, d, (H \cup V) \cup S, o)
      BY <2>1, <3>3, <3>4, <3>5 DEF Right
    <3> QED
      BY <2>4, <3>6 DEF ThreadFits, s
  <2> QED
    BY <2>2, <2>3, <2>4
<1> QED
  BY <1>6, <1>7

LEMMA LevelAfter ==
    ASSUME NEW t \in Truth, NEW o, TruthFits(t), NEW f \in Frame, Becomes(t, f, o),
           NEW u, Picture(u), PictureTrue(u, t), NEW G, NEW H, NEW W, NEW V, NEW R, NEW S, NEW Z,
           (G \cup W) \cup R \subseteq Frame, \A g \in (G \cup W) \cup R : FrameTrue(g, t),
           G \subseteq H, f.type = "direct_message" \/ f \in H, f \in H \cup V,
           \A g \in G \cup W : g \in H \cup V, \A g \in (H \cup V) \cup S : g \in (G \cup W) \cup R \/ g = f,
           NEW N, NEW M, \A s \in N : s \in M,
           \A s \in Servers : JoinsOn(f, s) /\ (\A g \in G : ~DirectOn(g, s)) => s \in M,
           Level(u, G, N, W, R, Z, t)
    PROVE  Level(u, H, M, V, S, Z, o)
<1>1. G \subseteq Frame /\ \A g \in G : FrameTrue(g, t)
  OBVIOUS
<1>2. ASSUME NEW s \in Servers, s \notin Z
      PROVE  ServerFits(u, s, H, M, o)
  <2>1. ServerFits(u, s, G, N, t)
    BY <1>2 DEF Level
  <2> QED
    BY <1>1, <2>1, ServerAfter
<1>3. ASSUME NEW c \in Channels, Sure(c, Z)
      PROVE  ChannelFits(u, c, H, o)
  <2>1. ChannelFits(u, c, G, t)
    BY <1>3 DEF Level
  <2> QED
    BY <2>1, ChannelAfter
<1>4. ASSUME NEW d \in Dms, Sure(d, Z)
      PROVE  ThreadFits(u, d, H, H \cup V, S, o)
  <2>1. ThreadFits(u, d, G, G \cup W, R, t)
    BY <1>4 DEF Level
  <2> QED
    BY <2>1, ThreadAfter
<1> QED
  BY <1>2, <1>3, <1>4 DEF Level

LEMMA PictureAfter ==
    ASSUME NEW t \in Truth, NEW o \in Truth, TruthFits(t), NEW f \in Frame, Becomes(t, f, o)
    PROVE  /\ \A u : Picture(u) /\ PictureTrue(u, t) => PictureTrue(u, o)
           /\ \A s \in Truth : SnapshotTrue(s, t) => SnapshotTrue(s, o)
<1>1. Born(t) \subseteq Born(o) /\ \A d \in Dms : o.dm[d] = t.dm[d] \/ o.dm[d].rev = t.dm[d].rev + 1
  BY BecomesGrows
<1>2. \A d \in Dms : t.dm[d].rev \in Nat /\ o.dm[d].rev \in Nat
  BY DEF Truth
<1>3. \A d \in Dms : t.dm[d].rev <= o.dm[d].rev
  BY <1>1, <1>2
<1>4. ASSUME NEW u, Picture(u), PictureTrue(u, t)
      PROVE  PictureTrue(u, o)
  <2>1. \A d \in Dms : u.revs[d] \in Int
    BY <1>4, Revisions
  <2> QED
    BY <1>1, <1>2, <1>3, <1>4, <2>1 DEF PictureTrue
<1>5. ASSUME NEW s \in Truth, SnapshotTrue(s, t)
      PROVE  SnapshotTrue(s, o)
  <2>1. \A d \in Dms : s.dm[d].rev \in Nat
    BY DEF Truth
  <2> QED
    BY <1>1, <1>2, <1>3, <1>5, <2>1 DEF SnapshotTrue
<1> QED
  BY <1>4, <1>5

LEMMA CallAfter ==
    ASSUME NEW t \in Truth, NEW o, TruthFits(t), NEW f \in Frame, Becomes(t, f, o),
           NEW c, CallOK(c), NEW n, CallTrue(c, t, n)
    PROVE  CallTrue(c, o, n)
<1>1. Born(t) \subseteq Born(o) /\ t.dead \subseteq o.dead
  BY BecomesGrows
<1>2. c.op \in Bringing /\ c.stage = "answered" => c.reply \in Frame
  BY DEF CallOK, Answered, Fits, Bringing, Frame
<1>3. c.op \in Bringing /\ c.stage = "answered" => FrameTrue(c.reply, o)
  BY <1>2, TrueAfter DEF CallTrue
<1> QED
  BY <1>1, <1>3 DEF CallTrue

LEMMA JoinAfter ==
    ASSUME NEW t \in Truth, NEW o, TruthFits(t), NEW f \in Frame, Becomes(t, f, o),
           NEW c, CallOK(c), NEW u, NEW G, NEW H, G \subseteq H, NEW now,
           now => f.type = "direct_message" \/ f \in H, JoinFits(c, u, G, t, now)
    PROVE  JoinFits(c, u, H, o, now)
<1>1. t.dead \subseteq o.dead /\ \A x \in Channels : x \in t.joined \ o.joined => f.type = "buffer:left" /\ f.buf \in {x, Owner[x]}
  BY BecomesGrows
<1>2. f.type = "buffer:left" /\ f.buf \in Servers => f.buf \in o.dead
  BY DEF Becomes
<1>3. \A x \in Channels : Owner[x] \in Servers
  BY ClientAssumption DEF Buffers
<1>4. CASE c.op \in GuardedJoins /\ now /\ c.stage = "answered"
  <2>1. c.buf \in Channels
    BY <1>4 DEF CallOK, About, Joins
  <2>2. JoinHeld(c, u, G, t)
    BY <1>4 DEF JoinFits
  <2>3. c.buf \in t.joined => c.buf \in o.joined \/ LeftIn(H, c.buf) \/ Owner[c.buf] \in o.dead
    BY <1>1, <1>2, <1>3, <1>4, <2>1 DEF LeftIn
  <2>4. LeftIn(G, c.buf) => LeftIn(H, c.buf)
    BY DEF LeftIn
  <2>5. JoinHeld(c, u, H, o)
    BY <1>1, <2>2, <2>3, <2>4 DEF JoinHeld
  <2> QED
    BY <2>5 DEF JoinFits
<1>5. CASE ~(c.op \in GuardedJoins /\ now /\ c.stage = "answered")
  BY <1>5 DEF JoinFits
<1> QED
  BY <1>4, <1>5

-----------------------------------------------------------------------------
(* What was told stays told while the line changes.                        *)

LEMMA AheadIs ==
    ASSUME NEW q \in Seq(Held), NEW w \in Seq(OnWire), NEW n, NEW k
    PROVE  /\ Ahead(Line(q, w, n), k) \subseteq Frame
           /\ \A i \in DOMAIN Line(q, w, n) : Line(q, w, n)[i].frame \in OnWire
<1>1. \A i \in DOMAIN Line(q, w, n) : Line(q, w, n)[i].frame \in OnWire
  BY LineIs
<1>2. \A f \in OnWire : ~IsReply(f) => f \in Frame
  BY ReplyIs DEF OnWire
<1> QED
  BY <1>1, <1>2 DEF Ahead, Places

LEMMA AheadLater ==
    ASSUME NEW l, DOMAIN l \subseteq Nat, NEW k \in Int, NEW i \in Int, k <= i
    PROVE  Ahead(l, i) \subseteq Ahead(l, k)
BY DEF Ahead, Places

LEMMA MovedOn ==
    ASSUME NEW l, NEW v, NEW m, NEW F, NEW X, NEW Y, Widens(l, v, {}), Tells(l, v, {}, X),
           Widens(v, m, F), Tells(v, m, F, Y)
    PROVE  Widens(l, m, F) /\ Tells(l, m, F, X \cup Y)
<1>1. Ahead(v, 0) = Ahead(l, 0)
  BY DEF Widens
<1>2. Widens(l, m, F)
  BY <1>1 DEF Widens
<1>3. ASSUME NEW j \in DOMAIN m, m[j].frame \notin X \cup Y
      PROVE  \E i \in DOMAIN l : m[j] = l[i] /\ \A f \in Ahead(l, i) \cup F : f \in Ahead(m, j)
  <2>1. PICK h \in DOMAIN v : m[j] = v[h] /\ \A f \in Ahead(v, h) \cup F : f \in Ahead(m, j)
    BY <1>3 DEF Tells
  <2>2. v[h].frame \notin X
    BY <1>3, <2>1
  <2>3. PICK i \in DOMAIN l : v[h] = l[i] /\ \A f \in Ahead(l, i) : f \in Ahead(v, h)
    BY <2>2 DEF Tells
  <2> QED
    BY <2>1, <2>3
<1> QED
  BY <1>2, <1>3 DEF Tells

LEMMA MovedNowhere ==
    ASSUME NEW l
    PROVE  Widens(l, l, {}) /\ Tells(l, l, {}, {})
BY DEF Widens, Tells

LEMMA TellsLess ==
    ASSUME NEW l, NEW m, NEW F, NEW X, NEW Y, Tells(l, m, F, X), X \subseteq Y
    PROVE  Tells(l, m, F, Y)
BY DEF Tells

\* The truth t has become o, whose frames F are on the line.
Carries(F, t, o) ==
    \A g \in Frame : \A G, H : G \cup F \subseteq H /\ FrameTold(g, G, t) => FrameTold(g, H, o)

LEMMA CarriesItself ==
    ASSUME NEW t
    PROVE  \A F : Carries(F, t, t)
BY ToldOfMore DEF Carries

LEMMA CarriesOn ==
    ASSUME NEW t \in Truth, NEW o, TruthFits(t), NEW f \in Frame, Becomes(t, f, o), NEW F,
           f.type = "direct_message" \/ f \in F
    PROVE  Carries(F, t, o)
<1> SUFFICES ASSUME NEW g \in Frame, NEW G, NEW H, G \cup F \subseteq H, FrameTold(g, G, t)
             PROVE  FrameTold(g, H, o)
  BY DEF Carries
<1>1. G \subseteq H /\ (f.type = "direct_message" \/ f \in H)
  OBVIOUS
<1> QED
  BY <1>1, ToldAfter

LEMMA FramesToldOn ==
    ASSUME NEW l, NEW m, NEW F, NEW X, NEW n, NEW t, NEW o, Tells(l, m, F, X), FramesTold(l, n, t), Carries(F, t, o),
           \A i \in DOMAIN l : l[i].frame \in OnWire,
           \A f \in X : IsReply(f) \/ \A G : FrameTold(f, G, o)
    PROVE  FramesTold(m, n, o)
<1> SUFFICES ASSUME NEW j \in DOMAIN m, m[j].session = n, ~IsReply(m[j].frame)
             PROVE  FrameTold(m[j].frame, Ahead(m, j), o)
  BY DEF FramesTold
<1>1. CASE m[j].frame \in X
  BY <1>1
<1>2. CASE m[j].frame \notin X
  <2>1. PICK i \in DOMAIN l : m[j] = l[i] /\ \A f \in Ahead(l, i) \cup F : f \in Ahead(m, j)
    BY <1>2 DEF Tells
  <2>2. FrameTold(l[i].frame, Ahead(l, i), t)
    BY <2>1 DEF FramesTold
  <2>3. l[i].frame \in Frame
    BY <2>1, ReplyIs DEF OnWire
  <2>4. Ahead(l, i) \cup F \subseteq Ahead(m, j)
    BY <2>1
  <2>5. FrameTold(l[i].frame, Ahead(m, j), o)
    BY <2>2, <2>3, <2>4 DEF Carries
  <2> QED
    BY <2>1, <2>5
<1> QED
  BY <1>1, <1>2

LEMMA ReplyToldOn ==
    ASSUME NEW l, NEW m, NEW F, NEW X, NEW t, NEW o, Tells(l, m, F, X), Carries(F, t, o),
           NEW c, CallOK(c), ReplyTold(c, l, t), Reply(c.id) \notin X
    PROVE  ReplyTold(c, m, o)
<1> SUFFICES ASSUME c.op \in Telling, c.stage = "answered", NEW j \in DOMAIN m, m[j].frame = Reply(c.id)
             PROVE  FrameTold(c.reply, Ahead(m, j), o)
  BY DEF ReplyTold
<1>1. PICK i \in DOMAIN l : m[j] = l[i] /\ \A f \in Ahead(l, i) \cup F : f \in Ahead(m, j)
  BY DEF Tells
<1>2. FrameTold(c.reply, Ahead(l, i), t)
  BY <1>1 DEF ReplyTold
<1>3. c.reply \in Frame
  BY DEF CallOK, Answered, Fits, Telling, Bringing, Frame
<1>4. Ahead(l, i) \cup F \subseteq Ahead(m, j)
  BY <1>1
<1> QED
  BY <1>2, <1>3, <1>4 DEF Carries

-----------------------------------------------------------------------------
(* The picture that will be.                                               *)

LEMMA ViewLooks ==
    ASSUME NEW u, NEW v, Picture(u), Picture(v), Looks(u, v), NEW r, r.stage = "answered" => r.snapshot \in Truth
    PROVE  Looks(View(u, r), View(v, r))
<1>1. CASE r.stage = "answered"
  <2> DEFINE x == InstallSnapshot(u, r.snapshot)
             y == InstallSnapshot(v, r.snapshot)
  <2>1. View(u, r) = x /\ View(v, r) = y
    BY <1>1 DEF View
  <2>2. u \in Ui /\ v \in Ui
    BY DEF Picture
  <2>3. u.status = v.status /\ u.revs = v.revs /\ u.versions = v.versions
    BY DEF Looks, SameServers, SameThreads
  <2>4. SnapshotRevisions(u, r.snapshot) = SnapshotRevisions(v, r.snapshot)
    BY <2>3 DEF SnapshotRevisions
  <2>5. Looks(x, y)
    BY <2>2, <2>3, <2>4 DEF InstallSnapshot, Looks, SameServers, SameCounts, SameThreads, Ui
  <2> QED
    BY <2>1, <2>5
<1>2. CASE r.stage # "answered"
  BY <1>2 DEF View
<1> QED
  BY <1>1, <1>2

LEMMA InstallTrue ==
    ASSUME NEW u, Picture(u), NEW snap \in Truth, NEW t \in Truth, PictureTrue(u, t), SnapshotTrue(snap, t)
    PROVE  PictureTrue(InstallSnapshot(u, snap), t)
<1> DEFINE v == InstallSnapshot(u, snap)
<1>1. v.known = snap.live /\ v.revs = SnapshotRevisions(u, snap)
  BY InstallEffect
<1>2. Plain(v)
  BY PlainInstalled
<1> HIDE DEF v
<1>3. \A d \in Dms : v.revs[d] \in {u.revs[d], snap.dm[d].rev}
  BY <1>1 DEF SnapshotRevisions, Larger
<1> QED
  BY <1>1, <1>2, <1>3 DEF PictureTrue, SnapshotTrue, v

LEMMA ViewTrue ==
    ASSUME NEW u, Picture(u), NEW r, NEW t \in Truth, PictureTrue(u, t),
           r.stage = "answered" => r.snapshot \in Truth /\ SnapshotTrue(r.snapshot, t)
    PROVE  Picture(View(u, r)) /\ PictureTrue(View(u, r), t)
<1>1. CASE r.stage = "answered"
  BY <1>1, InstallTrue, InstallKeeps DEF View
<1>2. CASE r.stage # "answered"
  BY <1>2 DEF View
<1> QED
  BY <1>1, <1>2

\* A snapshot of the truth is level with it.
LEMMA LevelInstalled ==
    ASSUME NEW u, Picture(u), NEW t \in Truth, TruthFits(t), PictureTrue(u, t), NEW G, NEW N, NEW W, NEW R, NEW Z,
           \A g \in (G \cup W) \cup R : FrameTrue(g, t)
    PROVE  Level(InstallSnapshot(u, t), G, N, W, R, Z, t)
<1> DEFINE v == InstallSnapshot(u, t)
<1>1. /\ v.known = t.live /\ v.skipped = {}
      /\ \A s \in t.live : v.status[s] = t.status[s]
      /\ v.unread = SnapshotUnread(t) /\ v.dm = SnapshotDms(t)
      /\ v.revs = SnapshotRevisions(u, t)
  BY InstallEffect
<1> HIDE DEF v
<1>2. ASSUME NEW s \in Servers
      PROVE  ServerFits(v, s, G, N, t)
  BY <1>1 DEF ServerFits, StatusTold
<1>3. ASSUME NEW c \in Channels
      PROVE  ChannelFits(v, c, G, t)
  <2>1. v.unread[c] = IF c \in t.joined THEN t.unread[c] ELSE Absent
    BY <1>1 DEF SnapshotUnread, TruthFits
  <2>2. t.unread[c] # Absent
    BY DEF Truth, Absent
  <2> QED
    BY <2>1, <2>2 DEF ChannelFits, CountTold
<1>4. ASSUME NEW d \in Dms
      PROVE  ThreadFits(v, d, G, G \cup W, R, t)
  <2>1. CASE Owner[d] \notin t.live
    BY <1>1, <2>1 DEF ThreadFits, SnapshotDms
  <2>2. CASE Owner[d] \in t.live
    <3>1. v.dm[d] = Thread(t.dm[d])
      BY <1>1, <2>2 DEF SnapshotDms, Thread
    <3>2. v.revs[d] = t.dm[d].rev
      <4>1. u.revs[d] \in Int /\ t.dm[d].rev \in Nat /\ u.revs[d] <= t.dm[d].rev
        BY Revisions DEF Truth, PictureTrue
      <4> QED
        BY <1>1, <2>2, <4>1 DEF SnapshotRevisions, Larger
    <3>3. \A g \in (G \cup W) \cup R : OnThread(g, d) => g.rev <= v.revs[d]
      BY <3>2 DEF OnThread, FrameTrue
    <3> QED
      BY <2>2, <3>1, <3>3 DEF ThreadFits, Right
  <2> QED
    BY <2>1, <2>2
<1> QED
  BY <1>2, <1>3, <1>4 DEF Level, v

-----------------------------------------------------------------------------
(* Steps that leave the truth as it is.                                    *)

LEMMA ClientIs ==
    ASSUME CInv
    PROVE  /\ truth \in Truth /\ unpublished \subseteq DirectFrame /\ DirectFrame \subseteq Frame
           /\ Picture(ui) /\ queue \in Seq(Held) /\ wire \in Seq(OnWire) /\ sessions \in Nat
           /\ refresh.stage = "answered" => refresh.snapshot \in Truth
           /\ boot.stage = "answered" => boot.snapshot \in Truth
           /\ Told(calls) \subseteq DirectFrame
           /\ \A c \in calls : CallOK(c)
<1>1. \A c \in calls : CallOK(c)
  BY DEF CInv, CallsOK
<1>2. Told(calls) \subseteq DirectFrame
  BY <1>1 DEF Told, Brings, Bringing, CallOK, Answered, Fits
<1> QED
  BY <1>1, <1>2 DEF CInv, TruthOK, PictureOK, RefreshOK, Rest, WireOK, BootOK, Held, OnWire, Frame

LEMMA ComingIs ==
    ASSUME CInv
    PROVE  /\ \A k : Ahead(Coming, k) \subseteq Frame
           /\ \A i \in DOMAIN Coming : Coming[i].frame \in OnWire
           /\ DOMAIN Coming \subseteq Nat
<1>1. queue \in Seq(Held) /\ wire \in Seq(OnWire)
  BY ClientIs
<1>2. DOMAIN Line(queue, wire, sessions) = 1..(Len(queue) + Len(wire))
  BY <1>1, LineIs
<1> QED
  BY <1>1, <1>2, AheadIs DEF Coming

LEMMA TruthIs ==
    ASSUME CInv, TruthInv
    PROVE  /\ \A g \in (Ahead(Coming, 0) \cup unpublished) \cup Told(calls) : FrameTrue(g, truth)
           /\ Picture(View(ui, refresh)) /\ PictureTrue(View(ui, refresh), truth)
<1>1. \A g \in Told(calls) : FrameTrue(g, truth)
  BY DEF TruthInv, CallTrue, Told, Brings
<1>2. Picture(View(ui, refresh)) /\ PictureTrue(View(ui, refresh), truth)
  BY ClientIs, ViewTrue DEF TruthInv
<1> QED
  BY <1>1, <1>2 DEF TruthInv

LEMMA UnsureOn ==
    ASSUME queue' = queue, sessions' = sessions, unsure \subseteq unsure'
    PROVE  Unsure \subseteq Unsure'
<1>1. Outdated(queue)' = Outdated(queue)
  BY DEF Outdated
<1> QED
  BY <1>1 DEF Unsure

LEMMA TruthInvOn ==
    ASSUME TruthInv, UNCHANGED <<truth, sessions, boot, queue>>, unpublished' \subseteq unpublished,
           \A f \in Ahead(Coming', 0) : f \in Ahead(Coming, 0) \cup unpublished,
           PictureTrue(ui', truth), refresh' = refresh \/ refresh'.stage # "answered",
           \A c \in calls' : CallTrue(c, truth, sessions)
    PROVE  TruthInv'
<1>1. \A f \in Ahead(Coming', 0) : FrameTrue(f, truth)
  BY DEF TruthInv
<1>2. Ahead(Coming, 0)' = Ahead(Coming', 0)
  BY DEF Ahead, Places, IsReply
<1> QED
  BY <1>1, <1>2 DEF TruthInv

LEMMA ToldInvOn ==
    ASSUME CInv, ToldInv, UNCHANGED <<truth, sessions, link>>, NEW F, NEW X, Tells(Coming, Coming', F, X),
           \A f \in X : IsReply(f) \/ \A G : FrameTold(f, G, truth),
           \A c \in calls' : JoinFits(c, ui', Ahead(Coming', 0), truth, Current(c)),
           link = "joined" => \A c \in calls' : (c \in calls /\ Reply(c.id) \notin X) \/ ReplyTold(c, Coming', truth)
    PROVE  ToldInv'
<1>1. \A c : Current(c)' <=> Current(c')
  BY DEF Current
<1>2. Carries(F, truth, truth)
  BY CarriesItself
<1>3. link = "joined" => FramesTold(Coming', sessions, truth)
  <2>1. HAVE link = "joined"
  <2>2. FramesTold(Coming, sessions, truth)
    BY <2>1 DEF ToldInv
  <2> QED
    BY <1>2, <2>2, ComingIs, FramesToldOn
<1>4. link = "joined" => \A c \in calls' : ReplyTold(c, Coming', truth)
  <2>1. HAVE link = "joined"
  <2> TAKE c \in calls'
  <2>2. CASE c \in calls /\ Reply(c.id) \notin X
    <3>1. ReplyTold(c, Coming, truth) /\ CallOK(c)
      BY <2>1, <2>2, ClientIs DEF ToldInv
    <3> QED
      BY <1>2, <2>2, <3>1, ReplyToldOn
  <2>3. CASE ReplyTold(c, Coming', truth)
    BY <2>3
  <2> QED
    BY <2>1, <2>2, <2>3
<1>5. \A c \in calls' : JoinFits(c, ui', Ahead(Coming', 0), truth', link' = "joined" /\ c.session = sessions')
  BY DEF Current
<1> QED
  BY <1>3, <1>4, <1>5 DEF ToldInv, Current

LEMMA LevelInvOn ==
    ASSUME CInv, LevelInv, UNCHANGED <<truth, unpublished, link>>, Looks(ui, ui'), Picture(ui'),
           Widens(Coming, Coming', {}),
           again' \/ refresh'.stage = "sent" \/ (UNCHANGED <<refresh, again>> /\ Unsure \subseteq Unsure'),
           \A c \in calls' : \/ \E x \in calls : c.op = x.op /\ c.buf = x.buf
                             \/ c.op \in DirectOps => Owner[c.buf] \in ui.known,
           \A g \in Told(calls') : g \in Told(calls)
    PROVE  LevelInv'
<1> SUFFICES ASSUME link = "joined", ~again', refresh'.stage # "sent"
             PROVE  /\ Level(View(ui', refresh'), Ahead(Coming', 0), Introduced(Coming', 0), unpublished', Told(calls'),
                             Unsure', truth')
                    /\ \A c \in calls' : CallKnown(c, View(ui', refresh'), Unsure', truth')
                    /\ \A s \in truth'.live \ Unsure' : s \in ui'.known => s \in View(ui', refresh').known
  BY DEF LevelInv
<1>1. refresh' = refresh /\ ~again /\ refresh.stage # "sent" /\ Unsure \subseteq Unsure'
  OBVIOUS
<1> DEFINE u == View(ui, refresh)
           v == View(ui', refresh)
<1>2. /\ Level(u, Ahead(Coming, 0), Introduced(Coming, 0), unpublished, Told(calls), Unsure, truth)
      /\ \A c \in calls : CallKnown(c, u, Unsure, truth)
      /\ \A s \in truth.live \ Unsure : s \in ui.known => s \in u.known
  BY <1>1 DEF LevelInv
<1>3. Looks(u, v)
  BY ClientIs, ViewLooks
<1> HIDE DEF u, v
<1>4. v.known = u.known /\ ui'.known = ui.known
  BY <1>3 DEF Looks, SameServers
<1>5. Level(v, Ahead(Coming', 0), Introduced(Coming', 0), unpublished, Told(calls'), Unsure', truth)
  <2>1. Ahead(Coming', 0) = Ahead(Coming, 0) /\ \A s \in Introduced(Coming, 0) : s \in Introduced(Coming', 0)
    BY DEF Widens
  <2> QED
    BY <1>1, <1>2, <1>3, <2>1, LevelWeakens
<1>6. \A c \in calls' : CallKnown(c, v, Unsure', truth)
  <2> TAKE c \in calls'
  <2>1. CASE \E x \in calls : c.op = x.op /\ c.buf = x.buf
    BY <1>1, <1>2, <1>4, <2>1 DEF CallKnown
  <2>2. CASE c.op \in DirectOps => Owner[c.buf] \in ui.known
    BY <1>1, <1>2, <1>4, <2>2 DEF CallKnown
  <2> QED
    BY <2>1, <2>2
<1> QED
  BY <1>1, <1>2, <1>4, <1>5, <1>6 DEF v

\* What the user does: the picture stays, a refresh may be asked for and a
\* call be made.
LEMMA QuietStep ==
    ASSUME CInv, PictureInv, CInv', UNCHANGED <<truth, unpublished, wire, link, sessions, boot, queue>>, Looks(ui, ui'),
           UNCHANGED <<refresh, again, unsure>> \/ RequestRefresh(ui),
           \/ calls' = calls
           \/ \E d : /\ calls' = calls \cup {d} /\ d.stage = "sent" /\ d.session = sessions
                     /\ d.op \in DirectOps => Owner[d.buf] \in ui.known
                     /\ d.op \in GuardedJoins => d.held = ui.versions[d.buf]
    PROVE  PictureInv'
<1>1. TruthInv /\ ToldInv /\ LevelInv
  BY DEF PictureInv
<1>2. Coming' = Coming /\ (unsure' = unsure => Unsure \subseteq Unsure')
  BY UnsureOn DEF Coming
<1>3. /\ again' \/ refresh'.stage = "sent" \/ (UNCHANGED <<refresh, again>> /\ Unsure \subseteq Unsure')
      /\ refresh' = refresh \/ refresh'.stage # "answered"
  <2>1. CASE UNCHANGED <<refresh, again, unsure>>
    BY <1>2, <2>1
  <2>2. CASE RequestRefresh(ui)
    BY <2>2 DEF RequestRefresh
  <2> QED
    BY <2>1, <2>2
<1>4. Picture(ui') /\ \A c \in calls' : CallOK(c)
  BY DEF CInv, PictureOK, CallsOK
<1>5. \A c \in calls' : \/ c \in calls
                        \/ /\ CallOK(c) /\ c.stage = "sent" /\ c.session = sessions
                           /\ c.op \in DirectOps => Owner[c.buf] \in ui.known
                           /\ c.op \in GuardedJoins => c.held = ui.versions[c.buf]
  BY <1>4
<1>6. PictureTrue(ui', truth) /\ ui.known \subseteq Born(truth)
  BY <1>1, PlainLooks DEF TruthInv, PictureTrue, Looks, SameServers, SameThreads
<1>7. TruthInv'
  <2>1. \A c \in calls' : CallTrue(c, truth, sessions)
    <3> TAKE c \in calls'
    <3>1. CASE c \in calls
      BY <1>1, <3>1 DEF TruthInv
    <3>2. CASE c \notin calls
      <4>1. c.stage = "sent" /\ c.session = sessions /\ (c.op \in DirectOps => Owner[c.buf] \in Born(truth))
        BY <1>5, <1>6, <3>2
      <4>2. sessions \in Nat
        BY ClientIs
      <4> QED
        BY <4>1, <4>2 DEF CallTrue
    <3> QED
      BY <3>1, <3>2
  <2> QED
    BY <1>1, <1>2, <1>3, <1>6, <2>1, TruthInvOn
<1>8. ToldInv'
  <2>1. \A c \in calls' : JoinFits(c, ui', Ahead(Coming', 0), truth, Current(c))
    <3> TAKE c \in calls'
    <3>1. ui'.versions = ui.versions
      BY DEF Looks
    <3>2. CASE c \in calls
      BY <1>1, <1>2, <3>1, <3>2 DEF ToldInv, JoinFits, JoinHeld
    <3>3. CASE c \notin calls
      <4>1. c.stage = "sent" /\ (c.op \in GuardedJoins => c.held = ui.versions[c.buf]) /\ c.held \in Int
        BY <1>4, <1>5, <3>3, CallFields
      <4> QED
        BY <3>1, <4>1 DEF JoinFits
    <3> QED
      BY <3>2, <3>3
  <2>2. \A c \in calls' : c \in calls \/ ReplyTold(c, Coming', truth)
    BY <1>5 DEF ReplyTold
  <2>3. Tells(Coming, Coming', {}, {})
    BY <1>2, MovedNowhere
  <2> QED
    BY <1>1, <2>1, <2>2, <2>3, ToldInvOn
<1>9. LevelInv'
  <2>1. \A c \in calls' : \/ \E x \in calls : c.op = x.op /\ c.buf = x.buf
                          \/ c.op \in DirectOps => Owner[c.buf] \in ui.known
    BY <1>5
  <2>2. \A g \in Told(calls') : g \in Told(calls)
    BY <1>5 DEF Told, Brings
  <2>3. Widens(Coming, Coming', {})
    BY <1>2, MovedNowhere
  <2> QED
    BY <1>1, <1>3, <1>4, <2>1, <2>2, <2>3, LevelInvOn
<1> QED
  BY <1>7, <1>8, <1>9 DEF PictureInv

LEMMA AskIs ==
    ASSUME NEW op, NEW b, NEW held, NEW status, NEW query, Ask(op, b, held, status, query)
    PROVE  \E d : /\ calls' = calls \cup {d} /\ d.stage = "sent" /\ d.session = sessions
                 /\ d.op = op /\ d.buf = b /\ d.held = held
<1> DEFINE d == [id |-> spent.steps + 1, op |-> op, buf |-> b, held |-> held,
                 status |-> status, query |-> query, session |-> sessions,
                 stage |-> "sent", reply |-> None]
<1>1. /\ calls' = calls \cup {d} /\ d.stage = "sent" /\ d.session = sessions
      /\ d.op = op /\ d.buf = b /\ d.held = held
  BY DEF Ask
<1> HIDE DEF d
<1> QED
  BY <1>1

LEMMA LooksItself ==
    ASSUME NEW u
    PROVE  Looks(u, u)
BY DEF Looks, SameServers, SameCounts, SameThreads

LEMMA SelectedLooks ==
    ASSUME CInv
    PROVE  /\ \A view, s, b : Looks(ui, Select(ui, view, s, b))
           /\ \A b \in Buffers : /\ Looks(ui, [ui EXCEPT !.wanted = b])
                                 /\ Looks(ui, SelectBuffer([ui EXCEPT !.wanted = b], b))
           /\ \A view : Looks(ui, [ui EXCEPT !.view = view])
<1>1. Picture(ui) /\ ui \in Ui
  BY ClientIs DEF Picture
<1>2. \A view, s, b : Looks(ui, Select(ui, view, s, b))
  BY <1>1, SelectLooks
<1>3. ASSUME NEW b \in Buffers
      PROVE  /\ Looks(ui, [ui EXCEPT !.wanted = b])
             /\ Looks(ui, SelectBuffer([ui EXCEPT !.wanted = b], b))
  <2>1. Looks(ui, [ui EXCEPT !.wanted = b])
    BY <1>1 DEF Looks, SameServers, SameCounts, SameThreads, Ui
  <2>2. Picture([ui EXCEPT !.wanted = b])
    BY <1>1, WantedFollows DEF Follows
  <2> QED
    BY <2>1, <2>2, SelectBufferLooks, LooksOn
<1>4. \A view : Looks(ui, [ui EXCEPT !.view = view])
  BY <1>1 DEF Looks, SameServers, SameCounts, SameThreads, Ui
<1> QED
  BY <1>2, <1>3, <1>4

LEMMA UserPictures ==
    ASSUME CInv, PictureInv, CInv', User
    PROVE  PictureInv'
<1>1. Picture(ui) /\ Looks(ui, ui)
  BY ClientIs, LooksItself
<1>2. \A b \in Shown(ui) : Owner[b] \in ui.known
  BY <1>1 DEF Picture, OwnersKnown
<1>3. /\ DirectOps \cap ({"msg", "seen", "leave", "up", "down", "delete", "update", "list", "search"} \cup Joins) = {}
      /\ GuardedJoins \cap ({"msg", "seen", "leave", "up", "down", "delete", "update", "list", "search"} \cup DirectOps) = {}
  BY DEF DirectOps, Joins, GuardedJoins, DiscoverJoins
<1>4. ASSUME NEW d \in Dms, NEW op \in DirectOps, AskDirect(op, d)
      PROVE  PictureInv'
  <2>1. d \in Shown(ui) /\ Ask(op, d, ui.dm[d].rev, None, None)
    BY <1>4 DEF AskDirect
  <2> QED
    BY <1>1, <1>2, <1>3, <1>4, <2>1, AskIs, QuietStep DEF AskDirect
<1>5. ASSUME NEW d \in Dms, AskMessage(d)
      PROVE  PictureInv'
  BY <1>1, <1>3, <1>5, AskIs, QuietStep DEF AskMessage
<1>6. ASSUME NEW op \in {"seen", "leave", "up", "down", "delete", "update"}, NEW b \in Channels \cup Servers,
             AskPlain(op, b)
      PROVE  PictureInv'
  BY <1>1, <1>3, <1>6, AskIs, QuietStep DEF AskPlain
<1>7. ASSUME NEW op \in Joins, NEW c \in Channels, AskJoin(op, c)
      PROVE  PictureInv'
  <2>1. PICK d : /\ calls' = calls \cup {d} /\ d.stage = "sent" /\ d.session = sessions
                 /\ d.op = op /\ d.buf = c
                 /\ d.held = IF op \in GuardedJoins THEN ui.versions[c] ELSE Absent
    BY <1>7, AskIs DEF AskJoin
  <2> QED
    BY <1>1, <1>3, <1>7, <2>1, QuietStep DEF AskJoin
<1>8. ASSUME NEW b \in Buffers, NavigateToChannel(b) \/ NotificationClick(b)
      PROVE  PictureInv'
  <2>1. CASE NavigateToChannel(b)
    <3>1. Looks(ui, ui')
      BY <2>1, SelectedLooks DEF NavigateToChannel
    <3> QED
      BY <2>1, <3>1, QuietStep DEF NavigateToChannel
  <2>2. CASE NotificationClick(b)
    <3>1. Looks(ui, ui')
      BY <2>2, SelectedLooks DEF NotificationClick
    <3> QED
      BY <2>2, <3>1, QuietStep DEF NotificationClick
  <2> QED
    BY <1>8, <2>1, <2>2
<1>9. ASSUME NEW s \in Servers, NavigateToServer(s)
      PROVE  PictureInv'
  <2>1. Looks(ui, ui')
    BY <1>9, SelectedLooks DEF NavigateToServer
  <2> QED
    BY <1>9, <2>1, QuietStep DEF NavigateToServer
<1>10. ASSUME NEW s \in Servers, NEW q \in Queries, OpenDirectory(s, q)
       PROVE  PictureInv'
  <2>1. Looks(ui, ui')
    BY <1>10, SelectedLooks DEF OpenDirectory, ShowDirectory
  <2>2. calls' = calls \/ Ask("list", s, listing.req + 1, None, q)
    BY <1>10 DEF OpenDirectory
  <2>3. UNCHANGED <<truth, unpublished, wire, link, sessions, boot, refresh, again, queue, unsure>>
    BY <1>10 DEF OpenDirectory
  <2> QED
    BY <1>3, <2>1, <2>2, <2>3, AskIs, QuietStep
<1>11. ASSUME NEW tab \in {"all", "server"}, NEW q \in Queries, NavigateToDiscover(tab, q)
       PROVE  PictureInv'
  <2>1. Looks(ui, ui')
    BY <1>11, SelectedLooks DEF NavigateToDiscover
  <2>2. \E op \in {"list", "search"} : \E b, held : Ask(op, b, held, None, q)
    BY <1>11 DEF NavigateToDiscover
  <2>3. UNCHANGED <<truth, unpublished, wire, link, sessions, boot, refresh, again, queue, unsure>>
    BY <1>11 DEF NavigateToDiscover
  <2> QED
    BY <1>3, <2>1, <2>2, <2>3, AskIs, QuietStep
<1> QED
  BY <1>4, <1>5, <1>6, <1>7, <1>8, <1>9, <1>10, <1>11 DEF User

-----------------------------------------------------------------------------
(* Steps of the server: answers and operations.                            *)

LEMMA StagedIs ==
    ASSUME NEW c, CallOK(c), NEW stage, NEW reply
    PROVE  LET d == Staged(c, stage, reply)
           IN /\ d.id = c.id /\ d.op = c.op /\ d.buf = c.buf /\ d.held = c.held /\ d.session = c.session
              /\ d.stage = stage /\ d.reply = reply
BY DEF CallOK, Call, Staged

LEMMA AnswerMoves ==
    ASSUME CInv, NEW c \in calls, NEW stage, NEW reply, NEW frames, Answer(c, stage, reply, frames), NEW F,
           (frames = <<>> /\ F = {}) \/ (\E f \in Frame : frames = <<f>> /\ F = {f})
    PROVE  /\ Widens(Coming, Coming', F) /\ Tells(Coming, Coming', F, F \cup {Reply(c.id)})
           /\ calls' = (calls \ {c}) \cup {Staged(c, stage, reply)}
           /\ UNCHANGED <<link, sessions, boot, ui, refresh, again, queue, unsure>>
<1>1. queue \in Seq(Held) /\ wire \in Seq(OnWire) /\ CallOK(c)
  BY ClientIs
<1>2. /\ calls' = (calls \ {c}) \cup {Staged(c, stage, reply)}
      /\ UNCHANGED <<link, sessions, boot, ui, refresh, again, queue, unsure>>
  BY DEF Answer, Staged
<1>3. c.id \in Nat
  BY <1>1, CallFields
<1>4. PICK v \in Seq(OnWire) : /\ wire' = v \o frames
                               /\ Widens(Coming, Line(queue, v, sessions), {})
                               /\ Tells(Coming, Line(queue, v, sessions), {}, {Reply(c.id)})
  <2>1. CASE c.op \in Pushes
    <3>1. PICK i \in 0..Len(wire) :
              wire' = SubSeq(wire, 1, i) \o <<Reply(c.id)>> \o SubSeq(wire, i + 1, Len(wire)) \o frames
      BY <2>1 DEF Answer
    <3> QED
      BY <1>1, <1>3, <3>1, LineAnswered DEF Coming
  <2>2. CASE c.op \notin Pushes
    <3>1. wire' = wire \o frames
      BY <2>2 DEF Answer
    <3>2. Widens(Coming, Coming, {}) /\ Tells(Coming, Coming, {}, {Reply(c.id)})
      BY MovedNowhere, TellsLess
    <3> QED
      BY <1>1, <3>1, <3>2 DEF Coming
  <2> QED
    BY <2>1, <2>2
<1>5. /\ Widens(Line(queue, v, sessions), Coming', F)
      /\ Tells(Line(queue, v, sessions), Coming', F, F)
  <2>1. Coming' = Line(queue, v \o frames, sessions)
    BY <1>2, <1>4 DEF Coming
  <2>2. CASE frames = <<>> /\ F = {}
    <3>1. v \o frames = v
      BY <1>4, <2>2
    <3> QED
      BY <2>1, <2>2, <3>1, MovedNowhere
  <2>3. CASE \E f \in Frame : frames = <<f>> /\ F = {f}
    BY <1>1, <1>4, <2>1, <2>3, LineGrows
  <2> QED
    BY <2>2, <2>3
<1>6. Widens(Coming, Coming', F) /\ Tells(Coming, Coming', F, {Reply(c.id)} \cup F)
  BY <1>4, <1>5, MovedOn
<1> QED
  BY <1>2, <1>6, TellsLess

LEMMA UnchangedPictures ==
    ASSUME CInv, PictureInv, CInv', NEW c \in calls, NEW stage, NEW reply, AnswerUnchanged(c, stage, reply),
           stage = "answered" => /\ c.op \notin Telling /\ c.op # "delete"
                                 /\ c.op \in Joins => c.buf \in truth.joined
    PROVE  PictureInv'
<1> DEFINE d == Staged(c, stage, reply)
           X == {Reply(c.id)}
<1>1. TruthInv /\ ToldInv /\ LevelInv
  BY DEF PictureInv
<1>2. /\ Widens(Coming, Coming', {}) /\ Tells(Coming, Coming', {}, X)
      /\ calls' = (calls \ {c}) \cup {d}
      /\ UNCHANGED <<link, sessions, boot, ui, refresh, again, queue, unsure>>
      /\ UNCHANGED <<truth, unpublished>>
  <2>1. Answer(c, stage, reply, <<>>) /\ UNCHANGED <<truth, unpublished>>
    BY DEF AnswerUnchanged
  <2>2. /\ Widens(Coming, Coming', {}) /\ Tells(Coming, Coming', {}, {} \cup {Reply(c.id)})
        /\ calls' = (calls \ {c}) \cup {Staged(c, stage, reply)}
        /\ UNCHANGED <<link, sessions, boot, ui, refresh, again, queue, unsure>>
    BY <2>1, AnswerMoves
  <2>3. {} \cup {Reply(c.id)} = X
    OBVIOUS
  <2> QED
    BY <2>1, <2>2, <2>3
<1>3. CallOK(c)
  BY ClientIs
<1>4. /\ d.id = c.id /\ d.op = c.op /\ d.buf = c.buf /\ d.held = c.held /\ d.session = c.session
      /\ d.stage = stage /\ d.reply = reply
  BY <1>3, StagedIs
<1>5. Picture(ui') /\ Looks(ui, ui')
  BY <1>2, ClientIs, LooksItself
<1>6. Ahead(Coming', 0) = Ahead(Coming, 0)
  BY <1>2 DEF Widens
<1>7. Bringing \subseteq Telling
  BY DEF Telling
<1> HIDE DEF d
<1>8. TruthInv'
  <2>1. CallTrue(d, truth, sessions)
    <3>1. CallTrue(c, truth, sessions) /\ \A x \in truth.joined : Owner[x] \in Born(truth)
      BY <1>1 DEF TruthInv, TruthFits, Born
    <3> QED
      BY <1>4, <1>7, <3>1 DEF CallTrue
  <2>2. \A x \in calls' : CallTrue(x, truth, sessions)
    BY <1>1, <1>2, <2>1 DEF TruthInv
  <2>3. PictureTrue(ui', truth)
    BY <1>1, <1>2 DEF TruthInv
  <2> QED
    BY <1>1, <1>2, <1>6, <2>2, <2>3, TruthInvOn
<1>9. ToldInv'
  <2>1. JoinFits(d, ui, Ahead(Coming, 0), truth, Current(d))
    <3>1. JoinFits(c, ui, Ahead(Coming, 0), truth, Current(c))
      BY <1>1 DEF ToldInv
    <3>2. c.op \in GuardedJoins => c.op \in Joins
      BY DEF Joins
    <3> QED
      BY <1>4, <3>1, <3>2 DEF JoinFits, JoinHeld
  <2>2. \A x \in calls' : JoinFits(x, ui', Ahead(Coming', 0), truth, Current(x))
    BY <1>1, <1>2, <1>6, <2>1 DEF ToldInv
  <2>3. \A x \in calls' : (x \in calls /\ Reply(x.id) \notin X) \/ ReplyTold(x, Coming', truth)
    <3> TAKE x \in calls'
    <3>1. CASE x = d
      BY <1>4, <3>1 DEF ReplyTold
    <3>2. CASE x \in calls \ {c}
      <4>1. x.id # c.id
        BY <3>2 DEF CInv, CallsOK
      <4> QED
        BY <3>2, <4>1 DEF Reply
    <3> QED
      BY <1>2, <3>1, <3>2
  <2>4. \A f \in X : IsReply(f)
    BY DEF Reply, IsReply
  <2> HIDE DEF X
  <2> QED
    BY <1>1, <1>2, <2>2, <2>3, <2>4, ToldInvOn
<1>10. LevelInv'
  <2>1. \A x \in calls' : \E y \in calls : x.op = y.op /\ x.buf = y.buf
    BY <1>2, <1>4
  <2>2. \A g \in Told(calls') : g \in Told(calls)
    BY <1>2, <1>4, <1>7 DEF Told, Brings
  <2>3. Unsure \subseteq Unsure'
    BY <1>2, UnsureOn
  <2> QED
    BY <1>1, <1>2, <1>5, <2>1, <2>2, <2>3, LevelInvOn
<1> QED
  BY <1>8, <1>9, <1>10 DEF PictureInv

\* The frame of an operation, and when it is published later.
LEMMA NewsKind ==
    ASSUME truth \in Truth, NEW op \in Operations, NEW b, Possible(op, b), NEW t \in Truth
    PROVE  /\ FrameOf(op, b, t) \in Frame
           /\ FrameOf(op, b, t).type = "direct_message" <=> b \in Dms
           /\ FrameOf(op, b, t).type = "buffer:left" /\ FrameOf(op, b, t).buf \in Servers =>
                op = "delete" /\ FrameOf(op, b, t).buf = b
<1>1. Channels \cap Servers = {} /\ Channels \cap Dms = {} /\ Dms \cap Servers = {}
  BY ClientAssumption DEF Buffers
<1>2. /\ op \in ThreadOps => b \in Dms
      /\ op \in ChannelOps => b \in Channels
      /\ op \in ServerOps => b \in Servers
  BY PossibleOn
<1>3. FrameOf(op, b, t) \in Frame
  BY FrameOfIs
<1>4. CASE op \in ThreadOps
  <2>1. FrameOf(op, b, t) = DirectFrameOf(t, b)
    BY <1>4, FrameOfIs
  <2> QED
    BY <1>2, <1>3, <1>4, <2>1 DEF DirectFrameOf
<1>5. CASE op \in {"join", "create"}
  <2>1. FrameOf(op, b, t).type = "buffer:joined"
    BY <1>5 DEF FrameOf
  <2> QED
    BY <1>1, <1>2, <1>3, <1>5, <2>1 DEF ChannelOps
<1>6. CASE op \in {"leave", "delete"}
  <2>1. FrameOf(op, b, t).type = "buffer:left" /\ FrameOf(op, b, t).buf = b
    BY <1>6 DEF FrameOf
  <2> QED
    BY <1>1, <1>2, <1>3, <1>6, <2>1 DEF ChannelOps, ServerOps
<1>7. CASE op \in {"mention", "seen"}
  <2>1. FrameOf(op, b, t).type \in {"buffer:message", "buffer:read"}
    BY <1>7 DEF FrameOf
  <2> QED
    BY <1>1, <1>2, <1>3, <1>7, <2>1 DEF ChannelOps
<1>8. CASE op \in {"up", "down"}
  <2>1. FrameOf(op, b, t).type = "server:status"
    BY <1>8 DEF FrameOf
  <2> QED
    BY <1>1, <1>2, <1>3, <1>8, <2>1 DEF ServerOps
<1> QED
  BY <1>4, <1>5, <1>6, <1>7, <1>8 DEF Operations, ThreadOps, ChannelOps, ServerOps

\* c is the call x, answered with what the operation did.
AnswersWith(c, x, f, o) ==
    /\ c.op = x.op /\ c.buf = x.buf /\ c.held = x.held /\ c.session = x.session
    /\ c.op \in Joins => c.buf \in o.joined
    /\ c.op = "delete" => c.buf \in o.dead
    /\ c.op \in Telling => c.reply = f

LEMMA CommitStep ==
    ASSUME CInv, PictureInv, CInv', NEW op \in Operations, NEW b, Possible(op, b), Commit(op, b),
           NEW f, f = FrameOf(op, b, Changed(op, b)), NEW F, F = IF b \in Dms \/ link # "joined" THEN {} ELSE {f},
           NEW X, \A e \in X : IsReply(e) \/ e = f, Widens(Coming, Coming', F), Tells(Coming, Coming', F, X),
           UNCHANGED <<link, sessions, boot, ui, refresh, again, queue, unsure>>,
           \A c \in calls' : \/ c \in calls /\ Reply(c.id) \notin X
                             \/ \E x \in calls : AnswersWith(c, x, f, truth')
    PROVE  PictureInv'
<1> DEFINE o == Changed(op, b)
           G == Ahead(Coming, 0)
           H == Ahead(Coming', 0)
           u == View(ui, refresh)
<1>1. TruthInv /\ ToldInv /\ LevelInv
  BY DEF PictureInv
<1>2. /\ truth \in Truth /\ unpublished \subseteq Frame /\ Picture(ui)
      /\ refresh.stage = "answered" => refresh.snapshot \in Truth
      /\ boot.stage = "answered" => boot.snapshot \in Truth
      /\ Told(calls) \subseteq DirectFrame /\ DirectFrame \subseteq Frame /\ \A c \in calls : CallOK(c)
  BY ClientIs
<1>3. TruthFits(truth) /\ truth' = o /\ o \in Truth
  BY <1>1, <1>2, ChangedTruth DEF Commit, TruthInv
<1>4. Becomes(truth, f, o)
  BY <1>2, <1>3, OperationBecomes
<1>5. /\ f \in Frame /\ (f.type = "direct_message" <=> b \in Dms)
      /\ f.type = "buffer:left" /\ f.buf \in Servers => op = "delete" /\ f.buf = b
  BY <1>2, <1>3, NewsKind
<1>6. unpublished' = IF b \in Dms THEN unpublished \cup {f} ELSE unpublished
  BY DEF Commit
<1>7. TruthFits(o)
  BY <1>2, <1>3, <1>4, <1>5, BecomesFits
<1>8. FrameTrue(f, o) /\ (f.type = "direct_message" => Owner[f.buf] \in o.live) /\ \A K : FrameTold(f, K, o)
  BY <1>2, <1>3, <1>4, <1>5, NewsIsTrue, NewsIsTold
<1>9. H = G \cup F /\ G \subseteq Frame /\ DOMAIN Coming \subseteq Nat /\ \A i \in DOMAIN Coming : Coming[i].frame \in OnWire
  BY ComingIs DEF Widens
<1>10. /\ \A g \in (G \cup unpublished) \cup Told(calls) : FrameTrue(g, truth)
       /\ Picture(u) /\ PictureTrue(u, truth)
  BY <1>1, TruthIs
<1> HIDE DEF o, G, H, u
<1>11. \A g \in Frame : FrameTrue(g, truth) => FrameTrue(g, o)
  BY <1>2, <1>3, <1>4, <1>5, TrueAfter
<1>12. /\ Born(truth) \subseteq Born(o)
       /\ \A s \in Servers : s \in o.live \ truth.live => JoinsOn(f, s) /\ s \notin Born(truth)
       /\ \A s \in Servers : s \in truth.live \ o.live => f.type = "buffer:left" /\ f.buf = s
  BY <1>2, <1>3, <1>4, <1>5, BecomesGrows
<1>13. \A c \in calls' : (c \in calls /\ Reply(c.id) \notin X) \/ \E x \in calls : AnswersWith(c, x, f, o)
  BY <1>3
<1>14. \A d \in Dms : Owner[d] \in Servers
  BY ClientAssumption DEF Buffers
<1>15. TruthInv'
  <2>1. \A g \in H : FrameTrue(g, o)
    <3> TAKE g \in H
    <3>1. CASE g \in G
      BY <1>9, <1>10, <1>11, <3>1
    <3>2. CASE g \in F
      BY <1>8, <3>2
    <3> QED
      BY <1>9, <3>1, <3>2
  <2>2. \A g \in unpublished' : FrameTrue(g, o) /\ Owner[g.buf] \in o.live
    <3> TAKE g \in unpublished'
    <3>1. CASE g \in unpublished
      <4>1. Owner[g.buf] \in truth.live /\ g.buf \in Dms
        BY <1>1, <3>1, ClientIs DEF TruthInv, DirectFrame
      <4>2. op = "delete" => Owner[g.buf] # b
        BY <3>1 DEF Possible
      <4>3. Owner[g.buf] \in o.live
        BY <1>5, <1>12, <1>14, <4>1, <4>2
      <4> QED
        BY <1>2, <1>10, <1>11, <3>1, <4>3
    <3>2. CASE g = f /\ b \in Dms
      BY <1>5, <1>8, <3>2
    <3> QED
      BY <1>6, <3>1, <3>2
  <2>3. /\ PictureTrue(ui, o)
        /\ refresh.stage = "answered" => SnapshotTrue(refresh.snapshot, o)
        /\ boot.stage = "answered" => SnapshotTrue(boot.snapshot, o)
    BY <1>1, <1>2, <1>3, <1>4, <1>5, PictureAfter DEF TruthInv
  <2>4. \A c \in calls : CallTrue(c, o, sessions)
    BY <1>1, <1>2, <1>3, <1>4, <1>5, CallAfter DEF TruthInv
  <2>5. \A c \in calls' : CallTrue(c, o, sessions)
    <3> TAKE c \in calls'
    <3>1. CASE c \in calls
      BY <2>4, <3>1
    <3>2. ASSUME NEW x \in calls, AnswersWith(c, x, f, o)
          PROVE  CallTrue(c, o, sessions)
      <4>1. CallTrue(x, o, sessions) /\ \A y \in o.joined : Owner[y] \in Born(o)
        BY <1>7, <2>4 DEF TruthFits, Born
      <4> QED
        BY <1>8, <3>2, <4>1 DEF CallTrue, AnswersWith, Telling
    <3> QED
      BY <1>13, <3>1, <3>2
  <2>6. \A i \in DOMAIN queue : queue[i].session <= sessions
    BY <1>1 DEF TruthInv
  <2> QED
    BY <1>3, <1>7, <2>1, <2>2, <2>3, <2>5, <2>6 DEF TruthInv, H
<1>16. ToldInv'
  <2>1. \A c \in calls' : JoinFits(c, ui, H, o, Current(c))
    <3> TAKE c \in calls'
    <3>1. ASSUME NEW x \in calls
          PROVE  JoinFits(x, ui, H, o, Current(x))
      <4>1. JoinFits(x, ui, G, truth, Current(x)) /\ CallOK(x)
        BY <1>1, <1>2 DEF ToldInv, G
      <4>2. Current(x) => f.type = "direct_message" \/ f \in H
        BY <1>5, <1>9 DEF Current
      <4>3. G \subseteq H
        BY <1>9
      <4> QED
        BY <1>2, <1>3, <1>4, <1>5, <4>1, <4>2, <4>3, JoinAfter
    <3>2. ASSUME NEW x \in calls, AnswersWith(c, x, f, o)
          PROVE  JoinFits(c, ui, H, o, Current(c))
      <4>1. JoinFits(x, ui, H, o, Current(x))
        BY <3>1
      <4>2. c.op \in GuardedJoins => c.op \in Joins
        BY DEF Joins
      <4> QED
        BY <3>2, <4>1, <4>2 DEF JoinFits, JoinHeld, AnswersWith
    <3> QED
      BY <1>13, <3>1, <3>2
  <2>2. ASSUME link = "joined"
        PROVE  FramesTold(Coming', sessions, o) /\ \A c \in calls' : ReplyTold(c, Coming', o)
    <3>1. Carries(F, truth, o)
      <4>1. f.type = "direct_message" \/ f \in F
        BY <1>5, <2>2
      <4> QED
        BY <1>2, <1>3, <1>4, <1>5, <4>1, CarriesOn
    <3>2. FramesTold(Coming, sessions, truth) /\ \A c \in calls : ReplyTold(c, Coming, truth)
      BY <1>1, <2>2 DEF ToldInv
    <3>3. \A e \in X : IsReply(e) \/ \A K : FrameTold(e, K, o)
      BY <1>8
    <3>4. FramesTold(Coming', sessions, o)
      BY <1>9, <3>1, <3>2, <3>3, FramesToldOn
    <3>5. \A c \in calls' : ReplyTold(c, Coming', o)
      <4> TAKE c \in calls'
      <4>1. CASE c \in calls /\ Reply(c.id) \notin X
        <5>1. CallOK(c) /\ ReplyTold(c, Coming, truth)
          BY <1>2, <3>2, <4>1
        <5> QED
          BY <3>1, <4>1, <5>1, ReplyToldOn
      <4>2. ASSUME NEW x \in calls, AnswersWith(c, x, f, o)
            PROVE  ReplyTold(c, Coming', o)
        BY <1>8, <4>2 DEF AnswersWith, ReplyTold
      <4> QED
        BY <1>13, <4>1, <4>2
    <3> QED
      BY <3>4, <3>5
  <2> QED
    BY <1>3, <2>1, <2>2 DEF ToldInv, Current, H
<1>17. LevelInv'
  <2> SUFFICES ASSUME link = "joined", ~again, refresh.stage # "sent"
               PROVE  /\ Level(u, H, Introduced(Coming', 0), unpublished', Told(calls'), Unsure', o)
                      /\ \A c \in calls' : CallKnown(c, u, Unsure', o)
                      /\ \A s \in o.live \ Unsure' : s \in ui.known => s \in u.known
    BY <1>3 DEF LevelInv, u, H
  <2>1. /\ Level(u, G, Introduced(Coming, 0), unpublished, Told(calls), Unsure, truth)
        /\ \A c \in calls : CallKnown(c, u, Unsure, truth)
        /\ \A s \in truth.live \ Unsure : s \in ui.known => s \in u.known
    BY <1>1 DEF LevelInv, u, G
  <2>2. Unsure \subseteq Unsure'
    BY UnsureOn
  <2>3. F = IF b \in Dms THEN {} ELSE {f}
    OBVIOUS
  <2>4. f.type = "direct_message" \/ f \in H
    BY <1>5, <1>9, <2>3
  <2>5. f \in H \cup unpublished' /\ \A g \in G \cup unpublished : g \in H \cup unpublished'
    BY <1>6, <1>9, <2>3
  <2>6. \A g \in Told(calls') : g \in Told(calls) \/ g = f
    <3>1. \A c \in calls' : Brings(c) => (c.reply \in Told(calls) \/ c.reply = f)
      <4> TAKE c \in calls'
      <4>1. CASE c \in calls
        BY <4>1 DEF Told
      <4>2. ASSUME NEW x \in calls, AnswersWith(c, x, f, o)
            PROVE  Brings(c) => c.reply = f
        BY <4>2 DEF AnswersWith, Brings, Telling
      <4> QED
        BY <1>13, <4>1, <4>2
    <3> QED
      BY <3>1 DEF Told
  <2>7. \A g \in (H \cup unpublished') \cup Told(calls') : g \in (G \cup unpublished) \cup Told(calls) \/ g = f
    BY <1>6, <1>9, <2>3, <2>6
  <2>8. /\ \A s \in Introduced(Coming, 0) : s \in Introduced(Coming', 0)
        /\ \A s \in Servers : JoinsOn(f, s) /\ (\A g \in G : ~DirectOn(g, s)) => s \in Introduced(Coming', 0)
    <3>1. \A s \in Introduced(Coming, 0) : s \in Introduced(Coming', 0)
      BY DEF Widens
    <3>2. ASSUME NEW s \in Servers, JoinsOn(f, s), \A g \in G : ~DirectOn(g, s)
          PROVE  s \in Introduced(Coming', 0)
      <4>1. f \in F
        BY <1>5, <2>3, <3>2 DEF JoinsOn
      <4> QED
        BY <3>2, <4>1 DEF Widens, G
    <3> QED
      BY <3>1, <3>2
  <2>9. (G \cup unpublished) \cup Told(calls) \subseteq Frame /\ G \subseteq H
    BY <1>2, <1>9
  <2>10. Level(u, H, Introduced(Coming', 0), unpublished', Told(calls'), Unsure, o)
    BY <1>2, <1>3, <1>4, <1>5, <1>10, <2>1, <2>4, <2>5, <2>7, <2>8, <2>9, LevelAfter
  <2>11. Level(u, H, Introduced(Coming', 0), unpublished', Told(calls'), Unsure', o)
    <3>1. Looks(u, u)
      BY LooksItself
    <3> QED
      BY <2>2, <2>10, <3>1, LevelWeakens
  <2>12. \A c \in calls' : CallKnown(c, u, Unsure', o)
    <3> TAKE c \in calls'
    <3>1. PICK x \in calls : c.op = x.op /\ c.buf = x.buf
      BY <1>13 DEF AnswersWith
    <3>2. c.op \in DirectOps => Owner[c.buf] \in Servers /\ Owner[c.buf] \in Born(truth)
      BY <1>1, <1>2, <1>14, <3>1 DEF TruthInv, CallTrue, CallOK, About
    <3>3. CallKnown(x, u, Unsure, truth)
      BY <2>1
    <3> QED
      BY <1>12, <2>2, <3>1, <3>2, <3>3 DEF CallKnown
  <2>13. \A s \in o.live \ Unsure' : s \in ui.known => s \in u.known
    <3> TAKE s \in o.live \ Unsure'
    <3>1. s \in Servers
      BY <1>3 DEF Truth
    <3>2. s \in ui.known => s \in Born(truth)
      BY <1>1 DEF TruthInv, PictureTrue
    <3> QED
      BY <1>12, <2>1, <2>2, <3>1, <3>2
  <2> QED
    BY <2>11, <2>12, <2>13
<1> QED
  BY <1>15, <1>16, <1>17 DEF PictureInv

LEMMA ElsewherePictures ==
    ASSUME CInv, PictureInv, CInv', NEW op \in ElsewhereOps, NEW b, ChangeElsewhere(op, b)
    PROVE  PictureInv'
<1> DEFINE f == FrameOf(op, b, Changed(op, b))
           F == IF b \in Dms \/ link # "joined" THEN {} ELSE {f}
<1>1. /\ Possible(op, b) /\ Commit(op, b) /\ wire' = wire \o Published(op, b)
      /\ UNCHANGED <<calls, link, sessions, boot, ui, refresh, again, queue, unsure>>
  BY DEF ChangeElsewhere
<1>2. op \in Operations
  BY DEF ElsewhereOps, Operations, ThreadOps, ChannelOps, ServerOps
<1>3. queue \in Seq(Held) /\ wire \in Seq(OnWire) /\ truth \in Truth
  BY ClientIs
<1>4. f \in Frame
  BY <1>1, <1>2, <1>3, ChangedTruth, FrameOfIs
<1>5. Widens(Coming, Coming', F) /\ Tells(Coming, Coming', F, F)
  <2>1. Coming' = Line(queue, wire \o Published(op, b), sessions)
    BY <1>1 DEF Coming
  <2>2. CASE b \in Dms \/ link # "joined"
    <3>1. Published(op, b) = <<>>
      BY <2>2 DEF Published
    <3>2. wire \o <<>> = wire
      BY <1>3
    <3>3. Coming' = Coming
      BY <2>1, <3>1, <3>2 DEF Coming
    <3> QED
      BY <2>2, <3>3, MovedNowhere
  <2>3. CASE ~(b \in Dms \/ link # "joined")
    <3>1. Published(op, b) = <<f>> /\ F = {f}
      BY <2>3 DEF Published
    <3> HIDE DEF f, F
    <3>2. Widens(Coming, Coming', {f}) /\ Tells(Coming, Coming', {f}, {f})
      BY <1>3, <1>4, <2>1, <3>1, LineGrows DEF Coming
    <3> QED
      BY <3>1, <3>2
  <2> QED
    BY <2>2, <2>3
<1>6. /\ \A e \in F : IsReply(e) \/ e = f
      /\ \A c \in calls' : c \in calls /\ Reply(c.id) \notin F
  <2>1. \A e \in F : e = f
    OBVIOUS
  <2>2. ~IsReply(f) /\ \A id : IsReply(Reply(id))
    BY <1>4, FramesAreNoReplies DEF Reply, IsReply
  <2> HIDE DEF f, F
  <2> QED
    BY <1>1, <2>1, <2>2
<1>7. F = IF b \in Dms \/ link # "joined" THEN {} ELSE {f}
  OBVIOUS
<1>8. f = FrameOf(op, b, Changed(op, b))
  OBVIOUS
<1> HIDE DEF f, F
<1>9. UNCHANGED <<link, sessions, boot, ui, refresh, again, queue, unsure>>
  BY <1>1
<1> QED
  BY <1>1, <1>2, <1>5, <1>6, <1>7, <1>8, <1>9, CommitStep

LEMMA CommittingPictures ==
    ASSUME CInv, PictureInv, CInv', NEW c \in calls, NEW op \in Operations, NEW reply, Possible(op, c.buf),
           AnswerCommitting(c, op, reply),
           c.op \in Joins => c.buf \in Changed(op, c.buf).joined,
           c.op = "delete" => c.buf \in Changed(op, c.buf).dead,
           c.op \in Telling => reply = FrameOf(op, c.buf, Changed(op, c.buf))
    PROVE  PictureInv'
<1> DEFINE b == c.buf
           f == FrameOf(op, b, Changed(op, b))
           F == IF b \in Dms \/ link # "joined" THEN {} ELSE {f}
           d == Staged(c, "answered", reply)
           X == F \cup {Reply(c.id)}
<1>1. Answer(c, "answered", reply, Published(op, b)) /\ Commit(op, b)
  BY DEF AnswerCommitting
<1>2. truth \in Truth /\ CallOK(c)
  BY ClientIs
<1>3. f \in Frame
  BY <1>2, ChangedTruth, FrameOfIs
<1>4. (Published(op, b) = <<>> /\ F = {}) \/ (\E g \in Frame : Published(op, b) = <<g>> /\ F = {g})
  <2>1. CASE b \in Dms \/ link # "joined"
    BY <2>1 DEF Published
  <2>2. CASE ~(b \in Dms \/ link # "joined")
    <3>1. Published(op, b) = <<f>> /\ F = {f}
      BY <2>2 DEF Published
    <3> HIDE DEF f, F
    <3> QED
      BY <1>3, <3>1
  <2> QED
    BY <2>1, <2>2
<1>5. F = IF b \in Dms \/ link # "joined" THEN {} ELSE {f}
  OBVIOUS
<1>6. \A e \in F : e = f
  OBVIOUS
<1>7. c.op \in Telling => reply = f
  OBVIOUS
<1>8. f = FrameOf(op, b, Changed(op, b))
  OBVIOUS
<1>9. X = F \cup {Reply(c.id)}
  OBVIOUS
<1> HIDE DEF f, F, d, X
<1>10. /\ Widens(Coming, Coming', F) /\ Tells(Coming, Coming', F, X)
       /\ calls' = (calls \ {c}) \cup {d}
       /\ UNCHANGED <<link, sessions, boot, ui, refresh, again, queue, unsure>>
  <2>1. /\ Widens(Coming, Coming', F) /\ Tells(Coming, Coming', F, F \cup {Reply(c.id)})
        /\ calls' = (calls \ {c}) \cup {Staged(c, "answered", reply)}
        /\ UNCHANGED <<link, sessions, boot, ui, refresh, again, queue, unsure>>
    BY <1>1, <1>4, AnswerMoves
  <2> QED
    BY <1>9, <2>1 DEF d
<1>11. /\ d.id = c.id /\ d.op = c.op /\ d.buf = c.buf /\ d.held = c.held /\ d.session = c.session
       /\ d.stage = "answered" /\ d.reply = reply
  BY <1>2, StagedIs DEF d
<1>12. AnswersWith(d, c, f, truth')
  <2>1. truth' = Changed(op, b)
    BY <1>1 DEF Commit
  <2> QED
    BY <1>7, <1>11, <2>1 DEF AnswersWith
<1>13. \A x \in calls' : (x \in calls /\ Reply(x.id) \notin X) \/ \E y \in calls : AnswersWith(x, y, f, truth')
  <2> TAKE x \in calls'
  <2>1. CASE x = d
    BY <1>12, <2>1
  <2>2. CASE x \in calls \ {c}
    <3>1. x.id # c.id
      BY <2>2 DEF CInv, CallsOK
    <3>2. Reply(x.id) # Reply(c.id)
      BY <3>1 DEF Reply
    <3>3. ~IsReply(f) /\ IsReply(Reply(x.id))
      BY <1>3, FramesAreNoReplies DEF Reply, IsReply
    <3> QED
      BY <1>6, <1>9, <2>2, <3>2, <3>3
  <2> QED
    BY <1>10, <2>1, <2>2
<1>14. \A e \in X : IsReply(e) \/ e = f
  BY <1>6, <1>9 DEF Reply, IsReply
<1> HIDE DEF b
<1> QED
  BY <1>1, <1>5, <1>8, <1>10, <1>13, <1>14, CommitStep DEF b

LEMMA JoinChanges ==
    ASSUME truth \in Truth, NEW op \in {"join", "create"}, NEW c
    PROVE  c \in Changed(op, c).joined
BY DEF Changed, Truth

LEMMA ServePictures ==
    ASSUME CInv, PictureInv, CInv', NEW c \in calls, Serve(c)
    PROVE  PictureInv'
<1>1. truth \in Truth /\ CallOK(c)
  BY ClientIs
<1>2. /\ Telling = {"close", "block", "read", "msg", "up", "down"}
      /\ Joins = {"topic", "directory", "manual", "tab", "discovery", "command"}
      /\ Operations = {"say", "read", "close", "block", "join", "create", "leave", "mention", "seen", "up", "down", "delete"}
      /\ ListingOps = {"list", "search"} /\ DirectOps = {"close", "block", "read"}
  BY DEF Telling, Bringing, DirectOps, Joins, GuardedJoins, DiscoverJoins, ListingOps,
         Operations, ThreadOps, ChannelOps, ServerOps
<1>3. ASSUME ServeDirect(c)
      PROVE  PictureInv'
  <2>1. CASE AnswerCommitting(c, c.op, DirectFrameOf(Changed(c.op, c.buf), c.buf)) /\ Possible(c.op, c.buf)
    <3>1. c.op \in DirectOps
      BY <1>3 DEF ServeDirect
    <3>2. FrameOf(c.op, c.buf, Changed(c.op, c.buf)) = DirectFrameOf(Changed(c.op, c.buf), c.buf)
      BY <1>2, <3>1 DEF FrameOf
    <3> QED
      BY <1>2, <2>1, <3>1, <3>2, CommittingPictures
  <2>2. CASE \E stage \in {"refused", "stale"} : AnswerUnchanged(c, stage, None)
    BY <2>2, UnchangedPictures
  <2> QED
    BY <1>3, <2>1, <2>2 DEF ServeDirect
<1>4. ASSUME ServeMessage(c)
      PROVE  PictureInv'
  <2>1. CASE AnswerCommitting(c, "say", DirectFrameOf(Changed("say", c.buf), c.buf)) /\ Possible("say", c.buf)
    <3>1. c.op = "msg"
      BY <1>4 DEF ServeMessage
    <3>2. FrameOf("say", c.buf, Changed("say", c.buf)) = DirectFrameOf(Changed("say", c.buf), c.buf)
      BY DEF FrameOf
    <3> QED
      BY <1>2, <2>1, <3>1, <3>2, CommittingPictures
  <2>2. CASE AnswerUnchanged(c, "refused", None)
    BY <2>2, UnchangedPictures
  <2> QED
    BY <1>4, <2>1, <2>2 DEF ServeMessage
<1>5. ASSUME ServePlain(c)
      PROVE  PictureInv'
  <2>1. CASE AnswerCommitting(c, c.op, PlainReply(c.op, c.buf)) /\ Possible(c.op, c.buf)
    <3>1. c.op \in {"seen", "leave", "up", "down", "delete"}
      BY <1>5 DEF ServePlain
    <3>2. c.op = "delete" => c.buf \in Changed(c.op, c.buf).dead
      BY <1>1 DEF Changed, Truth
    <3>3. c.op \in Telling => PlainReply(c.op, c.buf) = FrameOf(c.op, c.buf, Changed(c.op, c.buf))
      BY <1>2, <3>1 DEF PlainReply
    <3> QED
      BY <1>2, <2>1, <3>1, <3>2, <3>3, CommittingPictures
  <2>2. CASE AnswerUnchanged(c, "refused", None)
    BY <2>2, UnchangedPictures
  <2> QED
    BY <1>5, <2>1, <2>2 DEF ServePlain
<1>6. ASSUME ServeUpdate(c)
      PROVE  PictureInv'
  BY <1>2, <1>6, UnchangedPictures DEF ServeUpdate
<1>7. ASSUME ServeJoin(c)
      PROVE  PictureInv'
  <2>1. c.op \in Joins
    BY <1>7 DEF ServeJoin
  <2> DEFINE status == [type |-> "server:status", buf |-> Owner[c.buf], status |-> truth.status[Owner[c.buf]]]
  <2>2. \/ Possible("join", c.buf) /\ AnswerCommitting(c, "join", status)
        \/ Possible("create", c.buf) /\ AnswerCommitting(c, "create", status)
        \/ c.buf \in truth.joined /\ AnswerUnchanged(c, "answered", status)
        \/ AnswerUnchanged(c, "refused", None)
    BY <1>7 DEF ServeJoin
  <2> HIDE DEF status
  <2>3. ASSUME NEW op \in {"join", "create"}, Possible(op, c.buf), AnswerCommitting(c, op, status)
        PROVE  PictureInv'
    BY <1>1, <1>2, <2>1, <2>3, JoinChanges, CommittingPictures
  <2>4. CASE c.buf \in truth.joined /\ AnswerUnchanged(c, "answered", status)
    BY <1>2, <2>1, <2>4, UnchangedPictures
  <2>5. CASE AnswerUnchanged(c, "refused", None)
    BY <2>5, UnchangedPictures
  <2> QED
    BY <2>2, <2>3, <2>4, <2>5
<1>8. ASSUME ServeListing(c)
      PROVE  PictureInv'
  BY <1>2, <1>8, UnchangedPictures DEF ServeListing
<1> QED
  BY <1>3, <1>4, <1>5, <1>6, <1>7, <1>8 DEF Serve

-----------------------------------------------------------------------------
(* Answers lost and promises settled.                                      *)

LEMMA CallFailsPictures ==
    ASSUME CInv, PictureInv, CInv', NEW c \in calls, CallFails(c)
    PROVE  PictureInv'
<1> DEFINE d == Staged(c, "lost", c.reply)
<1>1. TruthInv /\ ToldInv /\ LevelInv
  BY DEF PictureInv
<1>2. CallOK(c) /\ c \in Call
  BY OfTheCall
<1>3. /\ d.id = c.id /\ d.op = c.op /\ d.buf = c.buf /\ d.held = c.held /\ d.session = c.session
      /\ d.stage = "lost"
  BY <1>2, StagedIs
<1>4. /\ calls' = (calls \ {c}) \cup {d} /\ c.op \notin Pushes
      /\ UNCHANGED <<truth, unpublished, wire, link, sessions, boot, ui, refresh, again, queue, unsure>>
  BY <1>2 DEF CallFails, Staged, Call
<1> HIDE DEF d
<1>5. Coming' = Coming /\ Unsure \subseteq Unsure'
  BY <1>4, UnsureOn DEF Coming
<1>6. Widens(Coming, Coming', {}) /\ Tells(Coming, Coming', {}, {})
  BY <1>5, MovedNowhere
<1>7. Picture(ui') /\ Looks(ui, ui')
  BY <1>4, ClientIs, LooksItself
<1>8. TruthInv'
  <2>1. CallTrue(d, truth, sessions)
    BY <1>1, <1>3 DEF TruthInv, CallTrue
  <2>2. \A x \in calls' : CallTrue(x, truth, sessions)
    BY <1>1, <1>4, <2>1 DEF TruthInv
  <2>3. PictureTrue(ui', truth)
    BY <1>1, <1>4 DEF TruthInv
  <2> QED
    BY <1>1, <1>4, <1>5, <2>2, <2>3, TruthInvOn
<1>9. ToldInv'
  <2>1. JoinFits(d, ui, Ahead(Coming, 0), truth, Current(d))
    BY <1>1, <1>3 DEF ToldInv, JoinFits
  <2>2. \A x \in calls' : JoinFits(x, ui', Ahead(Coming', 0), truth, Current(x))
    BY <1>1, <1>4, <1>5, <2>1 DEF ToldInv
  <2>3. \A x \in calls' : x \in calls \/ ReplyTold(x, Coming', truth)
    BY <1>3, <1>4 DEF ReplyTold
  <2> QED
    BY <1>1, <1>4, <1>6, <2>2, <2>3, ToldInvOn
<1>10. LevelInv'
  <2>1. \A x \in calls' : \E y \in calls : x.op = y.op /\ x.buf = y.buf
    BY <1>3, <1>4
  <2>2. \A g \in Told(calls') : g \in Told(calls)
    BY <1>3, <1>4 DEF Told, Brings
  <2> QED
    BY <1>1, <1>4, <1>5, <1>6, <1>7, <2>1, <2>2, LevelInvOn
<1> QED
  BY <1>8, <1>9, <1>10 DEF PictureInv

\* A settled promise takes no more than its own answer off the line.
LEMMA SettledMoves ==
    ASSUME CInv, NEW c, NEW stages, Settled(c, stages)
    PROVE  /\ Widens(Coming, Coming', {}) /\ Tells(Coming, Coming', {}, {})
           /\ UNCHANGED <<truth, unpublished, link, sessions, boot, queue>>
<1>1. /\ IF c.op \in Pushes /\ c.stage # "lost"
         THEN wire # <<>> /\ Head(wire) = Reply(c.id) /\ wire' = Tail(wire)
         ELSE wire' = wire
      /\ UNCHANGED <<truth, unpublished, link, sessions, boot, queue>>
  BY DEF Settled
<1>2. queue \in Seq(Held) /\ wire \in Seq(OnWire)
  BY ClientIs
<1>3. CASE wire # <<>> /\ Head(wire) = Reply(c.id) /\ wire' = Tail(wire)
  <2>1. IsReply(Head(wire))
    BY <1>3 DEF IsReply, Reply
  <2>2. Coming' = Line(queue, Tail(wire), sessions)
    BY <1>1, <1>3 DEF Coming
  <2> QED
    BY <1>1, <1>2, <1>3, <2>1, <2>2, LineTaken DEF Coming
<1>4. CASE wire' = wire
  <2>1. Coming' = Coming
    BY <1>1, <1>4 DEF Coming
  <2> QED
    BY <1>1, <2>1, MovedNowhere
<1> QED
  BY <1>1, <1>3, <1>4

\* The calls that are left, and the reconnection one of them may ask for.
Remaining(d) == d \in calls \/ (d.stage = "sent" /\ d.op = "up" /\ d.session <= sessions)

LEMMA SettledStep ==
    ASSUME CInv, PictureInv, CInv', NEW c, NEW stages, Settled(c, stages), PictureTrue(ui', truth),
           refresh' = refresh \/ refresh'.stage # "answered", ui'.versions = ui.versions,
           \A d \in calls' : Remaining(d)
    PROVE  TruthInv' /\ ToldInv'
<1>1. TruthInv /\ ToldInv
  BY DEF PictureInv
<1>2. /\ Widens(Coming, Coming', {}) /\ Tells(Coming, Coming', {}, {})
      /\ UNCHANGED <<truth, unpublished, link, sessions, boot, queue>>
  BY SettledMoves
<1>3. Ahead(Coming', 0) = Ahead(Coming, 0)
  BY <1>2 DEF Widens
<1>4. TruthInv'
  <2>1. \A d \in calls' : CallTrue(d, truth, sessions)
    <3> TAKE d \in calls'
    <3>1. CASE d \in calls
      BY <1>1, <3>1 DEF TruthInv
    <3>2. CASE d.stage = "sent" /\ d.op = "up" /\ d.session <= sessions
      BY <3>2 DEF CallTrue, DirectOps
    <3> QED
      BY <3>1, <3>2 DEF Remaining
  <2> QED
    BY <1>1, <1>2, <1>3, <2>1, TruthInvOn
<1>5. ToldInv'
  <2>1. \A d \in calls' : JoinFits(d, ui', Ahead(Coming', 0), truth, Current(d))
    <3> TAKE d \in calls'
    <3>1. CASE d \in calls
      BY <1>1, <1>3, <3>1 DEF ToldInv, JoinFits, JoinHeld
    <3>2. CASE d.stage = "sent" /\ d.op = "up" /\ d.session <= sessions
      BY <3>2 DEF JoinFits, GuardedJoins
    <3> QED
      BY <3>1, <3>2 DEF Remaining
  <2>2. \A d \in calls' : d \in calls \/ ReplyTold(d, Coming', truth)
    BY DEF Remaining, ReplyTold
  <2> QED
    BY <1>1, <1>2, <2>1, <2>2, ToldInvOn
<1> QED
  BY <1>4, <1>5

\* The answer at the head of the socket comes before all the frames there.
LEMMA ReplyHeads ==
    ASSUME CInv, ToldInv, link = "joined", NEW c, c.op \in Telling, c.stage = "answered", NEW stages, Settled(c, stages)
    PROVE  FrameTold(c.reply, Ahead(Coming, 0), truth)
<1> DEFINE i == Len(queue) + 1
<1>1. c.op \in Pushes
  BY DEF Telling, Bringing, DirectOps, Pushes
<1>2. c \in calls /\ wire # <<>> /\ Head(wire) = Reply(c.id)
  BY <1>1 DEF Settled
<1>3. queue \in Seq(Held) /\ wire \in Seq(OnWire)
  BY ClientIs
<1>4. Len(queue) \in Nat /\ Len(wire) \in Nat /\ 1 <= Len(wire) /\ Head(wire) = wire[1]
  BY <1>2, <1>3, TailIs, LineIs
<1>5. DOMAIN Coming = 1..(Len(queue) + Len(wire))
  BY <1>3, LineIs DEF Coming
<1>6. i \in DOMAIN Coming /\ i > Len(queue) /\ i - Len(queue) = 1 /\ i \in Nat
  BY <1>4, <1>5
<1>7. Coming[i] = [frame |-> wire[i - Len(queue)], session |-> sessions]
  BY <1>3, <1>6, LineIs DEF Coming
<1>8. Coming[i].frame = Reply(c.id)
  BY <1>2, <1>4, <1>6, <1>7
<1> HIDE DEF i
<1>9. FrameTold(c.reply, Ahead(Coming, i), truth)
  BY <1>2, <1>6, <1>8 DEF ToldInv, ReplyTold
<1>10. Ahead(Coming, i) \subseteq Ahead(Coming, 0)
  <2>1. DOMAIN Coming \subseteq Nat /\ i \in Int /\ 0 \in Int /\ 0 <= i
    BY <1>6, ComingIs
  <2> QED
    BY <2>1, AheadLater
<1> QED
  BY <1>9, <1>10, ToldOfMore

LEMMA SettledLevel ==
    ASSUME CInv, LevelInv, NEW c, NEW stages, Settled(c, stages), UNCHANGED <<refresh, again>>,
           unsure \subseteq unsure', \A d \in calls' : Remaining(d),
           link = "joined" /\ ~again /\ refresh.stage # "sent" =>
               /\ Level(View(ui', refresh), Ahead(Coming, 0), Introduced(Coming, 0), unpublished, Told(calls), Unsure', truth)
               /\ \A s \in truth.live \ Unsure' :
                     /\ s \in View(ui, refresh).known => s \in View(ui', refresh).known
                     /\ s \in ui'.known => s \in View(ui', refresh).known
    PROVE  LevelInv'
<1>1. /\ Widens(Coming, Coming', {})
      /\ UNCHANGED <<truth, unpublished, link, sessions, boot, queue>>
  BY SettledMoves
<1> SUFFICES ASSUME link = "joined", ~again, refresh.stage # "sent"
             PROVE  /\ Level(View(ui', refresh), Ahead(Coming', 0), Introduced(Coming', 0), unpublished, Told(calls'),
                             Unsure', truth)
                    /\ \A d \in calls' : CallKnown(d, View(ui', refresh), Unsure', truth)
                    /\ \A s \in truth.live \ Unsure' : s \in ui'.known => s \in View(ui', refresh).known
  BY <1>1 DEF LevelInv
<1>2. Unsure \subseteq Unsure'
  BY <1>1, UnsureOn
<1> DEFINE u == View(ui, refresh)
           v == View(ui', refresh)
<1>3. /\ Level(v, Ahead(Coming, 0), Introduced(Coming, 0), unpublished, Told(calls), Unsure', truth)
      /\ \A s \in truth.live \ Unsure' : (s \in u.known => s \in v.known) /\ (s \in ui'.known => s \in v.known)
      /\ \A d \in calls : CallKnown(d, u, Unsure, truth)
  BY DEF LevelInv
<1> HIDE DEF u, v
<1>4. Level(v, Ahead(Coming', 0), Introduced(Coming', 0), unpublished, Told(calls'), Unsure', truth)
  <2>1. Ahead(Coming', 0) = Ahead(Coming, 0) /\ \A s \in Introduced(Coming, 0) : s \in Introduced(Coming', 0)
    BY <1>1 DEF Widens
  <2>2. \A g \in Told(calls') : g \in Told(calls)
    BY DEF Remaining, Told, Brings
  <2> QED
    BY <1>3, <2>1, <2>2, LooksItself, LevelWeakens
<1>5. \A d \in calls' : CallKnown(d, v, Unsure', truth)
  <2> TAKE d \in calls'
  <2>1. CASE d \in calls
    BY <1>2, <1>3, <2>1 DEF CallKnown
  <2>2. CASE d.stage = "sent" /\ d.op = "up" /\ d.session <= sessions
    BY <2>2 DEF CallKnown, DirectOps
  <2> QED
    BY <2>1, <2>2 DEF Remaining
<1> QED
  BY <1>3, <1>4, <1>5 DEF v

\* An answered refresh decides what is shown, whatever is applied before it.
LEMMA ViewStays ==
    ASSUME CInv, refresh.stage = "answered", NEW v, Picture(v), NEW G, NEW N, NEW W, NEW R, NEW Z, NEW t,
           Level(View(ui, refresh), G, N, W, R, Z, t), \A d \in Dms : Sure(d, Z) => v.revs[d] = ui.revs[d]
    PROVE  Level(View(v, refresh), G, N, W, R, Z, t) /\ View(v, refresh).known = View(ui, refresh).known
<1> DEFINE x == View(ui, refresh)
           y == View(v, refresh)
<1>1. Picture(ui) /\ refresh.snapshot \in Truth
  BY ClientIs
<1>2. /\ x.known = refresh.snapshot.live /\ x.skipped = {} /\ x.unread = SnapshotUnread(refresh.snapshot)
      /\ x.dm = SnapshotDms(refresh.snapshot) /\ x.revs = SnapshotRevisions(ui, refresh.snapshot)
      /\ \A s \in refresh.snapshot.live : x.status[s] = refresh.snapshot.status[s]
  BY <1>1, InstallEffect DEF View
<1>3. /\ y.known = refresh.snapshot.live /\ y.skipped = {} /\ y.unread = SnapshotUnread(refresh.snapshot)
      /\ y.dm = SnapshotDms(refresh.snapshot) /\ y.revs = SnapshotRevisions(v, refresh.snapshot)
      /\ \A s \in refresh.snapshot.live : y.status[s] = refresh.snapshot.status[s]
  BY <1>1, InstallEffect DEF View
<1>4. \A d \in Dms : Sure(d, Z) => y.revs[d] = x.revs[d]
  BY <1>2, <1>3 DEF SnapshotRevisions
<1>5. Level(x, G, N, W, R, Z, t)
  OBVIOUS
<1> HIDE DEF x, y
<1>6. Level(y, G, N, W, R, Z, t)
  BY <1>2, <1>3, <1>4, <1>5, LevelBeside
<1> QED
  BY <1>2, <1>3, <1>6 DEF x, y

LEMMA LevelKnown ==
    ASSUME NEW u, NEW G, NEW N, NEW M, NEW W, NEW R, NEW Z, NEW t, Level(u, G, N, W, R, Z, t),
           \A s \in N : s \in t.live \ Z => s \in u.known \/ s \in M
    PROVE  Level(u, G, M, W, R, Z, t)
<1>1. ASSUME NEW s \in Servers, s \notin Z
      PROVE  ServerFits(u, s, G, M, t)
  <2>1. ServerFits(u, s, G, N, t)
    BY <1>1 DEF Level
  <2>2. s \in t.live /\ s \notin u.known => s \in M
    BY <1>1, <2>1 DEF ServerFits
  <2> QED
    BY <2>1, <2>2 DEF ServerFits
<1> QED
  BY <1>1 DEF Level

\* An answer is applied like a frame that comes before all those on the line.
LEMMA AnswerApplied ==
    ASSUME CInv, TruthInv, NEW f \in Frame, NEW v, Effect(ui, f, v), FrameTrue(f, truth), NEW Z,
           Level(ui, Ahead(Coming, 0), Introduced(Coming, 0), unpublished, Told(calls), Z, truth),
           f.type = "direct_message" =>
               f \in Told(calls) /\ (Owner[f.buf] \in truth.live \ Z => Owner[f.buf] \in ui.known),
           FrameTold(f, Ahead(Coming, 0), truth) \/ Outside(f, Z)
    PROVE  Level(v, Ahead(Coming, 0), Introduced(Coming, 0), unpublished, Told(calls), Z, truth)
<1> DEFINE G == Ahead(Coming, 0)
           N == Introduced(Coming, 0)
           M == {s \in N : ~DirectOn(f, s)}
           R == Told(calls)
<1>1. /\ G \subseteq Frame /\ unpublished \subseteq Frame /\ R \subseteq DirectFrame /\ truth \in Truth /\ Picture(ui)
      /\ TruthFits(truth)
  BY ClientIs, ComingIs DEF TruthInv
<1>2. \A g \in (G \cup unpublished) \cup R : FrameTrue(g, truth)
  BY TruthIs
<1>3. Level(ui, G, M, unpublished, R, Z, truth)
  <2>1. \A s \in N : s \in truth.live \ Z => s \in ui.known \/ s \in M
    BY DEF DirectOn
  <2>2. Level(ui, G, N, unpublished, R, Z, truth)
    OBVIOUS
  <2> HIDE DEF G, N, M, R
  <2> QED
    BY <2>1, <2>2, LevelKnown
<1>4. \A s \in M : s \in N /\ ~DirectOn(f, s)
  OBVIOUS
<1>5. f.type = "direct_message" => f \in R
  OBVIOUS
<1>6. FrameTold(f, G, truth) \/ Outside(f, Z)
  OBVIOUS
<1> HIDE DEF G, N, M, R
<1>7. Level(ui, {f} \cup G, M, unpublished, R, Z, truth)
  <2>1. \A g \in (({f} \cup G) \cup unpublished) \cup R : g.type = "direct_message" => g \in (G \cup unpublished) \cup R
    BY <1>5
  <2> QED
    BY <1>3, <2>1, LooksItself, LevelWeakens
<1>8. Level(v, G, M, unpublished, R, Z, truth)
  BY <1>1, <1>2, <1>4, <1>6, <1>7, LevelApplied
<1>9. Level(v, G, N, unpublished, R, Z, truth)
  BY <1>4, <1>8, LooksItself, LevelWeakens
<1> QED
  BY <1>9 DEF G, N, R

LEMMA RefreshStages ==
    ASSUME UNCHANGED <<refresh, again>> \/ RequestRefresh(ui)
    PROVE  /\ refresh' = refresh \/ refresh'.stage # "answered"
           /\ again' \/ refresh'.stage = "sent" \/ UNCHANGED <<refresh, again>>
BY DEF RequestRefresh

LEMMA QuietSettle ==
    ASSUME CInv, PictureInv, CInv', NEW c, NEW stages, Settled(c, stages), ui' = ui, \A d \in calls' : Remaining(d),
           (UNCHANGED <<refresh, again>> /\ unsure \subseteq unsure') \/ RequestRefresh(ui)
    PROVE  PictureInv'
<1>1. LevelInv /\ TruthInv
  BY DEF PictureInv
<1>2. TruthInv' /\ ToldInv'
  <2>1. PictureTrue(ui', truth)
    BY <1>1 DEF TruthInv
  <2> QED
    BY <2>1, RefreshStages, SettledStep
<1>3. LevelInv'
  <2>1. CASE UNCHANGED <<refresh, again>> /\ unsure \subseteq unsure'
    <3>1. Unsure \subseteq Unsure'
      BY <2>1, SettledMoves, UnsureOn
    <3>2. ASSUME link = "joined", ~again, refresh.stage # "sent"
          PROVE  /\ Level(View(ui, refresh), Ahead(Coming, 0), Introduced(Coming, 0), unpublished, Told(calls), Unsure', truth)
                 /\ \A s \in truth.live \ Unsure' : s \in ui.known => s \in View(ui, refresh).known
      <4>1. /\ Level(View(ui, refresh), Ahead(Coming, 0), Introduced(Coming, 0), unpublished, Told(calls), Unsure, truth)
            /\ \A s \in truth.live \ Unsure : s \in ui.known => s \in View(ui, refresh).known
        BY <1>1, <3>2 DEF LevelInv
      <4> QED
        BY <3>1, <4>1, LooksItself, LevelWeakens
    <3> QED
      BY <1>1, <2>1, <3>2, SettledLevel
  <2>2. CASE RequestRefresh(ui)
    <3>1. again' \/ refresh'.stage = "sent" \/ again \/ refresh.stage = "sent"
      BY <2>2 DEF RequestRefresh
    <3>2. again' \/ refresh'.stage = "sent"
      BY <2>2 DEF RequestRefresh
    <3> QED
      BY <3>2 DEF LevelInv
  <2> QED
    BY <2>1, <2>2
<1> QED
  BY <1>2, <1>3 DEF PictureInv

\* An answer that is applied: a thread, a status, or a server removed.
LEMMA AnswerTaken ==
    ASSUME CInv, PictureInv, CInv', NEW c, NEW stages, Settled(c, stages), UNCHANGED <<refresh, again>>,
           unsure \subseteq unsure', \A d \in calls' : Remaining(d), NEW f \in Frame, Effect(ui, f, ui'), FrameTrue(f, truth),
           f.type \in {"direct_message", "server:status"} \/ (f.type = "buffer:left" /\ f.buf \in Servers),
           f.type = "direct_message" =>
               /\ f \in Told(calls) /\ (refresh.stage = "answered" => f.buf \in unsure')
               /\ link = "joined" /\ ~again /\ refresh.stage # "sent" /\ Owner[f.buf] \in truth.live \ Unsure =>
                      Owner[f.buf] \in View(ui, refresh).known,
           link = "joined" => FrameTold(f, Ahead(Coming, 0), truth) \/ Outside(f, Unsure')
    PROVE  PictureInv'
<1>1. TruthInv /\ ToldInv /\ LevelInv
  BY DEF PictureInv
<1>2. Picture(ui) /\ Picture(ui') /\ truth \in Truth
  BY ClientIs DEF CInv, PictureOK
<1>3. PictureTrue(ui', truth) /\ \A s \in ui.known : s \in ui'.known \/ s \in truth.dead
  BY <1>1, <1>2, PictureApplied DEF TruthInv
<1>4. /\ ui'.versions = ui.versions
      /\ \A d \in Dms : (f.type = "direct_message" /\ d = f.buf) \/ ui'.revs[d] = ui.revs[d]
      /\ \A s \in ui'.known : s \in ui.known \/ (f.type = "direct_message" /\ s = Owner[f.buf])
  <2>1. CASE f.type = "direct_message"
    <3>1. EffectOfThread(ui, f, ui') /\ f \in DirectFrame
      BY <2>1, FrameTypes DEF Effect
    <3>2. ui.revs[f.buf] \in Int /\ f.rev \in Int
      BY <1>2, <3>1, Revisions DEF DirectFrame
    <3>3. \A s \in ui'.known : s \in ui.known \/ s = Owner[f.buf]
      BY <3>1, <3>2 DEF EffectOfThread, SameServers
    <3> QED
      BY <2>1, <3>1, <3>3 DEF EffectOfThread
  <2>2. CASE f.type = "server:status"
    BY <2>2 DEF Effect, EffectOfStatus, SameThreads
  <2>3. CASE f.type = "buffer:left" /\ f.buf \in Servers
    BY <2>3 DEF Effect, EffectOfRemoval
  <2> QED
    BY <2>1, <2>2, <2>3
<1>5. TruthInv' /\ ToldInv'
  BY <1>3, <1>4, SettledStep
<1>6. Unsure \subseteq Unsure' /\ unsure' \subseteq Unsure'
  BY SettledMoves, UnsureOn DEF Unsure
<1>7. ASSUME link = "joined", ~again, refresh.stage # "sent"
      PROVE  /\ Level(View(ui', refresh), Ahead(Coming, 0), Introduced(Coming, 0), unpublished, Told(calls), Unsure', truth)
             /\ \A s \in truth.live \ Unsure' :
                     /\ s \in View(ui, refresh).known => s \in View(ui', refresh).known
                     /\ s \in ui'.known => s \in View(ui', refresh).known
  <2>1. /\ Level(View(ui, refresh), Ahead(Coming, 0), Introduced(Coming, 0), unpublished, Told(calls), Unsure, truth)
        /\ \A s \in truth.live \ Unsure : s \in ui.known => s \in View(ui, refresh).known
    BY <1>1, <1>7 DEF LevelInv
  <2>2. Level(View(ui, refresh), Ahead(Coming, 0), Introduced(Coming, 0), unpublished, Told(calls), Unsure', truth)
    BY <1>6, <2>1, LooksItself, LevelWeakens
  <2>3. CASE refresh.stage = "answered"
    <3>1. \A d \in Dms : Sure(d, Unsure') => ui'.revs[d] = ui.revs[d]
      BY <1>4, <1>6, <2>3 DEF Sure
    <3>2. /\ Level(View(ui', refresh), Ahead(Coming, 0), Introduced(Coming, 0), unpublished, Told(calls), Unsure', truth)
          /\ View(ui', refresh).known = View(ui, refresh).known
      BY <1>2, <2>2, <2>3, <3>1, ViewStays
    <3>3. \A s \in truth.live \ Unsure' : s \in ui'.known => s \in View(ui, refresh).known
      BY <1>4, <1>6, <1>7, <2>1
    <3> QED
      BY <3>2, <3>3
  <2>4. CASE refresh.stage # "answered"
    <3>1. View(ui, refresh) = ui /\ View(ui', refresh) = ui'
      BY <2>4 DEF View
    <3>2. FrameTold(f, Ahead(Coming, 0), truth) \/ Outside(f, Unsure')
      BY <1>7
    <3>3. f.type = "direct_message" =>
              f \in Told(calls) /\ (Owner[f.buf] \in truth.live \ Unsure' => Owner[f.buf] \in ui.known)
      BY <1>6, <1>7, <3>1
    <3>4. Level(ui', Ahead(Coming, 0), Introduced(Coming, 0), unpublished, Told(calls), Unsure', truth)
      BY <1>1, <2>2, <3>1, <3>2, <3>3, AnswerApplied
    <3>5. \A s \in truth.live : s \in ui.known => s \in ui'.known
      BY <1>1, <1>3 DEF TruthInv, TruthFits
    <3> QED
      BY <3>1, <3>4, <3>5
  <2> QED
    BY <2>3, <2>4
<1>8. LevelInv'
  BY <1>1, <1>7, SettledLevel
<1> QED
  BY <1>5, <1>8 DEF PictureInv

LEMMA DoneRemains ==
    ASSUME NEW c, Done(c)
    PROVE  \A d \in calls' : Remaining(d)
BY DEF Done, Remaining

\* What a thread's answer is.
LEMMA BroughtIs ==
    ASSUME CInv, PictureInv, NEW c \in calls, Brings(c)
    PROVE  /\ c.reply \in DirectFrame /\ c.reply \in Frame /\ c.reply.type = "direct_message" /\ c.reply.buf = c.buf
           /\ c.buf \in Dms /\ c.op \in Telling /\ c.stage = "answered" /\ c.reply \in Told(calls)
           /\ FrameTrue(c.reply, truth)
<1>1. c.op \in Bringing /\ c.stage = "answered" /\ c.op \in Telling
  BY DEF Brings, Telling
<1>2. About(c) /\ Answered(c)
  BY OfTheCall
<1>3. c.reply \in DirectFrame /\ c.reply.buf = c.buf /\ c.buf \in Dms
  BY <1>1, <1>2 DEF Answered, Fits, About, Bringing
<1>4. c.reply \in Frame /\ c.reply.type = "direct_message"
  BY <1>3 DEF Frame, DirectFrame
<1>5. FrameTrue(c.reply, truth)
  BY <1>1 DEF PictureInv, TruthInv, CallTrue
<1> QED
  BY <1>1, <1>3, <1>4, <1>5 DEF Told

LEMMA ThreadEffectLooks ==
    ASSUME NEW u, NEW f, NEW v, NEW w, EffectOfThread(u, f, v), Looks(v, w)
    PROVE  EffectOfThread(u, f, w)
BY DEF EffectOfThread, Looks, SameServers, SameCounts, SameThreads

LEMMA BroughtTaken ==
    ASSUME CInv, PictureInv, CInv', NEW c \in calls, Brings(c), NEW stages, Settled(c, stages), Done(c),
           UNCHANGED <<refresh, again>>,
           unsure' = IF refresh.stage # "idle" THEN unsure \cup {c.buf} ELSE unsure,
           NEW v, v = ApplyDirectMessage(ui, c.reply), Looks(v, ui'),
           c.op = "msg" => Owner[c.buf] \in ui.known
    PROVE  PictureInv'
<1> DEFINE f == c.reply
<1>1. /\ f \in DirectFrame /\ f \in Frame /\ f.type = "direct_message" /\ f.buf = c.buf
      /\ c.buf \in Dms /\ c.op \in Telling /\ c.stage = "answered" /\ f \in Told(calls) /\ FrameTrue(f, truth)
  BY BroughtIs
<1>2. Effect(ui, f, ui')
  <2>1. EffectOfThread(ui, f, v)
    BY <1>1, ClientIs, DirectMessageEffect
  <2>2. EffectOfThread(ui, f, ui')
    BY <2>1, ThreadEffectLooks
  <2> QED
    BY <1>1, <2>2 DEF Effect
<1>3. unsure \subseteq unsure' /\ (refresh.stage = "answered" => f.buf \in unsure')
  BY <1>1
<1>4. link = "joined" => FrameTold(f, Ahead(Coming, 0), truth)
  BY <1>1, ReplyHeads DEF PictureInv
<1>5. link = "joined" /\ ~again /\ refresh.stage # "sent" /\ Owner[f.buf] \in truth.live \ Unsure =>
          Owner[f.buf] \in View(ui, refresh).known
  <2>1. HAVE link = "joined" /\ ~again /\ refresh.stage # "sent" /\ Owner[f.buf] \in truth.live \ Unsure
  <2>2. /\ CallKnown(c, View(ui, refresh), Unsure, truth)
        /\ \A s \in truth.live \ Unsure : s \in ui.known => s \in View(ui, refresh).known
    BY <2>1 DEF PictureInv, LevelInv
  <2>3. CASE c.op = "msg"
    BY <1>1, <2>1, <2>2, <2>3
  <2>4. CASE c.op \in DirectOps
    BY <1>1, <2>1, <2>2, <2>4 DEF CallKnown
  <2> QED
    BY <2>3, <2>4 DEF Brings, Bringing
<1>6. \A d \in calls' : Remaining(d)
  BY DoneRemains
<1> HIDE DEF f
<1> QED
  BY <1>1, <1>2, <1>3, <1>4, <1>5, <1>6, AnswerTaken

LEMMA SettleDirectPictures ==
    ASSUME CInv, PictureInv, CInv', NEW c \in calls, SettleDirect(c)
    PROVE  PictureInv'
<1> DEFINE stages == {"answered", "stale", "refused", "lost"}
<1>1. /\ c.op \in DirectOps /\ Settled(c, stages) /\ Done(c)
      /\ ui' = IF c.stage = "answered" THEN ApplyDirectMessage(ui, c.reply) ELSE ui
  BY DEF SettleDirect
<1> HIDE DEF stages
<1>2. \A d \in calls' : Remaining(d)
  BY <1>1, DoneRemains
<1>3. CASE c.stage = "answered"
  <2>1. UNCHANGED <<refresh, again>> /\ unsure' = IF refresh.stage # "idle" THEN unsure \cup {c.buf} ELSE unsure
    BY <1>3 DEF SettleDirect
  <2>2. Brings(c) /\ c.op # "msg"
    BY <1>1, <1>3 DEF Brings, Bringing, DirectOps
  <2>3. ui' = ApplyDirectMessage(ui, c.reply)
    BY <1>1, <1>3
  <2> QED
    BY <1>1, <2>1, <2>2, <2>3, LooksItself, BroughtTaken
<1>4. CASE c.stage # "answered"
  <2>1. ui' = ui
    BY <1>1, <1>4
  <2>2. (UNCHANGED <<refresh, again>> /\ unsure \subseteq unsure') \/ RequestRefresh(ui)
    BY <1>4 DEF SettleDirect
  <2> QED
    BY <1>1, <1>2, <2>1, <2>2, QuietSettle
<1> QED
  BY <1>3, <1>4

LEMMA SettleMessagePictures ==
    ASSUME CInv, PictureInv, CInv', NEW c \in calls, SettleMessage(c)
    PROVE  PictureInv'
<1> DEFINE stages == {"answered", "refused", "lost"}
           u == ApplyDirectMessage(ui, c.reply)
<1>1. c.op = "msg" /\ Settled(c, stages) /\ Done(c) /\ UNCHANGED <<refresh, again>>
  BY DEF SettleMessage
<1>2. \A d \in calls' : Remaining(d)
  BY <1>1, DoneRemains
<1>3. CASE c.stage = "answered" /\ Owner[c.buf] \in ui.known
  <2>1. /\ ui' \in {u, Select(u, "chat", Owner[c.buf], c.buf)}
        /\ unsure' = IF refresh.stage # "idle" THEN unsure \cup {c.buf} ELSE unsure
    BY <1>3 DEF SettleMessage
  <2>2. Brings(c)
    BY <1>1, <1>3 DEF Brings, Bringing
  <2>3. u \in Ui
    BY <2>2, BroughtIs, ClientIs, ApplyDirectMessageFollows DEF Follows, Picture
  <2>4. Looks(u, ui')
    BY <2>1, <2>3, LooksItself, SelectLooks
  <2> HIDE DEF stages, u
  <2>5. u = ApplyDirectMessage(ui, c.reply)
    BY DEF u
  <2> QED
    BY <1>1, <1>3, <2>1, <2>2, <2>4, <2>5, BroughtTaken
<1>4. CASE ~(c.stage = "answered" /\ Owner[c.buf] \in ui.known)
  <2>1. ui' = ui /\ unsure' = unsure
    BY <1>4 DEF SettleMessage
  <2> HIDE DEF stages, u
  <2> QED
    BY <1>1, <1>2, <2>1, QuietSettle
<1> QED
  BY <1>3, <1>4

LEMMA SettleListingPictures ==
    ASSUME CInv, PictureInv, CInv', NEW c \in calls, SettleListing(c)
    PROVE  PictureInv'
<1>1. /\ Settled(c, {"answered", "refused", "lost"}) /\ Done(c) /\ ui' = ui
      /\ UNCHANGED <<refresh, again>> /\ unsure \subseteq unsure'
  BY DEF SettleListing
<1> QED
  BY <1>1, DoneRemains, QuietSettle

LEMMA StatusAnswer ==
    ASSUME CInv, PictureInv, CInv', NEW c \in calls, c.op \in {"up", "down", "update"}, c.stage = "answered",
           NEW stages, Settled(c, stages), \A d \in calls' : Remaining(d), UNCHANGED <<refresh, again>>,
           ui' = ApplyServerStatus(ui, c.reply), unsure \subseteq unsure', c.op = "update" => c.buf \in unsure'
    PROVE  PictureInv'
<1> DEFINE f == c.reply
<1>1. f \in StatusFrame /\ f.buf = c.buf /\ c.buf \in Servers
  BY OfTheCall DEF Answered, Fits, About
<1>2. f \in Frame /\ f.type = "server:status"
  BY <1>1 DEF Frame, StatusFrame
<1>3. Effect(ui, f, ui')
  BY <1>1, <1>2, ClientIs, StatusFrameEffect DEF Effect
<1>4. FrameTrue(f, truth)
  BY <1>2 DEF FrameTrue
<1>5. link = "joined" => FrameTold(f, Ahead(Coming, 0), truth) \/ Outside(f, Unsure')
  <2>1. CASE c.op = "update"
    <3>1. f.buf \in Unsure' /\ f.buf \notin Buffers
      BY <1>1, <2>1, ClientAssumption DEF Unsure
    <3> QED
      BY <3>1 DEF Outside
  <2>2. CASE c.op \in {"up", "down"}
    BY <2>2, ReplyHeads DEF PictureInv, Telling
  <2> QED
    BY <2>1, <2>2
<1> HIDE DEF f
<1> QED
  BY <1>2, <1>3, <1>4, <1>5, AnswerTaken

LEMMA SettlePlainPictures ==
    ASSUME CInv, PictureInv, CInv', NEW c \in calls, SettlePlain(c)
    PROVE  PictureInv'
<1> DEFINE stages == {"answered", "refused", "lost"}
<1>1. /\ c.op \in {"seen", "leave", "up", "down", "delete"} /\ Settled(c, stages) /\ Done(c)
      /\ UNCHANGED <<refresh, again>> /\ unsure \subseteq unsure'
  BY DEF SettlePlain
<1> HIDE DEF stages
<1>2. \A d \in calls' : Remaining(d)
  BY <1>1, DoneRemains
<1>3. CASE c.stage = "answered" /\ c.op \in {"up", "down"}
  <2>1. ui' = ApplyServerStatus(ui, c.reply)
    BY <1>3 DEF SettlePlain
  <2> QED
    BY <1>1, <1>2, <1>3, <2>1, StatusAnswer
<1>4. CASE c.stage = "answered" /\ c.op = "delete"
  <2> DEFINE f == [type |-> "buffer:left", buf |-> c.buf]
  <2>1. ui' = RemoveServer(ui, c.buf)
    BY <1>4 DEF SettlePlain
  <2>2. c.buf \in Servers
    BY <1>4, OfTheCall DEF About
  <2>3. f \in Frame /\ f.type = "buffer:left" /\ f.buf = c.buf /\ c.buf \notin Channels
    BY <2>2, ClientAssumption DEF Frame, LeftFrame, Buffers
  <2>4. c.buf \in truth.dead /\ Plain(ui)
    BY <1>4 DEF PictureInv, TruthInv, CallTrue, PictureTrue
  <2> HIDE DEF f
  <2>5. Effect(ui, f, ui')
    BY <2>1, <2>2, <2>3, <2>4, ClientIs, RemoveServerEffect DEF Effect
  <2>6. FrameTrue(f, truth)
    BY <2>3, <2>4 DEF FrameTrue
  <2>7. FrameTold(f, Ahead(Coming, 0), truth)
    BY <2>3 DEF FrameTold
  <2> QED
    BY <1>1, <1>2, <2>2, <2>3, <2>5, <2>6, <2>7, AnswerTaken
<1>5. CASE ~(c.stage = "answered" /\ c.op \in {"up", "down", "delete"})
  <2>1. ui' = ui
    BY <1>5 DEF SettlePlain
  <2> QED
    BY <1>1, <1>2, <2>1, QuietSettle
<1> QED
  BY <1>3, <1>4, <1>5

LEMMA SettleUpdatePictures ==
    ASSUME CInv, PictureInv, CInv', NEW c \in calls, SettleUpdate(c)
    PROVE  PictureInv'
<1> DEFINE stages == {"answered", "refused", "lost"}
<1>1. c.op = "update" /\ Settled(c, stages) /\ UNCHANGED <<refresh, again>>
  BY DEF SettleUpdate
<1> HIDE DEF stages
<1>2. CASE c.stage = "answered"
  <2>1. /\ ui' = ApplyServerStatus(ui, c.reply) /\ unsure' = unsure \cup {c.buf}
        /\ \A d \in calls' : d \in calls \/ d = [c EXCEPT !.op = "up", !.stage = "sent", !.reply = None]
    BY <1>2 DEF SettleUpdate
  <2>2. c \in Call /\ c.session <= sessions
    BY OfTheCall DEF PictureInv, TruthInv, CallTrue
  <2>3. \A d \in calls' : Remaining(d)
    BY <2>1, <2>2 DEF Remaining, Call
  <2> QED
    BY <1>1, <1>2, <2>1, <2>3, StatusAnswer
<1>3. CASE c.stage # "answered"
  <2>1. Done(c) /\ ui' = ui /\ unsure' = unsure
    BY <1>3 DEF SettleUpdate
  <2> QED
    BY <1>1, <2>1, DoneRemains, QuietSettle
<1> QED
  BY <1>2, <1>3

\* A frame of an earlier session is left out.
LEMMA OfThisSession ==
    ASSUME CInv, NEW i \in DOMAIN Coming
    PROVE  Coming[i].session = sessions \/ (i <= Len(queue) /\ Outside(Coming[i].frame, Outdated(queue)))
<1>1. queue \in Seq(Held) /\ wire \in Seq(OnWire)
  BY ClientIs
<1>2. Len(queue) \in Nat /\ DOMAIN Coming \subseteq Nat /\ DOMAIN queue = 1..Len(queue) /\ i \in Nat
  BY <1>1, LineIs, ComingIs
<1>3. CASE i > Len(queue)
  <2>1. Coming[i] = [frame |-> wire[i - Len(queue)], session |-> sessions]
    BY <1>1, <1>3, LineIs DEF Coming
  <2> QED
    BY <2>1
<1>4. CASE i <= Len(queue)
  <2>1. DOMAIN Coming = 1..(Len(queue) + Len(wire))
    BY <1>1, LineIs DEF Coming
  <2>2. i \in 1..Len(queue)
    BY <1>2, <1>4, <2>1
  <2>3. Coming[i] = queue[i] /\ i \in DOMAIN queue
    BY <1>1, <1>2, <2>2, LineIs DEF Coming
  <2>4. ASSUME queue[i].session # sessions
        PROVE  Outside(queue[i].frame, Outdated(queue))
    <3> DEFINE bufs == {e.frame.buf : e \in {queue[k] : k \in {n \in DOMAIN queue : queue[n].session # sessions}}}
    <3>1. queue[i] \in {queue[k] : k \in {n \in DOMAIN queue : queue[n].session # sessions}}
      BY <2>3, <2>4
    <3>2. queue[i].frame.buf \in bufs
      BY <3>1
    <3>3. Outdated(queue) = bufs \cup {Owner[b] : b \in bufs \cap Buffers}
      BY DEF Outdated
    <3> HIDE DEF bufs
    <3> QED
      BY <3>2, <3>3 DEF Outside
  <2> QED
    BY <1>4, <2>3, <2>4
<1> QED
  BY <1>2, <1>3, <1>4

LEMMA LevelWith ==
    ASSUME NEW u, NEW G, NEW N, NEW W, NEW R, NEW Z, NEW t, NEW c \in Channels, Level(u, G, N, W, R, Z \cup {c}, t),
           Sure(c, Z) => ChannelFits(u, c, G, t)
    PROVE  Level(u, G, N, W, R, Z, t)
<1>1. /\ \A s \in Servers : s # c
      /\ \A d \in Dms : d # c /\ Owner[d] # c
      /\ \A x \in Channels : Owner[x] # c
  BY ClientAssumption DEF Buffers
<1>2. /\ \A s \in Servers : s \notin Z => s \notin Z \cup {c}
      /\ \A d \in Dms : Sure(d, Z) => Sure(d, Z \cup {c})
      /\ \A x \in Channels : x # c /\ Sure(x, Z) => Sure(x, Z \cup {c})
  BY <1>1 DEF Sure
<1>3. \A x \in Channels : Sure(x, Z) => ChannelFits(u, x, G, t)
  <2> TAKE x \in Channels
  <2>1. CASE x = c
    BY <2>1
  <2>2. CASE x # c
    BY <1>2, <2>2 DEF Level
  <2> QED
    BY <2>1, <2>2
<1> QED
  BY <1>2, <1>3 DEF Level

\* The answer of a join of this session that nothing has rejected since: the
\* channel is there, and if what shows it is still to come, so is its count.
LEMMA JoinedFits ==
    ASSUME CInv, TruthInv, ToldInv, link = "joined", NEW c \in calls, c.op \in GuardedJoins, c.stage = "answered",
           c.session = sessions, ~(ui.versions[c.buf] > c.held), NEW u, u.unread[c.buf] = Absent, Owner[c.buf] \in u.known,
           NEW Z, Outdated(queue) \subseteq Z, Sure(c.buf, Z),
           ChannelFits(u, c.buf, Ahead(Coming, 0), truth),
           NEW N, ServerFits(u, Owner[c.buf], Ahead(Coming, 0), N, truth),
           NEW v, v.unread[c.buf] = 0
    PROVE  ChannelFits(v, c.buf, Ahead(Coming, 0), truth)
<1> DEFINE b == c.buf
           G == Ahead(Coming, 0)
<1>1. b \in truth.joined \/ LeftIn(G, b) \/ Owner[b] \in truth.dead
  <2>1. JoinFits(c, ui, G, truth, Current(c)) /\ Current(c)
    BY DEF ToldInv, Current
  <2>2. JoinHeld(c, ui, G, truth)
    BY <2>1 DEF JoinFits
  <2> QED
    BY <2>2 DEF JoinHeld
<1>2. truth.live \cap truth.dead = {}
  BY DEF TruthInv, TruthFits
<1>3. CASE b \notin truth.joined
  <2>1. Gone(G, b)
    <3>1. Owner[b] \in truth.dead => LeftIn(G, Owner[b])
      BY <1>2 DEF ServerFits
    <3> QED
      BY <1>1, <1>3, <3>1 DEF Gone
  <2> QED
    BY <1>3, <2>1 DEF ChannelFits, CountTold
<1>4. CASE b \in truth.joined
  <2>1. Rejoins(G, b)
    BY <1>4 DEF ChannelFits
  <2>2. PICK i \in Places(Coming, 0) : Coming[i].frame.type = "buffer:joined" /\ Coming[i].frame.buf = b
    BY <2>1 DEF Rejoins, Ahead
  <2>3. i \in DOMAIN Coming /\ ~IsReply(Coming[i].frame)
    BY DEF Places
  <2>4. Coming[i].session = sessions
    BY <2>2, <2>3, OfThisSession DEF Outside, Sure
  <2>5. FrameTold(Coming[i].frame, Ahead(Coming, i), truth)
    BY <2>3, <2>4 DEF ToldInv, FramesTold
  <2>6. DOMAIN Coming \subseteq Nat
    BY ComingIs
  <2>7. Ahead(Coming, i) \subseteq G
    BY <2>3, <2>6, AheadLater
  <2>8. FrameTold(Coming[i].frame, G, truth)
    BY <2>5, <2>7, ToldOfMore
  <2>9. truth.unread[b] = 0 \/ Counts(G, b, truth.unread[b]) \/ Gone(G, b)
    BY <2>2, <2>8 DEF FrameTold, JoinTold
  <2>10. CountTold(b, 0, G, truth)
    BY <2>9 DEF CountTold
  <2> HIDE DEF G, b
  <2>11. v.unread[b] = 0 /\ 0 # Absent
    BY DEF b, Absent
  <2>12. ChannelFits(v, b, G, truth)
    BY <1>4, <2>10, <2>11 DEF ChannelFits
  <2> QED
    BY <2>12 DEF b, G
<1> QED
  BY <1>3, <1>4

LEMMA JoinedTrue ==
    ASSUME NEW u, NEW c, NEW status, NEW update, NEW v, NEW t, PictureTrue(u, t), Owner[c] \in Born(t),
           EffectOfJoined(u, c, status, update, v)
    PROVE  PictureTrue(v, t) /\ v.versions = u.versions /\ v.revs = u.revs
BY DEF PictureTrue, EffectOfJoined, SameThreads, Plain

\* The answer of a join is applied to the picture on show.
LEMMA JoinedLevel ==
    ASSUME CInv, TruthInv, ToldInv, link = "joined", NEW c \in calls, c.op \in Joins, c.stage = "answered",
           NEW Z, JoinUnsure(c) \subseteq Z, Outdated(queue) \subseteq Z, NEW status, NEW v,
           EffectOfJoined(ui, c.buf, status, c.op \in MembershipJoins, v), NEW N, NEW W, NEW R,
           Level(ui, Ahead(Coming, 0), N, W, R, Z, truth)
    PROVE  Level(v, Ahead(Coming, 0), N, W, R, Z, truth)
<1> DEFINE b == c.buf
           G == Ahead(Coming, 0)
<1>1. b \in Channels /\ b \in Buffers /\ b \notin Dms /\ Owner[b] \in Servers
  BY OfTheCall, ClientAssumption DEF About, Buffers
<1>2. /\ v.known = ui.known \cup {Owner[b]}
      /\ \A s \in Servers : s # Owner[b] => v.status[s] = ui.status[s]
      /\ \A x \in Channels : x # b => v.unread[x] = ui.unread[x]
      /\ v.skipped = ui.skipped /\ v.dm = ui.dm /\ v.revs = ui.revs
  BY <1>1 DEF EffectOfJoined, SameThreads
<1>3. v.unread[b] = IF ui.unread[b] = Absent THEN 0 ELSE ui.unread[b]
  BY <1>1 DEF EffectOfJoined
<1>4. CASE Owner[b] \in Z
  <2>1. \A x \in Channels : Sure(x, Z) => x # b
    BY <1>4 DEF Sure
  <2>2. \A s \in Servers : s \notin Z => s # Owner[b]
    BY <1>4
  <2>3. Level(ui, G, N, W, R, Z, truth)
    OBVIOUS
  <2> HIDE DEF b, G
  <2>4. Level(v, G, N, W, R, Z, truth)
    BY <1>2, <2>1, <2>2, <2>3, LevelBeside
  <2> QED
    BY <2>4 DEF G
<1>5. CASE Owner[b] \notin Z
  <2>1. Owner[b] \in ui.known /\ c.op \notin MembershipJoins
    BY <1>5 DEF JoinUnsure
  <2>2. v.known = ui.known /\ \A s \in Servers : v.status[s] = ui.status[s]
    BY <1>1, <1>2, <2>1 DEF EffectOfJoined
  <2>3. Level(v, G, N, W, R, Z \cup {b}, truth)
    <3>1. \A x \in Channels : Sure(x, Z \cup {b}) => x # b
      BY DEF Sure
    <3>2. Level(ui, G, N, W, R, Z, truth)
      OBVIOUS
    <3> HIDE DEF b, G
    <3>3. Z \subseteq Z \cup {b}
      OBVIOUS
    <3>4. Level(ui, G, N, W, R, Z \cup {b}, truth)
      BY <3>2, <3>3, LooksItself, LevelWeakens
    <3> DEFINE Y == Z \cup {b}
    <3>5. /\ \A s \in Servers : s \notin Y => (s \in v.known <=> s \in ui.known)
          /\ \A s \in Servers : s \notin Y /\ s \in ui.known => v.status[s] = ui.status[s]
          /\ \A x \in Channels : Sure(x, Y) => v.unread[x] = ui.unread[x] /\ (x \in v.skipped <=> x \in ui.skipped)
          /\ \A d \in Dms : Sure(d, Y) => v.dm[d] = ui.dm[d] /\ v.revs[d] = ui.revs[d]
      BY <1>2, <2>2, <3>1
    <3>6. Level(ui, G, N, W, R, Y, truth)
      BY <3>4
    <3> HIDE DEF Y
    <3>7. Level(v, G, N, W, R, Y, truth)
      BY <3>5, <3>6, LevelBeside
    <3> QED
      BY <3>7 DEF Y
  <2>4. ASSUME Sure(b, Z)
        PROVE  ChannelFits(v, b, G, truth)
    <3>1. ChannelFits(ui, b, G, truth) /\ ServerFits(ui, Owner[b], G, N, truth)
      BY <1>1, <1>5, <2>4 DEF Level
    <3>2. CASE ui.unread[b] = Absent
      <4>1. c.op \in GuardedJoins /\ c.session = sessions /\ ~(ui.versions[b] > c.held)
        BY <2>4 DEF JoinUnsure, Sure
      <4>2. v.unread[c.buf] = 0
        BY <1>3, <3>2
      <4>3. Owner[c.buf] \in ui.known /\ ui.unread[c.buf] = Absent /\ Sure(c.buf, Z)
        BY <2>1, <2>4, <3>2
      <4> QED
        BY <3>1, <4>1, <4>2, <4>3, JoinedFits
    <3>3. CASE ui.unread[b] # Absent
      <4>1. v.unread[b] = ui.unread[b] /\ v.skipped = ui.skipped
        BY <1>2, <1>3, <3>3
      <4> HIDE DEF b, G
      <4> QED
        BY <3>1, <4>1 DEF ChannelFits
    <3> QED
      BY <3>2, <3>3
  <2> HIDE DEF b, G
  <2>5. Level(v, G, N, W, R, Z, truth)
    BY <1>1, <2>3, <2>4, LevelWith
  <2> QED
    BY <2>5 DEF G
<1> QED
  BY <1>4, <1>5

LEMMA JoinTaken ==
    ASSUME CInv, PictureInv, CInv', NEW c \in calls, c.op \in Joins, c.stage = "answered", NEW stages, Settled(c, stages),
           Done(c), UNCHANGED <<refresh, again>>, unsure' = unsure \cup JoinUnsure(c), NEW status \in Status,
           ui' = ApplyJoined(ui, c.buf, status, c.op \in MembershipJoins)
    PROVE  PictureInv'
<1>1. TruthInv /\ ToldInv /\ LevelInv
  BY DEF PictureInv
<1>2. Picture(ui) /\ Picture(ui') /\ c.buf \in Channels
  BY ClientIs, OfTheCall DEF CInv, PictureOK, About
<1>3. EffectOfJoined(ui, c.buf, status, c.op \in MembershipJoins, ui')
  <2>1. (c.op \in MembershipJoins) \in BOOLEAN
    OBVIOUS
  <2> QED
    BY <1>2, <2>1, ApplyJoinedEffect
<1>4. PictureTrue(ui', truth) /\ ui'.versions = ui.versions /\ ui'.revs = ui.revs
  <2>1. Owner[c.buf] \in Born(truth) /\ PictureTrue(ui, truth)
    BY <1>1 DEF TruthInv, CallTrue
  <2> QED
    BY <1>3, <2>1, JoinedTrue
<1>5. \A d \in calls' : Remaining(d)
  BY DoneRemains
<1>6. TruthInv' /\ ToldInv'
  BY <1>4, <1>5, SettledStep
<1>7. Unsure \subseteq Unsure' /\ unsure' \subseteq Unsure' /\ unsure \subseteq unsure' /\ Outdated(queue) \subseteq Unsure'
  <2>1. Unsure \subseteq Unsure'
    BY SettledMoves, UnsureOn
  <2> QED
    BY <2>1 DEF Unsure
<1>8. ASSUME link = "joined", ~again, refresh.stage # "sent"
      PROVE  /\ Level(View(ui', refresh), Ahead(Coming, 0), Introduced(Coming, 0), unpublished, Told(calls), Unsure', truth)
             /\ \A s \in truth.live \ Unsure' :
                     /\ s \in View(ui, refresh).known => s \in View(ui', refresh).known
                     /\ s \in ui'.known => s \in View(ui', refresh).known
  <2>1. /\ Level(View(ui, refresh), Ahead(Coming, 0), Introduced(Coming, 0), unpublished, Told(calls), Unsure, truth)
        /\ \A s \in truth.live \ Unsure : s \in ui.known => s \in View(ui, refresh).known
    BY <1>1, <1>8 DEF LevelInv
  <2>2. Level(View(ui, refresh), Ahead(Coming, 0), Introduced(Coming, 0), unpublished, Told(calls), Unsure', truth)
    BY <1>7, <2>1, LooksItself, LevelWeakens
  <2>3. ui'.known = ui.known \cup {Owner[c.buf]}
    BY <1>3 DEF EffectOfJoined
  <2>4. CASE refresh.stage = "answered"
    <3>1. /\ Level(View(ui', refresh), Ahead(Coming, 0), Introduced(Coming, 0), unpublished, Told(calls), Unsure', truth)
          /\ View(ui', refresh).known = View(ui, refresh).known
      BY <1>2, <1>4, <2>2, <2>4, ViewStays
    <3>2. Owner[c.buf] \in ui.known \/ Owner[c.buf] \in Unsure'
      BY <1>7 DEF JoinUnsure
    <3>3. \A s \in truth.live \ Unsure' : s \in ui'.known => s \in View(ui, refresh).known
      BY <1>7, <2>1, <2>3, <3>2
    <3> QED
      BY <3>1, <3>3
  <2>5. CASE refresh.stage # "answered"
    <3>1. View(ui, refresh) = ui /\ View(ui', refresh) = ui'
      BY <2>5 DEF View
    <3>2. JoinUnsure(c) \subseteq Unsure'
      BY <1>7
    <3>3. Level(ui', Ahead(Coming, 0), Introduced(Coming, 0), unpublished, Told(calls), Unsure', truth)
      BY <1>1, <1>3, <1>7, <1>8, <2>2, <3>1, <3>2, JoinedLevel
    <3> QED
      BY <2>3, <3>1, <3>3
  <2> QED
    BY <2>4, <2>5
<1>9. LevelInv'
  BY <1>1, <1>5, <1>7, <1>8, SettledLevel
<1> QED
  BY <1>6, <1>9 DEF PictureInv

LEMMA SettleJoinPictures ==
    ASSUME CInv, PictureInv, CInv', NEW c \in calls, SettleJoin(c)
    PROVE  PictureInv'
<1> DEFINE stages == {"answered", "refused", "lost"}
           status == IF c.op \in MembershipJoins THEN c.status ELSE c.reply.status
<1>1. c.op \in Joins /\ Settled(c, stages) /\ Done(c) /\ UNCHANGED <<refresh, again>>
  BY DEF SettleJoin
<1> HIDE DEF stages
<1>2. CASE c.stage # "answered" \/ (c.op \in GuardedJoins /\ RejectedSince(ui, c.buf, c.held))
  <2>1. ui' = ui /\ unsure' = unsure
    BY <1>2 DEF SettleJoin
  <2> QED
    BY <1>1, <2>1, DoneRemains, QuietSettle
<1>3. CASE ~(c.stage # "answered" \/ (c.op \in GuardedJoins /\ RejectedSince(ui, c.buf, c.held)))
  <2>1. /\ ui' = ApplyJoined(ui, c.buf, status, c.op \in MembershipJoins)
        /\ unsure' = unsure \cup JoinUnsure(c)
    BY <1>3 DEF SettleJoin
  <2>2. status \in Status
    BY <1>1, <1>3, OfTheCall DEF About, Answered, Fits, StatusFrame
  <2> HIDE DEF status
  <2> QED
    BY <1>1, <1>3, <2>1, <2>2, JoinTaken
<1> QED
  BY <1>2, <1>3

LEMMA SettlePictures ==
    ASSUME CInv, PictureInv, CInv', NEW c \in calls, Settle(c)
    PROVE  PictureInv'
BY SettleDirectPictures, SettleMessagePictures, SettlePlainPictures, SettleUpdatePictures, SettleJoinPictures,
   SettleListingPictures DEF Settle

-----------------------------------------------------------------------------
(* Frames published and received.                                          *)

LEMMA HeldOn ==
    ASSUME NEW c, NEW u, NEW v, NEW G, NEW H, NEW t, NEW now, G \subseteq H, v.versions = u.versions,
           JoinFits(c, u, G, t, now)
    PROVE  JoinFits(c, v, H, t, now)
<1>1. LeftIn(G, c.buf) => LeftIn(H, c.buf)
  BY DEF LeftIn
<1> QED
  BY <1>1 DEF JoinFits, JoinHeld

LEMMA PublishPictures ==
    ASSUME CInv, PictureInv, CInv', NEW f \in unpublished, PublishDirectMessage(f)
    PROVE  PictureInv'
<1> DEFINE F == IF link = "joined" THEN {f} ELSE {}
           W == unpublished \ {f}
<1>1. TruthInv /\ ToldInv /\ LevelInv
  BY DEF PictureInv
<1>2. /\ unpublished' = W /\ wire' = IF link = "joined" THEN Append(wire, f) ELSE wire
      /\ UNCHANGED <<truth, calls, link, sessions, boot, ui, refresh, again, queue, unsure>>
  BY DEF PublishDirectMessage
<1>3. /\ queue \in Seq(Held) /\ wire \in Seq(OnWire) /\ f \in DirectFrame /\ f \in Frame /\ f.type = "direct_message"
      /\ Picture(ui)
  BY ClientIs DEF DirectFrame
<1>4. Widens(Coming, Coming', F) /\ Tells(Coming, Coming', F, F)
  <2>1. CASE link = "joined"
    <3>1. Append(wire, f) = wire \o <<f>>
      BY <1>3 DEF OnWire
    <3>2. Coming' = Line(queue, wire \o <<f>>, sessions)
      BY <1>2, <2>1, <3>1 DEF Coming
    <3> QED
      BY <1>3, <2>1, <3>2, LineGrows DEF Coming
  <2>2. CASE link # "joined"
    <3>1. Coming' = Coming
      BY <1>2, <2>2 DEF Coming
    <3> QED
      BY <2>2, <3>1, MovedNowhere
  <2> QED
    BY <2>1, <2>2
<1>5. F \subseteq {f} /\ (link = "joined" => F = {f})
  OBVIOUS
<1>6. W \subseteq unpublished /\ \A g \in unpublished : g \in W \/ g = f
  OBVIOUS
<1> HIDE DEF F, W
<1>7. /\ Ahead(Coming', 0) = Ahead(Coming, 0) \cup F
      /\ \A s \in Introduced(Coming, 0) : s \in Introduced(Coming', 0)
  BY <1>4 DEF Widens
<1>8. TruthInv'
  <2>1. \A g \in Ahead(Coming', 0) : g \in Ahead(Coming, 0) \cup unpublished
    BY <1>5, <1>7
  <2>2. PictureTrue(ui', truth) /\ \A c \in calls' : CallTrue(c, truth, sessions)
    BY <1>1, <1>2 DEF TruthInv
  <2> QED
    BY <1>1, <1>2, <1>6, <2>1, <2>2, TruthInvOn
<1>9. ToldInv'
  <2>1. \A g \in F : IsReply(g) \/ \A G : FrameTold(g, G, truth)
    <3>1. Owner[f.buf] \in truth.live
      BY <1>1 DEF TruthInv
    <3>2. \A G : FrameTold(f, G, truth)
      BY <1>3, <3>1 DEF FrameTold, Alive
    <3> QED
      BY <1>5, <3>2
  <2>2. \A c \in calls' : JoinFits(c, ui', Ahead(Coming', 0), truth, Current(c))
    <3> TAKE c \in calls'
    <3>1. JoinFits(c, ui, Ahead(Coming, 0), truth, Current(c))
      BY <1>1, <1>2 DEF ToldInv
    <3>2. Ahead(Coming, 0) \subseteq Ahead(Coming', 0) /\ ui'.versions = ui.versions
      BY <1>2, <1>7
    <3> QED
      BY <3>1, <3>2, HeldOn
  <2>3. \A c \in calls' : c \in calls /\ Reply(c.id) \notin F
    BY <1>2, <1>3, <1>5 DEF Reply
  <2> QED
    BY <1>1, <1>2, <1>4, <2>1, <2>2, <2>3, ToldInvOn
<1>10. LevelInv'
  <2> SUFFICES ASSUME link = "joined", ~again, refresh.stage # "sent"
               PROVE  /\ Level(View(ui, refresh), Ahead(Coming', 0), Introduced(Coming', 0), W, Told(calls), Unsure', truth)
                      /\ \A c \in calls : CallKnown(c, View(ui, refresh), Unsure', truth)
                      /\ \A s \in truth.live \ Unsure' : s \in ui.known => s \in View(ui, refresh).known
    BY <1>2 DEF LevelInv
  <2>1. /\ Level(View(ui, refresh), Ahead(Coming, 0), Introduced(Coming, 0), unpublished, Told(calls), Unsure, truth)
        /\ \A c \in calls : CallKnown(c, View(ui, refresh), Unsure, truth)
        /\ \A s \in truth.live \ Unsure : s \in ui.known => s \in View(ui, refresh).known
    BY <1>1 DEF LevelInv
  <2>2. Unsure \subseteq Unsure'
    BY <1>2, UnsureOn
  <2> DEFINE G == Ahead(Coming, 0)
             H == Ahead(Coming', 0)
             R == Told(calls)
  <2>3. Level(View(ui, refresh), H, Introduced(Coming', 0), W, R, Unsure', truth)
    <3>1. G \subseteq H
      BY <1>7
    <3>2. \A g \in (H \cup W) \cup R : g.type = "direct_message" => g \in (G \cup unpublished) \cup R
      BY <1>5, <1>6, <1>7
    <3>3. \A g \in G \cup unpublished : g.type = "direct_message" => g \in H \cup W
      BY <1>5, <1>6, <1>7
    <3>4. Level(View(ui, refresh), G, Introduced(Coming, 0), unpublished, R, Unsure, truth)
      BY <2>1
    <3> HIDE DEF G, H, R
    <3> QED
      BY <1>7, <2>2, <3>1, <3>2, <3>3, <3>4, LooksItself, LevelWeakens
  <2>4. \A c \in calls : CallKnown(c, View(ui, refresh), Unsure', truth)
    BY <2>1, <2>2 DEF CallKnown
  <2> QED
    BY <2>1, <2>2, <2>3, <2>4
<1> QED
  BY <1>8, <1>9, <1>10 DEF PictureInv

LEMMA AppendIs ==
    ASSUME NEW T, NEW q \in Seq(T), NEW r \in T
    PROVE  /\ DOMAIN Append(q, r) = 1..(Len(q) + 1) /\ Len(q) \in Nat /\ DOMAIN q = 1..Len(q)
           /\ \A i \in 1..Len(q) : Append(q, r)[i] = q[i]
           /\ Append(q, r)[Len(q) + 1] = r
OBVIOUS

LEMMA NextFrame ==
    ASSUME CInv, ReceiveFrame
    PROVE  Head(wire) \in Frame /\ ~IsReply(Head(wire)) /\ wire # <<>>
<1>1. wire # <<>> /\ ~IsReply(Head(wire))
  BY DEF ReceiveFrame, IsReply
<1>2. Head(wire) \in Frame \cup Answers
  BY <1>1, ClientIs, TailIs DEF OnWire
<1> QED
  BY <1>1, <1>2, ReplyIs

LEMMA QueuedPictures ==
    ASSUME CInv, PictureInv, CInv', ReceiveFrame, refresh.stage # "idle"
    PROVE  PictureInv'
<1> DEFINE r == [frame |-> Head(wire), session |-> sessions]
<1>1. TruthInv /\ ToldInv /\ LevelInv
  BY DEF PictureInv
<1>2. /\ wire # <<>> /\ wire' = Tail(wire) /\ queue' = Append(queue, r) /\ ui' = ui
      /\ UNCHANGED <<truth, unpublished, calls, link, sessions, boot, refresh, again, unsure>>
  BY DEF ReceiveFrame
<1>3. queue \in Seq(Held) /\ wire \in Seq(OnWire) /\ sessions \in Nat /\ Picture(ui)
  BY ClientIs
<1>4. r \in Held
  BY <1>3, NextFrame DEF Held
<1>5. r.session = sessions
  OBVIOUS
<1>6. r = [frame |-> Head(wire), session |-> sessions]
  OBVIOUS
<1> HIDE DEF r
<1>7. Coming' = Coming
  <2>1. Line(Append(queue, r), Tail(wire), sessions) = Line(queue, wire, sessions)
    BY <1>2, <1>3, <1>4, <1>6, LineQueued
  <2> QED
    BY <1>2, <2>1 DEF Coming
<1>8. Widens(Coming, Coming', {}) /\ Tells(Coming, Coming', {}, {})
  BY <1>7, MovedNowhere
<1>9. Unsure \subseteq Unsure'
  <2> DEFINE n == sessions
             bufs(q) == {e.frame.buf : e \in {q[i] : i \in {k \in DOMAIN q : q[k].session # n}}}
  <2>1. Outdated(queue) = bufs(queue) \cup {Owner[b] : b \in bufs(queue) \cap Buffers}
    BY DEF Outdated
  <2>2. Outdated(queue)' = bufs(queue') \cup {Owner[b] : b \in bufs(queue') \cap Buffers}
    BY <1>2 DEF Outdated
  <2>3. bufs(queue) \subseteq bufs(queue')
    <3> SUFFICES ASSUME NEW k \in DOMAIN queue, queue[k].session # n
                 PROVE  queue[k].frame.buf \in bufs(queue')
      OBVIOUS
    <3>1. k \in DOMAIN queue' /\ queue'[k] = queue[k]
      BY <1>2, <1>3, <1>4, AppendIs
    <3>2. queue'[k] \in {queue'[i] : i \in {j \in DOMAIN queue' : queue'[j].session # n}}
      BY <3>1
    <3> QED
      BY <3>1, <3>2
  <2> HIDE DEF bufs
  <2> QED
    BY <1>2, <2>1, <2>2, <2>3 DEF Unsure
<1>10. TruthInv'
  <2>1. \A i \in DOMAIN queue' : queue'[i].session <= sessions
    <3> TAKE i \in DOMAIN queue'
    <3>1. DOMAIN queue' = 1..(Len(queue) + 1) /\ Len(queue) \in Nat /\ DOMAIN queue = 1..Len(queue)
      BY <1>2, <1>3, <1>4, AppendIs
    <3>2. CASE i = Len(queue) + 1
      BY <1>2, <1>3, <1>4, <1>5, <3>2, AppendIs
    <3>3. CASE i # Len(queue) + 1
      <4>1. i \in DOMAIN queue
        BY <3>1, <3>3
      <4>2. queue'[i] = queue[i]
        BY <1>2, <1>3, <1>4, <3>1, <4>1, AppendIs
      <4> QED
        BY <1>1, <4>1, <4>2 DEF TruthInv
    <3> QED
      BY <3>2, <3>3
  <2>2. Ahead(Coming, 0)' = Ahead(Coming, 0)
    BY <1>7 DEF Ahead, Places, IsReply
  <2> QED
    BY <1>1, <1>2, <2>1, <2>2 DEF TruthInv
<1>11. ToldInv'
  <2>1. \A c \in calls' : JoinFits(c, ui', Ahead(Coming', 0), truth, Current(c))
    BY <1>1, <1>2, <1>7 DEF ToldInv
  <2> QED
    BY <1>1, <1>2, <1>8, <2>1, ToldInvOn
<1>12. LevelInv'
  <2>1. Looks(ui, ui') /\ Picture(ui')
    BY <1>2, <1>3, LooksItself
  <2> QED
    BY <1>1, <1>2, <1>8, <1>9, <2>1, LevelInvOn
<1> QED
  BY <1>10, <1>11, <1>12 DEF PictureInv

LEMMA AppliedPictures ==
    ASSUME CInv, PictureInv, CInv', ReceiveFrame, refresh.stage = "idle"
    PROVE  PictureInv'
<1> DEFINE f == Head(wire)
           G == Ahead(Coming', 0)
<1>1. TruthInv /\ ToldInv /\ LevelInv
  BY DEF PictureInv
<1>2. /\ wire # <<>> /\ wire' = Tail(wire) /\ ui' = ApplyFrame(ui, f)
      /\ UNCHANGED <<truth, unpublished, calls, link, sessions, boot, refresh, again, queue, unsure>>
  BY DEF ReceiveFrame
<1>3. queue = <<>> /\ ~again
  BY DEF CInv, RefreshOK
<1>4. wire \in Seq(OnWire) /\ Picture(ui) /\ truth \in Truth
  BY ClientIs
<1>5. f \in Frame /\ ~IsReply(f)
  BY NextFrame
<1>6. Coming = Line(<<>>, wire, sessions) /\ Coming' = Line(<<>>, Tail(wire), sessions)
  BY <1>2, <1>3 DEF Coming
<1>7. /\ Len(wire) \in Nat /\ 1 <= Len(wire) /\ DOMAIN Coming = 1..Len(wire)
      /\ Coming[1] = [frame |-> f, session |-> sessions]
      /\ \A i \in 0..(Len(wire) - 1) : Ahead(Coming', i) = Ahead(Coming, i + 1)
      /\ \A s \in Introduced(Coming, 1) : s \in Introduced(Coming', 0)
      /\ Tells(Coming, Coming', {}, {})
  <2> HIDE DEF f
  <2> QED
    BY <1>2, <1>4, <1>6, LineReceived DEF f
<1>8. /\ Ahead(Coming, 0) = {f} \cup G
      /\ \A s \in Introduced(Coming, 0) : JoinsOn(f, s) \/ (~DirectOn(f, s) /\ s \in Introduced(Coming', 0))
  <2>1. 0 \in 0..(Len(wire) - 1) /\ 0 + 1 = 1
    BY <1>7
  <2>2. Coming[0 + 1].frame = f
    BY <1>7, <2>1
  <2>3. /\ Ahead(Coming, 0) = {Coming[0 + 1].frame} \cup Ahead(Coming, 0 + 1)
        /\ \A s \in Introduced(Coming, 0) : \/ JoinsOn(Coming[0 + 1].frame, s)
                                            \/ ~DirectOn(Coming[0 + 1].frame, s) /\ s \in Introduced(Coming, 0 + 1)
    BY <1>5, <1>7, <2>1, <2>2, Advance
  <2>4. Ahead(Coming', 0) = Ahead(Coming, 0 + 1)
    BY <1>7, <2>1
  <2> HIDE DEF f
  <2> QED
    BY <1>7, <2>1, <2>2, <2>3, <2>4
<1> HIDE DEF f, G
<1>9. FrameTrue(f, truth) /\ PictureTrue(ui, truth) /\ Plain(ui)
  BY <1>1, <1>8 DEF TruthInv, PictureTrue
<1>10. Effect(ui, f, ui')
  BY <1>2, <1>4, <1>5, <1>9, FrameEffect
<1>11. PictureTrue(ui', truth) /\ \A s \in ui.known : s \in ui'.known \/ s \in truth.dead
  BY <1>4, <1>5, <1>9, <1>10, PictureApplied
<1>12. Picture(ui') /\ \A c \in calls : CallOK(c)
  BY ClientIs DEF CInv, PictureOK
<1>13. TruthInv'
  <2>1. \A g \in Ahead(Coming', 0) : g \in Ahead(Coming, 0) \cup unpublished
    BY <1>8 DEF G
  <2>2. \A c \in calls' : CallTrue(c, truth, sessions)
    BY <1>1, <1>2 DEF TruthInv
  <2> QED
    BY <1>1, <1>2, <1>11, <2>1, <2>2, TruthInvOn
<1>14. ToldInv'
  <2>1. \A c \in calls' : JoinFits(c, ui', Ahead(Coming', 0), truth, Current(c))
    <3> TAKE c \in calls'
    <3>1. JoinFits(c, ui, {f} \cup G, truth, Current(c))
      BY <1>1, <1>2, <1>8 DEF ToldInv
    <3>2. c.held \in Int /\ (c.op \in GuardedJoins => c.buf \in Channels)
      BY <1>2, <1>12, CallFields DEF CallOK, About, Joins
    <3>3. JoinFits(c, ui', G, truth, Current(c))
      BY <1>4, <1>5, <1>10, <1>12, <3>1, <3>2, JoinApplied
    <3> QED
      BY <3>3 DEF G
  <2> QED
    BY <1>1, <1>2, <1>7, <2>1, ToldInvOn
<1>15. LevelInv'
  <2> SUFFICES ASSUME link = "joined"
               PROVE  /\ Level(ui', Ahead(Coming', 0), Introduced(Coming', 0), unpublished, Told(calls), Unsure', truth)
                      /\ \A c \in calls : CallKnown(c, ui', Unsure', truth)
    BY <1>2 DEF LevelInv, View
  <2>1. /\ Level(ui, {f} \cup G, Introduced(Coming, 0), unpublished, Told(calls), Unsure, truth)
        /\ \A c \in calls : CallKnown(c, ui, Unsure, truth)
    BY <1>1, <1>3, <1>8 DEF LevelInv, View
  <2>2. Unsure' = Unsure
    BY <1>2, <1>3 DEF Unsure, Outdated
  <2>3. FrameTold(f, G, truth)
    <3>1. 1 \in DOMAIN Coming /\ Coming[1].session = sessions /\ Coming[1].frame = f
      BY <1>7
    <3>2. FrameTold(f, Ahead(Coming, 1), truth)
      BY <1>1, <1>5, <3>1 DEF ToldInv, FramesTold
    <3>3. G = Ahead(Coming, 0 + 1) /\ 0 + 1 = 1
      BY <1>7 DEF G
    <3> QED
      BY <3>2, <3>3
  <2>4. /\ G \subseteq Frame /\ unpublished \subseteq Frame /\ Told(calls) \subseteq DirectFrame
        /\ \A g \in G \cup unpublished : FrameTrue(g, truth)
        /\ \A g \in Told(calls) : FrameTrue(g, truth)
        /\ TruthFits(truth)
    BY <1>1, <1>8, ClientIs, ComingIs, TruthIs DEF TruthInv
  <2>5. Level(ui', G, Introduced(Coming', 0), unpublished, Told(calls), Unsure, truth)
    BY <1>4, <1>5, <1>8, <1>9, <1>10, <2>1, <2>3, <2>4, LevelApplied
  <2>6. \A c \in calls : CallKnown(c, ui', Unsure, truth)
    BY <1>11, <2>1, <2>4 DEF CallKnown, TruthFits
  <2> QED
    BY <2>2, <2>5, <2>6 DEF G
<1> QED
  BY <1>13, <1>14, <1>15 DEF PictureInv

LEMMA ReceivePictures ==
    ASSUME CInv, PictureInv, CInv', ReceiveFrame
    PROVE  PictureInv'
BY QueuedPictures, AppliedPictures

-----------------------------------------------------------------------------
(* Snapshots: fetched, applied, and the frames held back applied over them. *)

LEMMA TruthInvRefreshed ==
    ASSUME TruthInv, UNCHANGED <<truth, unpublished, sessions, boot, queue, calls>>, Coming' = Coming,
           PictureTrue(ui', truth), refresh'.stage = "answered" => SnapshotTrue(refresh'.snapshot, truth)
    PROVE  TruthInv'
<1>1. Ahead(Coming, 0)' = Ahead(Coming, 0)
  BY DEF Ahead, Places, IsReply
<1> QED
  BY <1>1 DEF TruthInv

LEMMA ToldInvRefreshed ==
    ASSUME CInv, ToldInv, UNCHANGED <<truth, sessions, link, calls>>, Coming' = Coming, ui'.versions = ui.versions
    PROVE  ToldInv'
<1>1. \A c \in calls' : JoinFits(c, ui', Ahead(Coming', 0), truth, Current(c))
  <2> TAKE c \in calls'
  <2>1. JoinFits(c, ui, Ahead(Coming, 0), truth, Current(c))
    BY DEF ToldInv
  <2> QED
    BY <2>1, HeldOn
<1>2. Tells(Coming, Coming', {}, {})
  BY MovedNowhere
<1> QED
  BY <1>1, <1>2, ToldInvOn

LEMMA RefreshServedPictures ==
    ASSUME CInv, PictureInv, CInv', RefreshServed
    PROVE  PictureInv'
<1>1. TruthInv /\ ToldInv /\ LevelInv
  BY DEF PictureInv
<1>2. /\ UNCHANGED <<truth, unpublished, wire, calls, link, sessions, boot, ui, again, queue, unsure>>
      /\ refresh'.stage = "answered" /\ refresh'.snapshot = truth
  BY DEF RefreshServed, CInv, RefreshOK
<1>3. Coming' = Coming
  BY <1>2 DEF Coming
<1>4. Picture(ui) /\ truth \in Truth /\ PictureTrue(ui, truth) /\ TruthFits(truth)
  BY <1>1, ClientIs DEF TruthInv
<1>5. SnapshotTrue(truth, truth)
  BY <1>4 DEF SnapshotTrue, Born, Truth
<1>6. TruthInv'
  BY <1>1, <1>2, <1>3, <1>4, <1>5, TruthInvRefreshed
<1>7. ToldInv'
  BY <1>1, <1>2, <1>3, ToldInvRefreshed
<1>8. LevelInv'
  <2> DEFINE v == InstallSnapshot(ui, truth)
  <2>1. View(ui', refresh') = v
    BY <1>2 DEF View
  <2>2. v.known = truth.live
    BY <1>4, InstallEffect
  <2>3. Level(v, Ahead(Coming, 0), Introduced(Coming, 0), unpublished, Told(calls), Unsure', truth)
    <3>1. \A g \in (Ahead(Coming, 0) \cup unpublished) \cup Told(calls) : FrameTrue(g, truth)
      BY <1>1, TruthIs
    <3> QED
      BY <1>4, <3>1, LevelInstalled
  <2> HIDE DEF v
  <2>4. \A c \in calls : CallKnown(c, v, Unsure', truth)
    BY <2>2 DEF CallKnown
  <2> QED
    BY <1>2, <1>3, <2>1, <2>2, <2>3, <2>4 DEF LevelInv
<1> QED
  BY <1>6, <1>7, <1>8 DEF PictureInv

LEMMA RefreshAppliedPictures ==
    ASSUME CInv, PictureInv, CInv', RefreshApplied
    PROVE  PictureInv'
<1> DEFINE x == InstallSnapshot(ui, refresh.snapshot)
<1>1. TruthInv /\ ToldInv /\ LevelInv
  BY DEF PictureInv
<1>2. /\ refresh.stage = "answered" /\ ui' = Reselect(x, refresh.selected, TRUE)
      /\ UNCHANGED <<truth, unpublished, wire, calls, link, sessions, boot, again, queue, unsure>>
      /\ refresh'.stage = "reconciling"
  BY DEF RefreshApplied, ApplyBootstrap, NoRefresh
<1>3. Coming' = Coming /\ Unsure' = Unsure
  BY <1>2 DEF Coming, Unsure, Outdated
<1>4. View(ui, refresh) = x /\ View(ui', refresh') = ui'
  BY <1>2 DEF View
<1>5. Picture(x) /\ PictureTrue(x, truth)
  BY <1>1, <1>4, TruthIs
<1>6. x.versions = ui.versions
  BY <1>2, ClientIs, InstallEffect
<1> HIDE DEF x
<1>7. Looks(x, ui')
  BY <1>2, <1>5, ReselectLooks
<1>8. PictureTrue(ui', truth) /\ ui'.versions = ui.versions
  BY <1>5, <1>6, <1>7, PlainLooks DEF PictureTrue, Looks, SameServers, SameThreads
<1>9. TruthInv'
  BY <1>1, <1>2, <1>3, <1>8, TruthInvRefreshed
<1>10. ToldInv'
  BY <1>1, <1>2, <1>3, <1>8, ToldInvRefreshed
<1>11. LevelInv'
  <2> SUFFICES ASSUME link = "joined", ~again
               PROVE  /\ Level(ui', Ahead(Coming, 0), Introduced(Coming, 0), unpublished, Told(calls), Unsure, truth)
                      /\ \A c \in calls : CallKnown(c, ui', Unsure, truth)
    BY <1>2, <1>3, <1>4 DEF LevelInv
  <2>1. /\ Level(x, Ahead(Coming, 0), Introduced(Coming, 0), unpublished, Told(calls), Unsure, truth)
        /\ \A c \in calls : CallKnown(c, x, Unsure, truth)
    BY <1>1, <1>2, <1>4 DEF LevelInv
  <2>2. Level(ui', Ahead(Coming, 0), Introduced(Coming, 0), unpublished, Told(calls), Unsure, truth)
    BY <1>7, <2>1, LevelWeakens
  <2> QED
    BY <1>7, <2>1, <2>2 DEF CallKnown, Looks, SameServers
<1> QED
  BY <1>9, <1>10, <1>11 DEF PictureInv

LEMMA RefreshFailsPictures ==
    ASSUME CInv, PictureInv, CInv', RefreshFails
    PROVE  PictureInv'
<1>1. TruthInv /\ ToldInv
  BY DEF PictureInv
<1>2. /\ UNCHANGED <<truth, unpublished, wire, calls, link, sessions, boot, ui, again, queue>>
      /\ unsure' = unsure \cup Servers \cup Buffers /\ refresh'.stage = "reconciling"
  BY DEF RefreshFails, NoRefresh
<1>3. Coming' = Coming
  BY <1>2 DEF Coming
<1>4. TruthInv'
  BY <1>1, <1>2, <1>3, TruthInvRefreshed DEF TruthInv
<1>5. ToldInv'
  BY <1>1, <1>2, <1>3, ToldInvRefreshed
<1>6. LevelInv'
  <2>1. Servers \subseteq Unsure' /\ Buffers \subseteq Unsure' /\ truth \in Truth
    BY <1>2, ClientIs DEF Unsure
  <2>2. \A b \in Buffers : ~Sure(b, Unsure')
    BY <2>1 DEF Sure
  <2>3. \A u, G, N, W, R : Level(u, G, N, W, R, Unsure', truth)
    BY <2>1, <2>2 DEF Level, Buffers
  <2>4. truth.live \ Unsure' = {}
    BY <2>1 DEF Truth
  <2> QED
    BY <1>2, <2>3, <2>4 DEF LevelInv, CallKnown
<1> QED
  BY <1>4, <1>5, <1>6 DEF PictureInv

\* The picture v after the first i of the frames held back.
Stands(v, i) ==
    /\ Picture(v) /\ PictureTrue(v, truth)
    /\ \A c \in calls : JoinFits(c, v, Ahead(Coming, i), truth, Current(c))
    /\ link = "joined" =>
         Level(v, Ahead(Coming, i), Introduced(Coming, i), unpublished, Told(calls), Unsure, truth)
    /\ \A s \in truth.live : s \in ui.known => s \in v.known

LEMMA StandsOn ==
    ASSUME CInv, TruthInv, ToldInv, NEW i \in 1..Len(queue), NEW v, Stands(v, i - 1)
    PROVE  Stands(ApplyFrame(v, queue[i].frame), i)
<1> DEFINE f == queue[i].frame
           w == ApplyFrame(v, f)
           G == Ahead(Coming, i)
           N == Introduced(Coming, i - 1)
           M == Introduced(Coming, i)
<1>1. queue \in Seq(Held) /\ wire \in Seq(OnWire) /\ truth \in Truth /\ TruthFits(truth)
  BY ClientIs DEF TruthInv
<1>2. /\ Len(queue) \in Nat /\ Len(wire) \in Nat /\ Len(queue) + Len(wire) \in Nat
      /\ DOMAIN Coming = 1..(Len(queue) + Len(wire)) /\ Coming[i] = queue[i] /\ queue[i] \in Held /\ i \in DOMAIN Coming
  BY <1>1, LineIs DEF Coming
<1>3. f \in Frame /\ ~IsReply(f)
  BY <1>2, FramesAreNoReplies DEF Held
<1>4. i - 1 \in 0..(Len(queue) + Len(wire) - 1) /\ (i - 1) + 1 = i
  BY <1>2
<1>5. /\ Ahead(Coming, i - 1) = {f} \cup G
      /\ \A s \in N : JoinsOn(f, s) \/ (~DirectOn(f, s) /\ s \in M)
  <2> DEFINE k == i - 1
             n == Len(queue) + Len(wire)
  <2>1. n \in Nat /\ DOMAIN Coming = 1..n /\ k \in 0..(n - 1) /\ ~IsReply(Coming[k + 1].frame)
    BY <1>2, <1>3, <1>4
  <2>2. k + 1 = i /\ Coming[i].frame = f
    BY <1>2, <1>4
  <2> HIDE DEF n, f
  <2>3. /\ Ahead(Coming, k) = {Coming[k + 1].frame} \cup Ahead(Coming, k + 1)
        /\ \A s \in Introduced(Coming, k) : \/ JoinsOn(Coming[k + 1].frame, s)
                                            \/ ~DirectOn(Coming[k + 1].frame, s) /\ s \in Introduced(Coming, k + 1)
    <3> HIDE DEF k
    <3> QED
      BY <2>1, Advance
  <2> QED
    BY <2>2, <2>3
<1>6. Ahead(Coming, i - 1) \subseteq Ahead(Coming, 0) /\ Ahead(Coming, 0) \subseteq Frame
  <2>1. DOMAIN Coming \subseteq Nat /\ 0 \in Int /\ i - 1 \in Int /\ 0 <= i - 1
    BY <1>4, ComingIs
  <2> QED
    BY <2>1, AheadLater, ComingIs
<1>7. Coming[i].session = sessions \/ Outside(f, Outdated(queue))
  BY <1>2, OfThisSession
<1>8. FrameTrue(f, truth) /\ \A g \in G : FrameTrue(g, truth)
  BY <1>5, <1>6 DEF TruthInv
<1>9. Coming[i].frame = f
  BY <1>2
<1>10. /\ Picture(v) /\ PictureTrue(v, truth) /\ Plain(v)
       /\ \A c \in calls : JoinFits(c, v, Ahead(Coming, i - 1), truth, Current(c))
       /\ link = "joined" => Level(v, Ahead(Coming, i - 1), N, unpublished, Told(calls), Unsure, truth)
       /\ \A s \in truth.live : s \in ui.known => s \in v.known
  BY DEF Stands, PictureTrue
<1> HIDE DEF f, G, N, M
<1>11. Picture(w)
  BY <1>3, <1>10, ApplyFrameFollows DEF Follows
<1>12. Effect(v, f, w)
  BY <1>3, <1>10, FrameEffect
<1> HIDE DEF w
<1>13. PictureTrue(w, truth) /\ \A s \in v.known : s \in w.known \/ s \in truth.dead
  BY <1>1, <1>3, <1>8, <1>10, <1>12, PictureApplied
<1>14. \A c \in calls : JoinFits(c, w, G, truth, Current(c))
  <2> TAKE c \in calls
  <2>1. JoinFits(c, v, {f} \cup G, truth, Current(c))
    BY <1>5, <1>10
  <2>2. c.held \in Int /\ (c.op \in GuardedJoins => c.buf \in Channels)
    BY ClientIs, CallFields DEF CallOK, About, Joins
  <2> QED
    BY <1>3, <1>10, <1>11, <1>12, <2>1, <2>2, JoinApplied
<1>15. ASSUME link = "joined"
       PROVE  Level(w, G, M, unpublished, Told(calls), Unsure, truth)
  <2>1. Level(v, {f} \cup G, N, unpublished, Told(calls), Unsure, truth)
    BY <1>5, <1>10, <1>15
  <2>2. FrameTold(f, G, truth) \/ Outside(f, Unsure)
    <3>1. CASE Coming[i].session = sessions
      BY <1>2, <1>3, <1>9, <1>15, <3>1 DEF ToldInv, FramesTold, G
    <3>2. CASE Outside(f, Outdated(queue))
      BY <3>2 DEF Outside, Unsure
    <3> QED
      BY <1>7, <3>1, <3>2
  <2>3. /\ G \subseteq Frame /\ unpublished \subseteq Frame /\ Told(calls) \subseteq DirectFrame
        /\ \A g \in G \cup unpublished : FrameTrue(g, truth)
        /\ \A g \in Told(calls) : FrameTrue(g, truth)
    BY <1>5, <1>6, <1>8, ClientIs, TruthIs
  <2> QED
    BY <1>1, <1>3, <1>5, <1>8, <1>10, <1>12, <2>1, <2>2, <2>3, LevelApplied
<1>16. \A s \in truth.live : s \in ui.known => s \in w.known
  BY <1>1, <1>10, <1>13 DEF TruthFits
<1> QED
  BY <1>11, <1>13, <1>14, <1>15, <1>16 DEF Stands, w, f, G, M

LEMMA StandsAtFirst ==
    ASSUME CInv, PictureInv, refresh.stage = "reconciling", ~again
    PROVE  Stands(ui, 0)
<1>1. Picture(ui) /\ PictureTrue(ui, truth)
  BY ClientIs DEF PictureInv, TruthInv
<1>2. \A c \in calls : JoinFits(c, ui, Ahead(Coming, 0), truth, Current(c))
  BY DEF PictureInv, ToldInv
<1>3. link = "joined" =>
         Level(ui, Ahead(Coming, 0), Introduced(Coming, 0), unpublished, Told(calls), Unsure, truth)
  BY DEF PictureInv, LevelInv, View
<1> QED
  BY <1>1, <1>2, <1>3 DEF Stands

LEMMA StandsAtLast ==
    ASSUME CInv, PictureInv, refresh.stage = "reconciling", ~again
    PROVE  Stands(ApplyFrames(ui, queue), Len(queue))
<1> DEFINE S == [i \in 0..Len(queue) |-> {v \in Ui : Stands(v, i)}]
<1>1. TruthInv /\ ToldInv
  BY DEF PictureInv
<1>2. Len(queue) \in Nat
  BY ClientIs
<1>3. ui \in S[0]
  BY <1>2, StandsAtFirst, ClientIs DEF Picture
<1>4. ASSUME NEW i \in 1..Len(queue), NEW v \in S[i - 1]
      PROVE  ApplyFrame(v, queue[i].frame) \in S[i]
  <2>1. i - 1 \in 0..Len(queue) /\ i \in 0..Len(queue)
    BY <1>2
  <2>2. Stands(v, i - 1)
    BY <2>1
  <2>3. Stands(ApplyFrame(v, queue[i].frame), i)
    BY <1>1, <2>2, StandsOn
  <2>4. ApplyFrame(v, queue[i].frame) \in Ui
    BY <2>3 DEF Stands, Picture
  <2> QED
    BY <2>1, <2>3, <2>4
<1>5. ApplyFrames(ui, queue) \in S[Len(queue)]
  <2> HIDE DEF S
  <2> QED
    BY <1>2, <1>3, <1>4, FramesRun
<1>6. Len(queue) \in 0..Len(queue)
  BY <1>2
<1> QED
  BY <1>5, <1>6

LEMMA DrainedPictures ==
    ASSUME CInv, PictureInv, CInv', RefreshSettles, ~again
    PROVE  PictureInv'
<1> DEFINE n == Len(queue)
<1>1. TruthInv /\ ToldInv /\ LevelInv
  BY DEF PictureInv
<1>2. /\ refresh.stage = "reconciling" /\ refresh'.stage = "idle" /\ refresh' = NoRefresh
      /\ ui' = ApplyFrames(ui, queue) /\ queue' = <<>> /\ unsure' = unsure \cup Outdated(queue)
      /\ UNCHANGED <<truth, unpublished, wire, calls, link, sessions, boot, again>>
  BY DEF RefreshSettles, NoRefresh
<1>3. Stands(ui', n)
  BY <1>2, StandsAtLast
<1>4. queue \in Seq(Held) /\ wire \in Seq(OnWire) /\ Len(queue) \in Nat /\ Len(wire) \in Nat
  BY ClientIs
<1>5. Coming' = Line(<<>>, wire, sessions)
  BY <1>2 DEF Coming
<1>6. /\ Ahead(Coming', 0) = Ahead(Coming, n)
      /\ \A s \in Introduced(Coming, n) : s \in Introduced(Coming', 0)
      /\ Tells(Coming, Coming', {}, {})
  <2>1. 0 \in 0..Len(wire) /\ 0 + n = n
    BY <1>4
  <2>2. /\ \A i \in 0..Len(wire) : Ahead(Coming', i) = Ahead(Coming, i + n)
        /\ \A s \in Introduced(Coming, n) : s \in Introduced(Coming', 0)
        /\ Tells(Coming, Coming', {}, {})
    BY <1>4, <1>5, LineDrained DEF Coming
  <2> QED
    BY <2>1, <2>2
<1>7. Ahead(Coming, n) \subseteq Ahead(Coming, 0)
  <2>1. DOMAIN Coming \subseteq Nat /\ 0 \in Int /\ n \in Int /\ 0 <= n
    BY <1>4, ComingIs
  <2> QED
    BY <2>1, AheadLater
<1> HIDE DEF n
<1>8. /\ Picture(ui') /\ PictureTrue(ui', truth)
      /\ \A c \in calls : JoinFits(c, ui', Ahead(Coming, n), truth, Current(c))
      /\ link = "joined" => Level(ui', Ahead(Coming, n), Introduced(Coming, n), unpublished, Told(calls), Unsure, truth)
      /\ \A s \in truth.live : s \in ui.known => s \in ui'.known
  BY <1>3 DEF Stands
<1>9. TruthInv'
  <2>1. Ahead(Coming, 0)' = Ahead(Coming', 0)
    BY DEF Ahead, Places, IsReply
  <2>2. \A f \in Ahead(Coming, 0)' : FrameTrue(f, truth)
    BY <1>1, <1>6, <1>7, <2>1 DEF TruthInv
  <2>3. \A i \in DOMAIN queue' : queue'[i].session <= sessions
    BY <1>2
  <2> QED
    BY <1>1, <1>2, <1>8, <2>2, <2>3 DEF TruthInv
<1>10. ToldInv'
  <2>1. \A c \in calls' : JoinFits(c, ui', Ahead(Coming', 0), truth, Current(c))
    BY <1>2, <1>6, <1>8
  <2> QED
    BY <1>1, <1>2, <1>6, <2>1, ToldInvOn
<1>11. LevelInv'
  <2> SUFFICES ASSUME link = "joined"
               PROVE  /\ Level(ui', Ahead(Coming', 0), Introduced(Coming', 0), unpublished, Told(calls), Unsure', truth)
                      /\ \A c \in calls : CallKnown(c, ui', Unsure', truth)
    BY <1>2 DEF LevelInv, View
  <2>1. Unsure \subseteq Unsure'
    BY <1>2 DEF Unsure
  <2>2. \A c \in calls : CallKnown(c, ui, Unsure, truth)
    BY <1>1, <1>2 DEF LevelInv, View
  <2>3. Level(ui', Ahead(Coming', 0), Introduced(Coming', 0), unpublished, Told(calls), Unsure', truth)
    BY <1>6, <1>8, <2>1, LooksItself, LevelWeakens
  <2> QED
    BY <1>8, <2>1, <2>2, <2>3 DEF CallKnown
<1> QED
  BY <1>9, <1>10, <1>11 DEF PictureInv

LEMMA RefreshSettlesPictures ==
    ASSUME CInv, PictureInv, CInv', RefreshSettles
    PROVE  PictureInv'
<1>1. CASE again
  <2>1. /\ refresh'.stage = "sent"
        /\ UNCHANGED <<truth, unpublished, wire, calls, link, sessions, boot, ui, queue>>
    BY <1>1 DEF RefreshSettles
  <2>2. Coming' = Coming
    BY <2>1 DEF Coming
  <2>3. TruthInv'
    BY <2>1, <2>2, TruthInvRefreshed DEF PictureInv, TruthInv
  <2>4. ToldInv'
    BY <2>1, <2>2, ToldInvRefreshed DEF PictureInv
  <2>5. LevelInv'
    BY <2>1 DEF LevelInv
  <2> QED
    BY <2>3, <2>4, <2>5 DEF PictureInv
<1>2. CASE ~again
  BY <1>2, DrainedPictures
<1> QED
  BY <1>1, <1>2

-----------------------------------------------------------------------------
(* The first bootstrap, connections made and lost.                         *)

LEMMA BootServedPictures ==
    ASSUME CInv, PictureInv, CInv', BootServed
    PROVE  PictureInv'
<1>1. TruthInv /\ ToldInv /\ LevelInv
  BY DEF PictureInv
<1>2. /\ UNCHANGED <<truth, unpublished, wire, calls, link, sessions, ui, refresh, again, queue, unsure>>
      /\ boot'.snapshot = truth
  BY DEF BootServed
<1>3. Coming' = Coming /\ Unsure \subseteq Unsure'
  BY <1>2, UnsureOn DEF Coming
<1>4. TruthInv'
  <2>1. Ahead(Coming, 0)' = Ahead(Coming, 0)
    BY <1>3 DEF Ahead, Places, IsReply
  <2>2. SnapshotTrue(truth, truth)
    BY ClientIs DEF SnapshotTrue, Born, Truth
  <2> QED
    BY <1>1, <1>2, <2>1, <2>2 DEF TruthInv
<1>5. ToldInv'
  BY <1>1, <1>2, <1>3, ToldInvRefreshed
<1>6. LevelInv'
  BY <1>1, <1>2, <1>3, ClientIs, LooksItself, MovedNowhere, LevelInvOn
<1> QED
  BY <1>4, <1>5, <1>6 DEF PictureInv

\* Without a subscription the picture only has to be true, not level.
StillCalled(d, c) ==
    /\ d.op = c.op /\ d.buf = c.buf /\ d.held = c.held /\ d.session = c.session
    /\ d.stage = "answered" => c.stage = "answered" /\ d.reply = c.reply

LEMMA Offline ==
    ASSUME CInv, PictureInv, link' # "joined", UNCHANGED <<truth, unpublished, sessions, refresh, queue>>,
           boot' = boot \/ boot'.stage # "answered", PictureTrue(ui', truth), ui'.versions = ui.versions,
           Ahead(Coming', 0) \subseteq Ahead(Coming, 0), \A d \in calls' : \E c \in calls : StillCalled(d, c)
    PROVE  PictureInv'
<1>1. TruthInv /\ ToldInv
  BY DEF PictureInv
<1>2. TruthInv'
  <2>1. Ahead(Coming, 0)' = Ahead(Coming', 0)
    BY DEF Ahead, Places, IsReply
  <2>2. \A d \in calls' : CallTrue(d, truth, sessions)
    <3> SUFFICES ASSUME NEW d \in calls', NEW c \in calls, StillCalled(d, c)
                 PROVE  CallTrue(d, truth, sessions)
      OBVIOUS
    <3>1. CallTrue(c, truth, sessions)
      BY <1>1 DEF TruthInv
    <3> QED
      BY <3>1 DEF CallTrue, StillCalled
  <2>3. \A f \in Ahead(Coming, 0)' : FrameTrue(f, truth)
    BY <1>1, <2>1 DEF TruthInv
  <2> QED
    BY <1>1, <2>2, <2>3 DEF TruthInv
<1>3. ToldInv'
  <2>1. \A d \in calls' : d.op \in GuardedJoins => d.held <= ui'.versions[d.buf]
    <3> SUFFICES ASSUME NEW d \in calls', NEW c \in calls, StillCalled(d, c), d.op \in GuardedJoins
                 PROVE  d.held <= ui'.versions[d.buf]
      OBVIOUS
    <3>1. c.held <= ui.versions[c.buf]
      BY <1>1 DEF ToldInv, JoinFits, StillCalled
    <3> QED
      BY <3>1 DEF StillCalled
  <2> QED
    BY <2>1 DEF ToldInv, JoinFits, Current
<1>4. LevelInv'
  BY DEF LevelInv
<1> QED
  BY <1>2, <1>3, <1>4 DEF PictureInv

LEMMA StillItself ==
    ASSUME NEW cs
    PROVE  \A d \in cs : \E c \in cs : StillCalled(d, c)
BY DEF StillCalled

LEMMA BootAppliedPictures ==
    ASSUME CInv, PictureInv, CInv', BootApplied
    PROVE  PictureInv'
<1> DEFINE x == InstallSnapshot(ui, boot.snapshot)
<1>1. /\ boot.stage = "answered" /\ boot'.stage = "ready" /\ link' = "joining" /\ ui' = Reselect(x, None, FALSE)
      /\ UNCHANGED <<truth, unpublished, wire, calls, sessions, refresh, again, queue, unsure>>
  BY DEF BootApplied, ApplyBootstrap
<1>2. Picture(ui) /\ truth \in Truth /\ boot.snapshot \in Truth
  BY <1>1, ClientIs
<1>3. PictureTrue(ui, truth) /\ SnapshotTrue(boot.snapshot, truth)
  BY <1>1 DEF PictureInv, TruthInv
<1>4. PictureTrue(x, truth) /\ Picture(x) /\ x.versions = ui.versions
  BY <1>2, <1>3, InstallTrue, InstallKeeps, InstallEffect
<1> HIDE DEF x
<1>5. Looks(x, ui')
  BY <1>1, <1>4, ReselectLooks
<1>6. PictureTrue(ui', truth) /\ ui'.versions = ui.versions
  BY <1>4, <1>5, PlainLooks DEF PictureTrue, Looks, SameServers, SameThreads
<1>7. Coming' = Coming
  BY <1>1 DEF Coming
<1> QED
  BY <1>1, <1>6, <1>7, StillItself, Offline

LEMMA LinkMovesPictures ==
    ASSUME CInv, PictureInv, CInv', JoinFails \/ SocketOpens \/ RetryRealtimeConnection
    PROVE  PictureInv'
<1>1. /\ link' # "joined"
      /\ UNCHANGED <<truth, unpublished, wire, calls, sessions, boot, ui, refresh, again, queue, unsure>>
  BY DEF JoinFails, SocketOpens, RetryRealtimeConnection
<1>2. Coming' = Coming /\ PictureTrue(ui', truth)
  BY <1>1 DEF Coming, PictureInv, TruthInv
<1> QED
  BY <1>1, <1>2, StillItself, Offline

LEMMA LinkLostPictures ==
    ASSUME CInv, PictureInv, CInv', SocketCloses \/ ChannelCloses
    PROVE  PictureInv'
<1> DEFINE L(c) == IF c.op \in Pushes THEN Staged(c, "lost", None) ELSE c
<1>1. /\ link' # "joined" /\ wire' = <<>> /\ calls' = {L(c) : c \in calls}
      /\ UNCHANGED <<truth, unpublished, sessions, boot, ui, refresh, again, queue, unsure>>
  BY DEF SocketCloses, ChannelCloses, LinkLost, Staged
<1>2. \A d \in calls' : \E c \in calls : StillCalled(d, c)
  <2>1. \A c \in calls : StillCalled(L(c), c)
    <3> SUFFICES ASSUME NEW c \in calls
                 PROVE  StillCalled(L(c), c)
      OBVIOUS
    <3>1. StillCalled(c, c)
      BY DEF StillCalled
    <3>2. StillCalled(Staged(c, "lost", None), c)
      BY ClientIs, StagedIs DEF StillCalled
    <3> QED
      BY <3>1, <3>2
  <2> HIDE DEF L
  <2> QED
    BY <1>1, <2>1
<1> HIDE DEF L
<1>3. Ahead(Coming', 0) \subseteq Ahead(Coming, 0)
  <2> DEFINE e == <<>>
             l == Coming
             m == Line(queue, e, sessions)
  <2>1. Coming' = m
    BY <1>1 DEF Coming
  <2>2. queue \in Seq(Held) /\ wire \in Seq(OnWire) /\ e \in Seq(OnWire)
    BY ClientIs
  <2>e. Len(e) = 0
    OBVIOUS
  <2> HIDE DEF e
  <2>3. /\ Len(queue) \in Nat /\ DOMAIN m = 1..(Len(queue) + 0)
        /\ \A i \in 1..Len(queue) : i \in DOMAIN m /\ m[i] = queue[i]
    <3> DEFINE q == queue
               t == Line(q, e, sessions)
    <3>1. q \in Seq(Held) /\ e \in Seq(OnWire)
      BY <2>2
    <3> HIDE DEF q
    <3>2. /\ Len(q) \in Nat /\ DOMAIN t = 1..(Len(q) + Len(e))
          /\ \A i \in 1..Len(q) : i \in DOMAIN t /\ t[i] = q[i]
      BY ONLY <3>1, LineIs
    <3>3. DOMAIN t = 1..(Len(q) + 0)
      BY <3>2, <2>e
    <3> QED
      BY <3>2, <3>3 DEF q
  <2>4. \A i \in 1..Len(queue) : i \in DOMAIN l /\ l[i] = queue[i]
    BY <2>2, LineIs DEF Coming
  <2> HIDE DEF l, m
  <2>5. \A i \in DOMAIN m : i \in DOMAIN l /\ m[i] = l[i]
    BY <2>3, <2>4
  <2>6. Ahead(m, 0) \subseteq Ahead(l, 0)
    BY <2>5 DEF Ahead, Places
  <2> QED
    BY <2>1, <2>6 DEF l
<1>4. PictureTrue(ui', truth)
  BY <1>1 DEF PictureInv, TruthInv
<1> QED
  BY <1>1, <1>2, <1>3, <1>4, Offline

LEMMA StatusesAsTheyAre ==
    ASSUME truth \in Truth, NEW S \in SUBSET Servers
    PROVE  \A i \in DOMAIN StatusFrames(S) : /\ StatusFrames(S)[i].type = "server:status"
                                             /\ StatusFrames(S)[i].status = truth.status[StatusFrames(S)[i].buf]
<1> DEFINE places == {i \in DOMAIN Order : Order[i] \in S}
           At(n) == Order[Nth(places, n)]
           F(n) == [type |-> "server:status", buf |-> At(n), status |-> truth.status[At(n)]]
<1>1. StatusFrames(S) = [n \in 1..Cardinality(places) |-> F(n)]
  BY DEF StatusFrames
<1>2. \A n : F(n).type = "server:status" /\ F(n).status = truth.status[F(n).buf]
  <2> HIDE DEF At
  <2> QED
    OBVIOUS
<1> HIDE DEF F, places
<1> QED
  BY <1>1, <1>2

LEMMA JoinOkPictures ==
    ASSUME CInv, PictureInv, CInv', JoinOk
    PROVE  PictureInv'
<1> DEFINE w == StatusFrames(truth.live)
           n == sessions + 1
           q == queue
           l == Line(q, w, n)
<1>1. /\ link' = "joined" /\ sessions' = n /\ wire' = w /\ RequestRefresh(ui) /\ link # "joined"
      /\ UNCHANGED <<truth, unpublished, calls, boot, ui, queue>>
  BY DEF JoinOk
<1>2. TruthInv /\ ToldInv
  BY DEF PictureInv
<1>3. sessions \in Nat /\ truth \in Truth /\ truth.live \in SUBSET Servers /\ q \in Seq(Held) /\ wire \in Seq(OnWire)
  BY ClientIs DEF Truth
<1>4. w \in Seq(Frame) /\ \A i \in DOMAIN w : w[i].type = "server:status" /\ w[i].status = truth.status[w[i].buf]
  BY <1>3, StatusFramesAre, StatusesAsTheyAre
<1>5. Coming' = l
  BY <1>1 DEF Coming
<1> HIDE DEF w
<1>6. /\ w \in Seq(OnWire) /\ \A i \in 1..Len(w) : w[i] \in Frame /\ i \in DOMAIN w
  BY <1>4, Elements DEF OnWire
<1>7. \A i \in 1..Len(q) : q[i].session \in Nat /\ q[i].session <= sessions /\ q[i].frame \in Frame /\ i \in DOMAIN q
  <2>1. \A i \in 1..Len(q) : i \in DOMAIN q /\ q[i] \in Held
    BY <1>3, Elements
  <2>2. \A i \in DOMAIN q : q[i].session <= sessions
    BY <1>2 DEF TruthInv
  <2> QED
    BY <2>1, <2>2 DEF Held
<1> HIDE DEF n, q
<1>8. /\ DOMAIN l = 1..(Len(q) + Len(w)) /\ Len(q) \in Nat /\ Len(w) \in Nat
      /\ \A i \in 1..Len(q) : i \in DOMAIN l /\ l[i] = q[i]
      /\ \A i \in DOMAIN l : i > Len(q) => i - Len(q) \in 1..Len(w) /\ l[i] = [frame |-> w[i - Len(q)], session |-> n]
  BY <1>3, <1>6, LineIs
<1> HIDE DEF l
<1>9. \A i \in DOMAIN l : \/ i \in 1..Len(q) /\ l[i] = q[i]
                          \/ \E k \in 1..Len(w) : l[i] = [frame |-> w[k], session |-> n]
  <2> TAKE i \in DOMAIN l
  <2>1. i \in 1..Len(q) \/ i > Len(q)
    BY <1>8
  <2> QED
    BY <1>8, <2>1
<1>10. \A i \in DOMAIN l : l[i].frame \in Frame /\ ~IsReply(l[i].frame)
  <2>1. \A i \in DOMAIN l : l[i].frame \in Frame
    BY <1>6, <1>7, <1>9
  <2> QED
    BY <2>1, FramesAreNoReplies
<1>11. \A i \in DOMAIN l : \/ i \in DOMAIN Coming /\ l[i].frame = Coming[i].frame /\ l[i].session <= sessions
                                /\ l[i].session \in Nat /\ i \in 1..Len(q)
                           \/ l[i].frame.type = "server:status" /\ l[i].frame.status = truth.status[l[i].frame.buf]
  <2>1. \A i \in 1..Len(q) : i \in DOMAIN Coming /\ Coming[i] = q[i]
    <3>1. \A i \in 1..Len(queue) : i \in DOMAIN Line(queue, wire, sessions) /\ Line(queue, wire, sessions)[i] = queue[i]
      BY <1>3, LineIs DEF q
    <3> QED
      BY <3>1 DEF Coming, q
  <2> QED
    BY <1>4, <1>6, <1>7, <1>9, <2>1
<1>12. TruthInv'
  <2>1. \A f \in Ahead(l, 0) : FrameTrue(f, truth)
    <3> SUFFICES ASSUME NEW i \in DOMAIN l, i > 0
                 PROVE  FrameTrue(l[i].frame, truth)
      BY DEF Ahead, Places
    <3>1. CASE i \in DOMAIN Coming /\ l[i].frame = Coming[i].frame
      <4>1. l[i].frame \in Ahead(Coming, 0)
        BY <1>10, <3>1 DEF Ahead, Places
      <4> QED
        BY <1>2, <4>1 DEF TruthInv
    <3>2. CASE l[i].frame.type = "server:status"
      BY <3>2 DEF FrameTrue
    <3> QED
      BY <1>11, <3>1, <3>2
  <2>2. \A f \in Ahead(Coming, 0)' : FrameTrue(f, truth)
    BY <1>5, <2>1 DEF Ahead, Places, IsReply
  <2>3. \A c \in calls : CallTrue(c, truth, n)
    <3> TAKE c \in calls
    <3>1. CallTrue(c, truth, sessions) /\ CallOK(c)
      BY <1>2, ClientIs DEF TruthInv
    <3>2. c.session \in Nat
      BY <3>1 DEF CallOK, Call
    <3> QED
      BY <1>3, <3>1, <3>2 DEF CallTrue, n
  <2>4. \A i \in DOMAIN queue : queue[i].session <= n
    <3> TAKE i \in DOMAIN queue
    <3>1. queue[i].session <= sessions /\ queue[i].session \in Nat
      BY <1>3, <1>7, Elements DEF q
    <3> QED
      BY <1>3, <3>1 DEF n
  <2>5. refresh' = refresh \/ refresh'.stage # "answered"
    BY <1>1, RefreshStages
  <2> QED
    BY <1>1, <1>2, <2>2, <2>3, <2>4, <2>5 DEF TruthInv
<1>13. ToldInv'
  <2>1. \A c \in calls : c.session # n
    <3> TAKE c \in calls
    <3>1. c.session <= sessions /\ CallOK(c)
      BY <1>2, ClientIs DEF TruthInv, CallTrue
    <3>2. c.session \in Nat
      BY <3>1 DEF CallOK, Call
    <3> QED
      BY <1>3, <3>1, <3>2 DEF n
  <2>2. \A c \in calls : JoinFits(c, ui', Ahead(Coming', 0), truth', link' = "joined" /\ c.session = sessions')
    BY <1>1, <1>2, <2>1 DEF ToldInv, JoinFits
  <2>3. FramesTold(l, n, truth)
    <3> SUFFICES ASSUME NEW i \in DOMAIN l, l[i].session = n
                 PROVE  FrameTold(l[i].frame, Ahead(l, i), truth)
      BY DEF FramesTold
    <3>1. ~(l[i].session <= sessions)
      BY <1>3 DEF n
    <3>2. l[i].frame.type = "server:status" /\ l[i].frame.status = truth.status[l[i].frame.buf]
      BY <1>11, <3>1
    <3> QED
      BY <3>2 DEF FrameTold, StatusTold
  <2>4. \A c \in calls : ReplyTold(c, l, truth)
    <3>1. \A c \in calls : IsReply(Reply(c.id))
      BY DEF IsReply, Reply
    <3> QED
      BY <1>10, <3>1 DEF ReplyTold
  <2>5. FramesTold(Coming', sessions', truth') /\ \A c \in calls' : ReplyTold(c, Coming', truth')
    BY <1>1, <1>5, <2>3, <2>4
  <2> QED
    BY <1>1, <2>2, <2>5 DEF ToldInv, Current
<1>14. LevelInv'
  BY <1>1 DEF LevelInv, RequestRefresh
<1> QED
  BY <1>12, <1>13, <1>14 DEF PictureInv

-----------------------------------------------------------------------------
(* The picture at first, and after every step.                             *)

LEMMA InitPictures ==
    ASSUME Init
    PROVE  PictureInv
<1> DEFINE e == <<>>
           l == Line(e, e, 0)
<1>1. /\ truth = [live |-> LiveAtFirst, dead |-> {}, status |-> [s \in Servers |-> "connected"],
                  joined |-> {c \in Channels : Owner[c] \in LiveAtFirst},
                  unread |-> [c \in Channels |-> 0],
                  dm |-> [d \in Dms |-> [rev |-> 1, open |-> Owner[d] \in LiveAtFirst, blocked |-> FALSE]]]
      /\ unpublished = {} /\ wire = e /\ calls = {} /\ link = "none" /\ sessions = 0 /\ queue = e
      /\ boot.stage = "loading" /\ refresh.stage = "idle"
      /\ ui.known = {} /\ ui.dm = [d \in Dms |-> NoDm] /\ ui.revs = [d \in Dms |-> Absent]
  BY DEF Init, NoRefresh
<1>2. e \in Seq(Held) /\ e \in Seq(OnWire) /\ Len(e) = 0 /\ DOMAIN e = {}
  OBVIOUS
<1> HIDE DEF e
<1>3. DOMAIN l = {}
  <2>1. DOMAIN l = 1..(Len(e) + Len(e))
    BY <1>2, LineIs
  <2> QED
    BY <1>2, <2>1
<1>4. Coming = l
  BY <1>1 DEF Coming
<1> HIDE DEF l
<1>5. Ahead(Coming, 0) = {}
  BY <1>3, <1>4 DEF Ahead, Places
<1>6. TruthFits(truth)
  BY <1>1 DEF TruthFits, Born
<1>7. PictureTrue(ui, truth)
  <2>1. Plain(ui)
    BY <1>1 DEF Plain, NoDm
  <2>2. \A d \in Dms : ui.revs[d] <= truth.dm[d].rev
    BY <1>1 DEF Absent
  <2> QED
    BY <1>1, <2>1, <2>2 DEF PictureTrue
<1>8. TruthInv
  BY <1>1, <1>2, <1>5, <1>6, <1>7 DEF TruthInv
<1> QED
  BY <1>1, <1>8 DEF PictureInv, ToldInv, LevelInv

LEMMA NextPictures ==
    ASSUME CInv, PictureInv, CInv', [Next]_vars
    PROVE  PictureInv'
<1>1. CASE BootServed \/ BootApplied
  BY <1>1, BootServedPictures, BootAppliedPictures
<1>2. CASE Linking
  BY <1>2, JoinOkPictures, LinkMovesPictures, LinkLostPictures DEF Linking
<1>3. CASE Refreshing \/ RefreshFails
  BY <1>3, RefreshServedPictures, RefreshAppliedPictures, RefreshSettlesPictures, RefreshFailsPictures DEF Refreshing
<1>4. CASE ReceiveFrame
  BY <1>4, ReceivePictures
<1>5. ASSUME NEW f \in unpublished, PublishDirectMessage(f)
      PROVE  PictureInv'
  BY <1>5, PublishPictures
<1>6. ASSUME NEW op \in ElsewhereOps, NEW b \in Servers \cup Buffers, ChangeElsewhere(op, b)
      PROVE  PictureInv'
  BY <1>6, ElsewherePictures
<1>7. CASE User
  BY <1>7, UserPictures
<1>8. ASSUME NEW c \in calls, Serve(c) \/ CallFails(c) \/ Settle(c)
      PROVE  PictureInv'
  BY <1>8, ServePictures, CallFailsPictures, SettlePictures
<1>9. CASE UNCHANGED vars
  <2>1. UNCHANGED <<truth, unpublished, wire, calls, link, sessions, boot, ui, refresh, again, queue, unsure>>
    BY <1>9 DEF vars
  <2>2. Looks(ui, ui')
    BY <2>1, ClientIs, LooksItself
  <2> QED
    BY <2>1, <2>2, QuietStep
<1> QED
  BY <1>1, <1>2, <1>3, <1>4, <1>5, <1>6, <1>7, <1>8, <1>9 DEF Next

LEMMA InvariantPictures == Spec => [](CInv /\ PictureInv)
<1>1. Init => CInv /\ PictureInv
  BY InitCInv, InitPictures
<1>2. (CInv /\ PictureInv) /\ [Next]_vars => (CInv /\ PictureInv)'
  <2> SUFFICES ASSUME CInv, PictureInv, [Next]_vars
               PROVE  CInv' /\ PictureInv'
    OBVIOUS
  <2>1. CInv'
    BY NextCInv
  <2> QED
    BY <2>1, NextPictures
<1> QED
  BY <1>1, <1>2, PTL DEF Spec

LEMMA QuietIsEven ==
    ASSUME CInv, PictureInv, Quiet
    PROVE  /\ Coming = Line(queue, wire, sessions) /\ DOMAIN Coming = {} /\ Unsure = unsure
           /\ ~again /\ View(ui, refresh) = ui
<1> DEFINE e == <<>>
<1>1. refresh.stage = "idle" /\ wire = e /\ queue = e /\ ~again
  BY DEF Quiet, CInv, RefreshOK
<1>2. e \in Seq(Held) /\ e \in Seq(OnWire) /\ Len(e) = 0 /\ DOMAIN e = {}
  OBVIOUS
<1> HIDE DEF e
<1>3. DOMAIN Line(e, e, sessions) = {}
  <2>1. DOMAIN Line(e, e, sessions) = 1..(Len(e) + Len(e))
    BY <1>2, LineIs
  <2> QED
    BY <1>2, <2>1
<1>4. Outdated(e) = {}
  BY <1>2 DEF Outdated
<1> QED
  BY <1>1, <1>3, <1>4 DEF Coming, Unsure, View

\* Snapshots, frames held back while a snapshot is reconciled
\* (topics_club_app.tsx:1363-1398), replies and frames of threads that come in
\* either order, and connections lost in between: once all that was sent has
\* been taken, the servers, channels, counts and threads the client shows
\* (use_server_connections.ts:60-204) are those the gateway has.
THEOREM PictureConverges == Spec => []Converged
<1>1. CInv /\ PictureInv => Converged
  <2> SUFFICES ASSUME CInv, PictureInv, Quiet
               PROVE  /\ \A s \in Servers \ unsure :
                           /\ s \in ui.known <=> s \in truth.live
                           /\ s \in ui.known => ui.status[s] = truth.status[s]
                      /\ \A c \in Channels \ unsure : Owner[c] \notin unsure =>
                           /\ c \in Shown(ui) <=> c \in truth.joined
                           /\ c \in Shown(ui) \ ui.skipped => ui.unread[c] = truth.unread[c]
                      /\ \A d \in Dms \ unsure : Owner[d] \notin unsure => ui.dm[d] = SnapshotDms(truth)[d]
    BY DEF Converged
  <2>1. Ahead(Coming, 0) = {} /\ Introduced(Coming, 0) = {}
    BY QuietIsEven DEF Ahead, Introduced, Places
  <2>2. Level(ui, {}, {}, {}, Told(calls), unsure, truth)
    BY <2>1, QuietIsEven DEF PictureInv, LevelInv, Quiet
  <2>3. ASSUME NEW s \in Servers, s \notin unsure
        PROVE  (s \in ui.known <=> s \in truth.live) /\ (s \in ui.known => ui.status[s] = truth.status[s])
    <3>1. ServerFits(ui, s, {}, {}, truth)
      BY <2>2, <2>3 DEF Level
    <3> QED
      BY <3>1 DEF ServerFits, LeftIn, StatusTold, Reports
  <2>4. ASSUME NEW c \in Channels, c \notin unsure, Owner[c] \notin unsure
        PROVE  /\ c \in Shown(ui) <=> c \in truth.joined
               /\ c \in Shown(ui) \ ui.skipped => ui.unread[c] = truth.unread[c]
    <3>1. ChannelFits(ui, c, {}, truth)
      BY <2>2, <2>4 DEF Level, Sure
    <3>2. c \in Shown(ui) <=> ui.unread[c] # Absent
      BY ClientAssumption DEF Shown, ClientAssumption
    <3> QED
      BY <3>1, <3>2 DEF ChannelFits, Rejoins, Gone, LeftIn, CountTold, Counts
  <2>5. ASSUME NEW d \in Dms, d \notin unsure, Owner[d] \notin unsure
        PROVE  ui.dm[d] = SnapshotDms(truth)[d]
    <3>1. ThreadFits(ui, d, {}, {}, Told(calls), truth)
      BY <2>2, <2>5 DEF Level, Sure
    <3>2. IF Owner[d] \in truth.live THEN ui.dm[d] = Thread(truth.dm[d]) ELSE ui.dm[d] = NoDm
      BY <3>1 DEF ThreadFits, Owed, Right, LeftIn
    <3> QED
      BY <3>2 DEF SnapshotDms, Thread
  <2> QED
    BY <2>3, <2>4, <2>5
<1> QED
  BY <1>1, InvariantPictures, PTL
=============================================================================
