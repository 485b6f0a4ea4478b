---------------------- MODULE NotificationDeviceProofs ----------------------
(***************************************************************************)
(* Theorems about NotificationDevice: the invariant DInv holds in every    *)
(* reachable state, and from it type correctness, that a confirmed device  *)
(* is registered, and what becomes of a push.                              *)
(*                                                                         *)
(* The parts of DInv are predicates of values (a page, a task, a record),  *)
(* so that a lemma speaks of the state before a step and after it alike.   *)
(***************************************************************************)
EXTENDS NotificationDevice, NumberLemmas

-----------------------------------------------------------------------------
(* The inductive invariant.                                                *)

Account == Users \cup {None}

Boot == [stage : {"idle", "sent", "answered"}, gen : Nat, inst : Nat]
PageType == [open : BOOLEAN, visible : BOOLEAN, user : Account, trusted : BOOLEAN, gen : Nat,
             inst : Nat, healthy : BOOLEAN, subscribed : BOOLEAN, loading : BOOLEAN, boot : Boot]
TaskStages == {"looking", "subscribing", "saving", "saved", "unsubscribing"}
TaskType == [tab : Tabs, current : BOOLEAN, kind : {"synchronize", "enable"}, stage : TaskStages,
             gen : Nat, user : Account, was : BOOLEAN, sub : Nat, inst : Nat, sent : Nat,
             conflicts : BOOLEAN, answer : {None, "ok", "conflict", "error"}]
MessageType == [type : {"refresh"}] \cup [type : {"lease"}, tab : Tabs, gen : Nat]
LeaseType == [tab : Tabs, gen : Nat]
TurnType == [kind : {"message", "push", "click"}, n : Nat]
HandlerStages == {"sent", "refreshing", "matching", "asking", "eligible", "dropped",
                  "suppressed", "shown", "navigated"}
HandlerType == [kind : {"push", "click"}, n : Nat, gen : Nat, sub : Nat, stage : HandlerStages,
                had : BOOLEAN, moved : BOOLEAN, failed : BOOLEAN, read : BOOLEAN]
RowType == [endpoint : Nat, inst : Nat, gen : Nat, reported : BOOLEAN]
RecordType == [inst : Nat, confirmed : BOOLEAN, gen : Nat, user : Account]

Shape ==
    /\ owner \in Seq(Users) /\ valid \subseteq 1..Len(owner) /\ cookie \in 0..Len(owner)
    /\ rows \subseteq RowType
    /\ endpoint \in Nat /\ made \in [endpoint : Nat, inst : Nat]
    /\ stored \in RecordType
    /\ pages \in [Tabs -> PageType] /\ tasks \subseteq TaskType
    /\ mail \in Seq(MessageType) /\ leases \in Seq(LeaseType)
    /\ account \in Nat /\ fetched \in Nat \cup {None} /\ refreshes \in Seq(TurnType)
    /\ handlers \subseteq HandlerType /\ shown \subseteq [n : Nat, gen : Nat]
    /\ unread \subseteq Nat
    /\ spent \in [steps : Nat, drops : Nat, pushes : Nat]

\* The sessions that have a registration, or had one that went when a delivery
\* found its endpoint gone.
Evidence == {r.gen : r \in rows} \cup removed
Bound(R, g) == g \in R

\* Of a session that was made, for this user.
Belongs(own, g, user) == g \in 1..Len(own) /\ user = own[g]

\* A user has one registration of an endpoint.
RowsOK(R, own, md) ==
    /\ \A r \in R : r.gen \in 1..Len(own) /\ r.endpoint \in 1..md
    /\ \A r, q \in R : own[r.gen] = own[q.gen] /\ r.endpoint = q.endpoint => r = q

\* What is confirmed of the browser's session rests on a registration.
StoredOK(st, own, c, R) ==
    /\ st.gen # 0 => Belongs(own, st.gen, st.user)
    /\ st.confirmed => st.gen # 0
    /\ st.confirmed /\ st.gen = c => Bound(R, c)

PageOK(p, own, c, R) ==
    /\ p.gen # 0 => Belongs(own, p.gen, p.user) /\ p.open
    /\ p.inst # 0 /\ p.gen = c /\ c # 0 => Bound(R, c)
    /\ p.healthy => p.gen # 0
    /\ p.boot.stage # "idle" => p.open
    /\ p.boot.stage = "answered" => p.boot.gen \in 1..Len(own)
    /\ p.boot.stage = "answered" /\ p.boot.inst # 0 /\ p.boot.gen = c => Bound(R, c)

PagesOK(ps, own, c, R) == \A t \in Tabs : PageOK(ps[t], own, c, R)

\* A save that can still be served is of the browser's session.
TaskOK(k, own, vs, c, R, md) ==
    /\ Belongs(own, k.gen, k.user)
    /\ k.stage = "looking" => k.current
    /\ k.stage \in {"saving", "saved", "unsubscribing"} => k.sub \in 1..md
    /\ k.sent # 0 => k.sent \in 1..Len(own)
    /\ k.sent \in vs => k.sent = c
    /\ k.stage = "saved" /\ k.answer = "ok" /\ k.gen = c => Bound(R, c)

\* The current tasks are those that their pages wait for.
CurrentOK(ts, ps) ==
    /\ \A k \in ts : k.current => ps[k.tab].gen = k.gen
    /\ \A k, l \in ts : k.current /\ l.current /\ k.tab = l.tab => k = l
    /\ \A t \in Tabs : ps[t].loading => \E k \in ts : k.current /\ k.tab = t

TasksOK(ts, own, vs, c, R, md) == \A k \in ts : TaskOK(k, own, vs, c, R, md)

FromPage(m, t) == m.type = "lease" /\ m.tab = t
LastFrom(ml, i, t) == FromPage(ml[i], t) /\ \A j \in DOMAIN ml : j > i => ~FromPage(ml[j], t)
Silent(ml, t) == \A j \in DOMAIN ml : ~FromPage(ml[j], t)

\* A page's last message says what the page is; without one its lease does.
LeasesOK(ls, ml, ps) ==
    /\ Len(ls) <= LeaseLimit
    /\ \A i, j \in DOMAIN ls : i # j => ls[i].tab # ls[j].tab
    /\ \A i \in DOMAIN ls : ps[ls[i].tab].gen # 0
    /\ \A i \in DOMAIN ml : ml[i].type = "lease" /\ ml[i].gen # 0 => ps[ml[i].tab].gen # 0
    /\ \A i \in DOMAIN ml : \A t \in Tabs : LastFrom(ml, i, t) => ml[i] = LeaseMessage(t, ps[t])
    /\ \A t \in Tabs : Silent(ml, t) =>
        \A i \in DOMAIN ls : ls[i].tab = t => ls[i].gen = ps[t].gen /\ ps[t].healthy

Excused(h) == h.moved \/ h.failed
Turn(h) == [kind |-> h.kind, n |-> h.n]

\* What a handler has seen of the session, and when it has no excuse: once its
\* own refresh is answered the account is the session of its push.
HandlerOK(h, c, un, ac, rf, ft, n) ==
    /\ h.n \in 1..n /\ h.gen # 0
    /\ Active(h) => (c = h.gen => h.had) /\ (c # h.gen => h.moved)
    /\ h.read => h.n \notin un
    /\ h.stage = "eligible" => h.had /\ ~h.read
    /\ h.stage = "matching" /\ ac # h.gen => Excused(h)
    /\ h.stage = "matching" /\ ft # None /\ ft # h.gen => Excused(h)
    /\ h.stage = "refreshing" /\ rf # <<>> /\ ft # None /\ ft # h.gen => Head(rf) # Turn(h) \/ Excused(h)

HandlersOK(hs, c, un, ac, rf, ft, n) == \A h \in hs : HandlerOK(h, c, un, ac, rf, ft, n)

Single(hs) == \A h, l \in hs : Turn(h) = Turn(l) => h = l

\* Refreshes that handlers wait for, each for one.
TurnsOK(rf, ft, hs) ==
    /\ \A i \in DOMAIN rf : rf[i].kind # "message" => \E h \in hs : Turn(h) = rf[i] /\ h.stage = "refreshing"
    /\ \A i, j \in DOMAIN rf : i # j /\ rf[i].kind # "message" => rf[i] # rf[j]
    /\ ft # None => rf # <<>>

NotesOK(un, sh, n) == un \subseteq 1..n /\ \A s \in sh : s.n \in 1..n /\ s.gen # 0

Device ==
    /\ RowsOK(rows, owner, made.endpoint) /\ endpoint \in 0..made.endpoint
    /\ StoredOK(stored, owner, Live, Evidence)
Pages == PagesOK(pages, owner, Live, Evidence)
Tasks == TasksOK(tasks, owner, valid, Live, Evidence, made.endpoint) /\ CurrentOK(tasks, pages)
Leases == LeasesOK(leases, mail, pages)
Pushes ==
    /\ NotesOK(unread, shown, spent.pushes)
    /\ HandlersOK(handlers, Live, unread, account, refreshes, fetched, spent.pushes) /\ Single(handlers)
    /\ TurnsOK(refreshes, fetched, handlers)

DInv == Shape /\ Device /\ Pages /\ Tasks /\ Leases /\ Pushes

-----------------------------------------------------------------------------
(* Selections of a sequence.                                               *)

\* What Only keeps: the members at these places, each once and in their order.
LEMMA OnlyKeeps ==
    ASSUME NEW T, NEW s \in Seq(T), NEW I, I \subseteq DOMAIN s
    PROVE  /\ Only(s, I) \in Seq(T)
           /\ Len(Only(s, I)) \in Nat /\ Len(Only(s, I)) <= Len(s)
           /\ DOMAIN Only(s, I) = 1..Len(Only(s, I))
           /\ \A k \in DOMAIN Only(s, I) : Nth(I, k) \in I /\ Only(s, I)[k] = s[Nth(I, k)]
           /\ \A k, l \in DOMAIN Only(s, I) : k < l => Nth(I, k) < Nth(I, l)
           /\ \A i \in I : \E k \in DOMAIN Only(s, I) : Nth(I, k) = i
<1> DEFINE R(i) == {j \in I : j <= i}
           c == Cardinality(I)
<1>1. I \subseteq 1..Len(s) /\ Len(s) \in Nat
  OBVIOUS
<1>2. IsFiniteSet(I) /\ c \in Nat
  BY <1>1, IntervalSubset
<1>3. c <= Len(s)
  <2> DEFINE S == 1..Len(s)
  <2>1. IsFiniteSet(S)
    BY <1>1, FS_Interval
  <2>2. Cardinality(S) = IF 1 > Len(s) THEN 0 ELSE Len(s) - 1 + 1
    BY <1>1, FS_Interval
  <2>3. I \subseteq S
    BY <1>1
  <2> HIDE DEF S
  <2>4. c <= Cardinality(S)
    BY <2>1, <2>3, FS_Subset
  <2> QED
    BY <2>2, <2>4, <1>1
<1>4. \A k \in 1..c : Nth(I, k) \in I /\ Cardinality(R(Nth(I, k))) = k
  <2> TAKE k \in 1..c
  <2>1. \E i \in I : Cardinality(AtOrBelow(I, i)) = k
    BY <1>1, RankExists
  <2> QED
    BY <2>1 DEF Nth, AtOrBelow
<1>5. \A i, j \in I : i < j => Cardinality(R(i)) < Cardinality(R(j))
  <2> SUFFICES ASSUME NEW i \in I, NEW j \in I, i < j
               PROVE  Cardinality(R(i)) < Cardinality(R(j))
    OBVIOUS
  <2>1. i \in Int /\ j \in Int
    BY <1>1
  <2>2. R(i) \subseteq R(j) /\ j \in R(j) /\ j \notin R(i)
    <3>1. \A m \in I : m \in Int
      BY <1>1
    <3> QED
      BY <2>1, <3>1
  <2>3. IsFiniteSet(R(j))
    <3>1. R(j) \subseteq I
      OBVIOUS
    <3> QED
      BY <3>1, <1>2, FS_Subset
  <2> HIDE DEF R
  <2>4. R(i) # R(j)
    BY <2>2
  <2>5. Cardinality(R(i)) \in Nat /\ Cardinality(R(j)) \in Nat
    BY <2>2, <2>3, FS_Subset, FS_CardinalityType
  <2>6. Cardinality(R(i)) <= Cardinality(R(j))
    BY <2>2, <2>3, FS_Subset
  <2>7. Cardinality(R(i)) # Cardinality(R(j))
    BY <2>2, <2>3, <2>4, FS_Subset
  <2> QED
    BY <2>5, <2>6, <2>7
<1>6. \A i \in I : Cardinality(R(i)) \in 1..c
  <2> TAKE i \in I
  <2>1. R(i) \subseteq I /\ i \in R(i)
    BY <1>1
  <2> HIDE DEF R
  <2>2. IsFiniteSet(R(i))
    BY <2>1, <1>2, FS_Subset
  <2>3. Cardinality(R(i)) \in Nat /\ Cardinality(R(i)) <= c
    BY <2>1, <2>2, <1>2, FS_Subset, FS_CardinalityType
  <2>4. Cardinality(R(i)) # 0
    BY <2>1, <2>2, FS_EmptySet
  <2> QED
    BY <2>3, <2>4, <1>2
<1> HIDE DEF R
<1>7. Only(s, I) = [k \in 1..c |-> s[Nth(I, k)]]
  BY DEF Only
<1>8. /\ Only(s, I) \in Seq(T) /\ Len(Only(s, I)) = c /\ DOMAIN Only(s, I) = 1..c
      /\ \A k \in 1..c : Only(s, I)[k] = s[Nth(I, k)]
  <2>1. \A k \in 1..c : s[Nth(I, k)] \in T
    BY <1>1, <1>4
  <2> HIDE DEF c
  <2> QED
    BY <1>2, <1>7, <2>1
<1>9. \A k, l \in 1..c : k < l => Nth(I, k) < Nth(I, l)
  <2> SUFFICES ASSUME NEW k \in 1..c, NEW l \in 1..c, k < l
               PROVE  Nth(I, k) < Nth(I, l)
    OBVIOUS
  <2> DEFINE a == Nth(I, k)
             b == Nth(I, l)
  <2>1. a \in I /\ b \in I /\ Cardinality(R(a)) = k /\ Cardinality(R(b)) = l
    BY <1>4
  <2> HIDE DEF a, b
  <2>2. a \in Int /\ b \in Int
    BY <2>1, <1>1
  <2>3. a # b /\ ~(b < a)
    <3>1. k \in Int /\ l \in Int
      BY <1>2
    <3> QED
      BY <2>1, <1>5, <3>1
  <2>4. a < b
    BY <2>2, <2>3
  <2> QED
    BY <2>4 DEF a, b
<1>10. \A i \in I : \E k \in 1..c : Nth(I, k) = i
  <2> TAKE i \in I
  <2> DEFINE k == Cardinality(R(i))
             a == Nth(I, k)
  <2>1. k \in 1..c
    BY <1>6
  <2>2. a \in I /\ Cardinality(R(a)) = k
    BY <2>1, <1>4
  <2>3. a = i
    <3>1. a \in Int /\ i \in Int /\ k \in Int
      BY <2>1, <2>2, <1>1, <1>2
    <3> HIDE DEF a
    <3>2. ~(a < i) /\ ~(i < a)
      BY <2>2, <1>5, <3>1
    <3> QED
      BY <3>1, <3>2
  <2> QED
    BY <2>1, <2>3
<1> QED
  BY <1>2, <1>3, <1>4, <1>8, <1>9, <1>10

-----------------------------------------------------------------------------
(* Sessions.  A session is left for a new one or for none, registrations   *)
(* of the session are replaced and not lost.                               *)

Grows(own, own2) == \A g \in 1..Len(own) : g \in 1..Len(own2) /\ own2[g] = own[g]

Onward(own, c, c2, R, R2) ==
    \/ c2 = c /\ (Bound(R, c) => Bound(R2, c))
    \/ c2 \notin 1..Len(own)

\* Of the sessions there were, those that are still valid are not the one left.
Leaves(own, vs, vs2, c, c2) ==
    \A g \in vs2 : g \in 1..Len(own) => g \in vs /\ (g = c => c2 = c)

LEMMA RecordOnward ==
    ASSUME NEW own, NEW own2, NEW c, NEW c2, NEW R, NEW R2, NEW st \in RecordType,
           StoredOK(st, own, c, R), Grows(own, own2), Onward(own, c, c2, R, R2)
    PROVE  StoredOK(st, own2, c2, R2)
BY DEF StoredOK, Grows, Onward, Belongs, RecordType

LEMMA PageOnward ==
    ASSUME NEW own, NEW own2, NEW c, NEW c2, NEW R, NEW R2, NEW p \in PageType,
           PageOK(p, own, c, R), Grows(own, own2), Onward(own, c, c2, R, R2)
    PROVE  PageOK(p, own2, c2, R2)
BY DEF PageOK, Grows, Onward, Belongs, PageType, Boot

LEMMA TaskOnward ==
    ASSUME NEW own, NEW own2, NEW vs, NEW vs2, NEW c, NEW c2, NEW R, NEW R2,
           NEW md \in Nat, NEW md2 \in Nat, NEW k \in TaskType,
           TaskOK(k, own, vs, c, R, md), Grows(own, own2), Onward(own, c, c2, R, R2),
           Leaves(own, vs, vs2, c, c2), 0 \notin vs2, md <= md2
    PROVE  TaskOK(k, own2, vs2, c2, R2, md2)
BY DEF TaskOK, Grows, Onward, Leaves, Belongs, TaskType

LEMMA SameOnward ==
    ASSUME NEW own, NEW c, NEW R
    PROVE  Grows(own, own) /\ Onward(own, c, c, R, R)
BY DEF Grows, Onward

LEMMA AppendGrows ==
    ASSUME NEW own \in Seq(Users), NEW user \in Users
    PROVE  /\ Append(own, user) \in Seq(Users)
           /\ Len(Append(own, user)) = Len(own) + 1
           /\ Append(own, user)[Len(own) + 1] = user
           /\ Grows(own, Append(own, user))
BY DEF Grows

-----------------------------------------------------------------------------
(* The tasks of a page.                                                    *)

\* Apart from page t, a picture of the pages waits for no more than another.
WaitsFor(t, ps, ps2) ==
    \A u \in Tabs \ {t} : ps2[u].gen = ps[u].gen /\ (ps2[u].loading => ps[u].loading)

LEMMA WithoutKeeps ==
    ASSUME tasks \subseteq TaskType, NEW t \in Tabs, NEW ps,
           NEW own, NEW vs, NEW c, NEW R, NEW md,
           TasksOK(tasks, own, vs, c, R, md), CurrentOK(tasks, pages), WaitsFor(t, pages, ps)
    PROVE  /\ Without(t) \subseteq TaskType
           /\ TasksOK(Without(t), own, vs, c, R, md)
           /\ \A k \in Without(t) : k.tab = t => ~k.current
           /\ \A k \in Without(t) : k.current => ps[k.tab].gen = k.gen
           /\ \A k, l \in Without(t) : k.current /\ l.current /\ k.tab = l.tab => k = l
           /\ \A u \in Tabs \ {t} : ps[u].loading => \E k \in Without(t) : k.current /\ k.tab = u
<1>1. \A k \in TaskType : /\ [k EXCEPT !.current = FALSE] \in TaskType
                          /\ [k EXCEPT !.current = FALSE].tab = k.tab
                          /\ ~[k EXCEPT !.current = FALSE].current
  BY DEF TaskType
<1>2. \A k \in TaskType : TaskOK(k, own, vs, c, R, md) /\ k.stage # "looking"
        => TaskOK([k EXCEPT !.current = FALSE], own, vs, c, R, md)
  BY DEF TaskOK, TaskType
<1>3. \A k \in Without(t) : \/ k \in tasks /\ k.tab # t
                            \/ \E l \in tasks : l.tab = t /\ l.stage # "looking" /\ k = [l EXCEPT !.current = FALSE]
  BY DEF Without, Others, Superseded
<1>4. \A k \in tasks : k.tab # t => k \in Without(t)
  BY DEF Without, Others
<1>5. \A k \in Without(t) : k.tab = t => ~k.current
  BY <1>1, <1>3
<1>6. \A k \in Without(t) : k.current => k \in tasks /\ k.tab # t /\ k.tab \in Tabs
  <2>1. \A k \in tasks : k.tab \in Tabs
    BY DEF TaskType
  <2> QED
    BY <1>1, <1>3, <2>1
<1>7. Without(t) \subseteq TaskType
  BY <1>1, <1>3
<1>8. TasksOK(Without(t), own, vs, c, R, md)
  BY <1>2, <1>3 DEF TasksOK
<1>9. \A u \in Tabs \ {t} : ps[u].loading => \E k \in Without(t) : k.current /\ k.tab = u
  BY <1>4 DEF CurrentOK, WaitsFor
<1>10. \A k \in Without(t) : k.current => ps[k.tab].gen = k.gen
  BY <1>6 DEF CurrentOK, WaitsFor
<1>11. \A k, l \in Without(t) : k.current /\ l.current /\ k.tab = l.tab => k = l
  BY <1>6 DEF CurrentOK
<1> QED
  BY <1>5, <1>7, <1>8, <1>9, <1>10, <1>11

LEMMA NewTaskIs ==
    ASSUME NEW t \in Tabs, NEW p \in PageType, NEW kind \in {"synchronize", "enable"}, NEW rec \in RecordType,
           NEW own, NEW vs, 0 \notin vs, NEW c, NEW R, NEW md, p.gen # 0, PageOK(p, own, c, R)
    PROVE  /\ NewTask(t, p, kind, rec) \in TaskType
           /\ TaskOK(NewTask(t, p, kind, rec), own, vs, c, R, md)
           /\ NewTask(t, p, kind, rec).current
           /\ NewTask(t, p, kind, rec).tab = t
           /\ NewTask(t, p, kind, rec).gen = p.gen
<1>1. Confirmed(rec, p.gen, p.user) \in BOOLEAN
  BY DEF Confirmed, OwnedBy, RecordType
<1> HIDE DEF Confirmed
<1>2. NewTask(t, p, kind, rec) \in TaskType
  BY <1>1 DEF NewTask, TaskType, TaskStages, PageType
<1>3. TaskOK(NewTask(t, p, kind, rec), own, vs, c, R, md)
  BY DEF NewTask, TaskOK, PageOK
<1> QED
  BY <1>2, <1>3 DEF NewTask

LEMMA ReconciledIs ==
    ASSUME NEW p \in PageType, NEW own, NEW c, NEW R, stored \in RecordType, StoredOK(stored, own, c, R),
           p.gen # 0, PageOK(p, own, c, R)
    PROVE  Reconciled(p) \in RecordType /\ StoredOK(Reconciled(p), own, c, R)
<1>1. Reconciled(p) \in RecordType
  BY DEF Reconciled, Record, RecordType, PageType
<1>2. StoredOK(Reconciled(p), own, c, R)
  BY DEF Reconciled, Record, RecordType, PageType, StoredOK, PageOK, Belongs
<1> QED
  BY <1>1, <1>2

\* A page that begins a task waits for it, and the tasks it had do not matter.
LEMMA BeginsKeeps ==
    ASSUME pages \in [Tabs -> PageType], tasks \subseteq TaskType, stored \in RecordType,
           NEW t \in Tabs, NEW p \in PageType, NEW kind \in {"synchronize", "enable"},
           NEW own, NEW vs, 0 \notin vs, NEW c, NEW R, NEW md,
           TasksOK(tasks, own, vs, c, R, md), CurrentOK(tasks, pages), PagesOK(pages, own, c, R),
           StoredOK(stored, own, c, R), p.gen # 0, PageOK(p, own, c, R), Begins(t, p, kind)
    PROVE  /\ pages' \in [Tabs -> PageType] /\ tasks' \subseteq TaskType /\ stored' \in RecordType
           /\ TasksOK(tasks', own, vs, c, R, md) /\ CurrentOK(tasks', pages')
           /\ PagesOK(pages', own, c, R) /\ StoredOK(stored', own, c, R)
<1> DEFINE q == [p EXCEPT !.loading = TRUE]
           k == NewTask(t, p, kind, Reconciled(p))
<1>1. pages' = [pages EXCEPT ![t] = q] /\ stored' = Reconciled(p) /\ tasks' = Without(t) \cup {k}
  BY DEF Begins
<1>2. q \in PageType /\ q.gen = p.gen /\ PageOK(q, own, c, R)
  BY DEF PageType, PageOK
<1>3. Reconciled(p) \in RecordType /\ StoredOK(Reconciled(p), own, c, R)
  BY ReconciledIs
<1>4. k \in TaskType /\ TaskOK(k, own, vs, c, R, md) /\ k.current /\ k.tab = t /\ k.gen = p.gen
  BY <1>3, NewTaskIs
<1> HIDE DEF q, k
<1>5. pages' \in [Tabs -> PageType] /\ pages'[t] = q /\ \A u \in Tabs \ {t} : pages'[u] = pages[u]
  BY <1>1, <1>2
<1>6. PagesOK(pages', own, c, R)
  BY <1>2, <1>5 DEF PagesOK
<1>7. WaitsFor(t, pages, pages')
  BY <1>5 DEF WaitsFor
<1>8. /\ Without(t) \subseteq TaskType
      /\ TasksOK(Without(t), own, vs, c, R, md)
      /\ \A l \in Without(t) : l.tab = t => ~l.current
      /\ \A l \in Without(t) : l.current => pages'[l.tab].gen = l.gen
      /\ \A l, m \in Without(t) : l.current /\ m.current /\ l.tab = m.tab => l = m
      /\ \A u \in Tabs \ {t} : pages'[u].loading => \E l \in Without(t) : l.current /\ l.tab = u
  BY <1>7, WithoutKeeps
<1>9. TasksOK(tasks', own, vs, c, R, md)
  BY <1>1, <1>4, <1>8 DEF TasksOK
<1>10. CurrentOK(tasks', pages')
  <2>1. \A l \in tasks' : l.current => pages'[l.tab].gen = l.gen
    BY <1>1, <1>2, <1>4, <1>5, <1>8
  <2>2. \A l, m \in tasks' : l.current /\ m.current /\ l.tab = m.tab => l = m
    BY <1>1, <1>4, <1>8
  <2>3. \A u \in Tabs : pages'[u].loading => \E l \in tasks' : l.current /\ l.tab = u
    BY <1>1, <1>4, <1>8
  <2> QED
    BY <2>1, <2>2, <2>3 DEF CurrentOK
<1> QED
  BY <1>1, <1>3, <1>4, <1>5, <1>6, <1>8, <1>9, <1>10

\* A task goes on as another one.
LEMMA SwapKeeps ==
    ASSUME tasks \subseteq TaskType, NEW k \in tasks, NEW next \in TaskType,
           NEW own, NEW vs, NEW c, NEW R, NEW md,
           TasksOK(tasks, own, vs, c, R, md), CurrentOK(tasks, pages),
           TaskOK(next, own, vs, c, R, md),
           next.tab = k.tab, next.gen = k.gen, next.current = k.current
    PROVE  /\ (tasks \ {k}) \cup {next} \subseteq TaskType
           /\ TasksOK((tasks \ {k}) \cup {next}, own, vs, c, R, md)
           /\ CurrentOK((tasks \ {k}) \cup {next}, pages)
<1> DEFINE ts == (tasks \ {k}) \cup {next}
<1>1. ts \subseteq TaskType /\ TasksOK(ts, own, vs, c, R, md)
  BY DEF TasksOK
<1>2. \A l \in ts : l.current => pages[l.tab].gen = l.gen
  BY DEF CurrentOK
<1>3. \A l, m \in ts : l.current /\ m.current /\ l.tab = m.tab => l = m
  BY DEF CurrentOK
<1>4. \A t \in Tabs : pages[t].loading => \E l \in ts : l.current /\ l.tab = t
  <2> SUFFICES ASSUME NEW t \in Tabs, pages[t].loading
               PROVE  \E l \in ts : l.current /\ l.tab = t
    OBVIOUS
  <2>1. PICK l \in tasks : l.current /\ l.tab = t
    BY DEF CurrentOK
  <2>2. CASE l = k
    BY <2>1, <2>2
  <2>3. CASE l # k
    BY <2>1, <2>3
  <2> QED
    BY <2>2, <2>3
<1> QED
  BY <1>1, <1>2, <1>3, <1>4 DEF CurrentOK

\* A task that is not current ends: no page waits for it.
LEMMA DropKeeps ==
    ASSUME tasks \subseteq TaskType, NEW k \in tasks, ~k.current,
           NEW own, NEW vs, NEW c, NEW R, NEW md,
           TasksOK(tasks, own, vs, c, R, md), CurrentOK(tasks, pages)
    PROVE  /\ tasks \ {k} \subseteq TaskType
           /\ TasksOK(tasks \ {k}, own, vs, c, R, md)
           /\ CurrentOK(tasks \ {k}, pages)
<1>1. TasksOK(tasks \ {k}, own, vs, c, R, md)
  BY DEF TasksOK
<1>2. CurrentOK(tasks \ {k}, pages)
  BY DEF CurrentOK
<1> QED
  BY <1>1, <1>2

LEMMA EndsKeeps ==
    ASSUME pages \in [Tabs -> PageType], tasks \subseteq TaskType, NEW k \in tasks, k.current,
           NEW sub \in BOOLEAN, NEW own, NEW vs, NEW c, NEW R, NEW md,
           TasksOK(tasks, own, vs, c, R, md), CurrentOK(tasks, pages), PagesOK(pages, own, c, R),
           Ends(k, sub)
    PROVE  /\ pages' \in [Tabs -> PageType] /\ tasks' \subseteq TaskType
           /\ TasksOK(tasks', own, vs, c, R, md) /\ CurrentOK(tasks', pages')
           /\ PagesOK(pages', own, c, R)
           /\ \A t \in Tabs : /\ pages'[t].gen = pages[t].gen /\ pages'[t].healthy = pages[t].healthy
                              /\ pages'[t].user = pages[t].user
<1> DEFINE p == pages[k.tab]
           q == [p EXCEPT !.subscribed = sub, !.loading = FALSE]
<1>1. k.tab \in Tabs /\ p \in PageType
  BY DEF TaskType
<1>2. pages[k.tab].gen = k.gen
  BY DEF CurrentOK
<1>3. tasks' = tasks \ {k} /\ pages' = [pages EXCEPT ![k.tab] = q]
  BY <1>2 DEF Ends
<1>4. /\ q \in PageType /\ ~q.loading /\ q.gen = p.gen /\ q.healthy = p.healthy /\ q.user = p.user
      /\ q.open = p.open /\ q.inst = p.inst /\ q.boot = p.boot
  BY <1>1 DEF PageType
<1>5. PageOK(p, own, c, R) => PageOK(q, own, c, R)
  BY <1>4 DEF PageOK
<1> HIDE DEF q
<1>6. pages' \in [Tabs -> PageType] /\ pages'[k.tab] = q /\ \A t \in Tabs : t # k.tab => pages'[t] = pages[t]
  BY <1>1, <1>3, <1>4
<1>7. PagesOK(pages', own, c, R)
  BY <1>1, <1>5, <1>6 DEF PagesOK
<1>8. TasksOK(tasks', own, vs, c, R, md)
  BY <1>3 DEF TasksOK
<1>9. CurrentOK(tasks', pages')
  <2>1. \A l \in tasks' : l \in tasks /\ l # k /\ l.tab \in Tabs
    BY <1>3 DEF TaskType
  <2>2. \A l \in tasks' : l.current => pages'[l.tab].gen = l.gen
    BY <2>1, <1>4, <1>6 DEF CurrentOK
  <2>3. \A l, m \in tasks' : l.current /\ m.current /\ l.tab = m.tab => l = m
    BY <2>1 DEF CurrentOK
  <2>4. \A t \in Tabs : pages'[t].loading => \E l \in tasks' : l.current /\ l.tab = t
    <3> SUFFICES ASSUME NEW t \in Tabs, pages'[t].loading
                 PROVE  \E l \in tasks' : l.current /\ l.tab = t
      OBVIOUS
    <3>1. t # k.tab /\ pages[t].loading
      BY <1>4, <1>6
    <3>2. PICK l \in tasks : l.current /\ l.tab = t
      BY <3>1 DEF CurrentOK
    <3> QED
      BY <3>1, <3>2, <1>3
  <2> QED
    BY <2>2, <2>3, <2>4 DEF CurrentOK
<1>10. \A t \in Tabs : /\ pages'[t].gen = pages[t].gen /\ pages'[t].healthy = pages[t].healthy
                       /\ pages'[t].user = pages[t].user
  BY <1>4, <1>6
<1> QED
  BY <1>3, <1>6, <1>7, <1>8, <1>9, <1>10

LEMMA InstallationIs ==
    ASSUME stored \in RecordType, made \in [endpoint : Nat, inst : Nat], NEW k \in TaskType,
           NEW own, NEW c, NEW R, StoredOK(stored, own, c, R), Belongs(own, k.gen, k.user)
    PROVE  Installation(k) \in RecordType /\ StoredOK(Installation(k), own, c, R)
<1>1. CASE OwnedBy(stored, k.gen, k.user)
  BY <1>1 DEF Installation
<1>2. CASE ~OwnedBy(stored, k.gen, k.user)
  <2>1. Installation(k) = Record(made.inst + 1, FALSE, k.gen, k.user)
    BY <1>2 DEF Installation
  <2>2. made.inst + 1 \in Nat
    OBVIOUS
  <2>3. Record(made.inst + 1, FALSE, k.gen, k.user) \in RecordType
    BY <2>2 DEF Record, RecordType, TaskType
  <2> QED
    BY <2>1, <2>3 DEF Record, StoredOK
<1> QED
  BY <1>1, <1>2

\* A save is sent with the cookie of the moment, or with one that is not valid.
LEMMA PersistsKeeps ==
    ASSUME pages \in [Tabs -> PageType], tasks \subseteq TaskType, stored \in RecordType,
           made \in [endpoint : Nat, inst : Nat], Len(owner) \in Nat, cookie \in 0..Len(owner), valid \subseteq 1..Len(owner),
           NEW k \in tasks, k.current, NEW sub \in Nat, NEW conflicts \in BOOLEAN,
           NEW R, NEW md, sub \in 1..md,
           TasksOK(tasks, owner, valid, Live, R, md), CurrentOK(tasks, pages),
           StoredOK(stored, owner, Live, R), Persists(k, sub, conflicts)
    PROVE  /\ pages' = pages /\ tasks' \subseteq TaskType /\ stored' \in RecordType
           /\ TasksOK(tasks', owner, valid, Live, R, md) /\ CurrentOK(tasks', pages)
           /\ StoredOK(stored', owner, Live, R)
<1> DEFINE sent == IF pages[k.tab].trusted THEN cookie ELSE 0
           inst == Installation(k).inst
           next == [k EXCEPT !.stage = "saving", !.sub = sub, !.inst = inst,
                              !.conflicts = conflicts, !.sent = sent]
<1>1. k \in TaskType /\ TaskOK(k, owner, valid, Live, R, md)
  BY DEF TasksOK
<1>2. Installation(k) \in RecordType /\ StoredOK(Installation(k), owner, Live, R)
  <2>1. Belongs(owner, k.gen, k.user)
    BY <1>1 DEF TaskOK
  <2> QED
    BY <1>1, <2>1, InstallationIs
<1>3. stored' = Installation(k) /\ tasks' = (tasks \ {k}) \cup {next} /\ pages' = pages
  BY DEF Persists, Continues
<1>4. inst \in Nat
  BY <1>2 DEF RecordType
<1>5. sent \in Nat /\ (sent # 0 => sent \in 1..Len(owner)) /\ (sent \in valid => sent = Live)
  BY DEF Live
<1> HIDE DEF sent, inst
<1>6. next \in TaskType /\ next.tab = k.tab /\ next.gen = k.gen /\ next.current = k.current
  BY <1>1, <1>4, <1>5 DEF TaskType, TaskStages
<1>7. TaskOK(next, owner, valid, Live, R, md)
  BY <1>1, <1>5 DEF TaskOK, TaskType
<1> HIDE DEF next
<1>8. /\ (tasks \ {k}) \cup {next} \subseteq TaskType
      /\ TasksOK((tasks \ {k}) \cup {next}, owner, valid, Live, R, md)
      /\ CurrentOK((tasks \ {k}) \cup {next}, pages)
  BY <1>6, <1>7, SwapKeeps
<1> QED
  BY <1>2, <1>3, <1>8

\* A save of the browser's session leaves it registered, whatever rows of the
\* user it replaces.
LEMMA RegisteredIs ==
    ASSUME rows \subseteq RowType, NEW k \in TaskType, NEW md,
           RowsOK(rows, owner, md), k.sent \in 1..Len(owner), k.sub \in 1..md
    PROVE  /\ Registered(k).rows \subseteq RowType /\ Registered(k).inst \in Nat
           /\ RowsOK(Registered(k).rows, owner, md) /\ \E r \in Registered(k).rows : r.gen = k.sent
<1> DEFINE mine == {r \in rows : UserOf(r.gen) = UserOf(k.sent) /\ (r.endpoint = k.sub \/ r.inst = k.inst)}
           known == {r \in mine : r.endpoint = k.sub}
           inst == IF known = {} THEN k.inst ELSE (CHOOSE r \in known : TRUE).inst
           row == Row(k.sub, inst, k.sent)
<1>1. inst \in Nat
  <2>1. CASE known = {}
    BY <2>1 DEF TaskType
  <2>2. CASE known # {}
    <3>1. (CHOOSE r \in known : TRUE) \in rows
      BY <2>2
    <3> QED
      BY <2>2, <3>1 DEF RowType
  <2> QED
    BY <2>1, <2>2
<1>2. Registered(k) = [inst |-> inst, rows |-> (rows \ mine) \cup {row}]
  BY DEF Registered
<1>3. \A r \in rows \ mine : owner[r.gen] = owner[k.sent] => r.endpoint # k.sub
  BY DEF RowsOK, UserOf
<1> HIDE DEF inst, mine
<1>4. row \in RowType /\ row.gen = k.sent /\ row.endpoint = k.sub
  BY <1>1 DEF Row, RowType, TaskType
<1> HIDE DEF row
<1>5. RowsOK((rows \ mine) \cup {row}, owner, md)
  BY <1>3, <1>4 DEF RowsOK
<1> QED
  BY <1>1, <1>2, <1>4, <1>5

-----------------------------------------------------------------------------
(* Leases and the messages about them.                                     *)

\* What a lease is about: two pictures of page u agree on it.
Agree(ps, ps2, u) == ps2[u].gen = ps[u].gen /\ ps2[u].healthy = ps[u].healthy /\ ps2[u].user = ps[u].user

LEMMA LeaseMessageIs ==
    ASSUME NEW t \in Tabs, NEW p \in PageType
    PROVE  /\ LeaseMessage(t, p) \in MessageType /\ LeaseMessage(t, p).type = "lease"
           /\ LeaseMessage(t, p).tab = t /\ FromPage(LeaseMessage(t, p), t)
           /\ LeaseMessage(t, p).gen # 0 => LeaseMessage(t, p).gen = p.gen /\ p.healthy
BY DEF LeaseMessage, MessageType, PageType, FromPage

LEMMA RefreshMessageIs ==
    /\ RefreshMessage \in MessageType /\ RefreshMessage.type = "refresh"
    /\ \A t : ~FromPage(RefreshMessage, t)
BY DEF RefreshMessage, MessageType, FromPage

LEMMA LeasesAgree ==
    ASSUME NEW ls \in Seq(LeaseType), NEW ml \in Seq(MessageType), NEW ps, NEW ps2,
           LeasesOK(ls, ml, ps), \A u \in Tabs : Agree(ps, ps2, u)
    PROVE  LeasesOK(ls, ml, ps2)
<1>1. \A i \in DOMAIN ls : ls[i].tab \in Tabs
  <2>1. \A i \in DOMAIN ls : ls[i] \in LeaseType
    OBVIOUS
  <2> QED
    BY <2>1 DEF LeaseType
<1>2. \A i \in DOMAIN ml : ml[i].type = "lease" => ml[i].tab \in Tabs
  <2>1. \A i \in DOMAIN ml : ml[i] \in MessageType
    OBVIOUS
  <2> QED
    BY <2>1 DEF MessageType
<1>3. \A u \in Tabs : LeaseMessage(u, ps2[u]) = LeaseMessage(u, ps[u])
  BY DEF LeaseMessage, Agree
<1> QED
  BY <1>1, <1>2, <1>3 DEF LeasesOK, Agree

\* A page refreshes, or changes and says so.
LEMMA LeasesRefresh ==
    ASSUME NEW ls \in Seq(LeaseType), NEW ml \in Seq(MessageType), NEW ps, LeasesOK(ls, ml, ps)
    PROVE  /\ Append(ml, RefreshMessage) \in Seq(MessageType)
           /\ LeasesOK(ls, Append(ml, RefreshMessage), ps)
<1> DEFINE ml2 == Append(ml, RefreshMessage)
<1>0. Len(ml) \in Nat /\ DOMAIN ml = 1..Len(ml)
  OBVIOUS
<1>1. ml2 \in Seq(MessageType) /\ DOMAIN ml2 = 1..(Len(ml) + 1)
  BY RefreshMessageIs
<1>2. \A i \in DOMAIN ml : ml2[i] = ml[i] /\ i \in DOMAIN ml2
  OBVIOUS
<1>3. ml2[Len(ml) + 1] = RefreshMessage
  OBVIOUS
<1> HIDE DEF ml2
<1>4. \A i \in DOMAIN ml2 : ml2[i].type = "lease" => i \in DOMAIN ml
  <2> TAKE i \in DOMAIN ml2
  <2> QED
    BY <1>0, <1>1, <1>3, RefreshMessageIs
<1>5. \A i \in DOMAIN ml2 : \A t \in Tabs : LastFrom(ml2, i, t) => i \in DOMAIN ml /\ LastFrom(ml, i, t)
  BY <1>2, <1>4 DEF LastFrom, FromPage
<1>6. \A t \in Tabs : Silent(ml2, t) => Silent(ml, t)
  BY <1>2 DEF Silent
<1>7. LeasesOK(ls, ml2, ps)
  BY <1>2, <1>4, <1>5, <1>6 DEF LeasesOK
<1> QED
  BY <1>1, <1>7 DEF ml2

LEMMA LeasesPost ==
    ASSUME NEW ls \in Seq(LeaseType), NEW ml \in Seq(MessageType), NEW ps,
           NEW ps2 \in [Tabs -> PageType], LeasesOK(ls, ml, ps), NEW t \in Tabs,
           \A u \in Tabs \ {t} : Agree(ps, ps2, u), ps[t].gen # 0 => ps2[t].gen # 0
    PROVE  /\ Append(ml, LeaseMessage(t, ps2[t])) \in Seq(MessageType)
           /\ LeasesOK(ls, Append(ml, LeaseMessage(t, ps2[t])), ps2)
<1> DEFINE m == LeaseMessage(t, ps2[t])
           ml2 == Append(ml, m)
<1>0. Len(ml) \in Nat /\ DOMAIN ml = 1..Len(ml)
  OBVIOUS
<1>m. m \in MessageType /\ m.type = "lease" /\ m.tab = t /\ FromPage(m, t) /\ (m.gen # 0 => m.gen = ps2[t].gen)
  BY LeaseMessageIs
<1> HIDE DEF m
<1>1. ml2 \in Seq(MessageType) /\ DOMAIN ml2 = 1..(Len(ml) + 1)
  BY <1>m
<1>2. \A i \in DOMAIN ml : ml2[i] = ml[i] /\ i \in DOMAIN ml2 /\ i < Len(ml) + 1
  BY <1>0
<1>3. ml2[Len(ml) + 1] = m
  OBVIOUS
<1> HIDE DEF ml2
<1>4. \A i \in DOMAIN ml2 : i \in DOMAIN ml \/ i = Len(ml) + 1
  BY <1>0, <1>1
<1>5. \A i \in DOMAIN ml2 : \A u \in Tabs : LastFrom(ml2, i, u) => ml2[i] = LeaseMessage(u, ps2[u])
  <2> SUFFICES ASSUME NEW i \in DOMAIN ml2, NEW u \in Tabs, LastFrom(ml2, i, u)
               PROVE  ml2[i] = LeaseMessage(u, ps2[u])
    OBVIOUS
  <2>1. CASE u = t
    <3>1. i = Len(ml) + 1
      <4>1. ~(Len(ml) + 1 > i)
        BY <2>1, <1>m, <1>3, <1>1, <1>0 DEF LastFrom
      <4> QED
        BY <4>1, <1>2, <1>4, <1>0
    <3> QED
      BY <3>1, <1>3, <2>1 DEF m
  <2>2. CASE u # t
    <3>1. i \in DOMAIN ml
      BY <1>4, <1>3, <1>m, <2>2 DEF LastFrom, FromPage
    <3>2. LastFrom(ml, i, u)
      BY <1>2, <3>1 DEF LastFrom
    <3>3. ml[i] = LeaseMessage(u, ps[u])
      BY <3>1, <3>2 DEF LeasesOK
    <3> QED
      BY <1>2, <3>1, <3>3, <2>2 DEF LeaseMessage, Agree
  <2> QED
    BY <2>1, <2>2
<1>6. \A u \in Tabs : Silent(ml2, u) => u # t /\ Silent(ml, u)
  BY <1>0, <1>1, <1>2, <1>3, <1>m DEF Silent
<1>7. \A i \in DOMAIN ls : ls[i].tab \in Tabs /\ ps2[ls[i].tab].gen # 0
  <2> SUFFICES ASSUME NEW i \in DOMAIN ls
               PROVE  ls[i].tab \in Tabs /\ ps2[ls[i].tab].gen # 0
    OBVIOUS
  <2>1. ls[i] \in LeaseType
    OBVIOUS
  <2>2. ls[i].tab \in Tabs /\ ps[ls[i].tab].gen # 0
    BY <2>1 DEF LeaseType, LeasesOK
  <2> QED
    BY <2>2 DEF Agree
<1>8. \A i \in DOMAIN ml2 : ml2[i].type = "lease" /\ ml2[i].gen # 0 => ps2[ml2[i].tab].gen # 0
  <2> SUFFICES ASSUME NEW i \in DOMAIN ml2, ml2[i].type = "lease" /\ ml2[i].gen # 0
               PROVE  ps2[ml2[i].tab].gen # 0
    OBVIOUS
  <2>1. CASE i = Len(ml) + 1
    BY <2>1, <1>3, <1>m
  <2>2. CASE i \in DOMAIN ml
    <3>1. ml[i] \in MessageType /\ ml[i].type = "lease" /\ ml[i].gen # 0
      BY <2>2, <1>2
    <3>2. ml[i].tab \in Tabs /\ ps[ml[i].tab].gen # 0
      BY <3>1, <2>2 DEF MessageType, LeasesOK
    <3> QED
      BY <3>2, <2>2, <1>2 DEF Agree
  <2> QED
    BY <2>1, <2>2, <1>4
<1>9. \A u \in Tabs : Silent(ml2, u) =>
        \A i \in DOMAIN ls : ls[i].tab = u => ls[i].gen = ps2[u].gen /\ ps2[u].healthy
  BY <1>6 DEF LeasesOK, Agree
<1>10. LeasesOK(ls, ml2, ps2)
  BY <1>5, <1>7, <1>8, <1>9 DEF LeasesOK
<1> QED
  BY <1>1, <1>10 DEF ml2, m

\* With page t go its lease and its messages; the other pages keep theirs.
LEMMA LeasesWithoutPage ==
    ASSUME leases \in Seq(LeaseType), mail \in Seq(MessageType), LeasesOK(leases, mail, pages),
           pages \in [Tabs -> PageType], \A u \in Tabs : pages[u].gen # 0 => pages[u].open,
           NEW t \in Tabs, NEW ps \in [Tabs -> PageType], NEW q \in [Tabs -> PageType],
           \A u \in Tabs \ {t} : Agree(pages, ps, u) /\ q[u].open = pages[u].open, ~q[t].open
    PROVE  /\ LeasesOf(q) \in Seq(LeaseType) /\ MailOf(q) \in Seq(MessageType)
           /\ LeasesOK(LeasesOf(q), MailOf(q), ps)
<1> DEFINE I == {i \in DOMAIN leases : q[leases[i].tab].open}
           J == {i \in DOMAIN mail : mail[i].type = "refresh" \/ q[mail[i].tab].open}
           ls == LeasesOf(q)
           ml == MailOf(q)
           at(k) == Nth(I, k)
           of(k) == Nth(J, k)
<1>1. I \subseteq DOMAIN leases /\ J \subseteq DOMAIN mail
  OBVIOUS
<1>2. \A i \in I : i \in DOMAIN leases /\ q[leases[i].tab].open
  OBVIOUS
<1>3. \A i \in DOMAIN leases : leases[i].tab \in Tabs
  <2>1. \A i \in DOMAIN leases : leases[i] \in LeaseType
    OBVIOUS
  <2> QED
    BY <2>1 DEF LeaseType
<1>4. \A i \in DOMAIN mail : /\ mail[i].type = "lease" => mail[i].tab \in Tabs
                             /\ \A u : FromPage(mail[i], u) => mail[i].type # "refresh" /\ mail[i].tab = u
  <2>1. \A i \in DOMAIN mail : mail[i] \in MessageType
    OBVIOUS
  <2> QED
    BY <2>1 DEF MessageType, FromPage
<1>5. \A i \in J : i \in DOMAIN mail /\ (mail[i].type = "refresh" \/ q[mail[i].tab].open)
  OBVIOUS
<1>6. \A i \in DOMAIN leases : leases[i].tab # t => i \in I
  BY <1>3 DEF LeasesOK
<1>7. \A i \in DOMAIN mail : mail[i].type = "refresh" \/ q[mail[i].tab].open => i \in J
  OBVIOUS
<1>8. /\ ls \in Seq(LeaseType) /\ Len(ls) <= Len(leases) /\ Len(ls) \in Nat
      /\ \A k \in DOMAIN ls : at(k) \in I /\ ls[k] = leases[at(k)]
      /\ \A k, l \in DOMAIN ls : k < l => at(k) < at(l)
      /\ DOMAIN ls = 1..Len(ls)
      /\ \A i \in I : \E k \in DOMAIN ls : at(k) = i
  <2>1. LeasesOf(q) = Only(leases, I)
    BY DEF LeasesOf
  <2> HIDE DEF I
  <2>2. /\ Only(leases, I) \in Seq(LeaseType)
        /\ Len(Only(leases, I)) \in Nat /\ Len(Only(leases, I)) <= Len(leases)
        /\ DOMAIN Only(leases, I) = 1..Len(Only(leases, I))
        /\ \A k \in DOMAIN Only(leases, I) : Nth(I, k) \in I /\ Only(leases, I)[k] = leases[Nth(I, k)]
        /\ \A k, l \in DOMAIN Only(leases, I) : k < l => Nth(I, k) < Nth(I, l)
        /\ \A i \in I : \E k \in DOMAIN Only(leases, I) : Nth(I, k) = i
    BY <1>1, OnlyKeeps
  <2> QED
    BY <2>1, <2>2
<1>9. /\ ml \in Seq(MessageType) /\ DOMAIN ml = 1..Len(ml) /\ Len(ml) \in Nat
      /\ \A k \in DOMAIN ml : of(k) \in J /\ ml[k] = mail[of(k)]
      /\ \A k, l \in DOMAIN ml : k < l => of(k) < of(l)
      /\ \A i \in J : \E k \in DOMAIN ml : of(k) = i
  <2>1. MailOf(q) = Only(mail, J)
    BY DEF MailOf
  <2> HIDE DEF J
  <2>2. /\ Only(mail, J) \in Seq(MessageType)
        /\ Len(Only(mail, J)) \in Nat /\ Len(Only(mail, J)) <= Len(mail)
        /\ DOMAIN Only(mail, J) = 1..Len(Only(mail, J))
        /\ \A k \in DOMAIN Only(mail, J) : Nth(J, k) \in J /\ Only(mail, J)[k] = mail[Nth(J, k)]
        /\ \A k, l \in DOMAIN Only(mail, J) : k < l => Nth(J, k) < Nth(J, l)
        /\ \A i \in J : \E k \in DOMAIN Only(mail, J) : Nth(J, k) = i
    BY <1>1, OnlyKeeps
  <2> QED
    BY <2>1, <2>2
<1> HIDE DEF I, J, ls, ml, at, of
<1>10. Len(ls) <= LeaseLimit
  <2>1. Len(leases) <= LeaseLimit /\ Len(leases) \in Nat
    BY DEF LeasesOK
  <2> QED
    BY <1>8, <2>1, DeviceAssumption DEF DeviceAssumption
<1>11. \A k, l \in DOMAIN ls : k # l => ls[k].tab # ls[l].tab
  <2> SUFFICES ASSUME NEW k \in DOMAIN ls, NEW l \in DOMAIN ls, k # l
               PROVE  ls[k].tab # ls[l].tab
    OBVIOUS
  <2>1. at(k) \in DOMAIN leases /\ at(l) \in DOMAIN leases
    BY <1>8, <1>2
  <2>2. at(k) < at(l) \/ at(l) < at(k)
    <3>1. k \in Int /\ l \in Int
      BY <1>8
    <3>2. k < l \/ l < k
      BY <3>1
    <3> QED
      BY <3>2, <1>8
  <2>3. at(k) # at(l)
    <3>1. at(k) \in Int /\ at(l) \in Int
      BY <2>1
    <3> QED
      BY <2>2, <3>1
  <2> QED
    BY <2>1, <2>3, <1>8 DEF LeasesOK
<1>12. \A k \in DOMAIN ls : /\ at(k) \in DOMAIN leases /\ ls[k] = leases[at(k)]
                            /\ ls[k].tab \in Tabs \ {t}
  <2> TAKE k \in DOMAIN ls
  <2>1. at(k) \in DOMAIN leases /\ ls[k] = leases[at(k)] /\ q[leases[at(k)].tab].open
    BY <1>8, <1>2
  <2> QED
    BY <2>1, <1>3
<1>13. \A k \in DOMAIN ls : ps[ls[k].tab].gen # 0
  BY <1>12 DEF LeasesOK, Agree
<1>14. \A k \in DOMAIN ml : /\ of(k) \in DOMAIN mail /\ ml[k] = mail[of(k)]
                            /\ ml[k].type = "lease" => ml[k].tab \in Tabs \ {t}
  <2> TAKE k \in DOMAIN ml
  <2>1. of(k) \in DOMAIN mail /\ ml[k] = mail[of(k)] /\ (mail[of(k)].type = "refresh" \/ q[mail[of(k)].tab].open)
    BY <1>9, <1>5
  <2> QED
    BY <2>1, <1>4
<1>15. \A k \in DOMAIN ml : ml[k].type = "lease" /\ ml[k].gen # 0 => ps[ml[k].tab].gen # 0
  <2> SUFFICES ASSUME NEW k \in DOMAIN ml, ml[k].type = "lease", ml[k].gen # 0
               PROVE  ps[ml[k].tab].gen # 0
    OBVIOUS
  <2>1. pages[ml[k].tab].gen # 0
    BY <1>14 DEF LeasesOK
  <2> QED
    BY <2>1, <1>14 DEF Agree
<1>16. \A u \in Tabs : \A j \in DOMAIN mail : FromPage(mail[j], u) /\ q[u].open =>
            \E l \in DOMAIN ml : of(l) = j /\ FromPage(ml[l], u)
  <2> SUFFICES ASSUME NEW u \in Tabs, NEW j \in DOMAIN mail, FromPage(mail[j], u), q[u].open
               PROVE  \E l \in DOMAIN ml : of(l) = j /\ FromPage(ml[l], u)
    OBVIOUS
  <2>1. j \in J
    BY <1>4, <1>7
  <2> QED
    BY <2>1, <1>9
<1>17. \A k \in DOMAIN ml : \A u \in Tabs : LastFrom(ml, k, u) => ml[k] = LeaseMessage(u, ps[u])
  <2> SUFFICES ASSUME NEW k \in DOMAIN ml, NEW u \in Tabs, LastFrom(ml, k, u)
               PROVE  ml[k] = LeaseMessage(u, ps[u])
    OBVIOUS
  <2>1. FromPage(mail[of(k)], u) /\ u # t
    BY <1>14 DEF LastFrom, FromPage
  <2>2. q[u].open
    BY <1>9, <1>5, <1>4, <2>1
  <2>3. LastFrom(mail, of(k), u)
    <3> SUFFICES ASSUME NEW j \in DOMAIN mail, j > of(k), FromPage(mail[j], u)
                 PROVE  FALSE
      BY <2>1 DEF LastFrom
    <3>1. PICK l \in DOMAIN ml : of(l) = j /\ FromPage(ml[l], u)
      BY <1>16, <2>2
    <3>2. ~(l > k)
      BY <3>1 DEF LastFrom
    <3>3. k \in Int /\ l \in Int /\ of(k) \in Int /\ j \in Int
      BY <1>9, <1>14
    <3>4. l = k \/ l < k
      BY <3>2, <3>3
    <3>5. l = k \/ of(l) < of(k)
      BY <3>4, <1>9
    <3> QED
      BY <3>5, <3>1, <3>3
  <2>4. mail[of(k)] = LeaseMessage(u, pages[u])
    BY <2>3, <1>14 DEF LeasesOK
  <2> QED
    BY <2>1, <2>4, <1>14 DEF LeaseMessage, Agree
<1>18. \A u \in Tabs : Silent(ml, u) =>
            \A k \in DOMAIN ls : ls[k].tab = u => ls[k].gen = ps[u].gen /\ ps[u].healthy
  <2> SUFFICES ASSUME NEW u \in Tabs, Silent(ml, u), NEW k \in DOMAIN ls, ls[k].tab = u
               PROVE  ls[k].gen = ps[u].gen /\ ps[u].healthy
    OBVIOUS
  <2>1. u # t /\ q[u].open
    BY <1>12, <1>8, <1>2
  <2>2. Silent(mail, u)
    BY <1>16, <2>1 DEF Silent
  <2>3. leases[at(k)].gen = pages[u].gen /\ pages[u].healthy
    BY <2>2, <1>12 DEF LeasesOK
  <2> QED
    BY <2>1, <2>3, <1>12 DEF Agree
<1>19. LeasesOK(ls, ml, ps)
  BY <1>10, <1>11, <1>13, <1>15, <1>17, <1>18 DEF LeasesOK
<1> QED
  BY <1>8, <1>9, <1>19 DEF ls, ml

LEMMA TailIs ==
    ASSUME NEW T, NEW s \in Seq(T), s # <<>>
    PROVE  /\ Tail(s) \in Seq(T) /\ Len(Tail(s)) = Len(s) - 1 /\ Len(s) \in Nat \ {0}
           /\ Head(s) = s[1] /\ 1 \in DOMAIN s /\ Head(s) \in T
           /\ \A i \in DOMAIN Tail(s) : i + 1 \in DOMAIN s /\ Tail(s)[i] = s[i + 1]
           /\ \A i \in DOMAIN s : i = 1 \/ (i - 1 \in DOMAIN Tail(s) /\ Tail(s)[i - 1] = s[i])
OBVIOUS

LEMMA AppendIs ==
    ASSUME NEW T, NEW s \in Seq(T), NEW e \in T
    PROVE  /\ Append(s, e) \in Seq(T) /\ Len(Append(s, e)) = Len(s) + 1 /\ Len(s) \in Nat
           /\ DOMAIN Append(s, e) = 1..(Len(s) + 1) /\ DOMAIN s = 1..Len(s)
           /\ Append(s, e)[Len(s) + 1] = e /\ \A i \in DOMAIN s : Append(s, e)[i] = s[i]
OBVIOUS

\* The worker's Map after a message: one lease a page, at most as many as the
\* limit, of the other pages as before and of this one as it says.
LEMMA LeasesWithIs ==
    ASSUME leases \in Seq(LeaseType), Len(leases) <= LeaseLimit,
           \A i, j \in DOMAIN leases : i # j => leases[i].tab # leases[j].tab,
           NEW m, m.tab \in Tabs, m.gen \in Nat
    PROVE  /\ LeasesWith(m) \in Seq(LeaseType) /\ Len(LeasesWith(m)) <= LeaseLimit
           /\ \A i, j \in DOMAIN LeasesWith(m) : i # j => LeasesWith(m)[i].tab # LeasesWith(m)[j].tab
           /\ \A i \in DOMAIN LeasesWith(m) :
                \/ LeasesWith(m)[i].tab # m.tab /\ \E j \in DOMAIN leases : LeasesWith(m)[i] = leases[j]
                \/ m.gen # 0 /\ LeasesWith(m)[i] = [tab |-> m.tab, gen |-> m.gen]
<1> DEFINE I == NotOf(m.tab)
           rest == Only(leases, I)
           new == [tab |-> m.tab, gen |-> m.gen]
           all == IF m.gen = 0 THEN rest ELSE Append(rest, new)
           Good(ls) == \A i \in DOMAIN ls :
                \/ ls[i].tab # m.tab /\ \E j \in DOMAIN leases : ls[i] = leases[j]
                \/ m.gen # 0 /\ ls[i] = new
           Apart(ls) == \A i, j \in DOMAIN ls : i # j => ls[i].tab # ls[j].tab
<1>0. Len(leases) \in Nat /\ LeaseLimit \in Nat \ {0}
  BY DeviceAssumption DEF DeviceAssumption
<1>1. I \subseteq DOMAIN leases /\ \A i \in I : leases[i].tab # m.tab
  BY DEF NotOf
<1> HIDE DEF I
<1>2. /\ rest \in Seq(LeaseType) /\ Len(rest) \in Nat /\ Len(rest) <= Len(leases)
      /\ DOMAIN rest = 1..Len(rest)
      /\ \A k \in DOMAIN rest : Nth(I, k) \in I /\ rest[k] = leases[Nth(I, k)]
      /\ \A k, l \in DOMAIN rest : k < l => Nth(I, k) < Nth(I, l)
  BY <1>1, OnlyKeeps
<1> HIDE DEF rest
<1>3. Good(rest)
  BY <1>1, <1>2
<1>4. Apart(rest)
  <2> SUFFICES ASSUME NEW k \in DOMAIN rest, NEW l \in DOMAIN rest, k # l
               PROVE  rest[k].tab # rest[l].tab
    OBVIOUS
  <2>1. k \in Int /\ l \in Int
    BY <1>2
  <2>2. k < l \/ l < k
    BY <2>1
  <2>3. Nth(I, k) < Nth(I, l) \/ Nth(I, l) < Nth(I, k)
    BY <2>2, <1>2
  <2>4. Nth(I, k) \in DOMAIN leases /\ Nth(I, l) \in DOMAIN leases
    BY <1>1, <1>2
  <2>5. Nth(I, k) # Nth(I, l)
    BY <2>3, <2>4
  <2> QED
    BY <2>4, <2>5, <1>2
<1>5. new \in LeaseType /\ new.tab = m.tab
  BY DEF LeaseType
<1> HIDE DEF new
<1>6. /\ all \in Seq(LeaseType) /\ Len(all) \in Nat /\ Len(all) <= LeaseLimit + 1
      /\ Good(all) /\ Apart(all)
  <2>1. CASE m.gen = 0
    BY <2>1, <1>0, <1>2, <1>3, <1>4
  <2>2. CASE m.gen # 0
    <3>1. all = Append(rest, new)
      BY <2>2
    <3>2. /\ all \in Seq(LeaseType) /\ Len(all) = Len(rest) + 1 /\ DOMAIN all = 1..(Len(rest) + 1)
          /\ all[Len(rest) + 1] = new /\ \A i \in DOMAIN rest : all[i] = rest[i]
      <4>1. new \in LeaseType /\ rest \in Seq(LeaseType)
        BY <1>2, <1>5
      <4>2. /\ Append(rest, new) \in Seq(LeaseType) /\ Len(Append(rest, new)) = Len(rest) + 1
            /\ DOMAIN Append(rest, new) = 1..(Len(rest) + 1)
            /\ Append(rest, new)[Len(rest) + 1] = new
            /\ \A i \in DOMAIN rest : Append(rest, new)[i] = rest[i]
        BY ONLY <4>1, AppendIs
      <4> QED
        BY ONLY <3>1, <4>2
    <3> HIDE DEF all
    <3>3. \A i \in DOMAIN all : i \in DOMAIN rest \/ i = Len(rest) + 1
      BY <3>2, <1>2
    <3>4. Good(all)
      BY <3>2, <3>3, <1>3, <2>2
    <3>5. Apart(all)
      <4> SUFFICES ASSUME NEW i \in DOMAIN all, NEW j \in DOMAIN all, i # j
                   PROVE  all[i].tab # all[j].tab
        OBVIOUS
      <4>1. \A k \in DOMAIN rest : all[k].tab # m.tab
        BY <3>2, <1>1, <1>2
      <4>2. CASE i \in DOMAIN rest /\ j \in DOMAIN rest
        BY <4>2, <3>2, <1>4
      <4>3. CASE i = Len(rest) + 1
        BY <4>1, <4>3, <3>2, <3>3, <1>5
      <4>4. CASE j = Len(rest) + 1
        BY <4>1, <4>4, <3>2, <3>3, <1>5
      <4> QED
        BY <4>2, <4>3, <4>4, <3>3
    <3> QED
      BY <3>2, <3>4, <3>5, <1>0, <1>2
  <2> QED
    BY <2>1, <2>2
<1>7. LeasesWith(m) = IF Len(all) > LeaseLimit THEN Tail(all) ELSE all
  BY DEF LeasesWith, rest, new, I
<1> HIDE DEF all
<1>8. CASE Len(all) > LeaseLimit
  <2>1. all # <<>>
    BY <1>0, <1>6, <1>8
  <2> DEFINE tl == Tail(all)
  <2>2. /\ tl \in Seq(LeaseType) /\ Len(tl) = Len(all) - 1
        /\ \A i \in DOMAIN tl : i + 1 \in DOMAIN all /\ tl[i] = all[i + 1]
    BY <1>6, <2>1, TailIs
  <2>3. Len(tl) <= LeaseLimit
    BY <1>0, <1>6, <2>2
  <2> HIDE DEF tl
  <2>4. Good(tl)
    BY <1>6, <2>2
  <2>5. \A i, j \in DOMAIN tl : i # j => i + 1 # j + 1
    BY <2>2
  <2>6. Apart(tl)
    BY <1>6, <2>2, <2>5
  <2>7. LeasesWith(m) = tl
    BY <1>7, <1>8 DEF tl
  <2> QED
    BY <2>2, <2>3, <2>4, <2>6, <2>7 DEF new
<1>9. CASE ~(Len(all) > LeaseLimit)
  <2>1. LeasesWith(m) = all
    BY <1>7, <1>9
  <2>2. Len(all) <= LeaseLimit
    BY <1>0, <1>6, <1>9
  <2> QED
    BY <2>1, <2>2, <1>6 DEF new
<1> QED
  BY <1>8, <1>9

\* The worker takes a message: if it is a page's last one, the lease is then
\* what the page is.
LEMMA LeasesMail ==
    ASSUME leases \in Seq(LeaseType), mail \in Seq(MessageType), LeasesOK(leases, mail, pages), mail # <<>>,
           NEW ls, NEW ml, ml = Tail(mail),
           ls = IF Head(mail).type = "refresh" THEN leases ELSE LeasesWith(Head(mail))
    PROVE  ls \in Seq(LeaseType) /\ ml \in Seq(MessageType) /\ LeasesOK(ls, ml, pages)
<1> DEFINE m == Head(mail)
<1>1. /\ ml \in Seq(MessageType) /\ m = mail[1] /\ 1 \in DOMAIN mail /\ m \in MessageType
      /\ \A i \in DOMAIN ml : i + 1 \in DOMAIN mail /\ ml[i] = mail[i + 1]
      /\ \A i \in DOMAIN mail : i = 1 \/ (i - 1 \in DOMAIN ml /\ ml[i - 1] = mail[i])
  BY TailIs
<1> HIDE DEF m
<1>2. \A i \in DOMAIN ml : \A t \in Tabs : LastFrom(ml, i, t) => LastFrom(mail, i + 1, t)
  <2> SUFFICES ASSUME NEW i \in DOMAIN ml, NEW t \in Tabs, LastFrom(ml, i, t),
                      NEW j \in DOMAIN mail, j > i + 1, FromPage(mail[j], t)
               PROVE  FALSE
    BY <1>1 DEF LastFrom
  <2>1. i \in Nat \ {0} /\ j \in Nat
    BY <1>1
  <2>2. j - 1 \in DOMAIN ml /\ ml[j - 1] = mail[j] /\ j - 1 > i
    BY <1>1, <2>1
  <2> QED
    BY <2>2 DEF LastFrom
<1>3. \A i \in DOMAIN ml : \A t \in Tabs : LastFrom(ml, i, t) => ml[i] = LeaseMessage(t, pages[t])
  BY <1>1, <1>2 DEF LeasesOK
<1>4. \A i \in DOMAIN ml : ml[i].type = "lease" /\ ml[i].gen # 0 => pages[ml[i].tab].gen # 0
  BY <1>1 DEF LeasesOK
<1>5. \A t \in Tabs : Silent(ml, t) => Silent(mail, t) \/ LastFrom(mail, 1, t)
  <2> SUFFICES ASSUME NEW t \in Tabs, Silent(ml, t) PROVE Silent(mail, t) \/ LastFrom(mail, 1, t)
    OBVIOUS
  <2>1. \A j \in DOMAIN mail : j # 1 => ~FromPage(mail[j], t)
    BY <1>1 DEF Silent
  <2> QED
    BY <2>1, <1>1 DEF Silent, LastFrom
<1>6. CASE m.type = "refresh"
  <2>1. ls = leases
    BY <1>6 DEF m
  <2>2. \A t \in Tabs : ~LastFrom(mail, 1, t)
    BY <1>1, <1>6 DEF LastFrom, FromPage
  <2>3. LeasesOK(ls, ml, pages)
    BY <2>1, <2>2, <1>3, <1>4, <1>5 DEF LeasesOK
  <2> QED
    BY <2>1, <2>3, <1>1
<1>7. CASE m.type # "refresh"
  <2>1. m.type = "lease" /\ m.tab \in Tabs /\ m.gen \in Nat
    BY <1>1, <1>7 DEF MessageType
  <2>2. ls = LeasesWith(m)
    BY <1>7 DEF m
  <2>3. /\ Len(leases) <= LeaseLimit
        /\ \A i, j \in DOMAIN leases : i # j => leases[i].tab # leases[j].tab
    BY DEF LeasesOK
  <2>4. /\ ls \in Seq(LeaseType) /\ Len(ls) <= LeaseLimit
        /\ \A i, j \in DOMAIN ls : i # j => ls[i].tab # ls[j].tab
        /\ \A i \in DOMAIN ls :
             \/ ls[i].tab # m.tab /\ \E j \in DOMAIN leases : ls[i] = leases[j]
             \/ m.gen # 0 /\ ls[i] = [tab |-> m.tab, gen |-> m.gen]
    BY <2>1, <2>2, <2>3, LeasesWithIs
  <2>5. \A i \in DOMAIN ls : pages[ls[i].tab].gen # 0
    <3>1. m.gen # 0 => pages[m.tab].gen # 0
      BY <1>1, <2>1 DEF LeasesOK
    <3> QED
      BY <2>4, <3>1 DEF LeasesOK
  <2>6. \A t \in Tabs : Silent(ml, t) =>
          \A i \in DOMAIN ls : ls[i].tab = t => ls[i].gen = pages[t].gen /\ pages[t].healthy
    <3> SUFFICES ASSUME NEW t \in Tabs, Silent(ml, t), NEW i \in DOMAIN ls, ls[i].tab = t
                 PROVE  ls[i].gen = pages[t].gen /\ pages[t].healthy
      OBVIOUS
    <3>1. CASE t = m.tab
      <4>1. m.gen # 0 /\ ls[i].gen = m.gen
        BY <2>4, <3>1
      <4>2. FromPage(mail[1], t)
        BY <3>1, <1>1, <2>1 DEF FromPage
      <4>3. LastFrom(mail, 1, t)
        BY <4>2, <1>1, <1>5 DEF Silent
      <4>4. m = LeaseMessage(t, pages[t])
        BY <4>3, <1>1 DEF LeasesOK
      <4> QED
        BY <4>1, <4>4 DEF LeaseMessage
    <3>2. CASE t # m.tab
      <4>1. ~FromPage(mail[1], t)
        BY <3>2, <1>1 DEF FromPage
      <4>2. Silent(mail, t)
        BY <4>1, <1>5 DEF LastFrom
      <4>3. PICK j \in DOMAIN leases : ls[i] = leases[j]
        BY <2>4, <3>2
      <4> QED
        BY <4>2, <4>3 DEF LeasesOK
    <3> QED
      BY <3>1, <3>2
  <2>7. LeasesOK(ls, ml, pages)
    BY <2>4, <2>5, <2>6, <1>3, <1>4 DEF LeasesOK
  <2> QED
    BY <2>4, <2>7, <1>1
<1> QED
  BY <1>6, <1>7

-----------------------------------------------------------------------------
(* Pushes and clicks.                                                      *)

\* Handlers that go through a step together keep their names.
LEMMA MapSingle ==
    ASSUME NEW hs, NEW F \in [hs -> HandlerType], Single(hs), \A h \in hs : Turn(F[h]) = Turn(h)
    PROVE  Single({F[h] : h \in hs}) /\ {F[h] : h \in hs} \subseteq HandlerType
BY DEF Single

\* One handler goes on as another one.
LEMMA SwapHandler ==
    ASSUME handlers \subseteq HandlerType, NEW h \in handlers, NEW next \in HandlerType,
           NEW c, NEW un, NEW ac, NEW rf, NEW ft, NEW n,
           HandlersOK(handlers, c, un, ac, rf, ft, n), Single(handlers), TurnsOK(rf, ft, handlers),
           Turn(next) = Turn(h), h.stage # "refreshing", HandlerOK(next, c, un, ac, rf, ft, n)
    PROVE  /\ (handlers \ {h}) \cup {next} \subseteq HandlerType
           /\ HandlersOK((handlers \ {h}) \cup {next}, c, un, ac, rf, ft, n)
           /\ Single((handlers \ {h}) \cup {next}) /\ TurnsOK(rf, ft, (handlers \ {h}) \cup {next})
<1> DEFINE hs == (handlers \ {h}) \cup {next}
<1>1. hs \subseteq HandlerType
  OBVIOUS
<1>2. HandlersOK(hs, c, un, ac, rf, ft, n)
  BY DEF HandlersOK
<1>3. Single(hs)
  BY DEF Single
<1>4. \A l \in handlers : l.stage = "refreshing" => l \in hs
  OBVIOUS
<1> HIDE DEF hs
<1>5. TurnsOK(rf, ft, hs)
  BY <1>4 DEF TurnsOK
<1> QED
  BY <1>1, <1>2, <1>3, <1>5 DEF hs

\* What the handlers under way witness of a session that is the browser's now.
LEMMA WitnessKeeps ==
    ASSUME handlers \subseteq HandlerType, NEW g \in Nat,
           NEW c, NEW un, NEW ac, NEW rf, NEW ft, NEW n,
           HandlersOK(handlers, c, un, ac, rf, ft, n), Single(handlers), TurnsOK(rf, ft, handlers)
    PROVE  /\ Witness(g) \subseteq HandlerType
           /\ HandlersOK(Witness(g), g, un, ac, rf, ft, n)
           /\ Single(Witness(g)) /\ TurnsOK(rf, ft, Witness(g))
<1> DEFINE w(h) == IF Active(h) THEN [h EXCEPT !.had = @ \/ g = h.gen, !.moved = @ \/ g # h.gen] ELSE h
           F == [h \in handlers |-> w(h)]
<1>1. \A h \in handlers : h \in HandlerType
  OBVIOUS
<1>2. \A h \in HandlerType : /\ w(h) \in HandlerType /\ Turn(w(h)) = Turn(h) /\ w(h).stage = h.stage
                             /\ w(h).n = h.n /\ w(h).gen = h.gen /\ w(h).read = h.read
                             /\ Active(h) => /\ w(h).had <=> (h.had \/ g = h.gen)
                                             /\ w(h).failed <=> h.failed
                                             /\ w(h).moved <=> (h.moved \/ g # h.gen)
                             /\ ~Active(h) => w(h) = h
  <2> TAKE h \in HandlerType
  <2> DEFINE a == h.had \/ g = h.gen
             b == h.moved \/ g # h.gen
             v == [h EXCEPT !.had = a, !.moved = b]
  <2>1. a \in BOOLEAN /\ b \in BOOLEAN /\ (a <=> (h.had \/ g = h.gen)) /\ (b <=> (h.moved \/ g # h.gen))
    OBVIOUS
  <2>2. w(h) = IF Active(h) THEN v ELSE h
    BY Zenon DEF w
  <2> HIDE DEF a, b, w
  <2>3. /\ v \in HandlerType /\ v.kind = h.kind /\ v.n = h.n /\ v.gen = h.gen /\ v.stage = h.stage
        /\ v.read = h.read /\ v.failed = h.failed /\ v.had = a /\ v.moved = b
    BY <2>1 DEF HandlerType
  <2> HIDE DEF v
  <2>4. CASE Active(h)
    BY <2>1, <2>2, <2>3, <2>4 DEF Turn
  <2>5. CASE ~Active(h)
    BY <2>2, <2>5
  <2> QED
    BY <2>4, <2>5
<1>3. Witness(g) = {w(h) : h \in handlers}
  BY DEF Witness
<1> HIDE DEF w
<1>4. F \in [handlers -> HandlerType] /\ \A h \in handlers : F[h] = w(h)
  BY <1>1, <1>2
<1>5. Witness(g) = {F[h] : h \in handlers}
  BY <1>3, <1>4
<1> HIDE DEF F
<1>6. Single(Witness(g)) /\ Witness(g) \subseteq HandlerType
  <2>1. \A h \in handlers : Turn(F[h]) = Turn(h)
    BY <1>1, <1>2, <1>4
  <2> QED
    BY <1>4, <1>5, <2>1, MapSingle
<1>7. \A h \in handlers : HandlerOK(w(h), g, un, ac, rf, ft, n)
  <2> SUFFICES ASSUME NEW h \in handlers
               PROVE  HandlerOK(w(h), g, un, ac, rf, ft, n)
    OBVIOUS
  <2>1. HandlerOK(h, c, un, ac, rf, ft, n)
    BY DEF HandlersOK
  <2>2. CASE Active(h)
    BY <2>1, <2>2, <1>1, <1>2 DEF HandlerOK, Excused, Active
  <2>3. CASE ~Active(h)
    BY <2>1, <2>3, <1>1, <1>2 DEF HandlerOK, Active
  <2> QED
    BY <2>2, <2>3
<1>8. HandlersOK(Witness(g), g, un, ac, rf, ft, n)
  BY <1>3, <1>7 DEF HandlersOK
<1>9. TurnsOK(rf, ft, Witness(g))
  <2>1. \A h \in handlers : w(h) \in Witness(g) /\ Turn(w(h)) = Turn(h) /\ w(h).stage = h.stage
    BY <1>1, <1>2, <1>3
  <2> QED
    BY <2>1 DEF TurnsOK
<1> QED
  BY <1>6, <1>8, <1>9

\* The first refresh is answered with session a: whoever it is not the
\* session of has seen another one, or the request has failed.
LEMMA AnswerKeeps ==
    ASSUME NEW hs, NEW a \in Nat, NEW c, NEW un, NEW ac, NEW rf, NEW n,
           HandlersOK(hs, c, un, ac, rf, None, n),
           \A h \in hs : Active(h) /\ a # h.gen => Excused(h)
    PROVE  HandlersOK(hs, c, un, ac, rf, a, n)
BY DEF HandlersOK, HandlerOK, Active

\* A handler begins: its refresh is the last one, and there was none of its.
LEMMA StartsKeeps ==
    ASSUME handlers \subseteq HandlerType, refreshes \in Seq(TurnType), NEW h \in HandlerType,
           NEW n \in Nat, Live \in Nat,
           HandlersOK(handlers, Live, unread, account, refreshes, fetched, n), Single(handlers),
           TurnsOK(refreshes, fetched, handlers), h.n \in 1..n, h.gen # 0,
           \A l \in handlers : Turn(l) = Turn(h) => l = h /\ l.stage = "sent",
           Starts(h)
    PROVE  /\ handlers' \subseteq HandlerType /\ refreshes' \in Seq(TurnType)
           /\ HandlersOK(handlers', Live, unread, account, refreshes', fetched, n) /\ Single(handlers')
           /\ TurnsOK(refreshes', fetched, handlers')
<1> DEFINE next == [h EXCEPT !.stage = "refreshing", !.had = Live = h.gen, !.moved = Live # h.gen,
                             !.read = h.n \notin unread]
           mine == [kind |-> h.kind, n |-> h.n]
<1>1. handlers' = (handlers \ {h}) \cup {next} /\ refreshes' = Append(refreshes, mine)
  BY DEF Starts
<1>2. /\ next \in HandlerType /\ Turn(next) = mine /\ next.stage = "refreshing" /\ next.n = h.n
      /\ next.gen = h.gen /\ next.had = (Live = h.gen) /\ next.moved = (Live # h.gen)
      /\ next.read = (h.n \notin unread)
  BY DEF HandlerType, HandlerStages, Turn
<1>3. Turn(h) = mine /\ mine \in TurnType /\ mine.kind # "message"
  BY DEF HandlerType, TurnType, Turn
<1> HIDE DEF next, mine
<1>4. /\ refreshes' \in Seq(TurnType) /\ Len(refreshes) \in Nat
      /\ DOMAIN refreshes' = 1..(Len(refreshes) + 1) /\ DOMAIN refreshes = 1..Len(refreshes)
      /\ refreshes'[Len(refreshes) + 1] = mine /\ \A i \in DOMAIN refreshes : refreshes'[i] = refreshes[i]
  <2>1. /\ Append(refreshes, mine) \in Seq(TurnType) /\ Len(refreshes) \in Nat
        /\ DOMAIN Append(refreshes, mine) = 1..(Len(refreshes) + 1) /\ DOMAIN refreshes = 1..Len(refreshes)
        /\ Append(refreshes, mine)[Len(refreshes) + 1] = mine
        /\ \A i \in DOMAIN refreshes : Append(refreshes, mine)[i] = refreshes[i]
    BY <1>3, AppendIs
  <2> QED
    BY <1>1, <2>1
<1>5. \A i \in DOMAIN refreshes : refreshes[i] # mine
  <2> SUFFICES ASSUME NEW i \in DOMAIN refreshes, refreshes[i] = mine
               PROVE  FALSE
    OBVIOUS
  <2>1. PICK l \in handlers : Turn(l) = refreshes[i] /\ l.stage = "refreshing"
    BY <1>3 DEF TurnsOK
  <2> QED
    BY <2>1, <1>3
<1>6. refreshes # <<>> => /\ Head(refreshes') = Head(refreshes) /\ Head(refreshes) = refreshes[1]
                          /\ 1 \in DOMAIN refreshes
  <2> SUFFICES ASSUME refreshes # <<>>
               PROVE  /\ Head(refreshes') = Head(refreshes) /\ Head(refreshes) = refreshes[1]
                      /\ 1 \in DOMAIN refreshes
    OBVIOUS
  <2>1. 1 \in DOMAIN refreshes /\ Head(refreshes) = refreshes[1]
    OBVIOUS
  <2>2. Head(refreshes') = refreshes'[1]
    BY <1>1, <1>3
  <2> QED
    BY <2>1, <2>2, <1>4
<1>7. fetched # None => refreshes # <<>>
  BY DEF TurnsOK
<1>8. \A l \in handlers : HandlerOK(l, Live, unread, account, refreshes', fetched, n)
  <2> SUFFICES ASSUME NEW l \in handlers
               PROVE  HandlerOK(l, Live, unread, account, refreshes', fetched, n)
    OBVIOUS
  <2>1. HandlerOK(l, Live, unread, account, refreshes, fetched, n)
    BY DEF HandlersOK
  <2> QED
    BY <2>1, <1>6, <1>7 DEF HandlerOK
<1>9. HandlerOK(next, Live, unread, account, refreshes', fetched, n)
  <2>1. refreshes # <<>> => Head(refreshes') # Turn(next)
    BY <1>2, <1>5, <1>6
  <2> QED
    BY <2>1, <1>2, <1>7 DEF HandlerOK
<1>10. HandlersOK(handlers', Live, unread, account, refreshes', fetched, n)
  BY <1>1, <1>8, <1>9 DEF HandlersOK
<1>11. Single(handlers')
  BY <1>1, <1>2, <1>3 DEF Single
<1>12. TurnsOK(refreshes', fetched, handlers')
  <2>1. \A i \in DOMAIN refreshes' : i \in DOMAIN refreshes \/ (i = Len(refreshes) + 1 /\ refreshes'[i] = mine)
    BY <1>4
  <2>2. \A i \in DOMAIN refreshes' : refreshes'[i].kind # "message" =>
            \E l \in handlers' : Turn(l) = refreshes'[i] /\ l.stage = "refreshing"
    <3> SUFFICES ASSUME NEW i \in DOMAIN refreshes', refreshes'[i].kind # "message"
                 PROVE  \E l \in handlers' : Turn(l) = refreshes'[i] /\ l.stage = "refreshing"
      OBVIOUS
    <3>1. CASE i \in DOMAIN refreshes
      <4>1. PICK l \in handlers : Turn(l) = refreshes[i] /\ l.stage = "refreshing"
        BY <3>1, <1>4 DEF TurnsOK
      <4>2. l # h
        BY <4>1, <3>1, <1>3, <1>5
      <4> QED
        BY <4>1, <4>2, <3>1, <1>1, <1>4
    <3>2. CASE i = Len(refreshes) + 1
      BY <3>2, <1>1, <1>2, <1>4
    <3> QED
      BY <3>1, <3>2, <2>1
  <2>3. \A i, j \in DOMAIN refreshes' : i # j /\ refreshes'[i].kind # "message" => refreshes'[i] # refreshes'[j]
    BY <2>1, <1>4, <1>5 DEF TurnsOK
  <2>4. refreshes' # <<>>
    BY <1>4
  <2> QED
    BY <2>2, <2>3, <2>4 DEF TurnsOK
<1> QED
  BY <1>1, <1>2, <1>4, <1>10, <1>11, <1>12

-----------------------------------------------------------------------------
(* Sessions begin and end.                                                 *)

Spending == spent' \in [steps : Nat, drops : Nat, pushes : Nat] /\ spent'.pushes = spent.pushes

LEMMA SpendsIs ==
    ASSUME spent \in [steps : Nat, drops : Nat, pushes : Nat], NEW n \in Nat, Spends(n) \/ Unlucky
    PROVE  Spending
<1>1. CASE Spends(n)
  <2>1. spent' = [spent EXCEPT !.steps = @ + n]
    BY <1>1 DEF Spends
  <2> QED
    BY <2>1 DEF Spending
<1>2. CASE Unlucky
  <2>1. spent' = [spent EXCEPT !.drops = @ + 1, !.steps = @ + 1]
    BY <1>2 DEF Unlucky
  <2>2. spent.drops + 1 \in Nat /\ spent.steps + 1 \in Nat
    OBVIOUS
  <2>3. spent' = [steps |-> spent.steps + 1, drops |-> spent.drops + 1, pushes |-> spent.pushes]
    BY <2>1
  <2> QED
    BY <2>2, <2>3 DEF Spending
<1> QED
  BY <1>1, <1>2

LEMMA AllOnward ==
    ASSUME pages \in [Tabs -> PageType], tasks \subseteq TaskType, stored \in RecordType,
           NEW own2, NEW vs2, NEW c2, NEW R2, NEW md \in Nat, NEW md2 \in Nat, md <= md2,
           StoredOK(stored, owner, Live, Evidence), PagesOK(pages, owner, Live, Evidence),
           TasksOK(tasks, owner, valid, Live, Evidence, md),
           Grows(owner, own2), Onward(owner, Live, c2, Evidence, R2),
           Leaves(owner, valid, vs2, Live, c2), 0 \notin vs2
    PROVE  /\ StoredOK(stored, own2, c2, R2) /\ PagesOK(pages, own2, c2, R2)
           /\ TasksOK(tasks, own2, vs2, c2, R2, md2)
<1>1. StoredOK(stored, own2, c2, R2)
  BY RecordOnward
<1>2. PagesOK(pages, own2, c2, R2)
  <2> SUFFICES ASSUME NEW t \in Tabs
               PROVE  PageOK(pages[t], own2, c2, R2)
    BY DEF PagesOK
  <2>1. PageOK(pages[t], owner, Live, Evidence) /\ pages[t] \in PageType
    BY DEF PagesOK
  <2> QED
    BY <2>1, PageOnward
<1>3. TasksOK(tasks, own2, vs2, c2, R2, md2)
  <2> SUFFICES ASSUME NEW k \in tasks
               PROVE  TaskOK(k, own2, vs2, c2, R2, md2)
    BY DEF TasksOK
  <2>1. TaskOK(k, owner, valid, Live, Evidence, md) /\ k \in TaskType
    BY DEF TasksOK
  <2> QED
    BY <2>1, TaskOnward
<1> QED
  BY <1>1, <1>2, <1>3

\* Two pictures of a page that differ in what neither the gateway nor the
\* worker is told of.
Alike(p, q) ==
    /\ q.open = p.open /\ q.gen = p.gen /\ q.user = p.user /\ q.inst = p.inst /\ q.healthy = p.healthy
    /\ q.loading = p.loading /\ q.boot = p.boot

LEMMA LoadedIs ==
    ASSUME NEW g, NEW user \in Account
    PROVE  /\ Loaded(g, user) \in PageType /\ Loaded(g, user).gen = 0 /\ ~Loaded(g, user).healthy
           /\ ~Loaded(g, user).loading
           /\ \A own, c, R : PageOK(Loaded(g, user), own, c, R)
<1> DEFINE b == [Closed.boot EXCEPT !.stage = IF g = 0 THEN "idle" ELSE "sent"]
<1>1. b \in Boot /\ b.stage # "answered"
  BY DEF Closed, Boot
<1>2. Loaded(g, user) = [Closed EXCEPT !.open = TRUE, !.visible = TRUE, !.user = user, !.trusted = TRUE, !.boot = b]
  BY DEF Loaded, Closed
<1> HIDE DEF b
<1>3. /\ Loaded(g, user) \in PageType /\ Loaded(g, user).gen = 0 /\ ~Loaded(g, user).healthy
      /\ ~Loaded(g, user).loading /\ Loaded(g, user).boot = b /\ Loaded(g, user).inst = 0
      /\ Loaded(g, user).open
  <2>1. /\ Closed.boot \in Boot /\ Closed.gen = 0 /\ ~Closed.healthy /\ ~Closed.loading /\ Closed.inst = 0
        /\ Closed \in PageType
    BY DEF Closed, PageType, Boot, Account
  <2> QED
    BY <1>1, <1>2, <2>1 DEF PageType
<1>4. \A own, c, R : PageOK(Loaded(g, user), own, c, R)
  BY <1>1, <1>3 DEF PageOK
<1> QED
  BY <1>3, <1>4

\* Page t is loaded anew, as a step of sessions or on its own.
LEMMA LoadsKeeps ==
    ASSUME pages \in [Tabs -> PageType], tasks \subseteq TaskType, stored \in RecordType,
           mail \in Seq(MessageType), leases \in Seq(LeaseType),
           NEW t \in Tabs, NEW g \in Nat, NEW user \in Account, NEW ps \in [Tabs -> PageType],
           ps[t] = Loaded(g, user), \A u \in Tabs \ {t} : Alike(pages[u], ps[u]),
           NEW own, NEW vs, NEW c, NEW R, NEW md,
           TasksOK(tasks, own, vs, c, R, md), CurrentOK(tasks, pages), PagesOK(pages, own, c, R),
           StoredOK(stored, own, c, R), LeasesOK(leases, mail, pages), Loads(t, g, ps)
    PROVE  /\ pages' \in [Tabs -> PageType] /\ tasks' \subseteq TaskType /\ stored' \in RecordType
           /\ mail' \in Seq(MessageType) /\ leases' \in Seq(LeaseType)
           /\ TasksOK(tasks', own, vs, c, R, md) /\ CurrentOK(tasks', pages')
           /\ PagesOK(pages', own, c, R) /\ StoredOK(stored', own, c, R)
           /\ LeasesOK(leases', mail', pages')
<1> DEFINE q == [ps EXCEPT ![t] = Closed]
<1>1. /\ pages' = ps /\ tasks' = Without(t) /\ stored' = IF g = 0 THEN Cleared ELSE stored
      /\ mail' = Append(MailOf(q), RefreshMessage) /\ leases' = LeasesOf(q)
  BY DEF Loads
<1>2. /\ ps[t] \in PageType /\ ps[t].gen = 0 /\ ~ps[t].healthy /\ ~ps[t].loading /\ PageOK(ps[t], own, c, R)
  BY LoadedIs
<1>3. PagesOK(ps, own, c, R)
  <2> SUFFICES ASSUME NEW u \in Tabs
               PROVE  PageOK(ps[u], own, c, R)
    BY DEF PagesOK
  <2>1. CASE u = t
    BY <2>1, <1>2
  <2>2. CASE u # t
    <3>1. Alike(pages[u], ps[u]) /\ PageOK(pages[u], own, c, R)
      BY <2>2 DEF PagesOK
    <3> QED
      BY <3>1 DEF Alike, PageOK
  <2> QED
    BY <2>1, <2>2
<1>4. /\ Without(t) \subseteq TaskType
      /\ TasksOK(Without(t), own, vs, c, R, md)
      /\ \A k \in Without(t) : k.tab = t => ~k.current
      /\ \A k \in Without(t) : k.current => ps[k.tab].gen = k.gen
      /\ \A k, l \in Without(t) : k.current /\ l.current /\ k.tab = l.tab => k = l
      /\ \A u \in Tabs \ {t} : ps[u].loading => \E k \in Without(t) : k.current /\ k.tab = u
  <2>1. WaitsFor(t, pages, ps)
    BY DEF WaitsFor, Alike
  <2> QED
    BY <2>1, WithoutKeeps
<1>5. CurrentOK(Without(t), ps)
  BY <1>2, <1>4 DEF CurrentOK
<1>6. Cleared \in RecordType /\ StoredOK(Cleared, own, c, R)
  BY DEF Cleared, RecordType, StoredOK
<1>7. Closed \in PageType /\ ~Closed.open
  BY DEF Closed, PageType, Boot, Account
<1>8. /\ q \in [Tabs -> PageType] /\ ~q[t].open
      /\ \A u \in Tabs \ {t} : Agree(pages, ps, u) /\ q[u].open = pages[u].open
  <2>1. q \in [Tabs -> PageType] /\ q[t] = Closed /\ \A u \in Tabs \ {t} : q[u] = ps[u]
    BY <1>7
  <2> HIDE DEF q
  <2> QED
    BY <2>1, <1>7 DEF Agree, Alike
<1>9. \A u \in Tabs : pages[u].gen # 0 => pages[u].open
  BY DEF PagesOK, PageOK
<1> HIDE DEF q
<1>10. /\ LeasesOf(q) \in Seq(LeaseType) /\ MailOf(q) \in Seq(MessageType)
       /\ LeasesOK(LeasesOf(q), MailOf(q), ps)
  BY <1>8, <1>9, LeasesWithoutPage
<1>11. /\ Append(MailOf(q), RefreshMessage) \in Seq(MessageType)
       /\ LeasesOK(LeasesOf(q), Append(MailOf(q), RefreshMessage), ps)
  BY ONLY <1>10, LeasesRefresh
<1>12. stored' \in RecordType /\ StoredOK(stored', own, c, R)
  BY <1>1, <1>6
<1> QED
  BY <1>1, <1>3, <1>4, <1>5, <1>10, <1>11, <1>12

\* A session is left for a new one or for none by the form of page t.
LEMMA RedirectedKeeps ==
    ASSUME DInv, NEW t \in Tabs, NEW g \in Nat, NEW user \in Account, Redirected(t, g, user), Spending,
           owner' \in Seq(Users), valid' \subseteq 1..Len(owner'), g \in {0} \cup valid',
           Grows(owner, owner'), g \notin 1..Len(owner), Leaves(owner, valid, valid', Live, g),
           rows' \subseteq RowType, RowsOK(rows', owner', made.endpoint)
    PROVE  DInv'
<1> DEFINE ps == [u \in Tabs |-> IF u = t THEN Loaded(g, user) ELSE [pages[u] EXCEPT !.trusted = FALSE]]
           md == made.endpoint
<1>1. /\ cookie' = g /\ handlers' = Witness(g) /\ Loads(t, g, ps)
      /\ UNCHANGED <<removed, unread, endpoint, made, account, refreshes, fetched, shown>>
  BY DEF Redirected, Renewed, notes
<1>2. ps \in [Tabs -> PageType] /\ ps[t] = Loaded(g, user) /\ \A u \in Tabs \ {t} : Alike(pages[u], ps[u])
  <2>1. \A u \in Tabs : [pages[u] EXCEPT !.trusted = FALSE] \in PageType
                        /\ Alike(pages[u], [pages[u] EXCEPT !.trusted = FALSE])
    <3>1. \A p \in PageType : [p EXCEPT !.trusted = FALSE] \in PageType /\ Alike(p, [p EXCEPT !.trusted = FALSE])
      BY DEF PageType, Alike
    <3> QED
      BY <3>1 DEF DInv, Shape
  <2>2. Loaded(g, user) \in PageType
    BY LoadedIs
  <2> QED
    BY <2>1, <2>2
<1> HIDE DEF ps
<1>3. /\ pages \in [Tabs -> PageType] /\ tasks \subseteq TaskType /\ stored \in RecordType
      /\ mail \in Seq(MessageType) /\ leases \in Seq(LeaseType) /\ md \in Nat /\ md <= md
  BY DEF DInv, Shape
<1>4. /\ StoredOK(stored, owner, Live, Evidence) /\ PagesOK(pages, owner, Live, Evidence)
      /\ TasksOK(tasks, owner, valid, Live, Evidence, md) /\ CurrentOK(tasks, pages)
      /\ LeasesOK(leases, mail, pages)
  BY DEF DInv, Device, Pages, Tasks, Leases
<1> HIDE DEF md
<1>5. Onward(owner, Live, g, Evidence, Evidence') /\ 0 \notin valid' /\ Live' = g
  BY <1>1 DEF Onward, Live
<1>6. /\ StoredOK(stored, owner', g, Evidence') /\ PagesOK(pages, owner', g, Evidence')
      /\ TasksOK(tasks, owner', valid', g, Evidence', md)
  BY <1>3, <1>4, <1>5, AllOnward
<1>7. /\ pages' \in [Tabs -> PageType] /\ tasks' \subseteq TaskType /\ stored' \in RecordType
      /\ mail' \in Seq(MessageType) /\ leases' \in Seq(LeaseType)
      /\ TasksOK(tasks', owner', valid', g, Evidence', md) /\ CurrentOK(tasks', pages')
      /\ PagesOK(pages', owner', g, Evidence') /\ StoredOK(stored', owner', g, Evidence')
      /\ LeasesOK(leases', mail', pages')
  BY <1>1, <1>2, <1>3, <1>4, <1>6, LoadsKeeps
<1>8. /\ handlers \subseteq HandlerType /\ Single(handlers) /\ TurnsOK(refreshes, fetched, handlers)
      /\ HandlersOK(handlers, Live, unread, account, refreshes, fetched, spent.pushes)
      /\ NotesOK(unread, shown, spent.pushes)
  BY DEF DInv, Shape, Pushes
<1>9. /\ Witness(g) \subseteq HandlerType
      /\ HandlersOK(Witness(g), g, unread, account, refreshes, fetched, spent.pushes)
      /\ Single(Witness(g)) /\ TurnsOK(refreshes, fetched, Witness(g))
  BY <1>8, WitnessKeeps
<1>10. Shape'
  <2>1. cookie' \in 0..Len(owner')
    <3>1. Len(owner') \in Nat
      OBVIOUS
    <3> QED
      BY <3>1, <1>1
  <2> QED
    BY <1>1, <1>3, <1>7, <1>9, <2>1 DEF DInv, Shape, Spending
<1>11. Device'
  <2>1. RowsOK(rows', owner', made'.endpoint) /\ endpoint' \in 0..made'.endpoint
    BY <1>1 DEF DInv, Device
  <2> QED
    BY <1>5, <1>7, <2>1 DEF Device
<1>12. Pages' /\ Tasks' /\ Leases'
  BY <1>1, <1>5, <1>7 DEF Pages, Tasks, Leases, md
<1>13. Pushes'
  BY <1>1, <1>5, <1>8, <1>9 DEF Pushes, Spending
<1> QED
  BY <1>10, <1>11, <1>12, <1>13 DEF DInv

LEMMA SessionsAre ==
    ASSUME DInv
    PROVE  /\ owner \in Seq(Users) /\ Len(owner) \in Nat /\ valid \subseteq 1..Len(owner)
           /\ cookie \in 0..Len(owner) /\ cookie \in Nat /\ 0 \notin valid
           /\ Live \in {0} \cup valid /\ Live \in Nat /\ (cookie \in valid <=> Live # 0)
           /\ Live \in {0, cookie}
           /\ \A g \in 1..Len(owner) : owner[g] \in Users
           /\ UserOf(Live) \in Account
           /\ spent \in [steps : Nat, drops : Nat, pushes : Nat]
<1>1. owner \in Seq(Users) /\ valid \subseteq 1..Len(owner) /\ cookie \in 0..Len(owner) /\ Len(owner) \in Nat
  BY DEF DInv, Shape
<1>2. \A g \in 1..Len(owner) : owner[g] \in Users
  BY <1>1
<1>3. /\ cookie \in Nat /\ 0 \notin valid /\ Live \in {0} \cup valid /\ Live \in Nat
      /\ (cookie \in valid <=> Live # 0) /\ Live \in {0, cookie}
  BY <1>1 DEF Live
<1>4. UserOf(Live) \in Account
  BY <1>1, <1>2, <1>3 DEF UserOf, Account
<1>5. spent \in [steps : Nat, drops : Nat, pushes : Nat]
  BY DEF DInv, Shape
<1> QED
  BY <1>1, <1>2, <1>3, <1>4, <1>5

\* A new session is made: of those there were, the ones that go on are valid
\* still, and the one the browser had is not among them.
LEMMA NextSession ==
    ASSUME DInv, NEW user \in Users, NEW gone, Live \in gone \cup {0},
           owner' = Append(owner, user), valid' = (valid \ gone) \cup {Len(owner) + 1}
    PROVE  /\ owner' \in Seq(Users) /\ Len(owner') = Len(owner) + 1 /\ Len(owner') \in Nat
           /\ owner'[Len(owner) + 1] = user /\ Grows(owner, owner')
           /\ valid' \subseteq 1..Len(owner') /\ Len(owner) + 1 \in valid'
           /\ Len(owner) + 1 \notin 1..Len(owner) /\ Len(owner) + 1 \in Nat /\ 0 \notin valid'
           /\ Leaves(owner, valid, valid', Live, Len(owner) + 1)
<1> DEFINE next == Len(owner) + 1
<1>1. /\ owner \in Seq(Users) /\ Len(owner) \in Nat /\ valid \subseteq 1..Len(owner)
  BY SessionsAre
<1>2. /\ owner' \in Seq(Users) /\ Len(owner') = next /\ owner'[next] = user /\ Grows(owner, owner')
  BY <1>1, AppendGrows
<1>3. next \in Nat /\ next \notin 1..Len(owner) /\ next \in 1..Len(owner') /\ next # 0
  BY <1>1, <1>2
<1>4. \A g \in 1..Len(owner) : g \in 1..Len(owner') /\ g # 0
  BY <1>1, <1>2
<1> HIDE DEF next
<1>5. valid' = (valid \ gone) \cup {next}
  BY DEF next
<1>6. valid' \subseteq 1..Len(owner') /\ next \in valid' /\ 0 \notin valid'
  BY <1>1, <1>3, <1>4, <1>5
<1>7. Leaves(owner, valid, valid', Live, next)
  BY <1>1, <1>3, <1>4, <1>5 DEF Leaves
<1> QED
  BY <1>2, <1>3, <1>6, <1>7 DEF next

\* Registrations go, or go on with the next session of their user.
LEMMA FewerRows ==
    ASSUME NEW R, R \subseteq RowType, NEW own, NEW own2, NEW md, RowsOK(R, own, md),
           Grows(own, own2), NEW S, S \subseteq R
    PROVE  S \subseteq RowType /\ RowsOK(S, own2, md)
BY DEF RowsOK, Grows

LEMMA ReboundIs ==
    ASSUME rows \subseteq RowType, NEW md, RowsOK(rows, owner, md), NEW own2, Grows(owner, own2),
           NEW g \in 1..Len(owner), NEW next \in 1..Len(own2), next \in Nat, own2[next] = owner[g]
    PROVE  Rebound(g, next) \subseteq RowType /\ RowsOK(Rebound(g, next), own2, md)
<1> DEFINE moved(r) == IF r.gen = g THEN [r EXCEPT !.gen = next] ELSE r
<1>1. Rebound(g, next) = {moved(r) : r \in rows}
  BY DEF Rebound
<1>2. \A r \in rows : /\ moved(r) \in RowType /\ moved(r).endpoint = r.endpoint
                      /\ moved(r).gen = IF r.gen = g THEN next ELSE r.gen
  BY DEF RowType
<1> HIDE DEF moved
<1>3. \A r \in rows : moved(r).gen \in 1..Len(own2) /\ own2[moved(r).gen] = owner[r.gen]
  BY <1>2 DEF RowsOK, Grows
<1>4. RowsOK(Rebound(g, next), own2, md)
  BY <1>1, <1>2, <1>3 DEF RowsOK
<1> QED
  BY <1>1, <1>2, <1>4

LEMMA ResetPasswordKeeps ==
    ASSUME DInv, NEW t \in Tabs, ResetPassword(t)
    PROVE  DInv'
<1> DEFINE next == Len(owner) + 1
           user == owner[cookie]
           gone == SessionsOf(user)
<1>1. /\ cookie \in valid /\ Spends(2) /\ owner' = Append(owner, user)
      /\ valid' = (valid \ gone) \cup {next} /\ rows' = Unbound(gone)
      /\ Redirected(t, next, user)
  BY DEF ResetPassword
<1>2. user \in Users /\ user \in Account /\ Live \in gone
  BY <1>1, SessionsAre DEF Account, SessionsOf, Live
<1>3. Spending
  BY <1>1, SessionsAre, SpendsIs
<1> HIDE DEF user, gone
<1>4. /\ owner' \in Seq(Users) /\ Grows(owner, owner') /\ valid' \subseteq 1..Len(owner')
      /\ next \in valid' /\ next \notin 1..Len(owner) /\ next \in Nat
      /\ Leaves(owner, valid, valid', Live, next)
  BY <1>1, <1>2, NextSession
<1> HIDE DEF next
<1>5. rows' \subseteq rows
  BY <1>1 DEF Unbound
<1>6. rows' \subseteq RowType /\ RowsOK(rows', owner', made.endpoint)
  BY <1>4, <1>5, FewerRows DEF DInv, Shape, Device
<1> QED
  BY <1>1, <1>2, <1>3, <1>4, <1>6, RedirectedKeeps

LEMMA LogOutKeeps ==
    ASSUME DInv, NEW t \in Tabs, LogOut(t)
    PROVE  DInv'
<1>1. /\ Spends(1) /\ owner' = owner /\ valid' = valid \ {cookie}
      /\ rows' = Unbound({cookie}) /\ Redirected(t, 0, None)
  BY DEF LogOut
<1>2. /\ Len(owner) \in Nat /\ valid \subseteq 1..Len(owner) /\ owner \in Seq(Users) /\ None \in Account
      /\ Live \in {0, cookie} /\ 0 \notin valid
  BY SessionsAre DEF Account
<1>3. Spending
  BY <1>1, SessionsAre, SpendsIs
<1>4. owner' \in Seq(Users) /\ Grows(owner, owner') /\ valid' \subseteq 1..Len(owner') /\ 0 \notin 1..Len(owner)
  <2>1. Grows(owner, owner) /\ 0 \notin 1..Len(owner)
    BY <1>2 DEF Grows
  <2>2. valid' \subseteq valid
    BY <1>1
  <2> QED
    BY <1>1, <1>2, <2>1, <2>2
<1>5. Leaves(owner, valid, valid', Live, 0)
  BY <1>1, <1>2 DEF Leaves
<1>6. rows' \subseteq RowType /\ RowsOK(rows', owner', made.endpoint)
  <2>1. rows' \subseteq rows
    BY <1>1 DEF Unbound
  <2> QED
    BY <1>4, <2>1, FewerRows DEF DInv, Shape, Device
<1> QED
  BY <1>1, <1>2, <1>3, <1>4, <1>5, <1>6, RedirectedKeeps

LEMMA LogInKeeps ==
    ASSUME DInv, NEW t \in Tabs, NEW user \in Users, LogIn(t, user)
    PROVE  DInv'
<1> DEFINE next == Len(owner) + 1
<1>1. /\ Spends(IF Live = 0 THEN 1 ELSE 2) /\ owner' = Append(owner, user)
      /\ valid' = (valid \ {cookie}) \cup {next} /\ Redirected(t, next, user)
      /\ \/ rows' = Unbound({Live})
         \/ UserOf(cookie) = user /\ rows' = Rebound(cookie, next)
  BY DEF LogIn
<1>2. user \in Account /\ Live \in {cookie} \cup {0} /\ Len(owner) \in Nat /\ cookie \in 0..Len(owner)
  BY SessionsAre DEF Account
<1>3. Spending
  BY <1>1, SessionsAre, SpendsIs
<1>4. /\ owner' \in Seq(Users) /\ Grows(owner, owner') /\ valid' \subseteq 1..Len(owner')
      /\ next \in valid' /\ next \notin 1..Len(owner) /\ next \in Nat /\ owner'[next] = user
      /\ Leaves(owner, valid, valid', Live, next)
  BY <1>1, <1>2, NextSession
<1> HIDE DEF next
<1>5. rows \subseteq RowType /\ RowsOK(rows, owner, made.endpoint)
  BY DEF DInv, Shape, Device
<1>6. rows' \subseteq RowType /\ RowsOK(rows', owner', made.endpoint)
  <2>1. CASE rows' = Unbound({Live})
    <3>1. rows' \subseteq rows
      BY <2>1 DEF Unbound
    <3> QED
      BY <1>4, <1>5, <3>1, FewerRows
  <2>2. CASE UserOf(cookie) = user /\ rows' = Rebound(cookie, next)
    <3>1. cookie \in 1..Len(owner) /\ owner[cookie] = user
      BY <2>2, <1>2, DeviceAssumption DEF UserOf, DeviceAssumption
    <3> QED
      BY <1>4, <1>5, <2>2, <3>1, ReboundIs
  <2> QED
    BY <1>1, <2>1, <2>2
<1> QED
  BY <1>1, <1>2, <1>3, <1>4, <1>6, RedirectedKeeps

LEMMA RotateKeeps ==
    ASSUME DInv, Rotate
    PROVE  DInv'
<1> DEFINE next == Len(owner) + 1
           user == owner[cookie]
           md == made.endpoint
<1>1. /\ cookie \in valid /\ Spends(1) /\ owner' = Append(owner, user)
      /\ valid' = (valid \ {cookie}) \cup {next} /\ rows' = Rebound(cookie, next)
      /\ cookie' = next /\ handlers' = Witness(next)
      /\ UNCHANGED <<removed, unread, endpoint, made, account, refreshes, fetched, shown>>
      /\ UNCHANGED <<pages, tasks, stored, mail, leases>>
  BY DEF Rotate, Renewed, notes
<1>2. user \in Users /\ Live = cookie /\ cookie \in 1..Len(owner) /\ Live \in {cookie} \cup {0}
  BY <1>1, SessionsAre DEF Live
<1>3. Spending
  BY <1>1, SessionsAre, SpendsIs
<1> HIDE DEF user
<1>4. /\ owner' \in Seq(Users) /\ Grows(owner, owner') /\ valid' \subseteq 1..Len(owner')
      /\ next \in valid' /\ next \notin 1..Len(owner) /\ next \in Nat /\ owner'[next] = user
      /\ Len(owner') \in Nat /\ 0 \notin valid' /\ Leaves(owner, valid, valid', Live, next)
  BY <1>1, <1>2, NextSession
<1> HIDE DEF next
<1>5. Live' = next /\ cookie' \in 0..Len(owner')
  BY <1>1, <1>4 DEF Live
<1>6. /\ pages \in [Tabs -> PageType] /\ tasks \subseteq TaskType /\ stored \in RecordType /\ rows \subseteq RowType
      /\ mail \in Seq(MessageType) /\ leases \in Seq(LeaseType) /\ md \in Nat /\ md <= md
  BY DEF DInv, Shape
<1>7. /\ StoredOK(stored, owner, Live, Evidence) /\ PagesOK(pages, owner, Live, Evidence)
      /\ TasksOK(tasks, owner, valid, Live, Evidence, md) /\ CurrentOK(tasks, pages)
      /\ LeasesOK(leases, mail, pages) /\ RowsOK(rows, owner, md)
  BY DEF DInv, Device, Pages, Tasks, Leases
<1> HIDE DEF md
<1>8. rows' \subseteq RowType /\ RowsOK(rows', owner', md)
  BY <1>1, <1>2, <1>4, <1>6, <1>7, ReboundIs DEF user
<1>9. Onward(owner, Live, next, Evidence, Evidence')
  BY <1>4 DEF Onward
<1>10. /\ StoredOK(stored, owner', next, Evidence') /\ PagesOK(pages, owner', next, Evidence')
       /\ TasksOK(tasks, owner', valid', next, Evidence', md)
  BY <1>4, <1>6, <1>7, <1>9, AllOnward
<1>11. /\ handlers \subseteq HandlerType /\ Single(handlers) /\ TurnsOK(refreshes, fetched, handlers)
       /\ HandlersOK(handlers, Live, unread, account, refreshes, fetched, spent.pushes)
       /\ NotesOK(unread, shown, spent.pushes)
  BY DEF DInv, Shape, Pushes
<1>12. /\ Witness(next) \subseteq HandlerType
       /\ HandlersOK(Witness(next), next, unread, account, refreshes, fetched, spent.pushes)
       /\ Single(Witness(next)) /\ TurnsOK(refreshes, fetched, Witness(next))
  BY <1>4, <1>11, WitnessKeeps
<1>13. Shape'
  BY <1>1, <1>3, <1>4, <1>5, <1>6, <1>8, <1>12 DEF DInv, Shape, Spending
<1>14. Device'
  BY <1>1, <1>5, <1>8, <1>10 DEF DInv, Device, md
<1>15. Pages' /\ Tasks' /\ Leases'
  BY <1>1, <1>5, <1>7, <1>10 DEF Pages, Tasks, Leases, md
<1>16. Pushes'
  BY <1>1, <1>3, <1>5, <1>11, <1>12 DEF Pushes, Spending
<1> QED
  BY <1>13, <1>14, <1>15, <1>16 DEF DInv

\* Sessions end without the browser: its own is one of them, or goes on and
\* keeps what speaks for it.
LEMMA SessionsEndKeeps ==
    ASSUME DInv, NEW gone, SessionsEnd(gone), Spending,
           rows' \subseteq rows, \A r \in rows : r.gen \notin gone => r \in rows'
    PROVE  DInv'
<1> DEFINE next == IF cookie \in gone THEN 0 ELSE Live
           md == made.endpoint
<1>1. /\ valid' = valid \ gone /\ handlers' = Witness(next)
      /\ UNCHANGED <<owner, cookie, removed, unread, endpoint, made, stored, pages, tasks, mail, leases,
                     account, refreshes, fetched, shown>>
  BY DEF SessionsEnd, notes, browser
<1>2. /\ owner \in Seq(Users) /\ Len(owner) \in Nat /\ valid \subseteq 1..Len(owner)
      /\ cookie \in 0..Len(owner) /\ 0 \notin valid /\ Live \in Nat /\ Live \in {0, cookie}
  BY SessionsAre
<1>3. next \in Nat /\ Live' = next
  BY <1>1, <1>2 DEF Live
<1>4. /\ valid' \subseteq 1..Len(owner) /\ 0 \notin valid' /\ Leaves(owner, valid, valid', Live, next)
      /\ Grows(owner, owner)
  BY <1>1, <1>2 DEF Leaves, Grows
<1>5. Onward(owner, Live, next, Evidence, Evidence')
  <2>1. CASE cookie \in gone
    BY <2>1, <1>2 DEF Onward
  <2>2. CASE cookie \notin gone /\ Live = 0
    BY <2>2, <1>2 DEF Onward
  <2>3. CASE cookie \notin gone /\ Live # 0
    <3>1. Live = cookie /\ next = Live
      BY <2>3, <1>2
    <3>2. Bound(Evidence, Live) => Bound(Evidence', Live)
      BY <2>3, <3>1, <1>1 DEF Bound, Evidence
    <3> QED
      BY <3>1, <3>2 DEF Onward
  <2> QED
    BY <2>1, <2>2, <2>3
<1> HIDE DEF next
<1>6. /\ pages \in [Tabs -> PageType] /\ tasks \subseteq TaskType /\ stored \in RecordType /\ rows \subseteq RowType
      /\ mail \in Seq(MessageType) /\ leases \in Seq(LeaseType) /\ md \in Nat /\ md <= md
  BY DEF DInv, Shape
<1>7. /\ StoredOK(stored, owner, Live, Evidence) /\ PagesOK(pages, owner, Live, Evidence)
      /\ TasksOK(tasks, owner, valid, Live, Evidence, md) /\ CurrentOK(tasks, pages)
      /\ LeasesOK(leases, mail, pages) /\ RowsOK(rows, owner, md)
  BY DEF DInv, Device, Pages, Tasks, Leases
<1> HIDE DEF md
<1>8. rows' \subseteq RowType /\ RowsOK(rows', owner, md)
  BY <1>4, <1>6, <1>7, FewerRows
<1>9. /\ StoredOK(stored, owner, next, Evidence') /\ PagesOK(pages, owner, next, Evidence')
      /\ TasksOK(tasks, owner, valid', next, Evidence', md)
  BY <1>4, <1>5, <1>6, <1>7, AllOnward
<1>10. /\ handlers \subseteq HandlerType /\ Single(handlers) /\ TurnsOK(refreshes, fetched, handlers)
       /\ HandlersOK(handlers, Live, unread, account, refreshes, fetched, spent.pushes)
       /\ NotesOK(unread, shown, spent.pushes)
  BY DEF DInv, Shape, Pushes
<1>11. /\ Witness(next) \subseteq HandlerType
       /\ HandlersOK(Witness(next), next, unread, account, refreshes, fetched, spent.pushes)
       /\ Single(Witness(next)) /\ TurnsOK(refreshes, fetched, Witness(next))
  BY <1>3, <1>10, WitnessKeeps
<1>12. Shape'
  BY <1>1, <1>2, <1>4, <1>6, <1>8, <1>11 DEF DInv, Shape, Spending
<1>13. Device'
  BY <1>1, <1>3, <1>8, <1>9 DEF DInv, Device, md
<1>14. Pages' /\ Tasks' /\ Leases'
  BY <1>1, <1>3, <1>7, <1>9 DEF Pages, Tasks, Leases, md
<1>15. Pushes'
  BY <1>1, <1>3, <1>10, <1>11 DEF Pushes, Spending
<1> QED
  BY <1>12, <1>13, <1>14, <1>15 DEF DInv

LEMMA SessionExpiresKeeps ==
    ASSUME DInv, NEW g \in valid, SessionExpires(g)
    PROVE  DInv'
<1>1. Spends(1) /\ SessionsEnd({g}) /\ rows' = rows
  BY DEF SessionExpires
<1>2. Spending
  BY <1>1, SessionsAre, SpendsIs
<1> QED
  BY <1>1, <1>2, SessionsEndKeeps

LEMMA ResetElsewhereKeeps ==
    ASSUME DInv, NEW user \in Users, ResetElsewhere(user)
    PROVE  DInv'
<1>1. Spends(1) /\ SessionsEnd(SessionsOf(user)) /\ rows' = Unbound(SessionsOf(user))
  BY DEF ResetElsewhere
<1>2. Spending
  BY <1>1, SessionsAre, SpendsIs
<1>3. rows' \subseteq rows /\ \A r \in rows : r.gen \notin SessionsOf(user) => r \in rows'
  BY <1>1 DEF Unbound
<1> QED
  BY <1>1, <1>2, <1>3, SessionsEndKeeps

LEMMA CookieLostKeeps ==
    ASSUME DInv, CookieLost
    PROVE  DInv'
<1>1. /\ Spends(1) /\ cookie' = 0 /\ pages' = [t \in Tabs |-> Closed] /\ tasks' = {}
      /\ leases' = <<>> /\ mail' = <<>> /\ refreshes' = <<>> /\ fetched' = None
      /\ handlers' = {h \in handlers : ~Active(h)}
      /\ UNCHANGED <<owner, valid, rows, removed, unread, endpoint, made, stored, account, shown>>
  BY DEF CookieLost, browser, registry, notes
<1>2. Spending
  BY <1>1, SessionsAre, SpendsIs
<1>3. Closed \in PageType /\ Closed.gen = 0 /\ ~Closed.healthy /\ ~Closed.loading /\ Closed.inst = 0
      /\ Closed.boot.stage = "idle"
  BY DEF Closed, PageType, Boot, Account
<1>4. \A t \in Tabs : pages'[t] = Closed
  BY <1>1
<1>5. cookie' \in 0..Len(owner') /\ Live' = 0 /\ Evidence' = Evidence
  BY <1>1, SessionsAre DEF Live, Evidence
<1>6. Shape'
  BY <1>1, <1>2, <1>3, <1>5 DEF DInv, Shape, Spending
<1>7. Device'
  <2>1. StoredOK(stored, owner, 0, Evidence)
    BY DEF DInv, Device, StoredOK
  <2> QED
    BY <1>1, <1>5, <2>1 DEF DInv, Device
<1>8. Pages'
  <2>1. \A own, c, R : PageOK(Closed, own, c, R)
    BY <1>3 DEF PageOK
  <2> QED
    BY <1>4, <2>1 DEF Pages, PagesOK
<1>9. Tasks'
  BY <1>1, <1>3, <1>4 DEF Tasks, TasksOK, CurrentOK
<1>10. Leases'
  <2>1. LeasesOK(<<>>, <<>>, pages')
    BY DeviceAssumption DEF LeasesOK, DeviceAssumption
  <2> QED
    BY <1>1, <2>1 DEF Leases
<1>11. Pushes'
  <2>1. /\ NotesOK(unread, shown, spent.pushes) /\ Single(handlers)
        /\ HandlersOK(handlers, Live, unread, account, refreshes, fetched, spent.pushes)
    BY DEF DInv, Pushes
  <2>2. TurnsOK(<<>>, None, handlers')
    BY DEF TurnsOK
  <2>3. Single(handlers')
    BY <1>1, <2>1 DEF Single
  <2>4. HandlersOK(handlers', 0, unread, account, <<>>, None, spent.pushes)
    BY <1>1, <2>1 DEF HandlersOK, HandlerOK, Active
  <2> QED
    BY <1>1, <1>2, <1>5, <2>1, <2>2, <2>3, <2>4 DEF Pushes, Spending
<1> QED
  BY <1>6, <1>7, <1>8, <1>9, <1>10, <1>11 DEF DInv

-----------------------------------------------------------------------------
(* Pages.                                                                  *)

LEMMA BrowserIs ==
    ASSUME DInv
    PROVE  /\ pages \in [Tabs -> PageType] /\ tasks \subseteq TaskType /\ stored \in RecordType
           /\ mail \in Seq(MessageType) /\ leases \in Seq(LeaseType) /\ rows \subseteq RowType
           /\ made \in [endpoint : Nat, inst : Nat] /\ made.endpoint \in Nat /\ endpoint \in 0..made.endpoint
           /\ StoredOK(stored, owner, Live, Evidence) /\ PagesOK(pages, owner, Live, Evidence)
           /\ TasksOK(tasks, owner, valid, Live, Evidence, made.endpoint) /\ CurrentOK(tasks, pages)
           /\ LeasesOK(leases, mail, pages) /\ RowsOK(rows, owner, made.endpoint)
BY DEF DInv, Shape, Device, Pages, Tasks, Leases

\* What requests are of and what speaks for it, where neither is touched.
LEMMA SameSession ==
    ASSUME UNCHANGED session
    PROVE  UNCHANGED <<owner, valid, cookie>> /\ Live' = Live
BY DEF session, Live

LEMMA SameRegistry ==
    ASSUME UNCHANGED registry
    PROVE  UNCHANGED <<rows, removed>> /\ Evidence' = Evidence
BY DEF registry, Evidence

\* A step that leaves sessions and pushes alone.
LEMMA RegistryStep ==
    ASSUME DInv, UNCHANGED <<session, notes, account, refreshes, fetched, handlers, shown>>,
           UNCHANGED spent \/ Spending,
           pages' \in [Tabs -> PageType], tasks' \subseteq TaskType, stored' \in RecordType,
           mail' \in Seq(MessageType), leases' \in Seq(LeaseType), rows' \subseteq RowType,
           made' \in [endpoint : Nat, inst : Nat], endpoint' \in 0..made'.endpoint,
           RowsOK(rows', owner, made'.endpoint),
           StoredOK(stored', owner, Live, Evidence'), PagesOK(pages', owner, Live, Evidence'),
           TasksOK(tasks', owner, valid, Live, Evidence', made'.endpoint), CurrentOK(tasks', pages'),
           LeasesOK(leases', mail', pages')
    PROVE  DInv'
<1>1. UNCHANGED <<owner, valid, cookie, unread, account, refreshes, fetched, handlers, shown>> /\ Live' = Live
  BY SameSession DEF notes
<1>2. spent' \in [steps : Nat, drops : Nat, pushes : Nat] /\ spent'.pushes = spent.pushes
  BY DEF DInv, Shape, Spending
<1>3. endpoint' \in Nat
  OBVIOUS
<1>4. Shape'
  BY <1>1, <1>2, <1>3 DEF DInv, Shape
<1>5. Device' /\ Pages' /\ Tasks' /\ Leases'
  BY <1>1 DEF Device, Pages, Tasks, Leases
<1>6. Pushes'
  BY <1>1, <1>2 DEF DInv, Pushes
<1> QED
  BY <1>4, <1>5, <1>6 DEF DInv

\* One that leaves the registrations alone as well.
LEMMA PageStep ==
    ASSUME DInv, UNCHANGED <<session, registry, notes, account, refreshes, fetched, handlers, shown>>,
           UNCHANGED spent \/ Spending,
           pages' \in [Tabs -> PageType], tasks' \subseteq TaskType, stored' \in RecordType,
           mail' \in Seq(MessageType), leases' \in Seq(LeaseType),
           made' \in [endpoint : Nat, inst : Nat], endpoint' \in 0..made'.endpoint,
           made.endpoint <= made'.endpoint,
           StoredOK(stored', owner, Live, Evidence), PagesOK(pages', owner, Live, Evidence),
           TasksOK(tasks', owner, valid, Live, Evidence, made'.endpoint), CurrentOK(tasks', pages'),
           LeasesOK(leases', mail', pages')
    PROVE  DInv'
<1>1. rows' = rows /\ Evidence' = Evidence
  BY SameRegistry
<1>2. rows \subseteq RowType /\ RowsOK(rows, owner, made'.endpoint)
  <2>1. rows \subseteq RowType /\ RowsOK(rows, owner, made.endpoint) /\ made.endpoint \in Nat /\ made'.endpoint \in Nat
    BY BrowserIs
  <2>2. \A e \in 1..made.endpoint : e \in 1..made'.endpoint
    BY <2>1
  <2> QED
    BY <2>1, <2>2 DEF RowsOK
<1> QED
  BY <1>1, <1>2, RegistryStep

\* A page changes in what its tasks do not depend on.
LEMMA PageChanges ==
    ASSUME DInv, NEW t \in Tabs, NEW q \in PageType, pages' = [pages EXCEPT ![t] = q],
           q.gen = pages[t].gen, q.loading = pages[t].loading, PageOK(q, owner, Live, Evidence)
    PROVE  /\ pages' \in [Tabs -> PageType] /\ PagesOK(pages', owner, Live, Evidence) /\ CurrentOK(tasks, pages')
           /\ pages'[t] = q /\ \A u \in Tabs \ {t} : pages'[u] = pages[u]
<1>1. pages' \in [Tabs -> PageType] /\ pages'[t] = q /\ \A u \in Tabs \ {t} : pages'[u] = pages[u]
  BY BrowserIs
<1>2. PagesOK(pages', owner, Live, Evidence)
  BY <1>1, BrowserIs DEF PagesOK
<1>3. \A u \in Tabs : pages'[u].gen = pages[u].gen /\ pages'[u].loading = pages[u].loading
  BY <1>1
<1>4. CurrentOK(tasks, pages')
  <2>1. \A k \in tasks : k.tab \in Tabs
    BY BrowserIs DEF TaskType
  <2> QED
    BY <1>3, <2>1, BrowserIs DEF CurrentOK
<1> QED
  BY <1>1, <1>2, <1>4

LEMMA PageIs ==
    ASSUME DInv, NEW t \in Tabs
    PROVE  pages[t] \in PageType /\ PageOK(pages[t], owner, Live, Evidence)
BY BrowserIs DEF PagesOK

LEMMA LoadKeeps ==
    ASSUME DInv, NEW t \in Tabs, Load(t)
    PROVE  DInv'
<1> DEFINE user == UserOf(Live)
           ps == [pages EXCEPT ![t] = Loaded(Live, user)]
<1>1. /\ Spends(1) /\ Loads(t, Live, ps)
      /\ UNCHANGED <<session, registry, notes, endpoint, made, account, refreshes, fetched, handlers, shown>>
  BY DEF Load
<1>2. user \in Account /\ Live \in Nat
  BY SessionsAre
<1> HIDE DEF user
<1>3. Spending
  BY <1>1, SessionsAre, SpendsIs
<1>4. ps \in [Tabs -> PageType] /\ ps[t] = Loaded(Live, user) /\ \A u \in Tabs \ {t} : Alike(pages[u], ps[u])
  <2>1. Loaded(Live, user) \in PageType
    BY <1>2, LoadedIs
  <2>2. ps \in [Tabs -> PageType] /\ ps[t] = Loaded(Live, user) /\ \A u \in Tabs \ {t} : ps[u] = pages[u]
    BY <2>1, BrowserIs
  <2> QED
    BY <2>2 DEF Alike
<1> HIDE DEF ps
<1>5. /\ pages' \in [Tabs -> PageType] /\ tasks' \subseteq TaskType /\ stored' \in RecordType
      /\ mail' \in Seq(MessageType) /\ leases' \in Seq(LeaseType)
      /\ TasksOK(tasks', owner, valid, Live, Evidence, made.endpoint) /\ CurrentOK(tasks', pages')
      /\ PagesOK(pages', owner, Live, Evidence) /\ StoredOK(stored', owner, Live, Evidence)
      /\ LeasesOK(leases', mail', pages')
  BY <1>1, <1>2, <1>4, BrowserIs, LoadsKeeps
<1> QED
  BY <1>1, <1>3, <1>5, BrowserIs, PageStep

\* What a page asks and is answered does not concern tasks or the worker.
LEMMA QuietPage ==
    ASSUME DInv, NEW t \in Tabs, NEW q \in PageType, pages' = [pages EXCEPT ![t] = q],
           q.gen = pages[t].gen, q.loading = pages[t].loading, Agree(pages, pages', t),
           PageOK(q, owner, Live, Evidence), UNCHANGED <<session, registry, notes, browser, tasks, worker>>,
           UNCHANGED spent \/ Spending
    PROVE  DInv'
<1>1. /\ pages' \in [Tabs -> PageType] /\ PagesOK(pages', owner, Live, Evidence) /\ CurrentOK(tasks, pages')
      /\ \A u \in Tabs \ {t} : pages'[u] = pages[u]
  BY PageChanges
<1>2. \A u \in Tabs : Agree(pages, pages', u)
  BY <1>1 DEF Agree
<1>3. LeasesOK(leases, mail, pages')
  BY <1>2, BrowserIs, LeasesAgree
<1>4. UNCHANGED <<session, registry, notes, tasks, endpoint, made, stored, mail, leases,
                  account, refreshes, fetched, handlers, shown>>
  BY DEF browser, worker
<1> QED
  BY <1>1, <1>3, <1>4, BrowserIs, PageStep

LEMMA BootServedKeeps ==
    ASSUME DInv, NEW t \in Tabs, BootServed(t)
    PROVE  DInv'
<1> DEFINE own == {r \in rows : r.gen = cookie}
           inst == IF own = {} THEN 0 ELSE (CHOOSE r \in own : TRUE).inst
           b == [stage |-> "answered", gen |-> cookie, inst |-> inst]
           q == [pages[t] EXCEPT !.boot = b]
<1>1. /\ pages[t].boot.stage = "sent" /\ cookie \in valid /\ pages' = [pages EXCEPT ![t] = q]
      /\ UNCHANGED <<session, registry, notes, browser, tasks, worker, spent>>
  BY DEF BootServed
<1>2. inst \in Nat /\ (inst # 0 => Bound(Evidence, cookie))
  <2>1. CASE own = {}
    BY <2>1
  <2>2. CASE own # {}
    <3>1. (CHOOSE r \in own : TRUE) \in own
      BY <2>2
    <3>2. (CHOOSE r \in own : TRUE) \in RowType
      BY <3>1, BrowserIs
    <3> QED
      BY <2>2, <3>1, <3>2 DEF RowType, Bound, Evidence
  <2> QED
    BY <2>1, <2>2
<1> HIDE DEF inst
<1>3. b \in Boot /\ b.stage = "answered" /\ b.gen = cookie /\ b.inst = inst
  BY <1>2, SessionsAre DEF Boot
<1> HIDE DEF b
<1>4. /\ q \in PageType /\ q.boot = b /\ Agree(pages, [pages EXCEPT ![t] = q], t) /\ q.gen = pages[t].gen
      /\ q.loading = pages[t].loading /\ q.open = pages[t].open /\ q.user = pages[t].user
      /\ q.inst = pages[t].inst /\ q.healthy = pages[t].healthy
  BY <1>3, BrowserIs DEF PageType, Agree
<1> HIDE DEF q
<1>5. PageOK(q, owner, Live, Evidence)
  <2>1. cookie = Live /\ cookie \in 1..Len(owner)
    BY <1>1, SessionsAre DEF Live
  <2>2. pages[t].open
    BY <1>1, PageIs DEF PageOK
  <2>3. PageOK(pages[t], owner, Live, Evidence)
    BY PageIs
  <2>4. inst # 0 => Bound(Evidence, Live)
    BY <1>2, <2>1
  <2>5. q.boot.stage = "answered" /\ q.boot.gen = Live /\ q.boot.inst = inst /\ Live \in 1..Len(owner)
    BY <1>3, <1>4, <2>1
  <2> QED
    BY ONLY <1>4, <2>2, <2>3, <2>4, <2>5 DEF PageOK
<1> QED
  BY <1>1, <1>4, <1>5, QuietPage

LEMMA BootFailsKeeps ==
    ASSUME DInv, NEW t \in Tabs, BootFails(t)
    PROVE  DInv'
<1> DEFINE q == [pages[t] EXCEPT !.boot = Closed.boot]
<1>1. /\ pages' = [pages EXCEPT ![t] = q] /\ UNCHANGED <<session, registry, notes, browser, tasks, worker>>
      /\ UNCHANGED spent \/ Spending
  BY SessionsAre, SpendsIs DEF BootFails
<1>2. Closed.boot \in Boot /\ Closed.boot.stage = "idle"
  BY DEF Closed, Boot
<1>3. /\ q \in PageType /\ q.boot = Closed.boot /\ Agree(pages, [pages EXCEPT ![t] = q], t)
      /\ q.gen = pages[t].gen
      /\ q.loading = pages[t].loading /\ q.open = pages[t].open /\ q.user = pages[t].user
      /\ q.inst = pages[t].inst /\ q.healthy = pages[t].healthy
  BY <1>2, BrowserIs DEF PageType, Agree
<1> HIDE DEF q
<1>4. PageOK(q, owner, Live, Evidence)
  BY <1>2, <1>3, PageIs DEF PageOK
<1> QED
  BY <1>1, <1>3, <1>4, QuietPage

LEMMA HideKeeps ==
    ASSUME DInv, NEW t \in Tabs, Hide(t)
    PROVE  DInv'
<1> DEFINE q == [pages[t] EXCEPT !.visible = FALSE]
<1>1. /\ pages' = [pages EXCEPT ![t] = q] /\ UNCHANGED <<session, registry, notes, browser, tasks, worker>>
      /\ Spends(1)
  BY DEF Hide
<1>2. Spending
  BY <1>1, SessionsAre, SpendsIs
<1>3. /\ q \in PageType /\ Agree(pages, [pages EXCEPT ![t] = q], t) /\ Alike(pages[t], q)
  BY BrowserIs DEF PageType, Agree, Alike
<1> HIDE DEF q
<1>4. PageOK(q, owner, Live, Evidence)
  BY <1>3, PageIs DEF PageOK, Alike
<1> QED
  BY <1>1, <1>2, <1>3, <1>4, QuietPage DEF Alike

LEMMA BeginsStep ==
    ASSUME DInv, NEW t \in Tabs, NEW p \in PageType, NEW kind \in {"synchronize", "enable"}, Begins(t, p, kind),
           p.gen # 0, PageOK(p, owner, Live, Evidence)
    PROVE  /\ pages' \in [Tabs -> PageType] /\ tasks' \subseteq TaskType /\ stored' \in RecordType
           /\ TasksOK(tasks', owner, valid, Live, Evidence, made.endpoint) /\ CurrentOK(tasks', pages')
           /\ PagesOK(pages', owner, Live, Evidence) /\ StoredOK(stored', owner, Live, Evidence)
           /\ pages'[t].gen = p.gen /\ pages'[t].healthy = p.healthy /\ pages'[t].user = p.user
           /\ \A u \in Tabs \ {t} : Agree(pages, pages', u)
<1>1. 0 \notin valid
  BY SessionsAre
<1>2. /\ pages' \in [Tabs -> PageType] /\ tasks' \subseteq TaskType /\ stored' \in RecordType
      /\ TasksOK(tasks', owner, valid, Live, Evidence, made.endpoint) /\ CurrentOK(tasks', pages')
      /\ PagesOK(pages', owner, Live, Evidence) /\ StoredOK(stored', owner, Live, Evidence)
  BY <1>1, BrowserIs, BeginsKeeps
<1>3. pages' = [pages EXCEPT ![t] = [p EXCEPT !.loading = TRUE]]
  BY DEF Begins
<1>4. /\ pages'[t].gen = p.gen /\ pages'[t].healthy = p.healthy /\ pages'[t].user = p.user
      /\ \A u \in Tabs \ {t} : pages'[u] = pages[u]
  BY <1>3, BrowserIs DEF PageType
<1> QED
  BY <1>2, <1>4 DEF Agree

\* A task begins on a page that is what it was to the worker.
LEMMA BeginsAlone ==
    ASSUME DInv, NEW t \in Tabs, NEW p \in PageType, NEW kind \in {"synchronize", "enable"}, Begins(t, p, kind),
           p.gen # 0, p.gen = pages[t].gen, p.healthy = pages[t].healthy, p.user = pages[t].user,
           PageOK(p, owner, Live, Evidence), Spending, UNCHANGED <<session, registry, notes, endpoint, made, worker>>
    PROVE  DInv'
<1>1. /\ pages' \in [Tabs -> PageType] /\ tasks' \subseteq TaskType /\ stored' \in RecordType
      /\ TasksOK(tasks', owner, valid, Live, Evidence, made.endpoint) /\ CurrentOK(tasks', pages')
      /\ PagesOK(pages', owner, Live, Evidence) /\ StoredOK(stored', owner, Live, Evidence)
      /\ pages'[t].gen = p.gen /\ pages'[t].healthy = p.healthy /\ pages'[t].user = p.user
      /\ \A u \in Tabs \ {t} : Agree(pages, pages', u)
  BY BeginsStep
<1>2. \A u \in Tabs : Agree(pages, pages', u)
  BY <1>1 DEF Agree
<1>3. LeasesOK(leases, mail, pages')
  BY <1>2, BrowserIs, LeasesAgree
<1>4. UNCHANGED <<session, registry, notes, endpoint, made, mail, leases, account, refreshes, fetched,
                  handlers, shown>>
  BY DEF worker
<1> QED
  BY <1>1, <1>3, <1>4, BrowserIs, PageStep

LEMMA FocusKeeps ==
    ASSUME DInv, NEW t \in Tabs, Focus(t)
    PROVE  DInv'
<1> DEFINE p == [pages[t] EXCEPT !.visible = TRUE]
<1>1. Spending
  BY SessionsAre, SpendsIs DEF Focus
<1>2. UNCHANGED <<session, registry, notes, endpoint, made, worker>>
  BY DEF Focus
<1>3. p \in PageType /\ Agree(pages, [pages EXCEPT ![t] = p], t) /\ Alike(pages[t], p)
  BY BrowserIs DEF PageType, Agree, Alike
<1>4. pages[t].gen # 0 => Begins(t, p, "synchronize")
  BY DEF Focus
<1>5. pages[t].gen = 0 => pages' = [pages EXCEPT ![t] = p] /\ UNCHANGED <<stored, tasks>>
  BY DEF Focus
<1> HIDE DEF p
<1>6. PageOK(p, owner, Live, Evidence)
  BY <1>3, PageIs DEF PageOK, Alike
<1>7. CASE pages[t].gen # 0
  BY <1>1, <1>2, <1>3, <1>4, <1>6, <1>7, BeginsAlone DEF Alike
<1>8. CASE pages[t].gen = 0
  <2>1. UNCHANGED <<session, registry, notes, browser, tasks, worker>>
    BY <1>2, <1>5, <1>8 DEF browser
  <2> QED
    BY <2>1, <1>1, <1>3, <1>5, <1>6, <1>8, QuietPage DEF Alike
<1> QED
  BY <1>7, <1>8

LEMMA EnableKeeps ==
    ASSUME DInv, NEW t \in Tabs, Enable(t)
    PROVE  DInv'
<1>1. Spending
  BY SessionsAre, SpendsIs DEF Enable
<1>2. /\ pages[t].gen # 0 /\ Begins(t, pages[t], "enable")
      /\ UNCHANGED <<session, registry, notes, endpoint, made, worker>>
  BY DEF Enable, BellEnables
<1> QED
  BY <1>1, <1>2, PageIs, BeginsAlone

\* A page changes in what its lease is about and posts it.
LEMMA PostStep ==
    ASSUME DInv, NEW t \in Tabs, NEW q \in PageType, pages' = [pages EXCEPT ![t] = q],
           q.gen = pages[t].gen, q.loading = pages[t].loading, PageOK(q, owner, Live, Evidence),
           mail' = Append(mail, LeaseMessage(t, q)), Spending,
           UNCHANGED <<session, registry, notes, browser, tasks, leases, account, refreshes, fetched, handlers, shown>>
    PROVE  DInv'
<1>1. /\ pages' \in [Tabs -> PageType] /\ PagesOK(pages', owner, Live, Evidence) /\ CurrentOK(tasks, pages')
      /\ pages'[t] = q /\ \A u \in Tabs \ {t} : pages'[u] = pages[u]
  BY PageChanges
<1>2. \A u \in Tabs \ {t} : Agree(pages, pages', u)
  BY <1>1 DEF Agree
<1>3. pages[t].gen # 0 => pages'[t].gen # 0
  BY <1>1
<1>4. /\ Append(mail, LeaseMessage(t, pages'[t])) \in Seq(MessageType)
      /\ LeasesOK(leases, Append(mail, LeaseMessage(t, pages'[t])), pages')
  <2>1. /\ leases \in Seq(LeaseType) /\ mail \in Seq(MessageType) /\ LeasesOK(leases, mail, pages)
    BY BrowserIs
  <2>2. pages' \in [Tabs -> PageType]
    BY <1>1
  <2> QED
    BY ONLY <2>1, <2>2, <1>2, <1>3, t \in Tabs, LeasesPost
<1>5. UNCHANGED <<session, registry, notes, tasks, endpoint, made, stored, leases,
                  account, refreshes, fetched, handlers, shown>>
  BY DEF browser
<1> QED
  BY <1>1, <1>4, <1>5, BrowserIs, PageStep

LEMMA ConnectsKeeps ==
    ASSUME DInv, NEW t \in Tabs, Connects(t)
    PROVE  DInv'
<1> DEFINE b == [pages[t].boot EXCEPT !.stage = IF @ = "idle" THEN "sent" ELSE @]
           q == [pages[t] EXCEPT !.healthy = TRUE, !.boot.stage = IF @ = "idle" THEN "sent" ELSE @]
<1>1. /\ pages[t].gen # 0 /\ pages' = [pages EXCEPT ![t] = q] /\ mail' = Append(mail, LeaseMessage(t, q))
      /\ UNCHANGED <<session, registry, notes, browser, tasks, leases, account, refreshes, fetched, handlers, shown>>
  BY DEF Connects
<1>2. Spending
  BY SessionsAre, SpendsIs DEF Connects
<1>3. /\ b \in Boot /\ b.gen = pages[t].boot.gen /\ b.inst = pages[t].boot.inst
      /\ b.stage = "answered" => pages[t].boot.stage = "answered"
  BY BrowserIs DEF PageType, Boot
<1>4. /\ q \in PageType /\ q.gen = pages[t].gen /\ q.boot = b
      /\ q.loading = pages[t].loading /\ q.open = pages[t].open /\ q.user = pages[t].user
      /\ q.inst = pages[t].inst /\ q.healthy
  BY <1>3, BrowserIs DEF PageType
<1> HIDE DEF q, b
<1>5. PageOK(q, owner, Live, Evidence)
  BY <1>1, <1>3, <1>4, PageIs DEF PageOK
<1> QED
  BY <1>1, <1>2, <1>4, <1>5, PostStep

LEMMA DisconnectsKeeps ==
    ASSUME DInv, NEW t \in Tabs, Disconnects(t)
    PROVE  DInv'
<1> DEFINE q == [pages[t] EXCEPT !.healthy = FALSE]
<1>1. /\ pages' = [pages EXCEPT ![t] = q] /\ mail' = Append(mail, LeaseMessage(t, q))
      /\ UNCHANGED <<session, registry, notes, browser, tasks, leases, account, refreshes, fetched, handlers, shown>>
  BY DEF Disconnects
<1>2. Spending
  BY SessionsAre, SpendsIs DEF Disconnects
<1>3. /\ q \in PageType /\ q.gen = pages[t].gen /\ q.boot = pages[t].boot
      /\ q.loading = pages[t].loading /\ q.open = pages[t].open /\ q.user = pages[t].user
      /\ q.inst = pages[t].inst /\ ~q.healthy
  BY BrowserIs DEF PageType
<1> HIDE DEF q
<1>4. PageOK(q, owner, Live, Evidence)
  BY <1>3, PageIs DEF PageOK
<1> QED
  BY <1>1, <1>2, <1>3, <1>4, PostStep

LEMMA HeartbeatKeeps ==
    ASSUME DInv, NEW t \in Tabs, Heartbeat(t)
    PROVE  DInv'
<1>1. /\ mail' = Append(mail, LeaseMessage(t, pages[t])) /\ Spending
      /\ UNCHANGED <<session, registry, notes, browser, tasks, leases, account, refreshes, fetched, handlers, shown>>
      /\ UNCHANGED pages
  BY SessionsAre, SpendsIs DEF Heartbeat
<1>2. pages' = [pages EXCEPT ![t] = pages[t]]
  BY <1>1, BrowserIs
<1> QED
  BY <1>1, <1>2, PageIs, PostStep

LEMMA BootAppliedKeeps ==
    ASSUME DInv, NEW t \in Tabs, BootApplied(t)
    PROVE  DInv'
<1> DEFINE boot == pages[t].boot
           p == [pages[t] EXCEPT !.gen = boot.gen, !.inst = boot.inst, !.boot = Closed.boot]
           q == [pages[t] EXCEPT !.boot = Closed.boot]
           other == owner[boot.gen] # pages[t].user
<1>1. /\ boot.stage = "answered"
      /\ UNCHANGED <<session, registry, notes, endpoint, made, leases, account, refreshes, fetched,
                      handlers, shown, spent>>
      /\ other => pages' = [pages EXCEPT ![t] = q] /\ UNCHANGED <<stored, tasks, mail>>
      /\ ~other => /\ Begins(t, p, "synchronize")
                   /\ mail' = IF p.gen = pages[t].gen THEN mail
                              ELSE mail \o <<RefreshMessage, LeaseMessage(t, p)>>
  BY DEF BootApplied
<1>2. Closed.boot \in Boot /\ Closed.boot.stage = "idle"
  BY DEF Closed, Boot
<1>3. pages[t] \in PageType /\ PageOK(pages[t], owner, Live, Evidence) /\ boot \in Boot
  BY PageIs DEF PageType
<1>4. CASE other
  <2>1. /\ q \in PageType /\ q.boot = Closed.boot /\ Agree(pages, [pages EXCEPT ![t] = q], t)
        /\ q.gen = pages[t].gen
        /\ q.loading = pages[t].loading /\ q.open = pages[t].open /\ q.user = pages[t].user
        /\ q.inst = pages[t].inst /\ q.healthy = pages[t].healthy
    BY <1>2, BrowserIs DEF PageType, Agree
  <2> HIDE DEF q, other
  <2>2. PageOK(q, owner, Live, Evidence)
    BY <1>2, <2>1, PageIs DEF PageOK
  <2>3. UNCHANGED <<session, registry, notes, browser, tasks, worker, spent>> /\ pages' = [pages EXCEPT ![t] = q]
    BY <1>1, <1>4 DEF browser, worker
  <2> QED
    BY <2>1, <2>2, <2>3, QuietPage
<1>5. CASE ~other
  <2>1. /\ p \in PageType /\ p.boot = Closed.boot /\ p.gen = boot.gen /\ p.inst = boot.inst
        /\ p.open = pages[t].open /\ p.user = pages[t].user /\ p.healthy = pages[t].healthy
    BY <1>2, <1>3 DEF PageType, Boot
  <2>2. Belongs(owner, boot.gen, pages[t].user) /\ boot.gen # 0
    BY <1>1, <1>3, <1>5 DEF PageOK, Belongs
  <2> HIDE DEF p, other
  <2>3. PageOK(p, owner, Live, Evidence)
    BY <1>1, <1>2, <1>3, <2>1, <2>2 DEF PageOK
  <2> HIDE DEF boot
  <2>4. Begins(t, p, "synchronize") /\ p.gen # 0
    BY <1>1, <1>5, <2>1, <2>2
  <2>5. /\ pages' \in [Tabs -> PageType] /\ tasks' \subseteq TaskType /\ stored' \in RecordType
        /\ TasksOK(tasks', owner, valid, Live, Evidence, made.endpoint) /\ CurrentOK(tasks', pages')
        /\ PagesOK(pages', owner, Live, Evidence) /\ StoredOK(stored', owner, Live, Evidence)
        /\ pages'[t].gen = p.gen /\ pages'[t].healthy = p.healthy /\ pages'[t].user = p.user
        /\ \A u \in Tabs \ {t} : Agree(pages, pages', u)
    BY <2>1, <2>3, <2>4, BeginsStep
  <2>6. mail' \in Seq(MessageType) /\ LeasesOK(leases, mail', pages')
    <3>0. /\ leases \in Seq(LeaseType) /\ mail \in Seq(MessageType) /\ LeasesOK(leases, mail, pages)
      BY BrowserIs
    <3>1. CASE p.gen = pages[t].gen
      <4>1. \A u \in Tabs : Agree(pages, pages', u)
        BY <2>1, <2>5, <3>1 DEF Agree
      <4>2. mail' = mail
        BY <1>1, <1>5, <3>1
      <4> QED
        BY <3>0, <4>1, <4>2, LeasesAgree
    <3>2. CASE p.gen # pages[t].gen
      <4>1. LeaseMessage(t, p) = LeaseMessage(t, pages'[t])
        BY <2>5 DEF LeaseMessage
      <4>2. /\ Append(mail, RefreshMessage) \in Seq(MessageType)
            /\ LeasesOK(leases, Append(mail, RefreshMessage), pages)
        BY ONLY <3>0, LeasesRefresh
      <4>3. PICK ml : ml = Append(mail, RefreshMessage)
        OBVIOUS
      <4>4. /\ Append(ml, LeaseMessage(t, pages'[t])) \in Seq(MessageType)
            /\ LeasesOK(leases, Append(ml, LeaseMessage(t, pages'[t])), pages')
        <5>1. ml \in Seq(MessageType) /\ LeasesOK(leases, ml, pages) /\ leases \in Seq(LeaseType)
          BY <3>0, <4>2, <4>3
        <5>2. pages' \in [Tabs -> PageType] /\ (pages[t].gen # 0 => pages'[t].gen # 0)
          BY <2>4, <2>5
        <5> QED
          BY ONLY <5>1, <5>2, <2>5, t \in Tabs, LeasesPost
      <4>5. mail' = Append(ml, LeaseMessage(t, pages'[t]))
        <5>1. mail' = mail \o <<RefreshMessage, LeaseMessage(t, pages'[t])>>
          BY <1>1, <1>5, <3>2, <4>1
        <5>2. RefreshMessage \in MessageType /\ LeaseMessage(t, pages'[t]) \in MessageType
          BY <2>5, RefreshMessageIs, LeaseMessageIs
        <5> QED
          BY <3>0, <4>3, <5>1, <5>2
      <4> QED
        BY <4>4, <4>5
    <3> QED
      BY <3>1, <3>2
  <2> QED
    BY <1>1, <2>5, <2>6, BrowserIs, PageStep
<1> QED
  BY <1>4, <1>5

LEMMA SubscriptionDroppedKeeps ==
    ASSUME DInv, SubscriptionDropped
    PROVE  DInv'
<1>1. endpoint' = 0 /\ UNCHANGED <<session, registry, notes, made, stored, pages, tasks, worker>>
  BY DEF SubscriptionDropped
<1>2. Spending
  BY SessionsAre, SpendsIs DEF SubscriptionDropped
<1>3. UNCHANGED <<account, refreshes, fetched, handlers, shown, mail, leases>>
  BY <1>1 DEF worker
<1>4. endpoint' \in 0..made.endpoint /\ made.endpoint <= made.endpoint
  <2>1. made.endpoint \in Nat
    BY BrowserIs
  <2> QED
    BY <1>1, <2>1
<1> QED
  BY <1>1, <1>2, <1>3, <1>4, BrowserIs, PageStep

-----------------------------------------------------------------------------
(* Tasks.                                                                  *)

LEMMA TaskIs ==
    ASSUME DInv, NEW k \in tasks
    PROVE  /\ k \in TaskType /\ TaskOK(k, owner, valid, Live, Evidence, made.endpoint)
           /\ k.tab \in Tabs /\ (k.current => pages[k.tab].gen = k.gen)
<1>1. k \in TaskType
  BY BrowserIs
<1>2. TaskOK(k, owner, valid, Live, Evidence, made.endpoint) /\ (k.current => pages[k.tab].gen = k.gen)
  BY BrowserIs DEF TasksOK, CurrentOK
<1> QED
  BY <1>1, <1>2 DEF TaskType

\* A step of a task that leaves what the worker knows alone.
LEMMA TaskStep ==
    ASSUME DInv, UNCHANGED <<session, registry, notes, worker>>, UNCHANGED spent \/ Spending,
           pages' \in [Tabs -> PageType], tasks' \subseteq TaskType, stored' \in RecordType,
           made' \in [endpoint : Nat, inst : Nat], endpoint' \in 0..made'.endpoint,
           made.endpoint <= made'.endpoint,
           StoredOK(stored', owner, Live, Evidence), PagesOK(pages', owner, Live, Evidence),
           TasksOK(tasks', owner, valid, Live, Evidence, made'.endpoint), CurrentOK(tasks', pages'),
           \A u \in Tabs : Agree(pages, pages', u)
    PROVE  DInv'
<1>1. UNCHANGED <<session, registry, notes, mail, leases, account, refreshes, fetched, handlers, shown>>
  BY DEF worker
<1>2. LeasesOK(leases, mail, pages')
  BY BrowserIs, LeasesAgree
<1> QED
  BY <1>1, <1>2, BrowserIs, PageStep

\* A task ends, goes on as another one, or is dropped, and nothing else is touched.
LEMMA EndsStep ==
    ASSUME DInv, NEW k \in tasks, k.current, NEW sub \in BOOLEAN, Ends(k, sub)
    PROVE  /\ pages' \in [Tabs -> PageType] /\ tasks' \subseteq TaskType
           /\ TasksOK(tasks', owner, valid, Live, Evidence, made.endpoint) /\ CurrentOK(tasks', pages')
           /\ PagesOK(pages', owner, Live, Evidence) /\ \A u \in Tabs : Agree(pages, pages', u)
<1>1. /\ pages' \in [Tabs -> PageType] /\ tasks' \subseteq TaskType
      /\ TasksOK(tasks', owner, valid, Live, Evidence, made.endpoint) /\ CurrentOK(tasks', pages')
      /\ PagesOK(pages', owner, Live, Evidence)
      /\ \A t \in Tabs : /\ pages'[t].gen = pages[t].gen /\ pages'[t].healthy = pages[t].healthy
                         /\ pages'[t].user = pages[t].user
  BY BrowserIs, EndsKeeps
<1> QED
  BY <1>1 DEF Agree

LEMMA SwapStep ==
    ASSUME DInv, NEW k \in tasks, NEW next \in TaskType, tasks' = (tasks \ {k}) \cup {next}, UNCHANGED pages,
           TaskOK(next, owner, valid, Live, Evidence, made.endpoint),
           next.tab = k.tab, next.gen = k.gen, next.current = k.current
    PROVE  /\ pages' \in [Tabs -> PageType] /\ tasks' \subseteq TaskType
           /\ TasksOK(tasks', owner, valid, Live, Evidence, made.endpoint) /\ CurrentOK(tasks', pages')
           /\ PagesOK(pages', owner, Live, Evidence) /\ \A u \in Tabs : Agree(pages, pages', u)
<1>1. /\ (tasks \ {k}) \cup {next} \subseteq TaskType
      /\ TasksOK((tasks \ {k}) \cup {next}, owner, valid, Live, Evidence, made.endpoint)
      /\ CurrentOK((tasks \ {k}) \cup {next}, pages)
  BY BrowserIs, SwapKeeps
<1> QED
  BY <1>1, BrowserIs DEF Agree

LEMMA DropStep ==
    ASSUME DInv, NEW k \in tasks, Superfluous(k)
    PROVE  /\ pages' \in [Tabs -> PageType] /\ tasks' \subseteq TaskType
           /\ TasksOK(tasks', owner, valid, Live, Evidence, made.endpoint) /\ CurrentOK(tasks', pages')
           /\ PagesOK(pages', owner, Live, Evidence) /\ \A u \in Tabs : Agree(pages, pages', u)
<1>1. ~k.current /\ tasks' = tasks \ {k} /\ pages' = pages
  BY DEF Superfluous
<1>2. /\ tasks \ {k} \subseteq TaskType
      /\ TasksOK(tasks \ {k}, owner, valid, Live, Evidence, made.endpoint)
      /\ CurrentOK(tasks \ {k}, pages)
  BY <1>1, BrowserIs, DropKeeps
<1> QED
  BY <1>1, <1>2, BrowserIs DEF Agree

LEMMA UnconfirmedIs ==
    ASSUME DInv, NEW k
    PROVE  Unconfirmed(k) \in RecordType /\ StoredOK(Unconfirmed(k), owner, Live, Evidence)
<1>1. Cleared \in RecordType /\ StoredOK(Cleared, owner, Live, Evidence)
  BY BrowserIs DEF Cleared, RecordType, StoredOK
<1> QED
  BY <1>1, BrowserIs DEF Unconfirmed

LEMMA LookKeeps ==
    ASSUME DInv, NEW k \in tasks, Look(k)
    PROVE  DInv'
<1>1. k.stage = "looking" /\ UNCHANGED <<session, registry, notes, endpoint, worker, spent>>
  BY DEF Look
<1>2. k \in TaskType /\ TaskOK(k, owner, valid, Live, Evidence, made.endpoint) /\ k.current
  BY <1>1, TaskIs DEF TaskOK
<1>3. CASE endpoint = 0 /\ k.kind = "synchronize" /\ stored' = Unconfirmed(k) /\ Ends(k, FALSE) /\ UNCHANGED made
  <2>1. /\ pages' \in [Tabs -> PageType] /\ tasks' \subseteq TaskType
        /\ TasksOK(tasks', owner, valid, Live, Evidence, made.endpoint) /\ CurrentOK(tasks', pages')
        /\ PagesOK(pages', owner, Live, Evidence) /\ \A u \in Tabs : Agree(pages, pages', u)
    BY <1>2, <1>3, EndsStep
  <2>2. stored' \in RecordType /\ StoredOK(stored', owner, Live, Evidence)
    BY <1>3, UnconfirmedIs
  <2> QED
    BY <2>1, <2>2, <1>1, <1>3, BrowserIs, TaskStep
<1>4. CASE endpoint = 0 /\ Continues(k, [k EXCEPT !.stage = "subscribing"]) /\ UNCHANGED <<stored, made>>
  <2> DEFINE next == [k EXCEPT !.stage = "subscribing"]
  <2>1. next \in TaskType /\ next.tab = k.tab /\ next.gen = k.gen /\ next.current = k.current
    BY <1>2 DEF TaskType, TaskStages
  <2>2. TaskOK(next, owner, valid, Live, Evidence, made.endpoint)
    BY <1>2 DEF TaskOK, TaskType
  <2>3. tasks' = (tasks \ {k}) \cup {next} /\ UNCHANGED pages
    BY <1>4 DEF Continues
  <2> HIDE DEF next
  <2>4. /\ pages' \in [Tabs -> PageType] /\ tasks' \subseteq TaskType
        /\ TasksOK(tasks', owner, valid, Live, Evidence, made.endpoint) /\ CurrentOK(tasks', pages')
        /\ PagesOK(pages', owner, Live, Evidence) /\ \A u \in Tabs : Agree(pages, pages', u)
    BY <2>1, <2>2, <2>3, SwapStep
  <2> QED
    BY <2>4, <1>1, <1>4, BrowserIs, TaskStep
<1>5. CASE /\ endpoint # 0 /\ Persists(k, endpoint, ~OwnedBy(stored, k.gen, k.user))
           /\ made' = IF OwnedBy(stored, k.gen, k.user) THEN made ELSE [made EXCEPT !.inst = @ + 1]
  <2> DEFINE conflicts == ~OwnedBy(stored, k.gen, k.user)
  <2>1. conflicts \in BOOLEAN /\ Persists(k, endpoint, conflicts)
    BY <1>5
  <2> HIDE DEF conflicts
  <2>2. endpoint \in Nat /\ endpoint \in 1..made.endpoint
    BY <1>5, BrowserIs
  <2>3. Len(owner) \in Nat /\ cookie \in 0..Len(owner) /\ valid \subseteq 1..Len(owner)
    BY SessionsAre
  <2>4. /\ pages' = pages /\ tasks' \subseteq TaskType /\ stored' \in RecordType
        /\ TasksOK(tasks', owner, valid, Live, Evidence, made.endpoint) /\ CurrentOK(tasks', pages)
        /\ StoredOK(stored', owner, Live, Evidence)
    BY <2>1, <2>2, <2>3, <1>2, BrowserIs, PersistsKeeps
  <2>5. made' \in [endpoint : Nat, inst : Nat] /\ made'.endpoint = made.endpoint
    BY <1>5, BrowserIs
  <2>6. \A u \in Tabs : Agree(pages, pages', u)
    BY <2>4 DEF Agree
  <2> QED
    BY <2>4, <2>5, <2>6, <1>1, BrowserIs, TaskStep
<1> QED
  BY <1>3, <1>4, <1>5 DEF Look

LEMMA SaveFailsKeeps ==
    ASSUME DInv, NEW k \in tasks, SaveFails(k)
    PROVE  DInv'
<1> DEFINE next == [k EXCEPT !.stage = "saved", !.answer = "error"]
<1>1. /\ k.stage \in {"saving", "saved"} /\ tasks' = (tasks \ {k}) \cup {next}
      /\ UNCHANGED <<session, registry, notes, browser, pages, worker>>
  BY DEF SaveFails
<1>2. Spending
  BY SessionsAre, SpendsIs DEF SaveFails
<1>3. next \in TaskType /\ next.tab = k.tab /\ next.gen = k.gen /\ next.current = k.current
  BY TaskIs DEF TaskType, TaskStages
<1>4. TaskOK(next, owner, valid, Live, Evidence, made.endpoint)
  BY <1>1, TaskIs DEF TaskOK, TaskType
<1> HIDE DEF next
<1>5. /\ pages' \in [Tabs -> PageType] /\ tasks' \subseteq TaskType
      /\ TasksOK(tasks', owner, valid, Live, Evidence, made.endpoint) /\ CurrentOK(tasks', pages')
      /\ PagesOK(pages', owner, Live, Evidence) /\ \A u \in Tabs : Agree(pages, pages', u)
  BY <1>1, <1>3, <1>4, SwapStep
<1>6. UNCHANGED <<session, registry, notes, endpoint, made, stored, worker>>
  BY <1>1 DEF browser
<1> QED
  BY <1>2, <1>5, <1>6, BrowserIs, TaskStep

\* The gateway serves a save: of a session that is gone it does nothing, of
\* one that is there, which is the browser's, it leaves a registration.
LEMMA SaveServedKeeps ==
    ASSUME DInv, NEW k \in tasks, SaveServed(k)
    PROVE  DInv'
<1>1. k.stage = "saving" /\ UNCHANGED <<session, notes, browser, pages, worker, spent>>
  BY DEF SaveServed
<1>2. k \in TaskType /\ TaskOK(k, owner, valid, Live, Evidence, made.endpoint)
  BY TaskIs
<1>3. UNCHANGED <<endpoint, made, stored>>
  BY <1>1 DEF browser
<1>4. CASE k.sent \notin valid \/ OwnedByAnother(k)
  <2> DEFINE answer == IF k.sent \in valid THEN "conflict" ELSE "error"
             next == [k EXCEPT !.stage = "saved", !.answer = answer]
  <2>1. tasks' = (tasks \ {k}) \cup {next} /\ UNCHANGED registry
    BY <1>4 DEF SaveServed
  <2>2. answer \in {"conflict", "error"}
    OBVIOUS
  <2> HIDE DEF answer
  <2>3. next \in TaskType /\ next.tab = k.tab /\ next.gen = k.gen /\ next.current = k.current
    BY <1>2, <2>2 DEF TaskType, TaskStages
  <2>4. TaskOK(next, owner, valid, Live, Evidence, made.endpoint)
    BY <1>1, <1>2, <2>2 DEF TaskOK, TaskType
  <2> HIDE DEF next
  <2>5. /\ pages' \in [Tabs -> PageType] /\ tasks' \subseteq TaskType
        /\ TasksOK(tasks', owner, valid, Live, Evidence, made.endpoint) /\ CurrentOK(tasks', pages')
        /\ PagesOK(pages', owner, Live, Evidence) /\ \A u \in Tabs : Agree(pages, pages', u)
    BY <1>1, <2>1, <2>3, <2>4, SwapStep
  <2> QED
    BY <1>1, <1>3, <2>1, <2>5, BrowserIs, TaskStep
<1>5. CASE ~(k.sent \notin valid \/ OwnedByAnother(k))
  <2> DEFINE R == Registered(k).rows
             E == {r.gen : r \in R} \cup (removed \ {k.sent})
             inst == Registered(k).inst
             next == [k EXCEPT !.stage = "saved", !.answer = "ok", !.inst = inst]
             md == made.endpoint
  <2>1. tasks' = (tasks \ {k}) \cup {next} /\ rows' = R /\ removed' = removed \ {k.sent}
    BY <1>5 DEF SaveServed
  <2>2. k.sent \in valid /\ k.sent = Live /\ k.sub \in 1..made.endpoint
    BY <1>1, <1>2, <1>5 DEF TaskOK
  <2>3. R \subseteq RowType /\ inst \in Nat /\ RowsOK(R, owner, md) /\ Bound(E, Live)
    <3>1. RowsOK(rows, owner, made.endpoint) /\ rows \subseteq RowType
      BY BrowserIs
    <3>2. /\ Registered(k).rows \subseteq RowType /\ Registered(k).inst \in Nat
          /\ RowsOK(Registered(k).rows, owner, made.endpoint) /\ \E r \in Registered(k).rows : r.gen = k.sent
      <4>1. k.sent \in 1..Len(owner)
        BY <2>2, SessionsAre
      <4> QED
        BY ONLY <1>2, <2>2, <3>1, <4>1, RegisteredIs
    <3> QED
      BY <2>2, <3>2 DEF Bound
  <2> HIDE DEF R, E, inst
  <2>4. /\ StoredOK(stored, owner, Live, E) /\ PagesOK(pages, owner, Live, E)
        /\ TasksOK(tasks, owner, valid, Live, E, md)
    <3>1. Grows(owner, owner) /\ Onward(owner, Live, Live, Evidence, E) /\ Leaves(owner, valid, valid, Live, Live)
      BY <2>3 DEF Grows, Onward, Leaves
    <3>2. md \in Nat /\ md <= md
      BY BrowserIs
    <3>3. 0 \notin valid
      BY SessionsAre
    <3>4. TasksOK(tasks, owner, valid, Live, Evidence, md)
      BY BrowserIs
    <3> HIDE DEF md
    <3> QED
      BY <3>1, <3>2, <3>3, <3>4, BrowserIs, AllOnward
  <2>5. next \in TaskType /\ next.tab = k.tab /\ next.gen = k.gen /\ next.current = k.current
    BY <1>2, <2>3 DEF TaskType, TaskStages
  <2>6. TaskOK(next, owner, valid, Live, E, md)
    BY <1>1, <1>2, <2>3 DEF TaskOK, TaskType
  <2> HIDE DEF next
  <2>7. /\ (tasks \ {k}) \cup {next} \subseteq TaskType
        /\ TasksOK((tasks \ {k}) \cup {next}, owner, valid, Live, E, md)
        /\ CurrentOK((tasks \ {k}) \cup {next}, pages)
    BY <2>4, <2>5, <2>6, BrowserIs, SwapKeeps
  <2>8. /\ pages' = pages /\ endpoint' = endpoint /\ made' = made /\ stored' = stored
        /\ UNCHANGED <<session, notes, mail, leases, account, refreshes, fetched, handlers, shown>> /\ UNCHANGED spent
    BY <1>1, <1>3 DEF worker
  <2>9. /\ TasksOK(tasks', owner, valid, Live, Evidence', made'.endpoint) /\ CurrentOK(tasks', pages')
         /\ tasks' \subseteq TaskType /\ RowsOK(rows', owner, made'.endpoint) /\ rows' \subseteq RowType
         /\ StoredOK(stored', owner, Live, Evidence') /\ PagesOK(pages', owner, Live, Evidence')
    <3>1. Evidence' = E
      BY <2>1 DEF Evidence, E
    <3> QED
      BY <2>1, <2>3, <2>4, <2>7, <2>8, <3>1
  <2>10. LeasesOK(leases', mail', pages')
    BY <2>8, BrowserIs
  <2> QED
    BY <2>8, <2>9, <2>10, BrowserIs, RegistryStep
<1> QED
  BY <1>4, <1>5

LEMMA SaveAnsweredKeeps ==
    ASSUME DInv, NEW k \in tasks, SaveAnswered(k)
    PROVE  DInv'
<1>1. k.stage = "saved" /\ UNCHANGED <<session, registry, notes, endpoint, made, worker, spent>>
  BY DEF SaveAnswered
<1>2. k \in TaskType /\ TaskOK(k, owner, valid, Live, Evidence, made.endpoint)
  BY TaskIs
<1> SUFFICES /\ pages' \in [Tabs -> PageType] /\ tasks' \subseteq TaskType
             /\ TasksOK(tasks', owner, valid, Live, Evidence, made.endpoint) /\ CurrentOK(tasks', pages')
             /\ PagesOK(pages', owner, Live, Evidence) /\ \A u \in Tabs : Agree(pages, pages', u)
             /\ stored' \in RecordType /\ StoredOK(stored', owner, Live, Evidence)
  BY <1>1, BrowserIs, TaskStep
<1>3. CASE Superfluous(k) /\ UNCHANGED stored
  BY <1>3, BrowserIs, DropStep
<1>4. CASE k.current /\ k.answer = "ok" /\ stored' = Record(k.inst, TRUE, k.gen, k.user) /\ Ends(k, TRUE)
  <2>1. stored' \in RecordType
    BY <1>2, <1>4 DEF Record, RecordType, TaskType
  <2>2. StoredOK(stored', owner, Live, Evidence)
    BY <1>1, <1>2, <1>4 DEF Record, StoredOK, TaskOK, Belongs
  <2> QED
    BY <1>4, <2>1, <2>2, EndsStep
<1>5. CASE Continues(k, [k EXCEPT !.stage = "unsubscribing"]) /\ UNCHANGED stored
  <2> DEFINE next == [k EXCEPT !.stage = "unsubscribing"]
  <2>1. next \in TaskType /\ next.tab = k.tab /\ next.gen = k.gen /\ next.current = k.current
    BY <1>2 DEF TaskType, TaskStages
  <2>2. TaskOK(next, owner, valid, Live, Evidence, made.endpoint)
    BY <1>1, <1>2 DEF TaskOK, TaskType
  <2>3. tasks' = (tasks \ {k}) \cup {next} /\ UNCHANGED pages
    BY <1>5 DEF Continues
  <2> HIDE DEF next
  <2> QED
    BY <1>5, <2>1, <2>2, <2>3, BrowserIs, SwapStep
<1>6. CASE k.current /\ Ends(k, k.was) /\ UNCHANGED stored
  <2>1. k.was \in BOOLEAN
    BY <1>2 DEF TaskType
  <2> QED
    BY <1>6, <2>1, BrowserIs, EndsStep
<1> QED
  BY <1>3, <1>4, <1>5, <1>6 DEF SaveAnswered

LEMMA UnsubscribedKeeps ==
    ASSUME DInv, NEW k \in tasks, Unsubscribed(k)
    PROVE  DInv'
<1>1. k.stage = "unsubscribing" /\ UNCHANGED <<session, registry, notes, made, stored, worker, spent>>
  BY DEF Unsubscribed
<1>2. k \in TaskType /\ TaskOK(k, owner, valid, Live, Evidence, made.endpoint)
  BY TaskIs
<1>3. endpoint' \in 0..made.endpoint
  BY BrowserIs DEF Unsubscribed
<1> SUFFICES /\ pages' \in [Tabs -> PageType] /\ tasks' \subseteq TaskType
             /\ TasksOK(tasks', owner, valid, Live, Evidence, made.endpoint) /\ CurrentOK(tasks', pages')
             /\ PagesOK(pages', owner, Live, Evidence) /\ \A u \in Tabs : Agree(pages, pages', u)
  BY <1>1, <1>3, BrowserIs, TaskStep
<1>4. CASE Superfluous(k)
  BY <1>4, DropStep
<1>5. CASE Continues(k, [k EXCEPT !.stage = "subscribing", !.was = FALSE])
  <2> DEFINE next == [k EXCEPT !.stage = "subscribing", !.was = FALSE]
  <2>1. next \in TaskType /\ next.tab = k.tab /\ next.gen = k.gen /\ next.current = k.current
    BY <1>2 DEF TaskType, TaskStages
  <2>2. TaskOK(next, owner, valid, Live, Evidence, made.endpoint)
    BY <1>2 DEF TaskOK, TaskType
  <2>3. tasks' = (tasks \ {k}) \cup {next} /\ UNCHANGED pages
    BY <1>5 DEF Continues
  <2> HIDE DEF next
  <2> QED
    BY <1>5, <2>1, <2>2, <2>3, BrowserIs, SwapStep
<1> QED
  BY <1>4, <1>5 DEF Unsubscribed

LEMMA SubscribedKeeps ==
    ASSUME DInv, NEW k \in tasks, Subscribed(k)
    PROVE  DInv'
<1> DEFINE newInst == IF ~k.current \/ OwnedBy(stored, k.gen, k.user) THEN 0 ELSE 1
           sub == Subscription
           md == IF endpoint = 0 THEN sub ELSE made.endpoint
<1>1. /\ k.stage = "subscribing" /\ endpoint' = sub
      /\ made' = [endpoint |-> md, inst |-> made.inst + newInst]
      /\ \/ Superfluous(k) /\ UNCHANGED stored
         \/ k.current /\ Persists(k, sub, FALSE)
      /\ UNCHANGED <<session, registry, notes, worker, spent>>
  BY DEF Subscribed
<1>2. sub \in Nat /\ sub \in 1..md /\ md \in Nat /\ made.endpoint <= md
  <2>1. endpoint \in 0..made.endpoint /\ made.endpoint \in Nat
    BY BrowserIs
  <2>2. CASE endpoint = 0
    BY <2>1, <2>2 DEF Subscription
  <2>3. CASE endpoint # 0
    BY <2>1, <2>3 DEF Subscription
  <2> QED
    BY <2>2, <2>3
<1>3. made' \in [endpoint : Nat, inst : Nat] /\ made'.endpoint = md
  <2>1. made.inst + newInst \in Nat
    BY BrowserIs
  <2> HIDE DEF md, newInst
  <2> QED
    BY <1>1, <1>2, <2>1
<1> HIDE DEF sub, md, newInst
<1>4. endpoint' \in 0..md
  BY <1>1, <1>2
<1>5. TasksOK(tasks, owner, valid, Live, Evidence, md)
  <2>1. Grows(owner, owner) /\ Onward(owner, Live, Live, Evidence, Evidence) /\ Leaves(owner, valid, valid, Live, Live)
    BY DEF Grows, Onward, Leaves
  <2>2. 0 \notin valid
    BY SessionsAre
  <2> QED
    BY <1>2, <2>1, <2>2, BrowserIs, AllOnward
<1>6. CASE Superfluous(k) /\ UNCHANGED stored
  <2>1. ~k.current /\ tasks' = tasks \ {k} /\ pages' = pages
    BY <1>6 DEF Superfluous
  <2>2. /\ tasks \ {k} \subseteq TaskType /\ TasksOK(tasks \ {k}, owner, valid, Live, Evidence, md)
        /\ CurrentOK(tasks \ {k}, pages)
    BY <1>5, <2>1, BrowserIs, DropKeeps
  <2>3. \A u \in Tabs : Agree(pages, pages', u)
    BY <2>1 DEF Agree
  <2> QED
    BY <1>1, <1>2, <1>3, <1>4, <1>6, <2>1, <2>2, <2>3, BrowserIs, TaskStep
<1>7. CASE k.current /\ Persists(k, sub, FALSE)
  <2>1. Len(owner) \in Nat /\ cookie \in 0..Len(owner) /\ valid \subseteq 1..Len(owner)
    BY SessionsAre
  <2>2. /\ pages' = pages /\ tasks' \subseteq TaskType /\ stored' \in RecordType
        /\ TasksOK(tasks', owner, valid, Live, Evidence, md) /\ CurrentOK(tasks', pages)
        /\ StoredOK(stored', owner, Live, Evidence)
    BY <1>2, <1>5, <1>7, <2>1, BrowserIs, PersistsKeeps
  <2>3. \A u \in Tabs : Agree(pages, pages', u)
    BY <2>2 DEF Agree
  <2> QED
    BY <1>1, <1>2, <1>3, <1>4, <2>2, <2>3, BrowserIs, TaskStep
<1> QED
  BY <1>1, <1>6, <1>7

-----------------------------------------------------------------------------
(* The service worker.                                                     *)

LEMMA WorkerIs ==
    ASSUME DInv
    PROVE  /\ unread \subseteq Nat /\ account \in Nat /\ fetched \in Nat \cup {None} /\ refreshes \in Seq(TurnType)
           /\ handlers \subseteq HandlerType /\ shown \subseteq [n : Nat, gen : Nat]
           /\ NotesOK(unread, shown, spent.pushes) /\ spent.pushes \in Nat
           /\ HandlersOK(handlers, Live, unread, account, refreshes, fetched, spent.pushes)
           /\ Single(handlers) /\ TurnsOK(refreshes, fetched, handlers)
BY DEF DInv, Shape, Pushes

\* A step of the gateway or the worker leaves sessions, pages and tasks alone,
\* and what speaks for the browser's session.
LEMMA GatewayStep ==
    ASSUME DInv, UNCHANGED <<session, browser, pages, tasks>>,
           rows' \subseteq RowType, RowsOK(rows', owner, made.endpoint),
           Bound(Evidence, Live) => Bound(Evidence', Live),
           spent' \in [steps : Nat, drops : Nat, pushes : Nat], unread' \subseteq Nat,
           mail' \in Seq(MessageType), leases' \in Seq(LeaseType), LeasesOK(leases', mail', pages),
           account' \in Nat, fetched' \in Nat \cup {None}, refreshes' \in Seq(TurnType),
           handlers' \subseteq HandlerType, shown' \subseteq [n : Nat, gen : Nat],
           NotesOK(unread', shown', spent'.pushes),
           HandlersOK(handlers', Live, unread', account', refreshes', fetched', spent'.pushes),
           Single(handlers'), TurnsOK(refreshes', fetched', handlers')
    PROVE  DInv'
<1>1. UNCHANGED <<owner, valid, cookie, endpoint, made, stored, pages, tasks>> /\ Live' = Live
  BY SameSession DEF browser
<1>2. Shape'
  BY <1>1 DEF DInv, Shape
<1>3. /\ StoredOK(stored, owner, Live, Evidence') /\ PagesOK(pages, owner, Live, Evidence')
      /\ TasksOK(tasks, owner, valid, Live, Evidence', made.endpoint)
  <2>1. Grows(owner, owner) /\ Onward(owner, Live, Live, Evidence, Evidence') /\ Leaves(owner, valid, valid, Live, Live)
    BY DEF Grows, Onward, Leaves
  <2>2. 0 \notin valid /\ made.endpoint <= made.endpoint
    BY SessionsAre, BrowserIs
  <2> QED
    BY <2>1, <2>2, BrowserIs, AllOnward
<1>4. Device' /\ Pages' /\ Tasks' /\ Leases'
  BY <1>1, <1>3, BrowserIs DEF Device, Pages, Tasks, Leases
<1>5. Pushes'
  BY <1>1 DEF Pushes
<1> QED
  BY <1>2, <1>4, <1>5 DEF DInv

LEMMA WorkerStep ==
    ASSUME DInv, UNCHANGED <<session, registry, notes, browser, pages, tasks>>,
           spent' \in [steps : Nat, drops : Nat, pushes : Nat],
           mail' \in Seq(MessageType), leases' \in Seq(LeaseType), LeasesOK(leases', mail', pages),
           account' \in Nat, fetched' \in Nat \cup {None}, refreshes' \in Seq(TurnType),
           handlers' \subseteq HandlerType, shown' \subseteq [n : Nat, gen : Nat],
           NotesOK(unread, shown', spent'.pushes),
           HandlersOK(handlers', Live, unread, account', refreshes', fetched', spent'.pushes),
           Single(handlers'), TurnsOK(refreshes', fetched', handlers')
    PROVE  DInv'
<1>1. rows' = rows /\ Evidence' = Evidence /\ unread' = unread
  BY SameRegistry DEF notes
<1>2. rows \subseteq RowType /\ RowsOK(rows, owner, made.endpoint) /\ unread \subseteq Nat
  BY BrowserIs, WorkerIs
<1> QED
  BY <1>1, <1>2, GatewayStep

\* A refresh that a page has asked for is nobody's turn.
LEMMA MessageTurn ==
    ASSUME refreshes \in Seq(TurnType), NEW m \in TurnType, m.kind = "message",
           NEW hs, NEW c, NEW un, NEW ac, NEW ft, NEW n,
           HandlersOK(hs, c, un, ac, refreshes, ft, n), TurnsOK(refreshes, ft, hs)
    PROVE  /\ Append(refreshes, m) \in Seq(TurnType)
           /\ HandlersOK(hs, c, un, ac, Append(refreshes, m), ft, n) /\ TurnsOK(Append(refreshes, m), ft, hs)
<1> DEFINE rf == Append(refreshes, m)
<1>1. /\ rf \in Seq(TurnType) /\ Len(refreshes) \in Nat /\ DOMAIN rf = 1..(Len(refreshes) + 1)
      /\ DOMAIN refreshes = 1..Len(refreshes)
      /\ rf[Len(refreshes) + 1] = m /\ \A i \in DOMAIN refreshes : rf[i] = refreshes[i]
  BY AppendIs
<1>2. refreshes # <<>> => Head(rf) = Head(refreshes)
  <2> SUFFICES ASSUME refreshes # <<>>
               PROVE  Head(rf) = Head(refreshes)
    OBVIOUS
  <2>1. 1 \in DOMAIN refreshes /\ Head(refreshes) = refreshes[1]
    OBVIOUS
  <2>2. Head(rf) = rf[1]
    OBVIOUS
  <2> HIDE DEF rf
  <2> QED
    BY <2>1, <2>2, <1>1
<1> HIDE DEF rf
<1>3. ft # None => refreshes # <<>>
  BY DEF TurnsOK
<1>4. HandlersOK(hs, c, un, ac, rf, ft, n)
  <2> SUFFICES ASSUME NEW h \in hs
               PROVE  HandlerOK(h, c, un, ac, rf, ft, n)
    BY DEF HandlersOK
  <2>1. HandlerOK(h, c, un, ac, refreshes, ft, n)
    BY DEF HandlersOK
  <2> QED
    BY <2>1, <1>2, <1>3 DEF HandlerOK
<1>5. \A i \in DOMAIN rf : rf[i].kind # "message" => i \in DOMAIN refreshes
  BY <1>1
<1>6. TurnsOK(rf, ft, hs)
  <2>1. \A i \in DOMAIN rf : rf[i].kind # "message" => \E h \in hs : Turn(h) = rf[i] /\ h.stage = "refreshing"
    BY <1>1, <1>5 DEF TurnsOK
  <2>2. \A i, j \in DOMAIN rf : i # j /\ rf[i].kind # "message" => rf[i] # rf[j]
    <3> SUFFICES ASSUME NEW i \in DOMAIN rf, NEW j \in DOMAIN rf, i # j, rf[i].kind # "message", rf[i] = rf[j]
                 PROVE  FALSE
      OBVIOUS
    <3>1. i \in DOMAIN refreshes /\ j \in DOMAIN refreshes
      BY <1>5
    <3> QED
      BY <3>1, <1>1 DEF TurnsOK
  <2>3. rf # <<>>
    BY <1>1
  <2> QED
    BY <2>1, <2>2, <2>3 DEF TurnsOK
<1> QED
  BY <1>1, <1>4, <1>6 DEF rf

LEMMA MailKeeps ==
    ASSUME DInv, Mail
    PROVE  DInv'
<1> DEFINE m == [kind |-> "message", n |-> 0]
<1>1. /\ mail # <<>> /\ mail' = Tail(mail)
      /\ UNCHANGED <<session, registry, notes, browser, pages, tasks, account, fetched, handlers, shown, spent>>
      /\ Head(mail).type = "refresh" => refreshes' = Append(refreshes, m) /\ leases' = leases
      /\ Head(mail).type # "refresh" => leases' = LeasesWith(Head(mail)) /\ refreshes' = refreshes
  BY DEF Mail
<1>2. leases' = IF Head(mail).type = "refresh" THEN leases ELSE LeasesWith(Head(mail))
  BY <1>1
<1>3. leases' \in Seq(LeaseType) /\ mail' \in Seq(MessageType) /\ LeasesOK(leases', mail', pages)
  BY <1>1, <1>2, BrowserIs, LeasesMail
<1>4. m \in TurnType /\ m.kind = "message"
  BY DEF TurnType
<1> HIDE DEF m
<1>5. /\ Append(refreshes, m) \in Seq(TurnType)
      /\ HandlersOK(handlers, Live, unread, account, Append(refreshes, m), fetched, spent.pushes)
      /\ TurnsOK(Append(refreshes, m), fetched, handlers)
  BY <1>4, WorkerIs, MessageTurn
<1>6. /\ refreshes' \in Seq(TurnType) /\ TurnsOK(refreshes', fetched, handlers)
      /\ HandlersOK(handlers, Live, unread, account, refreshes', fetched, spent.pushes)
  BY <1>1, <1>5, WorkerIs
<1> QED
  BY <1>1, <1>3, <1>6, WorkerIs, SessionsAre, WorkerStep

LEMMA LeasesTail ==
    ASSUME NEW ls \in Seq(LeaseType), ls # <<>>, NEW ml, NEW ps, LeasesOK(ls, ml, ps)
    PROVE  Tail(ls) \in Seq(LeaseType) /\ LeasesOK(Tail(ls), ml, ps)
<1> DEFINE tl == Tail(ls)
<1>1. /\ tl \in Seq(LeaseType) /\ Len(tl) = Len(ls) - 1 /\ Len(ls) \in Nat
      /\ \A i \in DOMAIN tl : i + 1 \in DOMAIN ls /\ tl[i] = ls[i + 1]
  BY TailIs
<1>2. \A i, j \in DOMAIN tl : i # j => i + 1 # j + 1
  BY <1>1
<1> HIDE DEF tl
<1>3. Len(tl) <= LeaseLimit
  BY <1>1, DeviceAssumption DEF LeasesOK, DeviceAssumption
<1>4. LeasesOK(tl, ml, ps)
  BY <1>1, <1>2, <1>3 DEF LeasesOK
<1> QED
  BY <1>1, <1>4 DEF tl

LEMMA LeaseExpiresKeeps ==
    ASSUME DInv, LeaseExpires
    PROVE  DInv'
<1>1. /\ leases # <<>> /\ leases' = Tail(leases)
      /\ UNCHANGED <<session, registry, notes, browser, pages, tasks, mail, account, refreshes, fetched,
                      handlers, shown>>
  BY DEF LeaseExpires
<1>2. Spending
  BY SessionsAre, SpendsIs DEF LeaseExpires
<1>3. leases' \in Seq(LeaseType) /\ LeasesOK(leases', mail, pages)
  BY <1>1, BrowserIs, LeasesTail
<1> QED
  BY <1>1, <1>2, <1>3, BrowserIs, WorkerIs, WorkerStep DEF Spending

LEMMA WorkerStopsKeeps ==
    ASSUME DInv, WorkerStops
    PROVE  DInv'
<1>1. /\ leases' = <<>>
      /\ UNCHANGED <<session, registry, notes, browser, pages, tasks, mail, account, refreshes, fetched,
                      handlers, shown>>
  BY DEF WorkerStops
<1>2. Spending
  BY SessionsAre, SpendsIs DEF WorkerStops
<1>3. leases' \in Seq(LeaseType) /\ LeasesOK(leases', mail, pages)
  <2>1. Len(leases') = 0 /\ DOMAIN leases' = {} /\ leases' \in Seq(LeaseType)
    BY <1>1
  <2> QED
    BY <2>1, BrowserIs, DeviceAssumption DEF LeasesOK, DeviceAssumption
<1> QED
  BY <1>1, <1>2, <1>3, BrowserIs, WorkerIs, WorkerStep DEF Spending

\* The answer to the first refresh is the browser's session of this moment.
LEMMA RefreshServedKeeps ==
    ASSUME DInv, RefreshServed
    PROVE  DInv'
<1>1. /\ refreshes # <<>> /\ fetched = None /\ fetched' = Live /\ Live \in Nat
      /\ UNCHANGED <<session, registry, notes, browser, pages, tasks, mail, leases, account, refreshes,
                      handlers, shown, spent>>
  BY SessionsAre DEF RefreshServed
<1>2. HandlersOK(handlers, Live, unread, account, refreshes, None, spent.pushes)
  BY <1>1, WorkerIs
<1>3. \A h \in handlers : Active(h) /\ Live # h.gen => Excused(h)
  BY <1>2 DEF HandlersOK, HandlerOK, Excused
<1>4. HandlersOK(handlers, Live, unread, account, refreshes, Live, spent.pushes)
  BY <1>1, <1>2, <1>3, AnswerKeeps
<1>5. TurnsOK(refreshes, Live, handlers)
  BY <1>1, WorkerIs DEF TurnsOK
<1> QED
  BY <1>1, <1>4, <1>5, BrowserIs, WorkerIs, SessionsAre, WorkerStep

LEMMA RefreshFailsKeeps ==
    ASSUME DInv, RefreshFails
    PROVE  DInv'
<1> DEFINE w(h) == IF Active(h) THEN [h EXCEPT !.failed = TRUE] ELSE h
           F == [h \in handlers |-> w(h)]
<1>1. /\ refreshes # <<>> /\ fetched = None /\ fetched' = 0 /\ handlers' = {w(h) : h \in handlers}
      /\ UNCHANGED <<session, registry, notes, browser, pages, tasks, mail, leases, account, refreshes, shown>>
  BY DEF RefreshFails
<1>2. Spending
  BY SessionsAre, SpendsIs DEF RefreshFails
<1>3. handlers \subseteq HandlerType
  BY WorkerIs
<1>4. \A h \in handlers : /\ w(h) \in HandlerType /\ Turn(w(h)) = Turn(h) /\ w(h).stage = h.stage
                          /\ w(h).n = h.n /\ w(h).gen = h.gen /\ w(h).read = h.read
                          /\ w(h).had = h.had /\ w(h).moved = h.moved
                          /\ Active(h) => w(h).failed
                          /\ ~Active(h) => w(h) = h
  BY <1>3 DEF HandlerType, Turn
<1> HIDE DEF w
<1>5. F \in [handlers -> HandlerType] /\ \A h \in handlers : F[h] = w(h) /\ Turn(F[h]) = Turn(h)
  BY <1>4
<1>6. handlers' = {F[h] : h \in handlers}
  BY <1>1, <1>5
<1> HIDE DEF F
<1>7. Single(handlers') /\ handlers' \subseteq HandlerType
  BY <1>5, <1>6, WorkerIs, MapSingle
<1>8. \A h \in handlers' : HandlerOK(h, Live, unread, account, refreshes, None, spent.pushes)
                           /\ (Active(h) => Excused(h))
  <2> SUFFICES ASSUME NEW h \in handlers
               PROVE  HandlerOK(w(h), Live, unread, account, refreshes, None, spent.pushes)
                      /\ (Active(w(h)) => Excused(w(h)))
    BY <1>1
  <2>1. HandlerOK(h, Live, unread, account, refreshes, None, spent.pushes)
    BY <1>1, WorkerIs DEF HandlersOK
  <2>2. CASE Active(h)
    BY <2>1, <2>2, <1>4 DEF HandlerOK, Excused, Active
  <2>3. CASE ~Active(h)
    BY <2>1, <2>3, <1>4
  <2> QED
    BY <2>2, <2>3
<1>9. HandlersOK(handlers', Live, unread, account, refreshes, 0, spent.pushes)
  <2>1. HandlersOK(handlers', Live, unread, account, refreshes, None, spent.pushes)
    BY <1>8 DEF HandlersOK
  <2> QED
    BY <1>8, <2>1, AnswerKeeps
<1>10. TurnsOK(refreshes, 0, handlers')
  <2>1. \A h \in handlers : w(h) \in handlers' /\ Turn(w(h)) = Turn(h) /\ w(h).stage = h.stage
    BY <1>1, <1>4
  <2> QED
    BY <1>1, <2>1, WorkerIs DEF TurnsOK
<1> QED
  BY <1>1, <1>2, <1>7, <1>9, <1>10, BrowserIs, WorkerIs, WorkerStep DEF Spending

\* The handler whose refresh was the first one goes on; its account is the
\* session of its push or it has an excuse.
LEMMA RefreshStoredKeeps ==
    ASSUME DInv, RefreshStored
    PROVE  DInv'
<1> DEFINE first == Head(refreshes)
           mine(h) == h.kind = first.kind /\ h.n = first.n /\ h.stage = "refreshing"
           w(h) == IF mine(h) THEN [h EXCEPT !.stage = "matching"] ELSE h
           F == [h \in handlers |-> w(h)]
           rf == Tail(refreshes)
<1>1. /\ fetched # None /\ account' = fetched /\ fetched' = None /\ refreshes' = rf
      /\ shown' = {s \in shown : s.gen = fetched} /\ handlers' = {w(h) : h \in handlers}
      /\ UNCHANGED <<session, registry, notes, browser, pages, tasks, mail, leases, spent>>
  BY DEF RefreshStored
<1>2. refreshes # <<>> /\ fetched \in Nat /\ refreshes \in Seq(TurnType)
  BY <1>1, WorkerIs DEF TurnsOK
<1>3. /\ rf \in Seq(TurnType) /\ first = refreshes[1] /\ 1 \in DOMAIN refreshes /\ first \in TurnType
      /\ \A i \in DOMAIN rf : i + 1 \in DOMAIN refreshes /\ rf[i] = refreshes[i + 1] /\ i \in Nat \ {0}
  <2>1. /\ rf \in Seq(TurnType) /\ first = refreshes[1] /\ 1 \in DOMAIN refreshes /\ first \in TurnType
        /\ \A i \in DOMAIN rf : i + 1 \in DOMAIN refreshes /\ rf[i] = refreshes[i + 1]
    BY <1>2, TailIs
  <2>2. \A i \in DOMAIN rf : i \in Nat \ {0}
    BY <2>1
  <2> QED
    BY <2>1, <2>2
<1>4. handlers \subseteq HandlerType
  BY WorkerIs
<1> HIDE DEF first, rf
<1>5. \A h \in handlers : mine(h) <=> Turn(h) = first /\ h.stage = "refreshing"
  BY <1>3 DEF Turn, TurnType
<1> HIDE DEF mine
<1>6. \A h \in handlers : /\ w(h) \in HandlerType /\ Turn(w(h)) = Turn(h)
                          /\ w(h).n = h.n /\ w(h).gen = h.gen /\ w(h).read = h.read
                          /\ w(h).had = h.had /\ w(h).moved = h.moved /\ w(h).failed = h.failed
                          /\ mine(h) => w(h).stage = "matching"
                          /\ ~mine(h) => w(h) = h
  BY <1>4 DEF HandlerType, HandlerStages, Turn
<1> HIDE DEF w
<1>7. F \in [handlers -> HandlerType] /\ \A h \in handlers : F[h] = w(h) /\ Turn(F[h]) = Turn(h)
  BY <1>6
<1>8. handlers' = {F[h] : h \in handlers}
  BY <1>1, <1>7
<1> HIDE DEF F
<1>9. Single(handlers') /\ handlers' \subseteq HandlerType
  BY <1>7, <1>8, WorkerIs, MapSingle
<1>10. HandlersOK(handlers', Live, unread, fetched, rf, None, spent.pushes)
  <2> SUFFICES ASSUME NEW h \in handlers
               PROVE  HandlerOK(w(h), Live, unread, fetched, rf, None, spent.pushes)
    BY <1>1 DEF HandlersOK
  <2>1. HandlerOK(h, Live, unread, account, refreshes, fetched, spent.pushes)
    BY WorkerIs DEF HandlersOK
  <2>2. CASE mine(h)
    <3>1. fetched # h.gen => Excused(h)
      BY <2>1, <2>2, <1>1, <1>2, <1>5 DEF HandlerOK, first
    <3> QED
      BY <2>1, <2>2, <3>1, <1>5, <1>6 DEF HandlerOK, Excused, Active
  <2>3. CASE ~mine(h)
    BY <2>1, <2>3, <1>1, <1>6 DEF HandlerOK
  <2> QED
    BY <2>2, <2>3
<1>11. TurnsOK(rf, None, handlers')
  <2>1. TurnsOK(refreshes, fetched, handlers)
    BY WorkerIs
  <2>2. \A i \in DOMAIN rf : rf[i].kind # "message" => \E h \in handlers' : Turn(h) = rf[i] /\ h.stage = "refreshing"
    <3> SUFFICES ASSUME NEW i \in DOMAIN rf, rf[i].kind # "message"
                 PROVE  \E h \in handlers' : Turn(h) = rf[i] /\ h.stage = "refreshing"
      OBVIOUS
    <3>1. PICK h \in handlers : Turn(h) = rf[i] /\ h.stage = "refreshing"
      BY <1>3, <2>1 DEF TurnsOK
    <3>2. i + 1 # 1
      BY <1>3
    <3>3. rf[i] # first
      BY <1>3, <2>1, <3>2 DEF TurnsOK
    <3>4. w(h) = h
      BY <1>5, <1>6, <3>1, <3>3
    <3> QED
      BY <3>1, <3>4, <1>1
  <2>3. \A i, j \in DOMAIN rf : i # j => i + 1 # j + 1
    BY <1>3
  <2>4. \A i, j \in DOMAIN rf : i # j /\ rf[i].kind # "message" => rf[i] # rf[j]
    BY <1>3, <2>1, <2>3 DEF TurnsOK
  <2> QED
    BY <2>2, <2>4 DEF TurnsOK
<1>12. NotesOK(unread, shown', spent.pushes) /\ shown' \subseteq shown
  BY <1>1, WorkerIs DEF NotesOK
<1> QED
  BY <1>1, <1>2, <1>3, <1>9, <1>10, <1>11, <1>12, BrowserIs, WorkerIs, SessionsAre, WorkerStep

-----------------------------------------------------------------------------
(* Notifications and their delivery.                                       *)

LEMMA ReadKeeps ==
    ASSUME DInv, NEW n \in unread, Read(n)
    PROVE  DInv'
<1>1. /\ unread' = unread \ {n}
      /\ UNCHANGED <<session, registry, browser, pages, tasks, mail, leases, account, refreshes, fetched,
                      handlers, shown>>
  BY DEF Read, worker
<1>2. Spending
  BY SessionsAre, SpendsIs DEF Read
<1>3. HandlersOK(handlers, Live, unread', account, refreshes, fetched, spent.pushes)
  BY <1>1, WorkerIs DEF HandlersOK, HandlerOK
<1>4. NotesOK(unread', shown, spent.pushes) /\ unread' \subseteq Nat
  BY <1>1, WorkerIs DEF NotesOK
<1>5. rows' = rows /\ Evidence' = Evidence
  BY <1>1, SameRegistry
<1> QED
  BY <1>1, <1>2, <1>3, <1>4, <1>5, BrowserIs, WorkerIs, GatewayStep DEF Spending

LEMMA MutedKeeps ==
    ASSUME DInv, NEW n, Mute(n) \/ Unmute(n)
    PROVE  DInv'
<1>1. UNCHANGED <<session, registry, unread, browser, pages, tasks, mail, leases, account, refreshes, fetched,
                  handlers, shown>>
  BY DEF Mute, Unmute, worker
<1>2. Spending
  BY SessionsAre, SpendsIs DEF Mute, Unmute
<1>3. rows' = rows /\ Evidence' = Evidence
  BY <1>1, SameRegistry
<1> QED
  BY <1>1, <1>2, <1>3, BrowserIs, WorkerIs, GatewayStep DEF Spending

\* A registration that goes because its endpoint is gone speaks for its session.
LEMMA DeleteExpiredKeeps ==
    ASSUME DInv, NEW r \in rows, DeleteExpired(r)
    PROVE  DInv'
<1>1. /\ rows' = rows \ {r}
      /\ removed' = IF \E q \in rows' : q.gen = r.gen THEN removed ELSE removed \cup {r.gen}
      /\ UNCHANGED <<session, notes, browser, pages, tasks, mail, leases, account, refreshes, fetched,
                      handlers, shown, spent>>
  BY DEF DeleteExpired, worker
<1>2. Bound(Evidence, Live) => Bound(Evidence', Live)
  BY <1>1 DEF Bound, Evidence
<1>3. rows' \subseteq RowType /\ RowsOK(rows', owner, made.endpoint)
  BY <1>1, BrowserIs DEF RowsOK
<1>4. unread' = unread
  BY <1>1 DEF notes
<1> QED
  BY <1>1, <1>2, <1>3, <1>4, BrowserIs, WorkerIs, SessionsAre, GatewayStep

\* A notification that is sent has a number of its own and reaches the browser
\* once; the browser's session keeps its registrations.
LEMMA DeliverKeeps ==
    ASSUME DInv, NEW user \in Users, Deliver(user)
    PROVE  DInv'
<1> DEFINE n == spent.pushes + 1
           own == {r \in rows : owner[r.gen] = user}
           sent == {r \in own : r.gen \in valid}
           mark(r) == [r EXCEPT !.reported = TRUE]
           push(r) == Handler("push", n, r.gen, r.endpoint)
           new == {push(r) : r \in {r \in sent : r.endpoint = endpoint}}
<1>1. PICK gone \in SUBSET {r \in sent : r.endpoint # endpoint} :
        rows' = (rows \ own) \cup (sent \ gone) \cup {mark(r) : r \in gone}
  BY DEF Deliver
<1>2. /\ handlers' = handlers \cup new /\ unread' = unread \cup {n}
      /\ spent' = [spent EXCEPT !.pushes = n, !.steps = @ + 1]
      /\ UNCHANGED <<session, removed, browser, pages, tasks, mail, leases, account, refreshes, fetched, shown>>
  BY DEF Deliver
<1>3. \A r \in rows : mark(r) \in RowType /\ mark(r).gen = r.gen /\ mark(r).endpoint = r.endpoint
  BY BrowserIs DEF RowType
<1>4. \A r \in sent : r \in rows /\ r.gen \in valid /\ owner[r.gen] = user
  OBVIOUS
<1>5. \A r \in rows : r.gen \in valid /\ r \notin sent => r \in rows \ own
  OBVIOUS
<1>6. \A r \in rows \ own : r \in rows /\ r \notin sent
  OBVIOUS
<1>7. n \in Nat /\ spent.pushes \in Nat /\ n \in 1..n /\ \A x \in 1..spent.pushes : x \in 1..n
  <2>1. spent.pushes \in Nat
    BY WorkerIs
  <2> QED
    BY <2>1
<1>8. \A v \in new : /\ v \in HandlerType /\ v.n = n /\ v.gen # 0 /\ v.stage = "sent" /\ ~v.read
                     /\ Turn(v) = [kind |-> "push", n |-> n]
  <2> SUFFICES ASSUME NEW r \in sent
               PROVE  /\ push(r) \in HandlerType /\ push(r).n = n /\ push(r).gen # 0
                      /\ push(r).stage = "sent" /\ ~push(r).read /\ Turn(push(r)) = [kind |-> "push", n |-> n]
    OBVIOUS
  <2>1. r.gen \in Nat /\ r.gen # 0 /\ r.endpoint \in Nat
    BY <1>4, BrowserIs, SessionsAre DEF RowType
  <2> HIDE DEF sent, n
  <2> QED
    BY <1>7, <2>1 DEF Handler, HandlerType, HandlerStages, Turn
<1>9. \A v, w \in new : v = w
  <2> SUFFICES ASSUME NEW r \in sent, NEW q \in sent, r.endpoint = endpoint, q.endpoint = endpoint
               PROVE  r = q
    OBVIOUS
  <2> HIDE DEF sent
  <2> QED
    BY <1>4, BrowserIs DEF RowsOK
<1> HIDE DEF own, sent, mark, new
<1>10. rows' \subseteq RowType /\ RowsOK(rows', owner, made.endpoint)
  <2>1. \A x \in rows' : (x \in rows /\ x \notin gone) \/ \E r \in gone : r \in rows /\ x = mark(r)
    BY <1>1, <1>4, <1>6
  <2>2. rows \subseteq RowType /\ RowsOK(rows, owner, made.endpoint)
    BY BrowserIs
  <2>3. rows' \subseteq RowType
    BY <1>3, <2>1, <2>2
  <2>4. \A x \in rows' : x.gen \in 1..Len(owner) /\ x.endpoint \in 1..made.endpoint
    BY <1>3, <2>1, <2>2 DEF RowsOK
  <2>5. \A x, y \in rows' : owner[x.gen] = owner[y.gen] /\ x.endpoint = y.endpoint => x = y
    BY <1>3, <2>1, <2>2 DEF RowsOK
  <2> QED
    BY <2>3, <2>4, <2>5 DEF RowsOK
<1>11. Bound(Evidence, Live) => Bound(Evidence', Live)
  <2> SUFFICES ASSUME NEW r \in rows, r.gen = Live
               PROVE  \E x \in rows' : x.gen = Live
    BY <1>2 DEF Bound, Evidence
  <2>1. Live # 0 /\ Live \in valid
    BY BrowserIs, SessionsAre DEF RowsOK
  <2>2. CASE r \in gone
    BY <1>1, <1>3, <2>2
  <2>3. CASE r \notin gone
    BY <1>1, <1>5, <2>1, <2>3
  <2> QED
    BY <2>2, <2>3
<1>12. \A h \in handlers : h.n \in 1..spent.pushes /\ h \in HandlerType /\ h.n # n
  BY <1>7, WorkerIs DEF HandlersOK, HandlerOK
<1>13. spent' \in [steps : Nat, drops : Nat, pushes : Nat] /\ spent'.pushes = n
  <2>1. spent' = [spent EXCEPT !.pushes = n, !.steps = spent.steps + 1] /\ spent.steps + 1 \in Nat
    BY <1>2, SessionsAre
  <2> QED
    BY <1>7, <2>1, SessionsAre
<1> HIDE DEF n
<1>14. HandlersOK(handlers', Live, unread', account, refreshes, fetched, n)
  <2>1. \A h \in handlers : HandlerOK(h, Live, unread', account, refreshes, fetched, n)
    <3> SUFFICES ASSUME NEW h \in handlers
                 PROVE  HandlerOK(h, Live, unread', account, refreshes, fetched, n)
      OBVIOUS
    <3>1. HandlerOK(h, Live, unread, account, refreshes, fetched, spent.pushes)
      BY WorkerIs DEF HandlersOK
    <3>2. h.read => h.n \notin unread'
      BY <3>1, <1>2, <1>12 DEF HandlerOK
    <3> QED
      BY <3>1, <3>2, <1>7, <1>12 DEF HandlerOK
  <2>2. \A v \in new : HandlerOK(v, Live, unread', account, refreshes, fetched, n)
    BY <1>7, <1>8 DEF HandlerOK, Active
  <2> QED
    BY <1>2, <2>1, <2>2 DEF HandlersOK
<1>15. Single(handlers') /\ handlers' \subseteq HandlerType
  <2>1. \A h \in handlers : \A v \in new : Turn(h) # Turn(v)
    BY <1>8, <1>12 DEF Turn
  <2> QED
    BY <1>2, <1>8, <1>9, <2>1, WorkerIs DEF Single
<1>16. TurnsOK(refreshes, fetched, handlers')
  BY <1>2, WorkerIs DEF TurnsOK
<1>17. NotesOK(unread', shown, n) /\ unread' \subseteq Nat
  BY <1>2, <1>7, WorkerIs DEF NotesOK
<1> QED
  BY <1>2, <1>10, <1>11, <1>13, <1>14, <1>15, <1>16, <1>17, BrowserIs, WorkerIs, GatewayStep

-----------------------------------------------------------------------------
(* Pushes and clicks, step by step.                                        *)

LEMMA HandlerIs ==
    ASSUME DInv, NEW h \in handlers
    PROVE  /\ h \in HandlerType
           /\ HandlerOK(h, Live, unread, account, refreshes, fetched, spent.pushes)
BY WorkerIs DEF HandlersOK

LEMMA ArrivesKeeps ==
    ASSUME DInv, NEW h \in handlers, Arrives(h)
    PROVE  DInv'
<1>1. /\ h.stage = "sent" /\ Starts(h)
      /\ UNCHANGED <<session, registry, notes, browser, pages, tasks, mail, leases, account, fetched, shown, spent>>
  BY DEF Arrives
<1>2. h \in HandlerType /\ h.n \in 1..spent.pushes /\ h.gen # 0
  BY HandlerIs DEF HandlerOK
<1>3. \A l \in handlers : Turn(l) = Turn(h) => l = h /\ l.stage = "sent"
  BY <1>1, WorkerIs DEF Single
<1>4. Live \in Nat
  BY SessionsAre
<1>5. /\ handlers' \subseteq HandlerType /\ refreshes' \in Seq(TurnType)
      /\ HandlersOK(handlers', Live, unread, account, refreshes', fetched, spent.pushes) /\ Single(handlers')
      /\ TurnsOK(refreshes', fetched, handlers')
  BY <1>1, <1>2, <1>3, <1>4, WorkerIs, StartsKeeps
<1> QED
  BY <1>1, <1>5, BrowserIs, WorkerIs, SessionsAre, WorkerStep

LEMMA ClickKeeps ==
    ASSUME DInv, NEW s \in shown, Click(s)
    PROVE  DInv'
<1> DEFINE h == Handler("click", s.n, s.gen, 0)
<1>1. /\ shown' = shown \ {s} /\ Starts(h) /\ ~\E l \in handlers : l.kind = "click" /\ l.n = s.n
      /\ UNCHANGED <<session, registry, notes, browser, pages, tasks, mail, leases, account, fetched>>
  BY DEF Click
<1>2. Spending
  BY SessionsAre, SpendsIs DEF Click
<1>3. s.n \in 1..spent.pushes /\ s.n \in Nat /\ s.gen \in Nat /\ s.gen # 0
  BY WorkerIs DEF NotesOK
<1>4. h \in HandlerType /\ h.n = s.n /\ h.gen = s.gen /\ h.kind = "click"
  BY <1>3 DEF Handler, HandlerType, HandlerStages
<1> HIDE DEF h
<1>5. \A l \in handlers : Turn(l) # Turn(h)
  BY <1>1, <1>4 DEF Turn
<1>6. Live \in Nat
  BY SessionsAre
<1>7. /\ handlers' \subseteq HandlerType /\ refreshes' \in Seq(TurnType)
      /\ HandlersOK(handlers', Live, unread, account, refreshes', fetched, spent.pushes) /\ Single(handlers')
      /\ TurnsOK(refreshes', fetched, handlers')
  BY <1>1, <1>3, <1>4, <1>5, <1>6, WorkerIs, StartsKeeps
<1>8. NotesOK(unread, shown', spent.pushes) /\ shown' \subseteq shown
  BY <1>1, WorkerIs DEF NotesOK
<1> QED
  BY <1>1, <1>2, <1>7, <1>8, BrowserIs, WorkerIs, WorkerStep DEF Spending

\* A handler that is not waiting for its refresh takes a step of its own.
LEMMA HandlerStep ==
    ASSUME DInv, NEW h \in handlers, h.stage # "refreshing", NEW next \in HandlerType, Turn(next) = Turn(h),
           handlers' = (handlers \ {h}) \cup {next},
           HandlerOK(next, Live, unread, account, refreshes, fetched, spent.pushes),
           UNCHANGED spent \/ Spending,
           shown' \subseteq [n : Nat, gen : Nat], NotesOK(unread, shown', spent.pushes),
           UNCHANGED <<session, registry, notes, browser, pages, tasks, mail, leases, account, refreshes, fetched>>
    PROVE  DInv'
<1>1. spent' \in [steps : Nat, drops : Nat, pushes : Nat] /\ spent'.pushes = spent.pushes
  BY SessionsAre DEF Spending
<1>2. /\ (handlers \ {h}) \cup {next} \subseteq HandlerType
      /\ HandlersOK((handlers \ {h}) \cup {next}, Live, unread, account, refreshes, fetched, spent.pushes)
      /\ Single((handlers \ {h}) \cup {next}) /\ TurnsOK(refreshes, fetched, (handlers \ {h}) \cup {next})
  BY WorkerIs, SwapHandler
<1> QED
  BY <1>1, <1>2, BrowserIs, WorkerIs, WorkerStep

LEMMA StageIs ==
    ASSUME NEW h \in HandlerType, NEW stage \in HandlerStages, NEW next, next = [h EXCEPT !.stage = stage]
    PROVE  /\ next \in HandlerType /\ Turn(next) = Turn(h) /\ next.stage = stage /\ next.n = h.n
           /\ next.gen = h.gen /\ next.had = h.had /\ next.moved = h.moved /\ next.read = h.read
           /\ next.failed = h.failed
BY DEF HandlerType, Turn

LEMMA MatchKeeps ==
    ASSUME DInv, NEW h \in handlers, Match(h)
    PROVE  DInv'
<1> DEFINE stage == IF account = h.gen THEN "asking" ELSE "dropped"
           next == [h EXCEPT !.stage = stage]
<1>1. /\ h.stage = "matching" /\ handlers' = (handlers \ {h}) \cup {next}
      /\ UNCHANGED <<session, registry, notes, browser, pages, tasks, mail, leases, account, refreshes,
                      fetched, shown, spent>>
  BY DEF Match, Step
<1>2. stage \in {"asking", "dropped"} /\ stage \in HandlerStages
  BY DEF HandlerStages
<1> HIDE DEF stage
<1>3. /\ next \in HandlerType /\ Turn(next) = Turn(h) /\ next.stage = stage /\ next.n = h.n
      /\ next.gen = h.gen /\ next.had = h.had /\ next.moved = h.moved /\ next.read = h.read
      /\ next.failed = h.failed
  BY <1>2, HandlerIs, StageIs
<1> HIDE DEF next
<1>4. HandlerOK(next, Live, unread, account, refreshes, fetched, spent.pushes)
  BY <1>1, <1>2, <1>3, HandlerIs DEF HandlerOK, Active
<1> QED
  BY <1>1, <1>3, <1>4, WorkerIs, HandlerStep

LEMMA AskKeeps ==
    ASSUME DInv, NEW h \in handlers, Ask(h)
    PROVE  DInv'
<1>1. /\ h.stage = "asking"
      /\ UNCHANGED <<session, registry, notes, browser, pages, tasks, mail, leases, account, refreshes, fetched, shown>>
  BY DEF Ask
<1>2. h \in HandlerType /\ HandlerOK(h, Live, unread, account, refreshes, fetched, spent.pushes)
  BY HandlerIs
<1>3. CASE Step(h, IF Eligible(h) THEN "eligible" ELSE "dropped") /\ UNCHANGED spent
  <2> DEFINE stage == IF Eligible(h) THEN "eligible" ELSE "dropped"
             next == [h EXCEPT !.stage = stage]
  <2>1. handlers' = (handlers \ {h}) \cup {next}
    BY <1>3 DEF Step
  <2>2. /\ stage \in {"eligible", "dropped"} /\ stage \in HandlerStages
        /\ stage = "eligible" => Live = h.gen /\ h.n \in unread
    BY DEF HandlerStages, Eligible
  <2> HIDE DEF stage
  <2>3. /\ next \in HandlerType /\ Turn(next) = Turn(h) /\ next.stage = stage /\ next.n = h.n
        /\ next.gen = h.gen /\ next.had = h.had /\ next.moved = h.moved /\ next.read = h.read
        /\ next.failed = h.failed
    BY <1>2, <2>2, StageIs
  <2> HIDE DEF next
  <2>4. HandlerOK(next, Live, unread, account, refreshes, fetched, spent.pushes)
    BY <1>1, <1>2, <2>2, <2>3 DEF HandlerOK, Active
  <2> QED
    BY <1>1, <1>3, <2>1, <2>3, <2>4, WorkerIs, HandlerStep
<1>4. CASE Unlucky /\ handlers' = (handlers \ {h}) \cup {[h EXCEPT !.stage = "dropped", !.failed = TRUE]}
  <2> DEFINE next == [h EXCEPT !.stage = "dropped", !.failed = TRUE]
  <2>1. /\ next \in HandlerType /\ Turn(next) = Turn(h) /\ next.stage = "dropped" /\ next.n = h.n
        /\ next.gen = h.gen /\ next.read = h.read
    BY <1>2 DEF HandlerType, HandlerStages, Turn
  <2>2. handlers' = (handlers \ {h}) \cup {next}
    BY <1>4
  <2> HIDE DEF next
  <2>3. HandlerOK(next, Live, unread, account, refreshes, fetched, spent.pushes)
    BY <1>2, <2>1 DEF HandlerOK, Active
  <2>4. Spending
    BY <1>4, SessionsAre, SpendsIs
  <2> QED
    BY <1>1, <2>1, <2>2, <2>3, <2>4, WorkerIs, HandlerStep
<1> QED
  BY <1>3, <1>4 DEF Ask

LEMMA DecideKeeps ==
    ASSUME DInv, NEW h \in handlers, Decide(h)
    PROVE  DInv'
<1>1. /\ h.stage = "eligible"
      /\ UNCHANGED <<session, registry, notes, browser, pages, tasks, mail, leases, account, refreshes, fetched, spent>>
      /\ \/ Step(h, "suppressed") /\ UNCHANGED shown
         \/ Step(h, "shown") /\ shown' = shown \cup {Noted(h)}
  BY DEF Decide
<1>2. h \in HandlerType /\ HandlerOK(h, Live, unread, account, refreshes, fetched, spent.pushes)
  BY HandlerIs
<1>3. shown' \subseteq [n : Nat, gen : Nat] /\ NotesOK(unread, shown', spent.pushes)
  <2>1. Noted(h) \in [n : Nat, gen : Nat] /\ Noted(h).n = h.n /\ Noted(h).gen = h.gen
    BY <1>2 DEF Noted, HandlerType
  <2>2. h.n \in 1..spent.pushes /\ h.gen # 0
    BY <1>2 DEF HandlerOK
  <2> QED
    BY <1>1, <2>1, <2>2, WorkerIs DEF NotesOK
<1>4. PICK stage \in {"suppressed", "shown"} : handlers' = (handlers \ {h}) \cup {[h EXCEPT !.stage = stage]}
  BY <1>1 DEF Step
<1> DEFINE next == [h EXCEPT !.stage = stage]
<1>5. stage \in HandlerStages
  BY DEF HandlerStages
<1>6. /\ next \in HandlerType /\ Turn(next) = Turn(h) /\ next.stage = stage /\ next.n = h.n
      /\ next.gen = h.gen /\ next.had = h.had /\ next.moved = h.moved /\ next.read = h.read
      /\ next.failed = h.failed
  BY <1>2, <1>5, StageIs
<1> HIDE DEF next
<1>7. HandlerOK(next, Live, unread, account, refreshes, fetched, spent.pushes)
  BY <1>2, <1>6 DEF HandlerOK, Active
<1> QED
  BY <1>1, <1>3, <1>4, <1>6, <1>7, HandlerStep DEF next

LEMMA NavigateKeeps ==
    ASSUME DInv, NEW h \in handlers, Navigate(h)
    PROVE  DInv'
<1> DEFINE next == [h EXCEPT !.stage = "navigated"]
           healthy == {t \in Tabs : Chat(t) /\ Leased(t, h.gen)}
<1>1. /\ h.stage = "eligible" /\ handlers' = (handlers \ {h}) \cup {next}
      /\ UNCHANGED <<session, registry, notes, endpoint, made, account, refreshes, fetched, shown, spent>>
      /\ \/ \E t \in healthy :
              /\ Begins(t, [pages[t] EXCEPT !.visible = TRUE], "synchronize")
              /\ UNCHANGED <<mail, leases>>
         \/ \E t \in Tabs : Loads(t, Live, [pages EXCEPT ![t] = Loaded(Live, UserOf(Live))])
  BY DEF Navigate, Step
<1>2. h \in HandlerType /\ HandlerOK(h, Live, unread, account, refreshes, fetched, spent.pushes)
  BY HandlerIs
<1>3. /\ next \in HandlerType /\ Turn(next) = Turn(h) /\ next.stage = "navigated" /\ next.n = h.n
      /\ next.gen = h.gen /\ next.had = h.had /\ next.moved = h.moved /\ next.read = h.read
      /\ next.failed = h.failed
  <2>1. "navigated" \in HandlerStages
    BY DEF HandlerStages
  <2> QED
    BY <1>2, <2>1, StageIs
<1> HIDE DEF next
<1>4. HandlerOK(next, Live, unread, account, refreshes, fetched, spent.pushes)
  BY <1>2, <1>3 DEF HandlerOK, Active
<1>5. /\ (handlers \ {h}) \cup {next} \subseteq HandlerType
      /\ HandlersOK((handlers \ {h}) \cup {next}, Live, unread, account, refreshes, fetched, spent.pushes)
      /\ Single((handlers \ {h}) \cup {next}) /\ TurnsOK(refreshes, fetched, (handlers \ {h}) \cup {next})
  BY <1>1, <1>3, <1>4, WorkerIs, SwapHandler
<1> DEFINE Kept == /\ pages' \in [Tabs -> PageType] /\ tasks' \subseteq TaskType /\ stored' \in RecordType
                   /\ mail' \in Seq(MessageType) /\ leases' \in Seq(LeaseType)
                   /\ TasksOK(tasks', owner, valid, Live, Evidence, made.endpoint) /\ CurrentOK(tasks', pages')
                   /\ PagesOK(pages', owner, Live, Evidence) /\ StoredOK(stored', owner, Live, Evidence)
                   /\ LeasesOK(leases', mail', pages')
<1>6. Kept
  <2>1. ASSUME NEW t \in healthy, Begins(t, [pages[t] EXCEPT !.visible = TRUE], "synchronize"),
               UNCHANGED <<mail, leases>>
        PROVE  Kept
    <3> DEFINE p == [pages[t] EXCEPT !.visible = TRUE]
    <3>1. t \in Tabs /\ pages[t].gen # 0
      <4>1. PICK i \in DOMAIN leases : leases[i].tab = t
        BY DEF Leased, LeaseOf
      <4>2. LeasesOK(leases, mail, pages)
        BY BrowserIs
      <4> QED
        BY <4>1, <4>2 DEF LeasesOK
    <3>2. p \in PageType /\ Alike(pages[t], p)
      BY <3>1, BrowserIs DEF PageType, Alike
    <3>3. Begins(t, p, "synchronize")
      BY <2>1
    <3> HIDE DEF p, healthy
    <3>4. PageOK(p, owner, Live, Evidence)
      BY <3>1, <3>2, PageIs DEF PageOK, Alike
    <3>5. p.gen # 0
      BY <3>1, <3>2 DEF Alike
    <3>6. /\ pages' \in [Tabs -> PageType] /\ tasks' \subseteq TaskType /\ stored' \in RecordType
          /\ TasksOK(tasks', owner, valid, Live, Evidence, made.endpoint) /\ CurrentOK(tasks', pages')
          /\ PagesOK(pages', owner, Live, Evidence) /\ StoredOK(stored', owner, Live, Evidence)
          /\ pages'[t].gen = p.gen /\ pages'[t].healthy = p.healthy /\ pages'[t].user = p.user
          /\ \A u \in Tabs \ {t} : Agree(pages, pages', u)
      BY <3>1, <3>2, <3>3, <3>4, <3>5, BeginsStep
    <3>7. \A u \in Tabs : Agree(pages, pages', u)
      BY <3>2, <3>6 DEF Agree, Alike
    <3>8. LeasesOK(leases, mail, pages') /\ mail' = mail /\ leases' = leases
      BY <2>1, <3>7, BrowserIs, LeasesAgree
    <3> QED
      BY <3>6, <3>8, BrowserIs
  <2>2. ASSUME NEW t \in Tabs, Loads(t, Live, [pages EXCEPT ![t] = Loaded(Live, UserOf(Live))])
        PROVE  Kept
    <3> DEFINE user == UserOf(Live)
               ps == [pages EXCEPT ![t] = Loaded(Live, user)]
    <3>1. user \in Account /\ Live \in Nat /\ Loads(t, Live, ps)
      BY <2>2, SessionsAre
    <3> HIDE DEF user
    <3>2. ps \in [Tabs -> PageType] /\ ps[t] = Loaded(Live, user) /\ \A u \in Tabs \ {t} : Alike(pages[u], ps[u])
      <4>1. Loaded(Live, user) \in PageType
        BY <3>1, LoadedIs
      <4>2. ps \in [Tabs -> PageType] /\ ps[t] = Loaded(Live, user) /\ \A u \in Tabs \ {t} : ps[u] = pages[u]
        BY <4>1, BrowserIs
      <4> QED
        BY <4>2 DEF Alike
    <3> HIDE DEF ps
    <3> QED
      BY <3>1, <3>2, BrowserIs, LoadsKeeps
  <2> QED
    BY <1>1, <2>1, <2>2
<1>7. UNCHANGED <<owner, valid, cookie, rows, unread>> /\ Live' = Live /\ Evidence' = Evidence
  BY <1>1, SameSession, SameRegistry DEF notes
<1>8. Shape'
  BY <1>1, <1>5, <1>6, <1>7 DEF DInv, Shape
<1>9. Device' /\ Pages' /\ Tasks' /\ Leases'
  BY <1>1, <1>6, <1>7 DEF DInv, Device, Pages, Tasks, Leases
<1>10. Pushes'
  BY <1>1, <1>5, <1>7 DEF DInv, Pushes
<1> QED
  BY <1>8, <1>9, <1>10 DEF DInv

-----------------------------------------------------------------------------
(* The invariant.                                                          *)

\* A device that was never subscribed has nothing that could be wrong; a
\* registered one has a page whose lease is its session.
LEMMA InitDInv == Init => DInv
<1> SUFFICES ASSUME Init PROVE DInv
  OBVIOUS
<1>1. PICK user \in Users : owner = <<user>>
  BY DEF Init
<1>2. PICK t \in Tabs :
        \/ /\ rows = {} /\ endpoint = 0 /\ stored = NoRecord /\ made = [endpoint |-> 0, inst |-> 0]
           /\ pages = [u \in Tabs |-> IF u = t THEN Loaded(1, owner[1]) ELSE Closed]
           /\ mail = <<RefreshMessage>> /\ leases = <<>> /\ account = 0
        \/ /\ rows = {Row(1, 1, 1)} /\ endpoint = 1
           /\ stored = Record(1, TRUE, 1, owner[1]) /\ made = [endpoint |-> 1, inst |-> 1]
           /\ pages = [u \in Tabs |->
                IF u = t
                THEN [Closed EXCEPT !.open = TRUE, !.visible = TRUE, !.user = owner[1], !.trusted = TRUE,
                                    !.gen = 1, !.inst = 1, !.healthy = TRUE, !.subscribed = TRUE]
                ELSE Closed]
           /\ mail = <<>> /\ leases = <<[tab |-> t, gen |-> 1]>> /\ account = 1
  BY DEF Init
<1>3. /\ valid = {1} /\ cookie = 1 /\ unread = {} /\ tasks = {} /\ refreshes = <<>> /\ fetched = None
      /\ handlers = {} /\ shown = {} /\ spent = [steps |-> 0, drops |-> 0, pushes |-> 0]
      /\ Live = 1
  BY DEF Init, Live
<1>4. owner \in Seq(Users) /\ Len(owner) = 1 /\ owner[1] = user /\ user \in Account
  BY <1>1 DEF Account
<1>5. valid \subseteq 1..Len(owner) /\ cookie \in 0..Len(owner) /\ Belongs(owner, 1, user) /\ LeaseLimit >= 1
  BY <1>3, <1>4, DeviceAssumption DEF Belongs, DeviceAssumption
<1>6. /\ Closed \in PageType /\ ~Closed.loading /\ ~Closed.open /\ \A own, c, R : PageOK(Closed, own, c, R)
  BY DEF Closed, PageType, Boot, Account, PageOK
<1>7. Pushes
  BY <1>3 DEF Pushes, NotesOK, HandlersOK, Single, TurnsOK
<1>8. TasksOK(tasks, owner, valid, Live, Evidence, made.endpoint)
  BY <1>3 DEF TasksOK
<1>9. /\ refreshes \in Seq(TurnType) /\ fetched \in Nat \cup {None} /\ handlers \subseteq HandlerType
      /\ shown \subseteq [n : Nat, gen : Nat] /\ unread \subseteq Nat /\ tasks \subseteq TaskType
      /\ spent \in [steps : Nat, drops : Nat, pushes : Nat]
  BY <1>3
<1>10. CASE /\ rows = {} /\ endpoint = 0 /\ stored = NoRecord /\ made = [endpoint |-> 0, inst |-> 0]
            /\ pages = [u \in Tabs |-> IF u = t THEN Loaded(1, owner[1]) ELSE Closed]
            /\ mail = <<RefreshMessage>> /\ leases = <<>> /\ account = 0
  <2>1. /\ Loaded(1, user) \in PageType /\ ~Loaded(1, user).loading
        /\ PageOK(Loaded(1, user), owner, Live, Evidence)
    BY <1>4, LoadedIs
  <2>2. \A u \in Tabs : pages[u] = IF u = t THEN Loaded(1, user) ELSE Closed
    BY <1>4, <1>10
  <2>3. pages \in [Tabs -> PageType] /\ PagesOK(pages, owner, Live, Evidence)
    BY <1>4, <1>6, <1>10, <2>1, <2>2 DEF PagesOK
  <2>4. CurrentOK(tasks, pages)
    BY <1>3, <1>6, <2>1, <2>2 DEF CurrentOK
  <2>5. stored \in RecordType /\ StoredOK(stored, owner, Live, Evidence)
    BY <1>10 DEF NoRecord, Record, RecordType, StoredOK, Account
  <2>6. mail \in Seq(MessageType) /\ leases \in Seq(LeaseType)
    BY <1>10, RefreshMessageIs
  <2>7. LeasesOK(leases, mail, pages)
    <3>1. DOMAIN leases = {} /\ Len(leases) = 0 /\ DOMAIN mail = {1} /\ mail[1] = RefreshMessage
      BY <1>10
    <3> HIDE <1>10
    <3>2. \A i \in DOMAIN mail : mail[i].type = "refresh" /\ \A u : ~FromPage(mail[i], u)
      BY <3>1, RefreshMessageIs
    <3> QED
      BY <3>1, <3>2, <1>5, DeviceAssumption DEF LeasesOK, LastFrom, DeviceAssumption
  <2>8. Shape
    BY <1>4, <1>5, <1>9, <1>10, <2>3, <2>5, <2>6 DEF Shape
  <2>9. Device
    BY <1>10, <2>5 DEF Device, RowsOK
  <2> QED
    BY <1>7, <1>8, <2>3, <2>4, <2>7, <2>8, <2>9 DEF DInv, Pages, Tasks, Leases
<1>11. CASE /\ rows = {Row(1, 1, 1)} /\ endpoint = 1
            /\ stored = Record(1, TRUE, 1, owner[1]) /\ made = [endpoint |-> 1, inst |-> 1]
            /\ pages = [u \in Tabs |->
                 IF u = t
                 THEN [Closed EXCEPT !.open = TRUE, !.visible = TRUE, !.user = owner[1], !.trusted = TRUE,
                                     !.gen = 1, !.inst = 1, !.healthy = TRUE, !.subscribed = TRUE]
                 ELSE Closed]
            /\ mail = <<>> /\ leases = <<[tab |-> t, gen |-> 1]>> /\ account = 1
  <2> DEFINE p == [Closed EXCEPT !.open = TRUE, !.visible = TRUE, !.user = user, !.trusted = TRUE,
                                 !.gen = 1, !.inst = 1, !.healthy = TRUE, !.subscribed = TRUE]
  <2>1. /\ p \in PageType /\ p.open /\ p.gen = 1 /\ p.user = user /\ p.inst = 1 /\ p.healthy /\ ~p.loading
        /\ p.boot = Closed.boot /\ Closed.boot.stage = "idle"
    BY <1>4, <1>6 DEF Closed, PageType
  <2>2. \A u \in Tabs : pages[u] = IF u = t THEN p ELSE Closed
    BY <1>4, <1>11
  <2>3. pages = [u \in Tabs |-> IF u = t THEN p ELSE Closed]
    BY <1>4, <1>11
  <2> HIDE DEF p
  <2>4. Bound(Evidence, Live) /\ rows \subseteq RowType /\ RowsOK(rows, owner, made.endpoint)
    <3>1. rows = {[endpoint |-> 1, inst |-> 1, gen |-> 1, reported |-> FALSE]} /\ made.endpoint = 1
      BY <1>11 DEF Row
    <3>2. Bound(Evidence, Live)
      BY <1>3, <3>1 DEF Bound, Evidence
    <3> QED
      BY ONLY <3>1, <3>2, <1>4 DEF RowType, RowsOK
  <2>5. PageOK(p, owner, Live, Evidence)
    BY <1>3, <1>5, <2>1, <2>4 DEF PageOK
  <2>6. pages \in [Tabs -> PageType] /\ PagesOK(pages, owner, Live, Evidence)
    BY <1>6, <2>1, <2>2, <2>3, <2>5 DEF PagesOK
  <2>7. CurrentOK(tasks, pages)
    BY <1>3, <1>6, <2>1, <2>2 DEF CurrentOK
  <2>8. stored \in RecordType /\ StoredOK(stored, owner, Live, Evidence)
    <3>1. stored = [inst |-> 1, confirmed |-> TRUE, gen |-> 1, user |-> user]
      BY <1>4, <1>11 DEF Record
    <3> QED
      BY <3>1, <1>3, <1>4, <1>5, <2>4 DEF RecordType, StoredOK
  <2>9. mail \in Seq(MessageType) /\ leases \in Seq(LeaseType) /\ DOMAIN mail = {} /\ DOMAIN leases = {1}
        /\ Len(leases) = 1 /\ leases[1].tab = t /\ leases[1].gen = 1
    <3>1. [tab |-> t, gen |-> 1] \in LeaseType
      BY DEF LeaseType
    <3> QED
      BY <3>1, <1>11
  <2>10. LeasesOK(leases, mail, pages)
    <3>1. \A i \in DOMAIN leases : i = 1 /\ leases[i].tab = t /\ leases[i].gen = 1
      BY <2>9
    <3>2. \A i, j \in DOMAIN leases : i = j
      BY <3>1
    <3>3. pages[t].gen = 1 /\ pages[t].healthy
      BY <2>1, <2>2
    <3>4. \A i \in DOMAIN mail : FALSE
      BY <2>9
    <3>5. Len(leases) <= LeaseLimit
      BY <2>9, <1>5
    <3> HIDE <1>11
    <3> QED
      <4>1. \A i \in DOMAIN leases : pages[leases[i].tab].gen # 0
        BY ONLY <3>1, <3>3
      <4>2. \A u \in Tabs : \A i \in DOMAIN leases : leases[i].tab = u => leases[i].gen = pages[u].gen /\ pages[u].healthy
        BY ONLY <3>1, <3>3
      <4>3. \A i, j \in DOMAIN leases : i # j => leases[i].tab # leases[j].tab
        BY ONLY <3>2
      <4>4. \A i \in DOMAIN mail : mail[i].type = "lease" /\ mail[i].gen # 0 => pages[mail[i].tab].gen # 0
        BY ONLY <3>4
      <4>5. \A i \in DOMAIN mail : \A u \in Tabs : LastFrom(mail, i, u) => mail[i] = LeaseMessage(u, pages[u])
        BY ONLY <3>4
      <4> QED
        BY ONLY <3>5, <4>1, <4>2, <4>3, <4>4, <4>5 DEF LeasesOK
  <2>11. Shape
    BY <1>4, <1>5, <1>9, <1>11, <2>4, <2>6, <2>8, <2>9 DEF Shape
  <2>12. Device
    <3>1. endpoint = 1 /\ made.endpoint = 1
      BY <1>11
    <3> QED
      BY ONLY <3>1, <2>4, <2>8 DEF Device
  <2> QED
    BY <1>7, <1>8, <2>6, <2>7, <2>10, <2>11, <2>12 DEF DInv, Pages, Tasks, Leases
<1> QED
  BY <1>2, <1>10, <1>11

LEMMA NextDInv == DInv /\ [Next]_vars => DInv'
<1> SUFFICES ASSUME DInv, [Next]_vars PROVE DInv'
  OBVIOUS
<1>1. CASE Session
  BY <1>1, RotateKeeps, CookieLostKeeps, SessionExpiresKeeps, ResetElsewhereKeeps, ResetPasswordKeeps,
     LogOutKeeps, LogInKeeps DEF Session
<1>2. ASSUME NEW t \in Tabs,
             \/ Load(t) \/ BootServed(t) \/ BootFails(t) \/ BootApplied(t) \/ Connects(t) \/ Disconnects(t)
             \/ Focus(t) \/ Hide(t) \/ Enable(t) \/ Heartbeat(t)
      PROVE  DInv'
  BY <1>2, LoadKeeps, BootServedKeeps, BootFailsKeeps, BootAppliedKeeps, ConnectsKeeps, DisconnectsKeeps,
     FocusKeeps, HideKeeps, EnableKeeps, HeartbeatKeeps
<1>3. ASSUME NEW k \in tasks,
             Look(k) \/ SaveServed(k) \/ SaveFails(k) \/ SaveAnswered(k) \/ Unsubscribed(k) \/ Subscribed(k)
      PROVE  DInv'
  BY <1>3, LookKeeps, SaveServedKeeps, SaveFailsKeeps, SaveAnsweredKeeps, UnsubscribedKeeps, SubscribedKeeps
<1>4. CASE Mail \/ LeaseExpires \/ WorkerStops \/ RefreshServed \/ RefreshFails \/ RefreshStored
  BY <1>4, MailKeeps, LeaseExpiresKeeps, WorkerStopsKeeps, RefreshServedKeeps, RefreshFailsKeeps,
     RefreshStoredKeeps
<1>5. ASSUME NEW h \in handlers, Arrives(h) \/ Match(h) \/ Ask(h) \/ Decide(h) \/ Navigate(h)
      PROVE  DInv'
  BY <1>5, ArrivesKeeps, MatchKeeps, AskKeeps, DecideKeeps, NavigateKeeps
<1>6. CASE SubscriptionDropped \/ \E s \in shown : Click(s)
  BY <1>6, ClickKeeps, SubscriptionDroppedKeeps
<1>7. CASE Gateway
  BY <1>7, DeliverKeeps, DeleteExpiredKeeps, ReadKeeps, MutedKeeps DEF Gateway
<1>8. CASE UNCHANGED vars
  <2>1. UNCHANGED <<session, registry, notes, browser, pages, tasks, mail, leases, account, refreshes,
                    fetched, handlers, shown, spent>>
    BY <1>8 DEF vars, session, registry, notes, browser
  <2> QED
    BY <2>1, BrowserIs, WorkerIs, SessionsAre, WorkerStep
<1> QED
  BY <1>1, <1>2, <1>3, <1>4, <1>5, <1>6, <1>7, <1>8 DEF Next, Page, Worker

LEMMA InvariantDInv == Spec => []DInv
BY InitDInv, NextDInv, PTL DEF Spec

-----------------------------------------------------------------------------
(* The theorems.                                                           *)

\* Type correctness: registrations hang on sessions that are there, the
\* worker has one lease a page and no more than the limit
\* (service-worker.js:70-90), and a page that is loading waits for its one
\* current task (push_notifications.ts:213-230).
THEOREM DeviceTypeCorrect == Spec => []TypeOK
<1>1. DInv => TypeOK
  <2> SUFFICES ASSUME DInv PROVE TypeOK
    OBVIOUS
  <2>1. owner \in Seq(Users) /\ valid \subseteq 1..Len(owner) /\ cookie \in Gens
    BY SessionsAre DEF Gens
  <2>2. \A r \in rows : r.gen \in 1..Len(owner) /\ r.endpoint \in 1..made.endpoint
    BY BrowserIs DEF RowsOK
  <2>3. Len(leases) <= LeaseLimit /\ \A i, j \in DOMAIN leases : i # j => leases[i].tab # leases[j].tab
    BY BrowserIs DEF LeasesOK
  <2>4. /\ \A k, l \in tasks : k.current /\ l.current /\ k.tab = l.tab => k = l
        /\ \A t \in Tabs : pages[t].loading => \E k \in tasks : k.current /\ k.tab = t
    BY BrowserIs DEF CurrentOK
  <2> QED
    BY <2>1, <2>2, <2>3, <2>4, BrowserIs DEF TypeOK
<1> QED
  BY <1>1, InvariantDInv, PTL

\* A confirmation in localStorage that is of the browser's session, while that
\* is valid, is of its user and rests on a registration of that session, unless
\* a delivery has deleted the last one because its endpoint was gone
\* (delivery.ex:276-279, 336-342) and the session has not registered since:
\* whatever bootstrap is applied late, save superseded or session changed
\* (push_notifications.ts:322-343, push_registrations.ex:27-101).
THEOREM ConfirmedRegistered == Spec => []ConfirmedIsRegistered
<1>1. DInv => ConfirmedIsRegistered
  BY BrowserIs DEF ConfirmedIsRegistered, StoredOK, Belongs, Bound, Evidence, UserOf
<1> QED
  BY <1>1, InvariantDInv, PTL

\* What a step must satisfy for PushVerdict.
VerdictStep ==
    \A h \in handlers :
        /\ Verdict(h, "shown") => h.had /\ ~h.read
        /\ Verdict(h, "dropped") => h.moved \/ h.failed \/ h.n \notin unread \/ h.n \in muted
                                 \/ (h.stage = "asking" /\ spent' # spent)
        /\ Verdict(h, "suppressed") =>
            \E t \in Tabs :
                /\ pages[t].visible
                /\ \/ pages[t].gen = h.gen /\ pages[t].healthy
                   \/ \E i \in DOMAIN mail : mail[i].type = "lease" /\ mail[i].tab = t

\* No handler comes to a verdict.
LEMMA NoVerdict ==
    ASSUME DInv,
           \A g \in handlers' : g.stage \in {"shown", "dropped", "suppressed"} =>
                \E l \in handlers : Turn(l) = Turn(g) /\ l.stage = g.stage
    PROVE  VerdictStep
<1>1. \A h \in handlers : \A stage \in {"shown", "dropped", "suppressed"} : ~Verdict(h, stage)
  <2> SUFFICES ASSUME NEW h \in handlers, NEW stage \in {"shown", "dropped", "suppressed"}, Verdict(h, stage)
               PROVE  FALSE
    OBVIOUS
  <2>1. PICK g \in handlers' : g.kind = h.kind /\ g.n = h.n /\ g.stage = stage
    BY DEF Verdict
  <2>2. PICK l \in handlers : Turn(l) = Turn(g) /\ l.stage = stage
    BY <2>1
  <2>3. Turn(g) = Turn(h)
    BY <2>1 DEF Turn
  <2>4. l = h
    BY <2>2, <2>3, WorkerIs DEF Single
  <2> QED
    BY <2>2, <2>4 DEF Verdict
<1> QED
  BY <1>1 DEF VerdictStep

\* Only the handler that takes the step can come to a verdict.
LEMMA OneVerdict ==
    ASSUME DInv, NEW h \in handlers, NEW next, Turn(next) = Turn(h), handlers' = (handlers \ {h}) \cup {next},
           NEW g \in handlers, NEW stage, Verdict(g, stage)
    PROVE  g = h /\ next.stage = stage
<1>1. PICK a \in handlers' : a.kind = g.kind /\ a.n = g.n /\ a.stage = stage
  BY DEF Verdict
<1>2. Turn(a) = Turn(g)
  BY <1>1 DEF Turn
<1>3. ~(a \in handlers)
  BY <1>1, <1>2, WorkerIs DEF Single, Verdict
<1>4. a = next
  BY <1>3
<1> QED
  BY <1>1, <1>2, <1>4, WorkerIs DEF Single

LEMMA MatchVerdict ==
    ASSUME DInv, NEW h \in handlers, Match(h)
    PROVE  VerdictStep
<1> DEFINE stage == IF account = h.gen THEN "asking" ELSE "dropped"
           next == [h EXCEPT !.stage = stage]
<1>1. h.stage = "matching" /\ handlers' = (handlers \ {h}) \cup {next}
  BY DEF Match, Step
<1>2. stage \in HandlerStages /\ stage # "shown" /\ stage # "suppressed" /\ (stage = "dropped" => account # h.gen)
  BY DEF HandlerStages
<1> HIDE DEF stage
<1>3. Turn(next) = Turn(h) /\ next.stage = stage
  BY <1>2, HandlerIs, StageIs
<1> HIDE DEF next
<1>4. \A g \in handlers : \A s : Verdict(g, s) => g = h /\ stage = s
  BY <1>1, <1>3, OneVerdict
<1>5. stage = "dropped" => h.moved \/ h.failed
  BY <1>1, <1>2, HandlerIs DEF HandlerOK, Excused
<1> QED
  BY <1>2, <1>4, <1>5 DEF VerdictStep

LEMMA AskVerdict ==
    ASSUME DInv, NEW h \in handlers, Ask(h)
    PROVE  VerdictStep
<1>1. h.stage = "asking"
  BY DEF Ask
<1>2. h \in HandlerType /\ h.gen # 0 /\ (Live # h.gen => h.moved)
  BY <1>1, HandlerIs DEF HandlerOK, Active
<1>3. CASE Step(h, IF Eligible(h) THEN "eligible" ELSE "dropped")
  <2> DEFINE stage == IF Eligible(h) THEN "eligible" ELSE "dropped"
             next == [h EXCEPT !.stage = stage]
  <2>1. handlers' = (handlers \ {h}) \cup {next}
    BY <1>3 DEF Step
  <2>2. /\ stage \in HandlerStages /\ stage # "shown" /\ stage # "suppressed"
        /\ stage = "dropped" => h.moved \/ h.n \notin unread \/ h.n \in muted
    BY <1>2 DEF HandlerStages, Eligible
  <2> HIDE DEF stage
  <2>3. Turn(next) = Turn(h) /\ next.stage = stage
    BY <1>2, <2>2, StageIs
  <2> HIDE DEF next
  <2>4. \A g \in handlers : \A s : Verdict(g, s) => g = h /\ stage = s
    BY <2>1, <2>3, OneVerdict
  <2> QED
    BY <2>2, <2>4 DEF VerdictStep
<1>4. CASE Unlucky /\ handlers' = (handlers \ {h}) \cup {[h EXCEPT !.stage = "dropped", !.failed = TRUE]}
  <2> DEFINE next == [h EXCEPT !.stage = "dropped", !.failed = TRUE]
  <2>1. Turn(next) = Turn(h) /\ next.stage = "dropped"
    BY <1>2 DEF HandlerType, Turn
  <2>2. handlers' = (handlers \ {h}) \cup {next}
    BY <1>4
  <2> HIDE DEF next
  <2>3. \A g \in handlers : \A s : Verdict(g, s) => g = h /\ "dropped" = s
    BY <2>1, <2>2, OneVerdict
  <2>4. spent' # spent
    <3>1. spent'.drops = spent.drops + 1
      BY <1>4, SessionsAre DEF Unlucky
    <3>2. spent.drops \in Nat
      BY SessionsAre
    <3> QED
      BY <3>1, <3>2
  <2> QED
    BY <1>1, <2>3, <2>4 DEF VerdictStep
<1> QED
  BY <1>3, <1>4 DEF Ask

\* A page that suppresses a push has a lease with the session of the push: it
\* is what the page is unless the page has already said something else.
LEMMA DecideVerdict ==
    ASSUME DInv, NEW h \in handlers, Decide(h)
    PROVE  VerdictStep
<1>1. h \in HandlerType /\ h.had /\ ~h.read
  BY HandlerIs DEF HandlerOK, Decide
<1>2. CASE (\E t \in Tabs : Chat(t) /\ pages[t].visible /\ Leased(t, h.gen)) /\ Step(h, "suppressed")
  <2> DEFINE next == [h EXCEPT !.stage = "suppressed"]
  <2>1. Turn(next) = Turn(h) /\ next.stage = "suppressed"
    BY <1>1 DEF HandlerType, Turn
  <2>2. handlers' = (handlers \ {h}) \cup {next}
    BY <1>2 DEF Step
  <2> HIDE DEF next
  <2>3. \A g \in handlers : \A s : Verdict(g, s) => g = h /\ "suppressed" = s
    BY <2>1, <2>2, OneVerdict
  <2>4. PICK t \in Tabs : pages[t].visible /\ Leased(t, h.gen)
    BY <1>2
  <2>5. PICK i \in DOMAIN leases : leases[i].tab = t /\ leases[i].gen = h.gen
    BY <2>4 DEF Leased, LeaseOf
  <2>6. \/ pages[t].gen = h.gen /\ pages[t].healthy
        \/ \E j \in DOMAIN mail : mail[j].type = "lease" /\ mail[j].tab = t
    <3>1. CASE Silent(mail, t)
      BY <3>1, <2>5, BrowserIs DEF LeasesOK
    <3>2. CASE ~Silent(mail, t)
      BY <3>2 DEF Silent, FromPage
    <3> QED
      BY <3>1, <3>2
  <2> QED
    BY <2>3, <2>4, <2>6 DEF VerdictStep
<1>3. CASE Step(h, "shown")
  <2> DEFINE next == [h EXCEPT !.stage = "shown"]
  <2>1. Turn(next) = Turn(h) /\ next.stage = "shown"
    BY <1>1 DEF HandlerType, Turn
  <2>2. handlers' = (handlers \ {h}) \cup {next}
    BY <1>3 DEF Step
  <2> HIDE DEF next
  <2>3. \A g \in handlers : \A s : Verdict(g, s) => g = h /\ "shown" = s
    BY <2>1, <2>2, OneVerdict
  <2> QED
    BY <1>1, <2>3 DEF VerdictStep
<1> QED
  BY <1>2, <1>3 DEF Decide

LEMMA WitnessStages ==
    ASSUME handlers \subseteq HandlerType, NEW c, NEW g \in Witness(c)
    PROVE  \E l \in handlers : Turn(l) = Turn(g) /\ l.stage = g.stage
<1>1. PICK l \in handlers :
        g = IF Active(l) THEN [l EXCEPT !.had = @ \/ c = l.gen, !.moved = @ \/ c # l.gen] ELSE l
  BY Zenon DEF Witness
<1> DEFINE a == l.had \/ c = l.gen
           b == l.moved \/ c # l.gen
           v == [l EXCEPT !.had = a, !.moved = b]
<1>2. g = v \/ g = l
  BY <1>1, Zenon
<1> HIDE DEF a, b
<1>3. v.kind = l.kind /\ v.n = l.n /\ v.stage = l.stage
  BY DEF HandlerType
<1> QED
  BY <1>2, <1>3 DEF Turn

\* Steps in which handlers only begin, wait, fail or see sessions change.
LEMMA SessionVerdict ==
    ASSUME DInv, Session
    PROVE  VerdictStep
<1>1. (\E c : handlers' = Witness(c)) \/ handlers' \subseteq handlers
  <2>1. CASE Rotate \/ CookieLost
    BY <2>1 DEF Rotate, CookieLost, Renewed
  <2>2. CASE (\E g \in valid : SessionExpires(g)) \/ \E user \in Users : ResetElsewhere(user)
    BY <2>2 DEF SessionExpires, ResetElsewhere, SessionsEnd
  <2>3. CASE \E t \in Tabs : ResetPassword(t) \/ LogOut(t) \/ \E user \in Users : LogIn(t, user)
    BY <2>3 DEF ResetPassword, LogOut, LogIn, Redirected, Renewed
  <2> QED
    BY <2>1, <2>2, <2>3 DEF Session
<1> QED
  BY <1>1, WorkerIs, WitnessStages, NoVerdict

LEMMA SameVerdict ==
    ASSUME DInv, UNCHANGED handlers
    PROVE  VerdictStep
BY NoVerdict

LEMMA PageVerdict ==
    ASSUME DInv, Page
    PROVE  VerdictStep
<1>1. ASSUME NEW t \in Tabs,
             \/ Load(t) \/ BootServed(t) \/ BootFails(t) \/ BootApplied(t) \/ Connects(t) \/ Disconnects(t)
             \/ Focus(t) \/ Hide(t) \/ Enable(t) \/ Heartbeat(t)
      PROVE  UNCHANGED handlers
  BY <1>1 DEF Load, BootServed, BootFails, BootApplied, Connects, Disconnects, Focus, Hide, Enable,
              Heartbeat, worker
<1>2. ASSUME NEW k \in tasks,
             Look(k) \/ SaveServed(k) \/ SaveFails(k) \/ SaveAnswered(k) \/ Unsubscribed(k) \/ Subscribed(k)
      PROVE  UNCHANGED handlers
  BY <1>2 DEF Look, SaveServed, SaveFails, SaveAnswered, Unsubscribed, Subscribed, worker
<1>3. SubscriptionDropped => UNCHANGED handlers
  BY DEF SubscriptionDropped, worker
<1> QED
  BY <1>1, <1>2, <1>3, SameVerdict DEF Page

LEMMA RefreshVerdict ==
    ASSUME DInv, RefreshFails \/ RefreshStored
    PROVE  VerdictStep
<1>1. handlers \subseteq HandlerType
  BY WorkerIs
<1>2. CASE RefreshFails
  <2>1. handlers' = {IF Active(h) THEN [h EXCEPT !.failed = TRUE] ELSE h : h \in handlers}
    BY <1>2 DEF RefreshFails
  <2>2. \A h \in handlers : Turn([h EXCEPT !.failed = TRUE]) = Turn(h) /\ [h EXCEPT !.failed = TRUE].stage = h.stage
    BY <1>1 DEF HandlerType, Turn
  <2> QED
    BY <2>1, <2>2, NoVerdict
<1>3. CASE RefreshStored
  <2>1. \A g \in handlers' : g \in handlers \/ \E h \in handlers : g = [h EXCEPT !.stage = "matching"]
    BY <1>3 DEF RefreshStored
  <2>2. \A h \in handlers : [h EXCEPT !.stage = "matching"].stage = "matching"
    BY <1>1 DEF HandlerType
  <2> QED
    BY <2>1, <2>2, NoVerdict
<1> QED
  BY <1>2, <1>3

LEMMA StartVerdict ==
    ASSUME DInv, (\E user \in Users : Deliver(user)) \/ (\E h \in handlers : Arrives(h)) \/ (\E s \in shown : Click(s))
    PROVE  VerdictStep
<1>1. CASE \E user \in Users : Deliver(user)
  <2>1. \A g \in handlers' : g \in handlers \/ g.stage = "sent"
    BY <1>1 DEF Deliver, Handler
  <2> QED
    BY <2>1, NoVerdict
<1>2. ASSUME NEW h \in HandlerType, Starts(h)
      PROVE  VerdictStep
  <2>1. \A g \in handlers' : g \in handlers \/ g.stage = "refreshing"
    <3> DEFINE a == Live = h.gen
               b == Live # h.gen
               c == h.n \notin unread
               next == [h EXCEPT !.stage = "refreshing", !.had = a, !.moved = b, !.read = c]
    <3>1. handlers' = (handlers \ {h}) \cup {next}
      BY <1>2, Zenon DEF Starts
    <3> HIDE DEF a, b, c
    <3>2. next.stage = "refreshing"
      BY DEF HandlerType
    <3> HIDE DEF next
    <3> QED
      BY <3>1, <3>2
  <2> QED
    BY <2>1, NoVerdict
<1>3. \A h \in handlers : h \in HandlerType
  BY WorkerIs
<1>4. \A s \in shown : Handler("click", s.n, s.gen, 0) \in HandlerType
  BY WorkerIs DEF Handler, HandlerType, HandlerStages
<1>5. \A s \in shown : Click(s) => Starts(Handler("click", s.n, s.gen, 0))
  BY DEF Click
<1>6. \A h \in handlers : Arrives(h) => Starts(h)
  BY DEF Arrives
<1> QED
  BY <1>1, <1>2, <1>3, <1>4, <1>5, <1>6

LEMMA NavigateVerdict ==
    ASSUME DInv, NEW h \in handlers, Navigate(h)
    PROVE  VerdictStep
<1>1. handlers' = (handlers \ {h}) \cup {[h EXCEPT !.stage = "navigated"]}
  BY DEF Navigate, Step
<1>2. [h EXCEPT !.stage = "navigated"].stage = "navigated"
  BY HandlerIs DEF HandlerType
<1> QED
  BY <1>1, <1>2, NoVerdict

LEMMA NextVerdict ==
    ASSUME DInv, Next
    PROVE  VerdictStep
<1>1. CASE Mail \/ LeaseExpires \/ WorkerStops \/ RefreshServed
  <2>1. UNCHANGED handlers
    BY <1>1 DEF Mail, LeaseExpires, WorkerStops, RefreshServed
  <2> QED
    BY <2>1, SameVerdict
<1>2. CASE RefreshFails \/ RefreshStored
  BY <1>2, RefreshVerdict
<1>3. CASE (\E user \in Users : Deliver(user)) \/ (\E h \in handlers : Arrives(h)) \/ (\E s \in shown : Click(s))
  BY <1>3, StartVerdict
<1>4. ASSUME NEW h \in handlers, Match(h) \/ Ask(h) \/ Decide(h) \/ Navigate(h)
      PROVE  VerdictStep
  BY <1>4, MatchVerdict, AskVerdict, DecideVerdict, NavigateVerdict
<1>5. CASE \/ (\E n \in unread : Read(n)) \/ (\E r \in rows : DeleteExpired(r))
           \/ \E n \in 1..spent.pushes : Mute(n) \/ Unmute(n)
  <2>1. UNCHANGED handlers
    BY <1>5 DEF Read, DeleteExpired, Mute, Unmute, worker
  <2> QED
    BY <2>1, SameVerdict
<1> QED
  BY <1>1, <1>2, <1>3, <1>4, <1>5, SessionVerdict, PageVerdict DEF Next, Worker, Gateway

\* What becomes of a push (service-worker.js:26-60, 154-195, delivery.ex:20-45): it
\* is shown only to the session it was sent to and not after it was read, it
\* is dropped only for a changed session, a failed request or a notification
\* that is read or not wanted now, and it is suppressed only for a page on the
\* screen that is joined with its session or is about to say what it is.
THEOREM PushesEndWell == Spec => PushVerdict
<1>1. DInv /\ [Next]_vars => [VerdictStep]_vars
  BY NextVerdict
<1>2. [VerdictStep]_vars => [\A h \in handlers :
        /\ Verdict(h, "shown") => h.had /\ ~h.read
        /\ Verdict(h, "dropped") => h.moved \/ h.failed \/ h.n \notin unread \/ h.n \in muted
                                 \/ (h.stage = "asking" /\ spent' # spent)
        /\ Verdict(h, "suppressed") =>
            \E t \in Tabs :
                /\ pages[t].visible
                /\ \/ pages[t].gen = h.gen /\ pages[t].healthy
                   \/ \E i \in DOMAIN mail : mail[i].type = "lease" /\ mail[i].tab = t]_vars
  BY DEF VerdictStep
<1> QED
  BY <1>1, <1>2, InvariantDInv, PTL DEF Spec, PushVerdict

=============================================================================
