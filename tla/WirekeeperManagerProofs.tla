----------------------- MODULE WirekeeperManagerProofs -----------------------
(***************************************************************************)
(* Theorems about WirekeeperManager, for every value of its constants.     *)
(***************************************************************************)
EXTENDS WirekeeperManager, FiniteSetTheorems, TLAPS

-----------------------------------------------------------------------------
(* The inductive invariant.                                                *)

\* Attempts are used in order, and one that is not used has left no trace.
InOrder == \E n \in 0..MaxOpens : Used = 1..n
Unused ==
    \A a \in Ids : tasks[a] = "none" =>
        conns[a] = "none" /\ a \notin starts \cup manager.openings \cup cancelled

\* A start that waits belongs to a task that has not heard of its child.
Queued == \A a \in starts : tasks[a] \in {"starting", "exited"}

\* The key of a task at work is reserved, and an outcome is told by a task
\* that has come to its end.
Reserved == \A a \in Ids : tasks[a] \in {"starting", "waiting"} => a \in manager.openings
Reported ==
    \A m \in mail : m.kind \in {"result", "task_down"} => tasks[m.of] \in {"done", "exited"}

\* A reservation has a task at work or a message.
Held ==
    \A a \in manager.openings :
        tasks[a] \in {"starting", "waiting"} \/ \E m \in mail : m.of = a

\* The limit counts what is reserved with what is registered.
Limited == Cardinality(KeysOf(Counted \cup manager.openings)) <= MaxConnections

Tasks == Unused /\ Queued /\ Reserved /\ Reported /\ Held

MInv == TypeOK /\ InOrder /\ Tasks /\ Limited /\ CancelledLeavesNothing

-----------------------------------------------------------------------------
(* The keys of a set of attempts.                                          *)

LEMMA IdsAreFinite ==
    ASSUME NEW S, S \subseteq Ids
    PROVE  IsFiniteSet(S)
<1>1. IsFiniteSet(Ids)
  BY FS_Interval, ManagerAssumption DEF Ids
<1> QED
  BY <1>1, FS_Subset

LEMMA KeysAreFinite ==
    ASSUME NEW S, S \subseteq Ids
    PROVE  IsFiniteSet(KeysOf(S)) /\ Cardinality(KeysOf(S)) \in Nat
<1> DEFINE f == [a \in S |-> attempts[a]]
<1>1. f \in Surjection(S, KeysOf(S))
  BY DEF Surjection, KeysOf
<1>2. IsFiniteSet(KeysOf(S))
  BY <1>1, IdsAreFinite, FS_Surjection
<1> QED
  BY <1>2, FS_CardinalityType

LEMMA OneMoreKey ==
    ASSUME NEW K, IsFiniteSet(K), NEW k
    PROVE  /\ Cardinality(K \cup {k}) \in Nat
           /\ Cardinality(K \cup {k}) <= Cardinality(K) + 1
<1>1. /\ Cardinality(K) \in Nat
      /\ Cardinality(K \cup {k}) = IF k \in K THEN Cardinality(K) ELSE Cardinality(K) + 1
  BY FS_AddElement, FS_CardinalityType
<1> QED
  BY <1>1

\* Fewer attempts do not have more keys.
LEMMA LimitedKept ==
    ASSUME TypeOK, Limited, attempts' = attempts,
           (Counted \cup manager.openings)' \subseteq Counted \cup manager.openings
    PROVE  Limited'
<1> DEFINE S == Counted \cup manager.openings
           T == (Counted \cup manager.openings)'
<1>1. S \subseteq Ids
  BY DEF TypeOK, ManagerState, Counted
<1>2. KeysOf(T) \subseteq KeysOf(S) /\ KeysOf(Counted \cup manager.openings)' = KeysOf(T)
  BY DEF KeysOf
<1>3. IsFiniteSet(KeysOf(S)) /\ Cardinality(KeysOf(S)) \in Nat
  BY <1>1, KeysAreFinite
<1>4. Cardinality(KeysOf(T)) <= Cardinality(KeysOf(S)) /\ Cardinality(KeysOf(T)) \in Nat
  BY <1>2, <1>3, FS_Subset, FS_CardinalityType
<1> QED
  BY <1>2, <1>3, <1>4, ManagerAssumption DEF Limited

LEMMA InOrderKept ==
    ASSUME InOrder, Used' = Used
    PROVE  InOrder'
BY DEF InOrder

-----------------------------------------------------------------------------
(* The steps.                                                              *)

LEMMA InitMInv == Init => MInv
<1> SUFFICES ASSUME Init PROVE MInv
  OBVIOUS
<1>1. TypeOK
  BY ManagerAssumption DEF Init, TypeOK, ManagerState, TaskStates, ConnStates
<1>2. InOrder
  BY ManagerAssumption DEF Init, InOrder, Used
<1>3. Tasks /\ CancelledLeavesNothing
  BY DEF Init, Tasks, Unused, Queued, Reserved, Reported, Held, CancelledLeavesNothing
<1>4. Limited
  <2>1. KeysOf(Counted \cup manager.openings) = {}
    BY DEF Init, KeysOf, Counted
  <2> QED
    BY <2>1, FS_EmptySet, ManagerAssumption DEF Limited
<1> QED
  BY <1>1, <1>2, <1>3, <1>4 DEF MInv

\* The attempt that is accepted is a new one, and there is room for its key.
LEMMA OpenStep ==
    ASSUME MInv, NEW a \in Ids, Open(a)
    PROVE  MInv'
<1>1. PICK n \in 0..MaxOpens : Used = 1..n
  BY DEF MInv, InOrder
<1>2. Cardinality(Used) = n /\ n \in Nat
  BY <1>1, FS_Interval, ManagerAssumption
<1>3. a = n + 1 /\ tasks[a] = "none"
  BY <1>1, <1>2, ManagerAssumption DEF Open, Accepts, Used, Ids
<1>4. TypeOK'
  BY DEF Open, Accepts, MInv, TypeOK, ManagerState, TaskStates, ConnStates
<1>5. InOrder'
  <2>1. Used' = Used \cup {a}
    BY DEF Open, MInv, TypeOK, Used
  <2>2. Used' = 1..(n + 1) /\ n + 1 \in 0..MaxOpens
    BY <1>1, <1>2, <1>3, <2>1, ManagerAssumption DEF Ids
  <2> QED
    BY <2>2 DEF InOrder
<1>6. Tasks'
  BY <1>3 DEF Open, MInv, TypeOK, ManagerState, Tasks, Unused, Queued, Reserved, Reported, Held
<1>7. CancelledLeavesNothing'
  BY <1>3 DEF Open, MInv, TypeOK, Tasks, Unused, CancelledLeavesNothing
<1>8. Limited'
  <2> DEFINE S == Counted \cup manager.openings
  <2>1. (Counted \cup manager.openings)' = S \cup {a} /\ attempts' = attempts
    BY DEF Open, MInv, TypeOK, ManagerState, Counted
  <2>2. KeysOf(Counted \cup manager.openings)' = KeysOf(S) \cup {attempts[a]}
    BY <2>1 DEF KeysOf
  <2>3. S \subseteq Ids
    BY DEF MInv, TypeOK, ManagerState, Counted
  <2>4. IsFiniteSet(KeysOf(S)) /\ Cardinality(KeysOf(S)) \in Nat
    BY <2>3, KeysAreFinite
  <2>5. Cardinality(KeysOf(S)) < MaxConnections
    BY <2>4, ManagerAssumption DEF Open, Accepts, LimitReached
  <2> DEFINE K == KeysOf(S) \cup {attempts[a]}
  <2>6. Cardinality(K) \in Nat /\ Cardinality(K) <= Cardinality(KeysOf(S)) + 1
    BY <2>4, OneMoreKey
  <2>7. KeysOf(Counted \cup manager.openings)' = K
    BY <2>2
  <2> HIDE DEF S, K
  <2>8. Cardinality(K) <= MaxConnections
    BY <2>4, <2>5, <2>6, ManagerAssumption
  <2> QED
    BY <2>7, <2>8 DEF Limited
<1> QED
  BY <1>4, <1>5, <1>6, <1>7, <1>8 DEF MInv

\* What a crash leaves: nothing is reserved, and no task is alive.
LEMMA CrashStep ==
    ASSUME MInv, NEW raised \in BOOLEAN, Crash(raised), crashes' \in 0..MaxCrashes
    PROVE  MInv'
<1>1. TypeOK'
  BY DEF Crash, MInv, TypeOK, ManagerState, TaskStates, ConnStates, LiveTasks
<1>2. Used' = Used
  BY DEF Crash, MInv, TypeOK, Used, LiveTasks
<1>3. Tasks'
  BY DEF Crash, MInv, TypeOK, Tasks, Unused, Queued, Reserved, Reported, Held,
         LiveTasks, Registered
<1>4. CancelledLeavesNothing'
  BY DEF Crash, MInv, TypeOK, CancelledLeavesNothing, LiveTasks, Registered
<1>5. (Counted \cup manager.openings)' \subseteq Counted \cup manager.openings
  BY DEF Crash, MInv, TypeOK, Counted, LiveTasks, Registered
<1> QED
  BY <1>1, <1>2, <1>3, <1>4, <1>5, InOrderKept, LimitedKept DEF MInv, Crash

\* Steps in which no attempt is accepted, with no more of them counted.
LEMMA QuietStep ==
    ASSUME MInv, TypeOK', Tasks', CancelledLeavesNothing', attempts' = attempts,
           Used' = Used,
           (Counted \cup manager.openings)' \subseteq Counted \cup manager.openings
    PROVE  MInv'
BY InOrderKept, LimitedKept DEF MInv

LEMMA TakeOutcomeStep ==
    ASSUME MInv, NEW a \in Ids, TakeOutcome(a)
    PROVE  MInv'
<1>1. PICK m \in mail :
        /\ m.of = a /\ m.kind \in {"result", "task_down"}
        /\ IF a \in manager.openings
           THEN /\ Released(a)
                /\ Reply(a)
                /\ mail' = {n \in mail : n.of # a}
           ELSE mail' = mail \ {m} /\ UNCHANGED <<manager, callers>>
  BY DEF TakeOutcome
<1>2. manager.up /\ tasks' = tasks /\ conns' = conns /\ starts' = starts
      /\ attempts' = attempts /\ cancelled' = cancelled /\ crashes' = crashes
  BY DEF TakeOutcome
<1>3. tasks[a] \in {"done", "exited"}
  BY <1>1 DEF MInv, Tasks, Reported
<1>4. /\ manager'.openings = manager.openings \ {a} /\ manager' \in ManagerState
      /\ manager'.up /\ mail' \subseteq mail
      /\ \A n \in mail : n.of # a => n \in mail'
  BY <1>1, <1>2 DEF Released, MInv, TypeOK, ManagerState
<1>5. TypeOK'
  BY <1>1, <1>2, <1>4 DEF MInv, TypeOK, Reply
<1>6. Tasks'
  BY <1>2, <1>3, <1>4 DEF MInv, Tasks, Unused, Queued, Reserved, Reported, Held
<1>7. CancelledLeavesNothing' /\ Used' = Used
      /\ (Counted \cup manager.openings)' \subseteq Counted \cup manager.openings
  BY <1>2, <1>4 DEF MInv, CancelledLeavesNothing, Used, Counted
<1> QED
  BY <1>2, <1>5, <1>6, <1>7, QuietStep

LEMMA CancelStep ==
    ASSUME MInv, NEW a \in Ids, Cancel(a)
    PROVE  MInv'
<1>1. /\ manager.up /\ attempts' = attempts /\ starts' = starts /\ callers' = callers
      /\ crashes' = crashes /\ mail' \subseteq mail
      /\ \A n \in mail : n.of # a => n \in mail'
  BY DEF Cancel
<1>2. CASE a \notin manager.openings
  <2>1. manager' = manager /\ tasks' = tasks /\ conns' = conns /\ cancelled' = cancelled
    BY <1>2 DEF Cancel
  <2>2. TypeOK' /\ Tasks'
    BY <1>1, <1>2, <2>1 DEF MInv, TypeOK, Tasks, Unused, Queued, Reserved, Reported, Held
  <2> QED
    BY <1>1, <2>1, <2>2, QuietStep DEF MInv, CancelledLeavesNothing, Used, Counted
<1>3. CASE a \in manager.openings
  <2>1. /\ Released(a) /\ tasks' = [tasks EXCEPT ![a] = "exited"]
        /\ conns' = [conns EXCEPT ![a] = IF a \in Registered THEN "gone" ELSE @]
        /\ cancelled' = cancelled \cup {a}
    BY <1>3 DEF Cancel
  <2>2. /\ manager'.openings = manager.openings \ {a} /\ manager' \in ManagerState
        /\ manager'.up /\ tasks[a] # "none" /\ callers[a] # "none"
    BY <1>1, <1>3, <2>1 DEF Released, MInv, TypeOK, ManagerState, Tasks, Unused
  <2>3. TypeOK'
    BY <1>1, <2>1, <2>2 DEF MInv, TypeOK, TaskStates, ConnStates
  <2>4. Tasks'
    BY <1>1, <2>1, <2>2
       DEF MInv, TypeOK, Tasks, Unused, Queued, Reserved, Reported, Held, Registered
  <2>5. CancelledLeavesNothing'
    BY <2>1 DEF MInv, TypeOK, ConnStates, CancelledLeavesNothing, Registered
  <2>6. Used' = Used /\ (Counted \cup manager.openings)' \subseteq Counted \cup manager.openings
    BY <2>1, <2>2 DEF MInv, TypeOK, Used, Counted, Registered
  <2> QED
    BY <1>1, <2>3, <2>4, <2>5, <2>6, QuietStep
<1> QED
  BY <1>2, <1>3

\* A task that comes to its end tells the Manager that reserved its key.
LEMMA EndStep ==
    ASSUME MInv, NEW a \in Ids, NEW kind \in {"result", "task_down"}, Tell(kind, a),
           tasks[a] # "none",
           NEW state \in {"done", "exited"}, tasks' = [tasks EXCEPT ![a] = state],
           starts' \subseteq starts, a \notin starts' \/ state = "exited",
           \/ conns' = conns
           \/ conns[a] = "opening" /\ conns' = [conns EXCEPT ![a] = "gone"],
           a \notin cancelled,
           UNCHANGED <<manager, attempts, callers, cancelled, crashes>>
    PROVE  MInv'
<1>1. /\ mail \subseteq mail'
      /\ \A m \in mail' : m \in mail \/ (m.of = a /\ m.kind = kind /\ manager.up)
      /\ a \in manager.openings => \E m \in mail' : m.of = a
      /\ mail' \subseteq mail \cup {[kind |-> kind, of |-> a]}
  <2> DEFINE told == [kind |-> kind, of |-> a]
  <2>1. told.of = a /\ told.kind = kind
    OBVIOUS
  <2>2. a \in manager.openings => manager.up
    BY DEF MInv, TypeOK
  <2>3. \/ mail' = mail \cup {told} /\ manager.up
        \/ mail' = mail /\ a \notin manager.openings
    BY <2>2 DEF Tell
  <2> HIDE DEF told
  <2>4. mail \subseteq mail' /\ mail' \subseteq mail \cup {told}
    BY <2>3
  <2>5. \A m \in mail' : m \in mail \/ (m.of = a /\ m.kind = kind /\ manager.up)
    BY <2>1, <2>3
  <2>6. a \in manager.openings => \E m \in mail' : m.of = a
    BY <2>1, <2>3
  <2> QED
    BY <2>4, <2>5, <2>6 DEF told
<1>2. TypeOK'
  BY <1>1 DEF MInv, TypeOK, TaskStates, ConnStates, Tell
<1>3. Tasks'
  BY <1>1 DEF MInv, TypeOK, Tasks, Unused, Queued, Reserved, Reported, Held
<1>4. CancelledLeavesNothing' /\ Used' = Used
      /\ (Counted \cup manager.openings)' \subseteq Counted \cup manager.openings
  BY DEF MInv, TypeOK, CancelledLeavesNothing, Used, Counted
<1> QED
  BY <1>2, <1>3, <1>4, QuietStep

\* What a step that tells nobody has to keep.
LEMMA SilentStep ==
    ASSUME MInv, TypeOK', Queued', CancelledLeavesNothing',
           \A a \in Ids : tasks'[a] \in {"starting", "waiting"}
                           <=> tasks[a] \in {"starting", "waiting"},
           \A a \in Ids : tasks'[a] \in {"done", "exited"}
                           <=> tasks[a] \in {"done", "exited"},
           \A a \in Ids : tasks'[a] = "none" => conns'[a] = "none",
           starts' \subseteq starts, UNCHANGED <<manager, attempts, mail, cancelled>>,
           \A a \in Ids : conns'[a] \in {"opening", "failing", "open"}
                           => a \in Counted \cup manager.openings
    PROVE  MInv'
<1>1. \A a \in Ids : tasks'[a] = "none" <=> tasks[a] = "none"
  BY DEF MInv, TypeOK, TaskStates
<1>2. Tasks'
  <2>1. Unused'
    BY <1>1 DEF MInv, Tasks, Unused
  <2>2. Reserved' /\ Held'
    BY DEF MInv, TypeOK, ManagerState, Tasks, Reserved, Held
  <2>3. Reported'
    BY DEF MInv, TypeOK, Tasks, Reported
  <2> QED
    BY <2>1, <2>2, <2>3 DEF Tasks
<1>3. Used' = Used
  BY <1>1 DEF Used
<1>4. (Counted \cup manager.openings)' \subseteq Counted \cup manager.openings
  BY DEF Counted
<1> QED
  BY <1>2, <1>3, <1>4, QuietStep

LEMMA StartChildStep ==
    ASSUME MInv, NEW a \in Ids, StartChild(a)
    PROVE  MInv'
<1>1. a \in starts /\ starts' = starts \ {a} /\ tasks[a] \in {"starting", "exited"}
      /\ UNCHANGED <<manager, attempts, callers, cancelled, crashes>>
  BY DEF StartChild, MInv, Tasks, Queued
<1>2. CASE UNCHANGED <<tasks, conns, mail>>
  <2>1. TypeOK' /\ Queued' /\ CancelledLeavesNothing'
    BY <1>1, <1>2 DEF MInv, TypeOK, Tasks, Queued, CancelledLeavesNothing
  <2> QED
    BY <1>1, <1>2, <2>1, SilentStep DEF MInv, Tasks, Unused, Counted
<1>3. CASE tasks[a] # "exited" /\ Report(a) /\ UNCHANGED conns
  <2>1. a \notin cancelled
    BY <1>3 DEF MInv, CancelledLeavesNothing
  <2> QED
    BY <1>1, <1>3, <2>1, EndStep DEF Report
<1>4. CASE /\ tasks[a] # "exited" /\ conns' = [conns EXCEPT ![a] = "opening"]
           /\ tasks' = [tasks EXCEPT ![a] = "waiting"] /\ UNCHANGED mail
  <2>1. a \in manager.openings /\ a \notin cancelled /\ callers[a] # "none"
    BY <1>1, <1>4 DEF MInv, TypeOK, Tasks, Reserved, CancelledLeavesNothing
  <2>2. TypeOK' /\ Queued' /\ CancelledLeavesNothing'
    BY <1>1, <1>4, <2>1
       DEF MInv, TypeOK, TaskStates, ConnStates, Tasks, Queued, CancelledLeavesNothing
  <2>3. \A b \in Ids : conns'[b] \in {"opening", "failing", "open"}
                         => b \in Counted \cup manager.openings
    BY <1>4, <2>1 DEF MInv, TypeOK, Counted
  <2> QED
    BY <1>1, <1>4, <2>2, <2>3, SilentStep DEF MInv, TypeOK, Tasks, Unused
<1> QED
  BY <1>1, <1>2, <1>3, <1>4 DEF StartChild

\* Connections come up and go by themselves.
LEMMA ConnectionStep ==
    ASSUME MInv, NEW a \in Ids, Connect(a) \/ Ends(a)
    PROVE  MInv'
<1>1. PICK state \in {"open", "failing", "closed", "gone"} :
        /\ conns' = [conns EXCEPT ![a] = state]
        /\ conns[a] \in {"opening", "failing", "open"} \/ state = "gone"
        /\ conns[a] \in {"opening", "failing", "open", "closed"}
  BY DEF Connect, Ends
<1>2. UNCHANGED <<manager, attempts, tasks, starts, callers, mail, cancelled, crashes>>
  BY DEF Connect, Ends
<1>3. a \notin cancelled /\ tasks[a] # "none"
  BY <1>1 DEF MInv, Tasks, Unused, CancelledLeavesNothing
<1>4. TypeOK' /\ Queued' /\ CancelledLeavesNothing'
  BY <1>1, <1>2, <1>3
     DEF MInv, TypeOK, ConnStates, Tasks, Queued, CancelledLeavesNothing
<1>5. \A b \in Ids : conns'[b] \in {"opening", "failing", "open"}
                       => b \in Counted \cup manager.openings
  BY <1>1 DEF MInv, TypeOK, Counted
<1> QED
  BY <1>1, <1>2, <1>3, <1>4, <1>5, SilentStep DEF MInv, TypeOK, Tasks, Unused

LEMMA NextMInv == MInv /\ [Next]_vars => MInv'
<1> SUFFICES ASSUME MInv, [Next]_vars PROVE MInv'
  OBVIOUS
<1>1. ASSUME NEW a \in Ids, Open(a) PROVE MInv'
  BY <1>1, OpenStep
<1>2. ASSUME NEW a \in Ids, OpenRaises(a) PROVE MInv'
  <2>1. crashes' \in 0..MaxCrashes
    BY <1>2, ManagerAssumption DEF OpenRaises, MInv, TypeOK
  <2> QED
    BY <1>2, <2>1, CrashStep DEF OpenRaises
<1>3. CASE ManagerCrashes
  <2>1. crashes' \in 0..MaxCrashes
    BY <1>3, ManagerAssumption DEF ManagerCrashes, MInv, TypeOK
  <2> QED
    BY <1>3, <2>1, CrashStep DEF ManagerCrashes
<1>4. CASE ManagerRestarts
  <2>1. manager' \in ManagerState /\ manager'.openings = manager.openings /\ manager'.up
    BY <1>4 DEF ManagerRestarts, MInv, TypeOK, ManagerState
  <2>2. TypeOK'
    BY <1>4, <2>1 DEF ManagerRestarts, MInv, TypeOK
  <2>3. Tasks' /\ CancelledLeavesNothing'
    BY <1>4, <2>1 DEF ManagerRestarts, MInv, Tasks, Unused, Queued, Reserved, Reported, Held,
                      CancelledLeavesNothing
  <2> QED
    BY <1>4, <2>1, <2>2, <2>3, QuietStep DEF ManagerRestarts, Used, Counted
<1>5. ASSUME NEW a \in Ids, TakeOutcome(a) PROVE MInv'
  BY <1>5, TakeOutcomeStep
<1>6. ASSUME NEW a \in Ids, Cancel(a) PROVE MInv'
  BY <1>6, CancelStep
<1>7. ASSUME NEW a \in Ids, StartChild(a) PROVE MInv'
  BY <1>7, StartChildStep
<1>8. ASSUME NEW a \in Ids, StartRefused(a) PROVE MInv'
  <2>1. a \notin cancelled
    BY <1>8 DEF StartRefused, MInv, CancelledLeavesNothing
  <2> QED
    BY <1>8, <2>1, EndStep DEF StartRefused, Report
<1>9. ASSUME NEW a \in Ids, Connect(a) \/ Ends(a) PROVE MInv'
  BY <1>9, ConnectionStep
<1>10. ASSUME NEW a \in Ids, ConnectRaises(a) PROVE MInv'
  <2>1. a \notin cancelled /\ tasks[a] # "none"
    BY <1>10 DEF ConnectRaises, MInv, Tasks, Unused, CancelledLeavesNothing
  <2> QED
    BY <1>10, <2>1, EndStep DEF ConnectRaises
<1>11. ASSUME NEW a \in Ids, TaskReports(a) PROVE MInv'
  <2>1. a \notin cancelled /\ a \notin starts
    BY <1>11 DEF TaskReports, MInv, Tasks, Queued, CancelledLeavesNothing
  <2> QED
    BY <1>11, <2>1, EndStep DEF TaskReports, Report
<1>12. ASSUME NEW a \in Ids, TaskExits(a) PROVE MInv'
  <2>1. /\ tasks[a] = "done" /\ tasks' = [tasks EXCEPT ![a] = "exited"]
        /\ UNCHANGED <<manager, attempts, starts, conns, callers, mail, cancelled, crashes>>
    BY <1>12 DEF TaskExits
  <2>2. TypeOK' /\ Queued' /\ CancelledLeavesNothing'
    BY <2>1 DEF MInv, TypeOK, TaskStates, Tasks, Queued, CancelledLeavesNothing
  <2> QED
    BY <2>1, <2>2, SilentStep DEF MInv, TypeOK, Tasks, Unused, Counted
<1>13. ASSUME NEW a \in Ids, CallerDies(a) PROVE MInv'
  <2>1. /\ mail \subseteq mail' /\ mail' \subseteq mail \cup {[kind |-> "caller_down", of |-> a]}
        /\ mail' # mail => manager.up
        /\ UNCHANGED <<manager, attempts, tasks, starts, conns, cancelled, crashes>>
        /\ callers' = [callers EXCEPT ![a] = "dead"] /\ callers[a] = "waiting"
    BY <1>13 DEF CallerDies, Tell
  <2>2. TypeOK'
    BY <2>1 DEF MInv, TypeOK
  <2>3. Tasks' /\ CancelledLeavesNothing'
    BY <2>1 DEF MInv, Tasks, Unused, Queued, Reserved, Reported, Held, CancelledLeavesNothing
  <2> QED
    BY <2>1, <2>2, <2>3, QuietStep DEF Used, Counted
<1>14. CASE UNCHANGED vars
  BY <1>14 DEF vars, MInv, TypeOK, InOrder, Used, Tasks, Unused, Queued, Reserved, Reported, Held,
               Limited, KeysOf, Counted, CancelledLeavesNothing
<1> QED
  BY <1>1, <1>2, <1>3, <1>4, <1>5, <1>6, <1>7, <1>8, <1>9, <1>10, <1>11, <1>12, <1>13, <1>14
     DEF Next, Progress

LEMMA InvariantMInv == Spec => []MInv
BY InitMInv, NextMInv, PTL DEF Spec

-----------------------------------------------------------------------------
(* The theorems.                                                           *)

\* The Manager's reservations and the tasks and processes started for them
\* keep their shape through every crash, cancellation and late message.
THEOREM ManagerTypeCorrect == Spec => []TypeOK
<1>1. MInv => TypeOK
  BY DEF MInv
<1> QED
  BY <1>1, InvariantMInv, PTL

\* max_connections holds for sockets, although it is checked when a key is
\* reserved and the connection registers later (manager.ex).
THEOREM LimitIsKept == Spec => []SocketsWithinLimit
<1>1. MInv => SocketsWithinLimit
  <2> SUFFICES ASSUME MInv PROVE SocketsWithinLimit
    OBVIOUS
  <2>1. /\ Counted \subseteq Ids /\ Counted \cup manager.openings \subseteq Ids
        /\ KeysOf(Counted) \subseteq KeysOf(Counted \cup manager.openings)
    BY DEF MInv, TypeOK, ManagerState, Counted, KeysOf
  <2>2. /\ IsFiniteSet(KeysOf(Counted \cup manager.openings))
        /\ Cardinality(KeysOf(Counted \cup manager.openings)) \in Nat
        /\ Cardinality(KeysOf(Counted)) \in Nat
    BY <2>1, KeysAreFinite
  <2>3. Cardinality(KeysOf(Counted)) <= Cardinality(KeysOf(Counted \cup manager.openings))
    BY <2>1, <2>2, FS_Subset
  <2> QED
    BY <2>2, <2>3, ManagerAssumption DEF MInv, Limited, SocketsWithinLimit
<1> QED
  BY <1>1, InvariantMInv, PTL

\* cancel_open_for_caller leaves neither a task nor a connection, also when the
\* start of the child is still queued in its supervisor.
THEOREM CancellingIsFinal == Spec => []CancelledLeavesNothing
<1>1. MInv => CancelledLeavesNothing
  BY DEF MInv
<1> QED
  BY <1>1, InvariantMInv, PTL

\* A reserved key is never orphaned: a task or a message will release it.
THEOREM ReservationsAreNeverOrphaned == Spec => []ReservationsAreHeld
<1>1. MInv => ReservationsAreHeld
  BY DEF MInv, TypeOK, ManagerState, Tasks, Held, ReservationsAreHeld, LiveTasks
<1> QED
  BY <1>1, InvariantMInv, PTL
=============================================================================
