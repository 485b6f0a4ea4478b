------------------------- MODULE WirekeeperManager -------------------------
(***************************************************************************)
(* Opening connections: the Wirekeeper Manager (wirekeeper/manager.ex),    *)
(* the task it starts for each open, the ConnectionSupervisor that starts  *)
(* the connection process for the task, the part of that process that      *)
(* comes before and after its service (connection.ex init/1 and            *)
(* handle_continue), and the unique Registry that routes keys.             *)
(*                                                                         *)
(* An accepted open is an attempt; its number stands for the generation,   *)
(* the task and the connection process alike.  Refused opens, lookups and  *)
(* listings change nothing and are not written out.                        *)
(***************************************************************************)
EXTENDS Integers, FiniteSets

CONSTANTS
    Keys,             \* connection keys
    MaxPendingOpens,  \* @max_pending_opens
    MaxOpenTasks,     \* :max_children of the OpenTaskSupervisor
    MaxConnections,   \* the :max_connections setting
    MaxOpens,         \* bound of the model: opens accepted
    MaxCrashes        \* bound of the model: crashes of the Manager

ASSUME ManagerAssumption ==
    /\ {MaxPendingOpens, MaxOpenTasks, MaxConnections} \subseteq Nat \ {0}
    /\ {MaxOpens, MaxCrashes} \subseteq Nat

VARIABLES
    manager,    \* whether the Manager runs, and its reservations
    attempts,   \* attempts accepted so far: their keys
    tasks,      \* the task of each attempt
    starts,     \* child starts waiting in the ConnectionSupervisor
    conns,      \* the connection process of each attempt
    callers,    \* the process that called open/3
    mail,       \* the Manager's mailbox, without open calls
    cancelled,  \* history: attempts cancelled for their caller
    crashes     \* crashes of the Manager so far

vars == <<manager, attempts, tasks, starts, conns, callers, mail, cancelled, crashes>>

-----------------------------------------------------------------------------
Ids == 1..MaxOpens

\* "raised" remembers that handling an open call crashed the Manager.
ManagerState == [up : BOOLEAN, openings : SUBSET Ids, raised : BOOLEAN]

\* A task asks for its child, waits for it to be ready, and reports; "done"
\* is a task that has sent its result and has still to exit.
TaskStates == {"none", "starting", "waiting", "done", "exited"}

\* A connection that fails reports the error before it stops ("failing").
ConnStates == {"none", "opening", "failing", "open", "closed", "gone"}

Registered == {a \in Ids : conns[a] \in {"opening", "failing", "open", "closed"}}

\* The Registry value of a failing connection is still :opening.
Counted == {a \in Ids : conns[a] \in {"opening", "failing", "open"}}

KeysOf(S) == {attempts[a] : a \in S}
LiveTasks == {a \in Ids : tasks[a] \in {"starting", "waiting", "done"}}
Used == {a \in Ids : tasks[a] # "none"}

Init ==
    /\ manager = [up |-> TRUE, openings |-> {}, raised |-> FALSE]
    /\ attempts \in [Ids -> Keys]
    /\ tasks = [a \in Ids |-> "none"]
    /\ starts = {}
    /\ conns = [a \in Ids |-> "none"]
    /\ callers = [a \in Ids |-> "none"]
    /\ mail = {}
    /\ cancelled = {}
    /\ crashes = 0

-----------------------------------------------------------------------------
(* The Manager.                                                            *)

\* Mutant: reservations that are not registered yet are not counted.
LimitReachedByRegistered == Cardinality(KeysOf(Counted)) >= MaxConnections

LimitReached == Cardinality(KeysOf(Counted \cup manager.openings)) >= MaxConnections

\* open/3 for a key that is neither reserved nor registered, within the
\* connection limit and the pending limit.
Accepts(a) ==
    /\ manager.up
    /\ a = Cardinality(Used) + 1
    /\ attempts[a] \notin KeysOf(manager.openings \cup Registered)
    /\ ~LimitReached
    /\ Cardinality(manager.openings) < MaxPendingOpens

\* Mutant: a Manager that finds its predecessor's reservations again.
CrashKeepsReservations(raised) ==
    /\ manager' = [manager EXCEPT !.up = FALSE, !.raised = @ \/ raised]
    /\ tasks' = [a \in Ids |-> IF a \in LiveTasks THEN "exited" ELSE tasks[a]]
    /\ conns' = [a \in Ids |-> IF a \in LiveTasks \cap Registered THEN "gone" ELSE conns[a]]
    /\ mail' = {}
    /\ UNCHANGED <<attempts, starts, callers, cancelled>>

\* The Manager dies: the tasks are linked to it and the connections to their
\* tasks, and the calls that wait for an answer exit.  The exit signals take
\* effect at once.
Crash(raised) ==
    /\ manager' = [up |-> FALSE, openings |-> {}, raised |-> manager.raised \/ raised]
    /\ tasks' = [a \in Ids |-> IF a \in LiveTasks THEN "exited" ELSE tasks[a]]
    /\ conns' = [a \in Ids |-> IF a \in LiveTasks \cap Registered THEN "gone" ELSE conns[a]]
    /\ callers' = [a \in Ids |-> IF callers[a] = "waiting" THEN "answered" ELSE callers[a]]
    /\ mail' = {}
    /\ UNCHANGED <<attempts, starts, cancelled>>

Open(a) ==
    /\ Accepts(a)
    /\ Cardinality(LiveTasks) < MaxOpenTasks
    /\ manager' = [manager EXCEPT !.openings = @ \cup {a}]
    /\ tasks' = [tasks EXCEPT ![a] = "starting"]
    /\ starts' = starts \cup {a}
    /\ callers' = [callers EXCEPT ![a] = "waiting"]
    /\ UNCHANGED <<attempts, conns, mail, cancelled, crashes>>

\* A task that has reported counts until its supervisor sees it exit; at
\* max_children Task.Supervisor.async raises, which start_open_task, catching
\* exits, does not catch.
OpenRaises(a) ==
    /\ Accepts(a)
    /\ Cardinality(LiveTasks) >= MaxOpenTasks
    /\ crashes < MaxCrashes
    /\ crashes' = crashes + 1
    /\ Crash(TRUE)

Released(a) == manager' = [manager EXCEPT !.openings = @ \ {a}]

\* The caller's process answers, unless it has died.
Reply(a) == callers' = [callers EXCEPT ![a] = IF @ = "waiting" THEN "answered" ELSE @]

\* Mutant: only results release a key.
TakeOutcomeOfResult(a) ==
    /\ manager.up
    /\ \E m \in mail :
          /\ m.of = a /\ m.kind \in {"result", "task_down"}
          /\ IF a \in manager.openings /\ m.kind = "result"
             THEN /\ Released(a)
                  /\ Reply(a)
                  /\ mail' = {n \in mail : n.of # a}
             ELSE mail' = mail \ {m} /\ UNCHANGED <<manager, callers>>
    /\ UNCHANGED <<attempts, tasks, starts, conns, cancelled, crashes>>

\* {task_ref, result} and {:DOWN, task_ref, ...}: answer and release the key.
TakeOutcome(a) ==
    /\ manager.up
    /\ \E m \in mail :
          /\ m.of = a /\ m.kind \in {"result", "task_down"}
          /\ IF a \in manager.openings
             THEN /\ Released(a)
                  /\ Reply(a)
                  /\ mail' = {n \in mail : n.of # a}
             ELSE mail' = mail \ {m} /\ UNCHANGED <<manager, callers>>
    /\ UNCHANGED <<attempts, tasks, starts, conns, cancelled, crashes>>

\* Mutant: the connection of a task that has reported is left alone.
CancelOfTask(a) ==
    /\ manager.up
    /\ \E m \in mail : m.of = a /\ m.kind = "caller_down" /\ mail' = mail \ {m}
    /\ IF a \in manager.openings
       THEN /\ Released(a)
            /\ tasks' = [tasks EXCEPT ![a] = "exited"]
            /\ conns' = [conns EXCEPT ![a] = IF a \in Registered \cap LiveTasks THEN "gone" ELSE @]
            /\ cancelled' = cancelled \cup {a}
       ELSE UNCHANGED <<manager, tasks, conns, cancelled>>
    /\ UNCHANGED <<attempts, starts, callers, crashes>>

\* {:DOWN, caller_ref, ...}, cancel_open_for_caller: the task is terminated,
\* the connection linked to it goes, and one that is registered is killed.
Cancel(a) ==
    /\ manager.up
    /\ \E m \in mail : m.of = a /\ m.kind = "caller_down" /\ mail' = mail \ {m}
    /\ IF a \in manager.openings
       THEN /\ Released(a)
            /\ tasks' = [tasks EXCEPT ![a] = "exited"]
            /\ conns' = [conns EXCEPT ![a] = IF a \in Registered THEN "gone" ELSE @]
            /\ cancelled' = cancelled \cup {a}
       ELSE UNCHANGED <<manager, tasks, conns, cancelled>>
    /\ UNCHANGED <<attempts, starts, callers, crashes>>

ManagerCrashes ==
    /\ manager.up
    /\ crashes < MaxCrashes
    /\ crashes' = crashes + 1
    /\ Crash(FALSE)

ManagerRestarts ==
    /\ ~manager.up
    /\ manager' = [manager EXCEPT !.up = TRUE]
    /\ UNCHANGED <<attempts, tasks, starts, conns, callers, mail, cancelled, crashes>>

-----------------------------------------------------------------------------
(* The ConnectionSupervisor, the tasks and the connections.                *)

Tell(kind, a) ==
    mail' = IF manager.up /\ a \in manager.openings
            THEN mail \cup {[kind |-> kind, of |-> a]} ELSE mail

Report(a) ==
    /\ tasks' = [tasks EXCEPT ![a] = "done"]
    /\ Tell("result", a)

\* Mutant: the child does not link to the task it is started for.
StartChildUnlinked(a) ==
    /\ a \in starts
    /\ starts' = starts \ {a}
    /\ IF attempts[a] \in KeysOf(Registered)
       THEN Report(a) /\ UNCHANGED conns
       ELSE /\ conns' = [conns EXCEPT ![a] = "opening"]
            /\ tasks' = [tasks EXCEPT ![a] = IF @ = "starting" THEN "waiting" ELSE @]
            /\ UNCHANGED mail
    /\ UNCHANGED <<manager, attempts, callers, cancelled, crashes>>

\* init/1 of the connection: it links to its task, which may have died while
\* the start was queued, and registers its key.
StartChild(a) ==
    /\ a \in starts
    /\ starts' = starts \ {a}
    /\ IF tasks[a] = "exited" THEN UNCHANGED <<tasks, conns, mail>>
       ELSE IF attempts[a] \in KeysOf(Registered)
       THEN Report(a) /\ UNCHANGED conns
       ELSE /\ conns' = [conns EXCEPT ![a] = "opening"]
            /\ tasks' = [tasks EXCEPT ![a] = "waiting"]
            /\ UNCHANGED mail
    /\ UNCHANGED <<manager, attempts, callers, cancelled, crashes>>

\* init/1 stops on its options: nothing is registered.
StartRefused(a) ==
    /\ a \in starts
    /\ tasks[a] = "starting"
    /\ starts' = starts \ {a}
    /\ Report(a)
    /\ UNCHANGED <<manager, attempts, conns, callers, cancelled, crashes>>

\* handle_continue(:connect): the socket is up, or is not.
Connect(a) ==
    /\ conns[a] = "opening"
    /\ \E outcome \in {"open", "failing"} : conns' = [conns EXCEPT ![a] = outcome]
    /\ UNCHANGED <<manager, attempts, tasks, starts, callers, mail, cancelled, crashes>>

\* An adapter that raises takes the connection and its task down.
ConnectRaises(a) ==
    /\ conns[a] = "opening"
    /\ conns' = [conns EXCEPT ![a] = "gone"]
    /\ tasks' = [tasks EXCEPT ![a] = "exited"]
    /\ Tell("task_down", a)
    /\ UNCHANGED <<manager, attempts, starts, callers, cancelled, crashes>>

\* A failed connection stops, an open one closes, a tombstone goes.
Ends(a) ==
    /\ \/ conns[a] \in {"failing", "open", "closed"} /\ conns' = [conns EXCEPT ![a] = "gone"]
       \/ conns[a] = "open" /\ conns' = [conns EXCEPT ![a] = "closed"]
    /\ UNCHANGED <<manager, attempts, tasks, starts, callers, mail, cancelled, crashes>>

\* Mutant: the task waits for a ready connection only.
TaskReportsReady(a) ==
    /\ tasks[a] = "waiting"
    /\ conns[a] \in {"open", "closed"}
    /\ Report(a)
    /\ UNCHANGED <<manager, attempts, starts, conns, callers, cancelled, crashes>>

\* await_connection_ready: an opened connection is reported at once, a failed
\* one when it is gone.
TaskReports(a) ==
    /\ tasks[a] = "waiting"
    /\ conns[a] \in {"open", "closed", "gone"}
    /\ Report(a)
    /\ UNCHANGED <<manager, attempts, starts, conns, callers, cancelled, crashes>>

TaskExits(a) ==
    /\ tasks[a] = "done"
    /\ tasks' = [tasks EXCEPT ![a] = "exited"]
    /\ UNCHANGED <<manager, attempts, starts, conns, callers, mail, cancelled, crashes>>

CallerDies(a) ==
    /\ callers[a] = "waiting"
    /\ callers' = [callers EXCEPT ![a] = "dead"]
    /\ Tell("caller_down", a)
    /\ UNCHANGED <<manager, attempts, tasks, starts, conns, cancelled, crashes>>

-----------------------------------------------------------------------------
Progress(a) ==
    \/ TakeOutcome(a) \/ Cancel(a)
    \/ StartChild(a) \/ StartRefused(a) \/ Connect(a)
    \/ TaskReports(a) \/ TaskExits(a)

Next ==
    \/ ManagerCrashes \/ ManagerRestarts
    \/ \E a \in Ids :
          \/ Open(a) \/ OpenRaises(a) \/ Progress(a)
          \/ ConnectRaises(a) \/ Ends(a) \/ CallerDies(a)

Spec == Init /\ [][Next]_vars

\* Processes that can run do, a connection attempt comes to an end (connect
\* timeouts), a failed connection stops, and the supervisor restarts the
\* Manager.  Nobody has to call, to close or to die.
Fairness ==
    /\ WF_vars(ManagerRestarts)
    /\ \A a \in Ids : WF_vars(Progress(a)) /\ WF_vars(conns[a] = "failing" /\ Ends(a))

FairSpec == Spec /\ Fairness

-----------------------------------------------------------------------------
(* Properties.                                                             *)

\* The state stays within its types: a Manager that is down has no state, and a
\* task is started for a call and for nothing else.
TypeOK ==
    /\ manager \in ManagerState
    /\ attempts \in [Ids -> Keys]
    /\ tasks \in [Ids -> TaskStates]
    /\ starts \subseteq Ids
    /\ conns \in [Ids -> ConnStates]
    /\ callers \in [Ids -> {"none", "waiting", "dead", "answered"}]
    /\ mail \subseteq [kind : {"result", "task_down", "caller_down"}, of : Ids]
    /\ cancelled \subseteq Ids
    /\ crashes \in 0..MaxCrashes
    /\ ~manager.up => manager.openings = {} /\ mail = {}
    /\ \A a \in Ids : (tasks[a] = "none") <=> (callers[a] = "none")

\* Sockets being opened and open sockets together never exceed the limit,
\* although it is checked before the connection registers, and although a
\* new Manager knows nothing of its predecessor's reservations.
SocketsWithinLimit == Cardinality(KeysOf(Counted)) <= MaxConnections

\* A cancelled open leaves no connection and no task behind, whatever its
\* task, the queued start of its connection and the connection were doing.
CancelledLeavesNothing ==
    \A a \in cancelled : conns[a] \in {"none", "gone"} /\ tasks[a] = "exited"

\* A key is reserved only while something will release it: a task that runs,
\* or a message that the Manager has yet to take.
ReservationsAreHeld ==
    \A a \in manager.openings :
        a \in LiveTasks \/ \E m \in mail : m.of = a

\* Every caller is answered in the end, whatever fails, unless it dies.
OpensAreAnswered ==
    \A a \in Ids : callers[a] = "waiting" ~> callers[a] # "waiting"

\* "At most eight opens may be pending; another open is rejected with
\* {:error, :overloaded}" (docs/wirekeeper.md:57-58): no open call takes the
\* Manager down.
OpenNeverRaises == ~manager.raised

=============================================================================
