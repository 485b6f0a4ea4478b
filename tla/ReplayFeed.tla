----------------------------- MODULE ReplayFeed -----------------------------
(***************************************************************************)
(* What a generation of a Wirekeeper connection promises to the Session    *)
(* that reads it, without the buffer, the credit, the watcher and the      *)
(* notifications by which the process keeps the promise: a numbered feed   *)
(* of records.                                                             *)
(*                                                                         *)
(* A reader is given kept records oldest first, each once, and never has   *)
(* more than Window of them to acknowledge; nothing is withheld from it    *)
(* while it has less.  A record is given up only to a newer one, or for    *)
(* being too large; from then on the feed is lossy and says so to every    *)
(* reader it has.  The end of the feed is told last, and a feed that is    *)
(* closed and read to its end is gone.  At any step the reader may be      *)
(* lost; the next one starts behind the watermark.                         *)
(***************************************************************************)
EXTENDS Integers, FiniteSets

CONSTANTS
    Readers, NoReader,  \* NoReader is not one of the readers
    Window              \* records a reader may have without acknowledging them

VARIABLES
    phase,      \* "opening", "open", "closed" or "stopped"
    head,       \* the newest record, counted from 1
    acked,      \* the watermark
    kept,       \* records that can still be read
    lossy,      \* some record was given up without having been read
    reader,
    seen,       \* what the reader has been given
    told,       \* the reader knows that the feed is lossy
    final       \* the reader knows that nothing follows

vars == <<phase, head, acked, kept, lossy, reader, seen, told, final>>

\* Records a reader that has seen S still has to acknowledge.
Outstanding(S, watermark) == {n \in S : n > watermark}

\* Every record of S comes before every record of T.
Before(S, T) == \A m \in S, n \in T : m < n

-----------------------------------------------------------------------------
\* The reader x, who had seen s, is there after the step.
Keeps(ph, x, s, t) ==
    /\ x # NoReader /\ ~(ph = "closed" /\ kept' = {})
    /\ phase' = ph /\ reader' = x /\ told' = t
    /\ s \subseteq seen' /\ seen' \subseteq s \cup kept'
    /\ Before(seen' \ s, kept' \ seen')
    /\ Cardinality(Outstanding(seen', acked')) <= Window
    /\ kept' \subseteq seen' \/ Cardinality(Outstanding(seen', acked')) = Window
    /\ final' = (ph = "closed" /\ kept' \subseteq seen')

NoOneReads == reader' = NoReader /\ seen' = {} /\ told' = FALSE /\ final' = FALSE

\* There is no reader, or it is lost: a message to it was refused.
Loses(ph) == phase' = ph /\ NoOneReads

\* Reader x has acknowledged the last record of a closed feed.
Drains(ph, x) == x # NoReader /\ ph = "closed" /\ kept' = {} /\ phase' = "stopped" /\ NoOneReads

Carries(ph, x, s, t) == Keeps(ph, x, s, t) \/ Loses(ph) \/ Drains(ph, x)

-----------------------------------------------------------------------------
Init ==
    /\ phase = "opening" /\ head = 0 /\ acked = 0 /\ kept = {} /\ lossy = FALSE
    /\ reader = NoReader /\ seen = {} /\ told = FALSE /\ final = FALSE

Open ==
    /\ phase = "opening" /\ phase' = "open"
    /\ UNCHANGED <<head, acked, kept, lossy, reader, seen, told, final>>

\* A record comes: the oldest ones make way for it, or it is not kept.
Receive ==
    LET all == kept \cup {head + 1}
        lost == kept' # all
    IN /\ phase = "open"
       /\ head' = head + 1 /\ acked' = acked
       /\ kept' = kept \/ (head + 1 \in kept' /\ kept' \subseteq all /\ Before(all \ kept', kept'))
       /\ lossy' = (lossy \/ lost)
       /\ Carries(phase, reader, seen, told \/ lost)

\* The reader acknowledges through n, which it has been given.
Acknowledge(n) ==
    /\ phase \in {"open", "closed"} /\ reader # NoReader
    /\ n \in seen /\ n > acked
    /\ acked' = n /\ kept' = {m \in kept : m > n}
    /\ UNCHANGED <<head, lossy>>
    /\ Carries(phase, reader, seen, told)

Attach(x) ==
    /\ phase \in {"open", "closed"} /\ reader = NoReader
    /\ UNCHANGED <<head, acked, kept, lossy>>
    /\ Carries(phase, x, {}, lossy)

Leave ==
    /\ reader # NoReader /\ Loses(phase)
    /\ UNCHANGED <<head, acked, kept, lossy>>

\* The upstream closes: the reader is told once it has been given the rest.
Close ==
    /\ phase = "open"
    /\ UNCHANGED <<head, acked, kept, lossy>>
    /\ Carries("closed", reader, seen, told)

\* Retention, a close request or a failure ends the generation.
End ==
    /\ phase # "stopped" /\ phase' = "stopped" /\ NoOneReads
    /\ UNCHANGED <<head, acked, kept, lossy>>

Next ==
    \/ Open \/ Receive \/ Leave \/ Close \/ End
    \/ \E n \in seen : Acknowledge(n)
    \/ \E x \in Readers : Attach(x)

Spec == Init /\ [][Next]_vars
=============================================================================
