------------------------------ MODULE EventLog ------------------------------
(***************************************************************************)
(* What the live pipeline of "esgraphd run" promises to whoever reads the  *)
(* graph afterwards, with no channel, no batch and no thread in sight.     *)
(*                                                                         *)
(* Events are offered one after the other while the log is open.  The log  *)
(* is durable and only ever grows, and it is always a beginning of what    *)
(* was offered: no event is skipped, repeated, reordered or invented, and  *)
(* once the log is closed nothing is offered or written any more.          *)
(***************************************************************************)
EXTENDS Naturals, Sequences

CONSTANT Event

VARIABLES
    offered,   \* the events taken in, in the order they were taken
    log,       \* the events that are durable
    open       \* whether events are still taken in and written

logVars == <<offered, log, open>>

Init ==
    /\ offered = << >>
    /\ log = << >>
    /\ open = TRUE

\* An event is taken in.
Offer(e) ==
    /\ open
    /\ offered' = Append(offered, e)
    /\ UNCHANGED <<log, open>>

\* The log becomes the first n events offered, and may be closed for good.
WriteUpTo(n) ==
    /\ open
    /\ log' = SubSeq(offered, 1, n)
    /\ open' \in BOOLEAN
    /\ UNCHANGED offered

Next ==
    \/ \E e \in Event : Offer(e)
    \/ \E n \in Len(log) .. Len(offered) : WriteUpTo(n)

Spec == Init /\ [][Next]_logVars
=============================================================================
