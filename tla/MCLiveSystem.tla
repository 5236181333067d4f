---------------------------- MODULE MCLiveSystem ----------------------------
(* LiveSystem for TLC.  Every message is an exec by the same shell: the       *)
(* parent is known by the edge only, and the node of the child is its own.    *)
EXTENDS LiveSystem

MCEventOf(r, n) ==
    LET child == <<"process", <<r, n>>>>
    IN  [time  |-> n,
         nodes |-> <<[key |-> child, args |-> <<r, n>>, exit |-> None]>>,
         edges |-> <<[src |-> <<"process", <<0, 0>>>>, dst |-> child]>>]
=============================================================================
