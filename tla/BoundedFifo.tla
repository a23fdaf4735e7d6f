---------------------------- MODULE BoundedFifo ----------------------------
(* What a queue of host calls promises whoever pushes and drains: what was   *)
(* admitted comes out once, in the order of admission, and no more is held   *)
(* than there is room for.  A push may be refused, everything held may be    *)
(* thrown away.                                                              *)
EXTENDS Naturals, Sequences

CONSTANTS Items, Capacity

VARIABLES held,   \* what was admitted and not yet taken, in order
          out     \* what the present drain has handed over so far

fifoVars == <<held, out>>

Init == held = <<>> /\ out = <<>>

Put(x) ==
    /\ Len(held) < Capacity
    /\ held' = Append(held, x)
    /\ UNCHANGED out

StartDrain == out' = <<>> /\ UNCHANGED held

Take ==
    /\ held # <<>>
    /\ out' = Append(out, Head(held))
    /\ held' = Tail(held)

Discard == held' = <<>> /\ UNCHANGED out

Next == (\E x \in Items : Put(x)) \/ StartDrain \/ Take \/ Discard

Spec == Init /\ [][Next]_fifoVars
=============================================================================
