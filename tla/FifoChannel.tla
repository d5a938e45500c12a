---------------------------- MODULE FifoChannel ----------------------------
(***************************************************************************)
(* What a queue between two loops of the sorting pipeline promises: what   *)
(* is received is what was sent, in the order it was sent, each item once, *)
(* and no more than Capacity items are under way.                          *)
(***************************************************************************)
EXTENDS Naturals, Sequences

CONSTANTS
    Items,      \* what may be sent
    Capacity    \* how many items may be sent and not yet received

VARIABLES
    sent,       \* everything sent so far, in order
    received    \* everything received so far, in order

vars == <<sent, received>>

Init == sent = <<>> /\ received = <<>>

Send(item) ==
    /\ Len(sent) < Len(received) + Capacity
    /\ sent' = Append(sent, item)
    /\ UNCHANGED received

Receive ==
    /\ Len(received) < Len(sent)
    /\ received' = Append(received, sent[Len(received) + 1])
    /\ UNCHANGED sent

Next == Receive \/ \E item \in Items : Send(item)

Spec == Init /\ [][Next]_vars
=============================================================================
