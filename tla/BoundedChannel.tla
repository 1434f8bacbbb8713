--------------------------- MODULE BoundedChannel ---------------------------
(***************************************************************************)
(* What a bounded blocking queue promises to the threads that use it:      *)
(* elements leave in the order in which they entered, each exactly once; a *)
(* caller is made to wait only while the channel holds Threshold elements  *)
(* or more; the channel never holds more than Bound elements; and a caller *)
(* that waits is let in once there is room and the consumers keep reading. *)
(* Nothing here says how waiting is organised.                             *)
(***************************************************************************)
EXTENDS Naturals, Sequences

CONSTANTS Producers, Consumers, Items, None,
          Threshold,               \* a caller may be made to wait from here on
          Bound                    \* the channel never holds more than this

VARIABLES chan,                    \* the elements inside, the oldest first
          offered,                 \* what each waiting producer wants to add
          got                      \* what each consumer was last given

vars == <<chan, offered, got>>

Init == /\ chan = << >>
        /\ offered = [p \in Producers |-> None]
        /\ got = [c \in Consumers |-> None]

Put(p, x) == /\ offered[p] = None
             /\ Len(chan) < Threshold
             /\ chan' = Append(chan, x)
             /\ UNCHANGED <<offered, got>>

Block(p, x) == /\ offered[p] = None
               /\ Len(chan) >= Threshold
               /\ offered' = [offered EXCEPT ![p] = x]
               /\ UNCHANGED <<chan, got>>

Accept(p) == /\ offered[p] # None
             /\ Len(chan) < Bound
             /\ chan' = Append(chan, offered[p])
             /\ offered' = [offered EXCEPT ![p] = None]
             /\ UNCHANGED got

Take(c) == /\ chan # << >>
           /\ got' = [got EXCEPT ![c] = Head(chan)]
           /\ chan' = Tail(chan)
           /\ UNCHANGED offered

Miss(c) == /\ chan = << >>
           /\ got' = [got EXCEPT ![c] = None]
           /\ UNCHANGED <<chan, offered>>

Discard == /\ chan # << >>
           /\ chan' = << >>
           /\ UNCHANGED <<offered, got>>

Next == \/ \E p \in Producers, x \in Items : Put(p, x) \/ Block(p, x)
        \/ \E p \in Producers : Accept(p)
        \/ \E c \in Consumers : Take(c) \/ Miss(c)
        \/ Discard

Spec == Init /\ [][Next]_vars

FairSpec == Spec /\ \A p \in Producers : WF_vars(Accept(p))
=============================================================================
