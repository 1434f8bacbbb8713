------------------------------ MODULE Broadcast ------------------------------
(***************************************************************************)
(* What a packet source promises to its subscribers: a packet that was     *)
(* read is given to those on the list, to each in the order of reading,    *)
(* from the first one it gets on without a gap, into a queue of its own    *)
(* that never holds more than it may.  Nothing is said of locks, threads   *)
(* and flags.  The promise of no gap ends with a lapse.                    *)
(***************************************************************************)
EXTENDS Naturals, Sequences

CONSTANTS Subscribers, Capacity,
          IdSpace,    \* packets are numbered modulo this
          NoPacket

VARIABLES
  packet,   \* the packet read last
  listed,   \* the set of subscribers on the list
  cursor,   \* per subscriber, the packet it was given last since it joined
  queue,    \* per subscriber, what it has still to take
  lapse     \* whether a packet may have been passed over

broadcastVars == <<packet, listed, cursor, queue, lapse>>

Init == /\ packet = 0
        /\ listed = {}
        /\ cursor = [s \in Subscribers |-> NoPacket]
        /\ queue = [s \in Subscribers |-> << >>]
        /\ lapse = FALSE

After(id) == (id + 1) % IdSpace

Read == packet' = After(packet) /\ UNCHANGED <<listed, cursor, queue, lapse>>

\* Some leave, and at most one joins, who may be one that leaves.
Regroup(leaving, joining) ==
  /\ listed' = (listed \ leaving) \cup joining
  /\ cursor' = [s \in Subscribers |-> IF s \in joining THEN NoPacket ELSE cursor[s]]
  /\ UNCHANGED <<packet, queue, lapse>>

Give(s) ==
  /\ s \in listed
  /\ cursor[s] = NoPacket \/ packet = After(cursor[s]) \/ lapse
  /\ Len(queue[s]) < Capacity
  /\ cursor' = [cursor EXCEPT ![s] = packet]
  /\ queue' = [queue EXCEPT ![s] = Append(@, packet)]
  /\ UNCHANGED <<packet, listed, lapse>>

Take(s) ==
  /\ queue[s] # << >>
  /\ queue' = [queue EXCEPT ![s] = Tail(@)]
  /\ UNCHANGED <<packet, listed, cursor, lapse>>

Lapse == lapse' = TRUE /\ UNCHANGED <<packet, listed, cursor, queue>>

Next == \/ Read \/ Lapse
        \/ \E s \in Subscribers : Give(s) \/ Take(s)
        \/ \E leaving \in SUBSET listed :
             \E joining \in {{}} \cup {{s} : s \in Subscribers} :
               Regroup(leaving, joining)

Spec == Init /\ [][Next]_broadcastVars
=============================================================================
