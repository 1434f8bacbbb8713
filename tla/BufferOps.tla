------------------------------ MODULE BufferOps ------------------------------
(***************************************************************************)
(* The decisions that common::CircularBuffer<T> takes under m_mutex        *)
(* (src/src/common/circular-buffer.hpp), as operators on the content of    *)
(* m_queue and on the set of threads blocked in m_isFull.wait.  The        *)
(* modules that hold such a buffer among their variables build on these.   *)
(***************************************************************************)
EXTENDS Naturals, Sequences, FiniteSets

CONSTANT cap                       \* the argument of the constructor

ASSUME CapAssumption == cap \in Nat

\* The constructor turns a capacity of zero into one.
m_capacity == IF cap = 0 THEN 1 ELSE cap

\* Mutant of IsFull: off by one.
FullTooLate(queue) == Len(queue) > m_capacity

\* push_front and pop_back both compare m_queue.size() with >=.
IsFull(queue) == Len(queue) >= m_capacity

\* The sets of threads that one notify_one() may wake: exactly one of those
\* blocked, and nobody when nobody is blocked.
NotifyOne(blocked) == IF blocked = {} THEN {{}} ELSE {{t} : t \in blocked}

\* Mutant of WokenByPop: pop_back notifies nobody.
NeverWoken(queue, blocked) == {{}}

\* pop_back notifies only if the queue was full before the element left.
WokenByPop(queue, blocked) ==
  IF IsFull(queue) THEN NotifyOne(blocked) ELSE {{}}
=============================================================================
