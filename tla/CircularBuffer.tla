--------------------------- MODULE CircularBuffer ---------------------------
(***************************************************************************)
(* common::CircularBuffer<T> (src/src/common/circular-buffer.hpp) used by  *)
(* concurrent threads.  Every method takes m_mutex for its whole body, so  *)
(* each is one action, except that m_isFull.wait in push_front gives the   *)
(* mutex back: a push that finds the queue full is two critical sections,  *)
(* PushWait and Resume.  A waiting thread is woken by a notify_one or, as  *)
(* std::condition_variable allows, for no reason (SpuriousWake).  The code *)
(* tests for a full queue once, with if and not while, so Resume does not  *)
(* look at the queue again.                                                *)
(***************************************************************************)
EXTENDS BufferOps

CONSTANTS Producers,      \* threads that call push_front
          Consumers,      \* threads that call pop_back
          Items,          \* the elements pushed
          None,           \* T{}, the value of a null pointer; no element
          CanClear,       \* whether some thread calls clear()
          MaxSpurious     \* bound on spurious wakeups, for TLC

ASSUME ProducersAssumption == IsFiniteSet(Producers) /\ Producers # {}
ASSUME ItemsAssumption     == None \notin Items
ASSUME ClearAssumption     == CanClear \in BOOLEAN
ASSUME SpuriousAssumption  == MaxSpurious \in Nat

VARIABLES queue,          \* m_queue, the oldest element first
          waiting,        \* threads blocked in m_isFull.wait
          woken,          \* threads that left the wait, not yet back in m_mutex
          hand,           \* the element a blocked push_front still holds
          got,            \* what the consumer's last pop_back returned
          spurious        \* spurious wakeups so far

vars == <<queue, waiting, woken, hand, got, spurious>>

Init == /\ queue = << >>
        /\ waiting = {}
        /\ woken = {}
        /\ hand = [p \in Producers |-> None]
        /\ got = [c \in Consumers |-> None]
        /\ spurious = 0

----------------------------------------------------------------------------
\* push_front adds at the back of the deque when there is room ...
PushNow(p, x) ==
  /\ hand[p] = None
  /\ ~IsFull(queue)
  /\ queue' = Append(queue, x)
  /\ UNCHANGED <<waiting, woken, hand, got, spurious>>

\* Mutant of PushWait: the wait has a timeout after which the push goes ahead.
PushWaitGivesUp(p, x) ==
  /\ hand[p] = None
  /\ IsFull(queue)
  /\ woken' = woken \cup {p}
  /\ hand' = [hand EXCEPT ![p] = x]
  /\ UNCHANGED <<queue, waiting, got, spurious>>

\* ... and blocks in m_isFull.wait when there is none.
PushWait(p, x) ==
  /\ hand[p] = None
  /\ IsFull(queue)
  /\ waiting' = waiting \cup {p}
  /\ hand' = [hand EXCEPT ![p] = x]
  /\ UNCHANGED <<queue, woken, got, spurious>>

\* Mutant of Resume: the woken thread repeats the push.
ResumeTwice(p) ==
  /\ p \in woken
  /\ queue' = Append(queue, hand[p])
  /\ hand' = [hand EXCEPT ![p] = None]
  /\ UNCHANGED <<waiting, woken, got, spurious>>

\* Mutant of Resume: the woken thread pushes at the other end.
ResumeAtFront(p) ==
  /\ p \in woken
  /\ queue' = <<hand[p]>> \o queue
  /\ woken' = woken \ {p}
  /\ hand' = [hand EXCEPT ![p] = None]
  /\ UNCHANGED <<waiting, got, spurious>>

\* A woken thread has m_mutex again and pushes, whatever the queue holds now.
Resume(p) ==
  /\ p \in woken
  /\ queue' = Append(queue, hand[p])
  /\ woken' = woken \ {p}
  /\ hand' = [hand EXCEPT ![p] = None]
  /\ UNCHANGED <<waiting, got, spurious>>

SpuriousWake(p) ==
  /\ p \in waiting
  /\ spurious < MaxSpurious
  /\ waiting' = waiting \ {p}
  /\ woken' = woken \cup {p}
  /\ spurious' = spurious + 1
  /\ UNCHANGED <<queue, hand, got>>

\* pop_back takes the oldest element and notifies if the queue was full ...
Pop(c) ==
  /\ queue # << >>
  /\ got' = [got EXCEPT ![c] = Head(queue)]
  /\ queue' = Tail(queue)
  /\ \E W \in WokenByPop(queue, waiting) :
       /\ waiting' = waiting \ W
       /\ woken' = woken \cup W
  /\ UNCHANGED <<hand, spurious>>

\* ... and returns T{} at once from an empty queue.
PopEmpty(c) ==
  /\ queue = << >>
  /\ got' = [got EXCEPT ![c] = None]
  /\ UNCHANGED <<queue, waiting, woken, hand, spurious>>

\* clear() empties the queue and notifies nobody.
Clear ==
  /\ CanClear
  /\ queue # << >>
  /\ queue' = << >>
  /\ UNCHANGED <<waiting, woken, hand, got, spurious>>

Next == \/ \E p \in Producers, x \in Items : PushNow(p, x) \/ PushWait(p, x)
        \/ \E p \in Producers : Resume(p) \/ SpuriousWake(p)
        \/ \E c \in Consumers : Pop(c) \/ PopEmpty(c)
        \/ Clear

Spec == Init /\ [][Next]_vars

\* A thread that is runnable gets to run, and some consumer keeps reading (the
\* loop of FrameCounter::readLoop).  Nobody is obliged to push.
FairSpec == /\ Spec
            /\ \A p \in Producers : WF_vars(Resume(p))
            /\ \A c \in Consumers : WF_vars(Pop(c))

----------------------------------------------------------------------------
TypeOK == /\ queue \in Seq(Items)
          /\ waiting \in SUBSET Producers
          /\ woken \in SUBSET Producers
          /\ hand \in [Producers -> Items \cup {None}]
          /\ got \in [Consumers -> Items \cup {None}]
          /\ spurious \in 0..MaxSpurious

\* An element is held back exactly while its thread waits or is on its way
\* back into push_front, and no thread is at both places.
HandsMatchWaits ==
  /\ waiting \cap woken = {}
  /\ \A p \in Producers : hand[p] # None <=> p \in waiting \cup woken

\* How far the missing re-check can overfill the queue: every producer but one
\* may have been woken while another took the free place, and each spurious
\* wakeup adds one more.  Elements under way (woken) count as already inside.
OverrunBound ==
  Len(queue) + Cardinality(woken)
    <= m_capacity + Cardinality(Producers) - 1 + spurious

\* The queue holds what its capacity allows, and no more.
WithinCapacity == Len(queue) <= m_capacity

\* No wakeup is lost: if threads wait, the places that are free are already
\* claimed by threads that were woken.  A thread waiting beside a free place
\* is never notified, since pop_back notifies only when it finds a full queue.
NoStrandedProducer ==
  waiting # {} => Len(queue) + Cardinality(woken) >= m_capacity

\* The buffer is a FIFO channel without loss or duplication, bounded as above.
Channel == INSTANCE BoundedChannel
             WITH chan <- queue, offered <- hand, Threshold <- m_capacity,
                  Bound <- m_capacity + Cardinality(Producers) - 1 + MaxSpurious

ImplementsChannel == Channel!Spec

\* ... which lets every waiting producer in eventually.
ImplementsFairChannel == Channel!FairSpec

\* A push_front that has to wait returns in the end.
PushReturns == \A p \in Producers : hand[p] # None ~> hand[p] = None
=============================================================================
