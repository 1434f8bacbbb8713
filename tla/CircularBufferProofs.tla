------------------------ MODULE CircularBufferProofs ------------------------
(***************************************************************************)
(* What holds of CircularBuffer for every capacity, every finite set of    *)
(* producers, any consumers and elements, and any number of spurious       *)
(* wakeups.                                                                *)
(***************************************************************************)
EXTENDS CircularBuffer, FiniteSetTheorems, SequenceTheorems, TLAPS

\* The capacity is at least one, whatever the constructor was given.
LEMMA CapacityPositive == m_capacity \in Nat \ {0}
BY CapAssumption DEF m_capacity

\* Sets of producers are finite and no larger than the set of all of them.
LEMMA ProducerSets ==
  ASSUME NEW S \in SUBSET Producers
  PROVE  /\ IsFiniteSet(S)
         /\ Cardinality(S) \in Nat
         /\ Cardinality(S) <= Cardinality(Producers)
BY ProducersAssumption, FS_Subset, FS_CardinalityType

\* One more element adds at most one to the cardinality of a set.
LEMMA AddAtMostOne ==
  ASSUME NEW S, IsFiniteSet(S), NEW x
  PROVE  /\ Cardinality(S \cup {x}) \in Nat
         /\ Cardinality(S \cup {x}) <= Cardinality(S) + 1
<1>1. Cardinality(S) \in Nat
  BY FS_CardinalityType
<1>2. Cardinality(S \cup {x}) = IF x \in S THEN Cardinality(S) ELSE Cardinality(S) + 1
  BY FS_AddElement
<1>3. QED
  BY <1>1, <1>2

\* A pop wakes nobody, or exactly one of the threads that wait.
LEMMA WokenChoices ==
  ASSUME NEW q, NEW S, NEW W \in WokenByPop(q, S)
  PROVE  W = {} \/ \E t \in S : W = {t}
BY DEF WokenByPop, NotifyOne

\* Types, and the set of blocked threads against the elements they hold: the
\* first conjunct of the inductive invariant.
TypeInv == TypeOK /\ HandsMatchWaits

\* Every variable keeps its type, and blocked threads and held elements keep
\* matching: the elements a push_front holds are those of threads inside it.
THEOREM TypesAndHands == Spec => []TypeInv
<1> USE DEF TypeInv, TypeOK, HandsMatchWaits
<1>1. Init => TypeInv
  BY SpuriousAssumption DEF Init
<1>2. TypeInv /\ [Next]_vars => TypeInv'
  <2> SUFFICES ASSUME TypeInv, [Next]_vars PROVE TypeInv'
    OBVIOUS
  <2>1. ASSUME NEW p \in Producers, NEW x \in Items, PushNow(p, x)
        PROVE  TypeInv'
    BY <2>1 DEF PushNow
  <2>2. ASSUME NEW p \in Producers, NEW x \in Items, PushWait(p, x)
        PROVE  TypeInv'
    BY <2>2, ItemsAssumption DEF PushWait
  <2>3. ASSUME NEW p \in Producers, Resume(p)
        PROVE  TypeInv'
    <3>1. hand[p] \in Items
      BY <2>3 DEF Resume
    <3>2. QED
      BY <2>3, <3>1 DEF Resume
  <2>4. ASSUME NEW p \in Producers, SpuriousWake(p)
        PROVE  TypeInv'
    BY <2>4, SpuriousAssumption DEF SpuriousWake
  <2>5. ASSUME NEW c \in Consumers, Pop(c)
        PROVE  TypeInv'
    <3>1. Head(queue) \in Items /\ Tail(queue) \in Seq(Items)
      BY <2>5, HeadTailProperties DEF Pop
    <3>2. PICK W \in WokenByPop(queue, waiting) :
            waiting' = waiting \ W /\ woken' = woken \cup W
      BY <2>5 DEF Pop
    <3>3. W \subseteq waiting
      BY <3>2, WokenChoices
    <3>4. QED
      BY <2>5, <3>1, <3>2, <3>3 DEF Pop
  <2>6. ASSUME NEW c \in Consumers, PopEmpty(c)
        PROVE  TypeInv'
    BY <2>6 DEF PopEmpty
  <2>7. CASE Clear
    BY <2>7 DEF Clear
  <2>8. CASE UNCHANGED vars
    BY <2>8 DEF vars
  <2>9. QED
    BY <2>1, <2>2, <2>3, <2>4, <2>5, <2>6, <2>7, <2>8 DEF Next
<1>3. QED
  BY <1>1, <1>2, PTL DEF Spec

\* Every variable keeps its type.
THEOREM TypeCorrect == Spec => []TypeOK
<1>1. TypeInv => TypeOK
  BY DEF TypeInv
<1>2. QED
  BY <1>1, TypesAndHands, PTL

----------------------------------------------------------------------------
\* The inductive invariant of the capacity bound.  Len(queue) alone is not
\* inductive: a pop makes room and wakes a thread that will take it later, so
\* the elements of woken threads have to be counted with those in the queue.
IInv == TypeInv /\ OverrunBound

\* With whatever mixture of waits, notifications and spurious wakeups, the
\* queue exceeds its capacity by at most one element per producer but one and
\* one per spurious wakeup: this is what testing for a full queue with "if"
\* costs.
THEOREM Overrun == Spec => []OverrunBound
<1>1. Init => OverrunBound
  <2>1. Cardinality(Producers) \in Nat /\ Cardinality(Producers) # 0
    BY ProducersAssumption, FS_CardinalityType, FS_EmptySet
  <2>2. Cardinality({}) = 0
    BY FS_EmptySet
  <2>3. QED
    BY <2>1, <2>2, CapacityPositive DEF Init, OverrunBound
<1>2. TypeInv /\ OverrunBound /\ [Next]_vars => OverrunBound'
  <2> SUFFICES ASSUME TypeInv, OverrunBound, [Next]_vars PROVE OverrunBound'
    OBVIOUS
  <2> USE DEF TypeInv, TypeOK, HandsMatchWaits, OverrunBound
  <2>0. /\ Cardinality(Producers) \in Nat
        /\ IsFiniteSet(woken)
        /\ Cardinality(woken) \in Nat
        /\ Len(queue) \in Nat
    BY ProducersAssumption, ProducerSets, FS_CardinalityType
  <2>1. ASSUME NEW p \in Producers, NEW x \in Items, PushNow(p, x)
        PROVE  OverrunBound'
    <3>1. p \notin woken
      BY <2>1 DEF PushNow
    <3>2. Cardinality(woken \cup {p}) = Cardinality(woken) + 1
      BY <2>0, <3>1, FS_AddElement
    <3>3. Cardinality(woken \cup {p}) <= Cardinality(Producers)
      BY ProducerSets
    <3>4. Len(queue) < m_capacity /\ Len(queue') = Len(queue) + 1
      BY <2>1, <2>0, CapacityPositive DEF PushNow, IsFull
    <3>5. woken' = woken /\ spurious' = spurious /\ spurious \in Nat
      BY <2>1, SpuriousAssumption DEF PushNow
    <3>6. QED
      BY <2>0, <3>2, <3>3, <3>4, <3>5, CapacityPositive
  <2>2. ASSUME NEW p \in Producers, NEW x \in Items, PushWait(p, x)
        PROVE  OverrunBound'
    BY <2>2 DEF PushWait
  <2>3. ASSUME NEW p \in Producers, Resume(p)
        PROVE  OverrunBound'
    <3>1. Len(queue') = Len(queue) + 1
      <4>1. hand[p] \in Items
        BY <2>3 DEF Resume
      <4>2. QED
        BY <2>3, <4>1 DEF Resume
    <3>2. Cardinality(woken') = Cardinality(woken) - 1
      BY <2>0, <2>3, FS_RemoveElement DEF Resume
    <3>3. spurious' = spurious
      BY <2>3 DEF Resume
    <3>4. QED
      BY <2>0, <3>1, <3>2, <3>3
  <2>4. ASSUME NEW p \in Producers, SpuriousWake(p)
        PROVE  OverrunBound'
    <3>1. woken' = woken \cup {p}
      BY <2>4 DEF SpuriousWake
    <3>2. Cardinality(woken') \in Nat /\ Cardinality(woken') <= Cardinality(woken) + 1
      BY <2>0, <3>1, AddAtMostOne
    <3>3. queue' = queue /\ spurious' = spurious + 1 /\ spurious \in Nat
      BY <2>4, SpuriousAssumption DEF SpuriousWake
    <3>4. QED
      BY <2>0, <3>1, <3>2, <3>3, CapacityPositive
  <2>5. ASSUME NEW c \in Consumers, Pop(c)
        PROVE  OverrunBound'
    <3>1. PICK W \in WokenByPop(queue, waiting) : woken' = woken \cup W
      BY <2>5 DEF Pop
    <3>2. Len(queue') = Len(queue) - 1
      BY <2>5, HeadTailProperties DEF Pop
    <3>3. Cardinality(woken') \in Nat /\ Cardinality(woken') <= Cardinality(woken) + 1
      <4>1. CASE W = {}
        BY <2>0, <3>1, <4>1
      <4>2. CASE \E t \in waiting : W = {t}
        <5>1. PICK t \in waiting : W = {t}
          BY <4>2
        <5>2. woken' = woken \cup {t}
          BY <3>1, <5>1
        <5>3. QED
          BY <2>0, <5>2, AddAtMostOne
      <4>3. QED
        BY <3>1, <4>1, <4>2, WokenChoices
    <3>4. spurious' = spurious /\ spurious \in Nat
      BY <2>5, SpuriousAssumption DEF Pop
    <3>5. QED
      BY <2>0, <3>2, <3>3, <3>4, CapacityPositive
  <2>6. ASSUME NEW c \in Consumers, PopEmpty(c)
        PROVE  OverrunBound'
    BY <2>6 DEF PopEmpty
  <2>7. CASE Clear
    <3>1. Len(queue') = 0 /\ woken' = woken /\ spurious' = spurious /\ spurious \in Nat
      BY <2>7, SpuriousAssumption DEF Clear
    <3>2. QED
      BY <2>0, <3>1, CapacityPositive
  <2>8. CASE UNCHANGED vars
    BY <2>8 DEF vars
  <2>9. QED
    BY <2>1, <2>2, <2>3, <2>4, <2>5, <2>6, <2>7, <2>8 DEF Next
<1>3. QED
  BY <1>1, <1>2, TypesAndHands, PTL DEF Spec

\* The buffer of the program: its one producer, woken by pops only, finds the
\* place it was woken for still free, and the capacity is never exceeded.
THEOREM OneProducerKeepsCapacity ==
  ASSUME Cardinality(Producers) = 1, MaxSpurious = 0
  PROVE  Spec => []WithinCapacity
<1>1. TypeInv /\ OverrunBound => WithinCapacity
  <2> SUFFICES ASSUME TypeInv, OverrunBound PROVE WithinCapacity
    OBVIOUS
  <2>1. Cardinality(woken) \in Nat
    BY ProducerSets DEF TypeInv, TypeOK
  <2>2. Len(queue) \in Nat /\ spurious = 0
    BY DEF TypeInv, TypeOK
  <2>3. QED
    BY <2>1, <2>2, CapacityPositive DEF OverrunBound, WithinCapacity
<1>2. QED
  BY <1>1, TypesAndHands, Overrun, PTL

\* With one producer a thread that waits leaves nobody to fill the queue, and
\* the first pop of a full queue wakes it: a waiter sees a full queue always.
OneWaiterFull == waiting # {} => IsFull(queue)

\* The program's producer is never left waiting beside a free place, where no
\* later pop_back would notify it.  clear() is excluded: it does just that.
THEOREM OneProducerNotStranded ==
  ASSUME Cardinality(Producers) = 1, ~CanClear
  PROVE  Spec => []NoStrandedProducer
<1>1. PICK q \in Producers : Producers = {q}
  BY ProducersAssumption, FS_Singleton
<1>2. Init => OneWaiterFull
  BY DEF Init, OneWaiterFull
<1>3. TypeInv /\ OneWaiterFull /\ [Next]_vars => OneWaiterFull'
  <2> SUFFICES ASSUME TypeInv, OneWaiterFull, [Next]_vars PROVE OneWaiterFull'
    OBVIOUS
  <2> USE DEF TypeInv, TypeOK, HandsMatchWaits, OneWaiterFull
  <2>1. ASSUME NEW p \in Producers, NEW x \in Items, PushNow(p, x)
        PROVE  OneWaiterFull'
    <3>1. waiting = {}
      BY <1>1, <2>1 DEF PushNow
    <3>2. QED
      BY <2>1, <3>1 DEF PushNow
  <2>2. ASSUME NEW p \in Producers, NEW x \in Items, PushWait(p, x)
        PROVE  OneWaiterFull'
    BY <2>2 DEF PushWait, IsFull
  <2>3. ASSUME NEW p \in Producers, Resume(p)
        PROVE  OneWaiterFull'
    <3>1. waiting = {}
      BY <1>1, <2>3 DEF Resume
    <3>2. QED
      BY <2>3, <3>1 DEF Resume
  <2>4. ASSUME NEW p \in Producers, SpuriousWake(p)
        PROVE  OneWaiterFull'
    BY <2>4 DEF SpuriousWake, IsFull
  <2>5. ASSUME NEW c \in Consumers, Pop(c)
        PROVE  OneWaiterFull'
    <3>1. CASE waiting = {}
      BY <2>5, <3>1 DEF Pop
    <3>2. CASE waiting # {}
      <4>1. waiting = {q}
        BY <1>1, <3>2
      <4>2. WokenByPop(queue, waiting) = {{q}}
        BY <3>2, <4>1 DEF WokenByPop, NotifyOne
      <4>3. waiting' = {}
        BY <2>5, <4>1, <4>2 DEF Pop
      <4>4. QED
        BY <4>3
    <3>3. QED
      BY <3>1, <3>2
  <2>6. ASSUME NEW c \in Consumers, PopEmpty(c)
        PROVE  OneWaiterFull'
    BY <2>6 DEF PopEmpty
  <2>7. CASE Clear
    BY <2>7 DEF Clear
  <2>8. CASE UNCHANGED vars
    BY <2>8 DEF vars, IsFull
  <2>9. QED
    BY <2>1, <2>2, <2>3, <2>4, <2>5, <2>6, <2>7, <2>8 DEF Next
<1>4. TypeInv /\ OneWaiterFull => NoStrandedProducer
  <2> SUFFICES ASSUME TypeInv, OneWaiterFull PROVE NoStrandedProducer
    OBVIOUS
  <2>1. Cardinality(woken) \in Nat
    BY ProducerSets DEF TypeInv, TypeOK
  <2>2. QED
    BY <2>1, CapacityPositive
       DEF TypeInv, TypeOK, OneWaiterFull, NoStrandedProducer, IsFull
<1>5. QED
  BY <1>2, <1>3, <1>4, TypesAndHands, PTL DEF Spec

----------------------------------------------------------------------------
\* A woken thread that pushes finds fewer elements than the channel may hold:
\* OverrunBound counts the thread itself among those under way.
LEMMA RoomWhenWoken ==
  ASSUME IInv, NEW p \in woken
  PROVE  Len(queue) < m_capacity + Cardinality(Producers) - 1 + MaxSpurious
<1> USE DEF IInv, TypeInv, TypeOK
<1>1. IsFiniteSet(woken) /\ Cardinality(woken) \in Nat
  BY ProducerSets
<1>2. Cardinality(woken) # 0
  BY <1>1, FS_EmptySet
<1>3. Cardinality(Producers) \in Nat /\ Len(queue) \in Nat
  BY ProducersAssumption, FS_CardinalityType
<1>4. spurious \in Nat /\ spurious <= MaxSpurious
  BY SpuriousAssumption
<1>5. QED
  BY <1>1, <1>2, <1>3, <1>4, CapacityPositive, SpuriousAssumption DEF OverrunBound

\* The buffer with its "if", its notifications and its spurious wakeups is a
\* FIFO channel: elements leave in the order they came, none lost or doubled,
\* and a caller is made to wait only while the queue is full.
THEOREM Refinement == Spec => ImplementsChannel
<1> USE DEF Channel!vars
<1>1. Init => Channel!Init
  BY DEF Init, Channel!Init
<1>2. IInv /\ [Next]_vars => [Channel!Next]_(Channel!vars)
  <2> SUFFICES ASSUME IInv, [Next]_vars PROVE [Channel!Next]_(Channel!vars)
    OBVIOUS
  <2> USE DEF Channel!Next
  <2>0. Len(queue) \in Nat /\ m_capacity \in Nat
    BY CapacityPositive DEF IInv, TypeInv, TypeOK
  <2>1. ASSUME NEW p \in Producers, NEW x \in Items, PushNow(p, x)
        PROVE  Channel!Put(p, x)
    BY <2>0, <2>1 DEF PushNow, IsFull, Channel!Put
  <2>2. ASSUME NEW p \in Producers, NEW x \in Items, PushWait(p, x)
        PROVE  Channel!Block(p, x)
    BY <2>2 DEF PushWait, IsFull, Channel!Block
  <2>3. ASSUME NEW p \in Producers, Resume(p)
        PROVE  Channel!Accept(p)
    <3>1. hand[p] # None
      BY <2>3 DEF Resume, IInv, TypeInv, HandsMatchWaits
    <3>2. QED
      BY <2>3, <3>1, RoomWhenWoken DEF Resume, Channel!Accept
  <2>4. ASSUME NEW p \in Producers, SpuriousWake(p)
        PROVE  UNCHANGED Channel!vars
    BY <2>4 DEF SpuriousWake
  <2>5. ASSUME NEW c \in Consumers, Pop(c)
        PROVE  Channel!Take(c)
    BY <2>5 DEF Pop, Channel!Take
  <2>6. ASSUME NEW c \in Consumers, PopEmpty(c)
        PROVE  Channel!Miss(c)
    BY <2>6 DEF PopEmpty, Channel!Miss
  <2>7. ASSUME Clear
        PROVE  Channel!Discard
    BY <2>7 DEF Clear, Channel!Discard
  <2>8. CASE UNCHANGED vars
    BY <2>8 DEF vars
  <2>9. QED
    BY <2>1, <2>2, <2>3, <2>4, <2>5, <2>6, <2>7, <2>8 DEF Next
<1>3. QED
  BY <1>1, <1>2, TypesAndHands, Overrun, PTL
     DEF Spec, ImplementsChannel, Channel!Spec, IInv
=============================================================================
