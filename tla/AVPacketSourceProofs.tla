------------------------ MODULE AVPacketSourceProofs ------------------------
(***************************************************************************)
(* What holds of AVPacketSource for any number of clients, subscribers and *)
(* packet numbers, and that it implements Broadcast.  IInv is inductive:   *)
(* next to the types it says what is still to be visited (Walk), that a    *)
(* read thread woken has room (Room), what the flags tell of a Start under *)
(* the read thread and of a Stop (Flags), and which packet each subscriber *)
(* on the list was given last, at every place of the read thread (Step).   *)
(***************************************************************************)
EXTENDS AVPacketSource, FiniteSetTheorems, SequenceTheorems, TLAPS

Todo == {todo[i] : i \in DOMAIN todo}

\* What is still to be visited is visited with m_mtx held.
Walk ==
  /\ ListWalk
  /\ todo # << >> => reader \in Publishing
  /\ reader \in {"offer", "waiting", "woken"} => todo # << >>

\* The read thread, woken, finds the room it was promised.
Room ==
  /\ reader = "waiting" => IsFull(m_packetQueue[Head(todo)])
  /\ reader = "woken" => Len(m_packetQueue[Head(todo)]) < m_capacity
  /\ \A s \in Subscribers : Len(m_packetQueue[s]) <= m_capacity

\* m_isStarted, once lost in the loop, does not come back; and after that, as after
\* a Stop, nothing is published but the packet in hand at the time.
Flags ==
  /\ reader \in {"none", "enter"} =>
       mutedAt = NoPacket /\ \A s \in Subscribers : last[s] = NoPacket
  /\ mutedAt # NoPacket => ~m_isStarted
  /\ InLoop /\ ~m_isStarted => mutedAt # NoPacket
  /\ mutedAt # NoPacket /\ reader \in Publishing \cup {"lock"} => m_lastPktId = mutedAt
  /\ m_needToStop /\ reader \in Publishing \cup {"lock"} => m_lastPktId = stoppedAt

Current(s) == last[s] = NoPacket \/ last[s] = m_lastPktId
Due(s) == last[s] = NoPacket \/ Succ(last[s]) = m_lastPktId
Halting == m_needToStop \/ ~m_isStarted

\* Where each subscriber on the list is with respect to the packet in hand.
Step ==
  ~stopLost =>
    /\ reader \in {"test", "reading"} =>
         Halting \/ \A s \in Listed : m_isInitialized[s] => Current(s)
    /\ reader = "publish" =>
         Halting \/ \A s \in Listed : m_isInitialized[s] => Due(s)
    /\ reader = "lock" =>
         \A s \in Listed : m_isInitialized[s] => Due(s)
    /\ reader \in Publishing =>
         /\ \A s \in Todo : Due(s)
         /\ \A s \in Listed \ Todo : m_isInitialized[s] => Current(s)

IInv == TypeOK /\ Walk /\ Room /\ Flags /\ Step

----------------------------------------------------------------------------
(* Lists.                                                                   *)

\* What is taken out of a list leaves the rest in place, all of it, and brings in
\* nothing.
LEMMA SublistFacts ==
  ASSUME NEW list \in Seq(Subscribers), NEW K \in SUBSET DOMAIN list,
         NEW rest \in Sublists(list, K)
  PROVE  /\ rest \in Seq(Subscribers)
         /\ \A i \in DOMAIN rest : \E j \in K : rest[i] = list[j]
         /\ \A j \in K : \E i \in DOMAIN rest : rest[i] = list[j]
         /\ (\A i, j \in DOMAIN list : list[i] = list[j] => i = j)
              => \A i, j \in DOMAIN rest : rest[i] = rest[j] => i = j
<1>1. DOMAIN list = 1..Len(list) /\ Len(list) \in Nat
  OBVIOUS
<1>2. IsFiniteSet(K)
  <2>1. IsFiniteSet(1..Len(list)) /\ K \in SUBSET (1..Len(list))
    BY <1>1, FS_Interval
  <2> QED
    BY <2>1, FS_Subset
<1>3. Cardinality(K) \in Nat
  BY <1>2, FS_CardinalityType
<1>4. PICK f \in Increasing(K) : rest = [i \in 1..Cardinality(K) |-> list[f[i]]]
  BY DEF Sublists
<1>5. /\ f \in [1..Cardinality(K) -> K]
      /\ \A i, j \in 1..Cardinality(K) : i < j => f[i] < f[j]
  BY <1>4 DEF Increasing
<1>6. \A i \in 1..Cardinality(K) : f[i] \in K /\ list[f[i]] \in Subscribers
  BY <1>5, <1>1
<1>7. rest \in Seq(Subscribers) /\ DOMAIN rest = 1..Cardinality(K)
  BY <1>3, <1>4, <1>6
<1>8. ASSUME NEW i \in 1..Cardinality(K), NEW j \in 1..Cardinality(K), f[i] = f[j]
      PROVE  i = j
  <2>1. f[i] \in Nat /\ f[j] \in Nat
    BY <1>6, <1>1
  <2>2. ~(i < j) /\ ~(j < i)
    BY <1>5, <1>8, <2>1
  <2> QED
    BY <2>2, <1>3
<1>9. ASSUME \A i, j \in DOMAIN list : list[i] = list[j] => i = j,
             NEW i \in DOMAIN rest, NEW j \in DOMAIN rest, rest[i] = rest[j]
      PROVE  i = j
  BY <1>9, <1>8, <1>7, <1>6, <1>4
<1>10. ASSUME NEW j \in K
       PROVE  \E i \in DOMAIN rest : rest[i] = list[j]
  <2>1. f \in Injection(1..Cardinality(K), K)
    BY <1>5, <1>8 DEF Injection, IsInjective
  <2>2. Cardinality(1..Cardinality(K)) = Cardinality(K)
    BY <1>3, FS_Interval
  <2>3. f \in Surjection(1..Cardinality(K), K)
    BY <1>2, <2>1, <2>2, FS_Injection
  <2>4. PICK i \in 1..Cardinality(K) : f[i] = j
    BY <2>3 DEF Surjection
  <2> QED
    BY <1>4, <1>7, <2>4
<1> QED
  BY <1>4, <1>6, <1>7, <1>9, <1>10

\* The end of the list is a rest of it.
LEMMA EmptyRest ==
  ASSUME NEW list \in Seq(Subscribers)
  PROVE  IsRest(<< >>, list)
BY DEF IsRest

\* After a subscriber was visited, what is left is still a rest.
LEMMA TailRest ==
  ASSUME NEW list \in Seq(Subscribers), NEW t \in Seq(Subscribers), t # << >>,
         IsRest(t, list)
  PROVE  /\ IsRest(Tail(t), list)
         /\ \A s : (\E i \in DOMAIN t : t[i] = s) <=>
                   s = Head(t) \/ (\E i \in DOMAIN Tail(t) : Tail(t)[i] = s)
         /\ \E i \in DOMAIN list : list[i] = Head(t)
<1>1. /\ Len(t) \in Nat /\ Len(t) > 0 /\ DOMAIN t = 1..Len(t)
      /\ Len(list) \in Nat /\ DOMAIN list = 1..Len(list)
      /\ Len(Tail(t)) = Len(t) - 1 /\ DOMAIN Tail(t) = 1..(Len(t) - 1)
      /\ \A i \in 1..(Len(t) - 1) : Tail(t)[i] = t[i + 1]
      /\ Head(t) = t[1]
  OBVIOUS
<1>2. Len(t) <= Len(list) /\ \A i \in 1..Len(t) : t[i] = list[Len(list) - Len(t) + i]
  BY DEF IsRest
<1>3. IsRest(Tail(t), list)
  <2>1. ASSUME NEW i \in 1..(Len(t) - 1)
        PROVE  Tail(t)[i] = list[Len(list) - (Len(t) - 1) + i]
    <3>1. i + 1 \in 1..Len(t) /\ Len(list) - Len(t) + (i + 1) = Len(list) - (Len(t) - 1) + i
      BY <1>1
    <3> QED
      BY <3>1, <1>1, <1>2
  <2> QED
    BY <2>1, <1>1, <1>2 DEF IsRest
<1>4. ASSUME NEW s
      PROVE  (\E i \in DOMAIN t : t[i] = s) <=>
             s = Head(t) \/ (\E i \in DOMAIN Tail(t) : Tail(t)[i] = s)
  <2>1. ASSUME NEW i \in DOMAIN t, t[i] = s, i # 1
        PROVE  \E j \in DOMAIN Tail(t) : Tail(t)[j] = s
    <3>1. i - 1 \in 1..(Len(t) - 1) /\ (i - 1) + 1 = i
      BY <2>1, <1>1
    <3> QED
      BY <3>1, <2>1, <1>1
  <2>2. ASSUME NEW j \in DOMAIN Tail(t), Tail(t)[j] = s
        PROVE  \E i \in DOMAIN t : t[i] = s
    <3>1. j + 1 \in 1..Len(t)
      BY <1>1
    <3> QED
      BY <3>1, <2>2, <1>1
  <2>3. 1 \in DOMAIN t
    BY <1>1
  <2> QED
    BY <2>1, <2>2, <2>3, <1>1
<1>5. \E i \in DOMAIN list : list[i] = Head(t)
  <2>1. Len(list) - Len(t) + 1 \in 1..Len(list)
    BY <1>1, <1>2
  <2> QED
    BY <2>1, <1>1, <1>2
<1> QED
  BY <1>3, <1>4, <1>5

\* In a list without duplicates what comes next does not come again.
LEMMA HeadOnce ==
  ASSUME NEW list \in Seq(Subscribers), NEW t \in Seq(Subscribers), t # << >>,
         IsRest(t, list), \A i, j \in DOMAIN list : list[i] = list[j] => i = j
  PROVE  \A i \in DOMAIN Tail(t) : Tail(t)[i] # Head(t)
<1>1. /\ Len(t) \in Nat /\ Len(t) > 0
      /\ Len(list) \in Nat /\ DOMAIN list = 1..Len(list)
      /\ DOMAIN Tail(t) = 1..(Len(t) - 1)
      /\ \A i \in 1..(Len(t) - 1) : Tail(t)[i] = t[i + 1]
      /\ Head(t) = t[1]
  OBVIOUS
<1>2. Len(t) <= Len(list) /\ \A i \in 1..Len(t) : t[i] = list[Len(list) - Len(t) + i]
  BY DEF IsRest
<1> SUFFICES ASSUME NEW i \in 1..(Len(t) - 1), Tail(t)[i] = Head(t)
             PROVE  FALSE
  BY <1>1
<1>3. /\ Len(list) - Len(t) + 1 \in DOMAIN list
      /\ Len(list) - Len(t) + (i + 1) \in DOMAIN list
      /\ i + 1 \in 1..Len(t) /\ 1 \in 1..Len(t)
      /\ Len(list) - Len(t) + (i + 1) # Len(list) - Len(t) + 1
  BY <1>1, <1>2
<1>4. /\ t[i + 1] = list[Len(list) - Len(t) + (i + 1)]
      /\ t[1] = list[Len(list) - Len(t) + 1]
      /\ t[i + 1] = t[1]
  BY <1>1, <1>2, <1>3
<1> QED
  BY <1>3, <1>4

\* The list without the terminated, and without one more.
LEMMA RestFacts ==
  ASSUME TypeOK, ListWalk,
         NEW rest, rest \in removeTerminated(m_PacketSubscribers)
                     \/ \E s \in Subscribers : rest \in Without(s)
  PROVE  /\ rest \in Seq(Subscribers)
         /\ \A i, j \in DOMAIN rest : rest[i] = rest[j] => i = j
         /\ \A i \in DOMAIN rest : rest[i] \in Listed /\ m_isInitialized[rest[i]]
<1>1. PICK K \in SUBSET Live(m_PacketSubscribers) : rest \in Sublists(m_PacketSubscribers, K)
  BY DEF removeTerminated, Without
<1>2. /\ K \in SUBSET DOMAIN m_PacketSubscribers
      /\ \A j \in K : m_isInitialized[m_PacketSubscribers[j]]
  BY <1>1 DEF Live
<1>3. /\ rest \in Seq(Subscribers)
      /\ \A i \in DOMAIN rest : \E j \in K : rest[i] = m_PacketSubscribers[j]
      /\ \A i, j \in DOMAIN rest : rest[i] = rest[j] => i = j
  <2>1. /\ m_PacketSubscribers \in Seq(Subscribers)
        /\ \A i, j \in DOMAIN m_PacketSubscribers :
             m_PacketSubscribers[i] = m_PacketSubscribers[j] => i = j
    BY DEF TypeOK, ListWalk
  <2>2. /\ rest \in Seq(Subscribers)
        /\ \A i \in DOMAIN rest : \E j \in K : rest[i] = m_PacketSubscribers[j]
    BY ONLY <1>1, <1>2, <2>1, SublistFacts
  <2>3. \A i, j \in DOMAIN rest : rest[i] = rest[j] => i = j
    BY ONLY <1>1, <1>2, <2>1, SublistFacts
  <2> QED
    BY <2>2, <2>3
<1> QED
  BY <1>2, <1>3 DEF Listed

\* Taking out the terminated, and one more, keeps everybody else.
LEMMA RestKeeps ==
  ASSUME TypeOK, NEW s \in Listed, m_isInitialized[s],
         NEW rest, rest \in removeTerminated(m_PacketSubscribers)
                     \/ \E t \in Subscribers \ {s} : rest \in Without(t)
  PROVE  \E i \in DOMAIN rest : rest[i] = s
<1>1. PICK j \in Live(m_PacketSubscribers) : m_PacketSubscribers[j] = s
  BY DEF Listed, Live
<1>2. PICK K \in SUBSET Live(m_PacketSubscribers) :
        j \in K /\ rest \in Sublists(m_PacketSubscribers, K)
  BY <1>1 DEF removeTerminated, Without
<1>3. m_PacketSubscribers \in Seq(Subscribers) /\ K \in SUBSET DOMAIN m_PacketSubscribers
  BY <1>2 DEF TypeOK, Live
<1>4. \A k \in K : \E i \in DOMAIN rest : rest[i] = m_PacketSubscribers[k]
  BY ONLY <1>2, <1>3, SublistFacts
<1> QED
  BY <1>1, <1>2, <1>4

\* What Subscribe does to the list: somebody may leave, and one may join.
LEMMA SubscribeFacts ==
  ASSUME TypeOK, ListWalk, NEW c \in Clients, SubscribeBody(c)
  PROVE  /\ m_PacketSubscribers' \in Seq(Subscribers)
         /\ \A i, j \in DOMAIN m_PacketSubscribers' :
              m_PacketSubscribers'[i] = m_PacketSubscribers'[j] => i = j
         /\ \/ UNCHANGED last /\ Listed' \subseteq Listed
            \/ \E s \in Subscribers :
                 /\ last' = [last EXCEPT ![s] = NoPacket]
                 /\ s \in Listed' /\ Listed' \subseteq Listed \cup {s}
<1> DEFINE s == call[c].sub
<1>1. PICK live \in removeTerminated(m_PacketSubscribers) :
        IF \E i \in DOMAIN live : live[i] = s
        THEN m_PacketSubscribers' = live /\ UNCHANGED last
        ELSE /\ m_PacketSubscribers' = Append(live, s)
             /\ last' = [last EXCEPT ![s] = NoPacket]
  BY DEF SubscribeBody
<1>2. s \in Subscribers
  BY DEF SubscribeBody, TypeOK, Calls, Idle
<1> HIDE DEF s
<1>3. /\ live \in Seq(Subscribers)
      /\ \A i, j \in DOMAIN live : live[i] = live[j] => i = j
      /\ \A i \in DOMAIN live : live[i] \in Listed
  BY RestFacts
<1>4. CASE \E i \in DOMAIN live : live[i] = s
  BY <1>4, <1>1, <1>3 DEF Listed
<1>5. CASE ~\E i \in DOMAIN live : live[i] = s
  <2>1. m_PacketSubscribers' = Append(live, s) /\ last' = [last EXCEPT ![s] = NoPacket]
    BY <1>5, <1>1
  <2>2. /\ DOMAIN live = 1..Len(live) /\ Len(live) \in Nat
        /\ DOMAIN m_PacketSubscribers' = 1..(Len(live) + 1)
        /\ \A i \in 1..Len(live) : m_PacketSubscribers'[i] = live[i]
        /\ m_PacketSubscribers'[Len(live) + 1] = s
        /\ m_PacketSubscribers' \in Seq(Subscribers)
    BY <2>1, <1>2, <1>3
  <2>3. s \in Listed' /\ Listed' \subseteq Listed \cup {s}
    BY <2>2, <1>3 DEF Listed
  <2>4. \A i, j \in DOMAIN m_PacketSubscribers' :
          m_PacketSubscribers'[i] = m_PacketSubscribers'[j] => i = j
    BY <2>2, <1>3, <1>5
  <2> QED
    BY <2>1, <2>2, <2>3, <2>4, <1>2
<1> QED
  BY <1>4, <1>5

\* Unsubscribe and publishToAll only take out.
LEMMA LeaveFacts ==
  ASSUME TypeOK, ListWalk, PublishLock \/ \E c \in Clients : UnsubscribeBody(c)
  PROVE  /\ m_PacketSubscribers' \in Seq(Subscribers)
         /\ \A i, j \in DOMAIN m_PacketSubscribers' :
              m_PacketSubscribers'[i] = m_PacketSubscribers'[j] => i = j
         /\ Listed' \subseteq Listed
         /\ \A s \in Listed' : m_isInitialized[s]
<1>1. ASSUME NEW c \in Clients, UnsubscribeBody(c)
      PROVE  \E s \in Subscribers : m_PacketSubscribers' \in Without(s)
  BY <1>1 DEF UnsubscribeBody, TypeOK, Calls, Idle
<1>2. \/ m_PacketSubscribers' \in removeTerminated(m_PacketSubscribers)
      \/ \E s \in Subscribers : m_PacketSubscribers' \in Without(s)
  BY <1>1 DEF PublishLock
<1>3. /\ m_PacketSubscribers' \in Seq(Subscribers)
      /\ \A i, j \in DOMAIN m_PacketSubscribers' :
           m_PacketSubscribers'[i] = m_PacketSubscribers'[j] => i = j
      /\ \A i \in DOMAIN m_PacketSubscribers' :
           m_PacketSubscribers'[i] \in Listed /\ m_isInitialized[m_PacketSubscribers'[i]]
  BY <1>2, RestFacts
<1> QED
  BY <1>3 DEF Listed

\* Who is visited is on the list and is not visited again.
LEMMA VisitedOnce ==
  ASSUME TypeOK, Walk, todo # << >>, todo' = Tail(todo)
  PROVE  /\ Head(todo) \in Subscribers /\ Head(todo) \in Todo /\ Head(todo) \in Listed
         /\ Todo' = Todo \ {Head(todo)}
         /\ IsRest(Tail(todo), m_PacketSubscribers)
<1>1. /\ m_PacketSubscribers \in Seq(Subscribers) /\ todo \in Seq(Subscribers)
      /\ IsRest(todo, m_PacketSubscribers)
      /\ \A i, j \in DOMAIN m_PacketSubscribers :
           m_PacketSubscribers[i] = m_PacketSubscribers[j] => i = j
  BY DEF TypeOK, Walk, ListWalk
<1>2. /\ \A t : (\E i \in DOMAIN todo : todo[i] = t) <=>
                t = Head(todo) \/ (\E i \in DOMAIN Tail(todo) : Tail(todo)[i] = t)
      /\ \E i \in DOMAIN m_PacketSubscribers : m_PacketSubscribers[i] = Head(todo)
      /\ IsRest(Tail(todo), m_PacketSubscribers)
  BY <1>1, TailRest
<1>3. \A i \in DOMAIN Tail(todo) : Tail(todo)[i] # Head(todo)
  BY <1>1, HeadOnce
<1>4. \A t : t \in Todo <=> t = Head(todo) \/ t \in Todo'
  BY <1>2 DEF Todo
<1>5. Head(todo) \notin Todo'
  BY <1>3 DEF Todo
<1>6. Head(todo) \in Listed
  BY <1>2 DEF Listed
<1> QED
  BY <1>1, <1>2, <1>4, <1>5, <1>6

----------------------------------------------------------------------------
(* The steps.                                                               *)

\* The types are kept by every step.
LEMMA TypeStep ==
  ASSUME TypeOK, Walk, SourceNext
  PROVE  TypeOK'
<1> USE IdSpaceAssumption DEF TypeOK, PktIds, NoPacket, stopping, flags, members, delivery,
        starting, clients, thread
<1>1. ASSUME NEW c \in Clients,
             \/ StartFails(c) \/ Stop(c)
      PROVE  TypeOK'
  BY <1>1 DEF StartFails, Stop, Publishing
<1>2. ASSUME NEW c \in Clients, StartOpens(c)
      PROVE  TypeOK'
  BY <1>2 DEF StartOpens
<1>3. ASSUME NEW c \in Clients, StartReads(c)
      PROVE  TypeOK'
  BY <1>3 DEF StartReads, ClearStop, ThreadStarts, InLoop, Publishing
<1>4. ASSUME NEW c \in Clients, StartThrows(c)
      PROVE  TypeOK'
  BY <1>4 DEF StartThrows, ClearStop
<1>5. ASSUME NEW c \in Clients, SubscribeBody(c)
      PROVE  TypeOK'
  <2>1. m_PacketSubscribers' \in Seq(Subscribers)
    BY <1>5, SubscribeFacts DEF Walk
  <2>2. last' \in [Subscribers -> PktIds \cup {NoPacket}]
    BY <1>5, SubscribeFacts DEF Walk
  <2>3. call' \in [Clients -> Calls \cup {Idle}]
    BY <1>5 DEF SubscribeBody
  <2> QED
    BY <1>5, <2>1, <2>2, <2>3 DEF SubscribeBody
<1>6. ASSUME NEW c \in Clients, UnsubscribeBody(c)
      PROVE  TypeOK'
  <2>1. m_PacketSubscribers' \in Seq(Subscribers)
    BY <1>6, LeaveFacts DEF Walk
  <2> QED
    BY <1>6, <2>1 DEF UnsubscribeBody
<1>7. ASSUME NEW c \in Clients, NEW s \in Subscribers,
             NEW what \in {"subscribe", "unsubscribe"}, Call(c, what, s)
      PROVE  TypeOK'
  BY <1>7 DEF Call, Calls, Idle
<1>8. ASSUME NEW s \in Subscribers, Terminate(s)
      PROVE  TypeOK'
  BY <1>8 DEF Terminate, Publishing
<1>9. ASSUME NEW s \in Subscribers, ReadPacket(s)
      PROVE  TypeOK'
  BY <1>9 DEF ReadPacket, WokenByPop, NotifyOne, Publishing
<1>10. CASE \/ EnterLoop \/ ContinueLoop
  BY <1>10 DEF EnterLoop, ContinueLoop, Publishing
<1>11. CASE \/ LeaveLoop \/ ReadOther
  BY <1>11 DEF LeaveLoop, ReadOther, Publishing
<1>12. CASE \/ PublishCheck \/ OfferNext
  BY <1>12 DEF PublishCheck, OfferNext, Publishing
<1>13. CASE NewPacketWaits
  BY <1>13 DEF NewPacketWaits, Publishing
<1>14. CASE ReadFrame
  BY <1>14 DEF ReadFrame, Succ
<1>15. CASE PublishLock
  <2>1. m_PacketSubscribers' \in Seq(Subscribers)
    BY <1>15, LeaveFacts DEF Walk
  <2> QED
    BY <1>15, <2>1 DEF PublishLock, Publishing
<1>16. CASE PublishDone
  BY <1>16 DEF PublishDone, Publishing
<1>17. CASE PassTerminated
  <2>1. m_PacketSubscribers' \in Seq(Subscribers) /\ todo' \in Seq(Subscribers)
    BY <1>17 DEF PassTerminated
  <2> QED
    BY <1>17, <2>1 DEF PassTerminated
<1>18. CASE NewPacketDropped
  BY <1>18 DEF NewPacketDropped, Publishing, Walk
<1>19. CASE NewPacketPushed
  BY <1>19 DEF NewPacketPushed, Deliver, Publishing, Walk
<1>20. CASE PushResumes
  BY <1>20 DEF PushResumes, Deliver, Publishing, Walk
<1> QED BY <1>1, <1>2, <1>3, <1>4, <1>5, <1>6, <1>7, <1>8, <1>9, <1>10, <1>11,
           <1>12, <1>13, <1>14, <1>15, <1>16, <1>17, <1>18, <1>19, <1>20
        DEF SourceNext, ClientStep, ReaderStep

\* The walk over the list is kept by every step.
LEMMA WalkStep ==
  ASSUME TypeOK, TypeOK', Walk, SourceNext
  PROVE  Walk'
<1> USE DEF Walk, ListWalk, stopping, flags, members, delivery, starting, clients, thread
<1>1. ASSUME NEW c \in Clients,
             \/ StartOpens(c) \/ StartFails(c) \/ StartThrows(c) \/ Stop(c)
      PROVE  Walk'
  BY <1>1 DEF StartOpens, StartFails, StartThrows, Stop, IsRest, Publishing
<1>2. ASSUME NEW c \in Clients, StartReads(c)
      PROVE  Walk'
  BY <1>2 DEF StartReads, ThreadStarts, InLoop, Publishing, IsRest
<1>3. ASSUME NEW c \in Clients, SubscribeBody(c)
      PROVE  Walk'
  <2>1. todo' = << >> /\ reader' = reader /\ reader \notin Publishing
    BY <1>3 DEF SubscribeBody, LockIsFree
  <2>2. IsRest(todo', m_PacketSubscribers')
    BY <2>1, EmptyRest DEF TypeOK
  <2> QED
    BY <1>3, <2>1, <2>2, SubscribeFacts DEF IsRest, Publishing
<1>4. ASSUME NEW c \in Clients, UnsubscribeBody(c)
      PROVE  Walk'
  <2>1. todo' = << >> /\ reader' = reader /\ reader \notin Publishing
    BY <1>4 DEF UnsubscribeBody, LockIsFree
  <2>2. IsRest(todo', m_PacketSubscribers')
    BY <2>1, EmptyRest DEF TypeOK
  <2> QED
    BY <1>4, <2>1, <2>2, LeaveFacts DEF IsRest, Publishing
<1>5. ASSUME NEW c \in Clients, NEW s \in Subscribers,
             NEW what \in {"subscribe", "unsubscribe"}, Call(c, what, s)
      PROVE  Walk'
  BY <1>5 DEF Call, IsRest, Publishing
<1>6. ASSUME NEW s \in Subscribers, Terminate(s)
      PROVE  Walk'
  BY <1>6 DEF Terminate, IsRest, Publishing
<1>7. ASSUME NEW s \in Subscribers, ReadPacket(s)
      PROVE  Walk'
  BY <1>7 DEF ReadPacket, WokenByPop, NotifyOne, Publishing, IsRest
<1>8. CASE \/ EnterLoop \/ ContinueLoop \/ LeaveLoop \/ ReadFrame \/ ReadOther
          \/ PublishCheck \/ OfferNext \/ NewPacketWaits
  BY <1>8 DEF EnterLoop, ContinueLoop, LeaveLoop, ReadFrame, ReadOther, PublishCheck,
         OfferNext, NewPacketWaits, IsRest, Publishing
<1>9. CASE PublishLock
  <2>1. todo' = m_PacketSubscribers' /\ reader' = "deliver"
    BY <1>9 DEF PublishLock
  <2>2. IsRest(todo', m_PacketSubscribers')
    BY <2>1 DEF IsRest, TypeOK
  <2> QED
    BY <1>9, <2>1, <2>2, LeaveFacts DEF IsRest, Publishing
<1>10. CASE PublishDone
  <2>1. todo' = << >> /\ reader' = "test" /\ UNCHANGED m_PacketSubscribers
    BY <1>10 DEF PublishDone
  <2> QED
    BY <2>1, EmptyRest DEF TypeOK, IsRest
<1>11. CASE PassTerminated
  <2>1. /\ todo # << >> /\ todo' = Tail(todo) /\ reader' = "deliver"
        /\ m_PacketSubscribers' = IF OnlyOne THEN << >> ELSE m_PacketSubscribers
    BY <1>11 DEF PassTerminated
  <2>2. IsRest(todo', m_PacketSubscribers')
    <3>1. CASE OnlyOne
      BY <3>1, <2>1 DEF OnlyOne, IsRest, TypeOK
    <3>2. CASE ~OnlyOne
      BY <3>2, <2>1, VisitedOnce
    <3> QED
      BY <3>1, <3>2
  <2> QED
    BY <2>1, <2>2 DEF IsRest, Publishing
<1>12. CASE NewPacketDropped
  <2>1. /\ todo # << >> /\ todo' = Tail(todo) /\ reader' = "deliver"
        /\ UNCHANGED m_PacketSubscribers
    BY <1>12 DEF NewPacketDropped, Publishing
  <2>2. IsRest(todo', m_PacketSubscribers')
    BY <2>1, VisitedOnce
  <2> QED
    BY <2>1, <2>2 DEF IsRest, Publishing
<1>13. CASE NewPacketPushed
  <2>1. /\ todo # << >> /\ todo' = Tail(todo) /\ reader' = "deliver"
        /\ UNCHANGED m_PacketSubscribers
    BY <1>13 DEF NewPacketPushed, Deliver, Publishing
  <2>2. IsRest(todo', m_PacketSubscribers')
    BY <2>1, VisitedOnce
  <2> QED
    BY <2>1, <2>2 DEF IsRest, Publishing
<1>14. CASE PushResumes
  <2>1. /\ todo # << >> /\ todo' = Tail(todo) /\ reader' = "deliver"
        /\ UNCHANGED m_PacketSubscribers
    BY <1>14 DEF PushResumes, Deliver, Publishing
  <2>2. IsRest(todo', m_PacketSubscribers')
    BY <2>1, VisitedOnce
  <2> QED
    BY <2>1, <2>2 DEF IsRest, Publishing
<1> QED BY <1>1, <1>2, <1>3, <1>4, <1>5, <1>6, <1>7, <1>8, <1>9, <1>10, <1>11,
           <1>12, <1>13, <1>14
        DEF SourceNext, ClientStep, ReaderStep

\* No queue is overfilled, and the read thread woken finds room.
LEMMA RoomStep ==
  ASSUME TypeOK, TypeOK', Walk, Room, SourceNext
  PROVE  Room'
<1> USE CapAssumption DEF Room, stopping, flags, members, delivery, starting, clients, thread
<1>1. ASSUME NEW c \in Clients,
             \/ StartOpens(c) \/ StartFails(c) \/ StartThrows(c) \/ Stop(c)
             \/ SubscribeBody(c) \/ UnsubscribeBody(c)
      PROVE  Room'
  BY <1>1 DEF StartOpens, StartFails, StartThrows, Stop, SubscribeBody, UnsubscribeBody
<1>2. ASSUME NEW c \in Clients, StartReads(c)
      PROVE  Room'
  BY <1>2 DEF StartReads, ThreadStarts, InLoop, Publishing
<1>3. ASSUME NEW c \in Clients, NEW s \in Subscribers,
             NEW what \in {"subscribe", "unsubscribe"}, Call(c, what, s)
      PROVE  Room'
  BY <1>3 DEF Call
<1>4. ASSUME NEW s \in Subscribers, Terminate(s)
      PROVE  Room'
  BY <1>4 DEF Terminate
<1>5. ASSUME NEW s \in Subscribers, ReadPacket(s)
      PROVE  Room'
  <2>1. /\ m_packetQueue[s] # << >>
        /\ m_packetQueue' = [m_packetQueue EXCEPT ![s] = Tail(m_packetQueue[s])]
        /\ todo' = todo
    BY <1>5 DEF ReadPacket
  <2>2. /\ m_packetQueue[s] \in Seq(PktIds) /\ Len(m_packetQueue[s]) <= m_capacity
        /\ Len(m_packetQueue'[s]) = Len(m_packetQueue[s]) - 1
        /\ \A t \in Subscribers : t # s => m_packetQueue'[t] = m_packetQueue[t]
    BY <2>1 DEF TypeOK
  <2>3. Len(m_packetQueue'[s]) < m_capacity
    BY <2>1, <2>2 DEF m_capacity
  <2>4. \A t \in Subscribers : Len(m_packetQueue'[t]) <= m_capacity
    BY <2>2, <2>3 DEF m_capacity
  <2>5. reader \in {"waiting", "woken"} => Head(todo) \in Subscribers
    BY DEF Walk, TypeOK
  <2>6. CASE reader = "waiting" /\ Head(todo) = s
    <3>1. WokenByPop(m_packetQueue[s], {"reader"}) = {{"reader"}}
      BY <2>6 DEF WokenByPop, NotifyOne
    <3>2. reader' = "woken"
      BY <2>6, <3>1, <1>5 DEF ReadPacket
    <3> QED
      BY <3>2, <2>6, <2>1, <2>3, <2>4
  <2>7. CASE ~(reader = "waiting" /\ Head(todo) = s)
    <3>1. reader' = reader
      BY <2>7, <1>5 DEF ReadPacket, WokenByPop, NotifyOne
    <3> QED
      BY <3>1, <2>7, <2>1, <2>2, <2>3, <2>4, <2>5 DEF IsFull
  <2> QED
    BY <2>6, <2>7
<1>6. CASE \/ EnterLoop \/ ContinueLoop \/ LeaveLoop \/ ReadFrame \/ ReadOther
          \/ PublishCheck \/ PublishLock \/ PublishDone \/ PassTerminated
          \/ OfferNext \/ NewPacketDropped \/ NewPacketWaits
  BY <1>6 DEF EnterLoop, ContinueLoop, LeaveLoop, ReadFrame, ReadOther, PublishCheck,
         PublishLock, PublishDone, PassTerminated, OfferNext, NewPacketDropped,
         NewPacketWaits
<1>7. CASE NewPacketPushed
  <2>1. /\ todo # << >> /\ Head(todo) \in Subscribers
        /\ reader' = "deliver"
        /\ m_packetQueue' = [m_packetQueue EXCEPT
             ![Head(todo)] = Append(m_packetQueue[Head(todo)], m_lastPktId)]
    BY <1>7 DEF NewPacketPushed, Deliver, Walk, TypeOK
  <2>2. Len(m_packetQueue[Head(todo)]) < m_capacity
    BY <1>7, <2>1 DEF NewPacketPushed, IsFull, m_capacity, TypeOK
  <2>3. \A t \in Subscribers : Len(m_packetQueue'[t]) <= m_capacity
    BY <2>1, <2>2 DEF m_capacity, TypeOK
  <2> QED
    BY <2>1, <2>3
<1>8. CASE PushResumes
  <2>1. /\ todo # << >> /\ Head(todo) \in Subscribers
        /\ reader' = "deliver"
        /\ m_packetQueue' = [m_packetQueue EXCEPT
             ![Head(todo)] = Append(m_packetQueue[Head(todo)], m_lastPktId)]
    BY <1>8 DEF PushResumes, Deliver, Walk, TypeOK
  <2>2. Len(m_packetQueue[Head(todo)]) < m_capacity
    BY <1>8, <2>1 DEF PushResumes, IsFull, m_capacity, TypeOK
  <2>3. \A t \in Subscribers : Len(m_packetQueue'[t]) <= m_capacity
    BY <2>1, <2>2 DEF m_capacity, TypeOK
  <2> QED
    BY <2>1, <2>3
<1> QED BY <1>1, <1>2, <1>3, <1>4, <1>5, <1>6, <1>7, <1>8
        DEF SourceNext, ClientStep, ReaderStep

\* A Start within the loop leaves its mark, and there is no packet after it.
LEMMA FlagsStep ==
  ASSUME TypeOK, Walk, Flags, SourceNext
  PROVE  Flags'
<1> USE IdSpaceAssumption DEF Flags, Publishing, InLoop, stopping, flags, members, delivery,
        starting, clients, thread
<1>1. ASSUME NEW c \in Clients,
             \/ StartFails(c) \/ Stop(c) \/ UnsubscribeBody(c)
      PROVE  Flags'
  BY <1>1 DEF StartFails, Stop, UnsubscribeBody
<1>2. ASSUME NEW c \in Clients, StartOpens(c)
      PROVE  Flags'
  BY <1>2 DEF StartOpens, TypeOK, NoPacket, PktIds
<1>3. ASSUME NEW c \in Clients, StartReads(c)
      PROVE  Flags'
  BY <1>3 DEF StartReads, ClearStop, ThreadStarts
<1>4. ASSUME NEW c \in Clients, StartThrows(c)
      PROVE  Flags'
  BY <1>4 DEF StartThrows
<1>5. ASSUME NEW c \in Clients, SubscribeBody(c)
      PROVE  Flags'
  BY <1>5 DEF SubscribeBody, TypeOK
<1>6. ASSUME NEW c \in Clients, NEW s \in Subscribers,
             NEW what \in {"subscribe", "unsubscribe"}, Call(c, what, s)
      PROVE  Flags'
  BY <1>6 DEF Call
<1>7. ASSUME NEW s \in Subscribers, Terminate(s)
      PROVE  Flags'
  BY <1>7 DEF Terminate
<1>8. ASSUME NEW s \in Subscribers, ReadPacket(s)
      PROVE  Flags'
  BY <1>8 DEF ReadPacket, WokenByPop, NotifyOne
<1>9. CASE \/ EnterLoop \/ ContinueLoop \/ LeaveLoop \/ ReadFrame \/ ReadOther
          \/ PublishCheck \/ PublishLock \/ PublishDone \/ PassTerminated
          \/ OfferNext \/ NewPacketDropped \/ NewPacketWaits
  BY <1>9 DEF EnterLoop, ContinueLoop, LeaveLoop, ReadFrame, ReadOther, PublishCheck,
         PublishLock, PublishDone, PassTerminated, OfferNext, NewPacketDropped,
         NewPacketWaits
<1>10. CASE NewPacketPushed
  BY <1>10 DEF NewPacketPushed, Deliver
<1>11. CASE PushResumes
  BY <1>11 DEF PushResumes, Deliver
<1> QED BY <1>1, <1>2, <1>3, <1>4, <1>5, <1>6, <1>7, <1>8, <1>9, <1>10, <1>11
        DEF SourceNext, ClientStep, ReaderStep

\* What is in a sequence of subscribers is a subscriber.
LEMMA Members ==
  ASSUME TypeOK
  PROVE  Listed \subseteq Subscribers /\ Todo \subseteq Subscribers
BY DEF TypeOK, Listed, Todo

\* No subscriber on the list misses a packet, unless a Stop was lost.
LEMMA StepStep ==
  ASSUME TypeOK, TypeOK', Walk, Flags, Step, SourceNext
  PROVE  Step'
<1> USE IdSpaceAssumption DEF Step, Current, Due, Halting, stopping, flags, members, delivery,
        starting, clients, thread
<1>1. ASSUME NEW c \in Clients,
             \/ StartOpens(c) \/ StartFails(c) \/ Stop(c)
      PROVE  Step'
  BY <1>1 DEF StartOpens, StartFails, Stop, Publishing, Listed, Todo
<1>2. ASSUME NEW c \in Clients, StartReads(c)
      PROVE  Step'
  <2>1. UNCHANGED <<Listed, Todo, last, m_isInitialized, m_isStarted, m_lastPktId>>
    BY <1>2 DEF StartReads, Listed, Todo
  <2>2. reader' = reader \/ reader' \in {"enter", "crashed"}
    BY <1>2 DEF StartReads, ThreadStarts
  <2>3. ~stopLost' => ~stopLost /\ (m_needToStop => reader = "none")
    BY <1>2 DEF StartReads, ClearStop, TypeOK
  <2>4. reader = "none" => reader' \in {"none", "enter", "crashed"}
    BY <2>2
  <2> QED
    BY <2>1, <2>2, <2>3, <2>4 DEF Publishing
<1>3. ASSUME NEW c \in Clients, StartThrows(c)
      PROVE  Step'
  BY <1>3 DEF StartThrows, ClearStop, InLoop, Publishing, Listed, Todo
<1>4. ASSUME NEW c \in Clients, SubscribeBody(c)
      PROVE  Step'
  <2>1. /\ reader \notin Publishing
        /\ UNCHANGED <<flags, reader, m_isInitialized, stopLost, m_lastPktId>>
    BY <1>4 DEF SubscribeBody, LockIsFree
  <2>2. \A t \in Listed' :
          (t \in Listed /\ last'[t] = last[t]) \/ last'[t] = NoPacket
    <3>1. CASE UNCHANGED last /\ Listed' \subseteq Listed
      BY <3>1
    <3>2. ASSUME NEW s \in Subscribers, last' = [last EXCEPT ![s] = NoPacket],
                 Listed' \subseteq Listed \cup {s}
          PROVE  \A t \in Listed' :
                   (t \in Listed /\ last'[t] = last[t]) \/ last'[t] = NoPacket
      BY <3>2, Members DEF TypeOK
    <3> QED
      BY <3>1, <3>2, <1>4, SubscribeFacts DEF Walk
  <2> QED
    BY <2>1, <2>2 DEF Publishing
<1>5. ASSUME NEW c \in Clients, UnsubscribeBody(c)
      PROVE  Step'
  <2>1. Listed' \subseteq Listed
    BY <1>5, LeaveFacts DEF Walk
  <2> QED
    BY <1>5, <2>1 DEF UnsubscribeBody, LockIsFree, Publishing
<1>6. ASSUME NEW c \in Clients, NEW s \in Subscribers,
             NEW what \in {"subscribe", "unsubscribe"}, Call(c, what, s)
      PROVE  Step'
  BY <1>6 DEF Call, Publishing, Listed, Todo
<1>7. ASSUME NEW s \in Subscribers, Terminate(s)
      PROVE  Step'
  <2>1. \A t \in Subscribers : m_isInitialized'[t] => m_isInitialized[t]
    BY <1>7 DEF Terminate, TypeOK
  <2>2. UNCHANGED <<Listed, Todo>>
    BY <1>7 DEF Terminate, Listed, Todo
  <2> QED
    BY <1>7, <2>1, <2>2, Members DEF Terminate
<1>8. ASSUME NEW s \in Subscribers, ReadPacket(s)
      PROVE  Step'
  <2>1. /\ UNCHANGED <<flags, m_isInitialized, last, stopLost, m_lastPktId, Listed, Todo>>
        /\ reader' = reader \/ {reader, reader'} \subseteq Publishing
    BY <1>8 DEF ReadPacket, WokenByPop, NotifyOne, Publishing, Listed, Todo
  <2> QED
    BY <2>1 DEF Publishing
<1>9. CASE \/ ContinueLoop \/ LeaveLoop \/ ReadOther \/ PublishCheck \/ OfferNext
          \/ NewPacketWaits
  BY <1>9 DEF ContinueLoop, LeaveLoop, ReadOther, PublishCheck, OfferNext,
         NewPacketWaits, Publishing, Listed, Todo
<1>10. CASE EnterLoop
  BY <1>10, Members DEF EnterLoop, Flags, Publishing, Listed, Todo
<1>11. CASE ReadFrame
  BY <1>11 DEF ReadFrame, Publishing, TypeOK, Listed, Todo
<1>12. CASE PublishLock
  <2>1. /\ reader = "lock" /\ reader' = "deliver" /\ Todo' = Listed'
        /\ UNCHANGED <<m_isInitialized, last, stopLost, m_lastPktId>>
    BY <1>12 DEF PublishLock, Todo, Listed
  <2>2. Listed' \subseteq Listed /\ \A s \in Listed' : m_isInitialized[s]
    BY <1>12, LeaveFacts DEF Walk
  <2> QED
    BY <2>1, <2>2 DEF Publishing
<1>13. CASE PublishDone
  <2>1. /\ reader = "deliver" /\ reader' = "test"
        /\ UNCHANGED <<flags, m_isInitialized, last, stopLost, m_lastPktId, Listed>>
        /\ todo = << >> \/ m_needToStop
    BY <1>13 DEF PublishDone, Listed
  <2>2. todo = << >> => Todo = {}
    BY DEF Todo
  <2> QED
    BY <2>1, <2>2 DEF Publishing
<1>14. CASE PassTerminated
  <2>1. /\ todo # << >> /\ todo' = Tail(todo) /\ reader \in Publishing
        /\ reader' = "deliver" /\ UNCHANGED <<stopLost, m_lastPktId>>
        /\ ~m_isInitialized[Head(todo)] /\ Listed' \subseteq Listed
        /\ UNCHANGED <<last, m_isInitialized>>
    BY <1>14 DEF PassTerminated, Publishing, Walk, Listed
  <2> QED
    BY <2>1, VisitedOnce DEF Publishing
<1>15. CASE NewPacketDropped
  <2>1. /\ todo # << >> /\ todo' = Tail(todo) /\ reader \in Publishing
        /\ reader' = "deliver" /\ UNCHANGED <<stopLost, m_lastPktId>>
        /\ ~m_isInitialized[Head(todo)] /\ Listed' \subseteq Listed
        /\ UNCHANGED <<last, m_isInitialized>>
    BY <1>15 DEF NewPacketDropped, Publishing, Walk, Listed
  <2> QED
    BY <2>1, VisitedOnce DEF Publishing
<1>16. CASE NewPacketPushed
  <2>1. /\ todo # << >> /\ todo' = Tail(todo) /\ reader \in Publishing
        /\ reader' = "deliver" /\ UNCHANGED <<stopLost, m_lastPktId>>
        /\ last' = [last EXCEPT ![Head(todo)] = m_lastPktId]
        /\ UNCHANGED <<Listed, m_isInitialized>>
    BY <1>16 DEF NewPacketPushed, Deliver, Publishing, Walk, Listed
  <2>2. \A t \in Subscribers : last'[t] = IF t = Head(todo) THEN m_lastPktId ELSE last[t]
    BY <2>1 DEF TypeOK
  <2> QED
    BY <2>1, <2>2, Members, VisitedOnce DEF Publishing
<1>17. CASE PushResumes
  <2>1. /\ todo # << >> /\ todo' = Tail(todo) /\ reader \in Publishing
        /\ reader' = "deliver" /\ UNCHANGED <<stopLost, m_lastPktId>>
        /\ last' = [last EXCEPT ![Head(todo)] = m_lastPktId]
        /\ UNCHANGED <<Listed, m_isInitialized>>
    BY <1>17 DEF PushResumes, Deliver, Publishing, Walk, Listed
  <2>2. \A t \in Subscribers : last'[t] = IF t = Head(todo) THEN m_lastPktId ELSE last[t]
    BY <2>1 DEF TypeOK
  <2> QED
    BY <2>1, <2>2, Members, VisitedOnce DEF Publishing
<1> QED BY <1>1, <1>2, <1>3, <1>4, <1>5, <1>6, <1>7, <1>8, <1>9, <1>10, <1>11,
           <1>12, <1>13, <1>14, <1>15, <1>16, <1>17
        DEF SourceNext, ClientStep, ReaderStep

\* The invariant holds at first, and every step keeps it.
LEMMA Initial == SourceInit => IInv
<1> SUFFICES ASSUME SourceInit
             PROVE  IInv
  OBVIOUS
<1> USE DEF SourceInit
<1>1. TypeOK
  <2>1. << >> \in Seq(Subscribers) /\ << >> \in Seq(PktIds)
    OBVIOUS
  <2>2. 0 \in PktIds
    BY IdSpaceAssumption DEF PktIds
  <2> QED
    BY <2>1, <2>2 DEF TypeOK, Publishing
<1>2. Walk
  <2>1. IsRest(todo, m_PacketSubscribers)
    <3>1. << >> \in Seq(Subscribers)
      OBVIOUS
    <3> QED
      BY <3>1, EmptyRest
  <2>2. m_PacketSubscribers = << >> /\ todo = << >> /\ reader = "none"
    OBVIOUS
  <2> QED
    BY <2>1, <2>2 DEF Walk, ListWalk
<1>3. Room
  BY CapAssumption DEF Room, m_capacity
<1>4. Flags
  <2>1. /\ reader = "none" /\ mutedAt = NoPacket
        /\ \A t \in Subscribers : last[t] = NoPacket
    OBVIOUS
  <2> QED
    BY <2>1 DEF Flags, InLoop, Publishing
<1>5. Step
  BY DEF Step, Publishing
<1> QED
  BY <1>1, <1>2, <1>3, <1>4, <1>5 DEF IInv

\* One step per conjunct of the invariant.
LEMMA Inductive == IInv /\ [SourceNext]_sourceVars => IInv'
<1> SUFFICES ASSUME IInv, [SourceNext]_sourceVars
             PROVE  IInv'
  OBVIOUS
<1> USE DEF IInv
<1>1. CASE SourceNext
  <2>1. TypeOK'
    BY <1>1, TypeStep
  <2>2. Walk'
    BY <1>1, <2>1, WalkStep
  <2>3. Room'
    BY <1>1, <2>1, RoomStep
  <2>4. Flags'
    BY <1>1, FlagsStep
  <2>5. Step'
    BY <1>1, <2>1, StepStep
  <2> QED
    BY <2>1, <2>2, <2>3, <2>4, <2>5
<1>2. CASE UNCHANGED sourceVars
  <2> USE <1>2 DEF sourceVars, stopping, flags, members, delivery, starting, clients, thread
  <2>1. TypeOK'
    BY DEF TypeOK
  <2>2. Walk'
    BY DEF Walk, ListWalk, IsRest
  <2>3. Room'
    BY DEF Room
  <2>4. Flags'
    BY DEF Flags, InLoop
  <2>5. Step'
    BY DEF Step, Halting, Current, Due, Listed, Todo
  <2> QED
    BY <2>1, <2>2, <2>3, <2>4, <2>5
<1> QED
  BY <1>1, <1>2

\* The inductive invariant.
THEOREM Invariant == SourceSpec => []IInv
BY Initial, Inductive, PTL DEF SourceSpec

----------------------------------------------------------------------------
\* The types, for every number of clients and subscribers.
THEOREM TypeCorrect == SourceSpec => []TypeOK
BY Invariant, PTL DEF IInv

\* publishToAll never walks into a list that was changed under it.
THEOREM WalkIsSafe == SourceSpec => []ListWalk
BY Invariant, PTL DEF IInv, Walk

\* The read thread waits only where a ReadPacket of a listed subscriber wakes it.
THEOREM WaitsAreDue == SourceSpec => []WaitsForFullQueue
<1>1. IInv => WaitsForFullQueue
  <2> SUFFICES ASSUME IInv
               PROVE  WaitsForFullQueue
    OBVIOUS
  <2>1. reader = "waiting" =>
          \E i \in DOMAIN m_PacketSubscribers : m_PacketSubscribers[i] = Head(todo)
    BY TailRest DEF IInv, Walk, ListWalk, TypeOK
  <2> QED
    BY <2>1 DEF WaitsForFullQueue, IInv, Room
<1> QED
  BY <1>1, Invariant, PTL

\* Between two packets nobody lags behind.
THEOREM NobodyLags == SourceSpec => []InLockStep
<1>1. IInv => InLockStep
  <2> SUFFICES ASSUME IInv, reader \in {"test", "reading"}, ~m_needToStop,
                      mutedAt = NoPacket, ~stopLost,
                      NEW i \in DOMAIN m_PacketSubscribers,
                      m_isInitialized[m_PacketSubscribers[i]]
               PROVE  last[m_PacketSubscribers[i]] \in {NoPacket, m_lastPktId}
    BY DEF InLockStep
  <2>1. ~Halting
    BY DEF IInv, Flags, InLoop, Halting, TypeOK
  <2>2. Current(m_PacketSubscribers[i])
    BY <2>1 DEF IInv, Step, Listed
  <2> QED
    BY <2>2 DEF Current
<1> QED
  BY <1>1, Invariant, PTL

----------------------------------------------------------------------------
(* What a step may never do.                                                *)

\* A queue grows only by the packet in hand, for the subscriber that is next.
LEMMA GainIsDeliver ==
  ASSUME IInv, SourceNext, NEW t \in Subscribers, Gains(t)
  PROVE  /\ reader \in Publishing /\ t \in Todo /\ t \in Listed
         /\ last'[t] = m_lastPktId
<1> USE DEF Gains
<1>1. ASSUME NEW s \in Subscribers, ReadPacket(s)
      PROVE  FALSE
  <2>1. /\ m_packetQueue' = [m_packetQueue EXCEPT ![s] = Tail(m_packetQueue[s])]
        /\ m_packetQueue[s] # << >>
    BY <1>1 DEF ReadPacket
  <2>2. /\ m_packetQueue[s] \in Seq(PktIds)
        /\ m_packetQueue'[t] = IF t = s THEN Tail(m_packetQueue[s]) ELSE m_packetQueue[t]
    BY <2>1 DEF IInv, TypeOK
  <2>3. Len(m_packetQueue[t]) \in Nat
    BY DEF IInv, TypeOK
  <2>4. Len(Tail(m_packetQueue[s])) = Len(m_packetQueue[s]) - 1
    BY <2>1, <2>2
  <2> QED
    BY <2>2, <2>3, <2>4
<1>2. UNCHANGED m_packetQueue => FALSE
  <2>1. Len(m_packetQueue[t]) \in Nat
    BY DEF IInv, TypeOK
  <2> QED
    BY <2>1
<1>3. ASSUME NEW c \in Clients, ClientStep(c)
      PROVE  UNCHANGED m_packetQueue
  BY <1>3 DEF ClientStep, StartOpens, StartReads, StartFails, StartThrows, Stop, Call,
              SubscribeBody, UnsubscribeBody, delivery
<1>4. ASSUME NEW s \in Subscribers, Terminate(s)
      PROVE  UNCHANGED m_packetQueue
  BY <1>4 DEF Terminate, delivery
<1>5. CASE \/ EnterLoop \/ ContinueLoop \/ LeaveLoop \/ ReadFrame \/ ReadOther
           \/ PublishCheck \/ PublishLock \/ PublishDone \/ PassTerminated
           \/ OfferNext \/ NewPacketDropped \/ NewPacketWaits
  <2>1. UNCHANGED m_packetQueue
    BY <1>5 DEF EnterLoop, ContinueLoop, LeaveLoop, ReadFrame, ReadOther, PublishCheck,
                PublishLock, PublishDone, PassTerminated, OfferNext, NewPacketDropped,
                NewPacketWaits, delivery
  <2> QED
    BY <2>1, <1>2
<1>6. CASE NewPacketPushed \/ PushResumes
  <2>1. reader \in Publishing /\ Deliver /\ todo # << >> /\ todo' = Tail(todo)
    BY <1>6 DEF NewPacketPushed, PushResumes, Deliver, IInv, Walk, Publishing
  <2>2. Head(todo) \in Subscribers /\ Head(todo) \in Todo /\ Head(todo) \in Listed
    BY <2>1, VisitedOnce DEF IInv
  <2>3. t = Head(todo)
    <3>1. t # Head(todo) => m_packetQueue'[t] = m_packetQueue[t]
      BY <2>1, <2>2 DEF Deliver, IInv, TypeOK
    <3>2. Len(m_packetQueue[t]) \in Nat
      BY DEF IInv, TypeOK
    <3> QED
      BY <3>1, <3>2
  <2>4. last'[t] = m_lastPktId
    BY <2>1, <2>2, <2>3 DEF Deliver, IInv, TypeOK
  <2> QED
    BY <2>1, <2>2, <2>3, <2>4
<1> QED
  BY <1>1, <1>2, <1>3, <1>4, <1>5, <1>6 DEF SourceNext, ReaderStep

\* An Unsubscribe that has returned holds.
THEOREM OnlyListed == SourceSpec => OnlyListedGain
<1>1. ASSUME IInv, [SourceNext]_sourceVars
      PROVE  [\A s \in Subscribers :
                Gains(s) => \E i \in DOMAIN m_PacketSubscribers :
                              m_PacketSubscribers[i] = s]_sourceVars
  BY <1>1, GainIsDeliver DEF Listed
<1> QED
  BY <1>1, Invariant, PTL DEF SourceSpec, OnlyListedGain

\* Every packet comes, in order and once, unless a Stop was lost.
THEOREM NoPacketIsMissed == SourceSpec => NoGap
<1>1. ASSUME IInv, [SourceNext]_sourceVars
      PROVE  [\A s \in Subscribers :
                Gains(s) => \/ last[s] = NoPacket
                            \/ last'[s] = Succ(last[s])
                            \/ stopLost]_sourceVars
  <2> SUFFICES ASSUME SourceNext, NEW s \in Subscribers, Gains(s), ~stopLost
               PROVE  last[s] = NoPacket \/ last'[s] = Succ(last[s])
    BY <1>1
  <2>1. reader \in Publishing /\ s \in Todo /\ last'[s] = m_lastPktId
    BY <1>1, GainIsDeliver
  <2>2. Due(s)
    BY <1>1, <2>1 DEF IInv, Step
  <2> QED
    BY <2>1, <2>2 DEF Due
<1> QED
  BY <1>1, Invariant, PTL DEF SourceSpec, NoGap

\* After another Start under the read thread at most the packet in hand comes.
THEOREM NothingAfterRestart == SourceSpec => RestartMutes
<1>1. ASSUME IInv, [SourceNext]_sourceVars
      PROVE  [\A s \in Subscribers :
                mutedAt # NoPacket /\ Gains(s) => last'[s] = mutedAt]_sourceVars
  <2> SUFFICES ASSUME SourceNext, NEW s \in Subscribers, Gains(s), mutedAt # NoPacket
               PROVE  last'[s] = mutedAt
    BY <1>1
  <2>1. reader \in Publishing /\ last'[s] = m_lastPktId
    BY <1>1, GainIsDeliver
  <2> QED
    BY <1>1, <2>1 DEF IInv, Flags
<1> QED
  BY <1>1, Invariant, PTL DEF SourceSpec, RestartMutes

\* After Stop at most the packet in hand comes, even to those whose Unsubscribe
\* returned at once because it found m_needToStop set.
THEOREM NothingAfterStop == SourceSpec => StopMutes
<1>1. ASSUME IInv, [SourceNext]_sourceVars
      PROVE  [\A s \in Subscribers :
                m_needToStop /\ Gains(s) => last'[s] = stoppedAt]_sourceVars
  <2> SUFFICES ASSUME SourceNext, NEW s \in Subscribers, Gains(s), m_needToStop
               PROVE  last'[s] = stoppedAt
    BY <1>1
  <2>1. reader \in Publishing /\ last'[s] = m_lastPktId
    BY <1>1, GainIsDeliver
  <2> QED
    BY <1>1, <2>1 DEF IInv, Flags
<1> QED
  BY <1>1, Invariant, PTL DEF SourceSpec, StopMutes

\* Nobody is dropped from the list but by an Unsubscribe of his own, or because he
\* was terminated: not by the clean-up in publishToAll, not by somebody else's
\* Subscribe or Unsubscribe, not by a failure to deliver.
NobodyIsDropped ==
  [][\A s \in Listed :
       m_isInitialized[s] =>
         \/ s \in Listed'
         \/ \E c \in Clients :
              call[c] = [op |-> "unsubscribe", sub |-> s] /\ UnsubscribeBody(c)]_sourceVars

\* What a step leaves on the list.
LEMMA StaysListed ==
  ASSUME IInv, SourceNext, NEW s \in Listed, m_isInitialized[s],
         \A c \in Clients :
           ~(call[c] = [op |-> "unsubscribe", sub |-> s] /\ UnsubscribeBody(c))
  PROVE  s \in Listed'
<1> USE DEF members
<1>1. CASE UNCHANGED m_PacketSubscribers
  BY <1>1 DEF Listed
<1>2. ASSUME NEW c \in Clients, SubscribeBody(c)
      PROVE  s \in Listed'
  <2>1. PICK live \in removeTerminated(m_PacketSubscribers) :
          \/ m_PacketSubscribers' = live
          \/ m_PacketSubscribers' = Append(live, call[c].sub)
    BY <1>2 DEF SubscribeBody
  <2>2. PICK i \in DOMAIN live : live[i] = s
    BY RestKeeps DEF IInv
  <2>3. live \in Seq(Subscribers)
    BY RestFacts DEF IInv, Walk
  <2>4. m_PacketSubscribers' = Append(live, call[c].sub) =>
          i \in DOMAIN m_PacketSubscribers' /\ m_PacketSubscribers'[i] = s
    BY <2>2, <2>3
  <2> QED
    BY <2>1, <2>2, <2>4 DEF Listed
<1>3. ASSUME NEW c \in Clients, UnsubscribeBody(c)
      PROVE  s \in Listed'
  <2>1. call[c] \in Calls /\ call[c].op = "unsubscribe"
    BY <1>3 DEF UnsubscribeBody, IInv, TypeOK, Calls, Idle
  <2>2. call[c] = [op |-> "unsubscribe", sub |-> call[c].sub] /\ call[c].sub \in Subscribers
    BY <2>1 DEF Calls
  <2>3. m_PacketSubscribers' \in Without(call[c].sub) /\ call[c].sub # s
    BY <1>3, <2>2 DEF UnsubscribeBody
  <2>4. \E i \in DOMAIN m_PacketSubscribers' : m_PacketSubscribers'[i] = s
    BY <2>2, <2>3, RestKeeps DEF IInv
  <2> QED
    BY <2>4 DEF Listed
<1>4. CASE PublishLock
  <2>1. m_PacketSubscribers' \in removeTerminated(m_PacketSubscribers)
    BY <1>4 DEF PublishLock
  <2>2. \E i \in DOMAIN m_PacketSubscribers' : m_PacketSubscribers'[i] = s
    BY <2>1, RestKeeps DEF IInv
  <2> QED
    BY <2>2 DEF Listed
<1>5. CASE PassTerminated
  <2>1. CASE ~OnlyOne
    BY <1>5, <2>1 DEF PassTerminated, Listed
  <2>2. CASE OnlyOne
    <3>1. PICK i \in DOMAIN m_PacketSubscribers : m_PacketSubscribers[i] = Head(todo)
      BY <1>5, VisitedOnce DEF PassTerminated, IInv, Listed
    <3>2. PICK j \in DOMAIN m_PacketSubscribers : m_PacketSubscribers[j] = s
      BY DEF Listed
    <3>3. DOMAIN m_PacketSubscribers = {1}
      BY <2>2 DEF OnlyOne, IInv, TypeOK
    <3> QED
      BY <1>5, <3>1, <3>2, <3>3 DEF PassTerminated
  <2> QED
    BY <2>1, <2>2
<1>6. ASSUME NEW c \in Clients, NEW t \in Subscribers, NEW what \in {"subscribe", "unsubscribe"},
             StartOpens(c) \/ StartReads(c) \/ StartFails(c) \/ StartThrows(c) \/ Stop(c)
               \/ Call(c, what, t)
      PROVE  UNCHANGED m_PacketSubscribers
  BY <1>6 DEF StartOpens, StartReads, StartFails, StartThrows, Stop, Call
<1>7. ASSUME NEW t \in Subscribers, Terminate(t) \/ ReadPacket(t)
      PROVE  UNCHANGED m_PacketSubscribers
  BY <1>7 DEF Terminate, ReadPacket
<1>8. CASE \/ EnterLoop \/ ContinueLoop \/ LeaveLoop \/ ReadFrame \/ ReadOther
           \/ PublishCheck \/ PublishDone \/ OfferNext
           \/ NewPacketDropped \/ NewPacketPushed \/ NewPacketWaits \/ PushResumes
  <2>1. UNCHANGED m_PacketSubscribers
    BY <1>8 DEF EnterLoop, ContinueLoop, LeaveLoop, ReadFrame, ReadOther, PublishCheck,
                PublishDone, OfferNext, NewPacketDropped, NewPacketPushed,
                NewPacketWaits, PushResumes, Deliver
  <2> QED
    BY <1>1, <2>1
<1>9. s \in Subscribers
  BY Members DEF IInv
<1>10. ASSUME NEW c \in Clients, ClientStep(c)
       PROVE  s \in Listed'
  BY <1>1, <1>2, <1>3, <1>6, <1>9, <1>10 DEF ClientStep
<1> QED
  BY <1>1, <1>4, <1>5, <1>7, <1>8, <1>10 DEF SourceNext, ReaderStep

\* Only the terminated and those who asked for it leave the list.
THEOREM ListIsKept == SourceSpec => NobodyIsDropped
<1>1. ASSUME IInv, [SourceNext]_sourceVars
      PROVE  [\A s \in Listed :
                m_isInitialized[s] =>
                  \/ s \in Listed'
                  \/ \E c \in Clients :
                       call[c] = [op |-> "unsubscribe", sub |-> s]
                         /\ UnsubscribeBody(c)]_sourceVars
  BY <1>1, StaysListed
<1> QED
  BY <1>1, Invariant, PTL DEF SourceSpec, NobodyIsDropped

----------------------------------------------------------------------------
(* The source implements Broadcast.                                         *)

\* Whoever leaves the list, the promise allows it.
LEMMA LeaveRefines ==
  ASSUME TypeOK, UNCHANGED <<m_lastPktId, last, m_packetQueue, stopLost>>,
         Listed' \subseteq Listed
  PROVE  Promise!Next
<1>1. Promise!Regroup(Listed \ Listed', {})
  <2>1. Listed' = (Listed \ (Listed \ Listed')) \cup {}
    OBVIOUS
  <2>2. last' = [s \in Subscribers |-> IF s \in {} THEN NoPacket ELSE last[s]]
    BY DEF TypeOK
  <2> QED
    BY <2>1, <2>2 DEF Promise!Regroup
<1>2. Listed \ Listed' \in SUBSET Listed
  OBVIOUS
<1> QED
  BY <1>1, <1>2 DEF Promise!Next

\* A packet put into a queue is one the promise gives.
LEMMA DeliverRefines ==
  ASSUME IInv, Deliver, reader \in Publishing, todo # << >>,
         Len(m_packetQueue[Head(todo)]) < m_capacity
  PROVE  Promise!Next
<1> DEFINE s == Head(todo)
<1>1. s \in Subscribers /\ s \in Todo /\ s \in Listed
  BY VisitedOnce DEF IInv, Deliver
<1>2. last[s] = NoPacket \/ m_lastPktId = Promise!After(last[s]) \/ stopLost
  BY <1>1 DEF IInv, Step, Due, Succ, Promise!After, TypeOK
<1>3. /\ m_packetQueue' = [m_packetQueue EXCEPT ![s] = Append(m_packetQueue[s], m_lastPktId)]
      /\ last' = [last EXCEPT ![s] = m_lastPktId]
      /\ UNCHANGED <<m_lastPktId, Listed, stopLost>>
  BY DEF Deliver, members, clients, starting, Listed
<1>4. Promise!Give(s)
  BY <1>1, <1>2, <1>3 DEF Promise!Give
<1> QED
  BY <1>1, <1>4 DEF Promise!Next

\* Every step of the source is one of the promise, or none.
LEMMA StepRefines ==
  ASSUME IInv, SourceNext
  PROVE  [Promise!Next]_Promise!broadcastVars
<1> USE DEF stopping, flags, members, delivery, starting, clients, thread
<1>1. ASSUME NEW c \in Clients,
             \/ StartOpens(c) \/ StartFails(c) \/ Stop(c)
      PROVE  [Promise!Next]_Promise!broadcastVars
  <2>1. UNCHANGED <<m_lastPktId, m_PacketSubscribers, last, m_packetQueue, stopLost>>
    BY <1>1 DEF StartOpens, StartFails, Stop
  <2> QED
    BY <2>1 DEF Listed, Promise!broadcastVars
<1>2. ASSUME NEW c \in Clients, StartReads(c)
      PROVE  [Promise!Next]_Promise!broadcastVars
  <2>1. /\ UNCHANGED <<m_lastPktId, m_PacketSubscribers, last, m_packetQueue>>
        /\ stopLost' = stopLost \/ stopLost' = TRUE
    BY <1>2 DEF StartReads, ClearStop, IInv, TypeOK
  <2> QED
    BY <2>1 DEF Listed, Promise!broadcastVars, Promise!Next, Promise!Lapse
<1>3. ASSUME NEW c \in Clients, StartThrows(c)
      PROVE  [Promise!Next]_Promise!broadcastVars
  <2>1. /\ UNCHANGED <<m_lastPktId, m_PacketSubscribers, last, m_packetQueue>>
        /\ stopLost' = stopLost \/ stopLost' = TRUE
    BY <1>3 DEF StartThrows, ClearStop, IInv, TypeOK
  <2> QED
    BY <2>1 DEF Listed, Promise!broadcastVars, Promise!Next, Promise!Lapse
<1>4. ASSUME NEW c \in Clients, SubscribeBody(c)
      PROVE  [Promise!Next]_Promise!broadcastVars
  <2>1. UNCHANGED <<m_lastPktId, m_packetQueue, stopLost>>
    BY <1>4 DEF SubscribeBody
  <2>2. CASE UNCHANGED last /\ Listed' \subseteq Listed
    BY <2>1, <2>2, LeaveRefines DEF IInv
  <2>3. ASSUME NEW s \in Subscribers, last' = [last EXCEPT ![s] = NoPacket],
               s \in Listed', Listed' \subseteq Listed \cup {s}
        PROVE  Promise!Next
    <3>1. Listed' = (Listed \ (Listed \ Listed')) \cup {s}
      BY <2>3
    <3>2. last' = [t \in Subscribers |-> IF t \in {s} THEN NoPacket ELSE last[t]]
      BY <2>3 DEF IInv, TypeOK
    <3>3. Promise!Regroup(Listed \ Listed', {s})
      BY <3>1, <3>2, <2>1 DEF Promise!Regroup
    <3>4. Listed \ Listed' \in SUBSET Listed /\ {s} \in {{}} \cup {{t} : t \in Subscribers}
      OBVIOUS
    <3> QED
      BY <3>3, <3>4 DEF Promise!Next
  <2> QED
    BY <2>2, <2>3, <1>4, SubscribeFacts DEF IInv, Walk
<1>5. ASSUME NEW c \in Clients, UnsubscribeBody(c)
      PROVE  [Promise!Next]_Promise!broadcastVars
  <2>1. UNCHANGED <<m_lastPktId, last, m_packetQueue, stopLost>>
    BY <1>5 DEF UnsubscribeBody
  <2>2. Listed' \subseteq Listed
    BY <1>5, LeaveFacts DEF IInv, Walk
  <2> QED
    BY <2>1, <2>2, LeaveRefines DEF IInv
<1>6. ASSUME NEW c \in Clients, NEW s \in Subscribers,
             NEW what \in {"subscribe", "unsubscribe"}, Call(c, what, s)
      PROVE  [Promise!Next]_Promise!broadcastVars
  <2>1. UNCHANGED <<m_lastPktId, m_PacketSubscribers, last, m_packetQueue, stopLost>>
    BY <1>6 DEF Call
  <2> QED
    BY <2>1 DEF Listed, Promise!broadcastVars
<1>7. ASSUME NEW s \in Subscribers, Terminate(s)
      PROVE  [Promise!Next]_Promise!broadcastVars
  <2>1. UNCHANGED <<m_lastPktId, m_PacketSubscribers, last, m_packetQueue, stopLost>>
    BY <1>7 DEF Terminate
  <2> QED
    BY <2>1 DEF Listed, Promise!broadcastVars
<1>8. ASSUME NEW s \in Subscribers, ReadPacket(s)
      PROVE  [Promise!Next]_Promise!broadcastVars
  <2>1. Promise!Take(s)
    BY <1>8 DEF ReadPacket, Promise!Take, Listed
  <2> QED
    BY <2>1 DEF Promise!Next
<1>9. CASE \/ EnterLoop \/ ContinueLoop \/ LeaveLoop \/ ReadOther \/ PublishCheck
          \/ PublishDone \/ OfferNext \/ NewPacketDropped \/ NewPacketWaits
  <2>1. UNCHANGED <<m_lastPktId, m_PacketSubscribers, last, m_packetQueue, stopLost>>
    BY <1>9 DEF EnterLoop, ContinueLoop, LeaveLoop, ReadOther, PublishCheck, PublishDone,
           OfferNext, NewPacketDropped, NewPacketWaits
  <2> QED
    BY <2>1 DEF Listed, Promise!broadcastVars
<1>10. CASE ReadFrame
  <2>1. Promise!Read
    BY <1>10 DEF ReadFrame, Promise!Read, Promise!After, Succ, Listed
  <2> QED
    BY <2>1 DEF Promise!Next
<1>11. CASE PublishLock
  <2>1. UNCHANGED <<m_lastPktId, last, m_packetQueue, stopLost>>
    BY <1>11 DEF PublishLock
  <2>2. Listed' \subseteq Listed
    BY <1>11, LeaveFacts DEF IInv, Walk
  <2> QED
    BY <2>1, <2>2, LeaveRefines DEF IInv
<1>12. CASE PassTerminated
  <2>1. UNCHANGED <<m_lastPktId, last, m_packetQueue, stopLost>>
    BY <1>12 DEF PassTerminated
  <2>2. Listed' \subseteq Listed
    BY <1>12 DEF PassTerminated, Listed
  <2> QED
    BY <2>1, <2>2, LeaveRefines DEF IInv
<1>13. CASE NewPacketPushed
  <2>1. /\ Deliver /\ reader \in Publishing
        /\ todo # << >> /\ ~IsFull(m_packetQueue[Head(todo)])
    BY <1>13 DEF NewPacketPushed, IInv, Walk, Publishing
  <2>2. Len(m_packetQueue[Head(todo)]) < m_capacity
    BY <2>1, CapAssumption DEF IsFull, m_capacity, IInv, TypeOK
  <2> QED
    BY <2>1, <2>2, DeliverRefines
<1>14. CASE PushResumes
  <2>1. /\ Deliver /\ reader \in Publishing
        /\ todo # << >> /\ Len(m_packetQueue[Head(todo)]) < m_capacity
    BY <1>14 DEF PushResumes, IInv, Walk, Room, Publishing
  <2> QED
    BY <2>1, DeliverRefines
<1> QED BY <1>1, <1>2, <1>3, <1>4, <1>5, <1>6, <1>7, <1>8, <1>9, <1>10, <1>11,
           <1>12, <1>13, <1>14
        DEF SourceNext, ClientStep, ReaderStep

\* With its threads, flags and mutex the source does what Broadcast promises.
THEOREM Refinement == SourceSpec => ImplementsBroadcast
<1>1. SourceInit => Promise!Init
  BY DEF SourceInit, Promise!Init, Listed
<1>2. IInv /\ [SourceNext]_sourceVars => [Promise!Next]_Promise!broadcastVars
  <2>1. ASSUME UNCHANGED sourceVars
        PROVE  UNCHANGED Promise!broadcastVars
    BY <2>1 DEF sourceVars, stopping, flags, members, delivery, starting, clients, thread, Listed,
                Promise!broadcastVars
  <2> QED
    BY <2>1, StepRefines
<1> QED
  BY <1>1, <1>2, Invariant, PTL DEF SourceSpec, ImplementsBroadcast, Promise!Spec
=============================================================================
