-------------------------- MODULE FpsProgramProofs --------------------------
(***************************************************************************)
(* What holds of the program for every capacity of the queue: it uses the  *)
(* source as AVPacketSource allows, so that all that is proved of the      *)
(* source holds in it, and its safety properties.  Each of these has an    *)
(* inductive part of its own: what the counter thread may still do         *)
(* (Counting), what the read thread was started for and who is on the list *)
(* (Reading), who has to have ended where (Ending), and which packets are  *)
(* in the counter's hand, in its queue and in the read thread's (OrderInv).*)
(* The last part is about waiting: who main waits for, and that they go on.*)
(***************************************************************************)
EXTENDS FpsProgram, AVPacketSourceProofs

BeforeStart == {"subscribe", "subscribing", "open", "opening"}
AfterStop == {"joinCounter", "stopSource", "joinReader", "destroyCounter", "exited"}

\* The counter thread: whether it may still begin to decode.
Counting ==
  /\ main \in Startup => counter = "none" /\ ~thrown
  /\ thrown => counter = "none" /\ main \in {"joinReader", "destroyCounter", "exited"}
  /\ c_needToStop \/ counter = "ended" => main \in AfterStop /\ ~thrown
  /\ counter \in {"read", "decode"} => decoder = "open"
  /\ counter \in {"spawned", "test"} /\ decoder # "open" => c_needToStop
  /\ main = "joinCounter" /\ counter \in {"spawned", "test", "read", "decode"} =>
       c_needToStop

\* The read thread: it has packets only of a video stream, to which the counter
\* has opened a decoder or failed to, and nobody to give them to after
\* Unsubscribe.
Reading ==
  /\ main \in BeforeStart =>
       reader = "none" /\ stream = "none" /\ decoder = "closed"
  /\ stream # "video" => reader \notin Publishing \cup {"publish", "lock"}
  /\ main \in Startup /\ decoder = "closed" => stream # "video"
  /\ main \notin Startup /\ counter = "none" /\ ~thrown =>
       decoder # "open" /\ (decoder = "closed" => stream # "video")
  /\ main \in AfterStop \cup {"stopCounter"} /\ ~thrown => Listed = {}

\* The end: nobody is still to begin, and whoever has ended stays so.
Ending ==
  ~early =>
    /\ main \notin Startup \cup {"input"} => reader # "enter" /\ counter # "spawned"
    /\ main \in {"destroyCounter", "exited"} => reader \in {"none", "exited"}
    /\ main = "exited" => counter \in {"none", "ended"}

ProgramInv == ProgramTypeOK /\ Counting /\ Reading /\ Ending

----------------------------------------------------------------------------
(* The program and the source.                                              *)

\* What any thread of the program does to the source, the source allows.
LEMMA ProgramStep ==
  ASSUME Next
  PROVE  [SourceNext]_sourceVars
<1>1. Main \in Clients /\ Counter \in Subscribers
  BY OneOfEach
<1>2. reader # "crashed"
  BY DEF Next, MainRuns, MainUnsubscribed, ReaderRun, CounterRun, Alive
<1>3. CASE ClientStep(Main) \/ ReadPacket(Counter) \/ ReaderStep
  BY <1>1, <1>2, <1>3 DEF SourceNext
<1>4. CASE UNCHANGED sourceVars
  BY <1>4
<1>5. MainSubscribes \/ MainUnsubscribes => ClientStep(Main)
  BY <1>1 DEF MainSubscribes, MainUnsubscribes, ClientStep
<1>6. MainOpens \/ MainStarts \/ MainFailsToStart \/ MainStopsSource => ClientStep(Main)
  BY DEF MainOpens, MainStarts, MainFailsToStart, MainStopsSource, ClientStep
<1>7. CounterReads => ReadPacket(Counter)
  BY DEF CounterReads
<1>8. SourceReads => ReaderStep
  BY DEF SourceReads
<1>9. MainStartsCounter \/ MainThrows \/ Quit \/ MainStopsCounter \/ MainJoinsCounter
        \/ MainDestroysSource \/ MainExits => UNCHANGED sourceVars
  BY DEF MainStartsCounter, MainThrows, Quit, MainStopsCounter, MainJoinsCounter,
         MainDestroysSource, MainExits
<1>10. CounterBegins \/ CounterTests \/ CounterSleeps \/ CounterDecodes
         => UNCHANGED sourceVars
  BY DEF CounterBegins, CounterTests, CounterSleeps, CounterDecodes
<1> QED
  BY <1>3, <1>4, <1>5, <1>6, <1>7, <1>8, <1>9, <1>10
     DEF Next, MainRuns, MainUnsubscribed, ReaderRun, CounterRun

\* The program is a source with one client and one subscriber: what is proved of
\* AVPacketSource holds in it.
THEOREM UsesSource == Spec => SourceSpec
<1>1. Init => SourceInit
  BY DEF Init
<1>2. [Next]_programVars => [SourceNext]_sourceVars
  BY ProgramStep DEF programVars
<1> QED
  BY <1>1, <1>2, PTL DEF Spec, SourceSpec

----------------------------------------------------------------------------
(* The parts of the invariant.                                              *)

\* The types are kept by every step.
LEMMA ProgramTypeStep ==
  ASSUME ProgramTypeOK, TypeOK', Next
  PROVE  ProgramTypeOK'
<1> USE DEF ProgramTypeOK, Goto, found, counterVars, ending
<1>1. CASE \/ MainSubscribes \/ MainOpens \/ MainStarts \/ MainFailsToStart
  BY <1>1 DEF MainSubscribes, MainOpens, MainStarts, MainFailsToStart
<1>2. CASE MainStartsCounter \/ MainThrows
  BY <1>2 DEF MainStartsCounter, MainThrows
<1>3. CASE Quit \/ MainUnsubscribes \/ MainStopsCounter
  BY <1>3 DEF Quit, MainUnsubscribes, MainStopsCounter
<1>4. CASE MainJoinsCounter \/ MainStopsSource
  BY <1>4 DEF MainJoinsCounter, MainStopsSource
<1>5. CASE MainDestroysSource \/ MainExits
  BY <1>5 DEF MainDestroysSource, MainExits
<1>6. CASE CounterRun
  <2>1. CASE CounterReads
    <3>1. m_packetQueue[Counter] \in Seq(PktIds) /\ m_packetQueue[Counter] # << >>
      BY <2>1, OneOfEach DEF CounterReads, ReadPacket, TypeOK
    <3>2. Head(m_packetQueue[Counter]) \in PktIds
      BY <3>1
    <3> QED
      BY <2>1, <3>2 DEF CounterReads
  <2> QED
    BY <1>6, <2>1 DEF CounterRun, CounterBegins, CounterTests, CounterSleeps,
                      CounterDecodes
<1>7. CASE SourceReads
  BY <1>7 DEF SourceReads
<1> QED
  BY <1>1, <1>2, <1>3, <1>4, <1>5, <1>6, <1>7
     DEF Next, MainRuns, MainUnsubscribed, ReaderRun

\* The counter thread decodes only with a decoder, and is stopped before that is
\* closed.
LEMMA CountingStep ==
  ASSUME ProgramTypeOK, Counting, Next
  PROVE  Counting'
<1> USE DEF Counting, Goto, found, counterVars, ending, Startup, AfterStop
<1>1. CASE MainSubscribes \/ MainOpens \/ MainFailsToStart
  BY <1>1 DEF MainSubscribes, MainOpens, MainFailsToStart
<1>2. CASE MainStarts
  BY <1>2 DEF MainStarts
<1>3. CASE MainStartsCounter
  BY <1>3 DEF MainStartsCounter
<1>4. CASE MainThrows
  BY <1>4 DEF MainThrows
<1>5. CASE Quit \/ MainUnsubscribes
  BY <1>5 DEF Quit, MainUnsubscribes
<1>6. CASE MainStopsCounter
  BY <1>6 DEF MainStopsCounter
<1>7. CASE MainJoinsCounter
  BY <1>7 DEF MainJoinsCounter, CounterRuns, ProgramTypeOK
<1>8. CASE MainStopsSource \/ MainDestroysSource \/ MainExits
  BY <1>8 DEF MainStopsSource, MainDestroysSource, MainExits
<1>9. CASE CounterBegins
  BY <1>9 DEF CounterBegins
<1>10. CASE CounterTests
  BY <1>10 DEF CounterTests, ProgramTypeOK
<1>11. CASE CounterSleeps \/ CounterReads \/ CounterDecodes
  BY <1>11 DEF CounterSleeps, CounterReads, CounterDecodes
<1>12. CASE SourceReads
  BY <1>12 DEF SourceReads
<1> QED
  BY <1>1, <1>2, <1>3, <1>4, <1>5, <1>6, <1>7, <1>8, <1>9, <1>10, <1>11, <1>12
     DEF Next, MainRuns, MainUnsubscribed, ReaderRun, CounterRun

\* main's own Unsubscribe leaves nobody on the list.
LEMMA NobodyIsLeft ==
  ASSUME TypeOK, Walk, UnsubscribeBody(Main)
  PROVE  Listed' = {}
<1>1. m_PacketSubscribers' \in Without(Counter)
  BY OneOfEach DEF UnsubscribeBody, TypeOK, Calls, Idle
<1> DEFINE K == {i \in Live(m_PacketSubscribers) : m_PacketSubscribers[i] # Counter}
<1>2. m_PacketSubscribers' \in Sublists(m_PacketSubscribers, K)
  BY <1>1 DEF Without
<1>3. K \in SUBSET DOMAIN m_PacketSubscribers
  BY DEF Live
<1>4. \A i \in K : m_PacketSubscribers[i] # Counter
  OBVIOUS
<1>5. /\ m_PacketSubscribers' \in Seq(Subscribers)
      /\ \A i \in DOMAIN m_PacketSubscribers' :
           \E j \in K : m_PacketSubscribers'[i] = m_PacketSubscribers[j]
  <2> HIDE DEF K
  <2> QED
    BY <1>2, <1>3, SublistFacts DEF TypeOK, Walk, ListWalk
<1>6. \A i \in DOMAIN m_PacketSubscribers' : m_PacketSubscribers'[i] = Counter
  BY <1>5, OneOfEach
<1> QED
  BY <1>4, <1>5, <1>6 DEF Listed

\* The read thread brings nobody on the list, and publishes only video.
LEMMA ReaderBrings ==
  ASSUME TypeOK, Walk, SourceReads
  PROVE  /\ Listed' \subseteq Listed
         /\ reader \notin Publishing \cup {"publish", "lock"} /\ stream # "video" =>
              reader' \notin Publishing \cup {"publish", "lock", "enter"}
         /\ reader' = "enter" => reader = "enter"
         /\ reader \notin {"none", "exited"}
<1> USE DEF SourceReads, members, Publishing
<1>1. CASE EnterLoop \/ ContinueLoop \/ LeaveLoop
  BY <1>1 DEF EnterLoop, ContinueLoop, LeaveLoop, Listed
<1>2. CASE ReadFrame \/ ReadOther \/ PublishCheck
  BY <1>2 DEF ReadFrame, ReadOther, PublishCheck, Listed
<1>3. CASE PublishLock
  BY <1>3, LeaveFacts DEF PublishLock, Walk
<1>4. CASE PublishDone \/ OfferNext
  BY <1>4 DEF PublishDone, OfferNext, Listed
<1>5. CASE PassTerminated
  BY <1>5 DEF PassTerminated, Listed
<1>6. CASE NewPacketDropped \/ NewPacketWaits
  BY <1>6 DEF NewPacketDropped, NewPacketWaits, Listed
<1>7. CASE NewPacketPushed \/ PushResumes
  BY <1>7 DEF NewPacketPushed, PushResumes, Deliver, Listed
<1> QED
  BY <1>1, <1>2, <1>3, <1>4, <1>5, <1>6, <1>7 DEF ReaderStep

\* What main's calls do to the place of the read thread and to the list.
LEMMA CallsKeep ==
  ASSUME \/ MainSubscribes \/ MainOpens \/ MainFailsToStart \/ MainStopsSource
         \/ MainUnsubscribes
  PROVE  /\ reader' = reader
         /\ MainStopsSource => Listed' = Listed
<1> USE DEF thread, starting, members
<1>1. CASE MainSubscribes
  BY <1>1 DEF MainSubscribes, Call, SubscribeBody, MainStopsSource, Goto
<1>2. CASE MainOpens \/ MainFailsToStart
  BY <1>2 DEF MainOpens, MainFailsToStart, StartOpens, StartFails, MainStopsSource, Goto
<1>3. CASE MainStopsSource
  BY <1>3 DEF MainStopsSource, Stop, Listed
<1>4. CASE MainUnsubscribes
  BY <1>4 DEF MainUnsubscribes, Call, UnsubscribeBody, MainStopsSource, Goto
<1> QED
  BY <1>1, <1>2, <1>3, <1>4

\* What Start finds decides whether the read thread ever publishes; the list is
\* empty once main has unsubscribed.
LEMMA ReadingStep ==
  ASSUME ProgramTypeOK, Walk, Counting, Reading, Next
  PROVE  Reading'
<1> USE DEF Reading, Goto, found, counterVars, ending, Startup, BeforeStart, AfterStop
<1>1. CASE MainSubscribes \/ MainOpens \/ MainFailsToStart
  BY <1>1, CallsKeep
     DEF MainSubscribes, MainOpens, MainFailsToStart, StartFails, Counting
<1>2. CASE MainStarts
  <2>1. reader' \in {"none", "enter"}
    BY <1>2 DEF MainStarts, StartReads, StartThrows, ThreadStarts, thread
  <2>2. main' = "startCounter" /\ (decoder' = "closed" => stream' # "video")
    BY <1>2 DEF MainStarts
  <2> QED
    BY <2>1, <2>2 DEF Publishing
<1>3. CASE MainStartsCounter
  BY <1>3 DEF MainStartsCounter, sourceVars, thread, Publishing, ProgramTypeOK
<1>4. CASE MainThrows
  BY <1>4 DEF MainThrows, sourceVars, thread
<1>5. CASE Quit
  BY <1>5 DEF Quit, sourceVars, thread
<1>6. CASE MainUnsubscribes
  <2>1. reader' = reader
    BY <1>6, CallsKeep
  <2>2. main' = "stopCounter" => Listed' = {}
    BY <1>6, NobodyIsLeft DEF MainUnsubscribes, ProgramTypeOK
  <2> QED
    BY <1>6, <2>1, <2>2 DEF MainUnsubscribes
<1>7. CASE MainStopsCounter \/ MainDestroysSource \/ MainExits
  BY <1>7 DEF MainStopsCounter, MainDestroysSource, MainExits, sourceVars, thread,
              members, Listed
<1>8. CASE MainJoinsCounter
  BY <1>8 DEF MainJoinsCounter, sourceVars, thread, members, Listed
<1>9. CASE MainStopsSource
  BY <1>9, CallsKeep DEF MainStopsSource
<1>10. CASE CounterBegins \/ CounterTests \/ CounterSleeps \/ CounterDecodes
  BY <1>10 DEF CounterBegins, CounterTests, CounterSleeps, CounterDecodes, sourceVars,
               thread, members, Listed
<1>11. CASE CounterReads
  <2>1. reader' = reader \/ (reader = "waiting" /\ reader' = "woken")
    BY <1>11 DEF CounterReads, ReadPacket, WokenByPop, NotifyOne
  <2>2. Listed' = Listed
    BY <1>11 DEF CounterReads, ReadPacket, members, Listed
  <2> QED
    BY <1>11, <2>1, <2>2 DEF CounterReads, Publishing
<1>12. CASE SourceReads
  BY <1>12, ReaderBrings DEF SourceReads, ProgramTypeOK
<1> QED
  BY <1>1, <1>2, <1>3, <1>4, <1>5, <1>6, <1>7, <1>8, <1>9, <1>10, <1>11, <1>12
     DEF Next, MainRuns, MainUnsubscribed, ReaderRun, CounterRun

\* Who has to have ended, has.
LEMMA EndingStep ==
  ASSUME ProgramTypeOK, Walk, Counting, Ending, Next
  PROVE  Ending'
<1> USE DEF Ending, Goto, found, counterVars, ending, Startup
<1>1. CASE MainSubscribes \/ MainOpens \/ MainFailsToStart
  BY <1>1 DEF MainSubscribes, MainOpens, MainFailsToStart
<1>2. CASE MainStarts \/ MainStartsCounter
  BY <1>2 DEF MainStarts, MainStartsCounter
<1>3. CASE MainThrows
  BY <1>3 DEF MainThrows, Counting, sourceVars, thread
<1>4. CASE Quit
  BY <1>4 DEF Quit, sourceVars, thread
<1>5. CASE MainUnsubscribes
  BY <1>5, CallsKeep DEF MainUnsubscribes
<1>6. CASE MainStopsCounter \/ MainJoinsCounter
  BY <1>6 DEF MainStopsCounter, MainJoinsCounter, sourceVars, thread
<1>7. CASE MainStopsSource
  BY <1>7, CallsKeep DEF MainStopsSource
<1>8. CASE MainDestroysSource
  <2>1. reader # "crashed"
    BY DEF Next, MainRuns, MainUnsubscribed, ReaderRun, CounterRun, Alive
  <2>2. reader \in {"none", "enter", "exited"} /\ reader' = reader
    BY <1>8, <2>1 DEF MainDestroysSource, ReaderRuns, sourceVars, thread
  <2> QED
    BY <1>8, <2>2 DEF MainDestroysSource
<1>9. CASE MainExits
  BY <1>9 DEF MainExits, CounterRuns, ProgramTypeOK, sourceVars, thread
<1>10. CASE CounterRun
  <2>1. reader' = reader \/ (reader = "waiting" /\ reader' = "woken")
    BY <1>10 DEF CounterRun, CounterBegins, CounterTests, CounterSleeps, CounterReads,
                 CounterDecodes, ReadPacket, WokenByPop, NotifyOne, sourceVars, thread
  <2>2. main' = main /\ early' = early /\ counter' # "spawned" /\ main # "exited"
    BY <1>10 DEF CounterRun, CounterBegins, CounterTests, CounterSleeps, CounterReads,
                 CounterDecodes, Alive
  <2> QED
    BY <2>1, <2>2
<1>11. CASE ReaderRun
  BY <1>11, ReaderBrings DEF ReaderRun, SourceReads, Alive, ProgramTypeOK
<1> QED
  BY <1>1, <1>2, <1>3, <1>4, <1>5, <1>6, <1>7, <1>8, <1>9, <1>10, <1>11
     DEF Next, MainRuns, MainUnsubscribed

\* The invariant holds at first, and every step keeps it.
THEOREM ProgramInvariant == Spec => [](IInv /\ ProgramInv)
<1>1. Init /\ TypeOK => ProgramInv
  <2> SUFFICES ASSUME Init, TypeOK
               PROVE  ProgramInv
    OBVIOUS
  <2> USE DEF Init, Startup
  <2>1. ProgramTypeOK
    <3>1. 0 \in PktIds
      BY IdSpaceAssumption DEF PktIds
    <3> QED
      BY <3>1 DEF ProgramTypeOK
  <2>2. Counting /\ Ending
    BY DEF Counting, Ending
  <2>3. Reading
    BY DEF Reading, SourceInit, Publishing, BeforeStart, AfterStop
  <2> QED
    BY <2>1, <2>2, <2>3 DEF ProgramInv
<1>2. IInv /\ IInv' /\ ProgramInv /\ [Next]_programVars => ProgramInv'
  <2> SUFFICES ASSUME IInv, IInv', ProgramInv, [Next]_programVars
               PROVE  ProgramInv'
    OBVIOUS
  <2> USE DEF IInv, ProgramInv
  <2>1. CASE Next
    BY <2>1, ProgramTypeStep, CountingStep, ReadingStep, EndingStep
  <2>2. CASE UNCHANGED programVars
    <3> USE <2>2 DEF programVars, sourceVars, members, thread
    <3>1. ProgramTypeOK'
      BY DEF ProgramTypeOK
    <3>2. Counting' /\ Ending'
      BY DEF Counting, Ending
    <3>3. Reading'
      BY DEF Reading, Listed
    <3> QED
      BY <3>1, <3>2, <3>3
  <2> QED
    BY <2>1, <2>2
<1>3. Spec => []IInv
  BY UsesSource, Invariant, PTL
<1>4. IInv => TypeOK
  BY DEF IInv
<1> QED
  BY <1>1, <1>2, <1>3, <1>4, PTL DEF Spec

----------------------------------------------------------------------------
(* The way of the packets through the program.                              *)

\* What the counter was given last; at first, packet 0 counts as given.
Given == IF last[Counter] = NoPacket THEN 0 ELSE last[Counter]
Queue == m_packetQueue[Counter]

\* The i-th packet after the one that was decoded last.
Nth(i) == (decoded + i) % IdSpace

\* In this program nobody terminates the counter, clears m_isStarted under the
\* read thread or sets m_needToStop before Unsubscribe.
Undisturbed ==
  /\ m_isInitialized[Counter]
  /\ InLoop => m_isStarted
  /\ m_needToStop => main \in {"joinReader", "destroyCounter", "exited"} /\ ~thrown

\* As long as the counter is on the list it was given all but the packet in hand.
Fed ==
  Listed # {} \/ main \in BeforeStart =>
    /\ reader \in {"none", "enter", "test", "reading"} => m_lastPktId = Given
    /\ reader \in {"publish", "lock"} => m_lastPktId = Succ(Given)
    /\ reader \in Publishing =>
         m_lastPktId = IF todo = << >> THEN Given ELSE Succ(Given)

\* The queue holds what was given and not yet decoded, without a gap.
Backlog ==
  /\ \A i \in 1..Len(Queue) : Queue[i] = Nth(i)
  /\ Given = Nth(Len(Queue))

\* From Subscribe to Unsubscribe the counter is on the list.
WhileListed == {"open", "opening", "startCounter", "input", "unsubscribe", "unsubscribing"}
Subscribed == main \in WhileListed => Counter \in Listed

OrderInv == Undisturbed /\ Fed /\ Backlog /\ Subscribed

\* The number of the packet after x + y does not depend on when the numbers wrap.
LEMMA Wraps ==
  ASSUME NEW n \in Nat \ {0}, NEW x \in Int, NEW y \in Int
  PROVE  ((x % n) + y) % n = (x + y) % n
<1> DEFINE p == x \div n
           r == x % n
           q == (x + y) \div n
           s == (x + y) % n
           k == (r + y) \div n
           t == (r + y) % n
<1>1. /\ p \in Int /\ r \in 0..(n - 1) /\ x = n * p + r
      /\ q \in Int /\ s \in 0..(n - 1) /\ x + y = n * q + s
      /\ r + y \in Int
  OBVIOUS
<1>2. k \in Int /\ t \in 0..(n - 1) /\ r + y = n * k + t
  <2> HIDE DEF r
  <2> QED
    BY <1>1
<1> SUFFICES t = s
  OBVIOUS
<1> HIDE DEF p, r, q, s, k, t
<1>3. t - s = n * (q - p - k)
  <2>1. n * (q - p - k) = n * q - n * p - n * k
    BY <1>1, <1>2
  <2>2. n * q \in Int /\ n * p \in Int /\ n * k \in Int
    BY <1>1, <1>2
  <2> QED
    BY <1>1, <1>2, <2>1, <2>2
<1> DEFINE d == q - p - k
<1>4. d \in Int /\ t - s = n * d /\ n * d < n /\ n * d > -n
  BY <1>1, <1>2, <1>3
<1> HIDE DEF d
<1>5. ~(d >= 1)
  BY <1>4
<1>6. ~(d <= -1)
  BY <1>4
<1>7. d = 0
  BY <1>4, <1>5, <1>6
<1> QED
  BY <1>1, <1>2, <1>4, <1>7

\* At first nothing was read, given or decoded.
LEMMA OrderInit ==
  ASSUME Init
  PROVE  OrderInv
<1> USE OneOfEach, IdSpaceAssumption DEF Init, SourceInit
<1>1. Undisturbed
  BY DEF Undisturbed, InLoop, Publishing
<1>2. Given = 0 /\ Len(Queue) = 0
  BY DEF Given, Queue
<1>3. Fed
  BY <1>2 DEF Fed, Publishing
<1>4. 0 % IdSpace = 0
  OBVIOUS
<1>5. Backlog
  BY <1>2, <1>4 DEF Backlog, Nth
<1>6. Subscribed
  BY DEF Subscribed, WhileListed
<1> QED
  BY <1>1, <1>3, <1>5, <1>6 DEF OrderInv

\* The flags stay as the program needs them.
LEMMA UndisturbedStep ==
  ASSUME IInv, ProgramInv, Undisturbed, Next
  PROVE  Undisturbed'
<1> USE OneOfEach
    DEF Undisturbed, Goto, InLoop, Publishing, stopping, flags, members, delivery, starting,
        clients, thread, found, counterVars, ending, Startup, BeforeStart, AfterStop
<1>1. CASE MainSubscribes
  BY <1>1 DEF MainSubscribes, Call, SubscribeBody
<1>2. CASE MainOpens
  <2>1. reader = "none"
    BY <1>2 DEF MainOpens, ProgramInv, Reading
  <2> QED
    BY <1>2, <2>1 DEF MainOpens, StartOpens
<1>3. CASE MainStarts
  <2>1. reader = "none"
    BY <1>3 DEF MainStarts, ProgramInv, Reading
  <2> QED
    BY <1>3, <2>1 DEF MainStarts, StartReads, StartThrows, ClearStop, ThreadStarts
<1>4. CASE MainFailsToStart
  BY <1>4 DEF MainFailsToStart, StartFails
<1>5. CASE MainStartsCounter
  BY <1>5 DEF MainStartsCounter, sourceVars
<1>6. CASE MainThrows
  BY <1>6 DEF MainThrows, sourceVars, ProgramInv, Counting
<1>7. CASE Quit
  BY <1>7 DEF Quit, sourceVars
<1>8. CASE MainUnsubscribes
  BY <1>8 DEF MainUnsubscribes, Call, UnsubscribeBody
<1>9. CASE MainStopsCounter \/ MainJoinsCounter
  BY <1>9 DEF MainStopsCounter, MainJoinsCounter, sourceVars
<1>10. CASE MainStopsSource
  <2>1. ~thrown
    BY <1>10 DEF MainStopsSource, ProgramInv, Counting
  <2> QED
    BY <1>10, <2>1 DEF MainStopsSource, Stop
<1>11. CASE MainDestroysSource \/ MainExits
  BY <1>11 DEF MainDestroysSource, MainExits, sourceVars
<1>12. CASE CounterBegins \/ CounterTests \/ CounterSleeps \/ CounterDecodes
  BY <1>12 DEF CounterBegins, CounterTests, CounterSleeps, CounterDecodes, sourceVars
<1>13. CASE CounterReads
  BY <1>13 DEF CounterReads, ReadPacket, WokenByPop, NotifyOne
<1>14. CASE SourceReads
  <2> USE <1>14 DEF SourceReads
  <2>1. CASE EnterLoop \/ ContinueLoop \/ LeaveLoop \/ ReadFrame \/ ReadOther
    BY <2>1 DEF EnterLoop, ContinueLoop, LeaveLoop, ReadFrame, ReadOther
  <2>2. CASE PublishCheck \/ PublishLock \/ PublishDone \/ PassTerminated \/ OfferNext
    BY <2>2 DEF PublishCheck, PublishLock, PublishDone, PassTerminated, OfferNext
  <2>3. CASE NewPacketDropped \/ NewPacketPushed \/ NewPacketWaits \/ PushResumes
    BY <2>3 DEF NewPacketDropped, NewPacketPushed, NewPacketWaits, PushResumes, Deliver
  <2> QED
    BY <2>1, <2>2, <2>3 DEF ReaderStep
<1> QED
  BY <1>1, <1>2, <1>3, <1>4, <1>5, <1>6, <1>7, <1>8, <1>9, <1>10, <1>11, <1>12, <1>13,
     <1>14 DEF Next, MainRuns, MainUnsubscribed, ReaderRun, CounterRun

\* The read thread hands the packet in hand to the counter, and has then nobody
\* left to visit.
LEMMA HandsOver ==
  ASSUME IInv, Fed, NewPacketPushed \/ PushResumes
  PROVE  /\ m_lastPktId = Succ(Given) /\ m_lastPktId \in PktIds
         /\ m_packetQueue' = [m_packetQueue EXCEPT ![Counter] = Append(@, m_lastPktId)]
         /\ last' = [last EXCEPT ![Counter] = m_lastPktId]
         /\ UNCHANGED <<m_lastPktId, m_PacketSubscribers>>
         /\ reader' = "deliver" /\ todo' = << >>
<1>1. /\ reader \in Publishing /\ todo # << >> /\ todo' = Tail(todo)
      /\ Deliver
  BY DEF NewPacketPushed, PushResumes, Deliver, Publishing, IInv, Walk
<1>2. Head(todo) = Counter /\ Head(todo) \in Listed
  BY <1>1, VisitedOnce, OneOfEach DEF IInv
<1>3. todo' = << >>
  <2>1. \A i \in DOMAIN Tail(todo) : Tail(todo)[i] # Head(todo)
    BY <1>1, HeadOnce DEF IInv, TypeOK, Walk, ListWalk
  <2>2. Tail(todo) \in Seq({Counter})
    BY <1>1, OneOfEach DEF IInv, TypeOK
  <2>3. \A i \in DOMAIN Tail(todo) : Tail(todo)[i] = Counter
    BY <2>2
  <2>4. DOMAIN Tail(todo) = {}
    BY <2>1, <2>3, <1>2
  <2> QED
    BY <1>1, <2>2, <2>4
<1>4. m_lastPktId = Succ(Given)
  BY <1>1, <1>2 DEF Fed
<1> QED
  BY <1>1, <1>2, <1>3, <1>4 DEF Deliver, members, IInv, TypeOK

\* Nothing main does reaches the packets: what the counter was given stays, and
\* once main has gone past Start nobody comes on the list.
LEMMA MainKeeps ==
  ASSUME IInv, ProgramInv, MainRuns \/ MainUnsubscribed \/ Quit
  PROVE  /\ UNCHANGED <<todo, m_lastPktId, decoded, Queue, Given>>
         /\ reader' = reader \/ {reader, reader'} \subseteq {"none", "enter"}
         /\ Listed' # {} \/ main' \in BeforeStart => Listed # {} \/ main \in BeforeStart
<1> USE DEF Goto, BeforeStart, stopping, flags, members, delivery, starting, clients, thread,
        counterVars, Queue
<1>1. CASE MainSubscribes
  <2>1. reader = "none" /\ Given = 0
    BY <1>1, OneOfEach DEF MainSubscribes, ProgramInv, Reading, IInv, Flags, Given
  <2>2. Given' = 0
    <3>1. CASE UNCHANGED last
      BY <2>1, <3>1 DEF Given
    <3>2. CASE \E s \in Subscribers : last' = [last EXCEPT ![s] = NoPacket]
      BY <3>2, OneOfEach DEF Given, IInv, TypeOK
    <3> QED
      BY <1>1, <3>1, <3>2, SubscribeFacts, OneOfEach
         DEF MainSubscribes, Call, IInv, Walk
  <2> QED
    BY <1>1, <2>1, <2>2 DEF MainSubscribes, Call, SubscribeBody
<1>2. CASE MainOpens \/ MainFailsToStart
  BY <1>2 DEF MainOpens, MainFailsToStart, StartOpens, StartFails, Given, Listed
<1>3. CASE MainStarts
  <2>1. reader = "none"
    BY <1>3 DEF MainStarts, ProgramInv, Reading
  <2> QED
    BY <1>3, <2>1 DEF MainStarts, StartReads, StartThrows, ThreadStarts, Given, Listed
<1>4. CASE MainStartsCounter \/ MainThrows \/ Quit
  BY <1>4 DEF MainStartsCounter, MainThrows, Quit, sourceVars, Given, Listed
<1>5. CASE MainStopsCounter \/ MainJoinsCounter
  BY <1>5 DEF MainStopsCounter, MainJoinsCounter, sourceVars, Given, Listed
<1>6. CASE MainDestroysSource \/ MainExits
  BY <1>6 DEF MainDestroysSource, MainExits, sourceVars, Given, Listed
<1>7. CASE MainStopsSource
  BY <1>7 DEF MainStopsSource, Stop, Given, Listed
<1>8. CASE MainUnsubscribes
  <2>1. Listed' \subseteq Listed
    BY <1>8, LeaveFacts, OneOfEach
       DEF MainUnsubscribes, Call, Listed, IInv, Walk
  <2> QED
    BY <1>8, <2>1 DEF MainUnsubscribes, Call, UnsubscribeBody, Given
<1> QED
  BY <1>1, <1>2, <1>3, <1>4, <1>5, <1>6, <1>7, <1>8 DEF MainRuns, MainUnsubscribed

\* Reading brings the next packet, publishing hands it over.
LEMMA FedStep ==
  ASSUME IInv, IInv', ProgramInv, Undisturbed, Fed, Next
  PROVE  Fed'
<1>1. CASE MainRuns \/ MainUnsubscribed \/ Quit
  BY <1>1, MainKeeps DEF Fed, Publishing
<1>2. CASE CounterRun
  <2>1. /\ UNCHANGED <<main, Listed, todo, m_lastPktId, Given>>
        /\ reader' = reader \/ {reader, reader'} \subseteq Publishing
    BY <1>2 DEF CounterRun, CounterBegins, CounterTests, CounterSleeps, CounterDecodes,
                CounterReads, ReadPacket, WokenByPop, NotifyOne, Publishing,
                sourceVars, members, clients, thread, delivery, Listed, Given
  <2> QED
    BY <2>1 DEF Fed, Publishing
<1>3. CASE SourceReads
  <2> USE <1>3 DEF SourceReads, members, delivery, clients, thread
  <2>1. SUFFICES ASSUME Listed' # {} \/ main' \in BeforeStart
                 PROVE  /\ reader' \in {"none", "enter", "test", "reading"} =>
                             m_lastPktId' = Given'
                        /\ reader' \in {"publish", "lock"} => m_lastPktId' = Succ(Given')
                        /\ reader' \in Publishing =>
                             m_lastPktId' = IF todo' = << >> THEN Given' ELSE Succ(Given')
    BY DEF Fed, Publishing, Succ
  <2>2. Listed # {} \/ main \in BeforeStart
    BY <2>1, ReaderBrings DEF IInv
  <2>3. ~m_needToStop
    BY <2>2 DEF Undisturbed, ProgramInv, Reading, AfterStop, BeforeStart
  <2>4. CASE EnterLoop \/ ContinueLoop \/ LeaveLoop \/ ReadOther
    BY <2>2, <2>4 DEF EnterLoop, ContinueLoop, LeaveLoop, ReadOther, Fed, Given, Publishing
  <2>5. CASE ReadFrame
    BY <2>2, <2>5 DEF ReadFrame, Fed, Given, Publishing
  <2>6. CASE PublishCheck
    <3>1. m_isStarted
      BY <2>6 DEF PublishCheck, Undisturbed, InLoop
    <3> QED
      BY <2>2, <2>3, <2>6, <3>1 DEF PublishCheck, Fed, Given, Publishing
  <2>7. CASE PublishLock
    <3>1. todo' = m_PacketSubscribers' /\ reader' = "deliver" /\ reader = "lock"
          /\ UNCHANGED <<m_lastPktId, Given>>
      BY <2>7 DEF PublishLock, Given
    <3>2. main \notin BeforeStart
      BY <3>1 DEF ProgramInv, Reading
    <3>3. todo' # << >>
      BY <2>1, <3>1, <3>2 DEF Listed
    <3> QED
      BY <2>2, <3>1, <3>3 DEF Fed, Publishing
  <2>8. CASE PublishDone
    BY <2>2, <2>3, <2>8 DEF PublishDone, Fed, Given, Publishing
  <2>9. CASE OfferNext \/ NewPacketWaits
    BY <2>2, <2>9 DEF OfferNext, NewPacketWaits, Fed, Given, Publishing
  <2>10. ~PassTerminated /\ ~NewPacketDropped
    <3>1. todo # << >> => Head(todo) = Counter
      BY OneOfEach DEF IInv, TypeOK
    <3> QED
      BY <3>1 DEF PassTerminated, NewPacketDropped, Undisturbed, IInv, Walk
  <2>11. CASE NewPacketPushed \/ PushResumes
    <3>1. Given' = m_lastPktId /\ m_lastPktId' = m_lastPktId /\ todo' = << >>
          /\ reader' = "deliver"
      BY <2>11, HandsOver, OneOfEach, IdSpaceAssumption
         DEF Given, IInv, TypeOK, PktIds, NoPacket
    <3> QED
      BY <3>1 DEF Publishing
  <2> QED
    BY <2>4, <2>5, <2>6, <2>7, <2>8, <2>9, <2>10, <2>11 DEF ReaderStep
<1> QED
  BY <1>1, <1>2, <1>3 DEF Next, ReaderRun

\* The packet decoded next is the first in the queue; the packet given next comes
\* after the last.
LEMMA BacklogStep ==
  ASSUME IInv, IInv', ProgramInv, Fed, Backlog, Next
  PROVE  Backlog'
<1>1. /\ Queue \in Seq(PktIds) /\ Len(Queue) \in Nat /\ DOMAIN Queue = 1..Len(Queue)
      /\ decoded \in PktIds /\ PktIds \subseteq Int
  BY OneOfEach DEF IInv, TypeOK, Queue, PktIds, ProgramInv, ProgramTypeOK
<1>2. CASE UNCHANGED <<decoded, Queue, Given>>
  BY <1>2 DEF Backlog, Nth
<1>3. CASE CounterReads
  <2>1. /\ Queue # << >> /\ Queue' = Tail(Queue)
        /\ decoded' = Queue[1] /\ UNCHANGED Given
    BY <1>1, <1>3, OneOfEach
       DEF CounterReads, ReadPacket, Queue, Given, IInv, TypeOK
  <2>2. /\ Len(Queue) >= 1 /\ Len(Queue') = Len(Queue) - 1
        /\ \A i \in 1..Len(Queue') : Queue'[i] = Queue[i + 1]
    BY <1>1, <2>1
  <2>3. decoded' = Nth(1)
    BY <1>1, <2>1, <2>2 DEF Backlog
  <2>4. ASSUME NEW i \in Int
        PROVE  Nth(i)' = Nth(i + 1)
    <3> DEFINE x == decoded + 1
    <3>1. ((x % IdSpace) + i) % IdSpace = (x + i) % IdSpace
      <4>1. x \in Int
        BY <1>1
      <4> HIDE DEF x
      <4> QED
        BY <4>1, IdSpaceAssumption, Wraps
    <3>2. (decoded + 1) + i = decoded + (i + 1)
      BY <1>1
    <3> QED
      BY <2>3, <3>1, <3>2 DEF Nth
  <2>5. \A i \in 1..Len(Queue') : Queue'[i] = Nth(i)'
    <3> SUFFICES ASSUME NEW i \in 1..Len(Queue')
                 PROVE  Queue'[i] = Nth(i)'
      OBVIOUS
    <3>1. i \in Int /\ i + 1 \in 1..Len(Queue)
      BY <1>1, <2>2
    <3> QED
      BY <2>2, <2>4, <3>1 DEF Backlog
  <2>6. Given' = Nth(Len(Queue))'
    <3>1. PICK n \in Int : n = Len(Queue') /\ n + 1 = Len(Queue)
      <4>1. /\ Len(Queue) - 1 \in Int /\ Len(Queue) - 1 = Len(Queue')
            /\ (Len(Queue) - 1) + 1 = Len(Queue)
        BY <1>1, <2>2
      <4> QED
        BY <4>1
    <3>2. Given' = Nth(Len(Queue))
      BY <2>1 DEF Backlog
    <3>3. Nth(n)' = Nth(n + 1)
      BY <2>4
    <3> QED
      BY <3>1, <3>2, <3>3 DEF Nth
  <2> QED
    BY <2>5, <2>6 DEF Backlog, Nth
<1>4. CASE SourceReads /\ (NewPacketPushed \/ PushResumes)
  <2>1. /\ m_lastPktId = Succ(Given) /\ m_lastPktId \in PktIds
        /\ Queue' = Append(Queue, m_lastPktId)
        /\ Given' = m_lastPktId /\ decoded' = decoded
    BY <1>4, HandsOver, OneOfEach, IdSpaceAssumption
       DEF SourceReads, counterVars, Queue, Given, IInv, TypeOK, PktIds, NoPacket
  <2>2. m_lastPktId = Nth(Len(Queue) + 1)
    <3> DEFINE x == decoded + Len(Queue)
    <3>1. ((x % IdSpace) + 1) % IdSpace = (x + 1) % IdSpace
      <4>1. x \in Int
        BY <1>1
      <4> HIDE DEF x
      <4>2. \A y \in Int : ((x % IdSpace) + y) % IdSpace = (x + y) % IdSpace
        BY <4>1, IdSpaceAssumption, Wraps
      <4> QED
        BY <4>2
    <3>2. (decoded + Len(Queue)) + 1 = decoded + (Len(Queue) + 1)
      BY <1>1
    <3> QED
      BY <2>1, <3>1, <3>2 DEF Backlog, Nth, Succ
  <2>3. /\ Len(Queue') = Len(Queue) + 1
        /\ \A i \in 1..Len(Queue) : Queue'[i] = Queue[i]
        /\ Queue'[Len(Queue) + 1] = m_lastPktId
    BY <1>1, <2>1
  <2>4. \A i \in 1..Len(Queue') : Queue'[i] = Nth(i)
    <3> SUFFICES ASSUME NEW i \in 1..(Len(Queue) + 1)
                 PROVE  Queue'[i] = Nth(i)
      BY <2>3
    <3>1. CASE i \in 1..Len(Queue)
      BY <2>3, <3>1 DEF Backlog
    <3>2. CASE i = Len(Queue) + 1
      BY <2>2, <2>3, <3>2
    <3> QED
      BY <1>1, <3>1, <3>2
  <2> QED
    BY <2>1, <2>2, <2>3, <2>4 DEF Backlog, Nth
<1>5. MainRuns \/ MainUnsubscribed \/ Quit => UNCHANGED <<decoded, Queue, Given>>
  BY MainKeeps
<1>6. CounterBegins \/ CounterTests \/ CounterSleeps \/ CounterDecodes
        => UNCHANGED <<decoded, Queue, Given>>
  BY DEF CounterBegins, CounterTests, CounterSleeps, CounterDecodes, sourceVars, delivery,
         Queue, Given
<1>7. SourceReads => (NewPacketPushed \/ PushResumes) \/ UNCHANGED <<decoded, Queue, Given>>
  <2> SUFFICES ASSUME SourceReads, ~NewPacketPushed, ~PushResumes
               PROVE  UNCHANGED <<decoded, Queue, Given>>
    OBVIOUS
  <2> USE DEF SourceReads, delivery, counterVars, Queue, Given
  <2>1. CASE EnterLoop \/ ContinueLoop \/ LeaveLoop \/ ReadFrame \/ ReadOther
    BY <2>1 DEF EnterLoop, ContinueLoop, LeaveLoop, ReadFrame, ReadOther
  <2>2. CASE PublishCheck \/ PublishLock \/ PublishDone \/ PassTerminated \/ OfferNext
    BY <2>2 DEF PublishCheck, PublishLock, PublishDone, PassTerminated, OfferNext
  <2>3. CASE NewPacketDropped \/ NewPacketWaits
    BY <2>3 DEF NewPacketDropped, NewPacketWaits
  <2> QED
    BY <2>1, <2>2, <2>3 DEF ReaderStep
<1> QED
  BY <1>2, <1>3, <1>4, <1>5, <1>6, <1>7 DEF Next, ReaderRun, CounterRun

\* Only main's own Unsubscribe takes the counter off the list.
LEMMA SubscribedStep ==
  ASSUME IInv, ProgramInv, Undisturbed, Subscribed, Next
  PROVE  Subscribed'
<1> USE OneOfEach DEF Goto, WhileListed
<1>1. CASE MainSubscribes /\ main = "subscribing"
  <2>1. SubscribeBody(Main) /\ call[Main].sub = Counter
    BY <1>1 DEF MainSubscribes, SubscribeBody, IInv, TypeOK, Calls, Idle
  <2>2. PICK live \in removeTerminated(m_PacketSubscribers) :
          IF \E i \in DOMAIN live : live[i] = Counter
          THEN m_PacketSubscribers' = live
          ELSE m_PacketSubscribers' = Append(live, Counter)
    BY <2>1 DEF SubscribeBody
  <2>3. live \in Seq(Subscribers)
    BY RestFacts DEF IInv, Walk
  <2>4. m_PacketSubscribers' = Append(live, Counter) =>
          /\ Len(live) + 1 \in DOMAIN m_PacketSubscribers'
          /\ m_PacketSubscribers'[Len(live) + 1] = Counter
    BY <2>3
  <2> QED
    BY <2>2, <2>4 DEF Subscribed, Listed
<1>2. CASE MainUnsubscribes /\ main = "unsubscribing"
  BY <1>2 DEF MainUnsubscribes, Subscribed
<1>3. CASE /\ ~(MainSubscribes /\ main = "subscribing")
           /\ ~(MainUnsubscribes /\ main = "unsubscribing")
  <2>1. main' \in WhileListed => main \in WhileListed
    BY <1>3 DEF Next, MainRuns, MainUnsubscribed, ReaderRun, CounterRun, Quit, SourceReads,
           MainSubscribes, MainOpens, MainStarts, MainFailsToStart, MainStartsCounter,
           MainThrows, MainUnsubscribes, MainStopsCounter, MainJoinsCounter,
           MainStopsSource, MainDestroysSource, MainExits, CounterBegins, CounterTests,
           CounterSleeps, CounterReads, CounterDecodes
  <2>2. UNCHANGED call \/ call[Main] = Idle
    <3> USE DEF clients, starting, sourceVars
    <3>1. CASE MainRuns \/ MainUnsubscribed \/ Quit
      BY <1>3, <3>1
         DEF MainRuns, MainUnsubscribed, Quit, MainSubscribes, MainOpens, MainStarts,
             MainFailsToStart, MainStartsCounter, MainThrows, MainUnsubscribes,
             MainStopsCounter, MainJoinsCounter, MainStopsSource, MainDestroysSource,
             MainExits, Call, StartOpens, StartReads, StartThrows, StartFails, Stop
    <3>2. CASE CounterRun
      BY <3>2 DEF CounterRun, CounterBegins, CounterTests, CounterSleeps, CounterReads,
                  CounterDecodes, ReadPacket
    <3>3. CASE ReaderRun
      BY <3>3 DEF ReaderRun, SourceReads, ReaderStep, EnterLoop, ContinueLoop, LeaveLoop,
                  ReadFrame, ReadOther, PublishCheck, PublishLock, PublishDone,
                  PassTerminated, OfferNext, NewPacketDropped, NewPacketPushed,
                  NewPacketWaits, PushResumes, Deliver
    <3> QED
      BY <3>1, <3>2, <3>3 DEF Next
  <2>3. ~UnsubscribeBody(Main)
    <3>1. "unsubscribe" # "idle"
      OBVIOUS
    <3> QED
      BY <2>2, <3>1 DEF UnsubscribeBody, Idle, IInv, TypeOK
  <2>4. CASE SourceNext
    BY <2>1, <2>3, <2>4, StaysListed DEF Undisturbed, Subscribed
  <2>5. CASE UNCHANGED sourceVars
    BY <2>1, <2>5 DEF Subscribed, sourceVars, members, Listed
  <2> QED
    BY <2>4, <2>5, ProgramStep
<1> QED
  BY <1>1, <1>2, <1>3

\* The order holds at first, and every step keeps it.
THEOREM OrderInvariant == Spec => [](IInv /\ ProgramInv /\ OrderInv)
<1>1. IInv /\ IInv' /\ ProgramInv /\ OrderInv /\ [Next]_programVars => OrderInv'
  <2> SUFFICES ASSUME IInv, IInv', ProgramInv, OrderInv, [Next]_programVars
               PROVE  OrderInv'
    OBVIOUS
  <2> USE DEF OrderInv
  <2>1. CASE Next
    BY <2>1, UndisturbedStep, FedStep, BacklogStep, SubscribedStep
  <2>2. CASE UNCHANGED programVars
    BY <2>2 DEF programVars, sourceVars, stopping, flags, members, delivery, thread, counterVars,
                Undisturbed, InLoop, Fed, Listed, Given, Backlog, Queue, Nth, Subscribed
  <2> QED
    BY <2>1, <2>2
<1>2. Init => OrderInv
  BY OrderInit
<1> QED
  BY <1>1, <1>2, ProgramInvariant, PTL DEF Spec

----------------------------------------------------------------------------
(* The properties.                                                          *)

\* The types, for every capacity of the queue.
THEOREM ProgramTypeCorrect == Spec => []ProgramTypeOK
BY ProgramInvariant, PTL DEF ProgramInv

\* Nobody decodes without a decoder: FrameCounter::Stop closes it only after the
\* counter thread has left its loop or will leave it at its first test.
THEOREM DecodesWhileOpen == Spec => []DecodeWhileOpen
<1>1. Counting => DecodeWhileOpen
  BY DEF Counting, DecodeWhileOpen
<1> QED
  BY <1>1, ProgramInvariant, PTL DEF ProgramInv

\* The destructors run when the threads they would pull the ground from are over.
THEOREM EndsInOrder == Spec => []ThreadsEndFirst
<1>1. Ending => ThreadsEndFirst
  BY DEF Ending, ThreadsEndFirst
<1> QED
  BY <1>1, ProgramInvariant, PTL DEF ProgramInv

\* A read thread that waits for good waits for want of a decoder or of a thread.
THEOREM StuckForWantOfDecoder == Spec => []StuckOnlyWithoutDecoder
<1>1. IInv /\ ProgramInv => StuckOnlyWithoutDecoder
  <2> SUFFICES ASSUME IInv, ProgramInv, ReaderIsStuck, ~thrown
               PROVE  decoder = "failed"
    BY DEF StuckOnlyWithoutDecoder
  <2> USE DEF ReaderIsStuck, ProgramInv
  <2>1. Head(todo) \in Listed
    <3>1. \E i \in DOMAIN m_PacketSubscribers : m_PacketSubscribers[i] = Head(todo)
      BY TailRest DEF IInv, Walk, ListWalk, TypeOK
    <3> QED
      BY <3>1 DEF Listed
  <2>2. counter # "ended"
    BY <2>1 DEF Counting, Reading
  <2>3. stream = "video"
    BY DEF Reading, Publishing
  <2> QED
    BY <2>2, <2>3 DEF Reading, ProgramTypeOK
<1> QED
  BY <1>1, ProgramInvariant, PTL

\* Every video packet is decoded, once and in the order of reading, for every
\* capacity of the queue and however the three threads interleave.
THEOREM DecodesEveryPacket == Spec => DecodesInOrder
<1>1. IInv /\ ProgramInv /\ OrderInv /\ [Next]_programVars =>
        [counter = "read" /\ counter' = "decode" => decoded' = Succ(decoded)]_programVars
  <2> SUFFICES ASSUME IInv, OrderInv, Next, counter = "read", counter' = "decode"
               PROVE  decoded' = Succ(decoded)
    OBVIOUS
  <2>1. CounterReads
    BY DEF Next, MainRuns, MainUnsubscribed, ReaderRun, CounterRun, Quit, SourceReads,
           MainSubscribes, MainOpens, MainStarts, MainFailsToStart, MainStartsCounter,
           MainThrows, MainUnsubscribes, MainStopsCounter, MainJoinsCounter,
           MainStopsSource, MainDestroysSource, MainExits, CounterBegins, CounterTests,
           CounterSleeps, CounterReads, CounterDecodes, counterVars
  <2>2. Queue \in Seq(PktIds) /\ Queue # << >> /\ decoded' = Head(Queue)
    BY <2>1, OneOfEach DEF CounterReads, ReadPacket, Queue, IInv, TypeOK
  <2>3. Head(Queue) = Queue[1] /\ 1 \in 1..Len(Queue)
    BY <2>2
  <2> QED
    BY <2>2, <2>3 DEF OrderInv, Backlog, Nth, Succ
<1> QED
  BY <1>1, OrderInvariant, PTL DEF Spec, DecodesInOrder

\* From Subscribe to Unsubscribe, whenever the read thread is between two packets,
\* whatever it has read was decoded or waits in the queue.
NothingIsLost ==
  main \in WhileListed /\ reader \in {"test", "reading"} =>
    m_lastPktId = (decoded + Len(m_packetQueue[Counter])) % IdSpace

\* None of the packets read is missing.
THEOREM EveryPacketIsThere == Spec => []NothingIsLost
<1>1. OrderInv => NothingIsLost
  BY DEF OrderInv, Subscribed, Fed, Backlog, NothingIsLost, Nth, Queue
<1> QED
  BY <1>1, OrderInvariant, PTL

----------------------------------------------------------------------------
(* Who waits for whom.                                                      *)

\* Once main has come that far, the source has been told to end and the decoder
\* is closed, unless an exception has skipped both.
ToldToEnd ==
  ~thrown =>
    /\ main \in {"joinReader", "destroyCounter", "exited"} => m_needToStop
    /\ main \in AfterStop \ {"joinCounter"} => decoder # "open"

\* No circle of waiting, and no wait for a thread that would go on for ever: the
\* mutex that main waits for in Unsubscribe is held by a read thread that waits for
\* nobody, or for a counter thread that is reading and has not been told to stop; a
\* counter thread that is joined has been told; a read thread that is joined has
\* been told and does not wait.  But for a decoder that did not open, or the
\* exception, that is.
WaitsEnd ==
  /\ main = "subscribing" => LockIsFree
  /\ main = "unsubscribing" /\ reader = "waiting" =>
       decoder = "failed" \/ (counter \in {"spawned", "test", "read", "decode"} /\ ~c_needToStop)
  /\ main \in {"joinCounter", "destroyCounter"} /\ CounterRuns => c_needToStop
  /\ main = "joinReader" /\ ReaderRuns /\ ~thrown => m_needToStop /\ reader # "waiting"

\* A read thread that waits does so for a subscriber on the list.
LEMMA WaitsForListed ==
  ASSUME IInv, reader = "waiting"
  PROVE  Listed # {}
<1>1. \E i \in DOMAIN m_PacketSubscribers : m_PacketSubscribers[i] = Head(todo)
  BY TailRest DEF IInv, Walk, ListWalk, TypeOK
<1> QED
  BY <1>1 DEF Listed

\* What main has told stays told: nothing takes it back.
LEMMA ToldStep ==
  ASSUME ProgramInv, ToldToEnd, Next
  PROVE  ToldToEnd'
<1> USE DEF ToldToEnd, AfterStop, Goto, stopping, flags, found, counterVars, ending
<1>1. CASE MainSubscribes \/ MainOpens \/ MainFailsToStart
  BY <1>1 DEF MainSubscribes, MainOpens, MainFailsToStart
<1>2. CASE MainStarts \/ MainStartsCounter \/ MainThrows
  BY <1>2 DEF MainStarts, MainStartsCounter, MainThrows
<1>3. CASE Quit \/ MainUnsubscribes \/ MainStopsCounter
  BY <1>3 DEF Quit, MainUnsubscribes, MainStopsCounter
<1>4. CASE MainJoinsCounter
  BY <1>4 DEF MainJoinsCounter
<1>5. CASE MainStopsSource
  BY <1>5 DEF MainStopsSource, Stop
<1>6. CASE MainDestroysSource \/ MainExits
  BY <1>6 DEF MainDestroysSource, MainExits, sourceVars
<1>7. CASE CounterRun
  BY <1>7 DEF CounterRun, CounterBegins, CounterTests, CounterSleeps, CounterReads,
              CounterDecodes, ReadPacket, sourceVars
<1>8. CASE SourceReads
  <2>1. m_needToStop' = m_needToStop
    BY <1>8 DEF SourceReads, ReaderStep, EnterLoop, ContinueLoop, LeaveLoop, ReadFrame,
                ReadOther, PublishCheck, PublishLock, PublishDone, PassTerminated, OfferNext,
                NewPacketDropped, NewPacketPushed, NewPacketWaits, PushResumes, Deliver
  <2> QED
    BY <1>8, <2>1 DEF SourceReads
<1> QED
  BY <1>1, <1>2, <1>3, <1>4, <1>5, <1>6, <1>7, <1>8
     DEF Next, MainRuns, MainUnsubscribed, ReaderRun

\* The threads of the program never wait for each other in a circle, for every
\* capacity of the queue.
THEOREM NoCircularWait == Spec => []WaitsEnd
<1>1. Init => ToldToEnd
  BY DEF Init, ToldToEnd, AfterStop
<1>2. ProgramInv /\ ToldToEnd /\ [Next]_programVars => ToldToEnd'
  <2>1. CASE UNCHANGED programVars
    BY <2>1 DEF ToldToEnd, programVars, sourceVars, stopping, flags
  <2> QED
    BY <2>1, ToldStep
<1>3. IInv /\ ProgramInv /\ ToldToEnd => WaitsEnd
  <2> SUFFICES ASSUME IInv, ProgramInv, ToldToEnd PROVE WaitsEnd
    OBVIOUS
  <2> USE DEF ProgramInv
  <2>1. main = "subscribing" => LockIsFree
    BY DEF Reading, BeforeStart, LockIsFree, Publishing
  <2>2. ASSUME main = "unsubscribing", reader = "waiting", decoder # "failed"
        PROVE  counter \in {"spawned", "test", "read", "decode"} /\ ~c_needToStop
    <3>1. ~thrown /\ ~c_needToStop /\ counter # "ended"
      BY <2>2 DEF Counting, AfterStop
    <3>2. stream = "video"
      BY <2>2 DEF Reading, Publishing
    <3>3. counter # "none"
      BY <2>2, <3>1, <3>2 DEF Reading, ProgramTypeOK, Startup
    <3> QED
      BY <3>1, <3>3 DEF ProgramTypeOK
  <2>3. ASSUME main \in {"joinCounter", "destroyCounter"}, CounterRuns
        PROVE  c_needToStop
    <3>1. ~thrown
      BY <2>3 DEF Counting, CounterRuns
    <3> QED
      BY <2>3, <3>1 DEF Counting, CounterRuns, ToldToEnd, AfterStop
  <2>4. ASSUME main = "joinReader", ~thrown
        PROVE  m_needToStop /\ reader # "waiting"
    BY <2>4, WaitsForListed DEF ToldToEnd, Reading, AfterStop
  <2> QED
    BY <2>1, <2>2, <2>3, <2>4 DEF WaitsEnd
<1> QED
  BY <1>1, <1>2, <1>3, ProgramInvariant, PTL DEF Spec
=============================================================================
