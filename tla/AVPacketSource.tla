--------------------------- MODULE AVPacketSource ---------------------------
(***************************************************************************)
(* challenge::media::AVPacketSource (src/src/packet-source.cpp) with its   *)
(* PacketSourceSubscribers (src/src/packet-source-subscriber.cpp): one     *)
(* read thread takes packets from libav and hands each to every subscriber *)
(* on the list, while client threads call Start, Subscribe, Unsubscribe,   *)
(* Stop and Terminate and every subscriber's own thread calls ReadPacket.  *)
(*                                                                         *)
(* The list is guarded by m_mtx, which the read thread keeps through a     *)
(* whole publishToAll, a push_front that blocks included.  The three flags *)
(* m_needToStop, m_isStarted and m_isInitialized are plain bools read and  *)
(* written without a lock: each access is a step of its own.  A call that  *)
(* finds m_needToStop set and returns at once changes nothing and is no    *)
(* step.  Spurious wakeups are left to CircularBuffer.                     *)
(***************************************************************************)
EXTENDS BufferOps

CONSTANTS Subscribers, Clients,
          IdSpace        \* bound: packets are numbered modulo this

ASSUME SubscribersAssumption == IsFiniteSet(Subscribers)
ASSUME IdSpaceAssumption     == IdSpace \in Nat \ {0}

VARIABLES
  m_needToStop, m_isStarted,
  m_lastPktId,           \* the number of the last video packet read
  m_PacketSubscribers,   \* the list, a sequence of subscribers
  m_isInitialized,       \* per subscriber, false once it is terminated
  m_packetQueue,         \* per subscriber, the numbers of the packets in it
  m_fmtCtx,              \* "open", or "none": null or not open yet
  opening,               \* the client inside Start, or NoClient
  reader,                \* where the read thread is
  todo,                  \* subscribers the packet in hand has still to visit
  call,                  \* per client, the call that is waiting for m_mtx
  last,                  \* history: the last packet a subscriber was given
                         \* since it was put on the list
  mutedAt,               \* history: the packet in hand when another Start
                         \* cleared m_isStarted under the read thread
  stopLost,              \* history: a Start cleared a Stop the read thread
                         \* was to see
  stoppedAt              \* history: the packet in hand at the Stop in force

stopping == <<m_needToStop, stoppedAt>>
flags    == <<stopping, m_isStarted>>
members  == <<m_PacketSubscribers, m_isInitialized>>
delivery == <<m_packetQueue, last>>
starting == <<m_fmtCtx, opening, mutedAt, stopLost>>
clients  == <<starting, call>>
thread   == <<reader, todo, m_lastPktId>>
sourceVars == <<flags, members, delivery, clients, thread>>

PktIds == 0..(IdSpace - 1)
NoPacket == IdSpace
NoClient == "nobody"
Idle == [op |-> "idle"]
Calls == [op : {"subscribe", "unsubscribe"}, sub : Subscribers]

Succ(id) == (id + 1) % IdSpace

\* Where the read thread holds m_mtx.  No other thread keeps it beyond a step.
Publishing == {"deliver", "offer", "waiting", "woken"}
LockIsFree == reader \notin Publishing

\* Between EnterLoop and LeaveLoop.
InLoop == reader \in Publishing \cup {"test", "reading", "publish", "lock"}

SourceInit ==
  /\ m_needToStop = FALSE /\ m_isStarted = FALSE
  /\ m_lastPktId = 0
  /\ m_PacketSubscribers = << >>
  /\ m_isInitialized = [s \in Subscribers |-> TRUE]
  /\ m_packetQueue = [s \in Subscribers |-> << >>]
  /\ m_fmtCtx = "none"
  /\ opening = NoClient
  /\ reader = "none"
  /\ todo = << >>
  /\ call = [c \in Clients |-> Idle]
  /\ last = [s \in Subscribers |-> NoPacket]
  /\ mutedAt = NoPacket /\ stopLost = FALSE /\ stoppedAt = NoPacket

\* The list of what is at the places K, in the same order: a set of one list.
Increasing(K) == {f \in [1..Cardinality(K) -> K] :
                    \A i, j \in 1..Cardinality(K) : i < j => f[i] < f[j]}
Sublists(list, K) == {[i \in 1..Cardinality(K) |-> list[f[i]]] : f \in Increasing(K)}

Live(list) == {i \in DOMAIN list : m_isInitialized[list[i]]}

\* A Terminate between two tests of the loop leads to no other states.
removeTerminated(list) == Sublists(list, Live(list))

----------------------------------------------------------------------------
(* Start, one client at a time.  The first makes the read thread; another    *)
(* one is possible whatever that thread is at.                              *)

\* Mutant of StartOpens: m_isStarted stays.
StartOpensStarted(c) ==
  /\ opening = NoClient /\ call[c] = Idle
  /\ opening' = c
  /\ m_fmtCtx' = "none"
  /\ mutedAt' = IF InLoop /\ mutedAt = NoPacket THEN m_lastPktId ELSE mutedAt
  /\ UNCHANGED <<flags, stopLost, members, delivery, call, thread>>

\* Start clears m_isStarted and opens the input, which takes its time ...
StartOpens(c) ==
  /\ opening = NoClient /\ call[c] = Idle
  /\ m_isStarted' = FALSE
  /\ opening' = c
  /\ m_fmtCtx' = "none"
  /\ mutedAt' = IF InLoop /\ mutedAt = NoPacket THEN m_lastPktId ELSE mutedAt
  /\ UNCHANGED <<stopping, stopLost, members, delivery, call, thread>>

ClearStop ==
  /\ m_needToStop' = FALSE /\ stoppedAt' = NoPacket
  /\ stopLost' = (stopLost \/ (m_needToStop /\ reader # "none"))

\* What m_readThrd.start does: a thread that counts as running stays the one,
\* and the result is ignored.  One that has not yet or no longer set the flag is
\* replaced, which is std::terminate as nobody has joined it.
ThreadStarts ==
  reader' \in CASE reader = "none" -> {"enter"}
                [] InLoop          -> {reader}
                [] OTHER           -> {reader, "crashed"}

\* ... then clears m_needToStop, whoever has set it meanwhile, and starts the
\* read thread ...
StartReads(c) ==
  /\ opening = c
  /\ ClearStop /\ ThreadStarts
  /\ opening' = NoClient
  /\ m_fmtCtx' = "open"
  /\ UNCHANGED <<m_isStarted, mutedAt, members, delivery, call, todo, m_lastPktId>>

\* ... or returns false and drops the input, when libav opens none ...
StartFails(c) ==
  /\ opening = c
  /\ opening' = NoClient
  /\ m_fmtCtx' = "none"
  /\ UNCHANGED <<flags, mutedAt, stopLost, members, delivery, call, thread>>

\* ... or when the system has no thread left.
StartThrows(c) ==
  /\ opening = c /\ ~InLoop
  /\ ClearStop
  /\ opening' = NoClient
  /\ m_fmtCtx' = "none"
  /\ UNCHANGED <<m_isStarted, mutedAt, members, delivery, call, thread>>

Stop(c) ==
  /\ opening # c /\ call[c] = Idle
  /\ m_needToStop' = TRUE
  /\ stoppedAt' = IF m_needToStop THEN stoppedAt ELSE m_lastPktId
  /\ UNCHANGED <<m_isStarted, members, delivery, clients, thread>>

----------------------------------------------------------------------------
(* Subscribe and Unsubscribe read m_needToStop before they take m_mtx.      *)

Call(c, what, s) ==
  /\ opening # c /\ call[c] = Idle
  /\ ~m_needToStop
  /\ call' = [call EXCEPT ![c] = [op |-> what, sub |-> s]]
  /\ UNCHANGED <<flags, members, delivery, starting, thread>>

\* Mutant of SubscribeBody: the list is not searched first.
SubscribeAgain(c) ==
  /\ call[c].op = "subscribe" /\ LockIsFree
  /\ LET s == call[c].sub
     IN  /\ \E live \in removeTerminated(m_PacketSubscribers) :
              m_PacketSubscribers' = Append(live, s)
         /\ last' = [last EXCEPT ![s] = NoPacket]
  /\ call' = [call EXCEPT ![c] = Idle]
  /\ UNCHANGED <<flags, m_isInitialized, m_packetQueue, starting, thread>>

SubscribeBody(c) ==
  /\ call[c].op = "subscribe" /\ LockIsFree
  /\ LET s == call[c].sub
     IN  \E live \in removeTerminated(m_PacketSubscribers) :
           IF \E i \in DOMAIN live : live[i] = s
           THEN m_PacketSubscribers' = live /\ UNCHANGED last
           ELSE /\ m_PacketSubscribers' = Append(live, s)
                /\ last' = [last EXCEPT ![s] = NoPacket]
  /\ call' = [call EXCEPT ![c] = Idle]
  /\ UNCHANGED <<flags, m_isInitialized, m_packetQueue, starting, thread>>

\* The list without the terminated and s.
Without(s) ==
  Sublists(m_PacketSubscribers,
           {i \in Live(m_PacketSubscribers) : m_PacketSubscribers[i] # s})

\* Mutant of UnsubscribeBody: the list is changed without m_mtx.
UnsubscribeUnlocked(c) ==
  /\ call[c].op = "unsubscribe"
  /\ m_PacketSubscribers' \in Without(call[c].sub)
  /\ call' = [call EXCEPT ![c] = Idle]
  /\ UNCHANGED <<flags, m_isInitialized, delivery, starting, thread>>

UnsubscribeBody(c) ==
  /\ call[c].op = "unsubscribe" /\ LockIsFree
  /\ m_PacketSubscribers' \in Without(call[c].sub)
  /\ call' = [call EXCEPT ![c] = Idle]
  /\ UNCHANGED <<flags, m_isInitialized, delivery, starting, thread>>

\* A terminated subscriber stays terminated, and its queue is not woken.
Terminate(s) ==
  /\ m_isInitialized[s]
  /\ m_isInitialized' = [m_isInitialized EXCEPT ![s] = FALSE]
  /\ UNCHANGED <<flags, m_PacketSubscribers, delivery, clients, thread>>

----------------------------------------------------------------------------
(* The read thread.                                                         *)

EnterLoop ==
  /\ reader = "enter"
  /\ m_isStarted' = TRUE
  /\ reader' = "test"
  /\ UNCHANGED <<stopping, members, delivery, clients, todo, m_lastPktId>>

\* av_read_frame goes on with the input it was called for; called for one that
\* another Start is just opening or has dropped, it may end the program.
ContinueLoop ==
  /\ reader = "test" /\ ~m_needToStop
  /\ reader' \in IF m_fmtCtx = "open" THEN {"reading"} ELSE {"reading", "crashed"}
  /\ UNCHANGED <<flags, members, delivery, clients, todo, m_lastPktId>>

LeaveLoop ==
  /\ \/ reader = "test" /\ m_needToStop
     \/ reader = "reading"                 \* av_read_frame: end or error
  /\ m_isStarted' = FALSE
  /\ reader' = "exited"
  /\ UNCHANGED <<stopping, members, delivery, clients, todo, m_lastPktId>>

\* A video packet.  CreateFromAVPacket returns no packet for one of less than
\* two bytes, and the loop calls StreamId on it: the program ends there.
ReadFrame ==
  /\ reader = "reading"
  /\ m_lastPktId' = Succ(m_lastPktId)
  /\ reader' \in {"publish", "crashed"}
  /\ UNCHANGED <<flags, members, delivery, clients, todo>>

\* A packet of another stream is ignored.
ReadOther ==
  /\ reader = "reading"
  /\ reader' = "test"
  /\ UNCHANGED <<flags, members, delivery, clients, todo, m_lastPktId>>

\* Mutant of PublishCheck: publishToAll does not look at m_needToStop.
PublishUnchecked ==
  /\ reader = "publish"
  /\ reader' = IF ~m_isStarted THEN "test" ELSE "lock"
  /\ UNCHANGED <<flags, members, delivery, clients, todo, m_lastPktId>>

\* publishToAll looks at the flags before it takes m_mtx.
PublishCheck ==
  /\ reader = "publish"
  /\ reader' = IF m_needToStop \/ ~m_isStarted THEN "test" ELSE "lock"
  /\ UNCHANGED <<flags, members, delivery, clients, todo, m_lastPktId>>

PublishLock ==
  /\ reader = "lock" /\ LockIsFree
  /\ m_PacketSubscribers' \in removeTerminated(m_PacketSubscribers)
  /\ todo' = m_PacketSubscribers'
  /\ reader' = "deliver"
  /\ UNCHANGED <<flags, m_isInitialized, delivery, clients, m_lastPktId>>

\* A single subscriber gets the packet itself, several get a clone each; only
\* the loop over several looks at m_needToStop again.
OnlyOne == Len(m_PacketSubscribers) = 1

PublishDone ==
  /\ reader = "deliver"
  /\ todo = << >> \/ (~OnlyOne /\ m_needToStop)
  /\ todo' = << >>
  /\ reader' = "test"
  /\ UNCHANGED <<flags, members, delivery, clients, m_lastPktId>>

\* The subscriber was terminated after removeTerminatedPacketSource: alone, it
\* is dropped from the list here, among others it is only passed over.
PassTerminated ==
  /\ reader = "deliver" /\ todo # << >> /\ (OnlyOne \/ ~m_needToStop)
  /\ ~m_isInitialized[Head(todo)]
  /\ todo' = Tail(todo)
  /\ m_PacketSubscribers' = IF OnlyOne THEN << >> ELSE m_PacketSubscribers
  /\ UNCHANGED <<flags, m_isInitialized, delivery, clients, reader, m_lastPktId>>

OfferNext ==
  /\ reader = "deliver" /\ todo # << >> /\ (OnlyOne \/ ~m_needToStop)
  /\ m_isInitialized[Head(todo)]
  /\ reader' = "offer"
  /\ UNCHANGED <<flags, members, delivery, clients, todo, m_lastPktId>>

\* Mutant of Deliver: the packet is moved instead of cloned, and all subscribers
\* but the first get none.
DeliverMoved ==
  LET s == Head(todo)
      p == IF s = Head(m_PacketSubscribers) THEN m_lastPktId ELSE NoPacket
  IN  /\ m_packetQueue' = [m_packetQueue EXCEPT ![s] = Append(@, p)]
      /\ last' = [last EXCEPT ![s] = p]
      /\ todo' = Tail(todo)
      /\ reader' = "deliver"
      /\ UNCHANGED <<flags, members, clients, m_lastPktId>>

\* The packet goes into the queue of the subscriber at hand.
Deliver ==
  LET s == Head(todo)
  IN  /\ m_packetQueue' = [m_packetQueue EXCEPT ![s] = Append(@, m_lastPktId)]
      /\ last' = [last EXCEPT ![s] = m_lastPktId]
      /\ todo' = Tail(todo)
      /\ reader' = "deliver"
      /\ UNCHANGED <<flags, members, clients, m_lastPktId>>

\* NewPacket looks at m_isInitialized a second time and drops the packet if
\* the subscriber was terminated in between.
NewPacketDropped ==
  /\ reader = "offer" /\ ~m_isInitialized[Head(todo)]
  /\ todo' = Tail(todo)
  /\ reader' = "deliver"
  /\ UNCHANGED <<flags, members, delivery, clients, m_lastPktId>>

\* Mutant of NewPacketPushed: the queue is not asked whether it is full.
NewPacketOverfills ==
  /\ reader = "offer" /\ m_isInitialized[Head(todo)]
  /\ Deliver

NewPacketPushed ==
  /\ reader = "offer" /\ m_isInitialized[Head(todo)]
  /\ ~IsFull(m_packetQueue[Head(todo)])
  /\ Deliver

\* Mutant of NewPacketWaits: when the queue is full the packet is dropped.
NewPacketGivesUp ==
  /\ reader = "offer" /\ m_isInitialized[Head(todo)]
  /\ IsFull(m_packetQueue[Head(todo)])
  /\ todo' = Tail(todo)
  /\ reader' = "deliver"
  /\ UNCHANGED <<flags, members, delivery, clients, m_lastPktId>>

\* push_front blocks; the read thread keeps m_mtx.
NewPacketWaits ==
  /\ reader = "offer" /\ m_isInitialized[Head(todo)]
  /\ IsFull(m_packetQueue[Head(todo)])
  /\ reader' = "waiting"
  /\ UNCHANGED <<flags, members, delivery, clients, todo, m_lastPktId>>

PushResumes == reader = "woken" /\ Deliver

\* ReadPacket by the subscriber's thread; from an empty queue it returns no
\* packet and changes nothing.
ReadPacket(s) ==
  /\ m_packetQueue[s] # << >>
  /\ m_packetQueue' = [m_packetQueue EXCEPT ![s] = Tail(@)]
  /\ LET blocked == IF reader = "waiting" /\ Head(todo) = s THEN {"reader"} ELSE {}
     IN  \E W \in WokenByPop(m_packetQueue[s], blocked) :
           reader' = IF W = {} THEN reader ELSE "woken"
  /\ UNCHANGED <<flags, members, last, clients, todo, m_lastPktId>>

ClientStep(c) ==
  \/ StartOpens(c) \/ StartReads(c) \/ StartFails(c) \/ StartThrows(c) \/ Stop(c)
  \/ \E s \in Subscribers, what \in {"subscribe", "unsubscribe"} : Call(c, what, s)
  \/ SubscribeBody(c) \/ UnsubscribeBody(c)

ReaderStep ==
  \/ EnterLoop \/ ContinueLoop \/ LeaveLoop
  \/ ReadFrame \/ ReadOther
  \/ PublishCheck \/ PublishLock \/ PublishDone \/ PassTerminated \/ OfferNext
  \/ NewPacketDropped \/ NewPacketPushed \/ NewPacketWaits \/ PushResumes

SourceNext ==
  /\ reader # "crashed"
  /\ \/ \E c \in Clients : ClientStep(c)
     \/ \E s \in Subscribers : Terminate(s) \/ ReadPacket(s)
     \/ ReaderStep

SourceSpec == SourceInit /\ [][SourceNext]_sourceVars

\* The read thread runs and av_read_frame returns; a caller that asks for m_mtx
\* again and again between two packets gets it; subscribers keep reading as long
\* as they are not terminated.
SourceFairness ==
  /\ WF_sourceVars(ReaderStep)
  /\ \A c \in Clients :
       SF_sourceVars(reader # "crashed" /\ (SubscribeBody(c) \/ UnsubscribeBody(c)))
  /\ \A s \in Subscribers :
       WF_sourceVars(reader # "crashed" /\ m_isInitialized[s] /\ ReadPacket(s))

FairSourceSpec == SourceSpec /\ SourceFairness

----------------------------------------------------------------------------
TypeOK ==
  /\ m_needToStop \in BOOLEAN /\ m_isStarted \in BOOLEAN
  /\ m_lastPktId \in PktIds
  /\ m_PacketSubscribers \in Seq(Subscribers)
  /\ m_isInitialized \in [Subscribers -> BOOLEAN]
  /\ m_packetQueue \in [Subscribers -> Seq(PktIds)]
  /\ m_fmtCtx \in {"none", "open"}
  /\ opening \in Clients \cup {NoClient}
  /\ reader \in Publishing \cup {"none", "enter", "test", "reading", "publish",
                                 "lock", "exited", "crashed"}
  /\ todo \in Seq(Subscribers)
  /\ call \in [Clients -> Calls \cup {Idle}]
  /\ last \in [Subscribers -> PktIds \cup {NoPacket}]
  /\ {mutedAt, stoppedAt} \subseteq PktIds \cup {NoPacket} /\ stopLost \in BOOLEAN

Gains(s) == Len(m_packetQueue'[s]) > Len(m_packetQueue[s])

\* While a subscriber stays on the list it gets every video packet, in order
\* and once: each one it is given is the successor of the one before.  Only a
\* Start that takes back a Stop makes a gap, where publishToAll has seen the Stop.
NoGap ==
  [][\A s \in Subscribers :
       Gains(s) => \/ last[s] = NoPacket
                   \/ last'[s] = Succ(last[s])
                   \/ stopLost]_sourceVars

\* A packet reaches the queue of a subscriber only while the subscriber is on
\* the list: once an Unsubscribe that found m_needToStop clear has returned,
\* the queue only shrinks, even if the read thread was in the middle of a
\* publishToAll when it was called.
OnlyListedGain ==
  [][\A s \in Subscribers :
       Gains(s) => \E i \in DOMAIN m_PacketSubscribers :
                     m_PacketSubscribers[i] = s]_sourceVars

IsRest(t, list) ==
  /\ Len(t) <= Len(list)
  /\ \A i \in 1..Len(t) : t[i] = list[Len(list) - Len(t) + i]

\* The read thread walks the list by iterator while others want to change it:
\* what it has still to visit stays the tail of a list without duplicates.
ListWalk ==
  /\ \A i, j \in DOMAIN m_PacketSubscribers :
       m_PacketSubscribers[i] = m_PacketSubscribers[j] => i = j
  /\ IsRest(todo, m_PacketSubscribers)

\* Between two packets nobody lags behind: every live subscriber on the list
\* was given the last packet, unless it subscribed after that packet.  After
\* another Start this is over.
InLockStep ==
  reader \in {"test", "reading"} /\ ~m_needToStop /\ mutedAt = NoPacket /\ ~stopLost =>
    \A i \in DOMAIN m_PacketSubscribers :
      LET s == m_PacketSubscribers[i]
      IN  m_isInitialized[s] => last[s] \in {NoPacket, m_lastPktId}

\* The read thread waits, with m_mtx in its hand, only for a listed subscriber
\* whose queue is full: the next ReadPacket of that queue notifies it.  And no
\* queue holds more than its capacity.
WaitsForFullQueue ==
  /\ reader = "waiting" =>
       /\ IsFull(m_packetQueue[Head(todo)])
       /\ \E i \in DOMAIN m_PacketSubscribers : m_PacketSubscribers[i] = Head(todo)
  /\ \A s \in Subscribers : Len(m_packetQueue[s]) <= m_capacity

Listed == {m_PacketSubscribers[i] : i \in DOMAIN m_PacketSubscribers}

Promise == INSTANCE Broadcast WITH
             Capacity <- m_capacity, packet <- m_lastPktId, listed <- Listed,
             cursor <- last, queue <- m_packetQueue, lapse <- stopLost

\* With its threads, flags and mutex the source does what Broadcast promises.
ImplementsBroadcast == Promise!Spec

\* The read thread waits for the queue of a subscriber that was terminated:
\* Terminate does not wake it, and nobody has to read that queue any more.
WaitsForTerminated == reader = "waiting" /\ ~m_isInitialized[Head(todo)]

\* A Subscribe or Unsubscribe returns, although the read thread takes m_mtx for
\* every packet and blocks with it, unless it waits for good for a subscriber that
\* was terminated while its queue was full.  That is the only way to be kept.
CallReturns ==
  \A c \in Clients :
    call[c] # Idle ~> call[c] = Idle \/ reader = "crashed" \/ []WaitsForTerminated

\* Once the read thread exists, Stop ends it: neither a full queue nor a
\* blocked publishToAll keeps it from the next test of m_needToStop, unless the
\* queue is that of a terminated subscriber.  Only another Start takes it back.
StopEndsReader ==
  m_needToStop /\ reader # "none" ~>
    reader \in {"exited", "crashed"} \/ stopLost \/ []WaitsForTerminated

\* After Stop nothing that is read reaches anybody: the one packet in hand at the
\* Stop may still do, also to those whose Unsubscribe found m_needToStop set and
\* returned at once.
StopMutes ==
  [][\A s \in Subscribers :
       m_needToStop /\ Gains(s) => last'[s] = stoppedAt]_sourceVars

\* Another Start leaves the running read thread mute, for it clears m_isStarted,
\* which only a new thread would set: what is read from then on reaches nobody.
\* (At most the packet in hand still does.)
RestartMutes ==
  [][\A s \in Subscribers :
       mutedAt # NoPacket /\ Gains(s) => last'[s] = mutedAt]_sourceVars
=============================================================================
