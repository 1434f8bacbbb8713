----------------------------- MODULE FpsProgram -----------------------------
(***************************************************************************)
(* The whole program (src/src/main.cpp): the main thread, the read thread  *)
(* of AVPacketSource and the read thread of the one FrameCounter           *)
(* (src/src/frame-counter.cpp), from Subscribe to the destructors.  Main   *)
(* is the only client of the source, so its calls are those of             *)
(* AVPacketSource in the order main.cpp makes them.  Joining goes by the   *)
(* flag common::async::Thread keeps, as in module Thread.  The system may  *)
(* have no thread left for either of the two; that it has no memory left   *)
(* is not modelled.                                                        *)
(***************************************************************************)
EXTENDS AVPacketSource

CONSTANTS Main, Counter     \* the one client and the one subscriber

ASSUME OneOfEach == Clients = {Main} /\ Subscribers = {Counter}

VARIABLES
  main,            \* the place in main()
  stream,          \* what Start found: "none", "audio" only, or "video"
  decoder,         \* "closed", "failed" or "open", set by Setup and Close
  counter,         \* the place of FrameCounter's read thread
  c_needToStop,    \* FrameCounter::m_needToStop
  decoded,         \* history: the packet ReadPacket returned last
  early,           \* history: main went to its end before both threads ran
  thrown           \* history: FrameCounter::Start has thrown

programVars == <<sourceVars, main, stream, decoder, counter, c_needToStop, decoded, early, thrown>>
ending == <<early, thrown>>
counterVars == <<counter, c_needToStop, decoded>>
found == <<stream, decoder>>

Init == /\ SourceInit
        /\ main = "subscribe"
        /\ stream = "none"
        /\ decoder = "closed"
        /\ counter = "none"
        /\ c_needToStop = FALSE
        /\ decoded = 0
        /\ early = FALSE /\ thrown = FALSE

\* What Thread::isRunning says of the two threads.  Until a new thread has set
\* the flag it counts as not running.
ReaderRuns  == reader \notin {"none", "enter", "exited", "crashed"}
CounterRuns == counter \in {"test", "read", "decode"}

Goto(from, to) == main = from /\ main' = to

----------------------------------------------------------------------------
(* main(), in its order.                                                    *)

MainSubscribes ==
  /\ \/ Goto("subscribe", "subscribing") /\ Call(Main, "subscribe", Counter)
     \/ Goto("subscribing", "open") /\ SubscribeBody(Main)
  /\ UNCHANGED <<found, counterVars, ending>>

MainOpens ==
  /\ Goto("open", "opening") /\ StartOpens(Main)
  /\ UNCHANGED <<found, counterVars, ending>>

\* Start sets up the subscriber before the read thread exists: FrameCounter
\* opens a decoder for the video stream, if there is one and libav has one.  The
\* decoder stays open if the thread is not to be had.
MainStarts ==
  /\ Goto("opening", "startCounter") /\ (StartReads(Main) \/ StartThrows(Main))
  /\ stream' \in {"audio", "video"}
  /\ decoder' \in IF stream' = "video" THEN {"open", "failed"} ELSE {"closed"}
  /\ UNCHANGED <<counterVars, ending>>

\* main does not look at what Start returned.
MainFailsToStart ==
  /\ Goto("opening", "startCounter") /\ StartFails(Main)
  /\ UNCHANGED <<found, counterVars, ending>>

\* Mutant of MainStartsCounter: no thread is started.
MainStartsNoCounter ==
  /\ Goto("startCounter", "input")
  /\ UNCHANGED <<sourceVars, found, counterVars, ending>>

\* FrameCounter::Start does nothing without a decoder.
MainStartsCounter ==
  /\ Goto("startCounter", "input")
  /\ IF decoder = "open"
     THEN c_needToStop' = FALSE /\ counter' = "spawned" /\ UNCHANGED decoded
     ELSE UNCHANGED counterVars
  /\ UNCHANGED <<sourceVars, found, ending>>

\* With no thread to be had FrameCounter::Start throws, out of the block: main
\* goes on with the destructors, and has neither unsubscribed nor stopped anyone.
MainThrows ==
  /\ Goto("startCounter", "joinReader") /\ decoder = "open"
  /\ c_needToStop' = FALSE
  /\ thrown' = TRUE
  /\ early' = (reader = "enter")
  /\ UNCHANGED <<sourceVars, found, counter, decoded>>

\* Mutant of Quit: the counter stays on the list.
QuitSubscribed ==
  /\ Goto("input", "stopCounter")
  /\ early' = (reader = "enter" \/ counter = "spawned")
  /\ UNCHANGED <<sourceVars, found, counterVars, thrown>>

Quit ==
  /\ Goto("input", "unsubscribe")
  /\ early' = (reader = "enter" \/ counter = "spawned")
  /\ UNCHANGED <<sourceVars, found, counterVars, thrown>>

MainUnsubscribes ==
  /\ \/ Goto("unsubscribe", "unsubscribing") /\ Call(Main, "unsubscribe", Counter)
     \/ Goto("unsubscribing", "stopCounter") /\ UnsubscribeBody(Main)
  /\ UNCHANGED <<found, counterVars, ending>>

\* FrameCounter::Stop: the flag, then join and Close.
MainStopsCounter ==
  /\ Goto("stopCounter", "joinCounter")
  /\ c_needToStop' = TRUE
  /\ UNCHANGED <<sourceVars, found, counter, decoded, ending>>

\* Mutant of MainJoinsCounter: Close without the join.
MainClosesDecoder ==
  /\ Goto("joinCounter", "stopSource")
  /\ decoder' = IF decoder = "open" THEN "closed" ELSE decoder
  /\ UNCHANGED <<sourceVars, stream, counterVars, ending>>

MainJoinsCounter ==
  /\ Goto("joinCounter", "stopSource") /\ ~CounterRuns
  /\ decoder' = IF decoder = "open" THEN "closed" ELSE decoder
  /\ UNCHANGED <<sourceVars, stream, counterVars, ending>>

MainStopsSource ==
  /\ Goto("stopSource", "joinReader") /\ Stop(Main)
  /\ UNCHANGED <<found, counterVars, ending>>

\* Mutant of MainDestroysSource: ~Thread() does not join.
MainDropsSource ==
  /\ Goto("joinReader", "destroyCounter")
  /\ UNCHANGED <<sourceVars, found, counterVars, ending>>

\* The destructors, in reverse order of construction.  ~AVPacketSource joins
\* the read thread, ~FrameCounter has nothing left to join.
MainDestroysSource ==
  /\ Goto("joinReader", "destroyCounter") /\ ~ReaderRuns
  /\ UNCHANGED <<sourceVars, found, counterVars, ending>>

MainExits ==
  /\ Goto("destroyCounter", "exited") /\ ~CounterRuns
  /\ UNCHANGED <<sourceVars, found, counterVars, ending>>

----------------------------------------------------------------------------
(* FrameCounter::readLoop.                                                  *)

CounterBegins ==
  /\ counter = "spawned"
  /\ counter' = "test"
  /\ UNCHANGED <<sourceVars, main, found, c_needToStop, decoded, ending>>

CounterTests ==
  /\ counter = "test"
  /\ IF c_needToStop
     THEN counter' = "ended" /\ c_needToStop' = FALSE
     ELSE counter' = "read" /\ UNCHANGED c_needToStop
  /\ UNCHANGED <<sourceVars, main, found, decoded, ending>>

\* No packet: the loop sleeps and goes on.
CounterSleeps ==
  /\ counter = "read" /\ m_packetQueue[Counter] = << >>
  /\ counter' = "test"
  /\ UNCHANGED <<sourceVars, main, found, c_needToStop, decoded, ending>>

\* Mutant of CounterReads: no test of whether ReadPacket had a packet.
CounterReadsUnchecked ==
  /\ counter = "read"
  /\ counter' = "decode"
  /\ IF m_packetQueue[Counter] = << >>
     THEN decoded' = NoPacket /\ UNCHANGED sourceVars
     ELSE ReadPacket(Counter) /\ decoded' = Head(m_packetQueue[Counter])
  /\ UNCHANGED <<main, found, c_needToStop, ending>>

CounterReads ==
  /\ counter = "read" /\ ReadPacket(Counter)
  /\ counter' = "decode"
  /\ decoded' = Head(m_packetQueue[Counter])
  /\ UNCHANGED <<main, found, c_needToStop, ending>>

\* Decode, with the callbacks it makes: see FrameRate.
CounterDecodes ==
  /\ counter = "decode"
  /\ counter' = "test"
  /\ UNCHANGED <<sourceVars, main, found, c_needToStop, decoded, ending>>

----------------------------------------------------------------------------
\* The read thread finds video packets only in a video stream.
SourceReads ==
  /\ ReaderStep
  /\ ReadFrame => stream = "video"
  /\ UNCHANGED <<main, found, counterVars, ending>>

\* The process is there until main returns or the read thread crashes it.
Alive == main # "exited" /\ reader # "crashed"

MainRuns ==
  Alive /\ \/ MainSubscribes \/ MainOpens \/ MainStarts \/ MainFailsToStart
           \/ MainStartsCounter \/ MainThrows \/ MainStopsCounter \/ MainJoinsCounter
           \/ MainStopsSource \/ MainDestroysSource \/ MainExits

MainUnsubscribed == Alive /\ MainUnsubscribes

ReaderRun == Alive /\ SourceReads

CounterRun ==
  Alive /\ \/ CounterBegins \/ CounterTests \/ CounterSleeps
           \/ CounterReads \/ CounterDecodes

Next == MainRuns \/ MainUnsubscribed \/ (Alive /\ Quit) \/ ReaderRun \/ CounterRun

Spec == Init /\ [][Next]_programVars

\* Threads get to run and av_read_frame returns; main gets the m_mtx it waits
\* for in Unsubscribe.  Nobody has to type "quit".
Fairness == /\ WF_programVars(MainRuns)
            /\ SF_programVars(MainUnsubscribed)
            /\ WF_programVars(ReaderRun)
            /\ WF_programVars(CounterRun)

FairSpec == Spec /\ Fairness

----------------------------------------------------------------------------
ProgramTypeOK ==
  /\ TypeOK
  /\ main \in {"subscribe", "subscribing", "open", "opening", "startCounter",
               "input", "unsubscribe", "unsubscribing", "stopCounter",
               "joinCounter", "stopSource", "joinReader", "destroyCounter",
               "exited"}
  /\ stream \in {"none", "audio", "video"}
  /\ decoder \in {"closed", "failed", "open"}
  /\ counter \in {"none", "spawned", "test", "read", "decode", "ended"}
  /\ c_needToStop \in BOOLEAN /\ decoded \in PktIds /\ early \in BOOLEAN /\ thrown \in BOOLEAN

Startup == {"subscribe", "subscribing", "open", "opening", "startCounter"}

\* The read thread waits for a queue that nobody will ever read again.
ReaderIsStuck ==
  reader = "waiting" /\ counter \in {"none", "ended"} /\ main \notin Startup

\* The read thread is left blocked for good only where a video stream was found
\* whose decoder did not open, or FrameCounter::Start threw: the counter stays
\* subscribed, the queue fills up and no counter thread reads it.  In every other
\* run, shutdown included, a thread that reads is there or the queue has room.
StuckOnlyWithoutDecoder == ReaderIsStuck => decoder = "failed" \/ thrown

\* "quit" ends the program, whatever the threads are at when it comes, unless
\* the read thread is stuck for want of a decoder: then Unsubscribe waits for
\* m_mtx for ever.  (After FrameCounter::Start has thrown, ~AVPacketSource joins a
\* read thread that nobody told to stop.)
QuitEnds ==
  main \notin Startup \cup {"input"} /\ ~thrown ~>
    \/ main = "exited" \/ reader = "crashed"
    \/ ReaderIsStuck /\ decoder = "failed"

\* Close takes the codec away only when nobody decodes any more.
DecodeWhileOpen == counter = "decode" => decoder = "open"

\* The counter decodes every video packet that was read, each once, in the order
\* of reading, from the first one of the stream on: none is lost at the start,
\* where main subscribes before it starts, nor while the queue is full, nor
\* once quit has been typed.
DecodesInOrder ==
  [][counter = "read" /\ counter' = "decode" => decoded' = Succ(decoded)]_programVars

\* The source and the counter are destroyed only after the threads that use
\* them have left their loops, provided that both ran when "quit" came, or the
\* read thread when FrameCounter::Start threw.
ThreadsEndFirst ==
  ~early =>
    /\ main = "destroyCounter" => reader \in {"none", "exited"}
    /\ main = "exited" => counter \in {"none", "ended"}
=============================================================================
