# Verification of the frame rate counter

The repository is a small program that opens a media URL with libav, decodes its
video stream and logs the frame rate it computes from the presentation times
(`src/README.md`: "a test using libav to calculate fps from pts"). This
directory holds TLA+ models of it, the TLC runs that check them and the TLAPS
proofs about them. `PROJECT.json` lists, for every definition that models code,
the lines it models.

Paths below are relative to `src/src/`.

## 1. The system

Three threads: **main** (`main.cpp`), the **read thread** of `AVPacketSource`
and the **counter thread** of the one `FrameCounter`.

```
 main ---- Subscribe / Start / Unsubscribe / Stop ----> AVPacketSource
   |                                                        |  owns
   |                                                   read thread: av_read_frame
   |                                                        |  publishToAll, holds m_mtx
   |                                                        v
   +---- Start / Stop ----> FrameCounter <-- NewPacket -- PacketSourceSubscriber
                                |  owns                     |  CircularBuffer (50)
                           counter thread <---- ReadPacket -+
                                |
                           VideoDecoder.Decode --frameCallback--> "frame-rate is ..."
```

| Component | State | Operations | Who calls |
|---|---|---|---|
| `common/circular-buffer.hpp` CircularBuffer | `m_queue`, waiters on `m_isFull` | `push_front` (blocks), `pop_back`, `clear` | read thread pushes, counter thread pops |
| `common/thread.cpp` Thread | `Context` flags shared with the system thread, `m_handle` | `start`, `join`, `waitForExit`, destructor | main; the owners' destructors |
| `packet-source.cpp` AVPacketSource | subscriber list, `m_needToStop`, `m_isStarted`, packet number | `Start`, `Stop`, `Subscribe`, `Unsubscribe`, `readLoop`, `publishToAll` | main; the read thread |
| `packet-source-subscriber.cpp` | `m_isInitialized`, packet queue | `NewPacket`, `ReadPacket`, `Terminate` | read thread; counter thread; anyone |
| `frame-counter.cpp` FrameCounter | `m_needToStop`, the window (`m_frameCounts`, `m_lastFrameTime`, `m_currentDuration`), `m_fps` | `Setup`, `Start`, `Stop`, `readLoop`, `frameCallback` | main; `AVPacketSource::Start`; counter thread |
| `media/video-decoder.cpp` VideoDecoder | `m_isReady`, `m_needToStop`, codec context | `Open`, `Decode`, `Flush`, `Close` | Setup on main; counter thread; main |
| `media/packet.cpp` Packet | bytes, capacity, id, flags, times | `CreateFromAVPacket`, `Clone`, flag accessors | read thread |
| `media/frame.cpp` Frame | one AVFrame | `Create`, accessors | counter thread |
| `media/ffmpeg.cpp`, `common/random-string.cpp`, `common/config.hpp`, logging in `libs/` | none that matters here | | |

### What is hard

* `push_front` waits with an `if` and pushes when woken without looking at the
  queue again; `pop_back` notifies only when it found the queue full; `clear`
  notifies nobody.
* The read thread keeps `m_mtx` through a whole `publishToAll`, and so through
  a `push_front` that blocks. `Subscribe` and `Unsubscribe` wait for that mutex.
* `m_needToStop`, `m_isStarted`, `m_isInitialized` and every field of
  `Thread::Context` are plain bools. They are read before the mutex is taken, or
  with none at all.
* `join` and the destructor of Thread decide by `Context::running`, which the new
  thread sets some time after `start` has returned.
* The three threads can only end if main makes its calls in the right order, and
  one of these calls waits for a mutex that the read thread may hold for ever.
* `Start` may be called again, `Stop` may come while it opens the input, and
  `m_readThrd.start` refuses or throws; the flags of the source and those of its
  thread then disagree.
* `Decode` sends, and on EAGAIN receives and sends again; its result speaks of the
  last receive. What an error leaves in the codec meets the next call.
* A packet is copied field by field, in `CreateFromAVPacket` and in `Clone`, and
  `checkData` rebuilds its flags whenever bytes are stored.
* `frameCallback` cuts a 64-bit difference down to an `int`, starts measuring at
  time 0, and uses one frame both to end a window and to open the next.

### What makes each component correct

| Component | Properties |
|---|---|
| CircularBuffer | keeps its capacity; no push waits beside a free place; every element leaves once and in order; a push that waits returns while somebody reads |
| Thread | when `join` says the thread has exited, its target is over; so it is when the destructor returns; the context is not used after it is freed; a wrapper can be used again |
| AVPacketSource | a subscriber on the list gets every video packet once and in order, one that is not gets none; nobody lags behind; calls return; Stop ends the read thread; after another Start the old read thread gives nothing more |
| VideoDecoder | the codec gets every packet at most once and in order; `true` means it got it; no frame is kept back from the callback; no context is lost but by a failed Open |
| Packet | what the codec is sent is what libav read, through any number of clones |
| FrameCounter | windows join without gap or overlap; frames and time agree; the rate reported is that of the stream |
| main | `quit` ends the program; nothing is decoded after Close; nothing is destroyed under a running thread |

## 2. The modules

| Module | What it is |
|---|---|
| `BufferOps` | what `push_front` and `pop_back` test and notify, as operators shared by the two modules that contain a queue |
| `BoundedChannel` | **abstract**: what a bounded blocking FIFO channel promises to its users |
| `CircularBuffer` | the buffer with any number of threads; shown to implement `BoundedChannel` |
| `CircularBufferProofs` | its theorems |
| `Broadcast` | **abstract**: what a packet source promises to its subscribers |
| `AVPacketSource` | source and subscribers: clients, read thread, readers of the queues; shown to implement `Broadcast` |
| `AVPacketSourceProofs` | its theorems |
| `Thread` | the owner and the system thread, and the context they share |
| `ThreadProofs` | its theorems |
| `FrameRate` | `frameCallback` |
| `FrameRateProofs` | its theorems |
| `Packet` | the methods of Packet as operators on a record |
| `VideoDecoder` | `Open`, `Decode`, `Flush`, `Close` around a codec, one step per call of libav |
| `DecodePath` | **composes** `Packet` and `VideoDecoder` (EXTENDS) with what the program does with a packet between `av_read_frame` and the codec |
| `DecodePathProofs` | its theorems |
| `FpsProgram` | the program; **composes** `AVPacketSource` (EXTENDS) with main and the counter thread |
| `FpsProgramProofs` | its theorems |
| `MC...` | instances for TLC |

**CircularBuffer.** Each method holds `m_mutex` for its whole body, so each is
one action; `push_front` on a full queue is two, `PushWait` and `Resume`, because
`wait` gives the mutex back. `waiting` are the threads in `wait`, `woken` those
that were notified and have not got the mutex again; between the two another
producer may run. `queue` lists the oldest element first: in spite of its name
`push_front` appends to the deque. `hand` is the argument of a blocked call, `got`
the last result of `pop_back`. `SpuriousWake` is what the C++ standard allows.

**AVPacketSource.** `reader` is the place of the read thread in
`readLoop`/`publishToAll`/`NewPacket`. Where it holds `m_mtx` is the set
`Publishing`; no other thread keeps the mutex for more than one step, so
the mutex needs no variable. Reading a flag, taking the mutex, walking to the
next subscriber and pushing are separate steps, so that a `Stop`,
`Terminate` or `ReadPacket` can come between any two. `todo` is what the list
iterator has still to visit. `call` holds a client that has passed the test of
`m_needToStop` and waits for `m_mtx`. A packet is its number modulo `IdSpace`.
libav is external: `av_read_frame` may yield a video packet, another packet, or
the end. `CreateFromAVPacket` returns null below two bytes and the loop uses the
result before testing it, hence `reader = "crashed"`.

`Start` is three steps, because opening the input takes its time: `StartOpens`
clears `m_isStarted`, then `StartReads`, `StartFails` or `StartThrows` ends it;
`opening` is the client inside. One client at a time is inside `Start`, but any
may call it again, whatever the read thread is at. `ThreadStarts` is what
`Thread::start` then does: nothing while the thread counts as running,
`std::terminate` if it has not begun or was not joined. `m_fmtCtx` says whether
there is an input; `av_read_frame` without one may end the program. Four
histories are for the properties: `last` (what a subscriber was given last),
`mutedAt` (the packet in hand when another Start cleared `m_isStarted`), `stoppedAt`
(the packet in hand at the Stop that is in force) and `stopLost` (a Start cleared a
`Stop` meant for a living read thread). Spurious wakeups are left to
`CircularBuffer`: what the source and `Broadcast` say of the capacity of a queue holds
without them.

`Broadcast` knows packets, the set of subscribers listed, one queue and one
cursor for each, and whether there was a lapse. The refinement maps the list to its set, `last` to the cursor and
`stopLost` to the lapse.

**Thread.** `os` is where the system thread is, `running` and `threadIsAlive`
what the context says of it, `m_handle` the `std::thread`. `fault` records
what would end the program: `std::terminate` from destroying a joinable
`std::thread`, or a write to a freed context. The owner may call anything at any
time; the history `hasty` remembers what it did too early: `"call"`, a join, wait or
destructor before `runAsync` had set `running`, and `"start"`, a restart of a thread
it had not really joined. A real join clears it. The properties say of whom they
hold by it.

**FrameRate.** One action, `frameCallback`, for any presentation time. `int` is
the conversion to a signed integer of `2 * IntHalf` values; `m_currentDuration +=
duration` is reduced the same way. (Signed overflow is undefined in C++; the
wrap-around is what compilers for the supported targets generate for this
addition.) `Milliseconds` is `av_rescale_q_rnd` with its rounding; 64-bit overflow
inside libav is not modelled. Histories for the properties: `lastPts`, the frame
before; `opened` and `gaps`, where the open window began and the least and the most
time between two of its frames; `reports` and `report`, how many windows have been
reported and the one just reported.

**Packet, VideoDecoder, DecodePath.** A packet is a record of the fields the
program reads; its bytes are the pieces stored in them. The codec is external and
follows the contract of libav: `avcodec_send_packet` may answer EAGAIN only while
a frame waits, a null packet starts draining, in which no packet is taken until
`avcodec_flush_buffers`, and any call may fail, which may cost a frame. `at` is the place in `Decode`, `call`
whether `Flush` called it. `Open` fails at each of its returns, with the context it
leaves behind; `leaked` counts contexts nothing points to. `DecodePath` adds the
client: packets of several kinds are read, cloned, changed by `Add`, `AddFlag`,
`RemoveFlag` or `Clear`, decoded; the decoder is opened, flushed, closed and
opened again. The last four of these methods, `Flush` and a second `Open` are not
called by the program and are there because they are its interface. What `Flush`
sends again after EAGAIN is `m_avpacket`, whose bytes belong to a packet that may
be gone; the model lets it be the packet it was.

**FpsProgram.** main is the only client and the counter the only subscriber,
and the actions of main are those of `AVPacketSource` conjoined with a program
counter. `Start` may fail, or find no video stream, or find one for which
`VideoDecoder::Open` fails; main looks at none of these results. Joining goes by
`isRunning` as in `Thread`. `early` records that `quit` came before both new
threads had run, and `decoded` is the packet the counter took from its queue last. If the system has no thread for the source, `Start` returns false
with the decoder open (`StartThrows`); if it has none for the counter,
`FrameCounter::Start` throws and main goes straight to the destructors
(`MainThrows`). Decoding a packet is one step that may take any time.

Plain bools are modelled as sequentially consistent single accesses. They are data
races in C++, but each loop that reads one calls an opaque function (libav, a
mutex, `usleep`) in between, so no compiler may keep the value in a register across
iterations.

## 3. The runs

| Run | Question | Result |
|---|---|---|
| `buffer_one` | One producer, one consumer, three places: the way the program uses the buffer. Is it a fair FIFO channel that keeps its capacity? | yes |
| `buffer_many` | Three producers, two consumers, `clear`, one spurious wakeup: how far can it be overfilled, and is anything lost, doubled or reordered? | by one per producer but one, and one per spurious wakeup; no |
| `buffer_spurious` | Is the capacity kept under a spurious wakeup? | **no**, finding 1 |
| `source_safety` | Two clients, two subscribers, queues of one place, all interleavings with the read thread, `Terminate`, `Stop` and further calls of `Start`. Does each listed subscriber get each packet, in order, and no other? Does the iterator survive? Does the source do what `Broadcast` promises? After Stop, does anything more reach anybody? | yes, but for the packets passed over where a `Start` takes back a `Stop`; the packet in hand only |
| `source_liveness` | Do calls return and does Stop end the read thread, if subscribers read until they are terminated? | yes, unless the read thread waits for the queue of a terminated subscriber |
| `thread_owner` | Any owner, three threads at most: are the flags true, what are joins and the destructor worth, who may free the context under a thread? | the flags are true; who asked before `running` was set may be told wrongly, nobody in the middle of the target |
| `thread_join` | Is the thread over whenever `join` has said so? | **no**, finding 2 |
| `thread_reuse` | May a wrapper whose thread has exited be started again? | **no**, finding 3 |
| `rate_steady` | Any sequence of times on a time base that is exact in milliseconds and on one that is not, with overflow of the int: do windows join, do counts agree, and is a forward stream, evenly spaced or not, reported with its rate? | yes, from the second report on; the first reports the rate times what the time before the first frame leaves of the target |
| `rate_first` | And in the first report? | **no**, finding 4 |
| `program` | The three threads from Subscribe to the last destructor: does `quit` end the program? Is every video packet decoded, once and in order? | yes, unless the decoder did not open or a thread was not to be had; yes |
| `decoder` | Three packets of three kinds through `Packet`, its clones and `Decode`, with a codec that keeps two packets, delays, answers EAGAIN, fails and drains, two Opens, `Flush` and `Close` at any time between calls. Does the codec get what was read, once and in order? What is the word of `Decode` worth? | yes; `true` may be said of a packet the codec refused, only after a receive has failed |

`program` has its main result on its end in two properties. `StuckOnlyWithoutDecoder`
characterises the one permanent blockage: a video stream whose decoder does not
open leaves the counter subscribed with nobody to read its queue; once the queue is
full the read thread waits with `m_mtx` in its hand. `QuitEnds` then says that in
that case and no other, `quit` may not end the program (`Unsubscribe` waits for
`m_mtx`). The order of the calls in main matters for it: with `Unsubscribe` after
`frameCounter->Stop()`, as in the mutant `QuitSubscribed`, the read thread would be
left waiting for a queue without a reader. `MainThrows` is a second way to the
blockage: the source is destroyed with nobody having stopped its read thread.
`DecodesInOrder` is the program's result end to end: although the flags of the source
are read without the mutex, the queue blocks, and `quit` may come at any time, the
counter decodes the packets 1, 2, 3, ... of the stream up to where it stops.

`SteadyRate` says what the reported number is worth. A window of `n` frames is over
when more than the target has passed, so the rate lies between the rates of a stream
with all gaps as long as the longest and one with all as short as the shortest, to
the frame that the integer division may lose and the millisecond that rounding may
cost. `missing` is what the first window has counted before its first frame.

`decoder` finds the resend after EAGAIN harmless in an undisturbed stream, since
`Decode` leaves no frame waiting (`EmptiedBetweenCalls`); only a receive that
failed (`troubled`) leads to EAGAIN at the next packet, and only then can `Decode`
say `true` of a packet that was refused, or `Flush` send one twice. In
`source_safety` another `Start` under a running read thread leaves it mute
(`RestartMutes`): it clears `m_isStarted`, which only a new thread would set again.
`StopMutes` is the other half: an `Unsubscribe` after `Stop` returns without taking its
subscriber off the list, and a `Subscribe` that was waiting for the mutex is carried
out after it; neither gets more than the packet that was in hand at the Stop, although
`publishToAll` looks at the flag before it takes the mutex and, with one subscriber,
not again.

`source_liveness` names the one way in which the source is blocked for good:
`WaitsForTerminated`. `Terminate` does not notify `m_isFull`, so a read thread that
waits for that queue waits for a reader that is no longer obliged to come, with
`m_mtx` in its hand. `CallReturns` and `StopEndsReader` say that nothing else keeps a
call or the read thread. In the program nobody calls `Terminate`.

### Findings

1. `common/circular-buffer.hpp:24`: a full queue is tested for with `if`; the
   element is pushed after any wakeup.
2. `common/thread.cpp:66`: `join` returns at once for a thread that has been
   started and has not run yet; `common/thread.hpp:25` says "Waits until the
   thread exits."
3. `common/thread.cpp:104`: restarting a wrapper whose thread ended and was not
   joined destroys a joinable `std::thread`, which is `std::terminate`;
   `common/thread.hpp:65` speaks of a context that is to be reused.
4. `frame-counter.cpp:69`: the first window is measured from time 0, not
   from its first frame.

### Bounds, and why they are enough

* Queues have 1 to 3 places instead of 50: the code distinguishes full, empty and
  in between; a capacity of 1 makes every push after the first block. The
  theorems about the buffer hold for every capacity.
* Two subscribers and two clients are the least for which the list is walked
  with clones, a call overlaps another one, and one subscriber's full queue delays
  another. Three producers are the least for which two woken pushes overlap.
* `IdSpace` is 2 in `source_safety` and 3 in `program`: a lost or repeated packet differs from its
  successor modulo 2 or 3 unless exactly that many are lost at once, which the
  step-wise form of `NoGap` excludes. `source_liveness` has 1: its properties
  ask nothing of the numbers. The theorems hold for every `IdSpace`.
* `MaxHeld` = 2 packets the codec keeps to itself are the least for which one frame
  waits while another is still decoded; `MaxReads` = 3 packets fill it and meet
  EAGAIN with the next; `MaxOpens` = 2 are the least for which an Open follows a
  failed one or a Close. `Kinds` has a key frame by libav's word and one by its
  bytes, a corrupt packet, a size above and below the capacity of 3 and a
  duration that is no int of 4 values.
* `MaxSpurious` = 1 and `MaxStarts` = 1 to 3 bound how often the environment repeats
  itself: three threads are the least for which a start follows a thread that was
  joined and one that was not. `MaxCount` = 6 frames in one window; a window of more frames than its
  time allows needs times that stand still or go back.
* Times of `FrameRate` reach from -0.7 s to 7 s, more than three targets, and an int
  from -4096 to 4095, so that jumps overflow. On the second time base, 2001/3001, the
  rounding decides whether three ticks end a window. The theorems need none of these
  bounds.

### Fairness

* The read thread (until it has crashed), the counter thread and main are weakly
  fair: the system schedules them, and `av_read_frame` and `Decode` return. `av_read_frame` has no
  timeout in this program; on a source that falls silent nothing is owed, and the
  liveness properties say so by resting on this assumption.
* A client waiting for `m_mtx` is *strongly* fair: the mutex is free again and again
  between packets, and a waiter that is not always passed over gets it.
* Subscribers go on reading until they are terminated (`ReadPacket` weakly fair) in
  `AVPacketSource`, where they are the environment. In `FpsProgram` this assumption is gone: the counter
  thread reads only while its loop runs.
* Nobody is obliged to push, to call Stop, or to type `quit`.

Deadlock is checked in `buffer_one`. In the others the system may really stop (a
producer after `clear`, a reader that has ended, a wrapper that is destroyed, the
program's exit), and the cfg says so.

## 4. The proofs

Proved with TLAPS for every value of the constants, under the named assumptions of
the modules only.

**CircularBufferProofs** (any producers, consumers, capacity, spurious wakeups).
`TypesAndHands` proves the types together with `HandsMatchWaits`: an element is
held back exactly for the threads in `waiting` or `woken`, which are disjoint.
`Overrun` needs no more than counting: only a thread in `woken` pushes into a
full queue, `pop_back` wakes at most one and only while making room, and a spurious
wakeup is counted; the case of a notification while places are already claimed is
where the bound per producer comes from. `OneProducerKeepsCapacity` and
`OneProducerNotStranded` are the instance the program uses: with one producer the
thread that is waiting is the only one that could fill the queue, so the queue
stays full until a pop wakes it. `Refinement` proves that every step is a step of
`BoundedChannel` or a stutter; the guard of `Accept` is where `Overrun` is used.

**AVPacketSourceProofs** (any clients, subscribers, capacity, packet numbers). The
invariant `IInv` has five parts, each proved to be kept step by step in a lemma of
its own. `TypeOK`. `Walk`: `ListWalk`, and what is still to be visited is
there only while `m_mtx` is held; the list changes only where it is free, or where
`publishToAll` itself empties it. `Room`: a read thread that waits does so on a full
queue, so that the pop that wakes it leaves room, and only it could take the room
again. `Flags`: once another Start has cleared `m_isStarted` inside the loop, it
stays cleared and at most the packet in hand is on its way, and so it is after a Stop.
`Step`: at each place
of the read thread, which packet a live listed subscriber was given last; it is the
packet before where one is still due and the present one where it was visited.
`InLockStep` and `NoGap` follow from `Step`, `RestartMutes` and `StopMutes` from `Flags`, the others
from `Walk` and `Room`. `Step` is claimed only while no Stop was lost: a
`publishToAll` that saw the Stop has passed over subscribers that the next one
serves again. `SublistFacts` carries the argument about lists: what
`removeTerminatedPacketSource` leaves is the list at an increasing sequence of
places, so that no induction is needed. `ListIsKept` uses it the other way round: whoever is not terminated has a place
in the list that is left, so nobody leaves but by an `Unsubscribe` of its own.
`Refinement` shows every step to be one of `Broadcast` or a stutter; `Give` needs `Step` for the order
and `Room` for the capacity.

**ThreadProofs** (any owner, any number of starts). `Agreement` is the inductive
invariant: the flags say where the system thread is, as long as the context lives and
no fault has ended the program; of `threadIsAlive` only if the owner starts what it has
joined, for a `start` that throws has reset it. `ContextTruthful` follows.
`JoinsOnlyJoinable`: a `join` that blocks has a thread to join. `OnlyTooEarly`: nobody
is told of an exit, and no destructor lets the thread go, in the middle of the target,
because the flag that was read is true; finding 2 is confined to the time before
`startAsync` has set `running`. `Learnt` adds to `Agreement` what an owner may conclude
that has not asked that early: said to have exited, let go or freed, the target is over.
From it `PatientIsRight` and `FinishesInContext`. Without `"call" \notin hasty` the first
is refuted by `thread_join`.

**FrameRateProofs** (any times, time bases, width of int). Two lemmas about `int`:
it changes a number by a multiple of the number of ints and is the only value in
range to do so (`IntForm`, `IntUnique`), hence converting the parts of a sum
first changes nothing (`IntSum`). `WindowsJoin` follows by induction: the
converted differences add up to the converted length. `CountsAgree` needs `SingleFrame`
(a window without a gap has one frame); `GapsGrow` adds one frame and one gap to
each of its two inequalities. About `Milliseconds`, that rounding moves a time by
half a millisecond at most (`MillisecondsNear`), so that a length of time is
within one millisecond of itself (`MillisecondsBetween`) and time does not turn
round (`MillisecondsForward`). `SteadyRateReported` needs all this and the invariant
`RateInv`: an open steady window is within the target in the time of the stream,
so that the conversion does nothing to it (`WithinTarget`), and the window just
reported is one that went beyond it with its last frame and not before (`ReportFits`).
`WindowFits` and `WindowHolds` turn that into bounds on the longest and the shortest
gap, `RateFits` these into the two inequalities of `RateOf`. Its one hypothesis,
that the target is a number of whole seconds, is what `m_targetDuration/1000` loses
otherwise; main passes 2000.

**FpsProgramProofs** (any capacity of the queue, any numbering). `UsesSource` shows
that every step of the program is one of `AVPacketSource` with one client and one
subscriber, or a stutter, so the theorems about the source hold in the program.
`ProgramInv` adds four parts. `ProgramTypeOK`. `Counting`: the counter thread
decodes only while the decoder is open, and one that begins after main has passed
`FrameCounter::Stop` finds `m_needToStop` set and does not enter its loop; this is what
makes the `join` that returns too early harmless here. `Reading`: with no video
stream nothing is published, after `Unsubscribe` the list is empty, and while the
read thread waits in `push_front` the counter is on the list; so a read thread that
waits for good, waits for a counter that was set up without a decoder, or that main
has left by an exception. `Ending`: once `quit` was typed nobody is still to
begin, unless it came `early`. `DecodesWhileOpen`, `StuckForWantOfDecoder` and
`EndsInOrder` follow. `OrderInv`, on top of the invariants of the program and of the
source, follows the packets. `Undisturbed`: this program does none of what may cost a
listed subscriber a packet (no `Terminate`, no second `Start`, no `Stop` while the
counter is on the list). `Fed`: the counter was given every packet but the one in the read thread's
hand. `Backlog`: its queue holds what it was given and has not decoded, without a gap; `Wraps`
is the arithmetic of numbers that wrap. `Subscribed`: main has the counter on the
list from Subscribe to Unsubscribe. From these, `DecodesEveryPacket`, and
`EveryPacketIsThere`: between two packets what was read has been decoded or is in the queue.
`NoCircularWait` is what of `QuitEnds` is a safety property: the mutex main waits for
is held by a read thread that can go on or waits for a counter that reads, and whoever
is joined has been told to end (`ToldToEnd`) and does not wait; with the fairness of
the three threads, which only TLC can argue from, `quit` then ends the program.

**DecodePathProofs** (any packets, capacity, width of int, codec that keeps any
number of packets). `IInv` is `TypeOK`, `MarksSurvive` and three parts. `Origin`:
the packet in the client's hand, and the one in `m_avpacket` during a Decode, carry
what was read and begin with a number that nothing in the codec has; while a Decode
goes on the client has no packet in hand; and what a Flush could send again
(`Resendable`) is older than the packet in hand, without which a Flush would
spoil the order for the next Decode. `Contexts`: a context that is there
while the decoder is not ready is the one that the last failed Open left, and is
not yet counted, hence `leaked < failed` there. `Course`: for each place in a call,
whether the codec may drain or have a frame waiting, and that the resend is reached
only in trouble. All properties of the run `decoder` follow. The lemmas about packets
(`Stored`, `Added`, `Created`, `Cloned` ...) say what each method keeps. A second
invariant, `InLine`, is about order: the frame shown last, the packets in the codec in
their order, and the packet in `m_avpacket` stand in the order of reading, but for a
Flush that met a failed receive. `LineStep` keeps it through every answer the codec may
give; `ShownInOrder` follows: frames come out in order and none comes twice, EAGAIN and
failed receives included.

**Only model-checked**: all liveness (`PushReturns`, `CallReturns`,
`StopEndsReader`, `QuitEnds`, the fair half of
`ImplementsFairChannel`), which is out of TLAPS' reach. Every safety property of
the passing runs is also a theorem.

## 5. What is not modelled

* Two clients inside `AVPacketSource::Start` at once: two threads would then use and
  free one `AVFormatContext`, which has no behaviour to model. The walk of the list
  in `Start` without the mutex, one step here; the program makes it before any
  other thread exists.
* Of `Packet` what nobody reads: id, NAL unit type, start code, stream, group, DTS and
  meta data. `Frame`: allocates and frees one image between two calls of libav; its
  presentation time is the input of `FrameRate`. `m_avframe` and `m_avpacket` of the
  decoder are never freed; only the context is counted in `leaked`.
* Memory that runs out, other than in `Open`; the end of standard input, on which
  main's loop spins.
* A decoder used by two threads at once. In the program Open happens before the
  counter thread exists and Close after it has left its loop, which is
  `DecodeWhileOpen`.
* `ObjectId` is a random string; it is taken to be unique.
* `emptyPacketQueue` has no caller in the source's classes; `clear()` is covered by
  `CircularBuffer`.
* `libs/spdlog` with the fmt library in it, which is vendored, writes log lines and
  keeps nothing the program decides on. It is 19 of 20 of the repository's lines, so
  the modelled lines are a small share of the tree, and nearly all of `src/`
  outside it.
* The build files.

## 6. Plan

1. *Done*: buffer, source with restarts, thread, rate, packet, decoder and program,
   with the runs above; every safety property a passing run checks is also a theorem;
   the source and the buffer implement their abstract specifications; the order of
   packets from `av_read_frame` to `Decode`, and of frames from `Decode` to the
   callback, is proved.
2. *Next*: what the two clients of `AVPacketSource` may rely on while the other
   restarts it, beyond `NoGap`; what can still be said of a buffer that is cleared.
3. *Left*: `FpsProgram` with the steps of `VideoDecoder::Decode` in place of its one
   step, if that module ever shares state with another thread; `Start` by two clients,
   once the code gives it a meaning.
