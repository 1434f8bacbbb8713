------------------------------ MODULE FrameRate ------------------------------
(***************************************************************************)
(* FrameCounter::frameCallback (src/src/frame-counter.cpp): the rate that  *)
(* the program reports, computed from the presentation times of the frames *)
(* the decoder delivers.  Frames are counted until more than               *)
(* m_targetDuration milliseconds have passed; the frame that ends a window *)
(* reports it and opens the next.  The decoder may deliver any times: the  *)
(* source may start anywhere, jump ahead, and jump back.                   *)
(***************************************************************************)
EXTENDS Integers

CONSTANTS
  m_targetDuration,   \* milliseconds, the argument of the constructor
  Bases,              \* the time bases a stream may have: <<num, den>>
  Pts,                \* the presentation times a frame may have
  IntHalf,            \* an int reaches from -IntHalf to IntHalf - 1
  MaxCount            \* bound on the frames of one window, for TLC

\* main passes 2000; a target below 1000 would make frameCallback divide by 0.
ASSUME TargetAssumption == m_targetDuration \in Nat /\ m_targetDuration >= 1000
ASSUME BasesAssumption  == Bases \subseteq (Nat \ {0}) \X (Nat \ {0})
ASSUME PtsAssumption    == Pts \subseteq Int
ASSUME IntAssumption    == IntHalf \in Nat /\ IntHalf > m_targetDuration
ASSUME CountAssumption  == MaxCount \in Nat

VARIABLES
  m_streamBaseTime, m_frameCounts, m_lastFrameTime, m_currentDuration, m_fps,
  lastPts,    \* history: the presentation time of the last frame
  opened,     \* history: that of the frame that opened this window
  gaps,       \* history: the least and the most between two frames of it
  reports,    \* history: the windows reported, 2 for more
  report      \* history: the window the last frame ended, if it ended one

vars == <<m_streamBaseTime, m_frameCounts, m_lastFrameTime, m_currentDuration,
          m_fps, lastPts, opened, gaps, reports, report>>

Gaps   == [any : BOOLEAN, least : Int, most : Int]
NoGaps == [any |-> FALSE, least |-> 0, most |-> 0]

\* Mutant of int: no conversion.
NoConversion(x) == x

\* Mutant of int: a conversion that saturates.
Saturate(x) ==
  IF x >= IntHalf THEN IntHalf - 1 ELSE IF x < -IntHalf THEN -IntHalf ELSE x

\* Conversion to int, which is also what a sum of two ints comes to.
int(x) == ((x + IntHalf) % (2 * IntHalf)) - IntHalf

\* av_rescale_q_rnd to 1/1000 with AV_ROUND_NEAR_INF: to the nearest, halves
\* away from zero.
Milliseconds(pts, base) ==
  LET round(n) == (2 * n * base[1] * 1000 + base[2]) \div (2 * base[2])
  IN  IF pts >= 0 THEN round(pts) ELSE -round(-pts)

\* Integer division, although m_fps is a double.
Rate(count) == count \div (m_targetDuration \div 1000)

\* Mutant of WindowOver: whole seconds are compared.
WindowOverInSeconds(duration) == duration \div 1000 > m_targetDuration \div 1000

WindowOver(duration) == duration > m_targetDuration

\* Mutant of CountFromHere: the frame that opens a window counts.
CountFromOne(count, over) == IF over THEN 1 ELSE count

\* The frame that ends a window is counted in it and opens the next one ...
CountFromHere(count, over) == IF over THEN 0 ELSE count

\* Mutant of DurationFromHere: what exceeds the target is carried over.
DurationCarried(duration, over) ==
  IF over THEN duration - m_targetDuration ELSE duration

\* ... whose time runs from it.
DurationFromHere(duration, over) == IF over THEN 0 ELSE duration

NoFrameYet == m_frameCounts = -1

Init == /\ m_streamBaseTime \in Bases
        /\ m_frameCounts = -1
        /\ m_lastFrameTime = 0
        /\ m_currentDuration = 0
        /\ m_fps = 0
        /\ lastPts = 0 /\ opened = 0 /\ gaps = NoGaps
        /\ reports = 0 /\ report = {}

\* The gaps of the window once a frame comes at pts.
GapsAt(pts) ==
  LET gap == pts - lastPts
  IN  CASE NoFrameYet -> NoGaps
        [] ~NoFrameYet /\ ~gaps.any -> [any |-> TRUE, least |-> gap, most |-> gap]
        [] ~NoFrameYet /\ gaps.any ->
             [any |-> TRUE, least |-> IF gap < gaps.least THEN gap ELSE gaps.least,
                            most  |-> IF gap > gaps.most  THEN gap ELSE gaps.most]

frameCallback(pts) ==
  LET frameTime == Milliseconds(pts, m_streamBaseTime)
      count     == m_frameCounts + 1
      duration  == int(m_currentDuration + int(frameTime - m_lastFrameTime))
      over      == WindowOver(duration)
      first     == IF NoFrameYet THEN pts ELSE opened
  IN  /\ m_lastFrameTime' = frameTime
      /\ m_currentDuration' = DurationFromHere(duration, over)
      /\ m_frameCounts' = CountFromHere(count, over)
      /\ m_fps' = IF over THEN Rate(count) ELSE m_fps
      /\ lastPts' = pts
      /\ opened' = IF over THEN pts ELSE first
      /\ gaps' = IF over THEN NoGaps ELSE GapsAt(pts)
      /\ reports' = IF over /\ reports < 2 THEN reports + 1 ELSE reports
      /\ report' = IF over
                   THEN {[frames |-> count, from |-> first, gaps |-> GapsAt(pts)]}
                   ELSE {}
      /\ UNCHANGED m_streamBaseTime

Next == m_frameCounts < MaxCount /\ \E pts \in Pts : frameCallback(pts)

Spec == Init /\ [][Next]_vars

----------------------------------------------------------------------------
TypeOK == /\ m_streamBaseTime \in Bases
          /\ m_frameCounts \in Int /\ m_frameCounts >= -1
          /\ m_lastFrameTime \in Int
          /\ m_currentDuration \in -IntHalf..(IntHalf - 1)
          /\ m_fps \in Int
          /\ lastPts \in Int /\ opened \in Int /\ gaps \in Gaps
          /\ reports \in 0..2
          /\ report \in SUBSET [frames : Nat, from : Int, gaps : Gaps]

\* The sum of the differences is the length of the window, whatever the frame
\* times were, jumps, roundings and overflows of the conversion to int
\* included: nothing is lost or counted twice where one window ends and the
\* next begins.  The first window is measured from time 0, not from its first
\* frame.
DurationIsWindow ==
  m_currentDuration =
    int(Milliseconds(lastPts, m_streamBaseTime)
          - IF reports = 0 THEN 0 ELSE Milliseconds(opened, m_streamBaseTime))

\* The frames counted agree with the time they span: as many gaps as frames,
\* for every stream, forward or not.  The frame that opened the window is
\* counted in neither.
CountIsWindow ==
  ~NoFrameYet => /\ m_frameCounts * gaps.least <= lastPts - opened
                 /\ lastPts - opened <= m_frameCounts * gaps.most

\* The widest gap, in milliseconds, with which no int overflows.
Widest == IntHalf - m_targetDuration - 2

\* A stream that only goes forward, without a gap of 24 days.
Steady(g) == /\ g.any /\ g.least >= 1
             /\ g.most * 1000 * m_streamBaseTime[1] <= Widest * m_streamBaseTime[2]

\* The rate reported for a window of which the first `missing` milliseconds went
\* by before its first frame: that of its frames, evenly spaced or not, times the
\* rest of the target.  Were all the gaps the widest, this would be below fps + 1;
\* were all the narrowest, it would not be below fps by more than one frame per
\* target and what a millisecond of rounding makes of the target.
RateOf(r, missing) ==
  LET num  == m_streamBaseTime[1]
      den  == m_streamBaseTime[2]
      rest == m_targetDuration - missing
  IN  Steady(r.gaps) =>
        /\ (m_fps + 1) * r.gaps.most * num * m_targetDuration > den * rest
        /\ (m_fps * m_targetDuration - 1000) * r.gaps.least * num <= den * (rest + 1)

\* From the second report on nothing is missing, and the rate is right.  In the
\* first the time from 0 to the first frame of the stream is.
SteadyRate ==
  \A r \in report :
    LET missing == IF reports = 2 THEN 0
                   ELSE Milliseconds(r.from, m_streamBaseTime)
    IN  missing \in 0..m_targetDuration => RateOf(r, missing)

\* Nothing should be missing there either: the program is to "calculate fps from
\* pts", and the rate of a stream does not depend on where it starts.
FirstRate == reports = 1 => \A r \in report : r.frames > 0 /\ RateOf(r, 0)
=============================================================================
