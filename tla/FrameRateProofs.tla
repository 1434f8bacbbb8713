--------------------------- MODULE FrameRateProofs ---------------------------
(***************************************************************************)
(* What holds of frameCallback for every target, every time base, every    *)
(* sequence of frame times and every width of int.                         *)
(***************************************************************************)
EXTENDS FrameRate, TLAPS

\* The quotient and the remainder of a division.
LEMMA DivMod ==
  ASSUME NEW a \in Int, NEW n \in Int, n > 0
  PROVE  /\ a \div n \in Int
         /\ a % n \in 0..(n - 1)
         /\ a = n * (a \div n) + (a % n)
OBVIOUS

\* A quotient and a remainder put together again.
LEMMA DivRem ==
  ASSUME NEW a \in Int, NEW n \in Int, n > 0, NEW q \in Int, q = a \div n
  PROVE  \E r \in 0..(n - 1) : a = n * q + r
<1>1. a = n * q + (a % n) /\ a % n \in 0..(n - 1)
  BY DivMod
<1>2. QED
  BY <1>1

\* A conversion to int stays in range and changes the value by a multiple of
\* the number of ints ...
LEMMA IntForm ==
  ASSUME NEW x \in Int
  PROVE  /\ int(x) \in -IntHalf..(IntHalf - 1)
         /\ \E k \in Int : int(x) = x + k * (2 * IntHalf)
<1>1. /\ IntHalf \in Int
      /\ 2 * IntHalf \in Int /\ 2 * IntHalf > 0
      /\ x + IntHalf \in Int
  BY IntAssumption, TargetAssumption
<1>2. PICK d \in Int, r \in 0..(2 * IntHalf - 1) :
        /\ r = (x + IntHalf) % (2 * IntHalf)
        /\ x + IntHalf = (2 * IntHalf) * d + r
  BY <1>1, DivMod
<1>3. int(x) = r - IntHalf
  BY <1>2 DEF int
<1>4. int(x) = x + (-d) * (2 * IntHalf)
  BY <1>1, <1>2, <1>3
<1>5. -d \in Int
  OBVIOUS
<1>6. int(x) \in -IntHalf..(IntHalf - 1)
  BY <1>1, <1>2, <1>3
<1>7. QED
  BY <1>4, <1>5, <1>6

\* ... and is the only value in range that differs from it so.
LEMMA IntUnique ==
  ASSUME NEW x \in Int, NEW y \in -IntHalf..(IntHalf - 1), NEW k \in Int,
         y = x + k * (2 * IntHalf)
  PROVE  int(x) = y
<1> DEFINE N == 2 * IntHalf
<1>1. N \in Nat /\ N > 0
  BY IntAssumption, TargetAssumption
<1>2. PICK j \in Int : int(x) = x + j * N
  BY IntForm
<1>3. int(x) \in -IntHalf..(IntHalf - 1)
  BY IntForm
<1>4. int(x) - y = (j - k) * N
  BY <1>1, <1>2
<1>5. int(x) - y < N /\ y - int(x) < N
  BY <1>3, IntAssumption
<1>6. (j - k) * N < N /\ (j - k) * N > -N
  BY <1>4, <1>5, <1>3, <1>1, IntAssumption
<1>7. ~(j - k >= 1)
  <2> SUFFICES ASSUME j - k >= 1 PROVE FALSE
    OBVIOUS
  <2>1. (j - k) * N >= N
    BY <1>1
  <2>2. QED
    BY <2>1, <1>6, <1>1
<1>8. ~(j - k <= -1)
  <2> SUFFICES ASSUME j - k <= -1 PROVE FALSE
    OBVIOUS
  <2>1. (j - k) * N <= -N
    BY <1>1
  <2>2. QED
    BY <2>1, <1>6, <1>1
<1>9. j = k
  BY <1>7, <1>8
<1>10. QED
  BY <1>2, <1>9

\* An int is converted to itself.
LEMMA IntSame ==
  ASSUME NEW x \in -IntHalf..(IntHalf - 1)
  PROVE  int(x) = x
<1>1. x \in Int /\ x = x + 0 * (2 * IntHalf)
  BY IntAssumption
<1>2. QED
  BY <1>1, IntUnique

\* Converting the parts first makes no difference to a converted sum.
LEMMA IntSum ==
  ASSUME NEW a \in Int, NEW b \in Int
  PROVE  int(int(a) + int(b)) = int(a + b)
<1> DEFINE N == 2 * IntHalf
<1>0. N \in Int
  BY IntAssumption
<1>1. PICK i \in Int : int(a) = a + i * N
  BY IntForm
<1>2. PICK j \in Int : int(b) = b + j * N
  BY IntForm
<1>3. int(a) + int(b) \in Int
  BY <1>0, <1>1, <1>2
<1>4. PICK k \in Int : int(int(a) + int(b)) = int(a) + int(b) + k * N
  BY <1>3, IntForm
<1>5. int(int(a) + int(b)) = (a + b) + (i + j + k) * N
  BY <1>0, <1>1, <1>2, <1>4
<1>6. int(int(a) + int(b)) \in -IntHalf..(IntHalf - 1)
  BY <1>3, IntForm
<1>7. a + b \in Int /\ i + j + k \in Int
  OBVIOUS
<1>8. QED
  BY <1>5, <1>6, <1>7, IntUnique

----------------------------------------------------------------------------
\* A product with a positive factor keeps an order, and a strict one.
LEMMA Grows ==
  ASSUME NEW a \in Int, NEW b \in Int, NEW c \in Int, c > 0
  PROVE  /\ a > b => a * c > b * c
         /\ a >= b => a * c >= b * c
OBVIOUS

\* Time bases, and times in milliseconds, which are whole.
TimeBases == (Nat \ {0}) \X (Nat \ {0})

\* Rounding moves a time by half a millisecond at most.
LEMMA MillisecondsNear ==
  ASSUME NEW pts \in Int, NEW base \in TimeBases
  PROVE  /\ base[1] \in Int /\ base[1] > 0 /\ base[2] \in Int /\ base[2] > 0
         /\ Milliseconds(pts, base) \in Int
         /\ 2 * base[2] * Milliseconds(pts, base) - 2 * (1000 * base[1]) * pts
              \in -base[2]..base[2]
<1>1. PICK p \in Nat \ {0}, q \in Nat \ {0} : base = <<p, q>>
  BY DEF TimeBases
<1> DEFINE round(n) == (2 * n * base[1] * 1000 + base[2]) \div (2 * base[2])
<1>2. ASSUME NEW n \in Int
      PROVE  /\ round(n) \in Int
             /\ 2 * q * round(n) - 2 * (1000 * p) * n \in -q..q
  <2>1. 2 * n * p * 1000 + q \in Int /\ 2 * q \in Int /\ 2 * q > 0
    OBVIOUS
  <2>2. PICK d \in Int, r \in 0..(2 * q - 1) :
          /\ d = (2 * n * p * 1000 + q) \div (2 * q)
          /\ 2 * n * p * 1000 + q = (2 * q) * d + r
    BY <2>1, DivMod
  <2>3. round(n) = d
    BY <1>1, <2>2
  <2> HIDE DEF round
  <2>4. 2 * q * d - 2 * (1000 * p) * n = q - r
    BY <2>2
  <2>5. QED
    BY <2>3, <2>4
<1>3. Milliseconds(pts, base) = IF pts >= 0 THEN round(pts) ELSE -round(-pts)
  BY DEF Milliseconds
<1> HIDE DEF round
<1>4. CASE pts >= 0
  <2>1. Milliseconds(pts, base) = round(pts)
    BY <1>3, <1>4
  <2>2. QED
    BY <1>1, <1>2, <2>1
<1>5. CASE pts < 0
  <2>1. -pts \in Int
    OBVIOUS
  <2>2. Milliseconds(pts, base) = -round(-pts)
    BY <1>3, <1>5
  <2>3. round(-pts) \in Int /\ 2 * q * round(-pts) - 2 * (1000 * p) * (-pts) \in -q..q
    BY <1>2, <2>1
  <2>4. 2 * q * (-round(-pts)) - 2 * (1000 * p) * pts
          = -(2 * q * round(-pts) - 2 * (1000 * p) * (-pts))
    BY <2>3
  <2>5. QED
    BY <1>1, <2>2, <2>3, <2>4
<1>6. QED
  BY <1>4, <1>5

\* A packet time in milliseconds is an integer.
LEMMA MillisecondsInt ==
  ASSUME NEW pts \in Int, NEW base \in TimeBases
  PROVE  Milliseconds(pts, base) \in Int
BY MillisecondsNear

\* So the milliseconds between two times are within one of the time between
\* them.
LEMMA MillisecondsBetween ==
  ASSUME NEW p \in Int, NEW q \in Int, NEW base \in TimeBases
  PROVE  base[2] * (Milliseconds(q, base) - Milliseconds(p, base))
           - (1000 * base[1]) * (q - p) \in -base[2]..base[2]
<1> DEFINE b == base[2]
           a == 1000 * base[1]
           mp == Milliseconds(p, base)
           mq == Milliseconds(q, base)
<1>1. /\ a \in Int /\ b \in Int /\ b > 0 /\ mp \in Int /\ mq \in Int
      /\ 2 * b * mp - 2 * a * p \in -b..b
      /\ 2 * b * mq - 2 * a * q \in -b..b
  BY MillisecondsNear
<1> SUFFICES b * (mq - mp) - a * (q - p) \in -b..b
  OBVIOUS
<1> HIDE DEF a, b, mp, mq
<1>2. 2 * (b * (mq - mp) - a * (q - p))
        = (2 * b * mq - 2 * a * q) - (2 * b * mp - 2 * a * p)
  BY <1>1
<1>3. b * (mq - mp) - a * (q - p) \in Int
  BY <1>1
<1>4. QED
  BY <1>1, <1>2, <1>3

\* Time in milliseconds does not run backwards where that of the stream does
\* not.
LEMMA MillisecondsForward ==
  ASSUME NEW p \in Int, NEW q \in Int, NEW base \in TimeBases, q >= p
  PROVE  Milliseconds(q, base) >= Milliseconds(p, base)
<1> DEFINE b == base[2]
           a == 1000 * base[1]
           d == Milliseconds(q, base) - Milliseconds(p, base)
<1>1. /\ a \in Int /\ b \in Int /\ a > 0 /\ b > 0 /\ d \in Int
      /\ b * d - a * (q - p) \in -b..b
      /\ Milliseconds(q, base) \in Int /\ Milliseconds(p, base) \in Int
  BY MillisecondsNear, MillisecondsBetween
<1>2. CASE q = p
  BY <1>1, <1>2
<1>3. CASE q > p
  <2> SUFFICES d >= 0
    BY <1>1
  <2> HIDE DEF a, b, d
  <2>1. a * (q - p) > 0
    BY <1>1, <1>3
  <2>2. b * d > -b
    BY <1>1, <2>1
  <2>3. ASSUME d <= -1
        PROVE  FALSE
    <3>1. -1 * b >= d * b
      BY <1>1, <2>3, Grows
    <3>2. QED
      BY <1>1, <2>2, <3>1
  <2>4. QED
    BY <1>1, <2>3
<1>4. QED
  BY <1>2, <1>3

\* A gap that the time base bounds is bounded in milliseconds, one more at most.
LEMMA MillisecondsWide ==
  ASSUME NEW p \in Int, NEW q \in Int, NEW base \in TimeBases, NEW w \in Int,
         (1000 * base[1]) * (q - p) <= w * base[2]
  PROVE  Milliseconds(q, base) - Milliseconds(p, base) <= w + 1
<1> DEFINE b == base[2]
           a == 1000 * base[1]
           d == Milliseconds(q, base) - Milliseconds(p, base)
<1>1. /\ a \in Int /\ b \in Int /\ b > 0 /\ d \in Int
      /\ b * d - a * (q - p) \in -b..b
      /\ a * (q - p) <= w * b
  BY MillisecondsNear, MillisecondsBetween
<1> SUFFICES d <= w + 1
  OBVIOUS
<1> HIDE DEF a, b, d
<1>2. b * d <= w * b + b
  <2>1. a * (q - p) \in Int /\ b * d \in Int /\ w * b \in Int
    BY <1>1
  <2>2. QED
    BY <1>1, <2>1
<1>3. ASSUME d > w + 1
      PROVE  FALSE
  <2>1. d * b > (w + 1) * b
    BY <1>1, <1>3, Grows
  <2>2. QED
    BY <1>1, <1>2, <2>1
<1>4. QED
  BY <1>1, <1>3

\* The program's clock starts at 0.
LEMMA MillisecondsZero ==
  ASSUME NEW base \in TimeBases
  PROVE  Milliseconds(0, base) = 0
<1> DEFINE b == base[2]
           m == Milliseconds(0, base)
<1>1. b \in Int /\ b > 0 /\ m \in Int /\ base[1] \in Int
      /\ 2 * b * m - 2 * (1000 * base[1]) * 0 \in -b..b
  BY MillisecondsNear
<1>2. 2 * (1000 * base[1]) * 0 = 0
  BY <1>1
<1> SUFFICES m = 0
  OBVIOUS
<1> HIDE DEF b, m
<1>3. 2 * b * m \in -b..b
  BY <1>1, <1>2
<1>4. ASSUME m >= 1
      PROVE  FALSE
  <2>1. m * (2 * b) >= 1 * (2 * b)
    BY <1>1, <1>4, Grows
  <2>2. QED
    BY <1>1, <1>3, <2>1
<1>5. ASSUME m <= -1
      PROVE  FALSE
  <2>1. -1 * (2 * b) >= m * (2 * b)
    BY <1>1, <1>5, Grows
  <2>2. QED
    BY <1>1, <1>3, <2>1
<1>6. QED
  BY <1>1, <1>4, <1>5

\* The number of whole seconds of the target.
LEMMA Seconds ==
  /\ m_targetDuration \div 1000 \in Nat
  /\ m_targetDuration \div 1000 >= 1
  /\ m_targetDuration \div 1000 <= m_targetDuration
BY TargetAssumption

\* A rate is an integer.
LEMMA RateInt ==
  ASSUME NEW count \in Int
  PROVE  Rate(count) \in Int
<1> DEFINE K == m_targetDuration \div 1000
<1>1. K \in Int /\ K > 0
  BY Seconds
<1> HIDE DEF K
<1>2. count \div K \in Int
  BY <1>1, DivMod
<1>3. QED
  BY <1>2 DEF K, Rate

----------------------------------------------------------------------------
\* What is known of the gaps once a frame comes.
LEMMA GapsType ==
  ASSUME TypeOK, NEW pts \in Int
  PROVE  GapsAt(pts) \in Gaps
<1>1. lastPts \in Int /\ gaps \in Gaps
  BY DEF TypeOK
<1>2. CASE NoFrameYet
  BY <1>2 DEF GapsAt, Gaps, NoGaps
<1>3. CASE ~NoFrameYet /\ ~gaps.any
  BY <1>1, <1>3 DEF GapsAt, Gaps
<1>4. CASE ~NoFrameYet /\ gaps.any
  <2>1. GapsAt(pts) =
          [any |-> TRUE,
           least |-> IF pts - lastPts < gaps.least THEN pts - lastPts ELSE gaps.least,
           most  |-> IF pts - lastPts > gaps.most  THEN pts - lastPts ELSE gaps.most]
    BY <1>4 DEF GapsAt
  <2>2. gaps.least \in Int /\ gaps.most \in Int /\ pts - lastPts \in Int
    BY <1>1 DEF Gaps
  <2>3. QED
    BY <2>1, <2>2 DEF Gaps
<1>5. QED
  BY <1>2, <1>3, <1>4

\* What one frame does, in the terms of the invariants below.
LEMMA FrameStep ==
  ASSUME TypeOK, NEW pts \in Pts, frameCallback(pts)
  PROVE  \E over \in BOOLEAN, duration \in -IntHalf..(IntHalf - 1), first \in Int :
           /\ pts \in Int
           /\ Milliseconds(pts, m_streamBaseTime) \in Int
           /\ m_lastFrameTime' = Milliseconds(pts, m_streamBaseTime)
           /\ duration = int(m_currentDuration
                               + int(Milliseconds(pts, m_streamBaseTime) - m_lastFrameTime))
           /\ over <=> (duration > m_targetDuration)
           /\ m_currentDuration' = IF over THEN 0 ELSE duration
           /\ m_frameCounts' = IF over THEN 0 ELSE m_frameCounts + 1
           /\ m_fps' = IF over THEN Rate(m_frameCounts + 1) ELSE m_fps
           /\ m_streamBaseTime' = m_streamBaseTime
           /\ lastPts' = pts
           /\ first = IF NoFrameYet THEN pts ELSE opened
           /\ opened' = IF over THEN pts ELSE first
           /\ gaps' = IF over THEN NoGaps ELSE GapsAt(pts)
           /\ reports' = IF over /\ reports < 2 THEN reports + 1 ELSE reports
           /\ report' = IF over
                        THEN {[frames |-> m_frameCounts + 1, from |-> first,
                               gaps |-> GapsAt(pts)]}
                        ELSE {}
<1> DEFINE t == Milliseconds(pts, m_streamBaseTime)
           duration == int(m_currentDuration + int(t - m_lastFrameTime))
           over == duration > m_targetDuration
           first == IF NoFrameYet THEN pts ELSE opened
<1>1. t \in Int /\ pts \in Int
  BY MillisecondsInt, PtsAssumption, BasesAssumption DEF TypeOK, TimeBases
<1>2. t - m_lastFrameTime \in Int
  BY <1>1 DEF TypeOK
<1>3. int(t - m_lastFrameTime) \in Int
  BY <1>2, IntForm, IntAssumption
<1>4. m_currentDuration + int(t - m_lastFrameTime) \in Int
  BY <1>3, IntAssumption DEF TypeOK
<1>5. duration \in -IntHalf..(IntHalf - 1)
  BY <1>4, IntForm
<1>6. first \in Int
  BY <1>1 DEF TypeOK
<1>7. /\ m_lastFrameTime' = t
      /\ m_currentDuration' = IF over THEN 0 ELSE duration
      /\ m_frameCounts' = IF over THEN 0 ELSE m_frameCounts + 1
      /\ m_fps' = IF over THEN Rate(m_frameCounts + 1) ELSE m_fps
      /\ m_streamBaseTime' = m_streamBaseTime
      /\ lastPts' = pts
      /\ opened' = IF over THEN pts ELSE first
      /\ gaps' = IF over THEN NoGaps ELSE GapsAt(pts)
      /\ reports' = IF over /\ reports < 2 THEN reports + 1 ELSE reports
      /\ report' = IF over
                   THEN {[frames |-> m_frameCounts + 1, from |-> first,
                          gaps |-> GapsAt(pts)]}
                   ELSE {}
  BY DEF frameCallback, DurationFromHere, CountFromHere, WindowOver
<1>8. over \in BOOLEAN
  OBVIOUS
<1> HIDE DEF over
<1>9. QED
  BY <1>1, <1>5, <1>6, <1>7, <1>8 DEF over

----------------------------------------------------------------------------
\* TypeOK is inductive.  What keeps m_currentDuration in range is the
\* conversion to int; that the count never falls below 0 again once a frame
\* has come is what makes "no frame yet" mean what it says.
LEMMA TypeStep ==
  ASSUME TypeOK, [Next]_vars
  PROVE  TypeOK'
<1>1. CASE UNCHANGED vars
  BY <1>1 DEF TypeOK, vars
<1>2. ASSUME NEW pts \in Pts, frameCallback(pts)
      PROVE  TypeOK'
  <2>1. PICK over \in BOOLEAN, duration \in -IntHalf..(IntHalf - 1), first \in Int :
           /\ pts \in Int
           /\ m_lastFrameTime' \in Int
           /\ m_currentDuration' = IF over THEN 0 ELSE duration
           /\ m_frameCounts' = IF over THEN 0 ELSE m_frameCounts + 1
           /\ m_fps' = IF over THEN Rate(m_frameCounts + 1) ELSE m_fps
           /\ m_streamBaseTime' = m_streamBaseTime
           /\ lastPts' = pts
           /\ opened' = IF over THEN pts ELSE first
           /\ gaps' = IF over THEN NoGaps ELSE GapsAt(pts)
           /\ reports' = IF over /\ reports < 2 THEN reports + 1 ELSE reports
           /\ report' = IF over
                        THEN {[frames |-> m_frameCounts + 1, from |-> first,
                               gaps |-> GapsAt(pts)]}
                        ELSE {}
    BY <1>2, FrameStep
  <2>2. GapsAt(pts) \in Gaps /\ NoGaps \in Gaps
    BY <2>1, GapsType DEF NoGaps, Gaps
  <2>3. m_frameCounts + 1 \in Nat
    BY DEF TypeOK
  <2>4. report' \in SUBSET [frames : Nat, from : Int, gaps : Gaps]
    BY <2>1, <2>2, <2>3
  <2>5. m_fps' \in Int
    BY <2>1, <2>3, RateInt DEF TypeOK
  <2>6. m_currentDuration' \in -IntHalf..(IntHalf - 1)
    BY <2>1, IntAssumption, TargetAssumption
  <2>7. gaps' \in Gaps
    BY <2>1, <2>2
  <2>8. reports' \in 0..2
    BY <2>1 DEF TypeOK
  <2>9. QED
    BY <2>1, <2>3, <2>4, <2>5, <2>6, <2>7, <2>8 DEF TypeOK
<1>3. QED
  BY <1>1, <1>2 DEF Next

\* The first state has its type.
LEMMA TypeInit == Init => TypeOK
BY IntAssumption, TargetAssumption DEF Init, TypeOK, NoGaps, Gaps

\* The duration of a window is always an int, whatever the frame times.
THEOREM TypeCorrect == Spec => []TypeOK
<1>1. QED
  BY TypeInit, TypeStep, PTL DEF Spec

----------------------------------------------------------------------------
\* m_frameCounts is -1 only before the first frame, when nothing was reported.
FirstIsFirst == NoFrameYet => reports = 0

\* A time of the stream, in the program's milliseconds.
At(pts) == Milliseconds(pts, m_streamBaseTime)

LastIsLast == m_lastFrameTime = At(lastPts)

\* The duration on its own is inductive with these two: in one window the
\* differences add up (IntSum), and a new window begins at the frame that
\* ended the one before.
WindowInv == TypeOK /\ FirstIsFirst /\ LastIsLast /\ DurationIsWindow

\* The first state satisfies the window invariant.
LEMMA WindowInit == Init => WindowInv
<1> SUFFICES ASSUME Init PROVE WindowInv
  OBVIOUS
<1>1. int(0) = 0
  BY IntSame, IntAssumption, TargetAssumption
<1>2. Milliseconds(0, m_streamBaseTime) = 0
  BY MillisecondsZero, BasesAssumption DEF Init, TimeBases
<1>3. QED
  BY <1>1, <1>2, TypeInit
     DEF Init, WindowInv, FirstIsFirst, LastIsLast, DurationIsWindow, At

\* The start of the window, and its duration once a frame comes at time t.
WindowStart == IF reports = 0 THEN 0 ELSE At(opened)

\* The time of a frame is an integer.
LEMMA AtInt ==
  ASSUME TypeOK, NEW pts \in Int
  PROVE  At(pts) \in Int
BY MillisecondsInt, BasesAssumption DEF TypeOK, TimeBases, At

\* Inside a window the duration carried plus the new part is the time since its start.
LEMMA DurationAt ==
  ASSUME WindowInv, NEW t \in Int
  PROVE  int(m_currentDuration + int(t - m_lastFrameTime)) = int(t - WindowStart)
<1>1. WindowStart \in Int
  BY AtInt DEF WindowStart, WindowInv, TypeOK
<1>2. m_currentDuration = int(m_lastFrameTime - WindowStart)
  BY DEF WindowInv, DurationIsWindow, LastIsLast, WindowStart, At
<1>3. m_lastFrameTime - WindowStart \in Int /\ t - m_lastFrameTime \in Int
  BY <1>1 DEF WindowInv, TypeOK
<1>4. (m_lastFrameTime - WindowStart) + (t - m_lastFrameTime) = t - WindowStart
  BY <1>1 DEF WindowInv, TypeOK
<1>5. int(int(m_lastFrameTime - WindowStart) + int(t - m_lastFrameTime))
        = int((m_lastFrameTime - WindowStart) + (t - m_lastFrameTime))
  BY <1>3, IntSum
<1>6. QED
  BY <1>2, <1>4, <1>5

\* One step keeps the window invariant.
LEMMA WindowStep ==
  ASSUME WindowInv, [Next]_vars
  PROVE  WindowInv'
<1>1. TypeOK /\ TypeOK'
  BY TypeStep DEF WindowInv
<1>2. CASE UNCHANGED vars
  BY <1>1, <1>2
     DEF WindowInv, FirstIsFirst, LastIsLast, DurationIsWindow, NoFrameYet, At, vars
<1>3. ASSUME NEW pts \in Pts, frameCallback(pts)
      PROVE  WindowInv'
  <2> DEFINE t == At(pts)
  <2>1. PICK over \in BOOLEAN, duration \in Int, first \in Int :
           /\ t \in Int
           /\ m_lastFrameTime' = t
           /\ duration = int(m_currentDuration + int(t - m_lastFrameTime))
           /\ m_currentDuration' = IF over THEN 0 ELSE duration
           /\ m_frameCounts' = IF over THEN 0 ELSE m_frameCounts + 1
           /\ m_streamBaseTime' = m_streamBaseTime
           /\ lastPts' = pts
           /\ first = IF NoFrameYet THEN pts ELSE opened
           /\ opened' = IF over THEN pts ELSE first
           /\ reports' = IF over /\ reports < 2 THEN reports + 1 ELSE reports
    <3>1. -IntHalf..(IntHalf - 1) \subseteq Int
      BY IntAssumption
    <3>2. QED
      BY <1>1, <1>3, <3>1, FrameStep DEF At
  <2>2. m_frameCounts' >= 0 /\ reports \in 0..2
    BY <1>1, <2>1 DEF TypeOK
  <2>3. FirstIsFirst'
    BY <2>2 DEF FirstIsFirst, NoFrameYet
  <2>4. LastIsLast' /\ At(pts)' = t
    BY <2>1 DEF LastIsLast, At
  <2>5. CASE over
    <3>1. int(0) = 0
      BY IntSame, IntAssumption, TargetAssumption
    <3>2. t - t = 0
      BY <2>1
    <3>3. reports' # 0
      BY <2>1, <2>2, <2>5
    <3>4. DurationIsWindow'
      BY <2>1, <2>5, <3>1, <3>2, <3>3 DEF DurationIsWindow, At
    <3>5. QED
      BY <1>1, <2>3, <2>4, <3>4 DEF WindowInv
  <2>6. CASE ~over
    <3>1. duration = int(t - WindowStart)
      BY <2>1, DurationAt
    <3>2. WindowStart' = WindowStart
      BY <2>1, <2>6 DEF WindowInv, FirstIsFirst, WindowStart, At
    <3>3. m_currentDuration' = int(t - WindowStart')
      BY <2>1, <2>6, <3>1, <3>2
    <3>4. DurationIsWindow'
      BY <2>1, <3>3 DEF DurationIsWindow, WindowStart, At
    <3>5. QED
      BY <1>1, <2>3, <2>4, <3>4 DEF WindowInv
  <2>7. QED
    BY <2>5, <2>6
<1>4. QED
  BY <1>2, <1>3 DEF Next

\* No difference of frame times is lost or counted twice, for every sequence
\* of times and every overflow of the conversions.
THEOREM WindowsJoin == Spec => []DurationIsWindow
<1>1. WindowInv => DurationIsWindow
  BY DEF WindowInv
<1>2. QED
  BY <1>1, WindowInit, WindowStep, PTL DEF Spec

----------------------------------------------------------------------------
\* Only the frame that opened a window has no gap before it.
SingleFrame == ~gaps.any => gaps = NoGaps /\ (~NoFrameYet => m_frameCounts = 0)

GapInv == TypeOK /\ SingleFrame /\ CountIsWindow

\* The frames and the gaps of the window once a frame comes: it adds one of
\* each.
LEMMA GapsGrow ==
  ASSUME GapInv, ~NoFrameYet, NEW pts \in Int,
         NEW g, g = GapsAt(pts)
  PROVE  /\ g.any /\ g \in Gaps
         /\ pts - lastPts \in g.least..g.most
         /\ gaps.any => g.least <= gaps.least /\ gaps.most <= g.most
         /\ m_frameCounts * g.least <= lastPts - opened
         /\ lastPts - opened <= m_frameCounts * g.most
         /\ (m_frameCounts + 1) * g.least <= pts - opened
         /\ pts - opened <= (m_frameCounts + 1) * g.most
<1> DEFINE gap == pts - lastPts
           n == m_frameCounts
<1>1. /\ lastPts \in Int /\ opened \in Int /\ gaps \in Gaps
      /\ n \in Int /\ n >= 0
      /\ gaps.least \in Int /\ gaps.most \in Int /\ gap \in Int
  BY DEF GapInv, TypeOK, NoFrameYet, Gaps
<1>2. g \in Gaps
  BY GapsType DEF GapInv
<1>3. /\ n * gaps.least <= lastPts - opened
      /\ lastPts - opened <= n * gaps.most
  BY DEF GapInv, CountIsWindow
<1>4. /\ g.any /\ g.least \in Int /\ g.most \in Int
      /\ g.least <= gap /\ gap <= g.most
      /\ gaps.any => g.least <= gaps.least /\ gaps.most <= g.most
  <2>1. CASE ~gaps.any
    BY <1>1, <2>1 DEF GapsAt
  <2>2. CASE gaps.any
    <3>1. g = [any |-> TRUE,
               least |-> IF gap < gaps.least THEN gap ELSE gaps.least,
               most  |-> IF gap > gaps.most  THEN gap ELSE gaps.most]
      BY <2>2 DEF GapsAt
    <3> HIDE DEF gap
    <3>2. QED
      BY <1>1, <3>1
  <2>3. QED
    BY <2>1, <2>2
<1>5. n * g.least <= lastPts - opened /\ lastPts - opened <= n * g.most
  <2>1. CASE ~gaps.any
    <3>1. n = 0 /\ gaps.least = 0 /\ gaps.most = 0
      BY <2>1 DEF GapInv, SingleFrame, NoGaps
    <3>2. 0 * g.least = 0 /\ 0 * g.most = 0 /\ 0 * 0 = 0
      BY <1>4
    <3> HIDE DEF n
    <3>3. QED
      BY <1>1, <1>3, <3>1, <3>2
  <2>2. CASE gaps.any
    <3>1. n * g.least <= n * gaps.least /\ n * gaps.most <= n * g.most
      <4>1. CASE n = 0
        <5>1. 0 * g.least = 0 /\ 0 * g.most = 0 /\ 0 * gaps.least = 0 /\ 0 * gaps.most = 0
          BY <1>1, <1>4
        <5>2. QED
          BY <4>1, <5>1
      <4>2. CASE n > 0
        <5>1. gaps.least * n >= g.least * n /\ g.most * n >= gaps.most * n
          BY <1>1, <1>4, <2>2, <4>2, Grows
        <5>2. QED
          BY <1>1, <1>4, <5>1
      <4>3. QED
        BY <1>1, <4>1, <4>2
    <3>2. /\ n * g.least \in Int /\ n * gaps.least \in Int
          /\ n * g.most \in Int /\ n * gaps.most \in Int
      BY <1>1, <1>4
    <3>3. QED
      BY <1>1, <1>3, <3>1, <3>2
  <2>3. QED
    BY <2>1, <2>2
<1>6. /\ (n + 1) * g.least = n * g.least + g.least
      /\ (n + 1) * g.most = n * g.most + g.most
      /\ n * g.least \in Int /\ n * g.most \in Int
  <2> HIDE DEF n
  <2>1. \A x \in Int, y \in Int : (x + 1) * y = x * y + y /\ x * y \in Int
    OBVIOUS
  <2>2. QED
    BY <1>1, <1>4, <2>1
<1>7. pts - opened = (lastPts - opened) + gap
  BY <1>1
<1>8. gap \in g.least..g.most
  BY <1>1, <1>4
<1> HIDE DEF gap, n
<1>9. (n + 1) * g.least <= pts - opened /\ pts - opened <= (n + 1) * g.most
  BY <1>1, <1>4, <1>5, <1>6, <1>7
<1>10. QED
  BY <1>2, <1>4, <1>5, <1>8, <1>9 DEF gap, n

\* One step keeps the gap invariant.
LEMMA GapStep ==
  ASSUME GapInv, [Next]_vars
  PROVE  GapInv'
<1>1. TypeOK /\ TypeOK'
  BY TypeStep DEF GapInv
<1>2. CASE UNCHANGED vars
  BY <1>1, <1>2 DEF GapInv, SingleFrame, CountIsWindow, NoFrameYet, vars
<1>3. ASSUME NEW pts \in Pts, frameCallback(pts)
      PROVE  GapInv'
  <2>1. PICK over \in BOOLEAN, first \in Int :
           /\ pts \in Int
           /\ m_frameCounts' = IF over THEN 0 ELSE m_frameCounts + 1
           /\ lastPts' = pts
           /\ first = IF NoFrameYet THEN pts ELSE opened
           /\ opened' = IF over THEN pts ELSE first
           /\ gaps' = IF over THEN NoGaps ELSE GapsAt(pts)
    BY <1>1, <1>3, FrameStep
  <2>2. CASE over \/ NoFrameYet
    <3>1. /\ m_frameCounts' = 0 /\ opened' = pts /\ lastPts' = pts
          /\ gaps' = NoGaps
      BY <2>1, <2>2 DEF NoFrameYet, GapsAt
    <3>2. gaps'.least = 0 /\ gaps'.most = 0 /\ ~gaps'.any /\ 0 * 0 = 0 /\ pts - pts = 0
      BY <2>1, <3>1 DEF NoGaps
    <3>3. CountIsWindow'
      BY <3>1, <3>2 DEF CountIsWindow
    <3>4. SingleFrame'
      BY <3>1 DEF SingleFrame, NoGaps
    <3>5. QED
      BY <1>1, <3>3, <3>4 DEF GapInv
  <2>3. CASE ~over /\ ~NoFrameYet
    <3>1. /\ m_frameCounts' = m_frameCounts + 1 /\ opened' = opened
          /\ lastPts' = pts /\ gaps' = GapsAt(pts)
      BY <2>1, <2>3
    <3>2. /\ gaps'.any
          /\ (m_frameCounts + 1) * gaps'.least <= pts - opened
          /\ pts - opened <= (m_frameCounts + 1) * gaps'.most
      BY <2>1, <2>3, <3>1, GapsGrow
    <3>3. CountIsWindow' /\ SingleFrame'
      BY <3>1, <3>2 DEF CountIsWindow, SingleFrame
    <3>4. QED
      BY <1>1, <3>3 DEF GapInv
  <2>4. QED
    BY <2>2, <2>3
<1>4. QED
  BY <1>2, <1>3 DEF Next

\* The first state satisfies the gap invariant.
LEMMA GapInit == Init => GapInv
BY TypeInit DEF Init, GapInv, SingleFrame, CountIsWindow, NoFrameYet, NoGaps

\* Frames counted and time counted agree in every window of every stream.
THEOREM CountsAgree == Spec => []CountIsWindow
<1>1. GapInv => CountIsWindow
  BY DEF GapInv
<1>2. QED
  BY <1>1, GapInit, GapStep, PTL DEF Spec

----------------------------------------------------------------------------
\* The rate.  The time of a window counts from where it opened, that of the
\* first from 0: what is said of it supposes that its first frame was in time.
InTime == reports > 0 \/ At(opened) \in 0..m_targetDuration

\* An open window of a steady stream is no longer than the target, in the time
\* of the stream and not only in that of the conversion.
WithinTarget ==
  ~NoFrameYet /\ InTime /\ (gaps = NoGaps \/ Steady(gaps)) =>
    At(lastPts) - WindowStart \in 0..m_targetDuration

\* A reported window is longer than what was left of the target at its first
\* frame, and without its last frame it is not, give or take the rounding.
Fits(r, base, fps, rest) ==
  LET a == 1000 * base[1]
      b == base[2]
  IN  /\ a * (r.frames * r.gaps.most) >= rest * b
      /\ a * ((r.frames - 1) * r.gaps.least) <= (rest + 1) * b
      /\ r.gaps.least <= r.gaps.most
      /\ fps = Rate(r.frames)

Missing(r) == IF reports = 2 THEN 0 ELSE At(r.from)

ReportFits ==
  \A r \in report :
    Steady(r.gaps) /\ Missing(r) \in 0..m_targetDuration =>
      Fits(r, m_streamBaseTime, m_fps, m_targetDuration - Missing(r))

RateInv == WindowInv /\ GapInv /\ WithinTarget /\ ReportFits

\* The window a frame lengthens steadily.
LEMMA SteadyStep ==
  ASSUME RateInv, NEW pts \in Int, ~NoFrameYet, InTime, Steady(GapsAt(pts))
  PROVE  /\ int(m_currentDuration + int(At(pts) - m_lastFrameTime))
               = At(pts) - WindowStart
         /\ At(pts) - WindowStart \in Nat
         /\ At(lastPts) - WindowStart \in 0..m_targetDuration
<1> DEFINE g == GapsAt(pts)
           a == 1000 * m_streamBaseTime[1]
           b == m_streamBaseTime[2]
<1>1. TypeOK /\ m_streamBaseTime \in TimeBases
  BY BasesAssumption DEF RateInv, WindowInv, TypeOK, TimeBases
<1>2. /\ a \in Int /\ a > 0 /\ b \in Int /\ b > 0
      /\ At(pts) \in Int /\ At(lastPts) \in Int /\ WindowStart \in Int
      /\ lastPts \in Int /\ opened \in Int /\ m_targetDuration \in Nat
      /\ Widest \in Int
  BY <1>1, AtInt, MillisecondsNear, TargetAssumption, IntAssumption
     DEF TypeOK, Widest, WindowStart
<1>3. /\ g.any /\ g.least \in Int /\ g.most \in Int
      /\ pts - lastPts \in g.least..g.most
      /\ gaps.any => g.least <= gaps.least /\ gaps.most <= g.most
  BY GapsGrow DEF RateInv, Gaps
<1>4. g.least >= 1 /\ a * g.most <= Widest * b
  <2>1. g.least >= 1 /\ g.most * 1000 * m_streamBaseTime[1] <= Widest * b
    BY DEF Steady
  <2>2. g.most * 1000 * m_streamBaseTime[1] = a * g.most
    BY <1>1, <1>3, MillisecondsNear
  <2>3. QED
    BY <2>1, <2>2
<1> HIDE DEF g
<1>5. gaps = NoGaps \/ Steady(gaps)
  <2>1. CASE ~gaps.any
    BY <2>1 DEF RateInv, GapInv, SingleFrame
  <2>2. CASE gaps.any
    <3>1. gaps.least \in Int /\ gaps.most \in Int
      BY <1>1 DEF TypeOK, Gaps
    <3>2. gaps.least >= 1 /\ gaps.most <= g.most
      BY <1>3, <1>4, <2>2, <3>1
    <3>3. gaps.most * 1000 * m_streamBaseTime[1] = a * gaps.most
      <4>1. \A x \in Int, y \in Int : x * 1000 * y = (1000 * y) * x
        OBVIOUS
      <4>2. m_streamBaseTime[1] \in Int
        BY <1>1, MillisecondsNear
      <4>3. QED
        BY <3>1, <4>1, <4>2
    <3>4. a * gaps.most <= Widest * b
      <4> HIDE DEF a, b
      <4>1. g.most * a >= gaps.most * a
        BY <1>2, <1>3, <3>1, <3>2, Grows
      <4>2. g.most * a = a * g.most /\ gaps.most * a = a * gaps.most
        BY <1>2, <1>3, <3>1
      <4>3. /\ a * g.most \in Int /\ a * gaps.most \in Int /\ Widest * b \in Int
        BY <1>2, <1>3, <3>1
      <4>4. QED
        BY <1>4, <4>1, <4>2, <4>3
    <3>5. QED
      BY <2>2, <3>2, <3>3, <3>4 DEF Steady
  <2>3. QED
    BY <2>1, <2>2
<1>6. At(lastPts) - WindowStart \in 0..m_targetDuration
  BY <1>5 DEF RateInv, WithinTarget
<1>7. At(pts) >= At(lastPts)
  <2>1. pts >= lastPts
    BY <1>2, <1>3, <1>4
  <2>2. QED
    BY <1>1, <1>2, <2>1, MillisecondsForward DEF At
<1>8. At(pts) - At(lastPts) <= Widest + 1
  <2>1. a * (pts - lastPts) <= Widest * b
    <3> HIDE DEF a, b
    <3>1. g.most * a >= (pts - lastPts) * a
      BY <1>2, <1>3, Grows
    <3>2. g.most * a = a * g.most /\ (pts - lastPts) * a = a * (pts - lastPts)
      BY <1>2, <1>3
    <3>3. a * g.most \in Int /\ a * (pts - lastPts) \in Int /\ Widest * b \in Int
      BY <1>2, <1>3
    <3>4. QED
      BY <1>4, <3>1, <3>2, <3>3
  <2>2. QED
    BY <1>1, <1>2, <2>1, MillisecondsWide DEF At
<1> HIDE DEF a, b
<1>9. At(pts) - WindowStart \in 0..(IntHalf - 1)
  BY <1>2, <1>6, <1>7, <1>8, IntAssumption DEF Widest
<1>10. int(At(pts) - WindowStart) = At(pts) - WindowStart
  <2>1. At(pts) - WindowStart \in -IntHalf..(IntHalf - 1)
    BY <1>9, IntAssumption
  <2>2. QED
    BY <2>1, IntSame
<1>11. int(m_currentDuration + int(At(pts) - m_lastFrameTime)) = At(pts) - WindowStart
  BY <1>2, <1>10, DurationAt DEF RateInv
<1>12. At(pts) - WindowStart \in Nat
  BY <1>9, IntAssumption
<1>13. QED
  BY <1>6, <1>11, <1>12

\* When more than T milliseconds pass in at most n units of the time base, n
\* units are worth at least T milliseconds.
LEMMA WindowFits ==
  ASSUME NEW base \in TimeBases, NEW p \in Int, NEW q \in Int, NEW n \in Int, NEW T \in Int,
         Milliseconds(q, base) - Milliseconds(p, base) > T,
         q - p <= n
  PROVE  (1000 * base[1]) * n >= T * base[2]
<1> DEFINE a == 1000 * base[1]
           b == base[2]
           d == Milliseconds(q, base) - Milliseconds(p, base)
<1>1. /\ a \in Int /\ a > 0 /\ b \in Int /\ b > 0 /\ d \in Int /\ d > T
      /\ b * d - a * (q - p) \in -b..b
  BY MillisecondsNear, MillisecondsBetween
<1> SUFFICES a * n >= T * b
  OBVIOUS
<1> HIDE DEF a, b, d
<1>2. q - p \in Int /\ a * (q - p) \in Int /\ b * d \in Int /\ a * n \in Int
  BY <1>1
<1>3. n * a = a * n /\ (q - p) * a = a * (q - p) /\ d * b = b * d
  BY <1>1, <1>2
<1>4. n * a >= (q - p) * a
  BY <1>1, <1>2, Grows
<1>5. d * b >= (T + 1) * b
  <2>1. d >= T + 1 /\ T + 1 \in Int
    BY <1>1
  <2>2. QED
    BY <1>1, <2>1, Grows
<1>6. (T + 1) * b = T * b + b /\ T * b \in Int
  BY <1>1
<1>7. QED
  BY <1>1, <1>2, <1>3, <1>4, <1>5, <1>6

\* When at most T milliseconds pass in at least n units of the time base, n
\* units are worth at most T + 1 milliseconds.
LEMMA WindowHolds ==
  ASSUME NEW base \in TimeBases, NEW p \in Int, NEW q \in Int, NEW n \in Int, NEW T \in Int,
         Milliseconds(q, base) - Milliseconds(p, base) <= T,
         q - p >= n
  PROVE  (1000 * base[1]) * n <= (T + 1) * base[2]
<1> DEFINE a == 1000 * base[1]
           b == base[2]
           d == Milliseconds(q, base) - Milliseconds(p, base)
<1>1. /\ a \in Int /\ a > 0 /\ b \in Int /\ b > 0 /\ d \in Int /\ d <= T
      /\ b * d - a * (q - p) \in -b..b
  BY MillisecondsNear, MillisecondsBetween
<1> SUFFICES a * n <= (T + 1) * b
  OBVIOUS
<1> HIDE DEF a, b, d
<1>2. q - p \in Int /\ a * (q - p) \in Int /\ b * d \in Int /\ a * n \in Int
  BY <1>1
<1>3. n * a = a * n /\ (q - p) * a = a * (q - p) /\ d * b = b * d
  BY <1>1, <1>2
<1>4. (q - p) * a >= n * a
  BY <1>1, <1>2, Grows
<1>5. T * b >= d * b
  BY <1>1, Grows
<1>6. (T + 1) * b = T * b + b /\ T * b \in Int
  BY <1>1
<1>7. QED
  BY <1>1, <1>2, <1>3, <1>4, <1>5, <1>6

\* One step keeps RateInv: the report that closes a window is as steady as its gaps.
LEMMA RateStep ==
  ASSUME RateInv, [Next]_vars
  PROVE  RateInv'
<1>1. TypeOK /\ WindowInv' /\ GapInv'
  BY WindowStep, GapStep DEF RateInv, WindowInv
<1>2. CASE UNCHANGED vars
  BY <1>1, <1>2
     DEF RateInv, WithinTarget, ReportFits, Missing, InTime, WindowStart, Steady, At,
         NoFrameYet, vars
<1>3. ASSUME NEW pts \in Pts, frameCallback(pts)
      PROVE  RateInv'
  <2> DEFINE W == At(pts) - WindowStart
  <2>1. PICK over \in BOOLEAN, duration \in -IntHalf..(IntHalf - 1), first \in Int :
           /\ pts \in Int /\ At(pts) \in Int
           /\ duration = int(m_currentDuration + int(At(pts) - m_lastFrameTime))
           /\ over <=> (duration > m_targetDuration)
           /\ m_fps' = IF over THEN Rate(m_frameCounts + 1) ELSE m_fps
           /\ m_streamBaseTime' = m_streamBaseTime
           /\ lastPts' = pts
           /\ first = IF NoFrameYet THEN pts ELSE opened
           /\ opened' = IF over THEN pts ELSE first
           /\ gaps' = IF over THEN NoGaps ELSE GapsAt(pts)
           /\ reports' = IF over /\ reports < 2 THEN reports + 1 ELSE reports
           /\ report' = IF over
                        THEN {[frames |-> m_frameCounts + 1, from |-> first,
                               gaps |-> GapsAt(pts)]}
                        ELSE {}
    BY <1>1, <1>3, FrameStep DEF At
  <2>2. /\ reports \in 0..2 /\ m_targetDuration \in Nat
        /\ m_frameCounts \in Int /\ lastPts \in Int /\ opened \in Int
        /\ At(lastPts) \in Int /\ At(opened) \in Int
        /\ WindowStart \in Int
        /\ m_streamBaseTime \in TimeBases
    BY <1>1, AtInt, TargetAssumption, BasesAssumption DEF TypeOK, TimeBases, WindowStart
  <2>5. CASE over
    <3>1. WithinTarget'
      <4>1. At(pts) - At(pts) = 0
        BY <2>1
      <4>2. At(lastPts)' - WindowStart' = 0
        BY <2>1, <2>2, <2>5, <4>1 DEF At, WindowStart
      <4>3. QED
        BY <2>2, <4>2 DEF WithinTarget
    <3>2. ReportFits'
      <4> DEFINE n == m_frameCounts
                 g == GapsAt(pts)
                 r == [frames |-> n + 1, from |-> first, gaps |-> g]
                 missing == IF reports' = 2 THEN 0 ELSE At(first)
                 rest == m_targetDuration - missing
      <4>1. SUFFICES ASSUME Steady(g), missing \in 0..m_targetDuration
                     PROVE  Fits(r, m_streamBaseTime, m_fps', rest)
        <5>1. report' = {r}
          BY <2>1, <2>5
        <5>2. r.gaps = g /\ r.from = first
          OBVIOUS
        <5> HIDE DEF r
        <5>3. QED
          BY <2>1, <5>1, <5>2
             DEF ReportFits, Missing, Steady, At, Fits, Rate, Widest
      <4>2. ~NoFrameYet
        BY <4>1 DEF Steady, GapsAt, NoGaps
      <4>3. first = opened /\ InTime /\ missing = At(opened) - WindowStart
        <5>1. first = opened
          BY <2>1, <4>2
        <5>2. CASE reports = 0
          BY <2>1, <2>2, <2>5, <4>1, <5>1, <5>2 DEF InTime, WindowStart
        <5>3. CASE reports > 0
          BY <2>1, <2>2, <2>5, <5>1, <5>3 DEF InTime, WindowStart
        <5>4. QED
          BY <2>2, <5>1, <5>2, <5>3
      <4>4. duration = W /\ At(lastPts) - WindowStart \in 0..m_targetDuration
        BY <2>1, <4>1, <4>2, <4>3, SteadyStep
      <4>5. /\ At(pts) - At(opened) > rest
            /\ At(lastPts) - At(opened) <= rest
            /\ rest \in Int
        BY <2>1, <2>2, <2>5, <4>3, <4>4
      <4>6. /\ g.least \in Int /\ g.most \in Int /\ g.least <= g.most
            /\ n * g.least <= lastPts - opened
            /\ pts - opened <= (n + 1) * g.most
        <5>1. g \in Gaps /\ pts - lastPts \in g.least..g.most
          BY <2>1, <4>2, GapsGrow DEF RateInv
        <5>2. g.least \in Int /\ g.most \in Int
          BY <5>1 DEF Gaps
        <5>3. QED
          BY <2>1, <4>2, <5>1, <5>2, GapsGrow DEF RateInv
      <4> HIDE DEF g, missing, rest
      <4>7. n * g.least \in Int /\ (n + 1) * g.most \in Int
        BY <2>2, <4>6
      <4>8. (1000 * m_streamBaseTime[1]) * ((n + 1) * g.most)
              >= rest * m_streamBaseTime[2]
        BY <2>1, <2>2, <4>5, <4>6, <4>7, WindowFits DEF At
      <4>9. (1000 * m_streamBaseTime[1]) * (n * g.least)
              <= (rest + 1) * m_streamBaseTime[2]
        <5> DEFINE x == n * g.least
        <5>1. x \in Int /\ lastPts - opened >= x
          BY <2>2, <4>6, <4>7
        <5>2. Milliseconds(lastPts, m_streamBaseTime)
                - Milliseconds(opened, m_streamBaseTime) <= rest
          BY <4>5 DEF At
        <5> HIDE DEF x, n
        <5>3. (1000 * m_streamBaseTime[1]) * x <= (rest + 1) * m_streamBaseTime[2]
          BY <2>2, <4>5, <5>1, <5>2, WindowHolds
        <5>4. QED
          BY <5>3 DEF x
      <4>10. n + 1 - 1 = n
        BY <2>2
      <4>11. /\ r.frames = n + 1 /\ r.frames - 1 = n /\ r.gaps = g
             /\ m_fps' = Rate(r.frames)
        <5>1. r.frames = n + 1 /\ r.gaps = g
          OBVIOUS
        <5>2. m_fps' = Rate(r.frames)
          BY <2>1, <2>5
        <5>3. n \in Int
          BY <2>2
        <5> HIDE DEF r, n
        <5>4. QED
          BY <5>1, <5>2, <5>3
      <4> HIDE DEF r, n
      <4>12. QED
        BY <4>6, <4>8, <4>9, <4>11 DEF Fits
    <3>3. QED
      BY <1>1, <3>1, <3>2 DEF RateInv
  <2>6. CASE ~over
    <3>1. ReportFits'
      BY <2>1, <2>6 DEF ReportFits
    <3>2. WithinTarget'
      <4>1. CASE NoFrameYet
        <5>1. /\ opened' = pts /\ lastPts' = pts /\ reports' = reports
              /\ reports = 0
          BY <2>1, <2>6, <4>1 DEF RateInv, WindowInv, FirstIsFirst
        <5>2. WindowStart' = 0 /\ At(lastPts)' = At(pts) /\ At(opened)' = At(pts)
          BY <2>1, <5>1 DEF At, WindowStart
        <5>3. QED
          BY <2>1, <2>2, <5>1, <5>2 DEF WithinTarget, InTime
      <4>2. CASE ~NoFrameYet
        <5>1. /\ opened' = opened /\ reports' = reports /\ gaps' = GapsAt(pts)
              /\ WindowStart' = WindowStart /\ At(lastPts)' = At(pts)
          BY <2>1, <2>6, <4>2 DEF At, WindowStart
        <5>2. GapsAt(pts) # NoGaps
          BY <2>1, <4>2, GapsGrow DEF RateInv, NoGaps
        <5>3. SUFFICES ASSUME InTime, Steady(GapsAt(pts))
                       PROVE  W \in 0..m_targetDuration
          BY <2>1, <5>1, <5>2 DEF WithinTarget, InTime, Steady, At, Widest
        <5>4. duration = W /\ W \in Nat
          BY <2>1, <4>2, <5>3, SteadyStep
        <5>5. QED
          BY <2>1, <2>2, <2>6, <5>4
      <4>3. QED
        BY <4>1, <4>2
    <3>3. QED
      BY <1>1, <3>1, <3>2 DEF RateInv
  <2>7. QED
    BY <2>5, <2>6
<1>4. QED
  BY <1>2, <1>3 DEF Next

\* The first state satisfies RateInv.
LEMMA RateInit == Init => RateInv
<1> SUFFICES ASSUME Init PROVE RateInv
  OBVIOUS
<1>1. WindowInv /\ GapInv
  BY WindowInit, GapInit
<1>2. WithinTarget
  BY DEF Init, WithinTarget, NoFrameYet
<1>3. ReportFits
  BY DEF Init, ReportFits
<1>4. QED
  BY <1>1, <1>2, <1>3 DEF RateInv

\* From a window that fits the target to its rate: n frames in K seconds less
\* what is missing, with gaps of least to most ticks of num/den seconds.
LEMMA RateFits ==
  ASSUME NEW n \in Int, NEW least \in Int, NEW most \in Int, NEW K \in Int,
         NEW num \in Int, NEW den \in Int, NEW fps \in Int, NEW rest \in Int,
         NEW r \in 0..(K - 1),
         K > 0, num > 0, den > 0, 0 < least, least <= most, n = K * fps + r,
         (1000 * num) * (n * most) >= rest * den,
         (1000 * num) * ((n - 1) * least) <= (rest + 1) * den
  PROVE  /\ (fps + 1) * most * num * (1000 * K) > den * rest
         /\ (fps * (1000 * K) - 1000) * least * num <= den * (rest + 1)
<1> DEFINE c == most * num
           d == least * num
<1>1. c \in Int /\ c > 0 /\ d \in Int /\ d > 0
  <2>1. most * num > 0 * num /\ least * num > 0 * num
    BY Grows
  <2>2. c \in Int /\ d \in Int /\ 0 * num = 0
    OBVIOUS
  <2>3. QED
    BY <2>1, <2>2
<1>2. /\ (1000 * num) * (n * most) = 1000 * (n * c)
      /\ (1000 * num) * ((n - 1) * least) = 1000 * ((n - 1) * d)
      /\ (fps + 1) * most * num * (1000 * K) = 1000 * ((K * (fps + 1)) * c)
      /\ (fps * (1000 * K) - 1000) * least * num = 1000 * ((K * fps - 1) * d)
      /\ rest * den = den * rest /\ (rest + 1) * den = den * (rest + 1)
  OBVIOUS
<1>3. K * (fps + 1) > n /\ n - 1 >= K * fps - 1
  OBVIOUS
<1> HIDE DEF c, d
<1>4. /\ K * (fps + 1) \in Int /\ K * fps - 1 \in Int
      /\ den * rest \in Int /\ den * (rest + 1) \in Int
  OBVIOUS
<1>5. (K * (fps + 1)) * c > n * c /\ (n - 1) * d >= (K * fps - 1) * d
  BY <1>1, <1>3, <1>4, Grows
<1>6. /\ (K * (fps + 1)) * c \in Int /\ n * c \in Int
      /\ (n - 1) * d \in Int /\ (K * fps - 1) * d \in Int
  BY <1>1, <1>4
<1>7. QED
  BY <1>2, <1>4, <1>5, <1>6

\* Every forward stream is reported with its rate from the second report on,
\* evenly spaced or not, on every time base, wherever it starts and whatever
\* came before; and with what is missing of the target taken off in the first:
\* if the target is a number of whole seconds, as it is in the program.
THEOREM SteadyRateReported ==
  ASSUME m_targetDuration % 1000 = 0
  PROVE  Spec => []SteadyRate
<1> DEFINE K == m_targetDuration \div 1000
           num == m_streamBaseTime[1]
           den == m_streamBaseTime[2]
<1>1. K \in Int /\ K > 0 /\ m_targetDuration = 1000 * K
  BY TargetAssumption
<1>2. RateInv => SteadyRate
  <2>1. SUFFICES ASSUME RateInv, NEW r \in report, Steady(r.gaps),
                        Missing(r) \in 0..m_targetDuration
                 PROVE  LET rest == m_targetDuration - Missing(r)
                        IN  /\ (m_fps + 1) * r.gaps.most * num * m_targetDuration > den * rest
                            /\ (m_fps * m_targetDuration - 1000) * r.gaps.least * num
                                 <= den * (rest + 1)
    BY DEF SteadyRate, RateOf, Missing, At
  <2> DEFINE n == r.frames
             least == r.gaps.least
             most == r.gaps.most
             rest == m_targetDuration - Missing(r)
  <2>2. /\ n \in Int /\ least \in Int /\ 0 < least /\ most \in Int /\ m_fps \in Int
        /\ rest \in Int
    <3>1. TypeOK
      BY <2>1 DEF RateInv, WindowInv
    <3>2. r \in [frames : Nat, from : Int, gaps : Gaps] /\ m_fps \in Int
      BY <3>1 DEF TypeOK
    <3>3. r.gaps \in Gaps /\ r.frames \in Nat
      BY <3>2
    <3>4. r.gaps.least \in Int /\ r.gaps.most \in Int
      BY <3>3 DEF Gaps
    <3>5. r.gaps.least >= 1
      BY <2>1 DEF Steady
    <3>6. QED
      BY <2>1, <3>2, <3>3, <3>4, <3>5, TargetAssumption
  <2>3. num \in Int /\ num > 0 /\ den \in Int /\ den > 0
    <3>1. m_streamBaseTime \in TimeBases
      BY <2>1, BasesAssumption DEF RateInv, WindowInv, TypeOK, TimeBases
    <3>2. QED
      BY <3>1, MillisecondsNear
  <2>4. /\ (1000 * num) * (n * most) >= rest * den
        /\ (1000 * num) * ((n - 1) * least) <= (rest + 1) * den
        /\ least <= most
        /\ m_fps = n \div K
    BY <2>1 DEF RateInv, ReportFits, Fits, Rate
  <2> HIDE DEF K, num, den, n, least, most, rest
  <2>5. PICK x \in 0..(K - 1) : n = K * m_fps + x
    <3>1. \A a \in Int, q \in Int : q = a \div K => \E x \in 0..(K - 1) : a = K * q + x
      BY <1>1, DivRem
    <3>2. QED
      BY <2>2, <2>4, <3>1, Zenon
  <2>6. /\ (m_fps + 1) * most * num * (1000 * K) > den * rest
        /\ (m_fps * (1000 * K) - 1000) * least * num <= den * (rest + 1)
    BY <1>1, <2>2, <2>3, <2>4, <2>5, RateFits
  <2>7. QED
    BY <1>1, <2>6 DEF least, most, rest
<1>3. QED
  BY <1>2, RateInit, RateStep, PTL DEF Spec
=============================================================================
