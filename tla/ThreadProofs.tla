---------------------------- MODULE ThreadProofs ----------------------------
(***************************************************************************)
(* What holds of Thread for any number of starts and any owner, and what   *)
(* one can rely on who has not been hasty.                                 *)
(***************************************************************************)
EXTENDS Thread, TLAPS

\* The types, and what the context says of the system thread: ContextAgrees is
\* inductive only with the handle, which tells whether there is a thread at all.
HandleAgrees ==
  /\ os = "none" => m_handle = "none"
  /\ os # "none" /\ owner # "gone" => m_handle # "none"
  /\ m_handle = "joined" => os = "ended"
  /\ context = "freed" => owner = "gone"

IInv == TypeOK /\ ContextAgrees /\ HandleAgrees

\* What is remembered of the owner's haste at each kind of step.
NotesStart == hasty' = hasty \cup IF m_handle = "joinable" THEN {"start"} ELSE {}
NotesCall  == hasty' = hasty \cup IF os \in {"spawned", "alive"} THEN {"call"} ELSE {}
NotesJoin  == hasty' = {}

\* Whatever the owner does, types hold and the context tells the truth about
\* the system thread as long as no fault has ended the program.
THEOREM Agreement == Spec => []IInv
<1> USE StartsAssumption DEF IInv, TypeOK, ContextAgrees, HandleAgrees
<1>1. Init => IInv
  <2> SUFFICES ASSUME Init PROVE IInv
    OBVIOUS
  <2> USE DEF Init
  <2>1. starts \in 0..MaxStarts
    OBVIOUS
  <2>2. TypeOK /\ HandleAgrees
    BY <2>1
  <2>3. ContextAgrees
    OBVIOUS
  <2>4. QED
    BY <2>2, <2>3
<1>2. IInv /\ [Next]_vars => IInv'
  <2> SUFFICES ASSUME IInv, [Next]_vars PROVE IInv'
    OBVIOUS
  <2> USE DEF fields
  <2>1. CASE start /\ fault = "none" /\ NotesStart
    <3>1. CASE m_handle = "joinable"
      BY <2>1, <3>1 DEF start, NotesStart
    <3>2. CASE m_handle # "joinable"
      <4>1. starts' \in 0..MaxStarts
        BY <2>1, <3>2 DEF start
      <4>2. TypeOK' /\ HandleAgrees'
        BY <2>1, <3>2, <4>1 DEF start, NotesStart
      <4>3. ContextAgrees'
        BY <2>1, <3>2 DEF start
      <4>4. QED
        BY <4>2, <4>3
    <3>3. QED
      BY <3>1, <3>2
  <2>2. CASE startThrows /\ fault = "none" /\ NotesStart
    BY <2>2 DEF startThrows, NotesStart
  <2>3. CASE (joinAtOnce \/ joinBlocks) /\ NotesCall
    BY <2>3 DEF joinAtOnce, joinBlocks, NotesCall
  <2>4. CASE (waitForExit \/ destroy) /\ NotesCall
    BY <2>4 DEF waitForExit, destroy, NotesCall
  <2>5. CASE (joinReturns \/ destroyJoins) /\ NotesJoin
    BY <2>5 DEF joinReturns, destroyJoins, NotesJoin
  <2>6. CASE destroyFrees /\ UNCHANGED hasty
    BY <2>6 DEF destroyFrees
  <2>7. CASE begin /\ UNCHANGED hasty
    BY <2>7 DEF begin
  <2>8. CASE runTarget /\ UNCHANGED hasty
    BY <2>8 DEF runTarget
  <2>9. CASE targetReturns /\ UNCHANGED hasty
    BY <2>9 DEF targetReturns
  <2>10. CASE end /\ UNCHANGED hasty
    BY <2>10 DEF end
  <2>11. CASE UNCHANGED vars
    BY <2>11 DEF vars
  <2>12. QED
    BY <2>1, <2>2, <2>3, <2>4, <2>5, <2>6, <2>7, <2>8, <2>9, <2>10, <2>11
       DEF Next, OwnerStep, SystemStep, Restart, Query, JoinEnds,
           NotesStart, NotesCall, NotesJoin
<1>3. QED
  BY <1>1, <1>2, PTL DEF Spec

\* The context tells the truth while no fault has ended the program.
THEOREM ContextTruthful == Spec => []ContextAgrees
<1>1. IInv => ContextAgrees
  BY DEF IInv
<1>2. QED
  BY <1>1, Agreement, PTL

----------------------------------------------------------------------------
\* Where join() blocks there is a system thread to be joined: the second test of
\* join(), joinable(), never fails after the first, isRunning(), was passed.
JoinsAThread ==
  owner \in {"joining", "destroying"} =>
    m_handle = "joinable" /\ os \in {"running", "ran", "ended"}

\* Nobody joins twice or joins nothing, patient or not.
THEOREM JoinsOnlyJoinable == Spec => [](fault = "none" => JoinsAThread)
<1> DEFINE Inv == fault = "none" => JoinsAThread
<1>1. Init => Inv
  BY DEF Init, JoinsAThread
<1>2. IInv /\ Inv /\ [Next]_vars => Inv'
  <2> SUFFICES ASSUME IInv, Inv, [Next]_vars PROVE Inv'
    OBVIOUS
  <2> USE DEF IInv, TypeOK, ContextAgrees, HandleAgrees, JoinsAThread, fields
  <2>1. CASE UNCHANGED vars
    BY <2>1 DEF vars
  <2>2. CASE fault = "none" /\ (start \/ startThrows \/ joinAtOnce \/ waitForExit)
    BY <2>2 DEF start, startThrows, joinAtOnce, waitForExit
  <2>3. CASE fault = "none" /\ (joinBlocks \/ destroy)
    BY <2>3 DEF joinBlocks, destroy
  <2>4. CASE fault = "none" /\ (joinReturns \/ destroyJoins \/ destroyFrees)
    BY <2>4 DEF joinReturns, destroyJoins, destroyFrees
  <2>5. CASE fault = "none" /\ SystemStep
    BY <2>5 DEF SystemStep, begin, runTarget, targetReturns, end
  <2>6. QED
    BY <2>1, <2>2, <2>3, <2>4, <2>5 DEF Next, OwnerStep, Restart, Query, JoinEnds
<1>3. QED
  BY <1>1, <1>2, Agreement, PTL DEF Spec

\* For an owner who calls when he likes: the window before running is set is the
\* only one in which a call or the destructor can be wrong about the thread.
THEOREM OnlyTooEarly == Spec => NeverMidTarget
<1>1. IInv /\ [Next]_vars => [SaysExited \/ LetsGo => os # "running"]_vars
  <2> SUFFICES ASSUME IInv, Next, SaysExited \/ LetsGo
               PROVE  os # "running"
    OBVIOUS
  <2> USE DEF IInv, TypeOK, ContextAgrees, HandleAgrees, fields
  <2>1. fault = "none"
    BY DEF Next
  <2>2. CASE SaysExited
    BY <2>1, <2>2 DEF SaysExited, joinAtOnce, joinReturns, waitForExit
  <2>3. CASE LetsGo
    <3>1. (destroy /\ ~running) \/ destroyJoins
      BY <2>3 DEF LetsGo, Next, OwnerStep, SystemStep, Restart, Query, JoinEnds, start, startThrows, joinAtOnce,
                  joinBlocks, joinReturns, waitForExit, destroy, destroyFrees, begin,
                  runTarget, targetReturns, end
    <3>2. QED
      BY <2>1, <3>1 DEF destroy, destroyJoins
  <2>4. QED
    BY <2>2, <2>3
<1>2. QED
  BY <1>1, Agreement, PTL DEF Spec, NeverMidTarget

----------------------------------------------------------------------------
\* What an owner has learnt who was not hasty: from the moment it was told, or
\* began to let go, the target is over.  And whatever he was, when the context goes
\* no thread is left that has begun, unless a start that threw has disowned it.
LearntInv ==
  /\ "call" \notin hasty => ExitMeansOver /\ (owner \in {"detaching", "gone"} => TargetOver)
  /\ context = "freed" => \/ os \in {"none", "ended"}
                          \/ os = "spawned" /\ "call" \in hasty
                          \/ "start" \in hasty
  /\ NoUseAfterFree

\* The inductive step behind the two theorems below.
THEOREM Learnt == Spec => []LearntInv
<1> USE DEF LearntInv, ExitMeansOver, TargetOver, NoUseAfterFree
<1>1. Init => LearntInv
  BY DEF Init
<1>2. IInv /\ LearntInv /\ [Next]_vars => LearntInv'
  <2> SUFFICES ASSUME IInv, LearntInv, [Next]_vars PROVE LearntInv'
    OBVIOUS
  <2> USE DEF IInv, TypeOK, ContextAgrees, HandleAgrees, fields
  <2>1. ASSUME fault = "none", context = "live", ~running, NotesCall, "call" \notin hasty'
        PROVE  TargetOver /\ "call" \notin hasty
    BY <2>1 DEF NotesCall
  <2>2. CASE start /\ fault = "none" /\ NotesStart
    BY <2>2 DEF start, NotesStart
  <2>3. CASE startThrows /\ fault = "none" /\ NotesStart
    BY <2>3 DEF startThrows, NotesStart
  <2>4. CASE joinAtOnce /\ fault = "none" /\ NotesCall
    BY <2>1, <2>4 DEF joinAtOnce, NotesCall
  <2>5. CASE joinBlocks /\ fault = "none" /\ NotesCall
    BY <2>5 DEF joinBlocks, NotesCall
  <2>6. CASE waitForExit /\ fault = "none" /\ NotesCall
    BY <2>1, <2>6 DEF waitForExit, NotesCall
  <2>7. CASE destroy /\ fault = "none" /\ NotesCall
    BY <2>1, <2>7 DEF destroy, NotesCall
  <2>8. CASE (joinReturns \/ destroyJoins) /\ fault = "none" /\ NotesJoin
    BY <2>8 DEF joinReturns, destroyJoins, NotesJoin
  <2>9. CASE destroyFrees /\ fault = "none" /\ UNCHANGED hasty
    BY <2>9 DEF destroyFrees
  <2>10. CASE begin /\ fault = "none" /\ UNCHANGED hasty
    BY <2>10 DEF begin
  <2>11. CASE runTarget /\ fault = "none" /\ UNCHANGED hasty
    BY <2>11 DEF runTarget
  <2>12. CASE targetReturns /\ fault = "none" /\ UNCHANGED hasty
    BY <2>12 DEF targetReturns
  <2>13. CASE end /\ fault = "none" /\ UNCHANGED hasty
    BY <2>13 DEF end
  <2>14. CASE UNCHANGED vars
    BY <2>14 DEF vars
  <2>15. QED
    BY <2>2, <2>3, <2>4, <2>5, <2>6, <2>7, <2>8, <2>9, <2>10, <2>11, <2>12, <2>13, <2>14
       DEF Next, OwnerStep, SystemStep, Restart, Query, JoinEnds,
           NotesStart, NotesCall, NotesJoin
<1>3. QED
  BY <1>1, <1>2, Agreement, PTL DEF Spec

\* join and waitForExit keep the word of thread.hpp, and the lambda may capture
\* the owner by reference, as long as the owner does not ask before running is set.
THEOREM PatientIsRight == Spec => []OverWhenPatient
<1>1. LearntInv => OverWhenPatient
  BY DEF LearntInv, OverWhenPatient
<1>2. QED
  BY <1>1, Learnt, PTL

\* A finishing thread never touches a freed context, whoever the owner.
THEOREM FinishesInContext == Spec => []NoUseAfterFree
<1>1. LearntInv => NoUseAfterFree
  BY DEF LearntInv
<1>2. QED
  BY <1>1, Learnt, PTL
=============================================================================
