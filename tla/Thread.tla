------------------------------- MODULE Thread -------------------------------
(***************************************************************************)
(* common::async::Thread (src/src/common/thread.cpp): an owner that        *)
(* starts, joins, waits for and destroys the wrapper, and the operating    *)
(* system thread it spawned, which shares the Context with it.  Every      *)
(* field of the Context is a plain bool: the owner decides on what it      *)
(* reads there, not on what the system thread really does.                 *)
(***************************************************************************)
EXTENDS Naturals

CONSTANT MaxStarts    \* bound on the number of system threads, for TLC

ASSUME StartsAssumption  == MaxStarts \in Nat

VARIABLES
  os,             \* where the system thread is
  running,        \* Context::running
  threadIsAlive,  \* Context::threadIsAlive
  context,        \* "live", or "freed" after delete m_context
  m_handle,       \* "none", "joinable" or "joined": the std::thread held
  owner,          \* "idle", or the blocking call the owner is inside, or "gone"
  said,           \* "exited" once join or waitForExit told the caller so
  fault,          \* what ended the program
  starts,         \* system threads spawned so far
  hasty           \* history: what the owner has done too early, see OwnerStep

fields == <<running, threadIsAlive>>
vars == <<os, fields, context, m_handle, owner, said, fault, starts, hasty>>

Init == /\ os = "none"
        /\ running = FALSE /\ threadIsAlive = FALSE
        /\ context = "live"
        /\ m_handle = "none"
        /\ owner = "idle" /\ said = "nothing"
        /\ fault = "none"
        /\ starts = 0
        /\ hasty = {}

----------------------------------------------------------------------------
(* The owner.                                                               *)

\* start() on a wrapper that is not running resets the context.  startAsync
\* then replaces m_handle: a std::thread that was never joined is destroyed,
\* which is std::terminate.
start ==
  /\ owner = "idle"
  /\ starts < MaxStarts
  /\ ~running
  /\ running' = FALSE /\ threadIsAlive' = FALSE
  /\ IF m_handle = "joinable"
     THEN fault' = "terminate" /\ UNCHANGED <<os, m_handle, said, starts>>
     ELSE /\ os' = "spawned" /\ m_handle' = "joinable"
          /\ said' = "nothing"
          /\ starts' = starts + 1
          /\ UNCHANGED fault
  /\ UNCHANGED <<context, owner>>

\* When the system has no thread left start() throws: the context was reset, and
\* the handle is what it was.
startThrows ==
  /\ owner = "idle"
  /\ ~running
  /\ running' = FALSE /\ threadIsAlive' = FALSE
  /\ UNCHANGED <<os, context, m_handle, owner, said, fault, starts>>

\* join() returns at once when the context does not say running ...
joinAtOnce ==
  /\ owner = "idle"
  /\ ~running
  /\ said' = "exited"
  /\ UNCHANGED <<os, fields, context, m_handle, owner, fault, starts>>

\* Mutant of joinBlocks: it does not block.
joinNotAtAll ==
  /\ owner = "idle"
  /\ running
  /\ said' = "exited"
  /\ UNCHANGED <<os, fields, context, m_handle, owner, fault, starts>>

\* ... and otherwise joins the system thread.
joinBlocks ==
  /\ owner = "idle"
  /\ running
  /\ owner' = "joining"
  /\ UNCHANGED <<os, fields, context, m_handle, said, fault, starts>>

joinReturns ==
  /\ owner = "joining" /\ os = "ended"
  /\ owner' = "idle" /\ said' = "exited"
  /\ m_handle' = "joined"
  /\ UNCHANGED <<os, fields, context, fault, starts>>

\* waitForExit() polls running, and gives up after its timeout.
waitForExit ==
  /\ owner = "idle"
  /\ said' = IF running THEN "timeout" ELSE "exited"
  /\ UNCHANGED <<os, fields, context, m_handle, owner, fault, starts>>

\* Mutant of destroy: ~Thread() does not join.
destroyUnjoined ==
  /\ owner = "idle"
  /\ owner' = "detaching"
  /\ UNCHANGED <<os, fields, context, m_handle, said, fault, starts>>

\* ~Thread() calls join() ...
destroy ==
  /\ owner = "idle"
  /\ owner' = IF running THEN "destroying" ELSE "detaching"
  /\ UNCHANGED <<os, fields, context, m_handle, said, fault, starts>>

destroyJoins ==
  /\ owner = "destroying" /\ os = "ended"
  /\ owner' = "detaching"
  /\ m_handle' = "joined"
  /\ UNCHANGED <<os, fields, context, said, fault, starts>>

\* Mutant of destroyFrees: the context goes whatever threadIsAlive says.
destroyFreesAnyway ==
  /\ owner = "detaching"
  /\ owner' = "gone"
  /\ m_handle' = "none"
  /\ context' = "freed"
  /\ UNCHANGED <<os, fields, said, fault, starts>>

\* ... then detaches what is left to detach and frees the context if the system
\* thread does not call itself alive.  detach() on a joined std::thread throws,
\* and the context stays.
destroyFrees ==
  /\ owner = "detaching"
  /\ owner' = "gone"
  /\ m_handle' = "none"
  /\ context' = IF m_handle = "joined" \/ threadIsAlive THEN context ELSE "freed"
  /\ UNCHANGED <<os, fields, said, fault, starts>>

----------------------------------------------------------------------------
(* The system thread.                                                       *)

\* It writes to the context first, which the owner may have freed by then.
begin ==
  /\ os = "spawned"
  /\ IF context = "freed"
     THEN fault' = "use_after_free" /\ UNCHANGED <<os, fields>>
     ELSE os' = "alive" /\ threadIsAlive' = TRUE /\ UNCHANGED <<running, fault>>
  /\ UNCHANGED <<context, m_handle, owner, said, starts>>

runTarget ==
  /\ os = "alive"
  /\ running' = TRUE
  /\ os' = "running"
  /\ UNCHANGED <<threadIsAlive, context, m_handle, owner, said, fault, starts>>

\* Mutant of targetReturns: runAsync leaves running set.
targetStillRunning ==
  /\ os = "running"
  /\ os' = "ran"
  /\ UNCHANGED <<fields, context, m_handle, owner, said, fault, starts>>

\* The target returns, or throws a std::exception, which runAsync swallows.
targetReturns ==
  /\ os = "running"
  /\ running' = FALSE
  /\ os' = "ran"
  /\ UNCHANGED <<threadIsAlive, context, m_handle, owner, said, fault, starts>>

end ==
  /\ os = "ran"
  /\ IF context = "freed"
     THEN fault' = "use_after_free" /\ UNCHANGED <<os, fields>>
     ELSE os' = "ended" /\ running' = FALSE /\ threadIsAlive' = FALSE /\ UNCHANGED fault
  /\ UNCHANGED <<context, m_handle, owner, said, starts>>

Restart  == start \/ startThrows
Query    == joinAtOnce \/ joinBlocks \/ waitForExit \/ destroy
JoinEnds == joinReturns \/ destroyJoins

\* The owner is hasty who joins, waits or destroys before runAsync has set
\* running, or starts a wrapper whose thread it has not really joined.  A real
\* join makes up for it.
OwnerStep ==
  \/ Restart /\ hasty' = hasty \cup IF m_handle = "joinable" THEN {"start"} ELSE {}
  \/ Query /\ hasty' = hasty \cup IF os \in {"spawned", "alive"} THEN {"call"} ELSE {}
  \/ JoinEnds /\ hasty' = {}
  \/ destroyFrees /\ UNCHANGED hasty

SystemStep == (begin \/ runTarget \/ targetReturns \/ end) /\ UNCHANGED hasty

\* A fault ends the program.
Next == fault = "none" /\ (OwnerStep \/ SystemStep)

Spec == Init /\ [][Next]_vars

----------------------------------------------------------------------------
TypeOK ==
  /\ os \in {"none", "spawned", "alive", "running", "ran", "ended"}
  /\ running \in BOOLEAN /\ threadIsAlive \in BOOLEAN
  /\ context \in {"live", "freed"}
  /\ m_handle \in {"none", "joinable", "joined"}
  /\ owner \in {"idle", "joining", "destroying", "detaching", "gone"}
  /\ said \in {"nothing", "timeout", "exited"}
  /\ fault \in {"none", "terminate", "use_after_free"}
  /\ starts \in 0..MaxStarts
  /\ hasty \subseteq {"start", "call"}

\* While both exist the context says of the system thread what is the case.  A
\* start that throws makes it forget one that is alive, which is in nobody's way
\* if the owner starts only what it has joined.
ContextAgrees ==
  context = "live" /\ fault = "none" =>
    /\ running <=> (os = "running")
    /\ threadIsAlive => os \in {"alive", "running", "ran"}
    /\ "start" \notin hasty /\ os \in {"alive", "running", "ran"} => threadIsAlive

\* The target neither runs nor is still to run.
TargetOver == os \in {"none", "ran", "ended"}

\* join and waitForExit "wait until the thread exits": when one has returned,
\* other than by a timeout, no target runs or will run.
ExitMeansOver == said = "exited" => TargetOver

\* So it is for an owner that never asked before running was set; and the target,
\* a lambda that captures the owner by reference, is over when its destructor is.
OverWhenPatient ==
  "call" \notin hasty => ExitMeansOver /\ (owner = "gone" => TargetOver)

\* join or waitForExit says that the thread has exited; the destructor lets it go.
SaysExited == said' = "exited" /\ (joinAtOnce \/ joinReturns \/ waitForExit)
LetsGo == owner # "detaching" /\ owner' = "detaching"

\* Nobody is told that the thread has exited, and no destructor lets it go, while
\* the target is running, however hasty the owner: whoever is told wrongly is told
\* before the system thread got to set running.
NeverMidTarget == [][SaysExited \/ LetsGo => os # "running"]_vars

\* The context is not touched after it was freed, but by a thread that had not
\* begun when a hasty owner destroyed the wrapper, or one whose context was reset
\* by a start that threw.
NoUseAfterFree ==
  fault = "use_after_free" =>
    \/ os = "spawned" /\ "call" \in hasty
    \/ "start" \in hasty

\* A wrapper whose thread has exited may be started again.
Reusable == ~(fault = "terminate" /\ os = "ended")
=============================================================================
