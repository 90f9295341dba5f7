------------------------------ MODULE Monitor ------------------------------
(***************************************************************************)
(* Object monitors: libil2cpp/vm/Monitor.cpp, the lock behind every        *)
(* managed lock statement, Monitor.Wait and Monitor.Pulse.                 *)
(*                                                                         *)
(* A monitor is attached to an object while somebody is interested in it   *)
(* ("inflated") and goes back to a free list, to serve any other object,   *)
(* when the last owner leaves ("deflated").  No lock protects any of this: *)
(* threads may keep a pointer to a monitor that has been deflated, or that *)
(* is already attached to another object.  One action below is one atomic  *)
(* access of the code to state that other threads access; accesses only    *)
(* the owner of a monitor can make are merged with the one before them.    *)
(*                                                                         *)
(* The semaphore and the two events are abstracted to what they promise    *)
(* (a bounded count, auto-reset flags); the shared PAL classes that        *)
(* implement them are WaitObject's subject.                                *)
(***************************************************************************)
EXTENDS Integers, FiniteSets, Sequences, SequencesExt

CONSTANTS
    Threads,            \* the threads that call into the monitor
    Objects,            \* the managed objects they lock
    Monitors,           \* the MonitorData nodes that can be allocated
    NULL,               \* the null pointer
    CanBeAcquired,      \* MonitorData::kCanBeAcquiredByOtherThread
    ReturnedToFreeList, \* MonitorData::kHasBeenReturnedToFreeList
    EnterTimeouts,      \* timeouts passed to TryEnter
    WaitTimeouts,       \* timeouts passed to TryWait
    Interrupts,         \* may an APC throw out of an interruptible wait?
    Aborts,             \* may that exception be NativeThreadAbortException?
    NestedLocks,        \* may a thread hold two objects at a time?
    MaxRecursion,       \* bound: nested Enters of one object by a thread
    SemaphoreMaximum    \* maximumValue of the monitor's semaphore

ASSUME ConstantsAssumption ==
    /\ NULL \notin Threads \union Objects \union Monitors
    /\ {CanBeAcquired, ReturnedToFreeList} \cap Threads = {}
    /\ CanBeAcquired # ReturnedToFreeList
    /\ EnterTimeouts \subseteq {"zero", "finite", "infinite"}
    /\ WaitTimeouts \subseteq {"zero", "finite", "infinite"}
    /\ {Interrupts, Aborts, NestedLocks} \subseteq BOOLEAN
    /\ IsFiniteSet(Threads)
    /\ MaxRecursion \in Nat \ {0}
    /\ SemaphoreMaximum \in Nat

VARIABLES
    monitor,                \* Il2CppObject::monitor of each object
    \* MonitorData
    owningThreadId,
    threadAborted,
    recursiveLockingCount,
    semaphore,              \* the semaphore's count
    readyList,              \* the threads numThreadsWaitingForSemaphore counts
    flushAcknowledged,      \* an auto-reset event
    threadsWaitingForPulse, \* wait nodes; a node is named by its thread
    s_FreeList,             \* free monitors, and those `new` would make
    \* PulseWaitingListNode
    signalWaitingThread,    \* an auto-reset event
    \* what each thread is doing
    pc,
    object,                 \* the argument of the call it is in
    installedMonitor,       \* the local variable of that name, or "monitor"
    timeout,
    waiting,                \* is the call inside TryWait?
    oldLockingCount,        \* TryWait's local variable
    dying,                  \* threads that NativeThreadAbortException unwinds
    held                    \* client's view: Enters that succeeded less Exits

lockv == <<monitor, owningThreadId, s_FreeList>>
countv == <<threadAborted, recursiveLockingCount>>
wakev == <<semaphore, readyList, flushAcknowledged>>
pulsev == <<threadsWaitingForPulse, signalWaitingThread>>
argv == <<timeout, waiting, oldLockingCount, dying>>
callv == <<object, installedMonitor, held, argv>>
vars == <<lockv, countv, wakev, pulsev, pc, callv>>

Init ==
    /\ monitor = [o \in Objects |-> NULL]
    /\ owningThreadId = [m \in Monitors |-> ReturnedToFreeList]
    /\ threadAborted = [m \in Monitors |-> FALSE]
    /\ recursiveLockingCount = [m \in Monitors |-> 1]
    /\ semaphore = [m \in Monitors |-> 0]
    /\ readyList = [m \in Monitors |-> {}]
    /\ flushAcknowledged = [m \in Monitors |-> FALSE]
    /\ threadsWaitingForPulse = [m \in Monitors |-> <<>>]
    /\ s_FreeList = Monitors
    /\ signalWaitingThread = [t \in Threads |-> FALSE]
    /\ pc = [t \in Threads |-> "Idle"]
    /\ object = [t \in Threads |-> NULL]
    /\ installedMonitor = [t \in Threads |-> NULL]
    /\ timeout = [t \in Threads |-> "infinite"]
    /\ waiting = [t \in Threads |-> FALSE]
    /\ oldLockingCount = [t \in Threads |-> 1]
    /\ dying = {}
    /\ held = [t \in Threads |-> [o \in Objects |-> 0]]

----------------------------------------------------------------------------
\* Control: from one program point of a thread to the next.

At(t, label) == pc[t] = label
Goto(t, label) == pc' = [pc EXCEPT ![t] = label]

\* TryEnter returns true; in TryWait the caller goes on at line 655.
EnterReturnsTrue(t) ==
    /\ Goto(t, IF waiting[t] THEN "Reacquired" ELSE "Idle")
    /\ held' = IF waiting[t] THEN held
               ELSE [held EXCEPT ![t][object[t]] = @ + 1]
    /\ object' = [object EXCEPT ![t] = IF waiting[t] THEN @ ELSE NULL]
    /\ installedMonitor' = [installedMonitor EXCEPT ![t] = NULL]
    /\ UNCHANGED argv

\* TryEnter returns false, or an exception leaves it.  The latter also leaves
\* the TryWait around it; its wait node stays on the list, and because a node
\* is named by its thread, that thread makes no further call in this model.
EnterFails(t) ==
    /\ Goto(t, IF waiting[t] THEN "Dead" ELSE "Idle")
    /\ object' = [object EXCEPT ![t] = NULL]
    /\ installedMonitor' = [installedMonitor EXCEPT ![t] = NULL]
    /\ waiting' = [waiting EXCEPT ![t] = FALSE]
    /\ UNCHANGED <<held, timeout, oldLockingCount, dying>>

\* Exit returns: to TryWait, to the unwinding of an aborted thread, or to the
\* client.
ExitReturns(t) ==
    /\ Goto(t, IF waiting[t] THEN "PulseWait"
               ELSE IF t \in dying THEN "Dead" ELSE "Idle")
    /\ object' = [object EXCEPT ![t] = IF waiting[t] THEN @ ELSE NULL]
    /\ installedMonitor' = [installedMonitor EXCEPT ![t] = NULL]
    /\ UNCHANGED <<held, argv>>

----------------------------------------------------------------------------
\* MonitorData's operations.

SetOwner(m, owner) == owningThreadId' = [owningThreadId EXCEPT ![m] = owner]

\* Mutant of CanAcquire: a plain store in place of the compare-exchange.
AcquireWithoutCompare(m) == owningThreadId[m] # ReturnedToFreeList

CanAcquire(m) == owningThreadId[m] = CanBeAcquired

Unacquire(m) == SetOwner(m, CanBeAcquired)

AddToReadyList(t, m) == readyList' = [readyList EXCEPT ![m] = @ \union {t}]

RemoveFromReadyList(t, m) == readyList' = [readyList EXCEPT ![m] = @ \ {t}]

\* Semaphore::Post(n): refused as a whole if it would exceed the maximum.
Posted(count, n) == IF count + n > SemaphoreMaximum THEN count ELSE count + n

Post(m, n) == semaphore' = [semaphore EXCEPT ![m] = Posted(@, n)]

\* owningThreadId = kHasBeenReturnedToFreeList; s_FreeList.Release(m)
ReturnToFreeList(m) ==
    /\ SetOwner(m, ReturnedToFreeList)
    /\ s_FreeList' = s_FreeList \union {m}

\* The list without the node of t, if it is there.
RemoveFromPulseWaitingList(list, t) ==
    IF \E i \in DOMAIN list : list[i] = t
      THEN RemoveAt(list, CHOOSE i \in DOMAIN list : list[i] = t)
      ELSE list

\* GetMonitorAndThrowIfNotLockedByCurrentThread: when false, the call throws
\* SynchronizationLockException and nothing has changed.
LockedByCurrentThread(t, o) ==
    /\ monitor[o] # NULL
    /\ \/ owningThreadId[monitor[o]] = t
       \/ threadAborted[monitor[o]]

Attached(t) == monitor[object[t]] = installedMonitor[t]

----------------------------------------------------------------------------
\* Monitor::TryEnter (Enter is TryEnter with an infinite timeout).

Enter(t, o, ms) ==
    /\ At(t, "Idle")
    /\ held[t][o] < MaxRecursion
    /\ NestedLocks \/ \A p \in Objects \ {o} : held[t][p] = 0
    /\ object' = [object EXCEPT ![t] = o]
    /\ timeout' = [timeout EXCEPT ![t] = ms]
    /\ Goto(t, "Enter")
    /\ UNCHANGED <<lockv, countv, wakev, pulsev, installedMonitor, held,
                   waiting, oldLockingCount, dying>>

\* installedMonitor = obj->monitor
ReadMonitor(t) ==
    /\ At(t, "Enter")
    /\ installedMonitor' = [installedMonitor EXCEPT ![t] = monitor[object[t]]]
    /\ Goto(t, IF monitor[object[t]] = NULL THEN "Inflate" ELSE "TryLock")
    /\ UNCHANGED <<lockv, countv, wakev, pulsev, object, held, argv>>

\* Allocate a monitor and take it over; "installedMonitor" names it.
Allocate(t) ==
    /\ At(t, "Inflate")
    /\ \E m \in s_FreeList :
          /\ s_FreeList' = s_FreeList \ {m}
          /\ SetOwner(m, t)
          /\ installedMonitor' = [installedMonitor EXCEPT ![t] = m]
    /\ Goto(t, "Install")
    /\ UNCHANGED <<monitor, countv, wakev, pulsev, object, held, argv>>

\* The compare-exchange that inflates the object succeeds ...
Install(t) ==
    /\ At(t, "Install")
    /\ monitor[object[t]] = NULL
    /\ monitor' = [monitor EXCEPT ![object[t]] = installedMonitor[t]]
    /\ EnterReturnsTrue(t)
    /\ UNCHANGED <<owningThreadId, s_FreeList, countv, wakev, pulsev>>

\* ... or another thread won, and the new monitor goes back.
InstallLost(t) ==
    /\ At(t, "Install")
    /\ monitor[object[t]] # NULL
    /\ ReturnToFreeList(installedMonitor[t])
    /\ installedMonitor' = [installedMonitor EXCEPT ![t] = NULL]
    /\ Goto(t, "Enter")
    /\ UNCHANGED <<monitor, countv, wakev, pulsev, object, held, argv>>

\* The thread already owns the monitor.
LockRecursively(t) ==
    /\ At(t, "TryLock")
    /\ owningThreadId[installedMonitor[t]] = t
    /\ recursiveLockingCount' =
          [recursiveLockingCount EXCEPT ![installedMonitor[t]] = @ + 1]
    /\ EnterReturnsTrue(t)
    /\ UNCHANGED <<lockv, threadAborted, wakev, pulsev>>

\* The first TryAcquire succeeds.
TryAcquire(t) ==
    /\ At(t, "TryLock")
    /\ CanAcquire(installedMonitor[t])
    /\ SetOwner(installedMonitor[t], t)
    /\ Goto(t, "Recheck")
    /\ UNCHANGED <<monitor, s_FreeList, countv, wakev, pulsev, callv>>

\* The monitor just acquired is still the object's ...
Recheck(t) ==
    /\ At(t, "Recheck")
    /\ Attached(t)
    /\ EnterReturnsTrue(t)
    /\ UNCHANGED <<lockv, countv, wakev, pulsev>>

\* ... or it is not: Unacquire and start again.
RecheckFails(t) ==
    /\ At(t, "Recheck")
    /\ ~Attached(t)
    /\ Goto(t, "Backout")
    /\ UNCHANGED <<lockv, countv, wakev, pulsev, callv>>

Backout(t) ==
    /\ At(t, "Backout")
    /\ Unacquire(installedMonitor[t])
    /\ installedMonitor' = [installedMonitor EXCEPT ![t] = NULL]
    /\ Goto(t, "Enter")
    /\ UNCHANGED <<monitor, s_FreeList, countv, wakev, pulsev, object, held,
                   argv>>

\* Locked by another thread: a zero timeout fails at once ...
FailAtOnce(t) ==
    /\ At(t, "TryLock")
    /\ owningThreadId[installedMonitor[t]] \notin {t, CanBeAcquired}
    /\ timeout[t] = "zero"
    /\ EnterFails(t)
    /\ UNCHANGED <<lockv, countv, wakev, pulsev>>

\* ... any other queues up.
QueueUp(t) ==
    /\ At(t, "TryLock")
    /\ owningThreadId[installedMonitor[t]] \notin {t, CanBeAcquired}
    /\ timeout[t] # "zero"
    /\ Goto(t, "Ready")
    /\ UNCHANGED <<lockv, countv, wakev, pulsev, callv>>

\* AddCurrentThreadToReadyList
GetReady(t) ==
    /\ At(t, "Ready")
    /\ AddToReadyList(t, installedMonitor[t])
    /\ Goto(t, "Loop")
    /\ UNCHANGED <<lockv, countv, semaphore, flushAcknowledged, pulsev,
                   callv>>

\* The test after queueing up, and the one of the while loop.
TestAttached(t) ==
    /\ At(t, "Loop")
    /\ Goto(t, IF Attached(t) THEN "Grab" ELSE "Vacate")
    /\ UNCHANGED <<lockv, countv, wakev, pulsev, callv>>

\* TryAcquire inside the loop succeeds; the monitor is not looked up again.
Grab(t) ==
    /\ At(t, "Grab")
    /\ CanAcquire(installedMonitor[t])
    /\ SetOwner(installedMonitor[t], t)
    /\ Goto(t, "Unready")
    /\ UNCHANGED <<monitor, s_FreeList, countv, wakev, pulsev, callv>>

\* It fails: wait for the owner's signal.
GrabFails(t) ==
    /\ At(t, "Grab")
    /\ ~CanAcquire(installedMonitor[t])
    /\ Goto(t, "SemWait")
    /\ UNCHANGED <<lockv, countv, wakev, pulsev, callv>>

\* RemoveCurrentThreadFromReadyList after the acquisition.
Unready(t) ==
    /\ At(t, "Unready")
    /\ RemoveFromReadyList(t, installedMonitor[t])
    /\ EnterReturnsTrue(t)
    /\ UNCHANGED <<lockv, countv, semaphore, flushAcknowledged, pulsev>>

\* semaphore.Wait returns because of a Post.
Wake(t) ==
    /\ At(t, "SemWait")
    /\ semaphore[installedMonitor[t]] > 0
    /\ semaphore' = [semaphore EXCEPT ![installedMonitor[t]] = @ - 1]
    /\ Goto(t, "Loop")
    /\ UNCHANGED <<lockv, countv, readyList, flushAcknowledged, pulsev,
                   callv>>

\* semaphore.Wait times out: get off the list and see whether it is empty.
TimeOut(t) ==
    /\ At(t, "SemWait")
    /\ timeout[t] = "finite"
    /\ RemoveFromReadyList(t, installedMonitor[t])
    /\ Goto(t, IF readyList[installedMonitor[t]] = {t} THEN "LastRead"
               ELSE "LateAck")
    /\ UNCHANGED <<lockv, countv, semaphore, flushAcknowledged, pulsev,
                   callv>>

\* The last waiting thread looks whether the monitor is still attached ...
LastRead(t) ==
    /\ At(t, "LastRead")
    /\ Goto(t, IF Attached(t) THEN "LastGrab" ELSE "LateAck")
    /\ UNCHANGED <<lockv, countv, wakev, pulsev, callv>>

\* ... and tries to take it, lest it leak.
LastGrab(t) ==
    /\ At(t, "LastGrab")
    /\ CanAcquire(installedMonitor[t])
    /\ SetOwner(installedMonitor[t], t)
    /\ EnterReturnsTrue(t)
    /\ UNCHANGED <<monitor, s_FreeList, countv, wakev, pulsev>>

LastGrabFails(t) ==
    /\ At(t, "LastGrab")
    /\ ~CanAcquire(installedMonitor[t])
    /\ Goto(t, "LateAck")
    /\ UNCHANGED <<lockv, countv, wakev, pulsev, callv>>

\* The timed-out thread acknowledges a deflation and returns false.
LateAck(t) ==
    /\ At(t, "LateAck")
    /\ flushAcknowledged' = [flushAcknowledged EXCEPT
                                ![installedMonitor[t]] = @ \/ ~Attached(t)]
    /\ EnterFails(t)
    /\ UNCHANGED <<lockv, countv, semaphore, readyList, pulsev>>

\* An APC throws out of semaphore.Wait: catch (...).
InterruptEnter(t) ==
    /\ Interrupts
    /\ At(t, "SemWait")
    /\ RemoveFromReadyList(t, installedMonitor[t])
    /\ EnterFails(t)
    /\ UNCHANGED <<lockv, countv, semaphore, flushAcknowledged, pulsev>>

\* The exception is a NativeThreadAbortException: the thread unwinds, and the
\* lock statement it was entering may still call Exit.
AbortEnter(t) ==
    /\ Aborts
    /\ At(t, "SemWait")
    /\ threadAborted' = [threadAborted EXCEPT ![installedMonitor[t]] = TRUE]
    /\ dying' = dying \union {t}
    /\ Goto(t, "Unwind")
    /\ waiting' = [waiting EXCEPT ![t] = FALSE]
    /\ installedMonitor' = [installedMonitor EXCEPT ![t] = NULL]
    /\ UNCHANGED <<lockv, recursiveLockingCount, wakev, pulsev, object, held,
                   timeout, oldLockingCount>>

\* Mutant of Vacate: a dying monitor is left without leaving its ready list.
VacateStaysReady(t) ==
    /\ At(t, "Vacate")
    /\ Goto(t, "Acknowledge")
    /\ UNCHANGED <<lockv, countv, wakev, pulsev, callv>>

\* VacateDyingMonitor: off the list, then acknowledge.
Vacate(t) ==
    /\ At(t, "Vacate")
    /\ RemoveFromReadyList(t, installedMonitor[t])
    /\ Goto(t, "Acknowledge")
    /\ UNCHANGED <<lockv, countv, semaphore, flushAcknowledged, pulsev,
                   callv>>

Acknowledge(t) ==
    /\ At(t, "Acknowledge")
    /\ flushAcknowledged' = [flushAcknowledged EXCEPT
                                ![installedMonitor[t]] = TRUE]
    /\ installedMonitor' = [installedMonitor EXCEPT ![t] = NULL]
    /\ Goto(t, "Enter")
    /\ UNCHANGED <<lockv, countv, semaphore, readyList, pulsev, object, held,
                   argv>>

----------------------------------------------------------------------------
\* Monitor::Exit.  Only the owner touches recursiveLockingCount, so the check
\* and the count are one step.

\* A recursive lock: the count goes down and the call is over.
ExitRecursive(t, o) ==
    /\ At(t, "Idle") \/ (At(t, "Unwind") /\ object[t] = o)
    /\ LockedByCurrentThread(t, o)
    /\ recursiveLockingCount[monitor[o]] > 1
    /\ recursiveLockingCount' =
          [recursiveLockingCount EXCEPT ![monitor[o]] = @ - 1]
    /\ Goto(t, IF t \in dying THEN "Dead" ELSE "Idle")
    /\ object' = [object EXCEPT ![t] = NULL]
    /\ held' = [held EXCEPT ![t][o] = IF @ > 0 THEN @ - 1 ELSE @]
    /\ UNCHANGED <<lockv, threadAborted, wakev, pulsev, installedMonitor,
                   argv>>

\* The last lock: the rest of Exit decides what becomes of the monitor.
ExitLast(t, o) ==
    /\ At(t, "Idle") \/ (At(t, "Unwind") /\ object[t] = o)
    /\ LockedByCurrentThread(t, o)
    /\ recursiveLockingCount[monitor[o]] = 1
    /\ installedMonitor' = [installedMonitor EXCEPT ![t] = monitor[o]]
    /\ object' = [object EXCEPT ![t] = o]
    /\ Goto(t, "ExitReady")
    /\ held' = [held EXCEPT ![t][o] = IF @ > 0 THEN @ - 1 ELSE @]
    /\ UNCHANGED <<lockv, countv, wakev, pulsev, argv>>

Exit(t, o) == ExitRecursive(t, o) \/ ExitLast(t, o)

\* Are there threads ready to take over the lock?
ExitReady(t) ==
    /\ At(t, "ExitReady")
    /\ Goto(t, IF readyList[installedMonitor[t]] # {} THEN "Handoff"
               ELSE "ExitPulse")
    /\ UNCHANGED <<lockv, countv, wakev, pulsev, callv>>

\* Yes: Unacquire, then Post.
Handoff(t) ==
    /\ At(t, "Handoff")
    /\ Unacquire(installedMonitor[t])
    /\ Goto(t, "Post")
    /\ UNCHANGED <<monitor, s_FreeList, countv, wakev, pulsev, callv>>

\* Mutant of PostOne: the monitor is unlocked and nobody is told.
PostNone(t) ==
    /\ At(t, "Post")
    /\ ExitReturns(t)
    /\ UNCHANGED <<lockv, countv, wakev, pulsev>>

PostOne(t) ==
    /\ At(t, "Post")
    /\ Post(installedMonitor[t], 1)
    /\ ExitReturns(t)
    /\ UNCHANGED <<lockv, countv, readyList, flushAcknowledged, pulsev>>

\* Mutant of ExitPulse: the wait nodes are forgotten and the object deflated.
ExitPulseForgotten(t) ==
    /\ At(t, "ExitPulse")
    /\ Goto(t, "Deflate")
    /\ UNCHANGED <<lockv, countv, wakev, pulsev, callv>>

\* No: are there threads waiting for a pulse?
ExitPulse(t) ==
    /\ At(t, "ExitPulse")
    /\ Goto(t, IF threadsWaitingForPulse[installedMonitor[t]] # <<>>
                 THEN "Yield" ELSE "Deflate")
    /\ UNCHANGED <<lockv, countv, wakev, pulsev, callv>>

\* Yes: Unacquire, then look at the ready list again.
Yield(t) ==
    /\ At(t, "Yield")
    /\ Unacquire(installedMonitor[t])
    /\ Goto(t, "Repost")
    /\ UNCHANGED <<monitor, s_FreeList, countv, wakev, pulsev, callv>>

\* Mutant of Repost: the ready list is not looked at a second time.
RepostForgotten(t) ==
    /\ At(t, "Repost")
    /\ ExitReturns(t)
    /\ UNCHANGED <<lockv, countv, wakev, pulsev>>

Repost(t) ==
    /\ At(t, "Repost")
    /\ IF readyList[installedMonitor[t]] # {}
         THEN Goto(t, "Post") /\ UNCHANGED callv
         ELSE ExitReturns(t)
    /\ UNCHANGED <<lockv, countv, wakev, pulsev>>

\* Nobody is interested: take the monitor off the object ...
Deflate(t) ==
    /\ At(t, "Deflate")
    /\ monitor' = [monitor EXCEPT ![object[t]] = NULL]
    /\ Goto(t, "FlushReset")
    /\ UNCHANGED <<owningThreadId, s_FreeList, countv, wakev, pulsev, callv>>

FlushReset(t) ==
    /\ At(t, "FlushReset")
    /\ flushAcknowledged' = [flushAcknowledged EXCEPT
                                ![installedMonitor[t]] = FALSE]
    /\ Goto(t, "FlushTest")
    /\ UNCHANGED <<lockv, countv, semaphore, readyList, pulsev, callv>>

\* Mutant of FlushTest: the monitor is freed under the threads that wait for it.
FlushTestSkipped(t) ==
    /\ At(t, "FlushTest")
    /\ Goto(t, "Free")
    /\ UNCHANGED <<lockv, countv, wakev, pulsev, callv>>

\* ... and kick every thread on its ready list off it, until none is left.
FlushTest(t) ==
    /\ At(t, "FlushTest")
    /\ Goto(t, IF readyList[installedMonitor[t]] # {} THEN "FlushPost"
               ELSE "Free")
    /\ UNCHANGED <<lockv, countv, wakev, pulsev, callv>>

FlushPost(t) ==
    /\ At(t, "FlushPost")
    /\ Post(installedMonitor[t], Cardinality(readyList[installedMonitor[t]]))
    /\ Goto(t, "FlushWait")
    /\ UNCHANGED <<lockv, countv, readyList, flushAcknowledged, pulsev,
                   callv>>

\* flushAcknowledged.Wait(1, false) is acknowledged or times out.
FlushWait(t) ==
    /\ At(t, "FlushWait")
    /\ \/ flushAcknowledged' = [flushAcknowledged EXCEPT
                                   ![installedMonitor[t]] = FALSE]
       \/ UNCHANGED flushAcknowledged
    /\ Goto(t, "FlushTest")
    /\ UNCHANGED <<lockv, countv, semaphore, readyList, pulsev, callv>>

Free(t) ==
    /\ At(t, "Free")
    /\ ReturnToFreeList(installedMonitor[t])
    /\ ExitReturns(t)
    /\ UNCHANGED <<monitor, countv, wakev, pulsev>>

----------------------------------------------------------------------------
\* Monitor::TryWait (Wait is TryWait with an infinite timeout).

\* Mutant of Wait: the recursion is not undone before the lock is given up.
WaitStaysRecursive(t, o, ms) ==
    /\ At(t, "Idle")
    /\ LockedByCurrentThread(t, o)
    /\ oldLockingCount' =
          [oldLockingCount EXCEPT ![t] = recursiveLockingCount[monitor[o]]]
    /\ threadsWaitingForPulse' =
          IF ms = "zero" THEN threadsWaitingForPulse
          ELSE [threadsWaitingForPulse EXCEPT ![monitor[o]] = <<t>> \o @]
    /\ object' = [object EXCEPT ![t] = o]
    /\ installedMonitor' = [installedMonitor EXCEPT ![t] = monitor[o]]
    /\ timeout' = [timeout EXCEPT ![t] = ms]
    /\ waiting' = [waiting EXCEPT ![t] = TRUE]
    /\ Goto(t, "ExitReady")
    /\ UNCHANGED <<lockv, countv, wakev, signalWaitingThread, held, dying>>

\* Undo recursive locking, push a wait node, and enter Exit(object): the count
\* is 1, so Exit goes straight to the ready list.  Only the owner pushes.
Wait(t, o, ms) ==
    /\ At(t, "Idle")
    /\ LockedByCurrentThread(t, o)
    /\ oldLockingCount' =
          [oldLockingCount EXCEPT ![t] = recursiveLockingCount[monitor[o]]]
    /\ recursiveLockingCount' =
          [recursiveLockingCount EXCEPT ![monitor[o]] = 1]
    /\ threadsWaitingForPulse' =
          IF ms = "zero" THEN threadsWaitingForPulse
          ELSE [threadsWaitingForPulse EXCEPT ![monitor[o]] = <<t>> \o @]
    /\ object' = [object EXCEPT ![t] = o]
    /\ installedMonitor' = [installedMonitor EXCEPT ![t] = monitor[o]]
    /\ timeout' = [timeout EXCEPT ![t] = ms]
    /\ waiting' = [waiting EXCEPT ![t] = TRUE]
    /\ Goto(t, "ExitReady")
    /\ UNCHANGED <<lockv, threadAborted, wakev, signalWaitingThread, held,
                   dying>>

\* The wait for a pulse is over: Enter(object) with an infinite timeout.
Reenter(t) ==
    /\ timeout' = [timeout EXCEPT ![t] = "infinite"]
    /\ Goto(t, "Enter")
    /\ UNCHANGED <<lockv, countv, wakev, threadsWaitingForPulse, object,
                   installedMonitor, held, waiting, oldLockingCount, dying>>

\* signalWaitingThread.Wait returns because of a pulse ...
Pulsed(t) ==
    /\ At(t, "PulseWait")
    /\ timeout[t] # "zero"
    /\ signalWaitingThread[t]
    /\ signalWaitingThread' = [signalWaitingThread EXCEPT ![t] = FALSE]
    /\ Reenter(t)

\* ... or times out (a zero timeout does not wait at all) ...
WaitTimeOut(t) ==
    /\ At(t, "PulseWait")
    /\ timeout[t] # "infinite"
    /\ Reenter(t)
    /\ UNCHANGED signalWaitingThread

\* ... or an exception is thrown out of it, caught, and kept for later.
InterruptWait(t) ==
    /\ Interrupts
    /\ At(t, "PulseWait")
    /\ timeout[t] # "zero"
    /\ Reenter(t)
    /\ UNCHANGED signalWaitingThread

\* Mutant of Reacquired: the recursion count is not restored.
ReacquiredOnce(t) ==
    LET m == monitor[object[t]] IN
    /\ At(t, "Reacquired")
    /\ threadsWaitingForPulse' =
          [threadsWaitingForPulse EXCEPT
              ![m] = RemoveFromPulseWaitingList(@, t)]
    /\ signalWaitingThread' = [signalWaitingThread EXCEPT ![t] = FALSE]
    /\ waiting' = [waiting EXCEPT ![t] = FALSE]
    /\ oldLockingCount' = [oldLockingCount EXCEPT ![t] = 1]
    /\ object' = [object EXCEPT ![t] = NULL]
    /\ Goto(t, "Idle")
    /\ UNCHANGED <<lockv, countv, wakev, installedMonitor, held, timeout,
                   dying>>

\* The lock is ours again: restore the count, drop the wait node and return
\* or rethrow.
Reacquired(t) ==
    LET m == monitor[object[t]] IN
    /\ At(t, "Reacquired")
    /\ recursiveLockingCount' =
          [recursiveLockingCount EXCEPT ![m] = oldLockingCount[t]]
    /\ threadsWaitingForPulse' =
          [threadsWaitingForPulse EXCEPT
              ![m] = RemoveFromPulseWaitingList(@, t)]
    /\ signalWaitingThread' = [signalWaitingThread EXCEPT ![t] = FALSE]
    /\ waiting' = [waiting EXCEPT ![t] = FALSE]
    /\ oldLockingCount' = [oldLockingCount EXCEPT ![t] = 1]
    /\ object' = [object EXCEPT ![t] = NULL]
    /\ Goto(t, "Idle")
    /\ UNCHANGED <<lockv, threadAborted, wakev, installedMonitor, held,
                   timeout, dying>>

\* PulseMonitor: pop one node, or all of them, and signal their threads.
PulseMonitor(t, o, all) ==
    /\ At(t, "Idle")
    /\ LockedByCurrentThread(t, o)
    /\ LET list == threadsWaitingForPulse[monitor[o]]
           n    == IF all \/ list = <<>> THEN Len(list) ELSE 1
       IN  /\ signalWaitingThread' =
                 [u \in Threads |-> \/ signalWaitingThread[u]
                                    \/ u \in ToSet(SubSeq(list, 1, n))]
           /\ threadsWaitingForPulse' =
                 [threadsWaitingForPulse EXCEPT
                     ![monitor[o]] = SubSeq(list, n + 1, Len(list))]
    /\ UNCHANGED <<lockv, countv, wakev, pc, callv>>

----------------------------------------------------------------------------
\* The calls a client may make, the steps inside a call, and the exceptions.

Call(t) ==
    \E o \in Objects :
        \/ \E ms \in EnterTimeouts : Enter(t, o, ms)
        \/ Exit(t, o)
        \/ \E ms \in WaitTimeouts : Wait(t, o, ms)
        \/ \E all \in BOOLEAN : PulseMonitor(t, o, all)

EnterStep(t) ==
    \/ ReadMonitor(t) \/ Allocate(t) \/ Install(t) \/ InstallLost(t)
    \/ LockRecursively(t) \/ TryAcquire(t) \/ Recheck(t) \/ RecheckFails(t)
    \/ Backout(t) \/ FailAtOnce(t) \/ QueueUp(t) \/ GetReady(t)
    \/ TestAttached(t) \/ Grab(t) \/ GrabFails(t) \/ Unready(t) \/ Wake(t)
    \/ Vacate(t) \/ Acknowledge(t)

TimeoutStep(t) ==
    \/ TimeOut(t) \/ LastRead(t) \/ LastGrab(t) \/ LastGrabFails(t)
    \/ LateAck(t)

ExitStep(t) ==
    \/ ExitReady(t) \/ Handoff(t) \/ PostOne(t) \/ ExitPulse(t) \/ Yield(t)
    \/ Repost(t) \/ Deflate(t) \/ FlushReset(t) \/ FlushTest(t)
    \/ FlushPost(t) \/ FlushWait(t) \/ Free(t)

WaitStep(t) == Pulsed(t) \/ WaitTimeOut(t) \/ Reacquired(t)

Throw(t) == InterruptEnter(t) \/ AbortEnter(t) \/ InterruptWait(t)

Step(t) == EnterStep(t) \/ TimeoutStep(t) \/ ExitStep(t) \/ WaitStep(t)

Next == \E t \in Threads : Call(t) \/ Step(t) \/ Throw(t)

Spec == Init /\ [][Next]_vars

\* Every thread is scheduled: a call in progress goes on whenever it can.
\* Nothing makes a client call, and nothing makes an APC throw.
Fairness == \A t \in Threads : WF_vars(Step(t))

FairSpec == Spec /\ Fairness

----------------------------------------------------------------------------
\* Properties.

Labels ==
    {"Idle", "Enter", "Inflate", "Install", "TryLock", "Recheck", "Backout",
     "Ready", "Loop", "Grab", "Unready", "SemWait", "LastRead", "LastGrab",
     "LateAck", "Vacate", "Acknowledge", "ExitReady", "Handoff", "Post",
     "ExitPulse", "Yield", "Repost", "Deflate", "FlushReset", "FlushTest",
     "FlushPost", "FlushWait", "Free", "PulseWait", "Reacquired", "Unwind",
     "Dead"}

LockType ==
    /\ monitor \in [Objects -> Monitors \union {NULL}]
    /\ owningThreadId \in
          [Monitors -> Threads \union {CanBeAcquired, ReturnedToFreeList}]
    /\ s_FreeList \subseteq Monitors
CountType ==
    /\ threadAborted \in [Monitors -> BOOLEAN]
    /\ recursiveLockingCount \in [Monitors -> Nat \ {0}]
WakeType ==
    /\ semaphore \in [Monitors -> 0 .. SemaphoreMaximum]
    /\ readyList \in [Monitors -> SUBSET Threads]
    /\ flushAcknowledged \in [Monitors -> BOOLEAN]
PulseType ==
    /\ threadsWaitingForPulse \in [Monitors -> Seq(Threads)]
    /\ signalWaitingThread \in [Threads -> BOOLEAN]
LabelType == pc \in [Threads -> Labels]
CallType ==
    /\ object \in [Threads -> Objects \union {NULL}]
    /\ installedMonitor \in [Threads -> Monitors \union {NULL}]
    /\ held \in [Threads -> [Objects -> Nat]]
ArgType ==
    /\ timeout \in [Threads -> {"zero", "finite", "infinite"}]
    /\ waiting \in [Threads -> BOOLEAN]
    /\ oldLockingCount \in [Threads -> Nat \ {0}]
    /\ dying \subseteq Threads

\* Every variable holds a value of its kind: counts stay positive, the
\* semaphore within its maximum, and only monitors get on the free list.
TypeOK ==
    /\ LockType /\ CountType /\ WakeType /\ PulseType
    /\ LabelType /\ CallType /\ ArgType

\* The client code of t runs inside a lock of o: an Enter of o has succeeded,
\* its Exit has not been called, and t is not inside Wait on o.
HoldsLock(t, o) == held[t][o] > 0 /\ ~(waiting[t] /\ object[t] = o)

\* The lock of ObjectLock that the client code sees.
ClientDepth == [t \in Threads |-> [o \in Objects |->
                  IF HoldsLock(t, o) THEN held[t][o] ELSE 0]]
ClientSaved == [t \in Threads |-> [o \in Objects |->
                  IF HoldsLock(t, o) THEN 0 ELSE held[t][o]]]

Client == INSTANCE ObjectLock WITH depth <- ClientDepth, saved <- ClientSaved

\* Monitors implement the abstract lock: whatever inflation, handoff and
\* deflation do, Enter, Exit and Wait take effect on one recursive lock, and
\* Wait comes back at the depth it left.
ImplementsLock == Client!LockSpec

\* The promise of Monitor.Enter: no two threads are inside locks of the same
\* object, however their inflations, handoffs and deflations interleave.
MutualExclusion ==
    \A o \in Objects : \A t, u \in Threads :
        HoldsLock(t, o) /\ HoldsLock(u, o) => t = u

\* Between calls, what GetMonitorAndThrowIfNotLockedByCurrentThread reads
\* agrees with what the client did: Exit, Wait and Pulse are accepted of
\* exactly the threads that hold the lock, and the recursion count is theirs.
LockAgreement ==
    \A t \in Threads, o \in Objects :
        /\ HoldsLock(t, o) =>
              /\ monitor[o] # NULL
              /\ owningThreadId[monitor[o]] = t
        /\ HoldsLock(t, o) /\ At(t, "Idle") =>
              recursiveLockingCount[monitor[o]] = held[t][o]
        /\ At(t, "Idle") /\ LockedByCurrentThread(t, o) => held[t][o] > 0

\* The code's own IL2CPP_ASSERTs: a monitor on the free list belongs to
\* nobody (316), a monitor that just changed hands is not recursively locked
\* (324, 361, 403, 463) and is the one of the object (404), and it is the
\* owner who gives a monitor up (158, 563).
AssertionsHold ==
    /\ \A m \in s_FreeList : owningThreadId[m] = ReturnedToFreeList
    /\ \A m \in Monitors :
          owningThreadId[m] \in {CanBeAcquired, ReturnedToFreeList} =>
              recursiveLockingCount[m] = 1
    /\ \A t \in Threads :
          /\ pc[t] \in {"Backout", "Handoff", "Yield", "Free"} =>
                owningThreadId[installedMonitor[t]] = t
          /\ At(t, "Unready") => Attached(t)

\* No thread waits for a pulse that can no longer come: until it is signalled,
\* its node is on the list of the monitor its object has now, whatever
\* deflations have happened since it called Wait.
WaiterIsReachable ==
    \A t \in Threads :
        At(t, "PulseWait") /\ timeout[t] # "zero" =>
            \/ signalWaitingThread[t]
            \/ /\ monitor[object[t]] # NULL
               /\ t \in ToSet(threadsWaitingForPulse[monitor[object[t]]])

\* "If we were the only thread waiting and no one ever attempts to lock the object
\* again, the monitor will stick around with no one ever deflating the object.  We
\* solve this" (450-457): when no call is in progress, only a locked object has a
\* monitor.
MonitorsAreNotLeaked ==
    (\A t \in Threads : At(t, "Idle")) =>
        \A o \in Objects :
            monitor[o] # NULL => \E t \in Threads : HoldsLock(t, o)

\* "Contains a valid thread ID. Means the monitor is owned by that thread and
\* only that thread can change the value of this field" (43-44): the owner of
\* a monitor changes only in a step of that owner.
OnlyOwnerGivesUp ==
    [][\A m \in Monitors :
          (owningThreadId[m] \in Threads
             /\ owningThreadId'[m] # owningThreadId[m])
          => pc'[owningThreadId[m]] # pc[owningThreadId[m]]]_vars

\* A monitor that is up for grabs while threads are blocked on its semaphore
\* does not stay so: one of them is woken and takes it, or another thread
\* does (the wakeup that Exit's Post owes them is never lost).
FreeMonitorIsClaimed ==
    \A m \in Monitors :
        /\ owningThreadId[m] = CanBeAcquired
        /\ \E t \in Threads : At(t, "SemWait") /\ installedMonitor[t] = m
        ~> \/ owningThreadId[m] # CanBeAcquired
           \/ ~\E t \in Threads : At(t, "SemWait") /\ installedMonitor[t] = m

\* A thread that brings the threads blocked on m a wakeup, or makes them
\* unnecessary: it is about to post, or to try and take the monitor.
Wakes(u, m) ==
    /\ installedMonitor[u] = m
    /\ \/ pc[u] \in {"Post", "Repost", "Grab"}
       \/ At(u, "Loop") /\ Attached(u)

WakeupIsComing(m) ==
    CanAcquire(m) /\ (\E t \in Threads : At(t, "SemWait") /\ installedMonitor[t] = m) =>
        semaphore[m] > 0 \/ \E u \in Threads : Wakes(u, m)

\* The same as an invariant: a thread blocked on a monitor that is up for
\* grabs has a wakeup coming: it is in the semaphore, or a thread is about to
\* post it, or a woken thread is about to try and take the monitor.
WakeupIsNotLost == \A m \in Monitors : WakeupIsComing(m)

\* With several objects a wakeup can be lost, but in one place only: a thread
\* that has acquired the monitor of another object unlocks it again (356) and
\* posts nothing.  Every other unlocking, and every thread that uses a wakeup up,
\* leaves the blocked threads with another one.
OnlyBackoutLosesWakeups ==
    [][\A m \in Monitors :
          WakeupIsComing(m) /\ ~(\E t \in Threads : Backout(t) /\ installedMonitor[t] = m)
          => WakeupIsComing(m)']_vars

\* A thread that has deflated an object gets every waiter off the monitor and
\* returns from Exit (543), unless a thread was aborted: that one leaves without
\* taking itself off the ready list (429), and Exit spins for good.
DeflationEnds ==
    \A t \in Threads :
        At(t, "FlushTest") ~> \/ ~(pc[t] \in {"FlushTest", "FlushPost",
                                              "FlushWait", "Free"})
                              \/ dying # {}

\* The comment in TryWait (676-677): when Monitor.Wait exits, successfully or
\* not, its caller still holds the lock.
WaitExitsHoldingLock ==
    \A t \in Threads, o \in Objects :
        HoldsLock(t, o) =>
            monitor[o] # NULL /\ owningThreadId[monitor[o]] = t
============================================================================
