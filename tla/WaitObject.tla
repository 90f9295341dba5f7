----------------------------- MODULE WaitObject -----------------------------
(***************************************************************************)
(* The wait objects of the platform layer: mutexes, events and semaphores  *)
(* (libil2cpp/os/Generic) and the APCs that interrupt a wait               *)
(* (libil2cpp/os/Posix/ThreadImpl.cpp).                                    *)
(*                                                                         *)
(* Each object has a lock, m_Mutex, and a list of the threads that wait    *)
(* for it.  A thread sleeps on a semaphore of its own, of which there is   *)
(* one whatever it waits for; a waker releases that semaphore and leaves   *)
(* the thread to find out why.  Everything done under m_Mutex that no      *)
(* other thread can see is one step with the acquisition or release.       *)
(***************************************************************************)
EXTENDS Integers, FiniteSets, Sequences, SequencesExt

CONSTANTS
    Threads,
    Mutexes, Semaphores, AutoResetEvents, ManualResetEvents,
    NULL,
    Timeouts,       \* timeouts passed to Wait and TryLock
    Interruptible,  \* values passed for interruptible
    APCsThrow,      \* may an APC's callback throw?
    MaxAPCs,        \* bound: APCs pending for a thread
    MaxRecursion,   \* bound: nested locks of a mutex
    MaximumValue    \* maximumValue of a semaphore

Events == AutoResetEvents \union ManualResetEvents
WaitObjects == Mutexes \union Semaphores \union Events

ASSUME WaitObjectAssumption ==
    /\ NULL \notin Threads \union WaitObjects
    /\ Mutexes \cap (Semaphores \union Events) = {}
    /\ Semaphores \cap Events = {}
    /\ AutoResetEvents \cap ManualResetEvents = {}
    /\ Timeouts \subseteq {"zero", "finite", "infinite"}
    /\ Interruptible \subseteq BOOLEAN
    /\ APCsThrow \in BOOLEAN
    /\ MaxAPCs \in Nat
    /\ MaxRecursion \in Nat \ {0}
    /\ MaximumValue \in Nat \ {0}

VARIABLES
    \* WaitObject
    m_Mutex,                \* the thread inside the object's lock, or NULL
    m_Count,
    m_WaitingThreads,
    m_WaitingThreadCount,
    \* MutexImpl
    m_OwningThread,
    m_RecursionCount,
    \* ThreadImpl
    m_ConditionSemaphore,   \* capped at 1
    m_PendingAPCs,          \* how many
    m_CurrentWaitObject,    \* is one set?
    \* what each thread is doing
    pc,
    object,                 \* the object it waits for
    timeoutMS,
    interruptible,
    waitStatus,
    target                  \* the thread it queues an APC for

objectv == <<m_Mutex, m_Count, m_WaitingThreads, m_WaitingThreadCount>>
ownerv == <<m_OwningThread, m_RecursionCount>>
threadv == <<m_ConditionSemaphore, m_PendingAPCs, m_CurrentWaitObject>>
callv == <<object, timeoutMS, interruptible, waitStatus, target>>
vars == <<objectv, ownerv, threadv, pc, callv>>

Init ==
    /\ m_Mutex = [o \in WaitObjects |-> NULL]
    /\ m_Count \in [WaitObjects -> 0 .. 1]
    /\ \A m \in Mutexes : m_Count[m] = 1
    /\ m_WaitingThreads = [o \in WaitObjects |-> <<>>]
    /\ m_WaitingThreadCount = [o \in WaitObjects |-> 0]
    /\ m_OwningThread = [m \in Mutexes |-> NULL]
    /\ m_RecursionCount = [m \in Mutexes |-> 0]
    /\ m_ConditionSemaphore = [t \in Threads |-> 0]
    /\ m_PendingAPCs = [t \in Threads |-> 0]
    /\ m_CurrentWaitObject = [t \in Threads |-> FALSE]
    /\ pc = [t \in Threads |-> "Idle"]
    /\ object = [t \in Threads |-> NULL]
    /\ timeoutMS = [t \in Threads |-> "infinite"]
    /\ interruptible = [t \in Threads |-> FALSE]
    /\ waitStatus = [t \in Threads |-> "success"]
    /\ target = [t \in Threads |-> NULL]

At(t, label) == pc[t] = label
Goto(t, label) == pc' = [pc EXCEPT ![t] = label]

Unlocked(o) == m_Mutex[o] = NULL
Acquire(t, o) == m_Mutex' = [m_Mutex EXCEPT ![o] = t]
Release(o) == m_Mutex' = [m_Mutex EXCEPT ![o] = NULL]

\* The call is over.
Return(t) ==
    /\ Goto(t, "Idle")
    /\ object' = [object EXCEPT ![t] = NULL]
    /\ timeoutMS' = [timeoutMS EXCEPT ![t] = "infinite"]
    /\ interruptible' = [interruptible EXCEPT ![t] = FALSE]
    /\ waitStatus' = [waitStatus EXCEPT ![t] = "success"]
    /\ UNCHANGED target

----------------------------------------------------------------------------
\* The threads' own semaphores and APC queues (ThreadImpl).

\* WakeupThreads: the first thread of the list, or all of them.
WakeupOneThread(o) ==
    m_ConditionSemaphore' =
        [u \in Threads |->
            IF m_WaitingThreads[o] # <<>> /\ u = Head(m_WaitingThreads[o])
              THEN 1 ELSE m_ConditionSemaphore[u]]

WakeupAllThreads(o) ==
    m_ConditionSemaphore' =
        [u \in Threads |->
            IF u \in ToSet(m_WaitingThreads[o]) THEN 1
            ELSE m_ConditionSemaphore[u]]

HaveWaitingThreads(o) == m_WaitingThreadCount[o] # 0

SetWaitObject(t, isSet) ==
    m_CurrentWaitObject' =
        [m_CurrentWaitObject EXCEPT ![t] = IF interruptible[t] THEN isSet
                                           ELSE @]

\* QueueUserAPC: push the request ...
QueueUserAPC(t, u) ==
    /\ At(t, "Idle")
    /\ m_PendingAPCs[u] < MaxAPCs
    /\ m_PendingAPCs' = [m_PendingAPCs EXCEPT ![u] = @ + 1]
    /\ target' = [target EXCEPT ![t] = u]
    /\ Goto(t, "Queued")
    /\ UNCHANGED <<objectv, ownerv, m_ConditionSemaphore,
                   m_CurrentWaitObject, object, timeoutMS, interruptible,
                   waitStatus>>

\* ... then interrupt an ongoing wait.
InterruptWait(t) ==
    /\ At(t, "Queued")
    /\ m_ConditionSemaphore' =
          [m_ConditionSemaphore EXCEPT
              ![target[t]] = IF m_CurrentWaitObject[target[t]] THEN 1 ELSE @]
    /\ target' = [target EXCEPT ![t] = NULL]
    /\ Goto(t, "Idle")
    /\ UNCHANGED <<objectv, ownerv, m_PendingAPCs, m_CurrentWaitObject,
                   object, timeoutMS, interruptible, waitStatus>>

\* CheckForUserAPCAndHandle, called at a program point: nothing is pending ...
NoUserAPC(t, label) ==
    /\ At(t, label)
    /\ ~interruptible[t] \/ m_PendingAPCs[t] = 0

\* ... or a request is taken off the queue and its callback called ...
PopAPC(t, label) ==
    /\ At(t, label)
    /\ interruptible[t]
    /\ m_PendingAPCs[t] > 0
    /\ m_PendingAPCs' = [m_PendingAPCs EXCEPT ![t] = @ - 1]
    /\ UNCHANGED <<objectv, ownerv, m_ConditionSemaphore, m_CurrentWaitObject>>

\* ... which returns, and the queue is looked at again ...
HandleAPC(t) ==
    /\ \E label \in {"UpFront", "Armed", "LastCheck"} : PopAPC(t, label)
    /\ UNCHANGED <<pc, callv>>

\* ... or throws, out of Wait or into its handler.
ThrowUpFront(t) ==
    /\ APCsThrow
    /\ PopAPC(t, "UpFront")
    /\ Return(t)

Throw(t) ==
    /\ APCsThrow
    /\ PopAPC(t, "Armed") \/ PopAPC(t, "LastCheck")
    /\ Goto(t, "Throwing")
    /\ UNCHANGED callv

----------------------------------------------------------------------------
\* WaitObject::Wait.

Wait(t, o, ms, intr) ==
    /\ At(t, "Idle")
    /\ object' = [object EXCEPT ![t] = o]
    /\ timeoutMS' = [timeoutMS EXCEPT ![t] = ms]
    /\ interruptible' = [interruptible EXCEPT ![t] = intr]
    /\ waitStatus' = [waitStatus EXCEPT ![t] = "success"]
    /\ Goto(t, IF intr /\ ms # "zero" THEN "UpFront" ELSE "Lock")
    /\ UNCHANGED <<objectv, ownerv, threadv, target>>

\* The up-front check for APCs is done.
UpFront(t) ==
    /\ NoUserAPC(t, "UpFront")
    /\ Goto(t, "Lock")
    /\ UNCHANGED <<objectv, ownerv, threadv, callv>>

\* Mutant of Take: a semaphore with releases left wakes nobody.
TakeSilently(t, o) ==
    /\ m_Count' = [m_Count EXCEPT
                      ![o] = IF o \in ManualResetEvents THEN @
                             ELSE IF o \in Semaphores THEN @ - 1 ELSE 0]
    /\ m_OwningThread' = [m \in Mutexes |-> IF m = o THEN t
                                            ELSE m_OwningThread[m]]
    /\ m_RecursionCount' = [m \in Mutexes |-> IF m = o THEN 1
                                              ELSE m_RecursionCount[m]]
    /\ Release(o)
    /\ Return(t)
    /\ UNCHANGED m_ConditionSemaphore

\* The object has been released: acquire it for t and let go of m_Mutex.  A
\* semaphore with releases left wakes the next thread in line.  TryLock makes t
\* the mutex's owner a moment later, but only t ever compares the owner with t.
Take(t, o) ==
    /\ m_Count' = [m_Count EXCEPT
                      ![o] = IF o \in ManualResetEvents THEN @
                             ELSE IF o \in Semaphores THEN @ - 1 ELSE 0]
    /\ IF o \in Semaphores /\ m_Count[o] > 1 /\ HaveWaitingThreads(o)
         THEN WakeupOneThread(o) ELSE UNCHANGED m_ConditionSemaphore
    /\ m_OwningThread' = [m \in Mutexes |-> IF m = o THEN t
                                            ELSE m_OwningThread[m]]
    /\ m_RecursionCount' = [m \in Mutexes |-> IF m = o THEN 1
                                              ELSE m_RecursionCount[m]]
    /\ Release(o)
    /\ Return(t)

\* Lock the object; it can be acquired right away ...
TakeAtOnce(t) ==
    /\ At(t, "Lock")
    /\ Unlocked(object[t])
    /\ m_Count[object[t]] > 0
    /\ Take(t, object[t])
    /\ UNCHANGED <<m_WaitingThreads, m_WaitingThreadCount, m_PendingAPCs,
                   m_CurrentWaitObject>>

\* ... or it cannot, and the call is not supposed to wait ...
FailAtOnce(t) ==
    /\ At(t, "Lock")
    /\ Unlocked(object[t])
    /\ m_Count[object[t]] = 0
    /\ timeoutMS[t] = "zero"
    /\ Return(t)
    /\ UNCHANGED <<objectv, ownerv, threadv>>

\* ... or it is: let the world know, and check the APC queue again.
Arm(t) ==
    /\ At(t, "Lock")
    /\ Unlocked(object[t])
    /\ m_Count[object[t]] = 0
    /\ timeoutMS[t] # "zero"
    /\ Acquire(t, object[t])
    /\ SetWaitObject(t, TRUE)
    /\ Goto(t, "Armed")
    /\ UNCHANGED <<m_Count, m_WaitingThreads, m_WaitingThreadCount, ownerv,
                   m_ConditionSemaphore, m_PendingAPCs, callv>>

\* Mutant of Sleep: the APC queue is not checked again.
SleepUnchecked(t) ==
    LET o == object[t] IN
    /\ At(t, "Armed")
    /\ m_Count[o] = 0
    /\ m_WaitingThreads' = [m_WaitingThreads EXCEPT ![o] = Append(@, t)]
    /\ m_WaitingThreadCount' = [m_WaitingThreadCount EXCEPT ![o] = @ + 1]
    /\ Release(o)
    /\ Goto(t, "Asleep")
    /\ UNCHANGED <<m_Count, ownerv, threadv, callv>>

\* Head of the while loop, no APC pending: ConditionWait or
\* ConditionTimedWait gets on the list, lets go of m_Mutex and sleeps.
Sleep(t) ==
    LET o == object[t] IN
    /\ NoUserAPC(t, "Armed")
    /\ m_Count[o] = 0
    /\ m_WaitingThreads' = [m_WaitingThreads EXCEPT ![o] = Append(@, t)]
    /\ m_WaitingThreadCount' = [m_WaitingThreadCount EXCEPT ![o] = @ + 1]
    /\ Release(o)
    /\ Goto(t, "Asleep")
    /\ UNCHANGED <<m_Count, ownerv, threadv, callv>>

\* The thread's semaphore is released ...
Wakeup(t) ==
    /\ At(t, "Asleep")
    /\ m_ConditionSemaphore[t] = 1
    /\ m_ConditionSemaphore' = [m_ConditionSemaphore EXCEPT ![t] = 0]
    /\ Goto(t, "Relock")
    /\ UNCHANGED <<objectv, ownerv, m_PendingAPCs, m_CurrentWaitObject,
                   callv>>

\* ... or the time is up.
TimeOut(t) ==
    /\ At(t, "Asleep")
    /\ timeoutMS[t] = "finite"
    /\ m_ConditionSemaphore[t] = 0
    /\ waitStatus' = [waitStatus EXCEPT ![t] = "timeout"]
    /\ Goto(t, "Relock")
    /\ UNCHANGED <<objectv, ownerv, threadv, object, timeoutMS,
                   interruptible, target>>

\* erase_swap_back: the last thread of the list takes the place of t.
PopThreadFromWaitersList(list, t) ==
    IF \E i \in DOMAIN list : list[i] = t
      THEN LET i == CHOOSE j \in DOMAIN list : list[j] = t
           IN  Front([list EXCEPT ![i] = Last(list)])
      ELSE list

\* Lock the object again and get off the list.
Relock(t) ==
    LET o == object[t] IN
    /\ At(t, "Relock")
    /\ Unlocked(o)
    /\ Acquire(t, o)
    /\ m_WaitingThreads' = [m_WaitingThreads EXCEPT
                               ![o] = PopThreadFromWaitersList(@, t)]
    /\ m_WaitingThreadCount' = [m_WaitingThreadCount EXCEPT ![o] = @ - 1]
    /\ Goto(t, IF waitStatus[t] = "timeout" THEN "Disarm" ELSE "Armed")
    /\ UNCHANGED <<m_Count, ownerv, threadv, callv>>

\* Mutant of Signalled: any wakeup is taken for the object's.
SignalledUnchecked(t) ==
    /\ NoUserAPC(t, "Armed")
    /\ Goto(t, "Disarm")
    /\ UNCHANGED <<objectv, ownerv, threadv, callv>>

\* After a signal that was not an APC's: the object is there to take.
Signalled(t) ==
    /\ NoUserAPC(t, "Armed")
    /\ m_Count[object[t]] > 0
    /\ Goto(t, "Disarm")
    /\ UNCHANGED <<objectv, ownerv, threadv, callv>>

\* Done waiting: untie the object from the thread and check the queue again.
Disarm(t) ==
    /\ At(t, "Disarm")
    /\ SetWaitObject(t, FALSE)
    /\ Goto(t, "LastCheck")
    /\ UNCHANGED <<objectv, ownerv, m_ConditionSemaphore, m_PendingAPCs,
                   callv>>

\* The wait has failed ...
GiveUp(t) ==
    /\ NoUserAPC(t, "LastCheck")
    /\ waitStatus[t] = "timeout"
    /\ Release(object[t])
    /\ Return(t)
    /\ UNCHANGED <<m_Count, m_WaitingThreads, m_WaitingThreadCount, ownerv,
                   threadv>>

\* ... or succeeded.
TakeAtLast(t) ==
    /\ NoUserAPC(t, "LastCheck")
    /\ waitStatus[t] = "success"
    /\ Take(t, object[t])
    /\ UNCHANGED <<m_WaitingThreads, m_WaitingThreadCount, m_PendingAPCs,
                   m_CurrentWaitObject>>

\* catch (...): untie the object and rethrow, which lets go of m_Mutex.
Rethrow(t) ==
    /\ At(t, "Throwing")
    /\ SetWaitObject(t, FALSE)
    /\ Release(object[t])
    /\ Return(t)
    /\ UNCHANGED <<m_Count, m_WaitingThreads, m_WaitingThreadCount, ownerv,
                   m_ConditionSemaphore, m_PendingAPCs>>

----------------------------------------------------------------------------
\* SemaphoreImpl, EventImpl and MutexImpl.

\* Mutant of Post: the range is not checked.
PostUnchecked(t, s, releaseCount) ==
    /\ At(t, "Idle")
    /\ Unlocked(s)
    /\ m_Count[s] < MaximumValue
    /\ m_Count' = [m_Count EXCEPT ![s] = @ + releaseCount]
    /\ WakeupOneThread(s)
    /\ UNCHANGED <<m_Mutex, m_WaitingThreads, m_WaitingThreadCount, ownerv,
                   m_PendingAPCs, m_CurrentWaitObject, pc, callv>>

\* Post stays within range or does nothing.
Post(t, s, releaseCount) ==
    /\ At(t, "Idle")
    /\ Unlocked(s)
    /\ m_Count[s] + releaseCount <= MaximumValue
    /\ m_Count' = [m_Count EXCEPT ![s] = @ + releaseCount]
    /\ WakeupOneThread(s)
    /\ UNCHANGED <<m_Mutex, m_WaitingThreads, m_WaitingThreadCount, ownerv,
                   m_PendingAPCs, m_CurrentWaitObject, pc, callv>>

\* Mutant of Set: one thread is woken, as a mutex or a semaphore would.
SetWakesOne(t, e) ==
    /\ At(t, "Idle")
    /\ Unlocked(e)
    /\ m_Count' = [m_Count EXCEPT ![e] = 1]
    /\ WakeupOneThread(e)
    /\ UNCHANGED <<m_Mutex, m_WaitingThreads, m_WaitingThreadCount, ownerv,
                   m_PendingAPCs, m_CurrentWaitObject, pc, callv>>

Set(t, e) ==
    /\ At(t, "Idle")
    /\ Unlocked(e)
    /\ m_Count' = [m_Count EXCEPT ![e] = 1]
    /\ IF HaveWaitingThreads(e) THEN WakeupAllThreads(e)
       ELSE UNCHANGED m_ConditionSemaphore
    /\ UNCHANGED <<m_Mutex, m_WaitingThreads, m_WaitingThreadCount, ownerv,
                   m_PendingAPCs, m_CurrentWaitObject, pc, callv>>

Reset(t, e) ==
    /\ At(t, "Idle")
    /\ Unlocked(e)
    /\ m_Count' = [m_Count EXCEPT ![e] = 0]
    /\ UNCHANGED <<m_Mutex, m_WaitingThreads, m_WaitingThreadCount, ownerv,
                   threadv, pc, callv>>

\* TryLock by the owner; by any other thread it is Wait.
LockRecursively(t, m) ==
    /\ At(t, "Idle")
    /\ m_OwningThread[m] = t
    /\ m_RecursionCount[m] < MaxRecursion
    /\ m_RecursionCount' = [m_RecursionCount EXCEPT ![m] = @ + 1]
    /\ UNCHANGED <<objectv, m_OwningThread, threadv, pc, callv>>

UnlockRecursive(t, m) ==
    /\ At(t, "Idle")
    /\ m_OwningThread[m] = t
    /\ m_RecursionCount[m] > 1
    /\ m_RecursionCount' = [m_RecursionCount EXCEPT ![m] = @ - 1]
    /\ UNCHANGED <<objectv, m_OwningThread, threadv, pc, callv>>

Unlock(t, m) ==
    /\ At(t, "Idle")
    /\ m_OwningThread[m] = t
    /\ m_RecursionCount[m] = 1
    /\ Unlocked(m)
    /\ m_RecursionCount' = [m_RecursionCount EXCEPT ![m] = 0]
    /\ m_Count' = [m_Count EXCEPT ![m] = 1]
    /\ m_OwningThread' = [m_OwningThread EXCEPT ![m] = NULL]
    /\ IF HaveWaitingThreads(m) THEN WakeupOneThread(m)
       ELSE UNCHANGED m_ConditionSemaphore
    /\ UNCHANGED <<m_Mutex, m_WaitingThreads, m_WaitingThreadCount,
                   m_PendingAPCs, m_CurrentWaitObject, pc, callv>>

----------------------------------------------------------------------------

Call(t) ==
    \/ \E o \in WaitObjects, ms \in Timeouts, intr \in Interruptible :
          /\ o \in Mutexes => m_OwningThread[o] # t
          /\ Wait(t, o, ms, intr)
    \/ \E s \in Semaphores, n \in 1 .. MaximumValue : Post(t, s, n)
    \/ \E e \in Events : Set(t, e) \/ Reset(t, e)
    \/ \E m \in Mutexes : LockRecursively(t, m) \/ UnlockRecursive(t, m)
    \/ \E u \in Threads : QueueUserAPC(t, u)

\* The steps inside a call.
WaitStep(t) ==
    \/ UpFront(t) \/ TakeAtOnce(t) \/ FailAtOnce(t) \/ Arm(t) \/ Sleep(t)
    \/ Wakeup(t) \/ TimeOut(t) \/ Relock(t) \/ Signalled(t) \/ Disarm(t)
    \/ GiveUp(t) \/ TakeAtLast(t) \/ Rethrow(t) \/ HandleAPC(t)
    \/ ThrowUpFront(t) \/ Throw(t) \/ InterruptWait(t)

Next == \E t \in Threads : \/ Call(t)
                           \/ WaitStep(t)
                           \/ \E m \in Mutexes : Unlock(t, m)

Spec == Init /\ [][Next]_vars

----------------------------------------------------------------------------
\* Properties.

ObjectType ==
    /\ m_Mutex \in [WaitObjects -> Threads \union {NULL}]
    /\ m_Count \in [WaitObjects -> Nat]
    /\ \A o \in WaitObjects :
          m_Count[o] <= IF o \in Semaphores THEN MaximumValue ELSE 1
ListType ==
    /\ m_WaitingThreads \in [WaitObjects -> Seq(Threads)]
    /\ m_WaitingThreadCount \in [WaitObjects -> Nat]
OwnerType ==
    /\ m_OwningThread \in [Mutexes -> Threads \union {NULL}]
    /\ m_RecursionCount \in [Mutexes -> 0 .. MaxRecursion]
ThreadType ==
    /\ m_ConditionSemaphore \in [Threads -> 0 .. 1]
    /\ m_PendingAPCs \in [Threads -> 0 .. MaxAPCs]
    /\ m_CurrentWaitObject \in [Threads -> BOOLEAN]
CallType ==
    /\ pc \in [Threads -> {"Idle", "Queued", "UpFront", "Lock", "Armed",
                           "Asleep", "Relock", "Disarm", "LastCheck",
                           "Throwing"}]
    /\ object \in [Threads -> WaitObjects \union {NULL}]
    /\ timeoutMS \in [Threads -> {"zero", "finite", "infinite"}]
    /\ interruptible \in [Threads -> BOOLEAN]
    /\ waitStatus \in [Threads -> {"success", "timeout"}]
    /\ target \in [Threads -> Threads \union {NULL}]

\* Every variable holds a value of its kind: a semaphore stays within its
\* maximum, everything else within 1, and no count of waiters underflows.
TypeOK == ObjectType /\ ListType /\ OwnerType /\ ThreadType /\ CallType

\* The code's assertions, m_Count > 0 at the end of Wait and the mutex's own:
\* a mutex's count is 1 exactly while nobody owns it, and a wait that ends
\* well finds something to take.  So a mutex is never taken from its owner,
\* whatever timeouts, APCs and stale releases do to the threads that wait.
MutexAgreement ==
    /\ \A m \in Mutexes : (m_OwningThread[m] = NULL) <=> (m_Count[m] = 1)
    /\ \A t \in Threads : At(t, "LastCheck") /\ waitStatus[t] = "success" =>
          m_Count[object[t]] > 0

\* A set event leaves nobody asleep: every thread that sleeps on it has its
\* semaphore released, even if others reset the event, time out or throw.
EventWakesEverybody ==
    \A t \in Threads : At(t, "Asleep") /\ object[t] \in Events =>
        (m_Count[object[t]] > 0 => m_ConditionSemaphore[t] = 1)

\* An interruptible thread does not sleep over an APC: its semaphore is
\* released, or the thread that queued the APC is about to do so.
InterruptIsNotLost ==
    \A u \in Threads :
        At(u, "Asleep") /\ interruptible[u] /\ m_PendingAPCs[u] > 0 =>
            \/ m_ConditionSemaphore[u] = 1
            \/ \E t \in Threads : At(t, "Queued") /\ target[t] = u

\* "Signal condition so that either a thread that's already waiting or a
\* thread that comes around later and waits can claim the mutex"
\* (MutexImpl.h): while a mutex or semaphore is there to take and threads
\* sleep on it, one of its waiters is on the way to take it.
SignalIsNotLost ==
    \A o \in Mutexes \union Semaphores :
        /\ m_Count[o] > 0
        /\ \E t \in Threads : At(t, "Asleep") /\ object[t] = o
        => \E u \in Threads :
              /\ object[u] = o
              /\ waitStatus[u] = "success"
              /\ \/ At(u, "Asleep") /\ m_ConditionSemaphore[u] = 1
                 \/ pc[u] \in {"Relock", "Armed", "Disarm", "LastCheck"}
============================================================================
