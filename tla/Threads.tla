------------------------------ MODULE Threads ------------------------------
(***************************************************************************)
(* The life of managed threads and the end of the runtime: vm/Thread.cpp   *)
(* with os/Thread.cpp under it, the finalizer thread of                    *)
(* gc/GarbageCollector.cpp and Runtime::Shutdown, which ends them all.     *)
(*                                                                         *)
(* A section under s_ThreadMutex is one step.  Waits are of two kinds: an  *)
(* alertable wait runs the APCs of its thread, and the APC TerminateThread *)
(* throws out of it; other waits take no notice.  Lists of threads are     *)
(* sets, their order matters to nobody.                                    *)
(***************************************************************************)
EXTENDS Naturals

CONSTANTS
    Workers,            \* threads that are started while the runtime runs
    Internal,           \* those of them that CreateInternal starts, not Thread.Start
    Stuck,              \* those that may stay in a wait that is not alertable
    Main,               \* the thread that calls Runtime::Shutdown
    Finalizer,          \* s_FinalizerThread
    MaxSlots,           \* kMaxThreadStaticSlots
    SemaphoreMaximum    \* s_FinalizerSemaphore's, 32767

ASSUME WorkersAssumption == Internal \subseteq Workers /\ Stuck \subseteq Workers
ASSUME ThreadsAssumption == Main # Finalizer /\ {Main, Finalizer} \intersect Workers = {}
ASSUME BoundsAssumption == MaxSlots \in Nat /\ SemaphoreMaximum \in Nat \ {0}

Threads == Workers \union {Main, Finalizer}

VARIABLES
    pc,                 \* where a thread is
    s_AttachedThreads,
    s_BlockNewThreads,
    slots,              \* the size of s_ThreadStaticSizes
    static_data,        \* the slots a thread has memory for; {} also if it is NULL
    apcs,               \* the threads with TerminateThread in their queue
    copy,               \* attachedThreadsCopy of AbortAllThreads
    active,             \* activeThreads of AbortAllThreads
    semaphore,          \* s_FinalizerSemaphore
    completed,          \* s_FinalizersCompletedEvent is set
    pending,            \* the collector has finalizers to run
    s_StopFinalizer,
    terminated          \* std::terminate has ended the process

staticVars == <<slots, static_data>>
abortVars == <<s_BlockNewThreads, apcs, copy, active>>
finalizerVars == <<semaphore, completed, pending, s_StopFinalizer>>
vars == <<pc, s_AttachedThreads, staticVars, abortVars, finalizerVars, terminated>>

(* The runtime is initialised: the main thread and the finalizer thread     *)
(* are attached, and InitializeFinalizer has waited for the latter.         *)
Init ==
    /\ pc = [t \in Threads |-> IF t = Main THEN "running"
                               ELSE IF t = Finalizer THEN "loop" ELSE "none"]
    /\ s_AttachedThreads = {Main, Finalizer}
    /\ s_BlockNewThreads = FALSE
    /\ slots = 0 /\ static_data = [t \in Threads |-> {}]
    /\ apcs = {} /\ copy = {} /\ active = {}
    /\ semaphore = 0 /\ completed = FALSE /\ pending = FALSE
    /\ s_StopFinalizer = FALSE /\ terminated = FALSE

\* The process lives, and t is there.
At(t, place) == ~terminated /\ pc[t] = place
Runs(t) == At(t, "running")
Goes(t, from, to) == At(t, from) /\ pc' = [pc EXCEPT ![t] = to]

-----------------------------------------------------------------------------
(* Starting a thread (vm/Thread.cpp 732, icalls Thread.cpp 116): the new    *)
(* one waits until its object is ready for it.                              *)
Start(t) ==
    /\ \E s \in Workers \union {Main} : Runs(s)
    /\ Goes(t, "none", "starting")
    /\ UNCHANGED <<s_AttachedThreads, staticVars, abortVars, finalizerVars, terminated>>

(* Register: while new threads are blocked it throws what TerminateThread   *)
(* throws.  The start routine of CreateInternal catches it and leaves       *)
(* without Unregister; the one of Thread.Start calls InitializeManagedThread *)
(* outside its try, and nothing above it catches.                           *)
Register(t) ==
    /\ ~s_BlockNewThreads
    /\ Goes(t, "starting", "registered")
    /\ s_AttachedThreads' = s_AttachedThreads \union {t}
    /\ UNCHANGED <<staticVars, abortVars, finalizerVars, terminated>>

RegisterThrows(t) ==
    /\ s_BlockNewThreads
    /\ Goes(t, "starting", "leaving")
    /\ terminated' = (t \notin Internal)
    /\ UNCHANGED <<s_AttachedThreads, staticVars, abortVars, finalizerVars>>

\* Mutant: whoever has static data has all of it.
AdjustedIfNew(t) == IF static_data[t] = {} THEN 0..(slots - 1) ELSE static_data[t]
Adjusted(t) == static_data[t] \union 0..(slots - 1)
AdjustStaticData(t) ==
    /\ Goes(t, "registered", "running")
    /\ static_data' = [static_data EXCEPT ![t] = Adjusted(t)]
    /\ UNCHANGED <<s_AttachedThreads, slots, abortVars, finalizerVars, terminated>>

(* The first use of a class with thread statics gives them a slot in every  *)
(* thread on the list.                                                      *)
AllocThreadStaticData(t) ==
    /\ Runs(t) /\ slots < MaxSlots
    /\ slots' = slots + 1
    /\ static_data' = [u \in Threads |-> static_data[u] \union
                          (IF u \in s_AttachedThreads THEN {slots} ELSE {})]
    /\ UNCHANGED <<pc, s_AttachedThreads, abortVars, finalizerVars, terminated>>

-----------------------------------------------------------------------------
(* A running thread sleeps, joins, waits or blocks on a monitor: all these  *)
(* waits are alertable, before and while they last.                         *)
Sleep(t) ==
    /\ Goes(t, "running", "sleeping")
    /\ UNCHANGED <<s_AttachedThreads, staticVars, abortVars, finalizerVars, terminated>>

WakeUp(t) ==
    /\ t \notin apcs
    /\ Goes(t, "sleeping", "running")
    /\ UNCHANGED <<s_AttachedThreads, staticVars, abortVars, finalizerVars, terminated>>

\* CheckForUserAPCAndHandle takes the APC from the queue, and TerminateThread throws.
Abort(t) ==
    /\ t \in apcs
    /\ Goes(t, "sleeping", "ending")
    /\ apcs' = apcs \ {t}
    /\ UNCHANGED <<s_AttachedThreads, staticVars, s_BlockNewThreads, copy, active,
                   finalizerVars, terminated>>

\* A wait that is not alertable, of the platform or of native code.
Block(t) ==
    /\ Goes(t, "running", "blocked")
    /\ UNCHANGED <<s_AttachedThreads, staticVars, abortVars, finalizerVars, terminated>>

Unblock(t) ==
    /\ Goes(t, "blocked", "running")
    /\ UNCHANGED <<s_AttachedThreads, staticVars, abortVars, finalizerVars, terminated>>

Return(t) ==
    /\ Goes(t, "running", "ending")
    /\ UNCHANGED <<s_AttachedThreads, staticVars, abortVars, finalizerVars, terminated>>

(* UninitializeManagedThread, two sections under the lock, and the end of   *)
(* RunWrapper, which sets m_ThreadExitedEvent.                              *)
FreeThreadStaticData(t) ==
    /\ Goes(t, "ending", "freed")
    /\ static_data' = [static_data EXCEPT ![t] = {}]
    /\ UNCHANGED <<s_AttachedThreads, slots, abortVars, finalizerVars, terminated>>

Unregister(t) ==
    /\ Goes(t, "freed", "leaving")
    /\ s_AttachedThreads' = s_AttachedThreads \ {t}
    /\ UNCHANGED <<staticVars, abortVars, finalizerVars, terminated>>

Exit(t) ==
    /\ Goes(t, "leaving", "exited")
    /\ UNCHANGED <<s_AttachedThreads, staticVars, abortVars, finalizerVars, terminated>>

-----------------------------------------------------------------------------
(* The finalizer thread (94): a round for every post of the semaphore.      *)
\* Mutant: a thread that is not asleep is not notified.
PostIfIdle == semaphore' = IF pc[Finalizer] = "idle" /\ semaphore = 0 THEN 1 ELSE semaphore
\* The semaphore refuses a post at its maximum.
NotifyFinalizers == semaphore' = IF semaphore < SemaphoreMaximum THEN semaphore + 1 ELSE semaphore

\* A collection finds objects to finalize; the collector calls NotifyFinalizers.
Collect ==
    /\ \E t \in Workers \union {Main} : Runs(t)
    /\ pending' = TRUE
    /\ NotifyFinalizers
    /\ UNCHANGED <<pc, s_AttachedThreads, staticVars, abortVars, completed, s_StopFinalizer,
                   terminated>>

FinalizerLoops ==
    /\ Goes(Finalizer, "loop", IF s_StopFinalizer THEN "ending" ELSE "idle")
    /\ UNCHANGED <<s_AttachedThreads, staticVars, abortVars, finalizerVars, terminated>>

FinalizerTakes ==
    /\ semaphore > 0
    /\ Goes(Finalizer, "idle", "invoke")
    /\ semaphore' = semaphore - 1
    /\ UNCHANGED <<s_AttachedThreads, staticVars, abortVars, completed, pending,
                   s_StopFinalizer, terminated>>

InvokeFinalizers ==
    /\ Goes(Finalizer, "invoke", "set")
    /\ pending' = FALSE
    /\ UNCHANGED <<s_AttachedThreads, staticVars, abortVars, semaphore, completed,
                   s_StopFinalizer, terminated>>

FinalizersCompleted ==
    /\ Goes(Finalizer, "set", "loop")
    /\ completed' = TRUE
    /\ UNCHANGED <<s_AttachedThreads, staticVars, abortVars, semaphore, pending,
                   s_StopFinalizer, terminated>>

(* WaitForPendingFinalizers (227).  Its wait is not alertable.              *)
WaitForPendingFinalizers(t) ==
    /\ pending
    /\ Goes(t, "running", "reset")
    /\ UNCHANGED <<s_AttachedThreads, staticVars, abortVars, finalizerVars, terminated>>

ResetCompleted(t) ==
    /\ Goes(t, "reset", "notify")
    /\ completed' = FALSE
    /\ UNCHANGED <<s_AttachedThreads, staticVars, abortVars, semaphore, pending,
                   s_StopFinalizer, terminated>>

AskForARound(t) ==
    /\ Goes(t, "notify", "await")
    /\ NotifyFinalizers
    /\ UNCHANGED <<s_AttachedThreads, staticVars, abortVars, completed, pending,
                   s_StopFinalizer, terminated>>

RoundIsOver(t) ==
    /\ completed
    /\ Goes(t, "await", "running")
    /\ UNCHANGED <<s_AttachedThreads, staticVars, abortVars, finalizerVars, terminated>>

-----------------------------------------------------------------------------
(* Runtime::Shutdown, from AbortAllThreads on.  The thread pool's cleanup   *)
(* comes before.                                                            *)
Shutdown ==
    /\ Goes(Main, "running", "block")
    /\ UNCHANGED <<s_AttachedThreads, staticVars, abortVars, finalizerVars, terminated>>

\* Mutant: new threads are not blocked.
BlockNobody == UNCHANGED s_BlockNewThreads
BlockNewThreads == s_BlockNewThreads' = TRUE
CopyAttachedThreads ==
    /\ Goes(Main, "block", "queue")
    /\ BlockNewThreads
    /\ copy' = s_AttachedThreads
    /\ UNCHANGED <<s_AttachedThreads, staticVars, apcs, active, finalizerVars, terminated>>

\* Every thread of the copy but the finalizer and the current one gets an APC.
QueueTermination(t) ==
    /\ At(Main, "queue") /\ t \in copy
    /\ copy' = copy \ {t}
    /\ IF t \in {Main, Finalizer} THEN UNCHANGED <<apcs, active>>
                                  ELSE apcs' = apcs \union {t} /\ active' = active \union {t}
    /\ UNCHANGED <<pc, s_AttachedThreads, staticVars, s_BlockNewThreads, finalizerVars, terminated>>

BeginToJoin ==
    /\ copy = {}
    /\ Goes(Main, "queue", "join")
    /\ UNCHANGED <<s_AttachedThreads, staticVars, abortVars, finalizerVars, terminated>>

JoinSucceeds(t) ==
    /\ At(Main, "join") /\ t \in active /\ pc[t] = "exited"
    /\ active' = active \ {t}
    /\ UNCHANGED <<pc, s_AttachedThreads, staticVars, s_BlockNewThreads, apcs, copy,
                   finalizerVars, terminated>>

\* Join(10) times out, and the thread gets another APC.
JoinTimesOut(t) ==
    /\ At(Main, "join") /\ t \in active /\ pc[t] # "exited"
    /\ apcs' = apcs \union {t}
    /\ UNCHANGED <<pc, s_AttachedThreads, staticVars, s_BlockNewThreads, copy, active,
                   finalizerVars, terminated>>

ClearAttachedThreads ==
    /\ active = {}
    /\ Goes(Main, "join", "stop")
    /\ s_AttachedThreads' = {Main, Finalizer}
    /\ UNCHANGED <<staticVars, abortVars, finalizerVars, terminated>>

(* UninitializeFinalizers (147).                                            *)
StopFinalizer ==
    /\ Goes(Main, "stop", "announce")
    /\ s_StopFinalizer' = TRUE
    /\ UNCHANGED <<s_AttachedThreads, staticVars, abortVars, semaphore, completed, pending,
                   terminated>>

\* Mutant: the finalizer thread is left to find the flag by itself.
SayNothing == UNCHANGED semaphore
AnnounceStop == NotifyFinalizers
NotifyStop ==
    /\ Goes(Main, "announce", "joinFinalizer")
    /\ AnnounceStop
    /\ UNCHANGED <<s_AttachedThreads, staticVars, abortVars, completed, pending,
                   s_StopFinalizer, terminated>>

JoinFinalizer ==
    /\ pc[Finalizer] = "exited"
    /\ Goes(Main, "joinFinalizer", "uninitialize")
    /\ s_StopFinalizer' = FALSE
    /\ UNCHANGED <<s_AttachedThreads, staticVars, abortVars, semaphore, completed, pending,
                   terminated>>

\* Thread::Uninitialize deletes the list.
Uninitialize ==
    /\ Goes(Main, "uninitialize", "done")
    /\ s_AttachedThreads' = {}
    /\ UNCHANGED <<staticVars, abortVars, finalizerVars, terminated>>

-----------------------------------------------------------------------------
Enters(t) == Register(t) \/ RegisterThrows(t) \/ AdjustStaticData(t)
Leaves(t) == FreeThreadStaticData(t) \/ Unregister(t) \/ Exit(t)
Asks(t) == ResetCompleted(t) \/ AskForARound(t) \/ RoundIsOver(t)
FinalizerStep ==
    \/ FinalizerLoops \/ FinalizerTakes \/ InvokeFinalizers \/ FinalizersCompleted
    \/ Leaves(Finalizer)
MainStep ==
    \/ CopyAttachedThreads \/ BeginToJoin \/ ClearAttachedThreads
    \/ \E t \in Threads : QueueTermination(t) \/ JoinSucceeds(t) \/ JoinTimesOut(t)
    \/ StopFinalizer \/ NotifyStop \/ JoinFinalizer \/ Uninitialize

Next ==
    \/ \E t \in Workers :
          \/ Start(t) \/ Enters(t) \/ Leaves(t)
          \/ Sleep(t) \/ WakeUp(t) \/ Abort(t) \/ Block(t) \/ Unblock(t) \/ Return(t)
    \/ \E t \in Workers \union {Main} :
          AllocThreadStaticData(t) \/ WaitForPendingFinalizers(t) \/ Asks(t)
    \/ Collect \/ FinalizerStep
    \/ Shutdown \/ MainStep

Spec == Init /\ [][Next]_vars

(* Every thread that can go on does.  A thread that runs ends or waits      *)
(* alertably some time, which is what AbortAllThreads counts on, and only   *)
(* the threads in Stuck stay in a wait that is not alertable.               *)
Fairness ==
    /\ WF_vars(FinalizerStep) /\ WF_vars(MainStep)
    /\ \A t \in Workers :
          /\ WF_vars(Enters(t) \/ Leaves(t) \/ Asks(t))
          /\ WF_vars(WakeUp(t) \/ Abort(t))
          /\ SF_vars(Sleep(t) \/ Return(t))
    /\ \A t \in Workers \ Stuck : WF_vars(Unblock(t))

FairSpec == Spec /\ Fairness

-----------------------------------------------------------------------------
TypeOK ==
    /\ pc \in [Threads -> {"none", "starting", "registered", "running", "sleeping", "blocked",
                           "reset", "notify", "await", "ending", "freed", "leaving", "exited",
                           "loop", "idle", "invoke", "set", "block", "queue", "join", "stop",
                           "announce", "joinFinalizer", "uninitialize", "done"}]
    /\ s_AttachedThreads \subseteq Threads /\ s_BlockNewThreads \in BOOLEAN
    /\ slots \in 0..MaxSlots
    /\ static_data \in [Threads -> SUBSET (0..(MaxSlots - 1))]
    /\ apcs \subseteq Workers /\ copy \subseteq Threads /\ active \subseteq Workers
    /\ semaphore \in 0..SemaphoreMaximum
    /\ completed \in BOOLEAN /\ pending \in BOOLEAN /\ s_StopFinalizer \in BOOLEAN
    /\ terminated \in BOOLEAN

InManagedCode == {"running", "sleeping", "blocked", "reset", "notify", "await"}
OnTheList == InManagedCode \union {"registered", "ending", "freed"}

(* A thread in managed code has memory for every thread static there is,    *)
(* whatever slots were made while it was starting (AdjustStaticData and     *)
(* AllocThreadStaticData, 412-440; GetThreadStaticData reads without a lock *)
(* and without a test).                                                     *)
StaticsAreReady == \A t \in Threads : pc[t] \in InManagedCode => static_data[t] = 0..(slots - 1)

(* When AbortAllThreads has returned no worker runs managed code, and none  *)
(* begins to: the finalizer, the list and the runtime can be taken apart.   *)
(* Before that a thread that will look for itself in the list finds itself  *)
(* (the assertion of Unregister, 501), also the finalizer after it.         *)
NobodySurvives ==
    /\ \A t \in Workers : pc[t] \in OnTheList => t \in s_AttachedThreads
    /\ pc[Main] \in {"stop", "announce", "joinFinalizer", "uninitialize", "done"} =>
          \A t \in Workers : pc[t] \notin OnTheList
    /\ pc[Finalizer] \notin {"leaving", "exited"} => Finalizer \in s_AttachedThreads

(* A thread that waits for a round of the finalizer while the event is      *)
(* reset is owed a round that will set it, although others reset it too and *)
(* the finalizer takes several posts as one (94-111, 236-239).              *)
WaiterIsOwedARound ==
    (\E t \in Threads : pc[t] = "await") /\ ~completed =>
        \/ semaphore > 0
        \/ pc[Finalizer] \in {"invoke", "set"}
        \/ \E u \in Threads : pc[u] = "notify"

(* Runtime::Shutdown ends, or std::terminate ends the process.              *)
ShutdownEnds == pc[Main] = "block" ~> pc[Main] = "done" \/ terminated

(* AbortAllThreads returns; "if a thread is in a non-alertable wait it may  *)
(* not have exited when this method exits" (260-261).                       *)
AbortAllThreadsReturns == pc[Main] = "block" ~> pc[Main] \notin {"block", "queue", "join"}
                                                \/ terminated
=============================================================================
