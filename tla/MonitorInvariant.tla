-------------------------- MODULE MonitorInvariant --------------------------
(***************************************************************************)
(* The inductive invariant behind Monitor's safety properties, for clients *)
(* whose TryEnters have no finite timeout and whose waits no exception     *)
(* ends.  MonitorProofs proves that it is inductive.                       *)
(***************************************************************************)
EXTENDS Monitor

EnterLabels ==
    {"Enter", "Inflate", "Install", "TryLock", "Recheck", "Backout", "Ready",
     "Loop", "Grab", "Unready", "SemWait", "Vacate", "Acknowledge"}

\* Program points with a monitor in the local variable.
MonitorLabels ==
    {"Install", "TryLock", "Recheck", "Backout", "Ready", "Loop", "Grab",
     "Unready", "SemWait", "Vacate", "Acknowledge", "ExitReady", "Handoff",
     "Post", "ExitPulse", "Yield", "Repost", "Deflate", "FlushReset",
     "FlushTest", "FlushPost", "FlushWait", "Free", "LastRead", "LastGrab",
     "LateAck"}

FlushLabels == {"FlushReset", "FlushTest", "FlushPost", "FlushWait"}

ExitLabels == {"ExitReady", "Handoff", "ExitPulse", "Yield", "Deflate"}

\* Program points at which the thread owns that monitor although it is not,
\* or not yet, inside the lock of the object.
OwnerLabels ==
    {"Install", "Recheck", "Backout", "Unready", "Free"}
        \union ExitLabels \union FlushLabels

\* Program points at which the thread knows it is outside the lock of object.
OutsideLabels ==
    (EnterLabels \ {"Enter", "TryLock"}) \union ExitLabels
        \union FlushLabels \union {"Free", "Post", "Repost"}

\* The pointers a thread uses are not null.
PointerInv ==
    \A t \in Threads :
        /\ pc[t] \notin {"Idle", "Dead"} => object[t] \in Objects
        /\ pc[t] \in MonitorLabels => installedMonitor[t] \in Monitors

\* No exception is thrown, and no timed TryEnter gives up.
QuietClient == ~Interrupts /\ ~Aborts /\ "finite" \notin EnterTimeouts

NoThrowInv ==
    /\ \A m \in Monitors : ~threadAborted[m]
    /\ dying = {}
    /\ \A t \in Threads :
          pc[t] \notin {"LastRead", "LastGrab", "LateAck", "Unwind", "Dead"}

CallInv ==
    \A t \in Threads :
        /\ pc[t] = "Idle" => ~waiting[t]
        /\ pc[t] \in {"PulseWait", "Reacquired"} => waiting[t]
        /\ pc[t] \in EnterLabels => timeout[t] # "finite"
        /\ pc[t] \in EnterLabels /\ waiting[t] => timeout[t] = "infinite"

\* A monitor is on the free list, attached to one object, or in transit.
AttachInv ==
    /\ \A m \in Monitors :
          m \in s_FreeList <=> owningThreadId[m] = ReturnedToFreeList
    /\ \A o \in Objects :
          monitor[o] # NULL => owningThreadId[monitor[o]] # ReturnedToFreeList
    /\ \A o, p \in Objects :
          monitor[o] # NULL /\ monitor[o] = monitor[p] => o = p

\* Who is inside a lock owns the object's monitor, at the depth it counts.
HoldInv ==
    \A t \in Threads, o \in Objects :
        HoldsLock(t, o) =>
            /\ monitor[o] # NULL
            /\ owningThreadId[monitor[o]] = t
            /\ recursiveLockingCount[monitor[o]] = held[t][o]

\* Who owns a monitor is inside the lock, or on the way in or out.
OwnerInv ==
    \A t \in Threads, m \in Monitors :
        owningThreadId[m] = t =>
            \/ \E o \in Objects : monitor[o] = m /\ HoldsLock(t, o)
            \/ pc[t] \in OwnerLabels /\ installedMonitor[t] = m
            \/ pc[t] = "Reacquired" /\ monitor[object[t]] = m

OwnerLabelsInv ==
    \A t \in Threads :
        /\ pc[t] \in OwnerLabels =>
              /\ owningThreadId[installedMonitor[t]] = t
              /\ recursiveLockingCount[installedMonitor[t]] = 1
        /\ pc[t] \in ExitLabels \union {"Unready"} => Attached(t)
        /\ pc[t] \in FlushLabels \union {"Install", "Free"} =>
              \A o \in Objects : monitor[o] # installedMonitor[t]
        /\ pc[t] = "Reacquired" =>
              /\ monitor[object[t]] # NULL
              /\ owningThreadId[monitor[object[t]]] = t

CountInv ==
    /\ \A m \in Monitors :
          owningThreadId[m] \in {CanBeAcquired, ReturnedToFreeList} =>
              recursiveLockingCount[m] = 1
    /\ \A t \in Threads :
          waiting[t] => held[t][object[t]] = oldLockingCount[t]

\* A thread past the recursion test is outside the lock, and so is one that
\* owns a monitor it found free; one at the test that owns what it read has
\* read the monitor the object still has.
OutsideInv ==
    \A t \in Threads :
        /\ pc[t] \in OutsideLabels => ~HoldsLock(t, object[t])
        /\ pc[t] \in OwnerLabels =>
              \A o \in Objects : monitor[o] = installedMonitor[t] =>
                  ~HoldsLock(t, o)
        /\ pc[t] = "TryLock" =>
              \/ Attached(t)
              \/ /\ ~HoldsLock(t, object[t])
                 /\ owningThreadId[installedMonitor[t]] # t

\* A thread that waits for the monitor is on its ready list.
ReadyInv ==
    \A t \in Threads :
        pc[t] \in {"Loop", "Grab", "SemWait", "Unready", "Vacate"} =>
            t \in readyList[installedMonitor[t]]

\* The handshake of TryEnter and Exit.  A thread that is about to take a
\* monitor it saw attached has announced itself on the ready list before it
\* looked, so the monitor is still attached or its owner is still flushing it
\* and will not let go while the list has somebody.
HandshakeInv ==
    \A t \in Threads :
        pc[t] \in {"Grab", "SemWait"} =>
            \/ Attached(t)
            \/ \E u \in Threads : /\ pc[u] \in FlushLabels
                                  /\ installedMonitor[u] = installedMonitor[t]

IInv ==
    /\ TypeOK
    /\ PointerInv
    /\ NoThrowInv
    /\ CallInv
    /\ AttachInv
    /\ HoldInv
    /\ OwnerInv
    /\ OwnerLabelsInv
    /\ CountInv
    /\ OutsideInv
    /\ ReadyInv
    /\ HandshakeInv
============================================================================
