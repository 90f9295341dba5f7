------------------------ MODULE WaitObjectInvariant ------------------------
(***************************************************************************)
(* The inductive invariant behind WaitObject's safety properties.          *)
(* WaitObjectProofs proves that it is inductive.                           *)
(***************************************************************************)
EXTENDS WaitObject

\* A thread inside Wait has an object, one that queues an APC a target.
ArgumentInv ==
    \A t \in Threads :
        /\ pc[t] \notin {"Idle", "Queued"} => object[t] \in WaitObjects
        /\ At(t, "Queued") => target[t] \in Threads

\* Past the wait, or about to sleep, a thread is inside the object's lock.
LockInv ==
    \A t \in Threads :
        pc[t] \in {"Armed", "Disarm", "LastCheck", "Throwing"} =>
            m_Mutex[object[t]] = t

\* A sleeper is on the list until it has locked the object again, and the
\* count of waiting threads is the length of the list.
ListInv ==
    /\ \A t \in Threads :
          pc[t] \in {"Asleep", "Relock"} =>
              t \in ToSet(m_WaitingThreads[object[t]])
    /\ \A o \in WaitObjects :
          m_WaitingThreadCount[o] = Len(m_WaitingThreads[o])

\* An interruptible thread is tied to the object from before its last look
\* at the APC queue until after it has slept.
TiedInv ==
    \A t \in Threads :
        pc[t] \in {"Armed", "Asleep", "Relock"} /\ interruptible[t] =>
            m_CurrentWaitObject[t]

\* What a signalled thread has seen under the lock is still there.
SignalInv ==
    \A t \in Threads :
        At(t, "Disarm") /\ waitStatus[t] = "success" => m_Count[object[t]] > 0

WInv ==
    /\ TypeOK
    /\ ArgumentInv
    /\ LockInv
    /\ ListInv
    /\ TiedInv
    /\ SignalInv
    /\ MutexAgreement
    /\ EventWakesEverybody
    /\ InterruptIsNotLost
=============================================================================
