--------------------------- MODULE MonitorProofs ---------------------------
(***************************************************************************)
(* Proofs about Monitor, for any numbers of threads, objects and monitors. *)
(* Type correctness holds for every client, all timeouts and exceptions;   *)
(* mutual exclusion, the code's assertions and the agreement of the lock   *)
(* with what the client did hold for the clients of QuietClient, and for   *)
(* them Monitor implements ObjectLock.                                     *)
(***************************************************************************)
EXTENDS MonitorInvariant, TLAPS, SequenceTheorems, FiniteSetTheorems

LEMMA TypeInit == Init => TypeOK /\ PointerInv
  BY ConstantsAssumption
     DEF Init, TypeOK, LockType, CountType, WakeType, PulseType, LabelType,
         CallType, ArgType, PointerInv, Labels, MonitorLabels,
         ConstantsAssumption

\* The list operations of TryWait and PulseMonitor return lists of threads.
LEMMA PulseListType ==
  ASSUME NEW list \in Seq(Threads), NEW t \in Threads
  PROVE  /\ <<t>> \o list \in Seq(Threads)
         /\ RemoveFromPulseWaitingList(list, t) \in Seq(Threads)
         /\ \A n \in Nat : n <= Len(list) =>
               SubSeq(list, n + 1, Len(list)) \in Seq(Threads)
<1>1. <<t>> \o list \in Seq(Threads)
  OBVIOUS
<1>2. \A m, n \in Nat : 1 <= m /\ n <= Len(list) =>
          SubSeq(list, m, n) \in Seq(Threads)
  BY SubSeqProperties
<1>3. ASSUME NEW i \in DOMAIN list
      PROVE  RemoveAt(list, i) \in Seq(Threads)
  <2>1. /\ SubSeq(list, 1, i - 1) \in Seq(Threads)
        /\ SubSeq(list, i + 1, Len(list)) \in Seq(Threads)
    BY <1>2, LenProperties
  <2> QED BY <2>1, ConcatProperties DEF RemoveAt
<1>4. RemoveFromPulseWaitingList(list, t) \in Seq(Threads)
  BY <1>3 DEF RemoveFromPulseWaitingList
<1>5. \A n \in Nat : n <= Len(list) =>
          SubSeq(list, n + 1, Len(list)) \in Seq(Threads)
  BY <1>2, LenProperties
<1> QED BY <1>1, <1>4, <1>5

\* A successful Enter adds one to what the client holds.
LEMMA EnterReturnsTrueType ==
  ASSUME CallType, ArgType, NEW t \in Threads, object[t] \in Objects,
         EnterReturnsTrue(t)
  PROVE  CallType'
<1>1. held' \in [Threads -> [Objects -> Nat]]
  BY DEF CallType, EnterReturnsTrue
<1>2. /\ object' \in [Threads -> Objects \union {NULL}]
      /\ installedMonitor' \in [Threads -> Monitors \union {NULL}]
  BY DEF CallType, EnterReturnsTrue
<1> QED BY <1>1, <1>2 DEF CallType

\* Types and non-null pointers are preserved, whatever clients do.
LEMMA TypeStep ==
  ASSUME TypeOK, PointerInv, [Next]_vars
  PROVE  TypeOK' /\ PointerInv'
<1> USE ConstantsAssumption
<1>
  USE DEF At, Goto, SetOwner, CanAcquire, Unacquire, lockv, countv, wakev,
     pulsev, argv, callv, EnterReturnsTrue, EnterFails, ExitReturns,
     ReturnToFreeList, AddToReadyList, RemoveFromReadyList, Reenter, Post,
     Posted, LockedByCurrentThread, MonitorLabels
<1>1. ASSUME NEW t \in Threads, NEW o \in Objects,
             NEW ms \in EnterTimeouts, Enter(t, o, ms)
      PROVE  TypeOK' /\ PointerInv'
  <2>1. LockType' /\ CountType' /\ WakeType' /\ PulseType'
    BY <1>1 DEF Enter, TypeOK, LockType, CountType, WakeType, PulseType
  <2>2. CallType' BY <1>1 DEF Enter, TypeOK, CallType, LockType, ArgType
  <2>3. ArgType' BY <1>1 DEF Enter, TypeOK, ArgType, ConstantsAssumption
  <2>4. LabelType' BY <1>1 DEF Enter, TypeOK, LabelType, Labels
  <2>5. PointerInv'
    BY <1>1 DEF Enter, TypeOK, PointerInv, LabelType, LockType, CallType
  <2> QED BY <2>1, <2>2, <2>3, <2>4, <2>5 DEF TypeOK
<1>2. ASSUME NEW t \in Threads, NEW o \in Objects, ExitRecursive(t, o)
      PROVE  TypeOK' /\ PointerInv'
  <2>1. LockType' /\ WakeType' /\ PulseType' /\ ArgType'
    BY <1>2 DEF ExitRecursive, TypeOK, LockType, WakeType, PulseType, ArgType
  <2>2. CountType'
    <3>1. \A n \in Nat : n > 1 => n - 1 \in Nat \ {0}
      OBVIOUS
    <3> QED BY <1>2, <3>1 DEF ExitRecursive, TypeOK, CountType
  <2>3. CallType'
    BY <1>2 DEF ExitRecursive, TypeOK, CallType, LockType, ArgType
  <2>4. LabelType' BY <1>2 DEF ExitRecursive, TypeOK, LabelType, Labels
  <2>5. PointerInv'
    BY <1>2 DEF ExitRecursive, TypeOK, PointerInv, LabelType, LockType,
       CallType
  <2> QED BY <2>1, <2>2, <2>3, <2>4, <2>5 DEF TypeOK
<1>3. ASSUME NEW t \in Threads, NEW o \in Objects, ExitLast(t, o)
      PROVE  TypeOK' /\ PointerInv'
  <2>1. LockType' /\ CountType' /\ WakeType' /\ PulseType' /\ ArgType'
    BY <1>3 DEF ExitLast, TypeOK, LockType, CountType, WakeType, PulseType,
       ArgType
  <2>2. CallType' BY <1>3 DEF ExitLast, TypeOK, CallType, LockType, ArgType
  <2>3. LabelType' BY <1>3 DEF ExitLast, TypeOK, LabelType, Labels
  <2>4. PointerInv'
    BY <1>3 DEF ExitLast, TypeOK, PointerInv, LabelType, LockType, CallType
  <2> QED BY <2>1, <2>2, <2>3, <2>4 DEF TypeOK
<1>4. ASSUME NEW t \in Threads, NEW o \in Objects,
             NEW ms \in WaitTimeouts, Wait(t, o, ms)
      PROVE  TypeOK' /\ PointerInv'
  <2>1. LockType' /\ WakeType' BY <1>4 DEF Wait, TypeOK, LockType, WakeType
  <2>2. CountType' BY <1>4 DEF Wait, TypeOK, CountType, LockType, ArgType
  <2>3. PulseType'
    <3>1. \A m \in Monitors :
             <<t>> \o threadsWaitingForPulse[m] \in Seq(Threads)
      BY PulseListType DEF TypeOK, PulseType
    <3> QED BY <1>4, <3>1 DEF Wait, TypeOK, PulseType
  <2>4. CallType' BY <1>4 DEF Wait, TypeOK, CallType, LockType, ArgType
  <2>5. ArgType'
    <3>1. monitor[o] \in Monitors
      BY <1>4 DEF Wait, TypeOK, LockType
    <3>2. recursiveLockingCount[monitor[o]] \in Nat \ {0}
      BY <3>1 DEF TypeOK, CountType
    <3> QED BY <1>4, <3>2 DEF Wait, TypeOK, ArgType, ConstantsAssumption
  <2>6. LabelType' BY <1>4 DEF Wait, TypeOK, LabelType, Labels
  <2>7. PointerInv'
    BY <1>4 DEF Wait, TypeOK, PointerInv, LabelType, LockType, CallType
  <2> QED BY <2>1, <2>2, <2>3, <2>4, <2>5, <2>6, <2>7 DEF TypeOK
<1>5. ASSUME NEW t \in Threads, NEW o \in Objects,
             NEW all \in BOOLEAN, PulseMonitor(t, o, all)
      PROVE  TypeOK' /\ PointerInv'
  <2>1. LockType' /\ CountType' /\ WakeType' /\ CallType' /\ ArgType'
    BY <1>5 DEF PulseMonitor, TypeOK, LockType, CountType, WakeType, CallType,
       ArgType
  <2>2. PulseType'
    <3>1. monitor[o] \in Monitors
      BY <1>5 DEF PulseMonitor, TypeOK, LockType
    <3> DEFINE list == threadsWaitingForPulse[monitor[o]]
               n == IF all \/ list = <<>> THEN Len(list) ELSE 1
    <3>2. list \in Seq(Threads)
      BY <3>1 DEF TypeOK, PulseType
    <3>3. n \in Nat /\ n <= Len(list)
      BY <3>2, EmptySeq, LenProperties
    <3>4. SubSeq(list, n + 1, Len(list)) \in Seq(Threads)
      BY <3>2, <3>3, PulseListType
    <3>5. threadsWaitingForPulse' = [threadsWaitingForPulse EXCEPT
             ![monitor[o]] = SubSeq(list, n + 1, Len(list))]
      BY <1>5 DEF PulseMonitor
    <3>6. threadsWaitingForPulse' \in [Monitors -> Seq(Threads)]
      BY <3>4, <3>5 DEF TypeOK, PulseType
    <3>7. signalWaitingThread' \in [Threads -> BOOLEAN]
      BY <1>5 DEF PulseMonitor, TypeOK, PulseType
    <3> QED BY <3>6, <3>7 DEF PulseType
  <2>3. LabelType' BY <1>5 DEF PulseMonitor, TypeOK, LabelType, Labels
  <2>4. PointerInv'
    BY <1>5 DEF PulseMonitor, TypeOK, PointerInv, LabelType, LockType,
       CallType
  <2> QED BY <2>1, <2>2, <2>3, <2>4 DEF TypeOK
<1>6. ASSUME NEW t \in Threads, ReadMonitor(t)
      PROVE  TypeOK' /\ PointerInv'
  <2>1. LockType' /\ CountType' /\ WakeType' /\ PulseType' /\ ArgType'
    BY <1>6 DEF ReadMonitor, TypeOK, LockType, CountType, WakeType, PulseType,
       ArgType
  <2>2. CallType'
    BY <1>6 DEF ReadMonitor, TypeOK, CallType, LockType, ArgType, PointerInv
  <2>3. LabelType' BY <1>6 DEF ReadMonitor, TypeOK, LabelType, Labels
  <2>4. PointerInv'
    BY <1>6 DEF ReadMonitor, TypeOK, PointerInv, LabelType, LockType, CallType
  <2> QED BY <2>1, <2>2, <2>3, <2>4 DEF TypeOK
<1>7. ASSUME NEW t \in Threads, Allocate(t)
      PROVE  TypeOK' /\ PointerInv'
  <2>1. CountType' /\ WakeType' /\ PulseType' /\ ArgType'
    BY <1>7 DEF Allocate, TypeOK, CountType, WakeType, PulseType, ArgType
  <2>2. LockType' BY <1>7 DEF Allocate, TypeOK, LockType, CallType, PointerInv
  <2>3. CallType' BY <1>7 DEF Allocate, TypeOK, CallType, LockType, ArgType
  <2>4. LabelType' BY <1>7 DEF Allocate, TypeOK, LabelType, Labels
  <2>5. PointerInv'
    BY <1>7 DEF Allocate, TypeOK, PointerInv, LabelType, LockType, CallType
  <2> QED BY <2>1, <2>2, <2>3, <2>4, <2>5 DEF TypeOK
<1>8. ASSUME NEW t \in Threads, Install(t)
      PROVE  TypeOK' /\ PointerInv'
  <2>1. CountType' /\ WakeType' /\ PulseType' /\ ArgType'
    BY <1>8 DEF Install, TypeOK, CountType, WakeType, PulseType, ArgType
  <2>2. LockType' BY <1>8 DEF Install, TypeOK, LockType, CallType, PointerInv
  <2>3. CallType'
    <3>1. EnterReturnsTrue(t) /\ object[t] \in Objects
      BY <1>8 DEF Install, PointerInv
    <3> QED BY <3>1, EnterReturnsTrueType DEF TypeOK
  <2>4. LabelType' BY <1>8 DEF Install, TypeOK, LabelType, Labels
  <2>5. PointerInv'
    BY <1>8 DEF Install, TypeOK, PointerInv, LabelType, LockType, CallType
  <2> QED BY <2>1, <2>2, <2>3, <2>4, <2>5 DEF TypeOK
<1>9. ASSUME NEW t \in Threads, InstallLost(t)
      PROVE  TypeOK' /\ PointerInv'
  <2>1. CountType' /\ WakeType' /\ PulseType' /\ ArgType'
    BY <1>9 DEF InstallLost, TypeOK, CountType, WakeType, PulseType, ArgType
  <2>2. LockType'
    BY <1>9 DEF InstallLost, TypeOK, LockType, CallType, PointerInv
  <2>3. CallType' BY <1>9 DEF InstallLost, TypeOK, CallType, LockType, ArgType
  <2>4. LabelType' BY <1>9 DEF InstallLost, TypeOK, LabelType, Labels
  <2>5. PointerInv'
    BY <1>9 DEF InstallLost, TypeOK, PointerInv, LabelType, LockType, CallType
  <2> QED BY <2>1, <2>2, <2>3, <2>4, <2>5 DEF TypeOK
<1>10. ASSUME NEW t \in Threads, LockRecursively(t)
      PROVE  TypeOK' /\ PointerInv'
  <2>1. LockType' /\ WakeType' /\ PulseType' /\ ArgType'
    BY <1>10 DEF LockRecursively, TypeOK, LockType, WakeType, PulseType,
       ArgType
  <2>2. CountType'
    BY <1>10 DEF LockRecursively, TypeOK, CountType, LockType, ArgType,
       PointerInv
  <2>3. CallType'
    <3>1. EnterReturnsTrue(t) /\ object[t] \in Objects
      BY <1>10 DEF LockRecursively, PointerInv
    <3> QED BY <3>1, EnterReturnsTrueType DEF TypeOK
  <2>4. LabelType' BY <1>10 DEF LockRecursively, TypeOK, LabelType, Labels
  <2>5. PointerInv'
    BY <1>10 DEF LockRecursively, TypeOK, PointerInv, LabelType, LockType,
       CallType
  <2> QED BY <2>1, <2>2, <2>3, <2>4, <2>5 DEF TypeOK
<1>11. ASSUME NEW t \in Threads, TryAcquire(t)
      PROVE  TypeOK' /\ PointerInv'
  <2>1. CountType' /\ WakeType' /\ PulseType' /\ CallType' /\ ArgType'
    BY <1>11 DEF TryAcquire, TypeOK, CountType, WakeType, PulseType, CallType,
       ArgType
  <2>2. LockType'
    BY <1>11 DEF TryAcquire, TypeOK, LockType, CallType, PointerInv
  <2>3. LabelType' BY <1>11 DEF TryAcquire, TypeOK, LabelType, Labels
  <2>4. PointerInv'
    BY <1>11 DEF TryAcquire, TypeOK, PointerInv, LabelType, LockType, CallType
  <2> QED BY <2>1, <2>2, <2>3, <2>4 DEF TypeOK
<1>12. ASSUME NEW t \in Threads, Recheck(t)
      PROVE  TypeOK' /\ PointerInv'
  <2>1. LockType' /\ CountType' /\ WakeType' /\ PulseType' /\ ArgType'
    BY <1>12 DEF Recheck, TypeOK, LockType, CountType, WakeType, PulseType,
       ArgType
  <2>2. CallType'
    <3>1. EnterReturnsTrue(t) /\ object[t] \in Objects
      BY <1>12 DEF Recheck, PointerInv
    <3> QED BY <3>1, EnterReturnsTrueType DEF TypeOK
  <2>3. LabelType' BY <1>12 DEF Recheck, TypeOK, LabelType, Labels
  <2>4. PointerInv'
    BY <1>12 DEF Recheck, TypeOK, PointerInv, LabelType, LockType, CallType
  <2> QED BY <2>1, <2>2, <2>3, <2>4 DEF TypeOK
<1>13. ASSUME NEW t \in Threads, RecheckFails(t)
      PROVE  TypeOK' /\ PointerInv'
  <2>1. LockType' /\ CountType' /\ WakeType' /\ PulseType' /\ CallType' /\ ArgType'
    BY <1>13 DEF RecheckFails, TypeOK, LockType, CountType, WakeType,
       PulseType, CallType, ArgType
  <2>2. LabelType' BY <1>13 DEF RecheckFails, TypeOK, LabelType, Labels
  <2>3. PointerInv'
    BY <1>13 DEF RecheckFails, TypeOK, PointerInv, LabelType, LockType,
       CallType
  <2> QED BY <2>1, <2>2, <2>3 DEF TypeOK
<1>14. ASSUME NEW t \in Threads, Backout(t)
      PROVE  TypeOK' /\ PointerInv'
  <2>1. CountType' /\ WakeType' /\ PulseType' /\ ArgType'
    BY <1>14 DEF Backout, TypeOK, CountType, WakeType, PulseType, ArgType
  <2>2. LockType' BY <1>14 DEF Backout, TypeOK, LockType, CallType, PointerInv
  <2>3. CallType' BY <1>14 DEF Backout, TypeOK, CallType, LockType, ArgType
  <2>4. LabelType' BY <1>14 DEF Backout, TypeOK, LabelType, Labels
  <2>5. PointerInv'
    BY <1>14 DEF Backout, TypeOK, PointerInv, LabelType, LockType, CallType
  <2> QED BY <2>1, <2>2, <2>3, <2>4, <2>5 DEF TypeOK
<1>15. ASSUME NEW t \in Threads, FailAtOnce(t)
      PROVE  TypeOK' /\ PointerInv'
  <2>1. LockType' /\ CountType' /\ WakeType' /\ PulseType'
    BY <1>15 DEF FailAtOnce, TypeOK, LockType, CountType, WakeType, PulseType
  <2>2. CallType' BY <1>15 DEF FailAtOnce, TypeOK, CallType, LockType, ArgType
  <2>3. ArgType' BY <1>15 DEF FailAtOnce, TypeOK, ArgType
  <2>4. LabelType' BY <1>15 DEF FailAtOnce, TypeOK, LabelType, Labels
  <2>5. PointerInv'
    BY <1>15 DEF FailAtOnce, TypeOK, PointerInv, LabelType, LockType, CallType
  <2> QED BY <2>1, <2>2, <2>3, <2>4, <2>5 DEF TypeOK
<1>16. ASSUME NEW t \in Threads, QueueUp(t)
      PROVE  TypeOK' /\ PointerInv'
  <2>1. LockType' /\ CountType' /\ WakeType' /\ PulseType' /\ CallType' /\ ArgType'
    BY <1>16 DEF QueueUp, TypeOK, LockType, CountType, WakeType, PulseType,
       CallType, ArgType
  <2>2. LabelType' BY <1>16 DEF QueueUp, TypeOK, LabelType, Labels
  <2>3. PointerInv'
    BY <1>16 DEF QueueUp, TypeOK, PointerInv, LabelType, LockType, CallType
  <2> QED BY <2>1, <2>2, <2>3 DEF TypeOK
<1>17. ASSUME NEW t \in Threads, GetReady(t)
      PROVE  TypeOK' /\ PointerInv'
  <2>1. LockType' /\ CountType' /\ PulseType' /\ CallType' /\ ArgType'
    BY <1>17 DEF GetReady, TypeOK, LockType, CountType, PulseType, CallType,
       ArgType
  <2>2. WakeType'
    BY <1>17 DEF GetReady, TypeOK, WakeType, CallType, ConstantsAssumption
  <2>3. LabelType' BY <1>17 DEF GetReady, TypeOK, LabelType, Labels
  <2>4. PointerInv'
    BY <1>17 DEF GetReady, TypeOK, PointerInv, LabelType, LockType, CallType
  <2> QED BY <2>1, <2>2, <2>3, <2>4 DEF TypeOK
<1>18. ASSUME NEW t \in Threads, TestAttached(t)
      PROVE  TypeOK' /\ PointerInv'
  <2>1. LockType' /\ CountType' /\ WakeType' /\ PulseType' /\ CallType' /\ ArgType'
    BY <1>18 DEF TestAttached, TypeOK, LockType, CountType, WakeType,
       PulseType, CallType, ArgType
  <2>2. LabelType' BY <1>18 DEF TestAttached, TypeOK, LabelType, Labels
  <2>3. PointerInv'
    BY <1>18 DEF TestAttached, TypeOK, PointerInv, LabelType, LockType,
       CallType
  <2> QED BY <2>1, <2>2, <2>3 DEF TypeOK
<1>19. ASSUME NEW t \in Threads, Grab(t)
      PROVE  TypeOK' /\ PointerInv'
  <2>1. CountType' /\ WakeType' /\ PulseType' /\ CallType' /\ ArgType'
    BY <1>19 DEF Grab, TypeOK, CountType, WakeType, PulseType, CallType,
       ArgType
  <2>2. LockType' BY <1>19 DEF Grab, TypeOK, LockType, CallType, PointerInv
  <2>3. LabelType' BY <1>19 DEF Grab, TypeOK, LabelType, Labels
  <2>4. PointerInv'
    BY <1>19 DEF Grab, TypeOK, PointerInv, LabelType, LockType, CallType
  <2> QED BY <2>1, <2>2, <2>3, <2>4 DEF TypeOK
<1>20. ASSUME NEW t \in Threads, GrabFails(t)
      PROVE  TypeOK' /\ PointerInv'
  <2>1. LockType' /\ CountType' /\ WakeType' /\ PulseType' /\ CallType' /\ ArgType'
    BY <1>20 DEF GrabFails, TypeOK, LockType, CountType, WakeType, PulseType,
       CallType, ArgType
  <2>2. LabelType' BY <1>20 DEF GrabFails, TypeOK, LabelType, Labels
  <2>3. PointerInv'
    BY <1>20 DEF GrabFails, TypeOK, PointerInv, LabelType, LockType, CallType
  <2> QED BY <2>1, <2>2, <2>3 DEF TypeOK
<1>21. ASSUME NEW t \in Threads, Unready(t)
      PROVE  TypeOK' /\ PointerInv'
  <2>1. LockType' /\ CountType' /\ PulseType' /\ ArgType'
    BY <1>21 DEF Unready, TypeOK, LockType, CountType, PulseType, ArgType
  <2>2. WakeType'
    BY <1>21 DEF Unready, TypeOK, WakeType, CallType, ConstantsAssumption
  <2>3. CallType'
    <3>1. EnterReturnsTrue(t) /\ object[t] \in Objects
      BY <1>21 DEF Unready, PointerInv
    <3> QED BY <3>1, EnterReturnsTrueType DEF TypeOK
  <2>4. LabelType' BY <1>21 DEF Unready, TypeOK, LabelType, Labels
  <2>5. PointerInv'
    BY <1>21 DEF Unready, TypeOK, PointerInv, LabelType, LockType, CallType
  <2> QED BY <2>1, <2>2, <2>3, <2>4, <2>5 DEF TypeOK
<1>22. ASSUME NEW t \in Threads, Wake(t)
      PROVE  TypeOK' /\ PointerInv'
  <2>1. LockType' /\ CountType' /\ PulseType' /\ CallType' /\ ArgType'
    BY <1>22 DEF Wake, TypeOK, LockType, CountType, PulseType, CallType,
       ArgType
  <2>2. WakeType'
    BY <1>22 DEF Wake, TypeOK, WakeType, CallType, PointerInv,
       ConstantsAssumption
  <2>3. LabelType' BY <1>22 DEF Wake, TypeOK, LabelType, Labels
  <2>4. PointerInv'
    BY <1>22 DEF Wake, TypeOK, PointerInv, LabelType, LockType, CallType
  <2> QED BY <2>1, <2>2, <2>3, <2>4 DEF TypeOK
<1>23. ASSUME NEW t \in Threads, Vacate(t)
      PROVE  TypeOK' /\ PointerInv'
  <2>1. LockType' /\ CountType' /\ PulseType' /\ CallType' /\ ArgType'
    BY <1>23 DEF Vacate, TypeOK, LockType, CountType, PulseType, CallType,
       ArgType
  <2>2. WakeType'
    BY <1>23 DEF Vacate, TypeOK, WakeType, CallType, ConstantsAssumption
  <2>3. LabelType' BY <1>23 DEF Vacate, TypeOK, LabelType, Labels
  <2>4. PointerInv'
    BY <1>23 DEF Vacate, TypeOK, PointerInv, LabelType, LockType, CallType
  <2> QED BY <2>1, <2>2, <2>3, <2>4 DEF TypeOK
<1>24. ASSUME NEW t \in Threads, Acknowledge(t)
      PROVE  TypeOK' /\ PointerInv'
  <2>1. LockType' /\ CountType' /\ PulseType' /\ ArgType'
    BY <1>24 DEF Acknowledge, TypeOK, LockType, CountType, PulseType, ArgType
  <2>2. WakeType'
    BY <1>24 DEF Acknowledge, TypeOK, WakeType, CallType, ConstantsAssumption
  <2>3. CallType'
    BY <1>24 DEF Acknowledge, TypeOK, CallType, LockType, ArgType
  <2>4. LabelType' BY <1>24 DEF Acknowledge, TypeOK, LabelType, Labels
  <2>5. PointerInv'
    BY <1>24 DEF Acknowledge, TypeOK, PointerInv, LabelType, LockType,
       CallType
  <2> QED BY <2>1, <2>2, <2>3, <2>4, <2>5 DEF TypeOK
<1>25. ASSUME NEW t \in Threads, TimeOut(t)
      PROVE  TypeOK' /\ PointerInv'
  <2>1. LockType' /\ CountType' /\ PulseType' /\ CallType' /\ ArgType'
    BY <1>25 DEF TimeOut, TypeOK, LockType, CountType, PulseType, CallType,
       ArgType
  <2>2. WakeType'
    BY <1>25 DEF TimeOut, TypeOK, WakeType, CallType, ConstantsAssumption
  <2>3. LabelType' BY <1>25 DEF TimeOut, TypeOK, LabelType, Labels
  <2>4. PointerInv'
    BY <1>25 DEF TimeOut, TypeOK, PointerInv, LabelType, LockType, CallType
  <2> QED BY <2>1, <2>2, <2>3, <2>4 DEF TypeOK
<1>26. ASSUME NEW t \in Threads, LastRead(t)
      PROVE  TypeOK' /\ PointerInv'
  <2>1. LockType' /\ CountType' /\ WakeType' /\ PulseType' /\ CallType' /\ ArgType'
    BY <1>26 DEF LastRead, TypeOK, LockType, CountType, WakeType, PulseType,
       CallType, ArgType
  <2>2. LabelType' BY <1>26 DEF LastRead, TypeOK, LabelType, Labels
  <2>3. PointerInv'
    BY <1>26 DEF LastRead, TypeOK, PointerInv, LabelType, LockType, CallType
  <2> QED BY <2>1, <2>2, <2>3 DEF TypeOK
<1>27. ASSUME NEW t \in Threads, LastGrab(t)
      PROVE  TypeOK' /\ PointerInv'
  <2>1. CountType' /\ WakeType' /\ PulseType' /\ ArgType'
    BY <1>27 DEF LastGrab, TypeOK, CountType, WakeType, PulseType, ArgType
  <2>2. LockType'
    BY <1>27 DEF LastGrab, TypeOK, LockType, CallType, PointerInv
  <2>3. CallType'
    <3>1. EnterReturnsTrue(t) /\ object[t] \in Objects
      BY <1>27 DEF LastGrab, PointerInv
    <3> QED BY <3>1, EnterReturnsTrueType DEF TypeOK
  <2>4. LabelType' BY <1>27 DEF LastGrab, TypeOK, LabelType, Labels
  <2>5. PointerInv'
    BY <1>27 DEF LastGrab, TypeOK, PointerInv, LabelType, LockType, CallType
  <2> QED BY <2>1, <2>2, <2>3, <2>4, <2>5 DEF TypeOK
<1>28. ASSUME NEW t \in Threads, LastGrabFails(t)
      PROVE  TypeOK' /\ PointerInv'
  <2>1. LockType' /\ CountType' /\ WakeType' /\ PulseType' /\ CallType' /\ ArgType'
    BY <1>28 DEF LastGrabFails, TypeOK, LockType, CountType, WakeType,
       PulseType, CallType, ArgType
  <2>2. LabelType' BY <1>28 DEF LastGrabFails, TypeOK, LabelType, Labels
  <2>3. PointerInv'
    BY <1>28 DEF LastGrabFails, TypeOK, PointerInv, LabelType, LockType,
       CallType
  <2> QED BY <2>1, <2>2, <2>3 DEF TypeOK
<1>29. ASSUME NEW t \in Threads, LateAck(t)
      PROVE  TypeOK' /\ PointerInv'
  <2>1. LockType' /\ CountType' /\ PulseType'
    BY <1>29 DEF LateAck, TypeOK, LockType, CountType, PulseType
  <2>2. WakeType'
    BY <1>29 DEF LateAck, TypeOK, WakeType, CallType, ConstantsAssumption
  <2>3. CallType' BY <1>29 DEF LateAck, TypeOK, CallType, LockType, ArgType
  <2>4. ArgType' BY <1>29 DEF LateAck, TypeOK, ArgType
  <2>5. LabelType' BY <1>29 DEF LateAck, TypeOK, LabelType, Labels
  <2>6. PointerInv'
    BY <1>29 DEF LateAck, TypeOK, PointerInv, LabelType, LockType, CallType
  <2> QED BY <2>1, <2>2, <2>3, <2>4, <2>5, <2>6 DEF TypeOK
<1>30. ASSUME NEW t \in Threads, ExitReady(t)
      PROVE  TypeOK' /\ PointerInv'
  <2>1. LockType' /\ CountType' /\ WakeType' /\ PulseType' /\ CallType' /\ ArgType'
    BY <1>30 DEF ExitReady, TypeOK, LockType, CountType, WakeType, PulseType,
       CallType, ArgType
  <2>2. LabelType' BY <1>30 DEF ExitReady, TypeOK, LabelType, Labels
  <2>3. PointerInv'
    BY <1>30 DEF ExitReady, TypeOK, PointerInv, LabelType, LockType, CallType
  <2> QED BY <2>1, <2>2, <2>3 DEF TypeOK
<1>31. ASSUME NEW t \in Threads, Handoff(t)
      PROVE  TypeOK' /\ PointerInv'
  <2>1. CountType' /\ WakeType' /\ PulseType' /\ CallType' /\ ArgType'
    BY <1>31 DEF Handoff, TypeOK, CountType, WakeType, PulseType, CallType,
       ArgType
  <2>2. LockType' BY <1>31 DEF Handoff, TypeOK, LockType, CallType, PointerInv
  <2>3. LabelType' BY <1>31 DEF Handoff, TypeOK, LabelType, Labels
  <2>4. PointerInv'
    BY <1>31 DEF Handoff, TypeOK, PointerInv, LabelType, LockType, CallType
  <2> QED BY <2>1, <2>2, <2>3, <2>4 DEF TypeOK
<1>32. ASSUME NEW t \in Threads, PostOne(t)
      PROVE  TypeOK' /\ PointerInv'
  <2>1. LockType' /\ CountType' /\ PulseType' /\ ArgType'
    BY <1>32 DEF PostOne, TypeOK, LockType, CountType, PulseType, ArgType
  <2>2. WakeType'
    BY <1>32 DEF PostOne, TypeOK, WakeType, CallType, PointerInv,
       ConstantsAssumption
  <2>3. CallType' BY <1>32 DEF PostOne, TypeOK, CallType, LockType, ArgType
  <2>4. LabelType' BY <1>32 DEF PostOne, TypeOK, LabelType, Labels
  <2>5. PointerInv'
    BY <1>32 DEF PostOne, TypeOK, PointerInv, LabelType, LockType, CallType
  <2> QED BY <2>1, <2>2, <2>3, <2>4, <2>5 DEF TypeOK
<1>33. ASSUME NEW t \in Threads, ExitPulse(t)
      PROVE  TypeOK' /\ PointerInv'
  <2>1. LockType' /\ CountType' /\ WakeType' /\ PulseType' /\ CallType' /\ ArgType'
    BY <1>33 DEF ExitPulse, TypeOK, LockType, CountType, WakeType, PulseType,
       CallType, ArgType
  <2>2. LabelType' BY <1>33 DEF ExitPulse, TypeOK, LabelType, Labels
  <2>3. PointerInv'
    BY <1>33 DEF ExitPulse, TypeOK, PointerInv, LabelType, LockType, CallType
  <2> QED BY <2>1, <2>2, <2>3 DEF TypeOK
<1>34. ASSUME NEW t \in Threads, Yield(t)
      PROVE  TypeOK' /\ PointerInv'
  <2>1. CountType' /\ WakeType' /\ PulseType' /\ CallType' /\ ArgType'
    BY <1>34 DEF Yield, TypeOK, CountType, WakeType, PulseType, CallType,
       ArgType
  <2>2. LockType' BY <1>34 DEF Yield, TypeOK, LockType, CallType, PointerInv
  <2>3. LabelType' BY <1>34 DEF Yield, TypeOK, LabelType, Labels
  <2>4. PointerInv'
    BY <1>34 DEF Yield, TypeOK, PointerInv, LabelType, LockType, CallType
  <2> QED BY <2>1, <2>2, <2>3, <2>4 DEF TypeOK
<1>35. ASSUME NEW t \in Threads, Repost(t)
      PROVE  TypeOK' /\ PointerInv'
  <2>1. LockType' /\ CountType' /\ WakeType' /\ PulseType' /\ ArgType'
    BY <1>35 DEF Repost, TypeOK, LockType, CountType, WakeType, PulseType,
       ArgType
  <2>2. CallType'
    <3>1. CASE readyList[installedMonitor[t]] # {}
      BY <1>35, <3>1 DEF Repost, TypeOK, CallType, ArgType, PointerInv
    <3>2. CASE ~(readyList[installedMonitor[t]] # {})
      BY <1>35, <3>2 DEF Repost, TypeOK, CallType, ArgType
    <3> QED BY <3>1, <3>2
  <2>3. LabelType' BY <1>35 DEF Repost, TypeOK, LabelType, Labels
  <2>4. PointerInv'
    BY <1>35 DEF Repost, TypeOK, PointerInv, LabelType, LockType, CallType
  <2> QED BY <2>1, <2>2, <2>3, <2>4 DEF TypeOK
<1>36. ASSUME NEW t \in Threads, Deflate(t)
      PROVE  TypeOK' /\ PointerInv'
  <2>1. CountType' /\ WakeType' /\ PulseType' /\ CallType' /\ ArgType'
    BY <1>36 DEF Deflate, TypeOK, CountType, WakeType, PulseType, CallType,
       ArgType
  <2>2. LockType' BY <1>36 DEF Deflate, TypeOK, LockType, CallType, PointerInv
  <2>3. LabelType' BY <1>36 DEF Deflate, TypeOK, LabelType, Labels
  <2>4. PointerInv'
    BY <1>36 DEF Deflate, TypeOK, PointerInv, LabelType, LockType, CallType
  <2> QED BY <2>1, <2>2, <2>3, <2>4 DEF TypeOK
<1>37. ASSUME NEW t \in Threads, FlushReset(t)
      PROVE  TypeOK' /\ PointerInv'
  <2>1. LockType' /\ CountType' /\ PulseType' /\ CallType' /\ ArgType'
    BY <1>37 DEF FlushReset, TypeOK, LockType, CountType, PulseType, CallType,
       ArgType
  <2>2. WakeType'
    BY <1>37 DEF FlushReset, TypeOK, WakeType, CallType, ConstantsAssumption
  <2>3. LabelType' BY <1>37 DEF FlushReset, TypeOK, LabelType, Labels
  <2>4. PointerInv'
    BY <1>37 DEF FlushReset, TypeOK, PointerInv, LabelType, LockType, CallType
  <2> QED BY <2>1, <2>2, <2>3, <2>4 DEF TypeOK
<1>38. ASSUME NEW t \in Threads, FlushTest(t)
      PROVE  TypeOK' /\ PointerInv'
  <2>1. LockType' /\ CountType' /\ WakeType' /\ PulseType' /\ CallType' /\ ArgType'
    BY <1>38 DEF FlushTest, TypeOK, LockType, CountType, WakeType, PulseType,
       CallType, ArgType
  <2>2. LabelType' BY <1>38 DEF FlushTest, TypeOK, LabelType, Labels
  <2>3. PointerInv'
    BY <1>38 DEF FlushTest, TypeOK, PointerInv, LabelType, LockType, CallType
  <2> QED BY <2>1, <2>2, <2>3 DEF TypeOK
<1>39. ASSUME NEW t \in Threads, FlushPost(t)
      PROVE  TypeOK' /\ PointerInv'
  <2>1. LockType' /\ CountType' /\ PulseType' /\ CallType' /\ ArgType'
    BY <1>39 DEF FlushPost, TypeOK, LockType, CountType, PulseType, CallType,
       ArgType
  <2>2. WakeType'
    <3>1. Cardinality(readyList[installedMonitor[t]]) \in Nat
      <4>1. installedMonitor[t] \in Monitors
        BY <1>39 DEF FlushPost, PointerInv
      <4> QED BY <4>1, FS_Subset, FS_CardinalityType
              DEF TypeOK, WakeType, ConstantsAssumption
    <3> QED BY <1>39, <3>1 DEF FlushPost, TypeOK, WakeType, PointerInv,
                              ConstantsAssumption
  <2>3. LabelType' BY <1>39 DEF FlushPost, TypeOK, LabelType, Labels
  <2>4. PointerInv'
    BY <1>39 DEF FlushPost, TypeOK, PointerInv, LabelType, LockType, CallType
  <2> QED BY <2>1, <2>2, <2>3, <2>4 DEF TypeOK
<1>40. ASSUME NEW t \in Threads, FlushWait(t)
      PROVE  TypeOK' /\ PointerInv'
  <2>1. LockType' /\ CountType' /\ PulseType' /\ CallType' /\ ArgType'
    BY <1>40 DEF FlushWait, TypeOK, LockType, CountType, PulseType, CallType,
       ArgType
  <2>2. WakeType'
    BY <1>40 DEF FlushWait, TypeOK, WakeType, CallType, ConstantsAssumption
  <2>3. LabelType' BY <1>40 DEF FlushWait, TypeOK, LabelType, Labels
  <2>4. PointerInv'
    BY <1>40 DEF FlushWait, TypeOK, PointerInv, LabelType, LockType, CallType
  <2> QED BY <2>1, <2>2, <2>3, <2>4 DEF TypeOK
<1>41. ASSUME NEW t \in Threads, Free(t)
      PROVE  TypeOK' /\ PointerInv'
  <2>1. CountType' /\ WakeType' /\ PulseType' /\ ArgType'
    BY <1>41 DEF Free, TypeOK, CountType, WakeType, PulseType, ArgType
  <2>2. LockType' BY <1>41 DEF Free, TypeOK, LockType, CallType, PointerInv
  <2>3. CallType' BY <1>41 DEF Free, TypeOK, CallType, LockType, ArgType
  <2>4. LabelType' BY <1>41 DEF Free, TypeOK, LabelType, Labels
  <2>5. PointerInv'
    BY <1>41 DEF Free, TypeOK, PointerInv, LabelType, LockType, CallType
  <2> QED BY <2>1, <2>2, <2>3, <2>4, <2>5 DEF TypeOK
<1>42. ASSUME NEW t \in Threads, Pulsed(t)
      PROVE  TypeOK' /\ PointerInv'
  <2>1. LockType' /\ CountType' /\ WakeType' /\ CallType'
    BY <1>42 DEF Pulsed, TypeOK, LockType, CountType, WakeType, CallType
  <2>2. PulseType' BY <1>42 DEF Pulsed, TypeOK, PulseType
  <2>3. ArgType' BY <1>42 DEF Pulsed, TypeOK, ArgType
  <2>4. LabelType' BY <1>42 DEF Pulsed, TypeOK, LabelType, Labels
  <2>5. PointerInv'
    BY <1>42 DEF Pulsed, TypeOK, PointerInv, LabelType, LockType, CallType
  <2> QED BY <2>1, <2>2, <2>3, <2>4, <2>5 DEF TypeOK
<1>43. ASSUME NEW t \in Threads, WaitTimeOut(t)
      PROVE  TypeOK' /\ PointerInv'
  <2>1. LockType' /\ CountType' /\ WakeType' /\ PulseType' /\ CallType'
    BY <1>43 DEF WaitTimeOut, TypeOK, LockType, CountType, WakeType,
       PulseType, CallType
  <2>2. ArgType' BY <1>43 DEF WaitTimeOut, TypeOK, ArgType
  <2>3. LabelType' BY <1>43 DEF WaitTimeOut, TypeOK, LabelType, Labels
  <2>4. PointerInv'
    BY <1>43 DEF WaitTimeOut, TypeOK, PointerInv, LabelType, LockType,
       CallType
  <2> QED BY <2>1, <2>2, <2>3, <2>4 DEF TypeOK
<1>44. ASSUME NEW t \in Threads, Reacquired(t)
      PROVE  TypeOK' /\ PointerInv'
  <2>1. LockType' /\ WakeType'
    BY <1>44 DEF Reacquired, TypeOK, LockType, WakeType
  <2>2. CountType'
    BY <1>44 DEF Reacquired, TypeOK, CountType, LockType, ArgType
  <2>3. PulseType'
    <3>1. \A m \in Monitors :
             RemoveFromPulseWaitingList(threadsWaitingForPulse[m], t)
                \in Seq(Threads)
      BY PulseListType DEF TypeOK, PulseType
    <3> QED BY <1>44, <3>1 DEF Reacquired, TypeOK, PulseType
  <2>4. CallType' BY <1>44 DEF Reacquired, TypeOK, CallType, LockType, ArgType
  <2>5. ArgType' BY <1>44 DEF Reacquired, TypeOK, ArgType
  <2>6. LabelType' BY <1>44 DEF Reacquired, TypeOK, LabelType, Labels
  <2>7. PointerInv'
    BY <1>44 DEF Reacquired, TypeOK, PointerInv, LabelType, LockType, CallType
  <2> QED BY <2>1, <2>2, <2>3, <2>4, <2>5, <2>6, <2>7 DEF TypeOK
<1>45. ASSUME NEW t \in Threads, InterruptEnter(t)
      PROVE  TypeOK' /\ PointerInv'
  <2>1. LockType' /\ CountType' /\ PulseType'
    BY <1>45 DEF InterruptEnter, TypeOK, LockType, CountType, PulseType
  <2>2. WakeType'
    BY <1>45 DEF InterruptEnter, TypeOK, WakeType, CallType,
       ConstantsAssumption
  <2>3. CallType'
    BY <1>45 DEF InterruptEnter, TypeOK, CallType, LockType, ArgType
  <2>4. ArgType' BY <1>45 DEF InterruptEnter, TypeOK, ArgType
  <2>5. LabelType' BY <1>45 DEF InterruptEnter, TypeOK, LabelType, Labels
  <2>6. PointerInv'
    BY <1>45 DEF InterruptEnter, TypeOK, PointerInv, LabelType, LockType,
       CallType
  <2> QED BY <2>1, <2>2, <2>3, <2>4, <2>5, <2>6 DEF TypeOK
<1>46. ASSUME NEW t \in Threads, AbortEnter(t)
      PROVE  TypeOK' /\ PointerInv'
  <2>1. LockType' /\ WakeType' /\ PulseType'
    BY <1>46 DEF AbortEnter, TypeOK, LockType, WakeType, PulseType
  <2>2. CountType'
    BY <1>46 DEF AbortEnter, TypeOK, CountType, LockType, ArgType
  <2>3. CallType' BY <1>46 DEF AbortEnter, TypeOK, CallType, LockType, ArgType
  <2>4. ArgType' BY <1>46 DEF AbortEnter, TypeOK, ArgType
  <2>5. LabelType' BY <1>46 DEF AbortEnter, TypeOK, LabelType, Labels
  <2>6. PointerInv'
    BY <1>46 DEF AbortEnter, TypeOK, PointerInv, LabelType, LockType, CallType
  <2> QED BY <2>1, <2>2, <2>3, <2>4, <2>5, <2>6 DEF TypeOK
<1>47. ASSUME NEW t \in Threads, InterruptWait(t)
      PROVE  TypeOK' /\ PointerInv'
  <2>1. LockType' /\ CountType' /\ WakeType' /\ PulseType' /\ CallType'
    BY <1>47 DEF InterruptWait, TypeOK, LockType, CountType, WakeType,
       PulseType, CallType
  <2>2. ArgType' BY <1>47 DEF InterruptWait, TypeOK, ArgType
  <2>3. LabelType' BY <1>47 DEF InterruptWait, TypeOK, LabelType, Labels
  <2>4. PointerInv'
    BY <1>47 DEF InterruptWait, TypeOK, PointerInv, LabelType, LockType,
       CallType
  <2> QED BY <2>1, <2>2, <2>3, <2>4 DEF TypeOK
<1>48. CASE UNCHANGED vars
  BY <1>48 DEF
    vars, TypeOK, LockType, CountType, WakeType, PulseType, LabelType,
       CallType, ArgType, PointerInv
<1> QED
  BY <1>1, <1>2, <1>3, <1>4, <1>5, <1>6, <1>7, <1>8, <1>9, <1>10, <1>11,
     <1>12, <1>13, <1>14, <1>15, <1>16, <1>17, <1>18, <1>19, <1>20, <1>21,
     <1>22, <1>23, <1>24, <1>25, <1>26, <1>27, <1>28, <1>29, <1>30, <1>31,
     <1>32, <1>33, <1>34, <1>35, <1>36, <1>37, <1>38, <1>39, <1>40, <1>41,
     <1>42, <1>43, <1>44, <1>45, <1>46, <1>47, <1>48 DEF Next, Call, Step,
     Throw, Exit, EnterStep, TimeoutStep, ExitStep, WaitStep

\* Every variable keeps its type: for all clients, timeouts and exceptions.
THEOREM TypeCorrect == Spec => []TypeOK
<1>1. TypeOK /\ PointerInv /\ [Next]_vars => TypeOK' /\ PointerInv'
  BY TypeStep
<1> QED BY TypeInit, <1>1, PTL DEF Spec

----------------------------------------------------------------------------
(* The inductive invariant, and what follows from it.                       *)
LEMMA IInvInit == Init => IInv
<1> SUFFICES ASSUME Init PROVE IInv
  OBVIOUS
<1>1. TypeOK /\ PointerInv
  BY TypeInit
<1>2. \A t \in Threads, o \in Objects : ~HoldsLock(t, o)
  BY DEF Init, HoldsLock
<1>3. NoThrowInv /\ CallInv /\ AttachInv /\ CountInv
  BY ConstantsAssumption
     DEF Init, NoThrowInv, CallInv, AttachInv, CountInv, EnterLabels,
         ConstantsAssumption
<1>4. HoldInv /\ OwnerInv
  BY <1>2, ConstantsAssumption DEF Init, HoldInv, OwnerInv, ConstantsAssumption
<1>5. OwnerLabelsInv /\ OutsideInv /\ ReadyInv /\ HandshakeInv
  BY DEF Init, OwnerLabelsInv, OutsideInv, ReadyInv, HandshakeInv,
         OwnerLabels, ExitLabels, FlushLabels, OutsideLabels, EnterLabels
<1> QED BY <1>1, <1>3, <1>4, <1>5 DEF IInv

\* A call the monitor accepts between calls comes from the lock's holder.
LEMMA CallerHolds ==
  ASSUME IInv, NEW t \in Threads, NEW o \in Objects,
         pc[t] \in {"Idle", "Unwind"}, LockedByCurrentThread(t, o)
  PROVE  /\ pc[t] = "Idle"
         /\ monitor[o] \in Monitors
         /\ owningThreadId[monitor[o]] = t
         /\ ~waiting[t]
         /\ HoldsLock(t, o)
         /\ recursiveLockingCount[monitor[o]] = held[t][o]
<1>1. pc[t] = "Idle" /\ ~waiting[t]
  BY DEF IInv, NoThrowInv, CallInv
<1>2. monitor[o] \in Monitors /\ owningThreadId[monitor[o]] = t
  BY DEF IInv, TypeOK, LockType, NoThrowInv, LockedByCurrentThread
<1>3. PICK p \in Objects : monitor[p] = monitor[o] /\ HoldsLock(t, p)
  BY <1>1, <1>2 DEF IInv, OwnerInv, OwnerLabels, ExitLabels, FlushLabels
<1>4. p = o
  BY <1>2, <1>3, ConstantsAssumption
     DEF IInv, AttachInv, ConstantsAssumption
<1> QED BY <1>1, <1>2, <1>3, <1>4 DEF IInv, HoldInv

\* A step of a thread that is not flushing cannot break another's handshake.
LEMMA HandshakeFrame ==
  ASSUME IInv, NEW t \in Threads,
         \A u \in Threads \ {t} : /\ pc'[u] = pc[u] /\ object'[u] = object[u]
                                  /\ installedMonitor'[u] = installedMonitor[u],
         pc[t] \notin FlushLabels,
         pc'[t] \notin {"Grab", "SemWait"},
         \A o \in Objects : monitor[o] # NULL => monitor'[o] = monitor[o]
  PROVE  HandshakeInv'
<1> SUFFICES ASSUME NEW u \in Threads, pc'[u] \in {"Grab", "SemWait"}
             PROVE  \/ Attached(u)'
                    \/ \E w \in Threads :
                          /\ pc'[w] \in FlushLabels
                          /\ installedMonitor'[w] = installedMonitor'[u]
  BY DEF HandshakeInv
<1>1. u # t /\ pc[u] \in {"Grab", "SemWait"}
  OBVIOUS
<1>2. CASE Attached(u)
  <2>1. object[u] \in Objects /\ installedMonitor[u] # NULL
    BY <1>1, ConstantsAssumption
       DEF IInv, PointerInv, MonitorLabels, ConstantsAssumption
  <2> QED BY <1>1, <1>2, <2>1 DEF Attached
<1>3. CASE \E w \in Threads : /\ pc[w] \in FlushLabels
                               /\ installedMonitor[w] = installedMonitor[u]
  BY <1>1, <1>3
<1> QED BY <1>1, <1>2, <1>3 DEF IInv, HandshakeInv

LEMMA IInvStep ==
  ASSUME QuietClient, IInv, [Next]_vars
  PROVE  IInv'
<1> USE ConstantsAssumption
<1> USE DEF At, Goto, SetOwner, CanAcquire, Unacquire, lockv, countv, wakev,
            pulsev, argv, callv, EnterReturnsTrue, EnterFails, ExitReturns,
            ReturnToFreeList, AddToReadyList, RemoveFromReadyList, Reenter,
            HoldsLock, Attached, EnterLabels, MonitorLabels, FlushLabels,
            ExitLabels, OwnerLabels, OutsideLabels, LockType, LabelType,
            CallType, ArgType, PointerInv, QuietClient
<1>T. TypeOK' /\ PointerInv'
  BY TypeStep DEF IInv
<1>1. LockType /\ CountType /\ WakeType /\ LabelType /\ CallType /\ ArgType
  BY DEF IInv, TypeOK
<1>2. ASSUME NEW t \in Threads, NEW o \in Objects,
             NEW ms \in EnterTimeouts, Enter(t, o, ms)
      PROVE  IInv'
  <2>1. NoThrowInv' BY <1>1, <1>2 DEF Enter, IInv, NoThrowInv
  <2>2. CallInv' BY <1>1, <1>2 DEF Enter, IInv, CallInv, NoThrowInv
  <2>3. AttachInv' BY <1>1, <1>2 DEF Enter, IInv, AttachInv, OwnerLabelsInv
  <2>4. HoldInv'
    BY <1>1, <1>2 DEF Enter, IInv, HoldInv, OwnerLabelsInv, AttachInv,
       CallInv, OutsideInv, CountType
  <2>5. OwnerInv'
    BY <1>1, <1>2 DEF Enter, IInv, OwnerInv, OwnerLabelsInv, AttachInv,
       CallInv, HoldInv
  <2>6. OwnerLabelsInv'
    BY <1>1, <1>2 DEF Enter, IInv, OwnerLabelsInv, AttachInv, CallInv,
       CountInv
  <2>7. CountInv'
    BY <1>1, <1>2 DEF Enter, IInv, CountInv, OwnerLabelsInv, CallInv,
       CountType
  <2>8. OutsideInv'
    BY <1>1, <1>2 DEF Enter, IInv, OutsideInv, OwnerLabelsInv, HoldInv,
       CallInv
  <2>9. ReadyInv' BY <1>1, <1>2 DEF Enter, IInv, ReadyInv, WakeType
  <2>10. HandshakeInv'
    BY <1>1, <1>2 DEF Enter, IInv, HandshakeInv, OwnerLabelsInv
  <2> QED
    BY <1>T, <2>1, <2>2, <2>3, <2>4, <2>5, <2>6, <2>7, <2>8, <2>9, <2>10 DEF
       IInv
<1>3. ASSUME NEW t \in Threads, NEW o \in Objects, ExitRecursive(t, o)
      PROVE  IInv'
  <2>1. /\ pc[t] = "Idle" /\ ~waiting[t]
        /\ monitor[o] \in Monitors /\ owningThreadId[monitor[o]] = t
        /\ HoldsLock(t, o)
        /\ recursiveLockingCount[monitor[o]] = held[t][o]
    BY <1>3, CallerHolds DEF ExitRecursive
  <2>2. NoThrowInv' BY <1>1, <1>3, <2>1 DEF ExitRecursive, IInv, NoThrowInv
  <2>3. CallInv'
    BY <1>1, <1>3, <2>1 DEF ExitRecursive, IInv, CallInv, NoThrowInv
  <2>4. AttachInv'
    BY <1>1, <1>3, <2>1 DEF ExitRecursive, IInv, AttachInv, OwnerLabelsInv
  <2>5. HoldInv'
    BY <1>1, <1>3, <2>1 DEF ExitRecursive, IInv, HoldInv, OwnerLabelsInv,
       AttachInv, CallInv, OutsideInv, CountType
  <2>6. OwnerInv'
    BY <1>1, <1>3, <2>1 DEF ExitRecursive, IInv, OwnerInv, OwnerLabelsInv,
       AttachInv, CallInv, HoldInv
  <2>7. OwnerLabelsInv'
    BY <1>1, <1>3, <2>1 DEF ExitRecursive, IInv, OwnerLabelsInv, AttachInv,
       CallInv, CountInv
  <2>8. CountInv'
    BY <1>1, <1>3, <2>1 DEF ExitRecursive, IInv, CountInv, OwnerLabelsInv,
       CallInv, CountType
  <2>9. OutsideInv'
    BY <1>1, <1>3, <2>1 DEF ExitRecursive, IInv, OutsideInv, OwnerLabelsInv,
       HoldInv, CallInv
  <2>10. ReadyInv'
    BY <1>1, <1>3, <2>1 DEF ExitRecursive, IInv, ReadyInv, WakeType
  <2>11. HandshakeInv'
    BY <1>1, <1>3, <2>1 DEF ExitRecursive, IInv, HandshakeInv, OwnerLabelsInv
  <2> QED
    BY <1>T, <2>2, <2>3, <2>4, <2>5, <2>6, <2>7, <2>8, <2>9, <2>10, <2>11 DEF
       IInv
<1>4. ASSUME NEW t \in Threads, NEW o \in Objects, ExitLast(t, o)
      PROVE  IInv'
  <2>1. /\ pc[t] = "Idle" /\ ~waiting[t]
        /\ monitor[o] \in Monitors /\ owningThreadId[monitor[o]] = t
        /\ HoldsLock(t, o)
        /\ recursiveLockingCount[monitor[o]] = held[t][o]
    BY <1>4, CallerHolds DEF ExitLast
  <2>2. NoThrowInv' BY <1>1, <1>4, <2>1 DEF ExitLast, IInv, NoThrowInv
  <2>3. CallInv' BY <1>1, <1>4, <2>1 DEF ExitLast, IInv, CallInv, NoThrowInv
  <2>4. AttachInv'
    BY <1>1, <1>4, <2>1 DEF ExitLast, IInv, AttachInv, OwnerLabelsInv
  <2>5. HoldInv'
    BY <1>1, <1>4, <2>1 DEF ExitLast, IInv, HoldInv, OwnerLabelsInv,
       AttachInv, CallInv, OutsideInv, CountType
  <2>6. OwnerInv'
    BY <1>1, <1>4, <2>1 DEF ExitLast, IInv, OwnerInv, OwnerLabelsInv,
       AttachInv, CallInv, HoldInv
  <2>7. OwnerLabelsInv'
    BY <1>1, <1>4, <2>1 DEF ExitLast, IInv, OwnerLabelsInv, AttachInv,
       CallInv, CountInv
  <2>8. CountInv'
    BY <1>1, <1>4, <2>1 DEF ExitLast, IInv, CountInv, OwnerLabelsInv, CallInv,
       CountType
  <2>9. OutsideInv'
    BY <1>1, <1>4, <2>1 DEF ExitLast, IInv, OutsideInv, AttachInv, HoldInv,
       CountType
  <2>10. ReadyInv' BY <1>1, <1>4, <2>1 DEF ExitLast, IInv, ReadyInv, WakeType
  <2>11. HandshakeInv'
    BY <1>1, <1>4, <2>1 DEF ExitLast, IInv, HandshakeInv, OwnerLabelsInv
  <2> QED
    BY <1>T, <2>2, <2>3, <2>4, <2>5, <2>6, <2>7, <2>8, <2>9, <2>10, <2>11 DEF
       IInv
<1>5. ASSUME NEW t \in Threads, NEW o \in Objects,
             NEW ms \in WaitTimeouts, Wait(t, o, ms)
      PROVE  IInv'
  <2>1. /\ pc[t] = "Idle" /\ ~waiting[t]
        /\ monitor[o] \in Monitors /\ owningThreadId[monitor[o]] = t
        /\ HoldsLock(t, o)
        /\ recursiveLockingCount[monitor[o]] = held[t][o]
    BY <1>5, CallerHolds DEF Wait
  <2>2. NoThrowInv' BY <1>1, <1>5, <2>1 DEF Wait, IInv, NoThrowInv
  <2>3. CallInv' BY <1>1, <1>5, <2>1 DEF Wait, IInv, CallInv, NoThrowInv
  <2>4. AttachInv'
    BY <1>1, <1>5, <2>1 DEF Wait, IInv, AttachInv, OwnerLabelsInv
  <2>5. HoldInv'
    BY <1>1, <1>5, <2>1 DEF Wait, IInv, HoldInv, OwnerLabelsInv, AttachInv,
       CallInv, OutsideInv, CountType
  <2>6. OwnerInv'
    BY <1>1, <1>5, <2>1 DEF Wait, IInv, OwnerInv, OwnerLabelsInv, AttachInv,
       CallInv, HoldInv
  <2>7. OwnerLabelsInv'
    BY <1>1, <1>5, <2>1 DEF Wait, IInv, OwnerLabelsInv, CountInv, CountType
  <2>8. CountInv'
    BY <1>1, <1>5, <2>1 DEF Wait, IInv, CountInv, OwnerLabelsInv, CallInv,
       CountType
  <2>9. OutsideInv'
    BY <1>1, <1>5, <2>1 DEF Wait, IInv, OutsideInv, AttachInv, HoldInv
  <2>10. ReadyInv' BY <1>1, <1>5, <2>1 DEF Wait, IInv, ReadyInv, WakeType
  <2>11. HandshakeInv'
    BY <1>1, <1>5, <2>1, HandshakeFrame DEF Wait, IInv
  <2> QED
    BY <1>T, <2>2, <2>3, <2>4, <2>5, <2>6, <2>7, <2>8, <2>9, <2>10, <2>11 DEF
       IInv
<1>6. ASSUME NEW t \in Threads, NEW o \in Objects,
             NEW all \in BOOLEAN, PulseMonitor(t, o, all)
      PROVE  IInv'
  <2>1. NoThrowInv' BY <1>1, <1>6 DEF PulseMonitor, IInv, NoThrowInv
  <2>2. CallInv' BY <1>1, <1>6 DEF PulseMonitor, IInv, CallInv, NoThrowInv
  <2>3. AttachInv'
    BY <1>1, <1>6 DEF PulseMonitor, IInv, AttachInv, OwnerLabelsInv
  <2>4. HoldInv'
    BY <1>1, <1>6 DEF PulseMonitor, IInv, HoldInv, OwnerLabelsInv, AttachInv,
       CallInv, OutsideInv, CountType
  <2>5. OwnerInv'
    BY <1>1, <1>6 DEF PulseMonitor, IInv, OwnerInv, OwnerLabelsInv, AttachInv,
       CallInv, HoldInv
  <2>6. OwnerLabelsInv'
    BY <1>1, <1>6 DEF PulseMonitor, IInv, OwnerLabelsInv, AttachInv, CallInv,
       CountInv
  <2>7. CountInv'
    BY <1>1, <1>6 DEF PulseMonitor, IInv, CountInv, OwnerLabelsInv, CallInv,
       CountType
  <2>8. OutsideInv'
    BY <1>1, <1>6 DEF PulseMonitor, IInv, OutsideInv, OwnerLabelsInv, HoldInv,
       CallInv
  <2>9. ReadyInv' BY <1>1, <1>6 DEF PulseMonitor, IInv, ReadyInv, WakeType
  <2>10. HandshakeInv'
    BY <1>1, <1>6 DEF PulseMonitor, IInv, HandshakeInv, OwnerLabelsInv
  <2> QED
    BY <1>T, <2>1, <2>2, <2>3, <2>4, <2>5, <2>6, <2>7, <2>8, <2>9, <2>10 DEF
       IInv
<1>7. ASSUME NEW t \in Threads, ReadMonitor(t)
      PROVE  IInv'
  <2>1. NoThrowInv' BY <1>1, <1>7 DEF ReadMonitor, IInv, NoThrowInv
  <2>2. CallInv' BY <1>1, <1>7 DEF ReadMonitor, IInv, CallInv, NoThrowInv
  <2>3. AttachInv'
    BY <1>1, <1>7 DEF ReadMonitor, IInv, AttachInv, OwnerLabelsInv
  <2>4. HoldInv'
    BY <1>1, <1>7 DEF ReadMonitor, IInv, HoldInv, OwnerLabelsInv, AttachInv,
       CallInv, OutsideInv, CountType
  <2>5. OwnerInv'
    BY <1>1, <1>7 DEF ReadMonitor, IInv, OwnerInv, OwnerLabelsInv, AttachInv,
       CallInv, HoldInv
  <2>6. OwnerLabelsInv'
    BY <1>1, <1>7 DEF ReadMonitor, IInv, OwnerLabelsInv, AttachInv, CallInv,
       CountInv
  <2>7. CountInv'
    BY <1>1, <1>7 DEF ReadMonitor, IInv, CountInv, OwnerLabelsInv, CallInv,
       CountType
  <2>8. OutsideInv'
    BY <1>1, <1>7 DEF ReadMonitor, IInv, OutsideInv, OwnerLabelsInv, HoldInv,
       CallInv
  <2>9. ReadyInv' BY <1>1, <1>7 DEF ReadMonitor, IInv, ReadyInv, WakeType
  <2>10. HandshakeInv'
    BY <1>1, <1>7 DEF ReadMonitor, IInv, HandshakeInv, OwnerLabelsInv
  <2> QED
    BY <1>T, <2>1, <2>2, <2>3, <2>4, <2>5, <2>6, <2>7, <2>8, <2>9, <2>10 DEF
       IInv
<1>8. ASSUME NEW t \in Threads, Allocate(t)
      PROVE  IInv'
  <2>1. NoThrowInv' BY <1>1, <1>8 DEF Allocate, IInv, NoThrowInv
  <2>2. CallInv' BY <1>1, <1>8 DEF Allocate, IInv, CallInv, NoThrowInv
  <2>3. AttachInv' BY <1>1, <1>8 DEF Allocate, IInv, AttachInv, OwnerLabelsInv
  <2>4. HoldInv'
    BY <1>1, <1>8 DEF Allocate, IInv, HoldInv, OwnerLabelsInv, AttachInv,
       CallInv, OutsideInv, CountType
  <2>5. OwnerInv'
    BY <1>1, <1>8 DEF Allocate, IInv, OwnerInv, OwnerLabelsInv, AttachInv,
       CallInv, HoldInv
  <2>6. OwnerLabelsInv'
    BY <1>1, <1>8 DEF Allocate, IInv, OwnerLabelsInv, AttachInv, CallInv,
       CountInv
  <2>7. CountInv'
    BY <1>1, <1>8 DEF Allocate, IInv, CountInv, OwnerLabelsInv, CallInv,
       CountType
  <2>8. OutsideInv' BY <1>1, <1>8 DEF Allocate, IInv, OutsideInv, AttachInv
  <2>9. ReadyInv' BY <1>1, <1>8 DEF Allocate, IInv, ReadyInv, WakeType
  <2>10. HandshakeInv'
    BY <1>1, <1>8, HandshakeFrame DEF Allocate, IInv
  <2> QED
    BY <1>T, <2>1, <2>2, <2>3, <2>4, <2>5, <2>6, <2>7, <2>8, <2>9, <2>10 DEF
       IInv
<1>9. ASSUME NEW t \in Threads, Install(t)
      PROVE  IInv'
  <2>1. NoThrowInv' BY <1>1, <1>9 DEF Install, IInv, NoThrowInv
  <2>2. CallInv' BY <1>1, <1>9 DEF Install, IInv, CallInv, NoThrowInv
  <2>3. AttachInv' BY <1>1, <1>9 DEF Install, IInv, AttachInv, OwnerLabelsInv
  <2>4. HoldInv'
    BY <1>1, <1>9 DEF Install, IInv, HoldInv, OwnerLabelsInv, AttachInv,
       CallInv, OutsideInv, CountType
  <2>5. OwnerInv'
    <3> SUFFICES ASSUME NEW u \in Threads, NEW m \in Monitors,
                        owningThreadId[m] = u
                 PROVE  \/ \E p \in Objects : monitor'[p] = m
                                                /\ HoldsLock(u, p)'
                        \/ pc'[u] \in OwnerLabels /\ installedMonitor'[u] = m
                        \/ pc'[u] = "Reacquired" /\ monitor'[object'[u]] = m
      BY <1>9 DEF Install, OwnerInv
    <3>1. CASE u = t /\ m = installedMonitor[t]
      BY <1>1, <1>9, <3>1 DEF Install, IInv
    <3>2. CASE ~(u = t /\ m = installedMonitor[t])
      <4>1. CASE \E p \in Objects : monitor[p] = m /\ HoldsLock(u, p)
        BY <1>1, <1>9, <4>1 DEF Install, IInv
      <4>2. CASE u # t
        BY <1>1, <1>9, <4>2 DEF Install, IInv, OwnerInv
      <4> QED BY <1>1, <1>9, <3>2, <4>1, <4>2 DEF Install, IInv, OwnerInv
    <3> QED BY <3>1, <3>2
  <2>6. OwnerLabelsInv'
    BY <1>1, <1>9 DEF Install, IInv, OwnerLabelsInv, AttachInv, CallInv,
       CountInv
  <2>7. CountInv'
    BY <1>1, <1>9 DEF Install, IInv, CountInv, OwnerLabelsInv, CallInv,
       CountType
  <2>8. OutsideInv'
    BY <1>1, <1>9 DEF Install, IInv, OutsideInv, OwnerLabelsInv, HoldInv,
       CallInv
  <2>9. ReadyInv' BY <1>1, <1>9 DEF Install, IInv, ReadyInv, WakeType
  <2>10. HandshakeInv'
    BY <1>1, <1>9, HandshakeFrame DEF Install, IInv
  <2> QED
    BY <1>T, <2>1, <2>2, <2>3, <2>4, <2>5, <2>6, <2>7, <2>8, <2>9, <2>10 DEF
       IInv
<1>10. ASSUME NEW t \in Threads, InstallLost(t)
      PROVE  IInv'
  <2>1. NoThrowInv' BY <1>1, <1>10 DEF InstallLost, IInv, NoThrowInv
  <2>2. CallInv' BY <1>1, <1>10 DEF InstallLost, IInv, CallInv, NoThrowInv
  <2>3. AttachInv'
    BY <1>1, <1>10 DEF InstallLost, IInv, AttachInv, OwnerLabelsInv
  <2>4. HoldInv'
    BY <1>1, <1>10 DEF InstallLost, IInv, HoldInv, OwnerLabelsInv, AttachInv,
       CallInv, OutsideInv, CountType
  <2>5. OwnerInv'
    BY <1>1, <1>10 DEF InstallLost, IInv, OwnerInv, OwnerLabelsInv, AttachInv,
       CallInv, HoldInv
  <2>6. OwnerLabelsInv'
    BY <1>1, <1>10 DEF InstallLost, IInv, OwnerLabelsInv, AttachInv, CallInv,
       CountInv
  <2>7. CountInv'
    BY <1>1, <1>10 DEF InstallLost, IInv, CountInv, OwnerLabelsInv, CallInv,
       CountType
  <2>8. OutsideInv'
    BY <1>1, <1>10 DEF InstallLost, IInv, OutsideInv, OwnerLabelsInv, HoldInv,
       CallInv
  <2>9. ReadyInv' BY <1>1, <1>10 DEF InstallLost, IInv, ReadyInv, WakeType
  <2>10. HandshakeInv'
    BY <1>1, <1>10, HandshakeFrame DEF InstallLost, IInv
  <2> QED
    BY <1>T, <2>1, <2>2, <2>3, <2>4, <2>5, <2>6, <2>7, <2>8, <2>9, <2>10 DEF
       IInv
<1>11. ASSUME NEW t \in Threads, LockRecursively(t)
      PROVE  IInv'
  <2>1. ~waiting[t] /\ Attached(t) /\ HoldsLock(t, object[t])
    <3>1. Attached(t) /\ installedMonitor[t] \in Monitors
      BY <1>11 DEF LockRecursively, IInv, OutsideInv
    <3>2. PICK o \in Objects : monitor[o] = installedMonitor[t]
                                 /\ HoldsLock(t, o)
      BY <1>11, <3>1 DEF LockRecursively, IInv, OwnerInv
    <3>3. o = object[t]
      BY <1>11, <3>1, <3>2 DEF LockRecursively, IInv, AttachInv
    <3> QED BY <3>1, <3>2, <3>3
  <2>2. NoThrowInv' BY <1>1, <1>11, <2>1 DEF LockRecursively, IInv, NoThrowInv
  <2>3. CallInv'
    BY <1>1, <1>11, <2>1 DEF LockRecursively, IInv, CallInv, NoThrowInv
  <2>4. AttachInv'
    BY <1>1, <1>11, <2>1 DEF LockRecursively, IInv, AttachInv, OwnerLabelsInv
  <2>5. HoldInv'
    <3> SUFFICES ASSUME NEW u \in Threads, NEW p \in Objects, HoldsLock(u, p)'
                 PROVE  /\ monitor[p] # NULL /\ owningThreadId[monitor[p]] = u
                        /\ recursiveLockingCount'[monitor[p]] = held'[u][p]
      BY <1>11 DEF LockRecursively, HoldInv
    <3>1. CASE u = t /\ p = object[t]
      BY <1>1, <1>11, <2>1, <3>1 DEF LockRecursively, IInv, HoldInv, CountType
    <3>2. CASE ~(u = t /\ p = object[t])
      <4>1. HoldsLock(u, p) /\ held'[u][p] = held[u][p]
        BY <1>1, <1>11, <2>1, <3>2 DEF LockRecursively, IInv
      <4>2. monitor[p] # installedMonitor[t]
        BY <1>1, <1>11, <2>1, <3>2, <4>1 DEF LockRecursively, IInv, HoldInv, AttachInv
      <4> QED BY <1>1, <1>11, <2>1, <4>1, <4>2 DEF LockRecursively, IInv, HoldInv, CountType
    <3> QED BY <3>1, <3>2
  <2>6. OwnerInv'
    BY <1>1, <1>11, <2>1 DEF LockRecursively, IInv, OwnerInv, OwnerLabelsInv,
       AttachInv, CallInv, HoldInv
  <2>7. OwnerLabelsInv'
    BY <1>1, <1>11, <2>1 DEF LockRecursively, IInv, OwnerLabelsInv, AttachInv,
       CallInv, CountInv
  <2>8. CountInv'
    BY <1>1, <1>11, <2>1 DEF LockRecursively, IInv, CountInv, OwnerLabelsInv,
       CallInv, CountType
  <2>9. OutsideInv'
    BY <1>1, <1>11, <2>1 DEF LockRecursively, IInv, OutsideInv,
       OwnerLabelsInv, HoldInv, CallInv
  <2>10. ReadyInv'
    BY <1>1, <1>11, <2>1 DEF LockRecursively, IInv, ReadyInv, WakeType
  <2>11. HandshakeInv'
    BY <1>1, <1>11, <2>1 DEF LockRecursively, IInv, HandshakeInv,
       OwnerLabelsInv
  <2> QED
    BY <1>T, <2>2, <2>3, <2>4, <2>5, <2>6, <2>7, <2>8, <2>9, <2>10, <2>11 DEF
       IInv
<1>12. ASSUME NEW t \in Threads, TryAcquire(t)
      PROVE  IInv'
  <2>1. NoThrowInv' BY <1>1, <1>12 DEF TryAcquire, IInv, NoThrowInv
  <2>2. CallInv' BY <1>1, <1>12 DEF TryAcquire, IInv, CallInv, NoThrowInv
  <2>3. AttachInv'
    BY <1>1, <1>12 DEF TryAcquire, IInv, AttachInv, OwnerLabelsInv
  <2>4. HoldInv'
    BY <1>1, <1>12 DEF TryAcquire, IInv, HoldInv, OwnerLabelsInv, AttachInv,
       CallInv, OutsideInv, CountType
  <2>5. OwnerInv'
    BY <1>1, <1>12 DEF TryAcquire, IInv, OwnerInv, OwnerLabelsInv, AttachInv,
       CallInv, HoldInv
  <2>6. OwnerLabelsInv'
    BY <1>1, <1>12 DEF TryAcquire, IInv, OwnerLabelsInv, AttachInv, CallInv,
       CountInv
  <2>7. CountInv'
    BY <1>1, <1>12 DEF TryAcquire, IInv, CountInv, OwnerLabelsInv, CallInv,
       CountType
  <2>8. OutsideInv'
    BY <1>1, <1>12 DEF TryAcquire, IInv, OutsideInv, OwnerLabelsInv, HoldInv,
       CallInv
  <2>9. ReadyInv' BY <1>1, <1>12 DEF TryAcquire, IInv, ReadyInv, WakeType
  <2>10. HandshakeInv'
    BY <1>1, <1>12 DEF TryAcquire, IInv, HandshakeInv, OwnerLabelsInv
  <2> QED
    BY <1>T, <2>1, <2>2, <2>3, <2>4, <2>5, <2>6, <2>7, <2>8, <2>9, <2>10 DEF
       IInv
<1>13. ASSUME NEW t \in Threads, Recheck(t)
      PROVE  IInv'
  <2>1. NoThrowInv' BY <1>1, <1>13 DEF Recheck, IInv, NoThrowInv
  <2>2. CallInv' BY <1>1, <1>13 DEF Recheck, IInv, CallInv, NoThrowInv
  <2>3. AttachInv' BY <1>1, <1>13 DEF Recheck, IInv, AttachInv, OwnerLabelsInv
  <2>4. HoldInv'
    BY <1>1, <1>13 DEF Recheck, IInv, HoldInv, OwnerLabelsInv, AttachInv,
       CallInv, OutsideInv, CountType
  <2>5. OwnerInv'
    BY <1>1, <1>13 DEF Recheck, IInv, OwnerInv, OwnerLabelsInv, AttachInv,
       CallInv, HoldInv
  <2>6. OwnerLabelsInv'
    BY <1>1, <1>13 DEF Recheck, IInv, OwnerLabelsInv, AttachInv, CallInv,
       CountInv
  <2>7. CountInv'
    BY <1>1, <1>13 DEF Recheck, IInv, CountInv, OwnerLabelsInv, CallInv,
       CountType
  <2>8. OutsideInv'
    BY <1>1, <1>13 DEF Recheck, IInv, OutsideInv, OwnerLabelsInv, HoldInv,
       CallInv
  <2>9. ReadyInv' BY <1>1, <1>13 DEF Recheck, IInv, ReadyInv, WakeType
  <2>10. HandshakeInv'
    BY <1>1, <1>13 DEF Recheck, IInv, HandshakeInv, OwnerLabelsInv
  <2> QED
    BY <1>T, <2>1, <2>2, <2>3, <2>4, <2>5, <2>6, <2>7, <2>8, <2>9, <2>10 DEF
       IInv
<1>14. ASSUME NEW t \in Threads, RecheckFails(t)
      PROVE  IInv'
  <2>1. NoThrowInv' BY <1>1, <1>14 DEF RecheckFails, IInv, NoThrowInv
  <2>2. CallInv' BY <1>1, <1>14 DEF RecheckFails, IInv, CallInv, NoThrowInv
  <2>3. AttachInv'
    BY <1>1, <1>14 DEF RecheckFails, IInv, AttachInv, OwnerLabelsInv
  <2>4. HoldInv'
    BY <1>1, <1>14 DEF RecheckFails, IInv, HoldInv, OwnerLabelsInv, AttachInv,
       CallInv, OutsideInv, CountType
  <2>5. OwnerInv'
    BY <1>1, <1>14 DEF RecheckFails, IInv, OwnerInv, OwnerLabelsInv,
       AttachInv, CallInv, HoldInv
  <2>6. OwnerLabelsInv'
    BY <1>1, <1>14 DEF RecheckFails, IInv, OwnerLabelsInv, AttachInv, CallInv,
       CountInv
  <2>7. CountInv'
    BY <1>1, <1>14 DEF RecheckFails, IInv, CountInv, OwnerLabelsInv, CallInv,
       CountType
  <2>8. OutsideInv'
    BY <1>1, <1>14 DEF RecheckFails, IInv, OutsideInv, OwnerLabelsInv,
       HoldInv, CallInv
  <2>9. ReadyInv' BY <1>1, <1>14 DEF RecheckFails, IInv, ReadyInv, WakeType
  <2>10. HandshakeInv'
    BY <1>1, <1>14 DEF RecheckFails, IInv, HandshakeInv, OwnerLabelsInv
  <2> QED
    BY <1>T, <2>1, <2>2, <2>3, <2>4, <2>5, <2>6, <2>7, <2>8, <2>9, <2>10 DEF
       IInv
<1>15. ASSUME NEW t \in Threads, Backout(t)
      PROVE  IInv'
  <2>1. NoThrowInv' BY <1>1, <1>15 DEF Backout, IInv, NoThrowInv
  <2>2. CallInv' BY <1>1, <1>15 DEF Backout, IInv, CallInv, NoThrowInv
  <2>3. AttachInv' BY <1>1, <1>15 DEF Backout, IInv, AttachInv, OwnerLabelsInv
  <2>4. HoldInv'
    BY <1>1, <1>15 DEF Backout, IInv, HoldInv, OwnerLabelsInv, AttachInv,
       CallInv, OutsideInv, CountType
  <2>5. OwnerInv'
    BY <1>1, <1>15 DEF Backout, IInv, OwnerInv, OwnerLabelsInv, AttachInv,
       CallInv, HoldInv
  <2>6. OwnerLabelsInv'
    BY <1>1, <1>15 DEF Backout, IInv, OwnerLabelsInv, AttachInv, CallInv,
       CountInv
  <2>7. CountInv'
    BY <1>1, <1>15 DEF Backout, IInv, CountInv, OwnerLabelsInv, CallInv,
       CountType
  <2>8. OutsideInv'
    BY <1>1, <1>15 DEF Backout, IInv, OutsideInv, OwnerLabelsInv, HoldInv,
       CallInv
  <2>9. ReadyInv' BY <1>1, <1>15 DEF Backout, IInv, ReadyInv, WakeType
  <2>10. HandshakeInv'
    BY <1>1, <1>15 DEF Backout, IInv, HandshakeInv, OwnerLabelsInv
  <2> QED
    BY <1>T, <2>1, <2>2, <2>3, <2>4, <2>5, <2>6, <2>7, <2>8, <2>9, <2>10 DEF
       IInv
<1>16. ASSUME NEW t \in Threads, FailAtOnce(t)
      PROVE  IInv'
  <2>1. NoThrowInv' BY <1>1, <1>16 DEF FailAtOnce, IInv, NoThrowInv, CallInv
  <2>2. CallInv' BY <1>1, <1>16 DEF FailAtOnce, IInv, CallInv, NoThrowInv
  <2>3. AttachInv'
    BY <1>1, <1>16 DEF FailAtOnce, IInv, AttachInv, OwnerLabelsInv
  <2>4. HoldInv'
    BY <1>1, <1>16 DEF FailAtOnce, IInv, HoldInv, OwnerLabelsInv, AttachInv,
       CallInv, OutsideInv, CountType
  <2>5. OwnerInv'
    BY <1>1, <1>16 DEF FailAtOnce, IInv, OwnerInv, OwnerLabelsInv, AttachInv,
       CallInv, HoldInv
  <2>6. OwnerLabelsInv'
    BY <1>1, <1>16 DEF FailAtOnce, IInv, OwnerLabelsInv, AttachInv, CallInv,
       CountInv
  <2>7. CountInv'
    BY <1>1, <1>16 DEF FailAtOnce, IInv, CountInv, OwnerLabelsInv, CallInv,
       CountType
  <2>8. OutsideInv'
    BY <1>1, <1>16 DEF FailAtOnce, IInv, OutsideInv, OwnerLabelsInv, HoldInv,
       CallInv
  <2>9. ReadyInv' BY <1>1, <1>16 DEF FailAtOnce, IInv, ReadyInv, WakeType
  <2>10. HandshakeInv'
    BY <1>1, <1>16, HandshakeFrame DEF FailAtOnce, IInv
  <2> QED
    BY <1>T, <2>1, <2>2, <2>3, <2>4, <2>5, <2>6, <2>7, <2>8, <2>9, <2>10 DEF
       IInv
<1>17. ASSUME NEW t \in Threads, QueueUp(t)
      PROVE  IInv'
  <2>1. NoThrowInv' BY <1>1, <1>17 DEF QueueUp, IInv, NoThrowInv
  <2>2. CallInv' BY <1>1, <1>17 DEF QueueUp, IInv, CallInv, NoThrowInv
  <2>3. AttachInv' BY <1>1, <1>17 DEF QueueUp, IInv, AttachInv, OwnerLabelsInv
  <2>4. HoldInv'
    BY <1>1, <1>17 DEF QueueUp, IInv, HoldInv, OwnerLabelsInv, AttachInv,
       CallInv, OutsideInv, CountType
  <2>5. OwnerInv'
    BY <1>1, <1>17 DEF QueueUp, IInv, OwnerInv, OwnerLabelsInv, AttachInv,
       CallInv, HoldInv
  <2>6. OwnerLabelsInv'
    BY <1>1, <1>17 DEF QueueUp, IInv, OwnerLabelsInv, AttachInv, CallInv,
       CountInv
  <2>7. CountInv'
    BY <1>1, <1>17 DEF QueueUp, IInv, CountInv, OwnerLabelsInv, CallInv,
       CountType
  <2>8. OutsideInv'
    BY <1>1, <1>17 DEF QueueUp, IInv, OutsideInv, OwnerLabelsInv, HoldInv,
       CallInv
  <2>9. ReadyInv' BY <1>1, <1>17 DEF QueueUp, IInv, ReadyInv, WakeType
  <2>10. HandshakeInv'
    BY <1>1, <1>17 DEF QueueUp, IInv, HandshakeInv, OwnerLabelsInv
  <2> QED
    BY <1>T, <2>1, <2>2, <2>3, <2>4, <2>5, <2>6, <2>7, <2>8, <2>9, <2>10 DEF
       IInv
<1>18. ASSUME NEW t \in Threads, GetReady(t)
      PROVE  IInv'
  <2>1. NoThrowInv' BY <1>1, <1>18 DEF GetReady, IInv, NoThrowInv
  <2>2. CallInv' BY <1>1, <1>18 DEF GetReady, IInv, CallInv, NoThrowInv
  <2>3. AttachInv'
    BY <1>1, <1>18 DEF GetReady, IInv, AttachInv, OwnerLabelsInv
  <2>4. HoldInv'
    BY <1>1, <1>18 DEF GetReady, IInv, HoldInv, OwnerLabelsInv, AttachInv,
       CallInv, OutsideInv, CountType
  <2>5. OwnerInv'
    BY <1>1, <1>18 DEF GetReady, IInv, OwnerInv, OwnerLabelsInv, AttachInv,
       CallInv, HoldInv
  <2>6. OwnerLabelsInv'
    BY <1>1, <1>18 DEF GetReady, IInv, OwnerLabelsInv, AttachInv, CallInv,
       CountInv
  <2>7. CountInv'
    BY <1>1, <1>18 DEF GetReady, IInv, CountInv, OwnerLabelsInv, CallInv,
       CountType
  <2>8. OutsideInv'
    BY <1>1, <1>18 DEF GetReady, IInv, OutsideInv, OwnerLabelsInv, HoldInv,
       CallInv
  <2>9. ReadyInv' BY <1>1, <1>18 DEF GetReady, IInv, ReadyInv, WakeType
  <2>10. HandshakeInv'
    BY <1>1, <1>18 DEF GetReady, IInv, HandshakeInv, OwnerLabelsInv
  <2> QED
    BY <1>T, <2>1, <2>2, <2>3, <2>4, <2>5, <2>6, <2>7, <2>8, <2>9, <2>10 DEF
       IInv
<1>19. ASSUME NEW t \in Threads, TestAttached(t)
      PROVE  IInv'
  <2>1. NoThrowInv' BY <1>1, <1>19 DEF TestAttached, IInv, NoThrowInv
  <2>2. CallInv' BY <1>1, <1>19 DEF TestAttached, IInv, CallInv, NoThrowInv
  <2>3. AttachInv'
    BY <1>1, <1>19 DEF TestAttached, IInv, AttachInv, OwnerLabelsInv
  <2>4. HoldInv'
    BY <1>1, <1>19 DEF TestAttached, IInv, HoldInv, OwnerLabelsInv, AttachInv,
       CallInv, OutsideInv, CountType
  <2>5. OwnerInv'
    BY <1>1, <1>19 DEF TestAttached, IInv, OwnerInv, OwnerLabelsInv,
       AttachInv, CallInv, HoldInv
  <2>6. OwnerLabelsInv'
    BY <1>1, <1>19 DEF TestAttached, IInv, OwnerLabelsInv, AttachInv, CallInv,
       CountInv
  <2>7. CountInv'
    BY <1>1, <1>19 DEF TestAttached, IInv, CountInv, OwnerLabelsInv, CallInv,
       CountType
  <2>8. OutsideInv'
    BY <1>1, <1>19 DEF TestAttached, IInv, OutsideInv, OwnerLabelsInv,
       HoldInv, CallInv
  <2>9. ReadyInv' BY <1>1, <1>19 DEF TestAttached, IInv, ReadyInv, WakeType
  <2>10. HandshakeInv'
    BY <1>1, <1>19 DEF TestAttached, IInv, HandshakeInv, OwnerLabelsInv
  <2> QED
    BY <1>T, <2>1, <2>2, <2>3, <2>4, <2>5, <2>6, <2>7, <2>8, <2>9, <2>10 DEF
       IInv
<1>20. ASSUME NEW t \in Threads, Grab(t)
      PROVE  IInv'
  <2>1. Attached(t)
    BY <1>1, <1>20 DEF Grab, IInv, HandshakeInv, OwnerLabelsInv
  <2>2. NoThrowInv' BY <1>1, <1>20, <2>1 DEF Grab, IInv, NoThrowInv
  <2>3. CallInv' BY <1>1, <1>20, <2>1 DEF Grab, IInv, CallInv, NoThrowInv
  <2>4. AttachInv'
    BY <1>1, <1>20, <2>1 DEF Grab, IInv, AttachInv, OwnerLabelsInv
  <2>5. HoldInv'
    BY <1>1, <1>20, <2>1 DEF Grab, IInv, HoldInv, OwnerLabelsInv, AttachInv,
       CallInv, OutsideInv, CountType
  <2>6. OwnerInv'
    BY <1>1, <1>20, <2>1 DEF Grab, IInv, OwnerInv, OwnerLabelsInv, AttachInv,
       CallInv, HoldInv
  <2>7. OwnerLabelsInv'
    BY <1>1, <1>20, <2>1 DEF Grab, IInv, OwnerLabelsInv, AttachInv, CallInv,
       CountInv
  <2>8. CountInv'
    BY <1>1, <1>20, <2>1 DEF Grab, IInv, CountInv, OwnerLabelsInv, CallInv,
       CountType
  <2>9. OutsideInv'
    BY <1>1, <1>20, <2>1 DEF Grab, IInv, OutsideInv, OwnerLabelsInv, HoldInv,
       CallInv
  <2>10. ReadyInv' BY <1>1, <1>20, <2>1 DEF Grab, IInv, ReadyInv, WakeType
  <2>11. HandshakeInv'
    BY <1>1, <1>20, <2>1 DEF Grab, IInv, HandshakeInv, OwnerLabelsInv
  <2> QED
    BY <1>T, <2>2, <2>3, <2>4, <2>5, <2>6, <2>7, <2>8, <2>9, <2>10, <2>11 DEF
       IInv
<1>21. ASSUME NEW t \in Threads, GrabFails(t)
      PROVE  IInv'
  <2>1. NoThrowInv' BY <1>1, <1>21 DEF GrabFails, IInv, NoThrowInv
  <2>2. CallInv' BY <1>1, <1>21 DEF GrabFails, IInv, CallInv, NoThrowInv
  <2>3. AttachInv'
    BY <1>1, <1>21 DEF GrabFails, IInv, AttachInv, OwnerLabelsInv
  <2>4. HoldInv'
    BY <1>1, <1>21 DEF GrabFails, IInv, HoldInv, OwnerLabelsInv, AttachInv,
       CallInv, OutsideInv, CountType
  <2>5. OwnerInv'
    BY <1>1, <1>21 DEF GrabFails, IInv, OwnerInv, OwnerLabelsInv, AttachInv,
       CallInv, HoldInv
  <2>6. OwnerLabelsInv'
    BY <1>1, <1>21 DEF GrabFails, IInv, OwnerLabelsInv, AttachInv, CallInv,
       CountInv
  <2>7. CountInv'
    BY <1>1, <1>21 DEF GrabFails, IInv, CountInv, OwnerLabelsInv, CallInv,
       CountType
  <2>8. OutsideInv'
    BY <1>1, <1>21 DEF GrabFails, IInv, OutsideInv, OwnerLabelsInv, HoldInv,
       CallInv
  <2>9. ReadyInv' BY <1>1, <1>21 DEF GrabFails, IInv, ReadyInv, WakeType
  <2>10. HandshakeInv'
    BY <1>1, <1>21 DEF GrabFails, IInv, HandshakeInv, OwnerLabelsInv
  <2> QED
    BY <1>T, <2>1, <2>2, <2>3, <2>4, <2>5, <2>6, <2>7, <2>8, <2>9, <2>10 DEF
       IInv
<1>22. ASSUME NEW t \in Threads, Unready(t)
      PROVE  IInv'
  <2>1. NoThrowInv' BY <1>1, <1>22 DEF Unready, IInv, NoThrowInv
  <2>2. CallInv' BY <1>1, <1>22 DEF Unready, IInv, CallInv, NoThrowInv
  <2>3. AttachInv' BY <1>1, <1>22 DEF Unready, IInv, AttachInv, OwnerLabelsInv
  <2>4. HoldInv'
    BY <1>1, <1>22 DEF Unready, IInv, HoldInv, OwnerLabelsInv, AttachInv,
       CallInv, OutsideInv, CountType
  <2>5. OwnerInv'
    BY <1>1, <1>22 DEF Unready, IInv, OwnerInv, OwnerLabelsInv, AttachInv,
       CallInv, HoldInv
  <2>6. OwnerLabelsInv'
    BY <1>1, <1>22 DEF Unready, IInv, OwnerLabelsInv, AttachInv, CallInv,
       CountInv
  <2>7. CountInv'
    BY <1>1, <1>22 DEF Unready, IInv, CountInv, OwnerLabelsInv, CallInv,
       CountType
  <2>8. OutsideInv'
    BY <1>1, <1>22 DEF Unready, IInv, OutsideInv, OwnerLabelsInv, HoldInv,
       CallInv
  <2>9. ReadyInv' BY <1>1, <1>22 DEF Unready, IInv, ReadyInv, WakeType
  <2>10. HandshakeInv'
    BY <1>1, <1>22 DEF Unready, IInv, HandshakeInv, OwnerLabelsInv
  <2> QED
    BY <1>T, <2>1, <2>2, <2>3, <2>4, <2>5, <2>6, <2>7, <2>8, <2>9, <2>10 DEF
       IInv
<1>23. ASSUME NEW t \in Threads, Wake(t)
      PROVE  IInv'
  <2>1. NoThrowInv' BY <1>1, <1>23 DEF Wake, IInv, NoThrowInv
  <2>2. CallInv' BY <1>1, <1>23 DEF Wake, IInv, CallInv, NoThrowInv
  <2>3. AttachInv' BY <1>1, <1>23 DEF Wake, IInv, AttachInv, OwnerLabelsInv
  <2>4. HoldInv'
    BY <1>1, <1>23 DEF Wake, IInv, HoldInv, OwnerLabelsInv, AttachInv,
       CallInv, OutsideInv, CountType
  <2>5. OwnerInv'
    BY <1>1, <1>23 DEF Wake, IInv, OwnerInv, OwnerLabelsInv, AttachInv,
       CallInv, HoldInv
  <2>6. OwnerLabelsInv'
    BY <1>1, <1>23 DEF Wake, IInv, OwnerLabelsInv, AttachInv, CallInv,
       CountInv
  <2>7. CountInv'
    BY <1>1, <1>23 DEF Wake, IInv, CountInv, OwnerLabelsInv, CallInv,
       CountType
  <2>8. OutsideInv'
    BY <1>1, <1>23 DEF Wake, IInv, OutsideInv, OwnerLabelsInv, HoldInv,
       CallInv
  <2>9. ReadyInv' BY <1>1, <1>23 DEF Wake, IInv, ReadyInv, WakeType
  <2>10. HandshakeInv'
    BY <1>1, <1>23 DEF Wake, IInv, HandshakeInv, OwnerLabelsInv
  <2> QED
    BY <1>T, <2>1, <2>2, <2>3, <2>4, <2>5, <2>6, <2>7, <2>8, <2>9, <2>10 DEF
       IInv
<1>24. ASSUME NEW t \in Threads, Vacate(t)
      PROVE  IInv'
  <2>1. NoThrowInv' BY <1>1, <1>24 DEF Vacate, IInv, NoThrowInv
  <2>2. CallInv' BY <1>1, <1>24 DEF Vacate, IInv, CallInv, NoThrowInv
  <2>3. AttachInv' BY <1>1, <1>24 DEF Vacate, IInv, AttachInv, OwnerLabelsInv
  <2>4. HoldInv'
    BY <1>1, <1>24 DEF Vacate, IInv, HoldInv, OwnerLabelsInv, AttachInv,
       CallInv, OutsideInv, CountType
  <2>5. OwnerInv'
    BY <1>1, <1>24 DEF Vacate, IInv, OwnerInv, OwnerLabelsInv, AttachInv,
       CallInv, HoldInv
  <2>6. OwnerLabelsInv'
    BY <1>1, <1>24 DEF Vacate, IInv, OwnerLabelsInv, AttachInv, CallInv,
       CountInv
  <2>7. CountInv'
    BY <1>1, <1>24 DEF Vacate, IInv, CountInv, OwnerLabelsInv, CallInv,
       CountType
  <2>8. OutsideInv'
    BY <1>1, <1>24 DEF Vacate, IInv, OutsideInv, OwnerLabelsInv, HoldInv,
       CallInv
  <2>9. ReadyInv' BY <1>1, <1>24 DEF Vacate, IInv, ReadyInv, WakeType
  <2>10. HandshakeInv'
    BY <1>1, <1>24 DEF Vacate, IInv, HandshakeInv, OwnerLabelsInv
  <2> QED
    BY <1>T, <2>1, <2>2, <2>3, <2>4, <2>5, <2>6, <2>7, <2>8, <2>9, <2>10 DEF
       IInv
<1>25. ASSUME NEW t \in Threads, Acknowledge(t)
      PROVE  IInv'
  <2>1. NoThrowInv' BY <1>1, <1>25 DEF Acknowledge, IInv, NoThrowInv
  <2>2. CallInv' BY <1>1, <1>25 DEF Acknowledge, IInv, CallInv, NoThrowInv
  <2>3. AttachInv'
    BY <1>1, <1>25 DEF Acknowledge, IInv, AttachInv, OwnerLabelsInv
  <2>4. HoldInv'
    BY <1>1, <1>25 DEF Acknowledge, IInv, HoldInv, OwnerLabelsInv, AttachInv,
       CallInv, OutsideInv, CountType
  <2>5. OwnerInv'
    BY <1>1, <1>25 DEF Acknowledge, IInv, OwnerInv, OwnerLabelsInv, AttachInv,
       CallInv, HoldInv
  <2>6. OwnerLabelsInv'
    BY <1>1, <1>25 DEF Acknowledge, IInv, OwnerLabelsInv, AttachInv, CallInv,
       CountInv
  <2>7. CountInv'
    BY <1>1, <1>25 DEF Acknowledge, IInv, CountInv, OwnerLabelsInv, CallInv,
       CountType
  <2>8. OutsideInv'
    BY <1>1, <1>25 DEF Acknowledge, IInv, OutsideInv, OwnerLabelsInv, HoldInv,
       CallInv
  <2>9. ReadyInv' BY <1>1, <1>25 DEF Acknowledge, IInv, ReadyInv, WakeType
  <2>10. HandshakeInv'
    BY <1>1, <1>25 DEF Acknowledge, IInv, HandshakeInv, OwnerLabelsInv
  <2> QED
    BY <1>T, <2>1, <2>2, <2>3, <2>4, <2>5, <2>6, <2>7, <2>8, <2>9, <2>10 DEF
       IInv
<1>26. ASSUME NEW t \in Threads, ExitReady(t)
      PROVE  IInv'
  <2>1. NoThrowInv' BY <1>1, <1>26 DEF ExitReady, IInv, NoThrowInv
  <2>2. CallInv' BY <1>1, <1>26 DEF ExitReady, IInv, CallInv, NoThrowInv
  <2>3. AttachInv'
    BY <1>1, <1>26 DEF ExitReady, IInv, AttachInv, OwnerLabelsInv
  <2>4. HoldInv'
    BY <1>1, <1>26 DEF ExitReady, IInv, HoldInv, OwnerLabelsInv, AttachInv,
       CallInv, OutsideInv, CountType
  <2>5. OwnerInv'
    BY <1>1, <1>26 DEF ExitReady, IInv, OwnerInv, OwnerLabelsInv, AttachInv,
       CallInv, HoldInv
  <2>6. OwnerLabelsInv'
    BY <1>1, <1>26 DEF ExitReady, IInv, OwnerLabelsInv, AttachInv, CallInv,
       CountInv
  <2>7. CountInv'
    BY <1>1, <1>26 DEF ExitReady, IInv, CountInv, OwnerLabelsInv, CallInv,
       CountType
  <2>8. OutsideInv'
    BY <1>1, <1>26 DEF ExitReady, IInv, OutsideInv, OwnerLabelsInv, HoldInv,
       CallInv
  <2>9. ReadyInv' BY <1>1, <1>26 DEF ExitReady, IInv, ReadyInv, WakeType
  <2>10. HandshakeInv'
    BY <1>1, <1>26 DEF ExitReady, IInv, HandshakeInv, OwnerLabelsInv
  <2> QED
    BY <1>T, <2>1, <2>2, <2>3, <2>4, <2>5, <2>6, <2>7, <2>8, <2>9, <2>10 DEF
       IInv
<1>27. ASSUME NEW t \in Threads, Handoff(t)
      PROVE  IInv'
  <2>1. NoThrowInv' BY <1>1, <1>27 DEF Handoff, IInv, NoThrowInv
  <2>2. CallInv' BY <1>1, <1>27 DEF Handoff, IInv, CallInv, NoThrowInv
  <2>3. AttachInv' BY <1>1, <1>27 DEF Handoff, IInv, AttachInv, OwnerLabelsInv
  <2>4. HoldInv'
    BY <1>1, <1>27 DEF Handoff, IInv, HoldInv, OwnerLabelsInv, AttachInv,
       CallInv, OutsideInv, CountType
  <2>5. OwnerInv'
    BY <1>1, <1>27 DEF Handoff, IInv, OwnerInv, OwnerLabelsInv, AttachInv,
       CallInv, HoldInv
  <2>6. OwnerLabelsInv'
    BY <1>1, <1>27 DEF Handoff, IInv, OwnerLabelsInv, AttachInv, CallInv,
       CountInv
  <2>7. CountInv'
    BY <1>1, <1>27 DEF Handoff, IInv, CountInv, OwnerLabelsInv, CallInv,
       CountType
  <2>8. OutsideInv'
    BY <1>1, <1>27 DEF Handoff, IInv, OutsideInv, OwnerLabelsInv, HoldInv,
       CallInv
  <2>9. ReadyInv' BY <1>1, <1>27 DEF Handoff, IInv, ReadyInv, WakeType
  <2>10. HandshakeInv'
    BY <1>1, <1>27 DEF Handoff, IInv, HandshakeInv, OwnerLabelsInv
  <2> QED
    BY <1>T, <2>1, <2>2, <2>3, <2>4, <2>5, <2>6, <2>7, <2>8, <2>9, <2>10 DEF
       IInv
<1>28. ASSUME NEW t \in Threads, PostOne(t)
      PROVE  IInv'
  <2>1. NoThrowInv' BY <1>1, <1>28 DEF PostOne, IInv, NoThrowInv
  <2>2. CallInv' BY <1>1, <1>28 DEF PostOne, IInv, CallInv, NoThrowInv
  <2>3. AttachInv' BY <1>1, <1>28 DEF PostOne, IInv, AttachInv, OwnerLabelsInv
  <2>4. HoldInv'
    BY <1>1, <1>28 DEF PostOne, IInv, HoldInv, OwnerLabelsInv, AttachInv,
       CallInv, OutsideInv, CountType
  <2>5. OwnerInv'
    BY <1>1, <1>28 DEF PostOne, IInv, OwnerInv, OwnerLabelsInv, AttachInv,
       CallInv, HoldInv
  <2>6. OwnerLabelsInv'
    BY <1>1, <1>28 DEF PostOne, IInv, OwnerLabelsInv, AttachInv, CallInv,
       CountInv
  <2>7. CountInv'
    BY <1>1, <1>28 DEF PostOne, IInv, CountInv, OwnerLabelsInv, CallInv,
       CountType
  <2>8. OutsideInv'
    BY <1>1, <1>28 DEF PostOne, IInv, OutsideInv, OwnerLabelsInv, HoldInv,
       CallInv
  <2>9. ReadyInv' BY <1>1, <1>28 DEF PostOne, IInv, ReadyInv, WakeType
  <2>10. HandshakeInv'
    BY <1>1, <1>28 DEF PostOne, IInv, HandshakeInv, OwnerLabelsInv
  <2> QED
    BY <1>T, <2>1, <2>2, <2>3, <2>4, <2>5, <2>6, <2>7, <2>8, <2>9, <2>10 DEF
       IInv
<1>29. ASSUME NEW t \in Threads, ExitPulse(t)
      PROVE  IInv'
  <2>1. NoThrowInv' BY <1>1, <1>29 DEF ExitPulse, IInv, NoThrowInv
  <2>2. CallInv' BY <1>1, <1>29 DEF ExitPulse, IInv, CallInv, NoThrowInv
  <2>3. AttachInv'
    BY <1>1, <1>29 DEF ExitPulse, IInv, AttachInv, OwnerLabelsInv
  <2>4. HoldInv'
    BY <1>1, <1>29 DEF ExitPulse, IInv, HoldInv, OwnerLabelsInv, AttachInv,
       CallInv, OutsideInv, CountType
  <2>5. OwnerInv'
    BY <1>1, <1>29 DEF ExitPulse, IInv, OwnerInv, OwnerLabelsInv, AttachInv,
       CallInv, HoldInv
  <2>6. OwnerLabelsInv'
    BY <1>1, <1>29 DEF ExitPulse, IInv, OwnerLabelsInv, AttachInv, CallInv,
       CountInv
  <2>7. CountInv'
    BY <1>1, <1>29 DEF ExitPulse, IInv, CountInv, OwnerLabelsInv, CallInv,
       CountType
  <2>8. OutsideInv'
    BY <1>1, <1>29 DEF ExitPulse, IInv, OutsideInv, OwnerLabelsInv, HoldInv,
       CallInv
  <2>9. ReadyInv' BY <1>1, <1>29 DEF ExitPulse, IInv, ReadyInv, WakeType
  <2>10. HandshakeInv'
    BY <1>1, <1>29, HandshakeFrame DEF ExitPulse, IInv
  <2> QED
    BY <1>T, <2>1, <2>2, <2>3, <2>4, <2>5, <2>6, <2>7, <2>8, <2>9, <2>10 DEF
       IInv
<1>30. ASSUME NEW t \in Threads, Yield(t)
      PROVE  IInv'
  <2>1. NoThrowInv' BY <1>1, <1>30 DEF Yield, IInv, NoThrowInv
  <2>2. CallInv' BY <1>1, <1>30 DEF Yield, IInv, CallInv, NoThrowInv
  <2>3. AttachInv' BY <1>1, <1>30 DEF Yield, IInv, AttachInv, OwnerLabelsInv
  <2>4. HoldInv'
    BY <1>1, <1>30 DEF Yield, IInv, HoldInv, OwnerLabelsInv, AttachInv,
       CallInv, OutsideInv, CountType
  <2>5. OwnerInv'
    BY <1>1, <1>30 DEF Yield, IInv, OwnerInv, OwnerLabelsInv, AttachInv,
       CallInv, HoldInv
  <2>6. OwnerLabelsInv'
    BY <1>1, <1>30 DEF Yield, IInv, OwnerLabelsInv, AttachInv, CallInv,
       CountInv
  <2>7. CountInv'
    BY <1>1, <1>30 DEF Yield, IInv, CountInv, OwnerLabelsInv, CallInv,
       CountType
  <2>8. OutsideInv'
    BY <1>1, <1>30 DEF Yield, IInv, OutsideInv, OwnerLabelsInv, HoldInv,
       CallInv
  <2>9. ReadyInv' BY <1>1, <1>30 DEF Yield, IInv, ReadyInv, WakeType
  <2>10. HandshakeInv'
    BY <1>1, <1>30 DEF Yield, IInv, HandshakeInv, OwnerLabelsInv
  <2> QED
    BY <1>T, <2>1, <2>2, <2>3, <2>4, <2>5, <2>6, <2>7, <2>8, <2>9, <2>10 DEF
       IInv
<1>31. ASSUME NEW t \in Threads, Repost(t)
      PROVE  IInv'
  <2>1. NoThrowInv' BY <1>1, <1>31 DEF Repost, IInv, NoThrowInv
  <2>2. CallInv' BY <1>1, <1>31 DEF Repost, IInv, CallInv, NoThrowInv
  <2>3. AttachInv' BY <1>1, <1>31 DEF Repost, IInv, AttachInv, OwnerLabelsInv
  <2>4. HoldInv'
    BY <1>1, <1>31 DEF Repost, IInv, HoldInv, OwnerLabelsInv, AttachInv,
       CallInv, OutsideInv, CountType
  <2>5. OwnerInv'
    BY <1>1, <1>31 DEF Repost, IInv, OwnerInv, OwnerLabelsInv, AttachInv,
       CallInv, HoldInv
  <2>6. OwnerLabelsInv'
    BY <1>1, <1>31 DEF Repost, IInv, OwnerLabelsInv, AttachInv, CallInv,
       CountInv
  <2>7. CountInv'
    BY <1>1, <1>31 DEF Repost, IInv, CountInv, OwnerLabelsInv, CallInv,
       CountType
  <2>8. OutsideInv'
    BY <1>1, <1>31 DEF Repost, IInv, OutsideInv, OwnerLabelsInv, HoldInv,
       CallInv
  <2>9. ReadyInv' BY <1>1, <1>31 DEF Repost, IInv, ReadyInv, WakeType
  <2>10. HandshakeInv'
    <3>1. pc' = [pc EXCEPT ![t] = pc'[t]] /\ pc'[t] \notin {"Grab", "SemWait"}
      BY <1>1, <1>31 DEF Repost
    <3> QED BY <1>1, <1>31, <3>1, HandshakeFrame DEF Repost, IInv
  <2> QED
    BY <1>T, <2>1, <2>2, <2>3, <2>4, <2>5, <2>6, <2>7, <2>8, <2>9, <2>10 DEF
       IInv
<1>32. ASSUME NEW t \in Threads, Deflate(t)
      PROVE  IInv'
  <2>1. NoThrowInv' BY <1>1, <1>32 DEF Deflate, IInv, NoThrowInv
  <2>2. CallInv' BY <1>1, <1>32 DEF Deflate, IInv, CallInv, NoThrowInv
  <2>3. AttachInv' BY <1>1, <1>32 DEF Deflate, IInv, AttachInv, OwnerLabelsInv
  <2>4. HoldInv'
    BY <1>1, <1>32 DEF Deflate, IInv, HoldInv, OwnerLabelsInv, AttachInv,
       CallInv, OutsideInv, CountType
  <2>5. OwnerInv'
    BY <1>1, <1>32 DEF Deflate, IInv, OwnerInv, OwnerLabelsInv, AttachInv,
       CallInv, HoldInv
  <2>6. OwnerLabelsInv'
    BY <1>1, <1>32 DEF Deflate, IInv, OwnerLabelsInv, AttachInv, CallInv,
       CountInv
  <2>7. CountInv'
    BY <1>1, <1>32 DEF Deflate, IInv, CountInv, OwnerLabelsInv, CallInv,
       CountType
  <2>8. OutsideInv'
    BY <1>1, <1>32 DEF Deflate, IInv, OutsideInv, OwnerLabelsInv, HoldInv,
       CallInv
  <2>9. ReadyInv' BY <1>1, <1>32 DEF Deflate, IInv, ReadyInv, WakeType
  <2>10. HandshakeInv'
    BY <1>1, <1>32 DEF Deflate, IInv, HandshakeInv, OwnerLabelsInv
  <2> QED
    BY <1>T, <2>1, <2>2, <2>3, <2>4, <2>5, <2>6, <2>7, <2>8, <2>9, <2>10 DEF
       IInv
<1>33. ASSUME NEW t \in Threads, FlushReset(t)
      PROVE  IInv'
  <2>1. NoThrowInv' BY <1>1, <1>33 DEF FlushReset, IInv, NoThrowInv
  <2>2. CallInv' BY <1>1, <1>33 DEF FlushReset, IInv, CallInv, NoThrowInv
  <2>3. AttachInv'
    BY <1>1, <1>33 DEF FlushReset, IInv, AttachInv, OwnerLabelsInv
  <2>4. HoldInv'
    BY <1>1, <1>33 DEF FlushReset, IInv, HoldInv, OwnerLabelsInv, AttachInv,
       CallInv, OutsideInv, CountType
  <2>5. OwnerInv'
    BY <1>1, <1>33 DEF FlushReset, IInv, OwnerInv, OwnerLabelsInv, AttachInv,
       CallInv, HoldInv
  <2>6. OwnerLabelsInv'
    BY <1>1, <1>33 DEF FlushReset, IInv, OwnerLabelsInv, AttachInv, CallInv,
       CountInv
  <2>7. CountInv'
    BY <1>1, <1>33 DEF FlushReset, IInv, CountInv, OwnerLabelsInv, CallInv,
       CountType
  <2>8. OutsideInv'
    BY <1>1, <1>33 DEF FlushReset, IInv, OutsideInv, OwnerLabelsInv, HoldInv,
       CallInv
  <2>9. ReadyInv' BY <1>1, <1>33 DEF FlushReset, IInv, ReadyInv, WakeType
  <2>10. HandshakeInv'
    BY <1>1, <1>33 DEF FlushReset, IInv, HandshakeInv, OwnerLabelsInv
  <2> QED
    BY <1>T, <2>1, <2>2, <2>3, <2>4, <2>5, <2>6, <2>7, <2>8, <2>9, <2>10 DEF
       IInv
<1>34. ASSUME NEW t \in Threads, FlushTest(t)
      PROVE  IInv'
  <2>1. NoThrowInv' BY <1>1, <1>34 DEF FlushTest, IInv, NoThrowInv
  <2>2. CallInv' BY <1>1, <1>34 DEF FlushTest, IInv, CallInv, NoThrowInv
  <2>3. AttachInv'
    BY <1>1, <1>34 DEF FlushTest, IInv, AttachInv, OwnerLabelsInv
  <2>4. HoldInv'
    BY <1>1, <1>34 DEF FlushTest, IInv, HoldInv, OwnerLabelsInv, AttachInv,
       CallInv, OutsideInv, CountType
  <2>5. OwnerInv'
    BY <1>1, <1>34 DEF FlushTest, IInv, OwnerInv, OwnerLabelsInv, AttachInv,
       CallInv, HoldInv
  <2>6. OwnerLabelsInv'
    BY <1>1, <1>34 DEF FlushTest, IInv, OwnerLabelsInv, AttachInv, CallInv,
       CountInv
  <2>7. CountInv'
    BY <1>1, <1>34 DEF FlushTest, IInv, CountInv, OwnerLabelsInv, CallInv,
       CountType
  <2>8. OutsideInv'
    BY <1>1, <1>34 DEF FlushTest, IInv, OutsideInv, OwnerLabelsInv, HoldInv,
       CallInv
  <2>9. ReadyInv' BY <1>1, <1>34 DEF FlushTest, IInv, ReadyInv, WakeType
  <2>10. HandshakeInv'
    BY <1>1, <1>34 DEF FlushTest, IInv, HandshakeInv, ReadyInv
  <2> QED
    BY <1>T, <2>1, <2>2, <2>3, <2>4, <2>5, <2>6, <2>7, <2>8, <2>9, <2>10 DEF
       IInv
<1>35. ASSUME NEW t \in Threads, FlushPost(t)
      PROVE  IInv'
  <2>1. NoThrowInv' BY <1>1, <1>35 DEF FlushPost, IInv, NoThrowInv
  <2>2. CallInv' BY <1>1, <1>35 DEF FlushPost, IInv, CallInv, NoThrowInv
  <2>3. AttachInv'
    BY <1>1, <1>35 DEF FlushPost, IInv, AttachInv, OwnerLabelsInv
  <2>4. HoldInv'
    BY <1>1, <1>35 DEF FlushPost, IInv, HoldInv, OwnerLabelsInv, AttachInv,
       CallInv, OutsideInv, CountType
  <2>5. OwnerInv'
    BY <1>1, <1>35 DEF FlushPost, IInv, OwnerInv, OwnerLabelsInv, AttachInv,
       CallInv, HoldInv
  <2>6. OwnerLabelsInv'
    BY <1>1, <1>35 DEF FlushPost, IInv, OwnerLabelsInv, AttachInv, CallInv,
       CountInv
  <2>7. CountInv'
    BY <1>1, <1>35 DEF FlushPost, IInv, CountInv, OwnerLabelsInv, CallInv,
       CountType
  <2>8. OutsideInv'
    BY <1>1, <1>35 DEF FlushPost, IInv, OutsideInv, OwnerLabelsInv, HoldInv,
       CallInv
  <2>9. ReadyInv' BY <1>1, <1>35 DEF FlushPost, IInv, ReadyInv, WakeType
  <2>10. HandshakeInv'
    BY <1>1, <1>35 DEF FlushPost, IInv, HandshakeInv, OwnerLabelsInv
  <2> QED
    BY <1>T, <2>1, <2>2, <2>3, <2>4, <2>5, <2>6, <2>7, <2>8, <2>9, <2>10 DEF
       IInv
<1>36. ASSUME NEW t \in Threads, FlushWait(t)
      PROVE  IInv'
  <2>1. NoThrowInv' BY <1>1, <1>36 DEF FlushWait, IInv, NoThrowInv
  <2>2. CallInv' BY <1>1, <1>36 DEF FlushWait, IInv, CallInv, NoThrowInv
  <2>3. AttachInv'
    BY <1>1, <1>36 DEF FlushWait, IInv, AttachInv, OwnerLabelsInv
  <2>4. HoldInv'
    BY <1>1, <1>36 DEF FlushWait, IInv, HoldInv, OwnerLabelsInv, AttachInv,
       CallInv, OutsideInv, CountType
  <2>5. OwnerInv'
    BY <1>1, <1>36 DEF FlushWait, IInv, OwnerInv, OwnerLabelsInv, AttachInv,
       CallInv, HoldInv
  <2>6. OwnerLabelsInv'
    BY <1>1, <1>36 DEF FlushWait, IInv, OwnerLabelsInv, AttachInv, CallInv,
       CountInv
  <2>7. CountInv'
    BY <1>1, <1>36 DEF FlushWait, IInv, CountInv, OwnerLabelsInv, CallInv,
       CountType
  <2>8. OutsideInv'
    BY <1>1, <1>36 DEF FlushWait, IInv, OutsideInv, OwnerLabelsInv, HoldInv,
       CallInv
  <2>9. ReadyInv' BY <1>1, <1>36 DEF FlushWait, IInv, ReadyInv, WakeType
  <2>10. HandshakeInv'
    BY <1>1, <1>36 DEF FlushWait, IInv, HandshakeInv, OwnerLabelsInv
  <2> QED
    BY <1>T, <2>1, <2>2, <2>3, <2>4, <2>5, <2>6, <2>7, <2>8, <2>9, <2>10 DEF
       IInv
<1>37. ASSUME NEW t \in Threads, Free(t)
      PROVE  IInv'
  <2>1. NoThrowInv' BY <1>1, <1>37 DEF Free, IInv, NoThrowInv
  <2>2. CallInv' BY <1>1, <1>37 DEF Free, IInv, CallInv, NoThrowInv
  <2>3. AttachInv' BY <1>1, <1>37 DEF Free, IInv, AttachInv, OwnerLabelsInv
  <2>4. HoldInv'
    BY <1>1, <1>37 DEF Free, IInv, HoldInv, OwnerLabelsInv, AttachInv,
       CallInv, OutsideInv, CountType
  <2>5. OwnerInv'
    BY <1>1, <1>37 DEF Free, IInv, OwnerInv, OwnerLabelsInv, AttachInv,
       CallInv, HoldInv
  <2>6. OwnerLabelsInv'
    BY <1>1, <1>37 DEF Free, IInv, OwnerLabelsInv, AttachInv, CallInv,
       CountInv
  <2>7. CountInv'
    BY <1>1, <1>37 DEF Free, IInv, CountInv, OwnerLabelsInv, CallInv,
       CountType
  <2>8. OutsideInv'
    BY <1>1, <1>37 DEF Free, IInv, OutsideInv, OwnerLabelsInv, HoldInv,
       CallInv
  <2>9. ReadyInv' BY <1>1, <1>37 DEF Free, IInv, ReadyInv, WakeType
  <2>10. HandshakeInv'
    BY <1>1, <1>37 DEF Free, IInv, HandshakeInv, OwnerLabelsInv
  <2> QED
    BY <1>T, <2>1, <2>2, <2>3, <2>4, <2>5, <2>6, <2>7, <2>8, <2>9, <2>10 DEF
       IInv
<1>38. ASSUME NEW t \in Threads, Pulsed(t)
      PROVE  IInv'
  <2>1. NoThrowInv' BY <1>1, <1>38 DEF Pulsed, IInv, NoThrowInv
  <2>2. CallInv' BY <1>1, <1>38 DEF Pulsed, IInv, CallInv, NoThrowInv
  <2>3. AttachInv' BY <1>1, <1>38 DEF Pulsed, IInv, AttachInv, OwnerLabelsInv
  <2>4. HoldInv'
    BY <1>1, <1>38 DEF Pulsed, IInv, HoldInv, OwnerLabelsInv, AttachInv,
       CallInv, OutsideInv, CountType
  <2>5. OwnerInv'
    BY <1>1, <1>38 DEF Pulsed, IInv, OwnerInv, OwnerLabelsInv, AttachInv,
       CallInv, HoldInv
  <2>6. OwnerLabelsInv'
    BY <1>1, <1>38 DEF Pulsed, IInv, OwnerLabelsInv, AttachInv, CallInv,
       CountInv
  <2>7. CountInv'
    BY <1>1, <1>38 DEF Pulsed, IInv, CountInv, OwnerLabelsInv, CallInv,
       CountType
  <2>8. OutsideInv'
    BY <1>1, <1>38 DEF Pulsed, IInv, OutsideInv, OwnerLabelsInv, HoldInv,
       CallInv
  <2>9. ReadyInv' BY <1>1, <1>38 DEF Pulsed, IInv, ReadyInv, WakeType
  <2>10. HandshakeInv'
    BY <1>1, <1>38 DEF Pulsed, IInv, HandshakeInv, OwnerLabelsInv
  <2> QED
    BY <1>T, <2>1, <2>2, <2>3, <2>4, <2>5, <2>6, <2>7, <2>8, <2>9, <2>10 DEF
       IInv
<1>39. ASSUME NEW t \in Threads, WaitTimeOut(t)
      PROVE  IInv'
  <2>1. NoThrowInv' BY <1>1, <1>39 DEF WaitTimeOut, IInv, NoThrowInv
  <2>2. CallInv' BY <1>1, <1>39 DEF WaitTimeOut, IInv, CallInv, NoThrowInv
  <2>3. AttachInv'
    BY <1>1, <1>39 DEF WaitTimeOut, IInv, AttachInv, OwnerLabelsInv
  <2>4. HoldInv'
    BY <1>1, <1>39 DEF WaitTimeOut, IInv, HoldInv, OwnerLabelsInv, AttachInv,
       CallInv, OutsideInv, CountType
  <2>5. OwnerInv'
    BY <1>1, <1>39 DEF WaitTimeOut, IInv, OwnerInv, OwnerLabelsInv, AttachInv,
       CallInv, HoldInv
  <2>6. OwnerLabelsInv'
    BY <1>1, <1>39 DEF WaitTimeOut, IInv, OwnerLabelsInv, AttachInv, CallInv,
       CountInv
  <2>7. CountInv'
    BY <1>1, <1>39 DEF WaitTimeOut, IInv, CountInv, OwnerLabelsInv, CallInv,
       CountType
  <2>8. OutsideInv'
    BY <1>1, <1>39 DEF WaitTimeOut, IInv, OutsideInv, OwnerLabelsInv, HoldInv,
       CallInv
  <2>9. ReadyInv' BY <1>1, <1>39 DEF WaitTimeOut, IInv, ReadyInv, WakeType
  <2>10. HandshakeInv'
    BY <1>1, <1>39 DEF WaitTimeOut, IInv, HandshakeInv, OwnerLabelsInv
  <2> QED
    BY <1>T, <2>1, <2>2, <2>3, <2>4, <2>5, <2>6, <2>7, <2>8, <2>9, <2>10 DEF
       IInv
<1>40. ASSUME NEW t \in Threads, Reacquired(t)
      PROVE  IInv'
  <2>1. /\ object[t] \in Objects /\ waiting[t]
        /\ monitor[object[t]] \in Monitors
        /\ owningThreadId[monitor[object[t]]] = t
        /\ held[t][object[t]] = oldLockingCount[t]
    BY <1>1, <1>40 DEF Reacquired, IInv, OwnerLabelsInv, CountInv, CallInv
  <2>2. NoThrowInv' BY <1>1, <1>40, <2>1 DEF Reacquired, IInv, NoThrowInv
  <2>3. CallInv'
    BY <1>1, <1>40, <2>1 DEF Reacquired, IInv, CallInv, NoThrowInv
  <2>4. AttachInv'
    BY <1>1, <1>40, <2>1 DEF Reacquired, IInv, AttachInv, OwnerLabelsInv
  <2>5. HoldInv'
    BY <1>1, <1>40, <2>1 DEF Reacquired, IInv, HoldInv, OwnerLabelsInv,
       AttachInv, CallInv, OutsideInv, CountType
  <2>6. OwnerInv'
    BY <1>1, <1>40, <2>1 DEF Reacquired, IInv, OwnerInv, OwnerLabelsInv,
       AttachInv, CallInv, HoldInv
  <2>7. OwnerLabelsInv'
    BY <1>1, <1>40, <2>1 DEF Reacquired, IInv, OwnerLabelsInv, AttachInv,
       CallInv, CountInv
  <2>8. CountInv'
    BY <1>1, <1>40, <2>1 DEF Reacquired, IInv, CountInv, OwnerLabelsInv,
       CallInv, CountType
  <2>9. OutsideInv'
    BY <1>1, <1>40, <2>1 DEF Reacquired, IInv, OutsideInv, OwnerLabelsInv,
       HoldInv, CallInv
  <2>10. ReadyInv'
    BY <1>1, <1>40, <2>1 DEF Reacquired, IInv, ReadyInv, WakeType
  <2>11. HandshakeInv'
    BY <1>1, <1>40, <2>1 DEF Reacquired, IInv, HandshakeInv, OwnerLabelsInv
  <2> QED
    BY <1>T, <2>2, <2>3, <2>4, <2>5, <2>6, <2>7, <2>8, <2>9, <2>10, <2>11 DEF
       IInv
<1>41. CASE UNCHANGED vars
  BY <1>T, <1>41 DEF
    vars, IInv, NoThrowInv, CallInv, AttachInv, HoldInv, OwnerInv,
       OwnerLabelsInv, CountInv, OutsideInv, ReadyInv, HandshakeInv
<1>42. ASSUME NEW t \in Threads
      PROVE  ~TimeoutStep(t) /\ ~Throw(t)
  BY <1>1 DEF
    IInv, QuietClient, CallInv, NoThrowInv, TimeoutStep, Throw, TimeOut,
       LastRead, LastGrab, LastGrabFails, LateAck, InterruptEnter, AbortEnter,
       InterruptWait
<1> QED
  BY <1>2, <1>3, <1>4, <1>5, <1>6, <1>7, <1>8, <1>9, <1>10, <1>11, <1>12,
     <1>13, <1>14, <1>15, <1>16, <1>17, <1>18, <1>19, <1>20, <1>21, <1>22,
     <1>23, <1>24, <1>25, <1>26, <1>27, <1>28, <1>29, <1>30, <1>31, <1>32,
     <1>33, <1>34, <1>35, <1>36, <1>37, <1>38, <1>39, <1>40, <1>41, <1>42 DEF
     Next, Call, Step, Exit, EnterStep, ExitStep, WaitStep

\* What is proved under QuietClient: IInv is an invariant of Monitor.
THEOREM InductiveInvariant ==
  ASSUME QuietClient
  PROVE  Spec => []IInv
<1>1. IInv /\ [Next]_vars => IInv'
  BY IInvStep
<1> QED BY IInvInit, <1>1, PTL DEF Spec

\* No two threads are ever inside locks of one object (TryEnter, Exit and
\* TryWait of Monitor.cpp), for any number of threads, objects and monitors.
THEOREM MutualExclusionTheorem ==
  ASSUME QuietClient
  PROVE  Spec => []MutualExclusion
<1>1. IInv => MutualExclusion
  BY DEF IInv, HoldInv, MutualExclusion
<1> QED BY InductiveInvariant, <1>1, PTL

\* GetMonitorAndThrowIfNotLockedByCurrentThread accepts exactly the holder,
\* and recursiveLockingCount is the holder's depth.
THEOREM LockAgreementTheorem ==
  ASSUME QuietClient
  PROVE  Spec => []LockAgreement
<1>1. IInv => LockAgreement
  <2> SUFFICES ASSUME IInv, NEW t \in Threads, NEW o \in Objects
               PROVE  /\ HoldsLock(t, o) =>
                            /\ monitor[o] # NULL
                            /\ owningThreadId[monitor[o]] = t
                      /\ HoldsLock(t, o) /\ At(t, "Idle") =>
                            recursiveLockingCount[monitor[o]] = held[t][o]
                      /\ At(t, "Idle") /\ LockedByCurrentThread(t, o) =>
                            held[t][o] > 0
    BY DEF LockAgreement
  <2>1. HoldsLock(t, o) =>
           /\ monitor[o] # NULL
           /\ owningThreadId[monitor[o]] = t
           /\ recursiveLockingCount[monitor[o]] = held[t][o]
    BY DEF IInv, HoldInv
  <2>2. At(t, "Idle") /\ LockedByCurrentThread(t, o) => HoldsLock(t, o)
    BY CallerHolds DEF At
  <2> QED BY <2>1, <2>2 DEF HoldsLock
<1> QED BY InductiveInvariant, <1>1, PTL

\* The IL2CPP_ASSERTs of Monitor.cpp about owners, the free list and the
\* recursion count never fail.
THEOREM AssertionsTheorem ==
  ASSUME QuietClient
  PROVE  Spec => []AssertionsHold
<1>1. IInv => AssertionsHold
  BY DEF IInv, TypeOK, LockType, AttachInv, CountInv, OwnerLabelsInv,
         AssertionsHold, At, OwnerLabels, ExitLabels, FlushLabels
<1> QED BY InductiveInvariant, <1>1, PTL

\* A step that changes owningThreadId from a thread's ID is that thread's.
LEMMA OwnerChange ==
  ASSUME QuietClient, IInv, [Next]_vars, NEW m \in Monitors,
         owningThreadId[m] \in Threads, owningThreadId'[m] # owningThreadId[m]
  PROVE  pc'[owningThreadId[m]] # pc[owningThreadId[m]]
<1> USE ConstantsAssumption
<1> USE DEF At, Goto, SetOwner, CanAcquire, Unacquire, ReturnToFreeList,
            ExitReturns, LockType, LabelType, CallType, PointerInv,
            MonitorLabels, OwnerLabels, ExitLabels, FlushLabels
<1>1. LockType /\ LabelType /\ CallType
  BY DEF IInv, TypeOK
<1>2. PICK t \in Threads :
         \/ Allocate(t) \/ InstallLost(t) \/ TryAcquire(t) \/ Backout(t)
         \/ Grab(t) \/ LastGrab(t) \/ Handoff(t) \/ Yield(t) \/ Free(t)
  <2>1. owningThreadId' # owningThreadId
    OBVIOUS
  <2>2. PICK t \in Threads : Call(t) \/ Step(t) \/ Throw(t)
    BY <2>1 DEF Next, vars, lockv
  <2>3. ~Call(t)
    BY <2>1 DEF Call, Exit, Enter, ExitRecursive, ExitLast, Wait,
                PulseMonitor, lockv
  <2>4. ~Throw(t) /\ ~WaitStep(t)
    BY <2>1 DEF Throw, InterruptEnter, AbortEnter, InterruptWait, WaitStep,
                Pulsed, WaitTimeOut, Reacquired, Reenter, lockv
  <2>5. EnterStep(t) => \/ Allocate(t) \/ InstallLost(t) \/ TryAcquire(t)
                        \/ Backout(t) \/ Grab(t)
    BY <2>1 DEF EnterStep, ReadMonitor, Install, LockRecursively, Recheck,
                RecheckFails, FailAtOnce, QueueUp, GetReady, TestAttached,
                GrabFails, Unready, Wake, Vacate, Acknowledge, lockv
  <2>6. TimeoutStep(t) => LastGrab(t)
    BY <2>1 DEF TimeoutStep, TimeOut, LastRead, LastGrabFails, LateAck, lockv
  <2>7. ExitStep(t) => Handoff(t) \/ Yield(t) \/ Free(t)
    BY <2>1 DEF ExitStep, ExitReady, PostOne, ExitPulse, Repost, Deflate,
                FlushReset, FlushTest, FlushPost, FlushWait, lockv
  <2> QED BY <2>2, <2>3, <2>4, <2>5, <2>6, <2>7 DEF Step
<1>3. CASE TryAcquire(t) \/ Grab(t) \/ LastGrab(t)
  BY <1>1, <1>3 DEF TryAcquire, Grab, LastGrab, IInv
<1>4. CASE Allocate(t)
  BY <1>1, <1>4 DEF Allocate, IInv, AttachInv
<1>5. CASE InstallLost(t) \/ Backout(t) \/ Handoff(t) \/ Yield(t) \/ Free(t)
  BY <1>1, <1>5
     DEF InstallLost, Backout, Handoff, Yield, Free, IInv, OwnerLabelsInv
<1> QED BY <1>2, <1>3, <1>4, <1>5

\* The field comment of owningThreadId (43-44) holds of every step.
THEOREM OnlyOwnerTheorem ==
  ASSUME QuietClient
  PROVE  Spec => OnlyOwnerGivesUp
<1>1. IInv /\ [Next]_vars =>
         [\A m \in Monitors :
             (owningThreadId[m] \in Threads
                /\ owningThreadId'[m] # owningThreadId[m])
             => pc'[owningThreadId[m]] # pc[owningThreadId[m]]]_vars
  BY OwnerChange
<1> QED BY InductiveInvariant, <1>1, PTL DEF Spec, OnlyOwnerGivesUp

----------------------------------------------------------------------------
(* The refinement: every step of Monitor is a step of the abstract lock, or *)
(* leaves it alone.                                                         *)
\* What a step leaves alone of the abstract lock of thread u and object o.
SameLock(u, o) ==
    /\ ClientDepth'[u][o] = ClientDepth[u][o]
    /\ ClientSaved'[u][o] = ClientSaved[u][o]

LEMMA ClientShape ==
  /\ ClientDepth = [t \in Threads |-> [o \in Objects |-> ClientDepth[t][o]]]
  /\ ClientSaved = [t \in Threads |-> [o \in Objects |-> ClientSaved[t][o]]]
  /\ ClientDepth' = [t \in Threads |-> [o \in Objects |-> ClientDepth'[t][o]]]
  /\ ClientSaved' = [t \in Threads |-> [o \in Objects |-> ClientSaved'[t][o]]]
  BY DEF ClientDepth, ClientSaved

\* A step that touches no abstract lock is a stuttering step.
LEMMA Stutter ==
  ASSUME \A u \in Threads, o \in Objects : SameLock(u, o)
  PROVE  UNCHANGED Client!lvars
<1>1. ClientDepth' = ClientDepth
  BY ClientShape DEF SameLock
<1>2. ClientSaved' = ClientSaved
  BY ClientShape DEF SameLock
<1> QED BY <1>1, <1>2 DEF Client!lvars

\* Steps inside calls: what is held, and who waits for what, stays.
LEMMA Silent ==
  ASSUME held' = held, waiting' = waiting,
         \A u \in Threads : waiting[u] => object'[u] = object[u]
  PROVE  UNCHANGED Client!lvars
<1>1. \A u \in Threads, o \in Objects : HoldsLock(u, o)' <=> HoldsLock(u, o)
  BY DEF HoldsLock
<1>2. \A u \in Threads, o \in Objects : SameLock(u, o)
  BY <1>1 DEF SameLock, ClientDepth, ClientSaved
<1> QED BY <1>2, Stutter

\* The abstract locks of other threads and objects, when t works on o.
LEMMA Others ==
  ASSUME NEW t \in Threads, NEW o \in Objects,
         \A u \in Threads, p \in Objects : u # t \/ p # o =>
             held'[u][p] = held[u][p],
         \A u \in Threads \ {t} : waiting'[u] = waiting[u]
                                    /\ object'[u] = object[u],
         waiting[t] => object[t] = o,
         waiting'[t] => object'[t] = o
  PROVE  \A u \in Threads, p \in Objects : u # t \/ p # o => SameLock(u, p)
<1>1. \A u \in Threads, p \in Objects : u # t \/ p # o =>
          (HoldsLock(u, p)' <=> HoldsLock(u, p))
  BY DEF HoldsLock
<1> QED BY <1>1 DEF SameLock, ClientDepth, ClientSaved

\* If t holds o after the step, nobody else did before it.
LEMMA AvailableBefore ==
  ASSUME IInv', NEW t \in Threads, NEW o \in Objects, HoldsLock(t, o)',
         \A u \in Threads, p \in Objects : u # t \/ p # o => SameLock(u, p)
  PROVE  Client!Available(t, o)
<1> SUFFICES ASSUME NEW u \in Threads \ {t} PROVE ClientDepth[u][o] = 0
  BY DEF Client!Available
<1>1. ~HoldsLock(u, o)'
  BY DEF IInv, HoldInv
<1>2. ClientDepth'[u][o] = 0
  BY <1>1 DEF ClientDepth
<1> QED BY <1>2 DEF SameLock

\* The step that changes only the lock of t and o to depth d and saved s.
LEMMA OneLock ==
  ASSUME NEW t \in Threads, NEW o \in Objects, NEW d, NEW s,
         \A u \in Threads, p \in Objects : u # t \/ p # o => SameLock(u, p),
         ClientDepth'[t][o] = d, ClientSaved'[t][o] = s
  PROVE  /\ ClientDepth' = [ClientDepth EXCEPT ![t][o] = d]
         /\ ClientSaved' = [ClientSaved EXCEPT ![t][o] = s]
<1>1. ClientDepth' = [ClientDepth EXCEPT ![t][o] = d]
  BY ClientShape DEF SameLock
<1>2. ClientSaved' = [ClientSaved EXCEPT ![t][o] = s]
  BY ClientShape DEF SameLock
<1> QED BY <1>1, <1>2

\* A TryEnter that returns true takes the lock, or, inside TryWait, does
\* nothing yet.
LEMMA EnterRefines ==
  ASSUME IInv, IInv', NEW t \in Threads, pc[t] \notin {"Idle", "Dead"},
         EnterReturnsTrue(t)
  PROVE  [Client!LockNext]_(Client!lvars)
<1>1. CASE waiting[t]
  <2>1. /\ held' = held /\ waiting' = waiting /\ object' = object
    BY <1>1 DEF EnterReturnsTrue, argv, IInv, TypeOK, CallType
  <2> QED BY <2>1, Silent
<1>2. CASE ~waiting[t]
  <2>0. PICK o \in Objects : o = object[t]
    BY DEF IInv, PointerInv
  <2>1. held[t][o] \in Nat
    BY DEF IInv, TypeOK, CallType
  <2>2. held' = [held EXCEPT ![t][o] = @ + 1] /\ waiting' = waiting
    BY <1>2, <2>0 DEF EnterReturnsTrue, argv
  <2>3. \A u \in Threads \ {t} : object'[u] = object[u]
    BY DEF EnterReturnsTrue, IInv, TypeOK, CallType
  <2>4. /\ held'[t][o] = held[t][o] + 1
        /\ \A u \in Threads, p \in Objects : u # t \/ p # o =>
              held'[u][p] = held[u][p]
    BY <2>1, <2>2 DEF IInv, TypeOK, CallType
  <2>5. \A u \in Threads, p \in Objects : u # t \/ p # o => SameLock(u, p)
    BY <1>2, <2>2, <2>3, <2>4, Others
  <2>6. /\ HoldsLock(t, o)'
        /\ ClientDepth[t][o] = held[t][o]
        /\ ClientSaved[t][o] = 0
    BY <1>2, <2>1, <2>2, <2>4 DEF HoldsLock, ClientDepth, ClientSaved
  <2>7. ClientDepth'[t][o] = ClientDepth[t][o] + 1 /\ ClientSaved'[t][o] = 0
    BY <2>4, <2>6 DEF ClientDepth, ClientSaved
  <2>8. Client!Available(t, o)
    BY <2>5, <2>6, AvailableBefore
  <2>9. /\ ClientDepth' = [ClientDepth EXCEPT ![t][o] = ClientDepth[t][o] + 1]
        /\ ClientSaved' = [ClientSaved EXCEPT ![t][o] = 0]
    BY <2>5, <2>7, OneLock
  <2>10. ClientSaved' = ClientSaved
    BY <2>6, <2>9, ClientShape
  <2>11. Client!Lock(t, o)
    BY <2>8, <2>9, <2>10 DEF Client!Lock
  <2> QED BY <2>11 DEF Client!LockNext
<1> QED BY <1>1, <1>2

\* An Exit releases one level of the lock.
LEMMA ExitRefines ==
  ASSUME IInv, NEW t \in Threads, NEW o \in Objects, Exit(t, o)
  PROVE  [Client!LockNext]_(Client!lvars)
<1>1. At(t, "Idle") /\ LockedByCurrentThread(t, o)
  BY DEF Exit, ExitRecursive, ExitLast, At, IInv, NoThrowInv
<1>2. /\ held' = [held EXCEPT ![t][o] = IF @ > 0 THEN @ - 1 ELSE @]
      /\ waiting' = waiting
      /\ \A u \in Threads \ {t} : object'[u] = object[u]
  BY DEF Exit, ExitRecursive, ExitLast, argv, IInv, TypeOK, CallType
<1>3. ~waiting[t] /\ held[t][o] \in Nat
  BY <1>1 DEF At, IInv, CallInv, TypeOK, CallType
<1>4. HoldsLock(t, o)
  BY <1>1, CallerHolds DEF At
<1>5. held[t][o] > 0
  BY <1>4 DEF HoldsLock
<1>6. /\ held'[t][o] = held[t][o] - 1
      /\ \A u \in Threads, p \in Objects : u # t \/ p # o =>
            held'[u][p] = held[u][p]
  BY <1>2, <1>3, <1>5 DEF IInv, TypeOK, CallType
<1>7. \A u \in Threads, p \in Objects : u # t \/ p # o => SameLock(u, p)
  BY <1>2, <1>3, <1>6, Others
<1>8. ClientDepth[t][o] = held[t][o] /\ ClientSaved[t][o] = 0
  BY <1>4 DEF ClientDepth, ClientSaved
<1>9. HoldsLock(t, o)' <=> held'[t][o] > 0
  BY <1>2, <1>3 DEF HoldsLock
<1>10. ClientDepth'[t][o] = ClientDepth[t][o] - 1 /\ ClientSaved'[t][o] = 0
  BY <1>3, <1>5, <1>6, <1>8, <1>9 DEF ClientDepth, ClientSaved
<1>11. /\ ClientDepth' = [ClientDepth EXCEPT ![t][o] = ClientDepth[t][o] - 1]
       /\ ClientSaved' = [ClientSaved EXCEPT ![t][o] = 0]
  BY <1>7, <1>10, OneLock
<1>12. ClientSaved' = ClientSaved
  BY <1>8, <1>11, ClientShape
<1>13. Client!Unlock(t, o)
  BY <1>5, <1>8, <1>11, <1>12 DEF Client!Unlock
<1> QED BY <1>13 DEF Client!LockNext

\* TryWait gives the whole lock up as soon as it undoes the recursion.
LEMMA WaitRefines ==
  ASSUME IInv, NEW t \in Threads, NEW o \in Objects, NEW ms,
         Wait(t, o, ms)
  PROVE  [Client!LockNext]_(Client!lvars)
<1>1. At(t, "Idle") /\ LockedByCurrentThread(t, o)
  BY DEF Wait
<1>2. /\ held' = held
      /\ waiting'[t] /\ object'[t] = o
      /\ \A u \in Threads \ {t} : waiting'[u] = waiting[u]
                                    /\ object'[u] = object[u]
  BY DEF Wait, IInv, TypeOK, CallType, ArgType
<1>3. ~waiting[t]
  BY <1>1 DEF At, IInv, CallInv
<1>4. HoldsLock(t, o) /\ ~HoldsLock(t, o)'
  <2>1. HoldsLock(t, o)
    BY <1>1, CallerHolds DEF At
  <2> QED BY <1>2, <2>1 DEF HoldsLock
<1>5. \A u \in Threads, p \in Objects : u # t \/ p # o => SameLock(u, p)
  BY <1>2, <1>3, Others
<1>6. ClientDepth[t][o] = held[t][o] /\ held[t][o] > 0
  BY <1>4 DEF ClientDepth, HoldsLock
<1>7. ClientDepth'[t][o] = 0 /\ ClientSaved'[t][o] = held[t][o]
  BY <1>2, <1>4 DEF ClientDepth, ClientSaved
<1>8. /\ ClientDepth' = [ClientDepth EXCEPT ![t][o] = 0]
      /\ ClientSaved' = [ClientSaved EXCEPT ![t][o] = ClientDepth[t][o]]
  BY <1>5, <1>6, <1>7, OneLock
<1>9. Client!BeginWait(t, o)
  BY <1>6, <1>8 DEF Client!BeginWait
<1> QED BY <1>9 DEF Client!LockNext

\* TryWait takes it back, at the depth it had, when it restores the count.
LEMMA ReacquiredRefines ==
  ASSUME IInv, IInv', NEW t \in Threads, Reacquired(t)
  PROVE  [Client!LockNext]_(Client!lvars)
<1>0. PICK o \in Objects : o = object[t]
  BY DEF Reacquired, At, IInv, PointerInv
<1>1. /\ held' = held
      /\ ~waiting'[t]
      /\ \A u \in Threads \ {t} : waiting'[u] = waiting[u]
                                    /\ object'[u] = object[u]
  BY DEF Reacquired, IInv, TypeOK, CallType, ArgType
<1>2. waiting[t] /\ held[t][o] = oldLockingCount[t]
  BY <1>0 DEF Reacquired, At, IInv, CallInv, CountInv
<1>3. held[t][o] > 0
  BY <1>2 DEF IInv, TypeOK, ArgType
<1>4. ~HoldsLock(t, o) /\ HoldsLock(t, o)'
  BY <1>0, <1>1, <1>2, <1>3 DEF HoldsLock
<1>5. \A u \in Threads, p \in Objects : u # t \/ p # o => SameLock(u, p)
  BY <1>0, <1>1, Others
<1>6. ClientSaved[t][o] = held[t][o]
  BY <1>4 DEF ClientSaved
<1>7. ClientDepth'[t][o] = held[t][o] /\ ClientSaved'[t][o] = 0
  BY <1>1, <1>4 DEF ClientDepth, ClientSaved
<1>8. /\ ClientDepth' = [ClientDepth EXCEPT ![t][o] = ClientSaved[t][o]]
      /\ ClientSaved' = [ClientSaved EXCEPT ![t][o] = 0]
  BY <1>5, <1>6, <1>7, OneLock
<1>9. Client!Available(t, o)
  BY <1>4, <1>5, AvailableBefore
<1>10. Client!EndWait(t, o)
  BY <1>3, <1>6, <1>8, <1>9 DEF Client!EndWait
<1> QED BY <1>10 DEF Client!LockNext

\* Steps inside Enter and TryEnter other than the one that returns true.
LEMMA EnterStepRefines ==
  ASSUME IInv, IInv', NEW t \in Threads, EnterStep(t)
  PROVE  [Client!LockNext]_(Client!lvars)
<1> USE DEF At, argv, callv
<1>1. CASE Install(t) \/ LockRecursively(t) \/ Recheck(t) \/ Unready(t)
  <2>1. pc[t] \notin {"Idle", "Dead"} /\ EnterReturnsTrue(t)
    BY <1>1 DEF Install, LockRecursively, Recheck, Unready
  <2> QED BY <2>1, EnterRefines
<1>2. CASE FailAtOnce(t)
  <2>1. ~waiting[t]
    BY <1>2 DEF FailAtOnce, IInv, CallInv, EnterLabels
  <2>2. /\ held' = held /\ waiting' = waiting
        /\ \A u \in Threads \ {t} : object'[u] = object[u]
    BY <1>2, <2>1
       DEF FailAtOnce, EnterFails, IInv, TypeOK, CallType, ArgType
  <2> QED BY <2>1, <2>2, Silent
<1>3. CASE \/ ReadMonitor(t) \/ Allocate(t) \/ InstallLost(t)
           \/ TryAcquire(t) \/ RecheckFails(t) \/ Backout(t) \/ QueueUp(t)
           \/ GetReady(t) \/ TestAttached(t) \/ Grab(t) \/ GrabFails(t)
           \/ Wake(t) \/ Vacate(t) \/ Acknowledge(t)
  <2>1. held' = held /\ waiting' = waiting /\ object' = object
    BY <1>3
       DEF ReadMonitor, Allocate, InstallLost, TryAcquire, RecheckFails,
           Backout, QueueUp, GetReady, TestAttached, Grab, GrabFails, Wake,
           Vacate, Acknowledge
  <2> QED BY <2>1, Silent
<1> QED BY <1>1, <1>2, <1>3 DEF EnterStep

\* Steps inside Exit, after the client has left the lock.
LEMMA ExitStepRefines ==
  ASSUME IInv, NEW t \in Threads, ExitStep(t)
  PROVE  [Client!LockNext]_(Client!lvars)
<1> USE DEF callv, argv
<1>1. /\ held' = held /\ waiting' = waiting
      /\ \A u \in Threads : waiting[u] => object'[u] = object[u]
  <2>1. CASE PostOne(t) \/ Free(t) \/ Repost(t)
    BY <2>1 DEF PostOne, Free, Repost, ExitReturns, IInv, TypeOK, CallType
  <2>2. CASE \/ ExitReady(t) \/ Handoff(t) \/ ExitPulse(t) \/ Yield(t)
             \/ Deflate(t) \/ FlushReset(t) \/ FlushTest(t) \/ FlushPost(t)
             \/ FlushWait(t)
    BY <2>2 DEF ExitReady, Handoff, ExitPulse, Yield, Deflate, FlushReset,
                FlushTest, FlushPost, FlushWait
  <2> QED BY <2>1, <2>2 DEF ExitStep
<1> QED BY <1>1, Silent

\* Every step of Monitor is a step of the abstract lock, or none.
LEMMA StepRefines ==
  ASSUME QuietClient, IInv, IInv', [Next]_vars
  PROVE  [Client!LockNext]_(Client!lvars)
<1>1. ASSUME NEW t \in Threads, Call(t)
      PROVE  [Client!LockNext]_(Client!lvars)
  <2>1. PICK o \in Objects :
           \/ \E ms \in EnterTimeouts : Enter(t, o, ms)
           \/ Exit(t, o)
           \/ \E ms \in WaitTimeouts : Wait(t, o, ms)
           \/ \E all \in BOOLEAN : PulseMonitor(t, o, all)
    BY <1>1 DEF Call
  <2>2. CASE \E ms \in EnterTimeouts : Enter(t, o, ms)
    <3>1. ~waiting[t]
      BY <2>2 DEF Enter, At, IInv, CallInv
    <3>2. /\ held' = held /\ waiting' = waiting
          /\ \A u \in Threads \ {t} : object'[u] = object[u]
      BY <2>2 DEF Enter, IInv, TypeOK, CallType
    <3> QED BY <3>1, <3>2, Silent
  <2>3. CASE Exit(t, o)
    BY <2>3, ExitRefines
  <2>4. CASE \E ms \in WaitTimeouts : Wait(t, o, ms)
    BY <2>4, WaitRefines
  <2>5. CASE \E all \in BOOLEAN : PulseMonitor(t, o, all)
    <3>1. held' = held /\ waiting' = waiting /\ object' = object
      BY <2>5 DEF PulseMonitor, callv, argv
    <3> QED BY <3>1, Silent
  <2> QED BY <2>1, <2>2, <2>3, <2>4, <2>5
<1>2. ASSUME NEW t \in Threads, Step(t) \/ Throw(t)
      PROVE  [Client!LockNext]_(Client!lvars)
  <2>1. ~TimeoutStep(t) /\ ~Throw(t)
    BY DEF TimeoutStep, TimeOut, LastRead, LastGrab, LastGrabFails, LateAck,
           Throw, InterruptEnter, AbortEnter, InterruptWait, At, QuietClient,
           IInv, NoThrowInv, CallInv, EnterLabels
  <2>2. CASE WaitStep(t)
    <3>1. CASE Reacquired(t)
      BY <3>1, ReacquiredRefines
    <3>2. CASE Pulsed(t) \/ WaitTimeOut(t)
      <4>1. held' = held /\ waiting' = waiting /\ object' = object
        BY <3>2 DEF Pulsed, WaitTimeOut, Reenter
      <4> QED BY <4>1, Silent
    <3> QED BY <2>2, <3>1, <3>2 DEF WaitStep
  <2> QED
    BY <1>2, <2>1, <2>2, EnterStepRefines, ExitStepRefines DEF Step
<1>3. CASE UNCHANGED vars
  <2>1. held' = held /\ waiting' = waiting /\ object' = object
    BY <1>3 DEF vars, callv, argv
  <2> QED BY <2>1, Silent
<1> QED BY <1>1, <1>2, <1>3 DEF Next

\* Monitor.cpp implements one recursive lock per object, with Wait: each
\* call of Enter, Exit and Wait takes effect at one moment, and every other
\* access to shared state is invisible to the client.
THEOREM Refinement ==
  ASSUME QuietClient
  PROVE  Spec => ImplementsLock
<1>1. Init => Client!LockInit
  BY DEF Init, Client!LockInit, ClientDepth, ClientSaved, HoldsLock
<1>2. IInv /\ IInv' /\ [Next]_vars => [Client!LockNext]_(Client!lvars)
  BY StepRefines
<1> QED
  BY InductiveInvariant, <1>1, <1>2, PTL
  DEF Spec, ImplementsLock, Client!LockSpec
============================================================================
