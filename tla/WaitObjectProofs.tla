-------------------------- MODULE WaitObjectProofs --------------------------
(***************************************************************************)
(* Proofs about WaitObject: the invariant WInv is inductive, for any       *)
(* threads, objects, timeouts and APCs; and no signal is lost while no     *)
(* wait is cut short.                                                      *)
(***************************************************************************)
EXTENDS WaitObjectInvariant, TLAPS

LEMMA WInvInit == Init => WInv
<1> SUFFICES ASSUME Init PROVE WInv
  OBVIOUS
<1> USE WaitObjectAssumption DEF Init
<1>1. TypeOK
  BY DEF TypeOK, ObjectType, ListType, OwnerType, ThreadType, CallType,
         WaitObjects, Events
<1>2. ArgumentInv /\ LockInv /\ TiedInv /\ SignalInv /\ EventWakesEverybody
        /\ InterruptIsNotLost
  BY DEF ArgumentInv, LockInv, TiedInv, SignalInv, EventWakesEverybody,
         InterruptIsNotLost, At
<1>3. ListInv
  BY DEF ListInv
<1>4. MutexAgreement
  BY DEF MutexAgreement, At
<1> QED BY <1>1, <1>2, <1>3, <1>4 DEF WInv

\* The thread that PushThreadToWaitersList appends is on the list, with all
\* that were there before.
LEMMA PushThread ==
  ASSUME NEW list \in Seq(Threads), NEW t \in Threads
  PROVE  /\ Append(list, t) \in Seq(Threads)
         /\ Len(Append(list, t)) = Len(list) + 1
         /\ ToSet(Append(list, t)) = ToSet(list) \union {t}
<1> DEFINE pushed == Append(list, t)
<1>1. /\ Len(list) \in Nat /\ DOMAIN list = 1 .. Len(list)
      /\ pushed \in Seq(Threads) /\ Len(pushed) = Len(list) + 1
      /\ DOMAIN pushed = 1 .. Len(list) + 1
      /\ pushed[Len(list) + 1] = t
      /\ \A i \in 1 .. Len(list) : pushed[i] = list[i]
  OBVIOUS
<1> HIDE DEF pushed
<1>2. ASSUME NEW u \in ToSet(pushed) PROVE u \in ToSet(list) \union {t}
  <2>1. PICK i \in 1 .. Len(list) + 1 : pushed[i] = u
    BY <1>1, <1>2 DEF ToSet
  <2> QED BY <1>1, <2>1 DEF ToSet
<1>3. ASSUME NEW u \in ToSet(list) PROVE u \in ToSet(pushed)
  <2>1. PICK i \in 1 .. Len(list) : list[i] = u
    BY <1>1, <1>3 DEF ToSet
  <2> QED BY <1>1, <2>1 DEF ToSet
<1>4. t \in ToSet(pushed)
  BY <1>1 DEF ToSet
<1> QED BY <1>1, <1>2, <1>3, <1>4 DEF pushed

\* What erase_swap_back leaves of a list with t on it: one thread less, and
\* nobody but t is gone.
LEMMA PopThread ==
  ASSUME NEW list \in Seq(Threads), NEW t \in ToSet(list)
  PROVE  /\ PopThreadFromWaitersList(list, t) \in Seq(Threads)
         /\ Len(PopThreadFromWaitersList(list, t)) = Len(list) - 1
         /\ \A u \in ToSet(list) \ {t} :
               u \in ToSet(PopThreadFromWaitersList(list, t))
<1>1. PICK i \in DOMAIN list :
         /\ list[i] = t
         /\ PopThreadFromWaitersList(list, t)
              = Front([list EXCEPT ![i] = Last(list)])
  BY DEF PopThreadFromWaitersList, ToSet
<1> DEFINE moved == [list EXCEPT ![i] = Last(list)]
<1>2. Len(list) \in Nat \ {0} /\ Last(list) \in Threads
  BY <1>1 DEF Last
<1>3. moved \in Seq(Threads) /\ Len(moved) = Len(list)
  BY <1>2
<1>4. /\ Front(moved) \in Seq(Threads)
      /\ Len(Front(moved)) = Len(list) - 1
      /\ DOMAIN Front(moved) = 1 .. Len(list) - 1
      /\ \A j \in 1 .. Len(list) - 1 : Front(moved)[j] = moved[j]
  BY <1>2, <1>3 DEF Front
<1>5. ASSUME NEW u \in ToSet(list) \ {t}
      PROVE  u \in ToSet(Front(moved))
  <2>1. PICK j \in 1 .. Len(list) : list[j] = u
    BY DEF ToSet
  <2>2. j # i
    BY <1>1, <2>1
  <2>3. CASE j = Len(list)
    <3>1. i \in 1 .. Len(list) - 1
      BY <1>1, <1>2, <2>2, <2>3
    <3>2. moved[i] = u
      BY <1>1, <2>1, <2>3 DEF Last
    <3>3. Front(moved)[i] = u /\ i \in DOMAIN Front(moved)
      BY <1>4, <3>1, <3>2
    <3> HIDE DEF moved
    <3> QED BY <3>3 DEF ToSet
  <2>4. CASE j # Len(list)
    <3>1. j \in 1 .. Len(list) - 1 /\ moved[j] = u
      BY <1>2, <2>1, <2>2, <2>4
    <3>2. Front(moved)[j] = u /\ j \in DOMAIN Front(moved)
      BY <1>4, <3>1
    <3> HIDE DEF moved
    <3> QED BY <3>2 DEF ToSet
  <2> QED BY <2>3, <2>4
<1> HIDE DEF moved
<1> QED BY <1>1, <1>4, <1>5 DEF moved

\* Taking an object that is there to take keeps its count within range.
LEMMA TakeType ==
  ASSUME ObjectType, NEW t \in Threads, NEW o \in WaitObjects, Take(t, o),
         m_Count[o] > 0
  PROVE  ObjectType'
<1> USE WaitObjectAssumption
<1>1. m_Mutex' \in [WaitObjects -> Threads \union {NULL}]
  BY DEF Take, Release, ObjectType
<1>2. /\ m_Count'[o] \in Nat /\ m_Count'[o] <= m_Count[o]
      /\ \A p \in WaitObjects \ {o} : m_Count'[p] = m_Count[p]
      /\ m_Count' = [p \in WaitObjects |-> m_Count'[p]]
  <2> DEFINE left == IF o \in ManualResetEvents THEN m_Count[o]
                     ELSE IF o \in Semaphores THEN m_Count[o] - 1 ELSE 0
  <2>1. m_Count[o] \in Nat \ {0}
    BY DEF ObjectType
  <2>2. left \in Nat /\ left <= m_Count[o]
    BY <2>1
  <2>3. m_Count' = [m_Count EXCEPT ![o] = left]
    BY DEF Take
  <2> HIDE DEF left
  <2> QED BY <2>2, <2>3 DEF ObjectType
<1>3. m_Count' \in [WaitObjects -> Nat]
  BY <1>2 DEF ObjectType
<1>4. \A p \in WaitObjects :
         m_Count'[p] <= IF p \in Semaphores THEN MaximumValue ELSE 1
  BY <1>2 DEF ObjectType
<1> QED BY <1>1, <1>3, <1>4 DEF ObjectType

\* Every step keeps the invariant.
LEMMA WInvStep ==
  ASSUME WInv, [Next]_vars
  PROVE  WInv'
<1> USE WaitObjectAssumption
<1> USE DEF At, Goto, objectv, ownerv, threadv, callv, WaitObjects, Events
<1>1. /\ ObjectType /\ ListType /\ OwnerType /\ ThreadType /\ CallType
      /\ ArgumentInv /\ LockInv /\ ListInv /\ TiedInv /\ SignalInv
      /\ MutexAgreement /\ EventWakesEverybody /\ InterruptIsNotLost
  BY DEF WInv, TypeOK
<1>2. ASSUME NEW t \in Threads, NEW o \in WaitObjects, 
             NEW ms \in Timeouts, NEW intr \in Interruptible,
             Wait(t, o, ms, intr)
      PROVE  WInv'
  <2>1. ObjectType' /\ ListType' /\ OwnerType' /\ ThreadType'
    BY <1>1, <1>2 DEF Wait, ObjectType, ListType, OwnerType, ThreadType
  <2>2. CallType'
    BY <1>1, <1>2 DEF Wait, CallType, ArgumentInv
  <2>3. ArgumentInv'
    BY <1>1, <1>2 DEF Wait, ArgumentInv, CallType
  <2>4. LockInv'
    BY <1>1, <1>2 DEF Wait, LockInv, ObjectType, CallType, ArgumentInv
  <2>5. ListInv'
    BY <1>1, <1>2 DEF Wait, ListInv, CallType, ListType, ArgumentInv
  <2>6. TiedInv'
    BY <1>1, <1>2 DEF Wait, TiedInv, CallType, ThreadType
  <2>7. SignalInv'
    BY <1>1, <1>2 DEF Wait, SignalInv, CallType, ObjectType, ArgumentInv,
           LockInv
  <2>8. MutexAgreement'
    BY <1>1, <1>2 DEF Wait, MutexAgreement, CallType, ObjectType, OwnerType,
           ArgumentInv, LockInv, SignalInv
  <2>9. EventWakesEverybody'
    BY <1>1, <1>2 DEF Wait, EventWakesEverybody, CallType, ObjectType,
           ThreadType, ArgumentInv, LockInv, ListInv
  <2>10. InterruptIsNotLost'
    BY <1>1, <1>2 DEF Wait, InterruptIsNotLost, CallType, ThreadType,
           ArgumentInv, TiedInv
  <2> QED BY <2>1, <2>2, <2>3, <2>4, <2>5, <2>6, <2>7, <2>8, <2>9, <2>10 DEF WInv, TypeOK
<1>3. ASSUME NEW t \in Threads, NEW s \in Semaphores, NEW n \in 1 .. MaximumValue,
             Post(t, s, n)
      PROVE  WInv'
  <2>1. ListType' /\ OwnerType' /\ CallType' /\ ArgumentInv' /\ LockInv'
        /\ ListInv' /\ TiedInv'
    BY <1>1, <1>3 DEF Post, WakeupOneThread, Unlocked, ListType, OwnerType,
           CallType, ArgumentInv, LockInv, ListInv, TiedInv
  <2>2. ObjectType'
    BY <1>1, <1>3 DEF Post, WakeupOneThread, Unlocked, ObjectType,
           ArgumentInv, CallType
  <2>3. ThreadType'
    BY <1>1, <1>3 DEF Post, WakeupOneThread, Unlocked, ThreadType,
           ArgumentInv, CallType
  <2>4. SignalInv'
    BY <1>1, <1>3 DEF Post, WakeupOneThread, Unlocked, SignalInv, CallType,
           ObjectType, ArgumentInv, LockInv
  <2>5. MutexAgreement'
    BY <1>1, <1>3 DEF Post, WakeupOneThread, Unlocked, MutexAgreement,
           CallType, ObjectType, OwnerType, ArgumentInv, LockInv, SignalInv
  <2>6. EventWakesEverybody'
    BY <1>1, <1>3 DEF Post, WakeupOneThread, Unlocked, EventWakesEverybody,
           CallType, ObjectType, ThreadType, ArgumentInv, LockInv, ListInv
  <2>7. InterruptIsNotLost'
    BY <1>1, <1>3 DEF Post, WakeupOneThread, Unlocked, InterruptIsNotLost,
           CallType, ThreadType, ArgumentInv, TiedInv
  <2> QED BY <2>1, <2>2, <2>3, <2>4, <2>5, <2>6, <2>7 DEF WInv, TypeOK
<1>4. ASSUME NEW t \in Threads, NEW e \in Events, Set(t, e)
      PROVE  WInv'
  <2>1. ListType' /\ OwnerType' /\ CallType' /\ ArgumentInv' /\ LockInv'
        /\ ListInv' /\ TiedInv'
    BY <1>1, <1>4 DEF Set, WakeupAllThreads, HaveWaitingThreads, Unlocked,
           ListType, OwnerType, CallType, ArgumentInv, LockInv, ListInv,
           TiedInv
  <2>2. ObjectType'
    BY <1>1, <1>4 DEF Set, WakeupAllThreads, HaveWaitingThreads, Unlocked,
           ObjectType, ArgumentInv, CallType
  <2>3. ThreadType'
    BY <1>1, <1>4 DEF Set, WakeupAllThreads, HaveWaitingThreads, Unlocked,
           ThreadType, ArgumentInv, CallType
  <2>4. SignalInv'
    BY <1>1, <1>4 DEF Set, WakeupAllThreads, HaveWaitingThreads, Unlocked,
           SignalInv, CallType, ObjectType, ArgumentInv, LockInv
  <2>5. MutexAgreement'
    BY <1>1, <1>4 DEF Set, WakeupAllThreads, HaveWaitingThreads, Unlocked,
           MutexAgreement, CallType, ObjectType, OwnerType, ArgumentInv,
           LockInv, SignalInv
  <2>6. EventWakesEverybody'
    <3> SUFFICES ASSUME NEW u \in Threads, At(u, "Asleep"),
                        object[u] \in Events, m_Count'[object[u]] > 0
                 PROVE  m_ConditionSemaphore'[u] = 1
      BY <1>4 DEF Set, EventWakesEverybody
    <3>1. /\ u \in ToSet(m_WaitingThreads[object[u]])
          /\ m_WaitingThreadCount[object[u]]
               = Len(m_WaitingThreads[object[u]])
          /\ m_WaitingThreads[object[u]] \in Seq(Threads)
      BY <1>1 DEF ListInv, ListType
    <3>2. HaveWaitingThreads(object[u])
      BY <3>1 DEF HaveWaitingThreads, ToSet
    <3>3. CASE object[u] = e
      BY <1>4, <3>1, <3>2, <3>3 DEF Set, WakeupAllThreads
    <3>4. CASE object[u] # e
      <4>1. m_ConditionSemaphore[u] = 1
        BY <1>1, <1>4, <3>4 DEF Set, EventWakesEverybody, ObjectType
      <4> QED BY <1>1, <1>4, <4>1 DEF Set, WakeupAllThreads, ThreadType
    <3> QED BY <3>3, <3>4
  <2>7. InterruptIsNotLost'
    BY <1>1, <1>4 DEF Set, WakeupAllThreads, HaveWaitingThreads, Unlocked,
           InterruptIsNotLost, CallType, ThreadType, ArgumentInv, TiedInv
  <2> QED BY <2>1, <2>2, <2>3, <2>4, <2>5, <2>6, <2>7 DEF WInv, TypeOK
<1>5. ASSUME NEW t \in Threads, NEW e \in Events, Reset(t, e)
      PROVE  WInv'
  <2>1. ListType' /\ OwnerType' /\ ThreadType' /\ CallType' /\ ArgumentInv'
        /\ LockInv' /\ ListInv' /\ TiedInv' /\ InterruptIsNotLost'
    BY <1>1, <1>5 DEF Reset, Unlocked, ListType, OwnerType, ThreadType,
           CallType, ArgumentInv, LockInv, ListInv, TiedInv,
           InterruptIsNotLost
  <2>2. ObjectType'
    BY <1>1, <1>5 DEF Reset, Unlocked, ObjectType, ArgumentInv, CallType
  <2>3. SignalInv'
    BY <1>1, <1>5 DEF Reset, Unlocked, SignalInv, CallType, ObjectType,
           ArgumentInv, LockInv
  <2>4. MutexAgreement'
    BY <1>1, <1>5 DEF Reset, Unlocked, MutexAgreement, CallType, ObjectType,
           OwnerType, ArgumentInv, LockInv, SignalInv
  <2>5. EventWakesEverybody'
    BY <1>1, <1>5 DEF Reset, Unlocked, EventWakesEverybody, CallType,
           ObjectType, ThreadType, ArgumentInv, LockInv, ListInv
  <2> QED BY <2>1, <2>2, <2>3, <2>4, <2>5 DEF WInv, TypeOK
<1>6. ASSUME NEW t \in Threads, NEW m \in Mutexes, LockRecursively(t, m)
      PROVE  WInv'
  <2>1. ObjectType' /\ ListType' /\ ThreadType' /\ CallType' /\ ArgumentInv'
        /\ LockInv' /\ ListInv' /\ TiedInv' /\ SignalInv' /\ MutexAgreement'
        /\ EventWakesEverybody' /\ InterruptIsNotLost'
    BY <1>1, <1>6 DEF LockRecursively, ObjectType, ListType, ThreadType,
           CallType, ArgumentInv, LockInv, ListInv, TiedInv, SignalInv,
           MutexAgreement, EventWakesEverybody, InterruptIsNotLost
  <2>2. OwnerType'
    BY <1>1, <1>6 DEF LockRecursively, OwnerType, ArgumentInv, CallType
  <2> QED BY <2>1, <2>2 DEF WInv, TypeOK
<1>7. ASSUME NEW t \in Threads, NEW m \in Mutexes, UnlockRecursive(t, m)
      PROVE  WInv'
  <2>1. ObjectType' /\ ListType' /\ ThreadType' /\ CallType' /\ ArgumentInv'
        /\ LockInv' /\ ListInv' /\ TiedInv' /\ SignalInv' /\ MutexAgreement'
        /\ EventWakesEverybody' /\ InterruptIsNotLost'
    BY <1>1, <1>7 DEF UnlockRecursive, ObjectType, ListType, ThreadType,
           CallType, ArgumentInv, LockInv, ListInv, TiedInv, SignalInv,
           MutexAgreement, EventWakesEverybody, InterruptIsNotLost
  <2>2. OwnerType'
    BY <1>1, <1>7 DEF UnlockRecursive, OwnerType, ArgumentInv, CallType
  <2> QED BY <2>1, <2>2 DEF WInv, TypeOK
<1>8. ASSUME NEW t \in Threads, NEW m \in Mutexes, Unlock(t, m)
      PROVE  WInv'
  <2>1. ListType' /\ CallType' /\ ArgumentInv' /\ LockInv' /\ ListInv'
        /\ TiedInv'
    BY <1>1, <1>8 DEF Unlock, WakeupOneThread, HaveWaitingThreads, Unlocked,
           ListType, CallType, ArgumentInv, LockInv, ListInv, TiedInv
  <2>2. ObjectType'
    BY <1>1, <1>8 DEF Unlock, WakeupOneThread, HaveWaitingThreads, Unlocked,
           ObjectType, ArgumentInv, CallType
  <2>3. OwnerType'
    BY <1>1, <1>8 DEF Unlock, WakeupOneThread, HaveWaitingThreads, Unlocked,
           OwnerType, ArgumentInv, CallType
  <2>4. ThreadType'
    BY <1>1, <1>8 DEF Unlock, WakeupOneThread, HaveWaitingThreads, Unlocked,
           ThreadType, ArgumentInv, CallType
  <2>5. SignalInv'
    BY <1>1, <1>8 DEF Unlock, WakeupOneThread, HaveWaitingThreads, Unlocked,
           SignalInv, CallType, ObjectType, ArgumentInv, LockInv
  <2>6. MutexAgreement'
    BY <1>1, <1>8 DEF Unlock, WakeupOneThread, HaveWaitingThreads, Unlocked,
           MutexAgreement, CallType, ObjectType, OwnerType, ArgumentInv,
           LockInv, SignalInv
  <2>7. EventWakesEverybody'
    BY <1>1, <1>8 DEF Unlock, WakeupOneThread, HaveWaitingThreads, Unlocked,
           EventWakesEverybody, CallType, ObjectType, ThreadType,
           ArgumentInv, LockInv, ListInv
  <2>8. InterruptIsNotLost'
    BY <1>1, <1>8 DEF Unlock, WakeupOneThread, HaveWaitingThreads, Unlocked,
           InterruptIsNotLost, CallType, ThreadType, ArgumentInv, TiedInv
  <2> QED BY <2>1, <2>2, <2>3, <2>4, <2>5, <2>6, <2>7, <2>8 DEF WInv, TypeOK
<1>9. ASSUME NEW t \in Threads, NEW u \in Threads, QueueUserAPC(t, u)
      PROVE  WInv'
  <2>1. ObjectType' /\ ListType' /\ OwnerType'
    BY <1>1, <1>9 DEF QueueUserAPC, ObjectType, ListType, OwnerType
  <2>2. ThreadType'
    BY <1>1, <1>9 DEF QueueUserAPC, ThreadType, ArgumentInv, CallType
  <2>3. CallType'
    BY <1>1, <1>9 DEF QueueUserAPC, CallType, ArgumentInv
  <2>4. ArgumentInv'
    BY <1>1, <1>9 DEF QueueUserAPC, ArgumentInv, CallType
  <2>5. LockInv'
    BY <1>1, <1>9 DEF QueueUserAPC, LockInv, ObjectType, CallType,
           ArgumentInv
  <2>6. ListInv'
    BY <1>1, <1>9 DEF QueueUserAPC, ListInv, CallType, ListType, ArgumentInv
  <2>7. TiedInv'
    BY <1>1, <1>9 DEF QueueUserAPC, TiedInv, CallType, ThreadType
  <2>8. SignalInv'
    BY <1>1, <1>9 DEF QueueUserAPC, SignalInv, CallType, ObjectType,
           ArgumentInv, LockInv
  <2>9. MutexAgreement'
    BY <1>1, <1>9 DEF QueueUserAPC, MutexAgreement, CallType, ObjectType,
           OwnerType, ArgumentInv, LockInv, SignalInv
  <2>10. EventWakesEverybody'
    BY <1>1, <1>9 DEF QueueUserAPC, EventWakesEverybody, CallType,
           ObjectType, ThreadType, ArgumentInv, LockInv, ListInv
  <2>11. InterruptIsNotLost'
    BY <1>1, <1>9 DEF QueueUserAPC, InterruptIsNotLost, CallType, ThreadType,
           ArgumentInv, TiedInv
  <2> QED BY <2>1, <2>2, <2>3, <2>4, <2>5, <2>6, <2>7, <2>8, <2>9, <2>10,
             <2>11 DEF WInv, TypeOK
<1>10. ASSUME NEW t \in Threads, InterruptWait(t)
      PROVE  WInv'
  <2>1. ObjectType' /\ ListType' /\ OwnerType'
    BY <1>1, <1>10 DEF InterruptWait, ObjectType, ListType, OwnerType
  <2>2. ThreadType'
    BY <1>1, <1>10 DEF InterruptWait, ThreadType, ArgumentInv, CallType
  <2>3. CallType'
    BY <1>1, <1>10 DEF InterruptWait, CallType, ArgumentInv
  <2>4. ArgumentInv'
    BY <1>1, <1>10 DEF InterruptWait, ArgumentInv, CallType
  <2>5. LockInv'
    BY <1>1, <1>10 DEF InterruptWait, LockInv, ObjectType, CallType,
           ArgumentInv
  <2>6. ListInv'
    BY <1>1, <1>10 DEF InterruptWait, ListInv, CallType, ListType,
           ArgumentInv
  <2>7. TiedInv'
    BY <1>1, <1>10 DEF InterruptWait, TiedInv, CallType, ThreadType
  <2>8. SignalInv'
    BY <1>1, <1>10 DEF InterruptWait, SignalInv, CallType, ObjectType,
           ArgumentInv, LockInv
  <2>9. MutexAgreement'
    BY <1>1, <1>10 DEF InterruptWait, MutexAgreement, CallType, ObjectType,
           OwnerType, ArgumentInv, LockInv, SignalInv
  <2>10. EventWakesEverybody'
    BY <1>1, <1>10 DEF InterruptWait, EventWakesEverybody, CallType,
           ObjectType, ThreadType, ArgumentInv, LockInv, ListInv
  <2>11. InterruptIsNotLost'
    BY <1>1, <1>10 DEF InterruptWait, InterruptIsNotLost, CallType,
           ThreadType, ArgumentInv, TiedInv
  <2> QED BY <2>1, <2>2, <2>3, <2>4, <2>5, <2>6, <2>7, <2>8, <2>9, <2>10,
             <2>11 DEF WInv, TypeOK
<1>11. ASSUME NEW t \in Threads, HandleAPC(t)
      PROVE  WInv'
  <2>1. ObjectType' /\ ListType' /\ OwnerType' /\ CallType' /\ ArgumentInv'
        /\ LockInv' /\ ListInv' /\ TiedInv' /\ SignalInv' /\ MutexAgreement'
        /\ EventWakesEverybody'
    BY <1>1, <1>11 DEF HandleAPC, PopAPC, ObjectType, ListType, OwnerType,
           CallType, ArgumentInv, LockInv, ListInv, TiedInv, SignalInv,
           MutexAgreement, EventWakesEverybody
  <2>2. ThreadType'
    BY <1>1, <1>11 DEF HandleAPC, PopAPC, ThreadType, ArgumentInv, CallType
  <2>3. InterruptIsNotLost'
    BY <1>1, <1>11 DEF HandleAPC, PopAPC, InterruptIsNotLost, CallType,
           ThreadType, ArgumentInv, TiedInv
  <2> QED BY <2>1, <2>2, <2>3 DEF WInv, TypeOK
<1>12. ASSUME NEW t \in Threads, ThrowUpFront(t)
      PROVE  WInv'
  <2>1. ObjectType' /\ ListType' /\ OwnerType'
    BY <1>1, <1>12 DEF ThrowUpFront, PopAPC, Return, ObjectType, ListType,
           OwnerType
  <2>2. ThreadType'
    BY <1>1, <1>12 DEF ThrowUpFront, PopAPC, Return, ThreadType, ArgumentInv,
           CallType
  <2>3. CallType'
    BY <1>1, <1>12 DEF ThrowUpFront, PopAPC, Return, CallType, ArgumentInv
  <2>4. ArgumentInv'
    BY <1>1, <1>12 DEF ThrowUpFront, PopAPC, Return, ArgumentInv, CallType
  <2>5. LockInv'
    BY <1>1, <1>12 DEF ThrowUpFront, PopAPC, Return, LockInv, ObjectType,
           CallType, ArgumentInv
  <2>6. ListInv'
    BY <1>1, <1>12 DEF ThrowUpFront, PopAPC, Return, ListInv, CallType,
           ListType, ArgumentInv
  <2>7. TiedInv'
    BY <1>1, <1>12 DEF ThrowUpFront, PopAPC, Return, TiedInv, CallType,
           ThreadType
  <2>8. SignalInv'
    BY <1>1, <1>12 DEF ThrowUpFront, PopAPC, Return, SignalInv, CallType,
           ObjectType, ArgumentInv, LockInv
  <2>9. MutexAgreement'
    BY <1>1, <1>12 DEF ThrowUpFront, PopAPC, Return, MutexAgreement,
           CallType, ObjectType, OwnerType, ArgumentInv, LockInv, SignalInv
  <2>10. EventWakesEverybody'
    BY <1>1, <1>12 DEF ThrowUpFront, PopAPC, Return, EventWakesEverybody,
           CallType, ObjectType, ThreadType, ArgumentInv, LockInv, ListInv
  <2>11. InterruptIsNotLost'
    BY <1>1, <1>12 DEF ThrowUpFront, PopAPC, Return, InterruptIsNotLost,
           CallType, ThreadType, ArgumentInv, TiedInv
  <2> QED BY <2>1, <2>2, <2>3, <2>4, <2>5, <2>6, <2>7, <2>8, <2>9, <2>10,
             <2>11 DEF WInv, TypeOK
<1>13. ASSUME NEW t \in Threads, Throw(t)
      PROVE  WInv'
  <2>1. ObjectType' /\ ListType' /\ OwnerType'
    BY <1>1, <1>13 DEF Throw, PopAPC, ObjectType, ListType, OwnerType
  <2>2. ThreadType'
    BY <1>1, <1>13 DEF Throw, PopAPC, ThreadType, ArgumentInv, CallType
  <2>3. CallType'
    BY <1>1, <1>13 DEF Throw, PopAPC, CallType, ArgumentInv
  <2>4. ArgumentInv'
    BY <1>1, <1>13 DEF Throw, PopAPC, ArgumentInv, CallType
  <2>5. LockInv'
    BY <1>1, <1>13 DEF Throw, PopAPC, LockInv, ObjectType, CallType,
           ArgumentInv
  <2>6. ListInv'
    BY <1>1, <1>13 DEF Throw, PopAPC, ListInv, CallType, ListType,
           ArgumentInv
  <2>7. TiedInv'
    BY <1>1, <1>13 DEF Throw, PopAPC, TiedInv, CallType, ThreadType
  <2>8. SignalInv'
    BY <1>1, <1>13 DEF Throw, PopAPC, SignalInv, CallType, ObjectType,
           ArgumentInv, LockInv
  <2>9. MutexAgreement'
    BY <1>1, <1>13 DEF Throw, PopAPC, MutexAgreement, CallType, ObjectType,
           OwnerType, ArgumentInv, LockInv, SignalInv
  <2>10. EventWakesEverybody'
    BY <1>1, <1>13 DEF Throw, PopAPC, EventWakesEverybody, CallType,
           ObjectType, ThreadType, ArgumentInv, LockInv, ListInv
  <2>11. InterruptIsNotLost'
    BY <1>1, <1>13 DEF Throw, PopAPC, InterruptIsNotLost, CallType,
           ThreadType, ArgumentInv, TiedInv
  <2> QED BY <2>1, <2>2, <2>3, <2>4, <2>5, <2>6, <2>7, <2>8, <2>9, <2>10,
             <2>11 DEF WInv, TypeOK
<1>14. ASSUME NEW t \in Threads, UpFront(t)
      PROVE  WInv'
  <2>1. ObjectType' /\ ListType' /\ OwnerType' /\ ThreadType'
    BY <1>1, <1>14 DEF UpFront, NoUserAPC, ObjectType, ListType, OwnerType,
           ThreadType
  <2>2. CallType'
    BY <1>1, <1>14 DEF UpFront, NoUserAPC, CallType, ArgumentInv
  <2>3. ArgumentInv'
    BY <1>1, <1>14 DEF UpFront, NoUserAPC, ArgumentInv, CallType
  <2>4. LockInv'
    BY <1>1, <1>14 DEF UpFront, NoUserAPC, LockInv, ObjectType, CallType,
           ArgumentInv
  <2>5. ListInv'
    BY <1>1, <1>14 DEF UpFront, NoUserAPC, ListInv, CallType, ListType,
           ArgumentInv
  <2>6. TiedInv'
    BY <1>1, <1>14 DEF UpFront, NoUserAPC, TiedInv, CallType, ThreadType
  <2>7. SignalInv'
    BY <1>1, <1>14 DEF UpFront, NoUserAPC, SignalInv, CallType, ObjectType,
           ArgumentInv, LockInv
  <2>8. MutexAgreement'
    BY <1>1, <1>14 DEF UpFront, NoUserAPC, MutexAgreement, CallType,
           ObjectType, OwnerType, ArgumentInv, LockInv, SignalInv
  <2>9. EventWakesEverybody'
    BY <1>1, <1>14 DEF UpFront, NoUserAPC, EventWakesEverybody, CallType,
           ObjectType, ThreadType, ArgumentInv, LockInv, ListInv
  <2>10. InterruptIsNotLost'
    BY <1>1, <1>14 DEF UpFront, NoUserAPC, InterruptIsNotLost, CallType,
           ThreadType, ArgumentInv, TiedInv
  <2> QED BY <2>1, <2>2, <2>3, <2>4, <2>5, <2>6, <2>7, <2>8, <2>9, <2>10 DEF WInv, TypeOK
<1>15. ASSUME NEW t \in Threads, TakeAtOnce(t)
      PROVE  WInv'
  <2>1. ListType'
    BY <1>1, <1>15 DEF TakeAtOnce, Take, Return, Unlocked, Release,
           HaveWaitingThreads, WakeupOneThread, ListType
  <2>2. ObjectType'
    <3> HIDE DEF WaitObjects
    <3>1. object[t] \in WaitObjects /\ m_Count[object[t]] > 0
      BY <1>1, <1>15 DEF TakeAtOnce, ArgumentInv
    <3>2. Take(t, object[t])
      BY <1>15 DEF TakeAtOnce
    <3> QED BY <1>1, <3>1, <3>2, TakeType
  <2>3. OwnerType'
    BY <1>1, <1>15 DEF TakeAtOnce, Take, Return, Unlocked, Release,
           HaveWaitingThreads, WakeupOneThread, OwnerType, ArgumentInv,
           CallType
  <2>4. ThreadType'
    BY <1>1, <1>15 DEF TakeAtOnce, Take, Return, Unlocked, Release,
           HaveWaitingThreads, WakeupOneThread, ThreadType, ArgumentInv,
           CallType
  <2>5. CallType'
    BY <1>1, <1>15 DEF TakeAtOnce, Take, Return, Unlocked, Release,
           HaveWaitingThreads, WakeupOneThread, CallType, ArgumentInv
  <2>6. ArgumentInv'
    BY <1>1, <1>15 DEF TakeAtOnce, Take, Return, Unlocked, Release,
           HaveWaitingThreads, WakeupOneThread, ArgumentInv, CallType
  <2>7. LockInv'
    BY <1>1, <1>15 DEF TakeAtOnce, Take, Return, Unlocked, Release,
           HaveWaitingThreads, WakeupOneThread, LockInv, ObjectType,
           CallType, ArgumentInv
  <2>8. ListInv'
    BY <1>1, <1>15 DEF TakeAtOnce, Take, Return, Unlocked, Release,
           HaveWaitingThreads, WakeupOneThread, ListInv, CallType, ListType,
           ArgumentInv
  <2>9. TiedInv'
    BY <1>1, <1>15 DEF TakeAtOnce, Take, Return, Unlocked, Release,
           HaveWaitingThreads, WakeupOneThread, TiedInv, CallType, ThreadType
  <2>10. SignalInv'
    BY <1>1, <1>15 DEF TakeAtOnce, Take, Return, Unlocked, Release,
           HaveWaitingThreads, WakeupOneThread, SignalInv, CallType,
           ObjectType, ArgumentInv, LockInv
  <2>11. MutexAgreement'
    BY <1>1, <1>15 DEF TakeAtOnce, Take, Return, Unlocked, Release,
           HaveWaitingThreads, WakeupOneThread, MutexAgreement, CallType,
           ObjectType, OwnerType, ArgumentInv, LockInv, SignalInv
  <2>12. EventWakesEverybody'
    BY <1>1, <1>15 DEF TakeAtOnce, Take, Return, Unlocked, Release,
           HaveWaitingThreads, WakeupOneThread, EventWakesEverybody,
           CallType, ObjectType, ThreadType, ArgumentInv, LockInv, ListInv
  <2>13. InterruptIsNotLost'
    BY <1>1, <1>15 DEF TakeAtOnce, Take, Return, Unlocked, Release,
           HaveWaitingThreads, WakeupOneThread, InterruptIsNotLost, CallType,
           ThreadType, ArgumentInv, TiedInv
  <2> QED BY <2>1, <2>2, <2>3, <2>4, <2>5, <2>6, <2>7, <2>8, <2>9, <2>10,
             <2>11, <2>12, <2>13 DEF WInv, TypeOK
<1>16. ASSUME NEW t \in Threads, FailAtOnce(t)
      PROVE  WInv'
  <2>1. ObjectType' /\ ListType' /\ OwnerType' /\ ThreadType'
    BY <1>1, <1>16 DEF FailAtOnce, Return, Unlocked, ObjectType, ListType,
           OwnerType, ThreadType
  <2>2. CallType'
    BY <1>1, <1>16 DEF FailAtOnce, Return, Unlocked, CallType, ArgumentInv
  <2>3. ArgumentInv'
    BY <1>1, <1>16 DEF FailAtOnce, Return, Unlocked, ArgumentInv, CallType
  <2>4. LockInv'
    BY <1>1, <1>16 DEF FailAtOnce, Return, Unlocked, LockInv, ObjectType,
           CallType, ArgumentInv
  <2>5. ListInv'
    BY <1>1, <1>16 DEF FailAtOnce, Return, Unlocked, ListInv, CallType,
           ListType, ArgumentInv
  <2>6. TiedInv'
    BY <1>1, <1>16 DEF FailAtOnce, Return, Unlocked, TiedInv, CallType,
           ThreadType
  <2>7. SignalInv'
    BY <1>1, <1>16 DEF FailAtOnce, Return, Unlocked, SignalInv, CallType,
           ObjectType, ArgumentInv, LockInv
  <2>8. MutexAgreement'
    BY <1>1, <1>16 DEF FailAtOnce, Return, Unlocked, MutexAgreement,
           CallType, ObjectType, OwnerType, ArgumentInv, LockInv, SignalInv
  <2>9. EventWakesEverybody'
    BY <1>1, <1>16 DEF FailAtOnce, Return, Unlocked, EventWakesEverybody,
           CallType, ObjectType, ThreadType, ArgumentInv, LockInv, ListInv
  <2>10. InterruptIsNotLost'
    BY <1>1, <1>16 DEF FailAtOnce, Return, Unlocked, InterruptIsNotLost,
           CallType, ThreadType, ArgumentInv, TiedInv
  <2> QED BY <2>1, <2>2, <2>3, <2>4, <2>5, <2>6, <2>7, <2>8, <2>9, <2>10 DEF WInv, TypeOK
<1>17. ASSUME NEW t \in Threads, Arm(t)
      PROVE  WInv'
  <2>1. ListType' /\ OwnerType'
    BY <1>1, <1>17 DEF Arm, Acquire, Unlocked, SetWaitObject, ListType,
           OwnerType
  <2>2. ObjectType'
    BY <1>1, <1>17 DEF Arm, Acquire, Unlocked, SetWaitObject, ObjectType,
           ArgumentInv, CallType
  <2>3. ThreadType'
    BY <1>1, <1>17 DEF Arm, Acquire, Unlocked, SetWaitObject, ThreadType,
           ArgumentInv, CallType
  <2>4. CallType'
    BY <1>1, <1>17 DEF Arm, Acquire, Unlocked, SetWaitObject, CallType,
           ArgumentInv
  <2>5. ArgumentInv'
    BY <1>1, <1>17 DEF Arm, Acquire, Unlocked, SetWaitObject, ArgumentInv,
           CallType
  <2>6. LockInv'
    BY <1>1, <1>17 DEF Arm, Acquire, Unlocked, SetWaitObject, LockInv,
           ObjectType, CallType, ArgumentInv
  <2>7. ListInv'
    BY <1>1, <1>17 DEF Arm, Acquire, Unlocked, SetWaitObject, ListInv,
           CallType, ListType, ArgumentInv
  <2>8. TiedInv'
    BY <1>1, <1>17 DEF Arm, Acquire, Unlocked, SetWaitObject, TiedInv,
           CallType, ThreadType
  <2>9. SignalInv'
    BY <1>1, <1>17 DEF Arm, Acquire, Unlocked, SetWaitObject, SignalInv,
           CallType, ObjectType, ArgumentInv, LockInv
  <2>10. MutexAgreement'
    BY <1>1, <1>17 DEF Arm, Acquire, Unlocked, SetWaitObject, MutexAgreement,
           CallType, ObjectType, OwnerType, ArgumentInv, LockInv, SignalInv
  <2>11. EventWakesEverybody'
    BY <1>1, <1>17 DEF Arm, Acquire, Unlocked, SetWaitObject,
           EventWakesEverybody, CallType, ObjectType, ThreadType,
           ArgumentInv, LockInv, ListInv
  <2>12. InterruptIsNotLost'
    BY <1>1, <1>17 DEF Arm, Acquire, Unlocked, SetWaitObject,
           InterruptIsNotLost, CallType, ThreadType, ArgumentInv, TiedInv
  <2> QED BY <2>1, <2>2, <2>3, <2>4, <2>5, <2>6, <2>7, <2>8, <2>9, <2>10,
             <2>11, <2>12 DEF WInv, TypeOK
<1>18. ASSUME NEW t \in Threads, Sleep(t)
      PROVE  WInv'
  <2>1. OwnerType' /\ ThreadType'
    BY <1>1, <1>18 DEF Sleep, Release, NoUserAPC, OwnerType, ThreadType
  <2>2. ObjectType'
    BY <1>1, <1>18 DEF Sleep, Release, NoUserAPC, ObjectType, ArgumentInv,
           CallType
  <2>3. ListType'
    BY <1>1, <1>18 DEF Sleep, Release, NoUserAPC, ListType, ArgumentInv,
           CallType
  <2>4. CallType'
    BY <1>1, <1>18 DEF Sleep, Release, NoUserAPC, CallType, ArgumentInv
  <2>5. ArgumentInv'
    BY <1>1, <1>18 DEF Sleep, Release, NoUserAPC, ArgumentInv, CallType
  <2>6. LockInv'
    BY <1>1, <1>18 DEF Sleep, Release, NoUserAPC, LockInv, ObjectType,
           CallType, ArgumentInv
  <2>7. ListInv'
    <3>1. object[t] \in WaitObjects
      BY <1>1, <1>18 DEF Sleep, NoUserAPC, ArgumentInv
    <3> DEFINE list == m_WaitingThreads[object[t]]
    <3>2. list \in Seq(Threads)
      BY <1>1, <3>1 DEF ListType
    <3>3. /\ Len(Append(list, t)) = Len(list) + 1
          /\ ToSet(Append(list, t)) = ToSet(list) \union {t}
      BY <3>2, PushThread
    <3>4. /\ m_WaitingThreads' = [m_WaitingThreads EXCEPT
                                    ![object[t]] = Append(list, t)]
          /\ m_WaitingThreadCount' = [m_WaitingThreadCount EXCEPT
                                        ![object[t]] = @ + 1]
          /\ pc' = [pc EXCEPT ![t] = "Asleep"] /\ object' = object
      BY <1>18 DEF Sleep
    <3>5. \A o \in WaitObjects :
             m_WaitingThreadCount'[o] = Len(m_WaitingThreads'[o])
      BY <1>1, <3>1, <3>3, <3>4 DEF ListInv, ListType
    <3>6. \A u \in Threads : pc'[u] \in {"Asleep", "Relock"} =>
             u \in ToSet(m_WaitingThreads'[object'[u]])
      BY <1>1, <3>1, <3>3, <3>4
         DEF ListInv, ListType, CallType, ArgumentInv
    <3> QED BY <3>5, <3>6 DEF ListInv
  <2>8. TiedInv'
    BY <1>1, <1>18 DEF Sleep, Release, NoUserAPC, TiedInv, CallType,
           ThreadType
  <2>9. SignalInv'
    BY <1>1, <1>18 DEF Sleep, Release, NoUserAPC, SignalInv, CallType,
           ObjectType, ArgumentInv, LockInv
  <2>10. MutexAgreement'
    BY <1>1, <1>18 DEF Sleep, Release, NoUserAPC, MutexAgreement, CallType,
           ObjectType, OwnerType, ArgumentInv, LockInv, SignalInv
  <2>11. EventWakesEverybody'
    BY <1>1, <1>18 DEF Sleep, Release, NoUserAPC, EventWakesEverybody,
           CallType, ObjectType, ThreadType, ArgumentInv, LockInv, ListInv
  <2>12. InterruptIsNotLost'
    BY <1>1, <1>18 DEF Sleep, Release, NoUserAPC, InterruptIsNotLost,
           CallType, ThreadType, ArgumentInv, TiedInv
  <2> QED BY <2>1, <2>2, <2>3, <2>4, <2>5, <2>6, <2>7, <2>8, <2>9, <2>10,
             <2>11, <2>12 DEF WInv, TypeOK
<1>19. ASSUME NEW t \in Threads, Wakeup(t)
      PROVE  WInv'
  <2>1. ObjectType' /\ ListType' /\ OwnerType'
    BY <1>1, <1>19 DEF Wakeup, ObjectType, ListType, OwnerType
  <2>2. ThreadType'
    BY <1>1, <1>19 DEF Wakeup, ThreadType, ArgumentInv, CallType
  <2>3. CallType'
    BY <1>1, <1>19 DEF Wakeup, CallType, ArgumentInv
  <2>4. ArgumentInv'
    BY <1>1, <1>19 DEF Wakeup, ArgumentInv, CallType
  <2>5. LockInv'
    BY <1>1, <1>19 DEF Wakeup, LockInv, ObjectType, CallType, ArgumentInv
  <2>6. ListInv'
    BY <1>1, <1>19 DEF Wakeup, ListInv, CallType, ListType, ArgumentInv
  <2>7. TiedInv'
    BY <1>1, <1>19 DEF Wakeup, TiedInv, CallType, ThreadType
  <2>8. SignalInv'
    BY <1>1, <1>19 DEF Wakeup, SignalInv, CallType, ObjectType, ArgumentInv,
           LockInv
  <2>9. MutexAgreement'
    BY <1>1, <1>19 DEF Wakeup, MutexAgreement, CallType, ObjectType,
           OwnerType, ArgumentInv, LockInv, SignalInv
  <2>10. EventWakesEverybody'
    BY <1>1, <1>19 DEF Wakeup, EventWakesEverybody, CallType, ObjectType,
           ThreadType, ArgumentInv, LockInv, ListInv
  <2>11. InterruptIsNotLost'
    BY <1>1, <1>19 DEF Wakeup, InterruptIsNotLost, CallType, ThreadType,
           ArgumentInv, TiedInv
  <2> QED BY <2>1, <2>2, <2>3, <2>4, <2>5, <2>6, <2>7, <2>8, <2>9, <2>10,
             <2>11 DEF WInv, TypeOK
<1>20. ASSUME NEW t \in Threads, TimeOut(t)
      PROVE  WInv'
  <2>1. ObjectType' /\ ListType' /\ OwnerType' /\ ThreadType'
    BY <1>1, <1>20 DEF TimeOut, ObjectType, ListType, OwnerType, ThreadType
  <2>2. CallType'
    BY <1>1, <1>20 DEF TimeOut, CallType, ArgumentInv
  <2>3. ArgumentInv'
    BY <1>1, <1>20 DEF TimeOut, ArgumentInv, CallType
  <2>4. LockInv'
    BY <1>1, <1>20 DEF TimeOut, LockInv, ObjectType, CallType, ArgumentInv
  <2>5. ListInv'
    BY <1>1, <1>20 DEF TimeOut, ListInv, CallType, ListType, ArgumentInv
  <2>6. TiedInv'
    BY <1>1, <1>20 DEF TimeOut, TiedInv, CallType, ThreadType
  <2>7. SignalInv'
    BY <1>1, <1>20 DEF TimeOut, SignalInv, CallType, ObjectType, ArgumentInv,
           LockInv
  <2>8. MutexAgreement'
    BY <1>1, <1>20 DEF TimeOut, MutexAgreement, CallType, ObjectType,
           OwnerType, ArgumentInv, LockInv, SignalInv
  <2>9. EventWakesEverybody'
    BY <1>1, <1>20 DEF TimeOut, EventWakesEverybody, CallType, ObjectType,
           ThreadType, ArgumentInv, LockInv, ListInv
  <2>10. InterruptIsNotLost'
    BY <1>1, <1>20 DEF TimeOut, InterruptIsNotLost, CallType, ThreadType,
           ArgumentInv, TiedInv
  <2> QED BY <2>1, <2>2, <2>3, <2>4, <2>5, <2>6, <2>7, <2>8, <2>9, <2>10 DEF WInv, TypeOK
<1>21. ASSUME NEW t \in Threads, Relock(t)
      PROVE  WInv'
  <2>1. OwnerType' /\ ThreadType'
    BY <1>1, <1>21 DEF Relock, Acquire, Unlocked, OwnerType, ThreadType
  <2>2. ObjectType'
    BY <1>1, <1>21 DEF Relock, Acquire, Unlocked, ObjectType, ArgumentInv,
           CallType
  <2>3. ListType'
    <3>1. /\ object[t] \in WaitObjects
          /\ m_WaitingThreads[object[t]] \in Seq(Threads)
          /\ t \in ToSet(m_WaitingThreads[object[t]])
      BY <1>1, <1>21 DEF Relock, ArgumentInv, ListType, ListInv
    <3>2. m_WaitingThreadCount[object[t]] - 1 \in Nat
      BY <1>1, <3>1, PopThread DEF ListInv
    <3> QED BY <1>1, <1>21, <3>1, <3>2, PopThread DEF Relock, ListType
  <2>4. CallType'
    BY <1>1, <1>21 DEF Relock, Acquire, Unlocked, CallType, ArgumentInv
  <2>5. ArgumentInv'
    BY <1>1, <1>21 DEF Relock, Acquire, Unlocked, ArgumentInv, CallType
  <2>6. LockInv'
    BY <1>1, <1>21 DEF Relock, Acquire, Unlocked, LockInv, ObjectType,
           CallType, ArgumentInv
  <2>7. ListInv'
    <3>1. /\ object[t] \in WaitObjects
          /\ m_WaitingThreads[object[t]] \in Seq(Threads)
          /\ t \in ToSet(m_WaitingThreads[object[t]])
      BY <1>1, <1>21 DEF Relock, ArgumentInv, ListType, ListInv
    <3> DEFINE list == PopThreadFromWaitersList(
                           m_WaitingThreads[object[t]], t)
    <3>2. /\ Len(list) = Len(m_WaitingThreads[object[t]]) - 1
          /\ \A u \in ToSet(m_WaitingThreads[object[t]]) \ {t} :
                u \in ToSet(list)
      BY <3>1, PopThread
    <3>3. /\ m_WaitingThreads' = [m_WaitingThreads EXCEPT
                                    ![object[t]] = list]
          /\ m_WaitingThreadCount' = [m_WaitingThreadCount EXCEPT
                                        ![object[t]] = @ - 1]
          /\ object' = object
          /\ pc'[t] \in {"Disarm", "Armed"}
          /\ \A u \in Threads \ {t} : pc'[u] = pc[u]
      BY <1>1, <1>21 DEF Relock, CallType
    <3> HIDE DEF list
    <3>4. \A o \in WaitObjects :
             m_WaitingThreadCount'[o] = Len(m_WaitingThreads'[o])
      BY <1>1, <3>1, <3>2, <3>3 DEF ListInv, ListType
    <3>5. \A u \in Threads : pc'[u] \in {"Asleep", "Relock"} =>
             u \in ToSet(m_WaitingThreads'[object'[u]])
      BY <1>1, <3>1, <3>2, <3>3 DEF ListInv, ListType, ArgumentInv
    <3> QED BY <3>4, <3>5 DEF ListInv
  <2>8. TiedInv'
    BY <1>1, <1>21 DEF Relock, Acquire, Unlocked, TiedInv, CallType,
           ThreadType
  <2>9. SignalInv'
    BY <1>1, <1>21 DEF Relock, Acquire, Unlocked, SignalInv, CallType,
           ObjectType, ArgumentInv, LockInv
  <2>10. MutexAgreement'
    BY <1>1, <1>21 DEF Relock, Acquire, Unlocked, MutexAgreement, CallType,
           ObjectType, OwnerType, ArgumentInv, LockInv, SignalInv
  <2>11. EventWakesEverybody'
    BY <1>1, <1>21 DEF Relock, Acquire, Unlocked, EventWakesEverybody,
           CallType, ObjectType, ThreadType, ArgumentInv, LockInv, ListInv
  <2>12. InterruptIsNotLost'
    BY <1>1, <1>21 DEF Relock, Acquire, Unlocked, InterruptIsNotLost,
           CallType, ThreadType, ArgumentInv, TiedInv
  <2> QED BY <2>1, <2>2, <2>3, <2>4, <2>5, <2>6, <2>7, <2>8, <2>9, <2>10,
             <2>11, <2>12 DEF WInv, TypeOK
<1>22. ASSUME NEW t \in Threads, Signalled(t)
      PROVE  WInv'
  <2>1. ObjectType' /\ ListType' /\ OwnerType' /\ ThreadType'
    BY <1>1, <1>22 DEF Signalled, NoUserAPC, ObjectType, ListType, OwnerType,
           ThreadType
  <2>2. CallType'
    BY <1>1, <1>22 DEF Signalled, NoUserAPC, CallType, ArgumentInv
  <2>3. ArgumentInv'
    BY <1>1, <1>22 DEF Signalled, NoUserAPC, ArgumentInv, CallType
  <2>4. LockInv'
    BY <1>1, <1>22 DEF Signalled, NoUserAPC, LockInv, ObjectType, CallType,
           ArgumentInv
  <2>5. ListInv'
    BY <1>1, <1>22 DEF Signalled, NoUserAPC, ListInv, CallType, ListType,
           ArgumentInv
  <2>6. TiedInv'
    BY <1>1, <1>22 DEF Signalled, NoUserAPC, TiedInv, CallType, ThreadType
  <2>7. SignalInv'
    BY <1>1, <1>22 DEF Signalled, NoUserAPC, SignalInv, CallType, ObjectType,
           ArgumentInv, LockInv
  <2>8. MutexAgreement'
    BY <1>1, <1>22 DEF Signalled, NoUserAPC, MutexAgreement, CallType,
           ObjectType, OwnerType, ArgumentInv, LockInv, SignalInv
  <2>9. EventWakesEverybody'
    BY <1>1, <1>22 DEF Signalled, NoUserAPC, EventWakesEverybody, CallType,
           ObjectType, ThreadType, ArgumentInv, LockInv, ListInv
  <2>10. InterruptIsNotLost'
    BY <1>1, <1>22 DEF Signalled, NoUserAPC, InterruptIsNotLost, CallType,
           ThreadType, ArgumentInv, TiedInv
  <2> QED BY <2>1, <2>2, <2>3, <2>4, <2>5, <2>6, <2>7, <2>8, <2>9, <2>10 DEF WInv, TypeOK
<1>23. ASSUME NEW t \in Threads, Disarm(t)
      PROVE  WInv'
  <2>1. ObjectType' /\ ListType' /\ OwnerType'
    BY <1>1, <1>23 DEF Disarm, SetWaitObject, ObjectType, ListType, OwnerType
  <2>2. ThreadType'
    BY <1>1, <1>23 DEF Disarm, SetWaitObject, ThreadType, ArgumentInv,
           CallType
  <2>3. CallType'
    BY <1>1, <1>23 DEF Disarm, SetWaitObject, CallType, ArgumentInv
  <2>4. ArgumentInv'
    BY <1>1, <1>23 DEF Disarm, SetWaitObject, ArgumentInv, CallType
  <2>5. LockInv'
    BY <1>1, <1>23 DEF Disarm, SetWaitObject, LockInv, ObjectType, CallType,
           ArgumentInv
  <2>6. ListInv'
    BY <1>1, <1>23 DEF Disarm, SetWaitObject, ListInv, CallType, ListType,
           ArgumentInv
  <2>7. TiedInv'
    BY <1>1, <1>23 DEF Disarm, SetWaitObject, TiedInv, CallType, ThreadType
  <2>8. SignalInv'
    BY <1>1, <1>23 DEF Disarm, SetWaitObject, SignalInv, CallType,
           ObjectType, ArgumentInv, LockInv
  <2>9. MutexAgreement'
    BY <1>1, <1>23 DEF Disarm, SetWaitObject, MutexAgreement, CallType,
           ObjectType, OwnerType, ArgumentInv, LockInv, SignalInv
  <2>10. EventWakesEverybody'
    BY <1>1, <1>23 DEF Disarm, SetWaitObject, EventWakesEverybody, CallType,
           ObjectType, ThreadType, ArgumentInv, LockInv, ListInv
  <2>11. InterruptIsNotLost'
    BY <1>1, <1>23 DEF Disarm, SetWaitObject, InterruptIsNotLost, CallType,
           ThreadType, ArgumentInv, TiedInv
  <2> QED BY <2>1, <2>2, <2>3, <2>4, <2>5, <2>6, <2>7, <2>8, <2>9, <2>10,
             <2>11 DEF WInv, TypeOK
<1>24. ASSUME NEW t \in Threads, GiveUp(t)
      PROVE  WInv'
  <2>1. ListType' /\ OwnerType' /\ ThreadType'
    BY <1>1, <1>24 DEF GiveUp, NoUserAPC, Release, Return, ListType,
           OwnerType, ThreadType
  <2>2. ObjectType'
    BY <1>1, <1>24 DEF GiveUp, NoUserAPC, Release, Return, ObjectType,
           ArgumentInv, CallType
  <2>3. CallType'
    BY <1>1, <1>24 DEF GiveUp, NoUserAPC, Release, Return, CallType,
           ArgumentInv
  <2>4. ArgumentInv'
    BY <1>1, <1>24 DEF GiveUp, NoUserAPC, Release, Return, ArgumentInv,
           CallType
  <2>5. LockInv'
    BY <1>1, <1>24 DEF GiveUp, NoUserAPC, Release, Return, LockInv,
           ObjectType, CallType, ArgumentInv
  <2>6. ListInv'
    BY <1>1, <1>24 DEF GiveUp, NoUserAPC, Release, Return, ListInv, CallType,
           ListType, ArgumentInv
  <2>7. TiedInv'
    BY <1>1, <1>24 DEF GiveUp, NoUserAPC, Release, Return, TiedInv, CallType,
           ThreadType
  <2>8. SignalInv'
    BY <1>1, <1>24 DEF GiveUp, NoUserAPC, Release, Return, SignalInv,
           CallType, ObjectType, ArgumentInv, LockInv
  <2>9. MutexAgreement'
    BY <1>1, <1>24 DEF GiveUp, NoUserAPC, Release, Return, MutexAgreement,
           CallType, ObjectType, OwnerType, ArgumentInv, LockInv, SignalInv
  <2>10. EventWakesEverybody'
    BY <1>1, <1>24 DEF GiveUp, NoUserAPC, Release, Return,
           EventWakesEverybody, CallType, ObjectType, ThreadType,
           ArgumentInv, LockInv, ListInv
  <2>11. InterruptIsNotLost'
    BY <1>1, <1>24 DEF GiveUp, NoUserAPC, Release, Return,
           InterruptIsNotLost, CallType, ThreadType, ArgumentInv, TiedInv
  <2> QED BY <2>1, <2>2, <2>3, <2>4, <2>5, <2>6, <2>7, <2>8, <2>9, <2>10,
             <2>11 DEF WInv, TypeOK
<1>25. ASSUME NEW t \in Threads, TakeAtLast(t)
      PROVE  WInv'
  <2>1. ListType'
    BY <1>1, <1>25 DEF TakeAtLast, NoUserAPC, Take, Return, Release,
           HaveWaitingThreads, WakeupOneThread, ListType
  <2>2. ObjectType'
    <3> HIDE DEF WaitObjects
    <3>1. object[t] \in WaitObjects /\ m_Count[object[t]] > 0
      BY <1>1, <1>25 DEF TakeAtLast, NoUserAPC, ArgumentInv, MutexAgreement
    <3>2. Take(t, object[t])
      BY <1>25 DEF TakeAtLast
    <3> QED BY <1>1, <3>1, <3>2, TakeType
  <2>3. OwnerType'
    BY <1>1, <1>25 DEF TakeAtLast, NoUserAPC, Take, Return, Release,
           HaveWaitingThreads, WakeupOneThread, OwnerType, ArgumentInv,
           CallType
  <2>4. ThreadType'
    BY <1>1, <1>25 DEF TakeAtLast, NoUserAPC, Take, Return, Release,
           HaveWaitingThreads, WakeupOneThread, ThreadType, ArgumentInv,
           CallType
  <2>5. CallType'
    BY <1>1, <1>25 DEF TakeAtLast, NoUserAPC, Take, Return, Release,
           HaveWaitingThreads, WakeupOneThread, CallType, ArgumentInv
  <2>6. ArgumentInv'
    BY <1>1, <1>25 DEF TakeAtLast, NoUserAPC, Take, Return, Release,
           HaveWaitingThreads, WakeupOneThread, ArgumentInv, CallType
  <2>7. LockInv'
    BY <1>1, <1>25 DEF TakeAtLast, NoUserAPC, Take, Return, Release,
           HaveWaitingThreads, WakeupOneThread, LockInv, ObjectType,
           CallType, ArgumentInv
  <2>8. ListInv'
    BY <1>1, <1>25 DEF TakeAtLast, NoUserAPC, Take, Return, Release,
           HaveWaitingThreads, WakeupOneThread, ListInv, CallType, ListType,
           ArgumentInv
  <2>9. TiedInv'
    BY <1>1, <1>25 DEF TakeAtLast, NoUserAPC, Take, Return, Release,
           HaveWaitingThreads, WakeupOneThread, TiedInv, CallType, ThreadType
  <2>10. SignalInv'
    BY <1>1, <1>25 DEF TakeAtLast, NoUserAPC, Take, Return, Release,
           HaveWaitingThreads, WakeupOneThread, SignalInv, CallType,
           ObjectType, ArgumentInv, LockInv
  <2>11. MutexAgreement'
    BY <1>1, <1>25 DEF TakeAtLast, NoUserAPC, Take, Return, Release,
           HaveWaitingThreads, WakeupOneThread, MutexAgreement, CallType,
           ObjectType, OwnerType, ArgumentInv, LockInv, SignalInv
  <2>12. EventWakesEverybody'
    BY <1>1, <1>25 DEF TakeAtLast, NoUserAPC, Take, Return, Release,
           HaveWaitingThreads, WakeupOneThread, EventWakesEverybody,
           CallType, ObjectType, ThreadType, ArgumentInv, LockInv, ListInv
  <2>13. InterruptIsNotLost'
    BY <1>1, <1>25 DEF TakeAtLast, NoUserAPC, Take, Return, Release,
           HaveWaitingThreads, WakeupOneThread, InterruptIsNotLost, CallType,
           ThreadType, ArgumentInv, TiedInv
  <2> QED BY <2>1, <2>2, <2>3, <2>4, <2>5, <2>6, <2>7, <2>8, <2>9, <2>10,
             <2>11, <2>12, <2>13 DEF WInv, TypeOK
<1>26. ASSUME NEW t \in Threads, Rethrow(t)
      PROVE  WInv'
  <2>1. ListType' /\ OwnerType'
    BY <1>1, <1>26 DEF Rethrow, SetWaitObject, Release, Return, ListType,
           OwnerType
  <2>2. ObjectType'
    BY <1>1, <1>26 DEF Rethrow, SetWaitObject, Release, Return, ObjectType,
           ArgumentInv, CallType
  <2>3. ThreadType'
    BY <1>1, <1>26 DEF Rethrow, SetWaitObject, Release, Return, ThreadType,
           ArgumentInv, CallType
  <2>4. CallType'
    BY <1>1, <1>26 DEF Rethrow, SetWaitObject, Release, Return, CallType,
           ArgumentInv
  <2>5. ArgumentInv'
    BY <1>1, <1>26 DEF Rethrow, SetWaitObject, Release, Return, ArgumentInv,
           CallType
  <2>6. LockInv'
    BY <1>1, <1>26 DEF Rethrow, SetWaitObject, Release, Return, LockInv,
           ObjectType, CallType, ArgumentInv
  <2>7. ListInv'
    BY <1>1, <1>26 DEF Rethrow, SetWaitObject, Release, Return, ListInv,
           CallType, ListType, ArgumentInv
  <2>8. TiedInv'
    BY <1>1, <1>26 DEF Rethrow, SetWaitObject, Release, Return, TiedInv,
           CallType, ThreadType
  <2>9. SignalInv'
    BY <1>1, <1>26 DEF Rethrow, SetWaitObject, Release, Return, SignalInv,
           CallType, ObjectType, ArgumentInv, LockInv
  <2>10. MutexAgreement'
    BY <1>1, <1>26 DEF Rethrow, SetWaitObject, Release, Return,
           MutexAgreement, CallType, ObjectType, OwnerType, ArgumentInv,
           LockInv, SignalInv
  <2>11. EventWakesEverybody'
    BY <1>1, <1>26 DEF Rethrow, SetWaitObject, Release, Return,
           EventWakesEverybody, CallType, ObjectType, ThreadType,
           ArgumentInv, LockInv, ListInv
  <2>12. InterruptIsNotLost'
    BY <1>1, <1>26 DEF Rethrow, SetWaitObject, Release, Return,
           InterruptIsNotLost, CallType, ThreadType, ArgumentInv, TiedInv
  <2> QED BY <2>1, <2>2, <2>3, <2>4, <2>5, <2>6, <2>7, <2>8, <2>9, <2>10,
             <2>11, <2>12 DEF WInv, TypeOK
<1>27. CASE UNCHANGED vars
  BY <1>1, <1>27
     DEF vars, WInv, TypeOK, ObjectType, ListType, OwnerType, ThreadType,
         CallType, ArgumentInv, LockInv, ListInv, TiedInv, SignalInv,
         MutexAgreement, EventWakesEverybody, InterruptIsNotLost
<1> QED
  BY <1>2, <1>3, <1>4, <1>5, <1>6, <1>7, <1>8, <1>9, <1>10, <1>11, <1>12,
     <1>13, <1>14, <1>15, <1>16, <1>17, <1>18, <1>19, <1>20, <1>21, <1>22,
     <1>23, <1>24, <1>25, <1>26, <1>27
  DEF Next, Call, WaitStep

\* What the lists of waiters, the threads' semaphores and the objects' counts
\* have to do with each other (WaitObject::Wait, WakeupThreads, QueueUserAPC).
THEOREM InductiveInvariant == Spec => []WInv
<1>1. WInv /\ [Next]_vars => WInv'
  BY WInvStep
<1> QED BY WInvInit, <1>1, PTL DEF Spec

\* The state of the wait objects is well formed, whatever their clients do:
\* SemaphoreImpl::Post respects the maximum, m_WaitingThreadCount never
\* underflows, and no event or mutex is released past 1.
THEOREM TypeCorrect == Spec => []TypeOK
<1>1. WInv /\ [Next]_vars => WInv'
  BY WInvStep
<1>2. WInv => TypeOK
  BY DEF WInv
<1> QED BY WInvInit, <1>1, <1>2, PTL DEF Spec

\* MutexImpl and the end of WaitObject::Wait: their assertions never fail.
THEOREM MutexTheorem == Spec => []MutexAgreement
<1>1. WInv /\ [Next]_vars => WInv'
  BY WInvStep
<1>2. WInv => MutexAgreement
  BY DEF WInv
<1> QED BY WInvInit, <1>1, <1>2, PTL DEF Spec

\* EventImpl::Set leaves no thread asleep.
THEOREM EventTheorem == Spec => []EventWakesEverybody
<1>1. WInv /\ [Next]_vars => WInv'
  BY WInvStep
<1>2. WInv => EventWakesEverybody
  BY DEF WInv
<1> QED BY WInvInit, <1>1, <1>2, PTL DEF Spec

\* ThreadImpl::QueueUserAPC and WaitObject::Wait: no APC is slept over.
THEOREM InterruptTheorem == Spec => []InterruptIsNotLost
<1>1. WInv /\ [Next]_vars => WInv'
  BY WInvStep
<1>2. WInv => InterruptIsNotLost
  BY DEF WInv
<1> QED BY WInvInit, <1>1, <1>2, PTL DEF Spec

----------------------------------------------------------------------------
(* The signals of mutexes and semaphores, for clients whose waits are never *)
(* cut short.                                                               *)
PatientClient == "finite" \notin Timeouts /\ ~APCsThrow

PatientInv ==
    \A t \in Threads :
        timeoutMS[t] # "finite" /\ waitStatus[t] = "success" /\ pc[t] # "Throwing"

Once(list) == \A i, j \in DOMAIN list : list[i] = list[j] => i = j

\* A list holds the threads that sleep on its object, each of them once.
MemberInv ==
    \A o \in WaitObjects :
        /\ \A u \in Threads :
              u \in ToSet(m_WaitingThreads[o]) => object[u] = o /\ pc[u] \in {"Asleep", "Relock"}
        /\ Once(m_WaitingThreads[o])

\* The thread is on the way to take the object.
Claiming(u, o) ==
    /\ object[u] = o
    /\ \/ pc[u] = "Asleep" /\ m_ConditionSemaphore[u] = 1
       \/ pc[u] \in {"Relock", "Armed", "Disarm", "LastCheck"}

Signalling == Mutexes \union Semaphores

\* Some step of thread t.
StepOf(t) == Call(t) \/ WaitStep(t) \/ \E m \in Mutexes : Unlock(t, m)

\* Of another thread a step changes at most the semaphore, which it releases.
OnlySelf(t) ==
    \A u \in Threads : u # t =>
        /\ pc'[u] = pc[u] /\ object'[u] = object[u]
        /\ timeoutMS'[u] = timeoutMS[u] /\ waitStatus'[u] = waitStatus[u]
        /\ m_ConditionSemaphore'[u] \in {m_ConditionSemaphore[u], 1}

LEMMA StepsAreLocal ==
  ASSUME TypeOK, NEW t \in Threads, StepOf(t)
  PROVE  OnlySelf(t)
<1>. USE WaitObjectAssumption
     DEF TypeOK, ThreadType, CallType, OnlySelf, At, Goto, Return, threadv, callv
<1>1. CASE Call(t)
  BY <1>1 DEF Call, Wait, Post, Set, Reset, LockRecursively, UnlockRecursive, QueueUserAPC,
              WakeupOneThread, WakeupAllThreads
<1>2. CASE FailAtOnce(t) \/ GiveUp(t) \/ Rethrow(t)
  <2>1. Return(t) /\ UNCHANGED m_ConditionSemaphore
    BY <1>2 DEF FailAtOnce, GiveUp, Rethrow
  <2>. QED  BY <2>1
<1>3. CASE UpFront(t) \/ Arm(t) \/ Sleep(t) \/ TimeOut(t) \/ Relock(t) \/ Signalled(t)
           \/ Disarm(t) \/ Wakeup(t)
  <2>1. CASE UpFront(t) \/ Arm(t) \/ Sleep(t) \/ Signalled(t) \/ Disarm(t)
    <3>1. UNCHANGED <<object, timeoutMS, waitStatus, m_ConditionSemaphore>>
      BY <2>1 DEF UpFront, Arm, Sleep, Signalled, Disarm
    <3>2. \A u \in Threads : u # t => pc'[u] = pc[u]
      <4>1. CASE UpFront(t) \/ Arm(t)
        BY <4>1 DEF UpFront, Arm
      <4>2. CASE Sleep(t)
        BY <4>2 DEF Sleep
      <4>3. CASE Signalled(t) \/ Disarm(t)
        BY <4>3 DEF Signalled, Disarm
      <4>. QED  BY <2>1, <4>1, <4>2, <4>3
    <3>. QED  BY <3>1, <3>2
  <2>2. CASE Relock(t)
    BY <2>2 DEF Relock
  <2>3. CASE TimeOut(t)
    BY <2>3 DEF TimeOut
  <2>4. CASE Wakeup(t)
    BY <2>4 DEF Wakeup
  <2>. QED  BY <1>3, <2>1, <2>2, <2>3, <2>4
<1>4. CASE InterruptWait(t)
  BY <1>4 DEF InterruptWait
<1>5. CASE TakeAtOnce(t) \/ TakeAtLast(t)
  BY <1>5 DEF TakeAtOnce, TakeAtLast, Take, WakeupOneThread
<1>6. CASE HandleAPC(t) \/ ThrowUpFront(t) \/ Throw(t)
  BY <1>6 DEF HandleAPC, ThrowUpFront, Throw, PopAPC
<1>7. CASE \E m \in Mutexes : Unlock(t, m)
  BY <1>7 DEF Unlock, WakeupOneThread
<1>. QED  BY <1>1, <1>2, <1>3, <1>4, <1>5, <1>6, <1>7 DEF StepOf, WaitStep

LEMMA PatientKept ==
  ASSUME PatientClient, TypeOK, PatientInv, NEW t \in Threads, StepOf(t)
  PROVE  PatientInv'
<1>. USE DEF PatientClient, PatientInv, TypeOK, CallType, At, Goto, Return, callv
<1>1. OnlySelf(t) /\ ~TimeOut(t) /\ ~Throw(t)
  BY StepsAreLocal DEF TimeOut, Throw
<1>2. timeoutMS'[t] # "finite" /\ waitStatus'[t] = "success" /\ pc'[t] # "Throwing"
  <2>1. CASE Call(t)
    BY <2>1 DEF Call, Wait, Post, Set, Reset, LockRecursively, UnlockRecursive, QueueUserAPC
  <2>2. CASE UpFront(t) \/ FailAtOnce(t) \/ Arm(t) \/ Sleep(t) \/ Relock(t) \/ Signalled(t)
             \/ Disarm(t) \/ GiveUp(t) \/ Rethrow(t) \/ Wakeup(t) \/ InterruptWait(t)
    BY <2>2 DEF UpFront, FailAtOnce, Arm, Sleep, Relock, Signalled, Disarm, GiveUp, Rethrow,
                Wakeup, InterruptWait
  <2>3. CASE TakeAtOnce(t) \/ TakeAtLast(t) \/ HandleAPC(t) \/ ThrowUpFront(t)
    BY <2>3 DEF TakeAtOnce, TakeAtLast, Take, HandleAPC, ThrowUpFront, PopAPC
  <2>4. CASE \E m \in Mutexes : Unlock(t, m)
    BY <2>4 DEF Unlock
  <2>. QED  BY <1>1, <2>1, <2>2, <2>3, <2>4 DEF StepOf, WaitStep
<1>. QED  BY <1>1, <1>2 DEF OnlySelf

----------------------------------------------------------------------------
(* The lists.                                                               *)
LEMMA PushOnce ==
  ASSUME NEW list \in Seq(Threads), NEW t \in Threads, t \notin ToSet(list), Once(list)
  PROVE  Once(Append(list, t))
<1>1. \A i \in 1 .. Len(list) : list[i] # t
  BY DEF ToSet
<1>2. DOMAIN Append(list, t) = 1 .. Len(list) + 1 /\ DOMAIN list = 1 .. Len(list)
  OBVIOUS
<1>3. /\ \A i \in 1 .. Len(list) : Append(list, t)[i] = list[i]
      /\ Append(list, t)[Len(list) + 1] = t
  OBVIOUS
<1>. QED  BY <1>1, <1>2, <1>3 DEF Once

\* What erase_swap_back leaves of a list without duplicates: t is gone.
LEMMA PopOnce ==
  ASSUME NEW list \in Seq(Threads), NEW t \in ToSet(list), Once(list)
  PROVE  /\ Once(PopThreadFromWaitersList(list, t))
         /\ \A u \in ToSet(PopThreadFromWaitersList(list, t)) : u \in ToSet(list) /\ u # t
<1>1. PICK i \in DOMAIN list :
         /\ list[i] = t
         /\ PopThreadFromWaitersList(list, t) = Front([list EXCEPT ![i] = Last(list)])
  BY DEF PopThreadFromWaitersList, ToSet
<1>. DEFINE n == Len(list)
            popped == Front([list EXCEPT ![i] = Last(list)])
<1>2. n \in Nat \ {0} /\ DOMAIN list = 1 .. n /\ i \in 1 .. n
  BY <1>1
<1>3. DOMAIN popped = 1 .. n - 1 /\ \A j \in 1 .. n - 1 : popped[j] = IF j = i THEN list[n] ELSE list[j]
  BY <1>2 DEF Front, Last
<1>. HIDE DEF popped
<1>4. \A j \in 1 .. n - 1 : popped[j] # t /\ \E k \in 1 .. n : popped[j] = list[k]
  BY <1>1, <1>2, <1>3 DEF Once
<1>5. Once(popped)
  <2>. SUFFICES ASSUME NEW j \in 1 .. n - 1, NEW k \in 1 .. n - 1, popped[j] = popped[k]
                PROVE  j = k
    BY <1>3 DEF Once
  <2>. QED  BY <1>2, <1>3 DEF Once
<1>6. \A u \in ToSet(popped) : u \in ToSet(list) /\ u # t
  BY <1>2, <1>3, <1>4 DEF ToSet
<1>. QED  BY <1>1, <1>5, <1>6 DEF popped

\* Every step but Sleep and Relock leaves the lists as they are.
ListAside(t) ==
    /\ UNCHANGED m_WaitingThreads
    /\ pc[t] \in {"Asleep", "Relock"} => pc'[t] \in {"Asleep", "Relock"} /\ object'[t] = object[t]

LEMMA ListAsideSteps ==
  ASSUME TypeOK, NEW t \in Threads, StepOf(t)
  PROVE  ListAside(t) \/ Sleep(t) \/ Relock(t)
<1>. USE DEF TypeOK, CallType, ListAside, At, Goto, objectv, callv
<1>1. CASE Call(t)
  BY <1>1 DEF Call, Wait, Post, Set, Reset, LockRecursively, UnlockRecursive, QueueUserAPC
<1>2. CASE UpFront(t) \/ FailAtOnce(t) \/ Arm(t) \/ TimeOut(t) \/ Signalled(t) \/ Disarm(t)
           \/ GiveUp(t) \/ Rethrow(t) \/ Wakeup(t) \/ InterruptWait(t)
  BY <1>2 DEF UpFront, FailAtOnce, Arm, TimeOut, Signalled, Disarm, GiveUp, Rethrow, Wakeup,
              InterruptWait, NoUserAPC
<1>3. CASE TakeAtOnce(t) \/ TakeAtLast(t) \/ HandleAPC(t) \/ ThrowUpFront(t) \/ Throw(t)
  BY <1>3 DEF TakeAtOnce, TakeAtLast, Take, HandleAPC, ThrowUpFront, Throw, PopAPC, NoUserAPC
<1>4. CASE \E m \in Mutexes : Unlock(t, m)
  BY <1>4 DEF Unlock
<1>. QED  BY <1>1, <1>2, <1>3, <1>4 DEF StepOf, WaitStep

LEMMA MembersKept ==
  ASSUME WInv, MemberInv, NEW t \in Threads, StepOf(t)
  PROVE  MemberInv'
<1>1. TypeOK /\ OnlySelf(t)
  BY StepsAreLocal DEF WInv
<1>2. CASE ListAside(t)
  BY <1>1, <1>2 DEF ListAside, MemberInv, OnlySelf
<1>3. CASE Sleep(t)
  <2>1. /\ pc[t] = "Armed" /\ object[t] \in WaitObjects
        /\ pc'[t] = "Asleep" /\ object'[t] = object[t]
    BY <1>1, <1>3
       DEF Sleep, NoUserAPC, At, Goto, callv, TypeOK, CallType, WInv, ArgumentInv
  <2>2. \A o \in WaitObjects : t \notin ToSet(m_WaitingThreads[o])
    BY <2>1 DEF MemberInv
  <2>3. ASSUME NEW o \in WaitObjects, o # object[t]
        PROVE  m_WaitingThreads'[o] = m_WaitingThreads[o]
    BY <1>1, <1>3, <2>3 DEF Sleep, TypeOK, ListType
  <2>4. m_WaitingThreads'[object[t]] = Append(m_WaitingThreads[object[t]], t)
    BY <1>1, <1>3, <2>1 DEF Sleep, TypeOK, ListType
  <2>5. /\ Once(m_WaitingThreads'[object[t]])
        /\ ToSet(m_WaitingThreads'[object[t]]) = ToSet(m_WaitingThreads[object[t]]) \union {t}
    BY <1>1, <2>1, <2>2, <2>4, PushOnce, PushThread DEF TypeOK, ListType, MemberInv
  <2>6. ASSUME NEW o \in WaitObjects
        PROVE  /\ Once(m_WaitingThreads'[o])
               /\ \A u \in Threads : u \in ToSet(m_WaitingThreads'[o]) =>
                     u \in ToSet(m_WaitingThreads[o]) \/ (u = t /\ o = object[t])
    BY <2>3, <2>5 DEF MemberInv
  <2>. QED  BY <1>1, <2>1, <2>2, <2>6 DEF MemberInv, OnlySelf
<1>4. CASE Relock(t)
  <2>1. object[t] \in WaitObjects /\ t \in ToSet(m_WaitingThreads[object[t]])
    BY <1>4 DEF Relock, At, WInv, ArgumentInv, ListInv
  <2>2. ASSUME NEW o \in WaitObjects, o # object[t]
        PROVE  m_WaitingThreads'[o] = m_WaitingThreads[o]
    BY <1>1, <1>4, <2>2 DEF Relock, TypeOK, ListType
  <2>3. m_WaitingThreads'[object[t]] = PopThreadFromWaitersList(m_WaitingThreads[object[t]], t)
    BY <1>1, <1>4, <2>1 DEF Relock, TypeOK, ListType
  <2>4. /\ Once(m_WaitingThreads'[object[t]])
        /\ \A u \in ToSet(m_WaitingThreads'[object[t]]) :
              u \in ToSet(m_WaitingThreads[object[t]]) /\ u # t
    BY <1>1, <2>1, <2>3, PopOnce DEF TypeOK, ListType, MemberInv
  <2>5. ASSUME NEW o \in WaitObjects
        PROVE  /\ Once(m_WaitingThreads'[o])
               /\ \A u \in Threads : u \in ToSet(m_WaitingThreads'[o]) =>
                     u \in ToSet(m_WaitingThreads[o]) /\ u # t
    BY <2>1, <2>2, <2>4 DEF MemberInv
  <2>. QED  BY <1>1, <2>5 DEF MemberInv, OnlySelf
<1>. QED  BY <1>1, <1>2, <1>3, <1>4, ListAsideSteps

----------------------------------------------------------------------------
(* The signals.  Whatever makes an object available, or leaves it available,*)
(* wakes the first thread of the list, or leaves a thread that claims it.   *)
HeadWoken(o) ==
    m_WaitingThreads[o] # <<>> => m_ConditionSemaphore'[Head(m_WaitingThreads[o])] = 1

SignalAside(t) ==
    /\ \A o \in Signalling : m_Count'[o] > 0 =>
          \/ HeadWoken(o) /\ pc[t] \notin {"Asleep", "Relock"}
          \/ m_Count[o] > 0 /\ (Claiming(t, o) => Claiming(t, o)')
    /\ pc'[t] = "Asleep" =>
          \/ m_Count'[object'[t]] = 0
          \/ pc[t] = "Asleep" /\ object'[t] = object[t]

LEMMA CallsSignal ==
  ASSUME WInv, NEW t \in Threads, Call(t) \/ \E m \in Mutexes : Unlock(t, m)
  PROVE  SignalAside(t)
<1>. USE WaitObjectAssumption DEF SignalAside, Signalling, Claiming, At, Goto, WaitObjects, Events
<1>1. TypeOK /\ pc[t] = "Idle" /\ pc'[t] # "Asleep"
  <2>1. TypeOK
    BY DEF WInv
  <2>. QED  BY <2>1 DEF Call, Wait, Post, Set, Reset, LockRecursively, UnlockRecursive,
                        QueueUserAPC, Unlock, TypeOK, CallType
<1>2. CASE UNCHANGED m_Count
  BY <1>1, <1>2
<1>3. CASE \E s \in Semaphores, n \in 1 .. MaximumValue : Post(t, s, n)
  <2>1. PICK s \in Semaphores, n \in 1 .. MaximumValue : Post(t, s, n)
    BY <1>3
  <2>2. HeadWoken(s)
    BY <1>1, <2>1 DEF Post, WakeupOneThread, HeadWoken, TypeOK, ListType
  <2>3. \A o \in Signalling : o # s => m_Count'[o] = m_Count[o]
    BY <1>1, <2>1 DEF Post, TypeOK, ObjectType
  <2>. QED  BY <1>1, <2>2, <2>3
<1>4. CASE \E e \in Events : Set(t, e) \/ Reset(t, e)
  <2>1. \A o \in Signalling : m_Count'[o] = m_Count[o]
    BY <1>1, <1>4 DEF Set, Reset, TypeOK, ObjectType
  <2>. QED  BY <1>1, <2>1
<1>5. CASE \E m \in Mutexes : Unlock(t, m)
  <2>1. PICK m \in Mutexes : Unlock(t, m)
    BY <1>5
  <2>2. m_WaitingThreads[m] # <<>> => HaveWaitingThreads(m)
    BY <1>1 DEF HaveWaitingThreads, TypeOK, ListType, WInv, ListInv
  <2>3. HeadWoken(m)
    BY <1>1, <2>1, <2>2 DEF Unlock, WakeupOneThread, HeadWoken, TypeOK, ListType
  <2>4. \A o \in Signalling : o # m => m_Count'[o] = m_Count[o]
    BY <1>1, <2>1 DEF Unlock, TypeOK, ObjectType
  <2>. QED  BY <1>1, <2>3, <2>4
<1>. QED  BY <1>2, <1>3, <1>4, <1>5
          DEF Call, Wait, LockRecursively, UnlockRecursive, QueueUserAPC, objectv

LEMMA TakeSignals ==
  ASSUME WInv, NEW t \in Threads, pc[t] \in {"Lock", "LastCheck"}, m_Count[object[t]] > 0,
         Take(t, object[t])
  PROVE  SignalAside(t)
<1>. USE WaitObjectAssumption DEF SignalAside, Signalling, Claiming, WaitObjects, Events
<1>. DEFINE o == object[t]
<1>1. TypeOK /\ o \in WaitObjects /\ pc'[t] = "Idle"
  BY DEF WInv, ArgumentInv, TypeOK, CallType, Take, Return, Goto
<1>2. \A p \in Signalling : p # o => m_Count'[p] = m_Count[p]
  BY <1>1 DEF Take, TypeOK, ObjectType
<1>3. ASSUME o \in Signalling, m_Count'[o] > 0
      PROVE  o \in Semaphores /\ m_Count[o] > 1
  BY <1>1, <1>3 DEF Take, TypeOK, ObjectType
<1>4. ASSUME o \in Signalling, m_Count'[o] > 0
      PROVE  HeadWoken(o)
  <2>1. m_WaitingThreads[o] # <<>> => HaveWaitingThreads(o)
    BY <1>1 DEF HaveWaitingThreads, TypeOK, ListType, WInv, ListInv
  <2>. QED  BY <1>1, <1>3, <1>4, <2>1
            DEF Take, WakeupOneThread, HeadWoken, TypeOK, ListType
<1>. QED  BY <1>1, <1>2, <1>4

LEMMA WaitStepsSignal ==
  ASSUME WInv, PatientInv, PatientClient, NEW t \in Threads, WaitStep(t)
  PROVE  SignalAside(t)
<1>. USE DEF SignalAside, Signalling, Claiming, At, Goto, objectv, threadv, callv
<1>1. TypeOK /\ ~TimeOut(t) /\ ~Throw(t) /\ ~Rethrow(t) /\ ~GiveUp(t) /\ ~ThrowUpFront(t)
  BY DEF WInv, PatientInv, PatientClient, TimeOut, Throw, Rethrow, GiveUp, ThrowUpFront
<1>2. CASE UpFront(t) \/ FailAtOnce(t) \/ Arm(t) \/ InterruptWait(t)
  <2>1. UNCHANGED m_Count /\ pc[t] \in {"UpFront", "Lock", "Queued"} /\ pc'[t] # "Asleep"
    BY <1>1, <1>2
       DEF UpFront, NoUserAPC, FailAtOnce, Arm, InterruptWait, Return, TypeOK, CallType
  <2>. QED  BY <2>1
<1>3. CASE Wakeup(t) \/ Relock(t) \/ Signalled(t) \/ Disarm(t) \/ HandleAPC(t)
  <2>1. UNCHANGED <<m_Count, object>>
    BY <1>3 DEF Wakeup, Relock, Signalled, Disarm, HandleAPC, PopAPC
  <2>2. pc'[t] \in {"Relock", "Armed", "Disarm", "LastCheck"} \/ pc[t] = "UpFront"
    BY <1>1, <1>3
       DEF Wakeup, Relock, Signalled, Disarm, HandleAPC, PopAPC, TypeOK, CallType, PatientInv
  <2>3. pc'[t] # "Asleep"
    BY <1>1, <1>3
       DEF Wakeup, Relock, Signalled, Disarm, HandleAPC, PopAPC, TypeOK, CallType
  <2>. QED  BY <2>1, <2>2, <2>3
<1>4. CASE Sleep(t)
  <2>1. /\ UNCHANGED <<m_Count, object>> /\ m_Count[object[t]] = 0
    BY <1>4 DEF Sleep
  <2>. QED  BY <2>1
<1>5. CASE TakeAtOnce(t) \/ TakeAtLast(t)
  <2>1. pc[t] \in {"Lock", "LastCheck"} /\ Take(t, object[t])
    BY <1>5 DEF TakeAtOnce, TakeAtLast, NoUserAPC
  <2>2. m_Count[object[t]] > 0
    BY <1>5 DEF TakeAtOnce, TakeAtLast, NoUserAPC, WInv, MutexAgreement
  <2>. QED  BY <2>1, <2>2, TakeSignals
<1>. QED  BY <1>1, <1>2, <1>3, <1>4, <1>5 DEF WaitStep

LEMMA SignalKept ==
  ASSUME WInv, MemberInv, PatientInv, PatientInv', SignalIsNotLost, NEW t \in Threads,
         OnlySelf(t), SignalAside(t)
  PROVE  SignalIsNotLost'
<1>. USE DEF WaitObjects, Events
<1>. SUFFICES ASSUME NEW o \in Signalling, m_Count'[o] > 0,
                     NEW a \in Threads, pc'[a] = "Asleep", object'[a] = o
              PROVE  \E u \in Threads : Claiming(u, o)'
  BY DEF SignalIsNotLost, Signalling, Claiming, PatientInv, At
<1>1. pc[a] = "Asleep" /\ object[a] = o
  BY DEF SignalAside, OnlySelf
<1>2. m_WaitingThreads[o] \in Seq(Threads) /\ a \in ToSet(m_WaitingThreads[o])
  BY <1>1 DEF WInv, TypeOK, ListType, ListInv, Signalling
<1>3. CASE HeadWoken(o) /\ pc[t] \notin {"Asleep", "Relock"}
  <2>. DEFINE list == m_WaitingThreads[o]
              h == Head(m_WaitingThreads[o])
  <2>1. list # <<>>
    BY <1>2 DEF ToSet
  <2>2. h \in Threads /\ h \in ToSet(list)
    BY <1>2, <2>1 DEF ToSet
  <2>3. m_ConditionSemaphore'[h] = 1
    BY <1>3, <2>1 DEF HeadWoken
  <2>. HIDE DEF list, h
  <2>4. PICK u \in Threads : u = h
    BY <2>2
  <2>5. object[u] = o /\ pc[u] \in {"Asleep", "Relock"} /\ u # t
    BY <1>3, <2>2, <2>4 DEF MemberInv, Signalling, list
  <2>6. m_ConditionSemaphore'[u] = 1
    BY <2>3, <2>4
  <2>. QED  BY <2>5, <2>6 DEF Claiming, OnlySelf
<1>4. CASE m_Count[o] > 0 /\ (Claiming(t, o) => Claiming(t, o)')
  <2>1. PICK u \in Threads : Claiming(u, o)
    BY <1>1, <1>4 DEF SignalIsNotLost, Signalling, Claiming, At
  <2>2. CASE u = t
    BY <1>4, <2>1, <2>2
  <2>3. CASE u # t
    BY <2>1, <2>3 DEF Claiming, OnlySelf
  <2>. QED  BY <2>2, <2>3
<1>. QED  BY <1>3, <1>4 DEF SignalAside

LEMMA SignalStep ==
  ASSUME PatientClient, WInv, MemberInv, PatientInv, SignalIsNotLost, [Next]_vars
  PROVE  MemberInv' /\ PatientInv' /\ SignalIsNotLost'
<1>1. CASE UNCHANGED vars
  BY <1>1 DEF vars, objectv, threadv, callv, MemberInv, PatientInv, SignalIsNotLost, At, Once
<1>2. ASSUME NEW t \in Threads, StepOf(t)
      PROVE  MemberInv' /\ PatientInv' /\ SignalIsNotLost'
  <2>1. OnlySelf(t) /\ PatientInv'
    BY <1>2, StepsAreLocal, PatientKept DEF WInv
  <2>2. SignalAside(t)
    BY <1>2, CallsSignal, WaitStepsSignal DEF StepOf
  <2>. QED  BY <1>2, <2>1, <2>2, MembersKept, SignalKept
<1>. QED  BY <1>1, <1>2 DEF Next, StepOf

\* Unlock, Post and the end of Wait: while a mutex or semaphore is there to
\* take and threads sleep on it, one of its waiters is on the way to take it.
\* A wait that may time out swallows the signal (WaitObject.cpp leaves its loop
\* without looking at m_Count), and so does an APC that throws: hence the
\* hypothesis.
THEOREM SignalsAreNotLost ==
  ASSUME PatientClient
  PROVE  Spec => []SignalIsNotLost
<1>1. Init => MemberInv /\ PatientInv /\ SignalIsNotLost
  BY DEF Init, MemberInv, PatientInv, SignalIsNotLost, At, ToSet, Once
<1>2. WInv /\ MemberInv /\ PatientInv /\ SignalIsNotLost /\ [Next]_vars
        => MemberInv' /\ PatientInv' /\ SignalIsNotLost'
  BY SignalStep
<1>. QED  BY InductiveInvariant, <1>1, <1>2, PTL DEF Spec
=============================================================================
