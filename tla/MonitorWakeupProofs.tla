------------------------ MODULE MonitorWakeupProofs ------------------------
(***************************************************************************)
(* Nobody waits in vain: proofs about Monitor's wait lists and wakeups.    *)
(* For the clients of QuietClient, whoever waits for a pulse is on the     *)
(* list of the monitor its object has, and whoever is on a list waits.     *)
(* And for any number of objects, only the thread that backs out of the    *)
(* monitor of another object takes a wakeup from the threads blocked on it *)
(* (MonitorLostWakeup.cfg shows it do so).                                 *)
(***************************************************************************)
EXTENDS MonitorProofs

\* Inside TryWait, between the push of the wait node and the end of the wait
\* for a pulse.
WaitLabels == ExitLabels \union FlushLabels \union {"Post", "Repost", "Free", "PulseWait"}

OnList(t, m) == t \in ToSet(threadsWaitingForPulse[m])

\* Whoever is to wait for a pulse is signalled, or can be found by a Pulse.
ReachInv ==
    \A t \in Threads :
        waiting[t] /\ timeout[t] # "zero" /\ pc[t] \in WaitLabels =>
            \/ signalWaitingThread[t]
            \/ monitor[object[t]] # NULL /\ OnList(t, monitor[object[t]])

\* A monitor is deflated only when its wait list is empty.
EmptyInv ==
    \A t \in Threads : pc[t] = "Deflate" => threadsWaitingForPulse[installedMonitor[t]] = <<>>

Once(list) == \A i, k \in DOMAIN list : list[i] = list[k] => i = k

\* Whoever is on a wait list is in TryWait, for the object the monitor is
\* attached to, and is there once.
NodeInv ==
    \A m \in Monitors :
        /\ \A t \in Threads : OnList(t, m) => waiting[t] /\ monitor[object[t]] = m
        /\ Once(threadsWaitingForPulse[m])

WInv == ReachInv /\ EmptyInv /\ NodeInv

----------------------------------------------------------------------------
(* A wait list grows, shrinks at its head, and loses one node.              *)
LEMMA NodePushed ==
  ASSUME NEW s \in Seq(Threads), NEW t \in Threads, t \notin ToSet(s), Once(s)
  PROVE  ToSet(<<t>> \o s) = ToSet(s) \union {t} /\ Once(<<t>> \o s)
<1>. DEFINE r == <<t>> \o s
            n == Len(s)
<1>1. n \in Nat /\ DOMAIN s = 1..n
  OBVIOUS
<1>2. /\ Len(r) = n + 1 /\ r \in Seq(Threads)
      /\ \A i \in 1..(n + 1) : r[i] = IF i <= 1 THEN t ELSE s[i - 1]
  <2>1. <<t>> \in Seq(Threads) /\ Len(<<t>>) = 1 /\ <<t>>[1] = t
    OBVIOUS
  <2>2. /\ r \in Seq(Threads) /\ Len(r) = 1 + n
        /\ \A i \in 1 .. 1 + n : r[i] = IF i <= 1 THEN <<t>>[i] ELSE s[i - 1]
    BY <2>1, ConcatProperties
  <2>. QED  BY <1>1, <2>1, <2>2
<1>3. DOMAIN r = 1..(n + 1)
  BY <1>2
<1>. HIDE DEF r, n
<1>4. \A i \in 1..n : i + 1 \in 1..(n + 1) /\ r[i + 1] = s[i]
  BY <1>1, <1>2
<1>5. 1 \in 1..(n + 1) /\ r[1] = t
  BY <1>1, <1>2
<1>6. \A i \in 1..(n + 1) : i = 1 \/ (i - 1 \in 1..n /\ r[i] = s[i - 1])
  BY <1>1, <1>2
<1>7. ToSet(r) = ToSet(s) \union {t}
  <2>1. \A i \in DOMAIN r : r[i] = t \/ \E k \in DOMAIN s : r[i] = s[k]
    BY <1>1, <1>3, <1>5, <1>6
  <2>2. \A k \in DOMAIN s : \E i \in DOMAIN r : r[i] = s[k]
    BY <1>1, <1>3, <1>4
  <2>3. \E i \in DOMAIN r : r[i] = t
    BY <1>3, <1>5
  <2>. QED  BY <2>1, <2>2, <2>3 DEF ToSet
<1>8. \A i \in 1..n : s[i] # t
  BY <1>1 DEF ToSet
<1>9. ASSUME NEW i \in 1..(n + 1), NEW k \in 1..(n + 1), r[i] = r[k]
      PROVE  i = k
  <2>1. CASE i = 1 \/ k = 1
    BY <1>5, <1>6, <1>8, <1>9, <2>1
  <2>2. CASE i # 1 /\ k # 1
    <3>1. i - 1 \in 1..n /\ k - 1 \in 1..n /\ s[i - 1] = s[k - 1]
      BY <1>6, <1>9, <2>2
    <3>2. i - 1 = k - 1
      BY <1>1, <3>1 DEF Once
    <3>. QED  BY <1>1, <3>2
  <2>. QED  BY <2>1, <2>2
<1>10. Once(r)
  BY <1>3, <1>9 DEF Once
<1>. QED  BY <1>7, <1>10 DEF r

LEMMA NodesPopped ==
  ASSUME NEW s \in Seq(Threads), NEW n \in 0..Len(s), Once(s)
  PROVE  /\ ToSet(SubSeq(s, n + 1, Len(s))) \subseteq ToSet(s)
         /\ ToSet(s) \subseteq ToSet(SubSeq(s, 1, n)) \union ToSet(SubSeq(s, n + 1, Len(s)))
         /\ Once(SubSeq(s, n + 1, Len(s)))
<1>. DEFINE r == SubSeq(s, n + 1, Len(s))
            q == SubSeq(s, 1, n)
<1>1. Len(s) \in Nat /\ n \in Nat /\ n <= Len(s) /\ DOMAIN s = 1..Len(s)
      /\ \A i \in 1..Len(s) : s[i] \in Threads
  OBVIOUS
<1>2. /\ r \in Seq(Threads) /\ Len(r) = Len(s) - n
      /\ \A i \in 1..(Len(s) - n) : r[i] = s[n + i]
  <2>1. /\ r \in Seq(Threads)
        /\ Len(r) = IF n + 1 <= Len(s) THEN Len(s) - (n + 1) + 1 ELSE 0
        /\ \A i \in 1..(Len(s) - (n + 1) + 1) : r[i] = s[(n + 1) + i - 1]
    <3>1. \A i \in (n + 1)..Len(s) : s[i] \in Threads
      BY <1>1
    <3>. QED  BY <1>1, <3>1, SubSeqProperties
  <2>. HIDE DEF r
  <2>2. Len(r) = Len(s) - n
    <3>1. CASE n + 1 <= Len(s)
      BY <1>1, <2>1, <3>1
    <3>2. CASE ~(n + 1 <= Len(s))
      <4>1. n = Len(s)
        <5>. DEFINE l == Len(s)
        <5>1. l \in Nat /\ n \in Nat /\ n <= l /\ ~(n + 1 <= l)
          BY <1>1, <3>2
        <5>. HIDE DEF l
        <5>2. n = l
          BY <5>1
        <5>. QED  BY <5>2 DEF l
      <4>. QED  BY <1>1, <2>1, <3>2, <4>1
    <3>. QED  BY <3>1, <3>2
  <2>3. ASSUME NEW i \in 1..(Len(s) - n) PROVE r[i] = s[n + i]
    <3>1. i \in 1..(Len(s) - (n + 1) + 1) /\ (n + 1) + i - 1 = n + i
      BY <1>1
    <3>. QED  BY <2>1, <3>1
  <2>. QED  BY <2>1, <2>2, <2>3
<1>3. /\ q \in Seq(Threads) /\ Len(q) = n
      /\ \A i \in 1..n : q[i] = s[i]
  <2>1. /\ q \in Seq(Threads)
        /\ Len(q) = IF 1 <= n THEN n - 1 + 1 ELSE 0
        /\ \A i \in 1..(n - 1 + 1) : q[i] = s[1 + i - 1]
    <3>1. \A i \in 1..n : s[i] \in Threads
      BY <1>1
    <3>. QED  BY <1>1, <3>1, SubSeqProperties
  <2>. QED  BY <1>1, <2>1
<1>4. DOMAIN r = 1..(Len(s) - n) /\ DOMAIN q = 1..n
  BY <1>2, <1>3
<1>. HIDE DEF r, q
<1>5. \A i \in DOMAIN r : n + i \in DOMAIN s /\ r[i] = s[n + i]
  <2>1. \A i \in 1..(Len(s) - n) : n + i \in 1..Len(s)
    BY <1>1
  <2>. QED  BY <1>1, <1>2, <1>4, <2>1
<1>6. \A i \in DOMAIN s : \/ i \in DOMAIN q /\ q[i] = s[i]
                          \/ i - n \in DOMAIN r /\ r[i - n] = s[i]
  <2>. SUFFICES ASSUME NEW i \in DOMAIN s
                PROVE  \/ i \in DOMAIN q /\ q[i] = s[i]
                       \/ i - n \in DOMAIN r /\ r[i - n] = s[i]
    OBVIOUS
  <2>1. CASE i <= n
    BY <1>1, <1>3, <1>4, <2>1
  <2>2. CASE i > n
    <3>1. i - n \in 1..(Len(s) - n) /\ n + (i - n) = i
      BY <1>1, <2>2
    <3>. QED  BY <1>2, <1>4, <3>1
  <2>. QED  BY <1>1, <2>1, <2>2
<1>7. ToSet(r) \subseteq ToSet(s)
  BY <1>5 DEF ToSet
<1>8. ToSet(s) \subseteq ToSet(q) \union ToSet(r)
  BY <1>6 DEF ToSet
<1>9. Once(r)
  <2>. SUFFICES ASSUME NEW i \in DOMAIN r, NEW k \in DOMAIN r, r[i] = r[k]
                PROVE  i = k
    BY DEF Once
  <2>1. n + i = n + k
    BY <1>5 DEF Once
  <2>. QED  BY <1>1, <1>4, <2>1
<1>. QED  BY <1>7, <1>8, <1>9 DEF r, q

LEMMA NodeRemoved ==
  ASSUME NEW s \in Seq(Threads), NEW t \in Threads, Once(s)
  PROVE  /\ ToSet(RemoveFromPulseWaitingList(s, t)) = ToSet(s) \ {t}
         /\ Once(RemoveFromPulseWaitingList(s, t))
<1>1. Len(s) \in Nat /\ DOMAIN s = 1..Len(s) /\ \A i \in 1..Len(s) : s[i] \in Threads
  OBVIOUS
<1>2. CASE \A i \in DOMAIN s : s[i] # t
  BY <1>2 DEF RemoveFromPulseWaitingList, ToSet
<1>3. CASE \E i \in DOMAIN s : s[i] = t
  <2>. DEFINE c == CHOOSE i \in DOMAIN s : s[i] = t
              a == SubSeq(s, 1, c - 1)
              b == SubSeq(s, c + 1, Len(s))
              r == a \o b
              n == Len(s)
  <2>1. c \in 1..n /\ s[c] = t /\ RemoveFromPulseWaitingList(s, t) = r
    BY <1>1, <1>3 DEF RemoveFromPulseWaitingList, RemoveAt
  <2>. HIDE DEF c
  <2>2. /\ a \in Seq(Threads) /\ Len(a) = c - 1
        /\ \A i \in 1..(c - 1) : a[i] = s[i]
    <3>1. \A i \in 1..(c - 1) : s[i] \in Threads
      BY <1>1, <2>1
    <3>2. /\ a \in Seq(Threads)
          /\ Len(a) = IF 1 <= c - 1 THEN (c - 1) - 1 + 1 ELSE 0
          /\ \A i \in 1..((c - 1) - 1 + 1) : a[i] = s[1 + i - 1]
      BY <1>1, <2>1, <3>1, SubSeqProperties
    <3>. QED  BY <1>1, <2>1, <3>2
  <2>3. /\ b \in Seq(Threads) /\ Len(b) = n - c
        /\ \A i \in 1..(n - c) : b[i] = s[c + i]
    <3>1. \A i \in (c + 1)..n : s[i] \in Threads
      BY <1>1, <2>1
    <3>2. /\ b \in Seq(Threads)
          /\ Len(b) = IF c + 1 <= n THEN n - (c + 1) + 1 ELSE 0
          /\ \A i \in 1..(n - (c + 1) + 1) : b[i] = s[(c + 1) + i - 1]
      BY <1>1, <2>1, <3>1, SubSeqProperties
    <3>. HIDE DEF b, n
    <3>3. n \in Nat
      BY <1>1 DEF n
    <3>4. Len(b) = n - c
      BY <2>1, <3>2, <3>3
    <3>5. ASSUME NEW i \in 1..(n - c) PROVE b[i] = s[c + i]
      <4>1. i \in 1..(n - (c + 1) + 1) /\ (c + 1) + i - 1 = c + i
        BY <2>1, <3>3
      <4>. QED  BY <3>2, <4>1
    <3>. QED  BY <3>2, <3>4, <3>5
  <2>4. n \in Nat /\ DOMAIN s = 1..n
    BY <1>1
  <2>. HIDE DEF a, b, n
  <2>5. /\ r \in Seq(Threads) /\ Len(r) = n - 1
        /\ \A i \in 1..(n - 1) : r[i] = IF i < c THEN s[i] ELSE s[i + 1]
    <3>1. /\ r \in Seq(Threads) /\ Len(r) = (c - 1) + (n - c)
          /\ \A i \in 1..((c - 1) + (n - c)) :
                r[i] = IF i <= c - 1 THEN a[i] ELSE b[i - (c - 1)]
      <4>. a \in Seq(Threads) /\ b \in Seq(Threads) /\ Len(a) = c - 1 /\ Len(b) = n - c
        BY <2>2, <2>3
      <4>. HIDE DEF r
      <4>1. /\ a \o b \in Seq(Threads) /\ Len(a \o b) = Len(a) + Len(b)
            /\ \A i \in 1..(Len(a) + Len(b)) :
                  (a \o b)[i] = IF i <= Len(a) THEN a[i] ELSE b[i - Len(a)]
        BY ConcatProperties
      <4>. QED  BY <4>1 DEF r
    <3>2. (c - 1) + (n - c) = n - 1
      BY <2>1, <2>4
    <3>3. ASSUME NEW i \in 1..(n - 1) PROVE r[i] = IF i < c THEN s[i] ELSE s[i + 1]
      <4>1. r[i] = IF i <= c - 1 THEN a[i] ELSE b[i - (c - 1)]
        BY <3>1, <3>2
      <4>2. CASE i < c
        BY <2>1, <2>2, <2>4, <4>1, <4>2
      <4>3. CASE i >= c
        <5>1. i - (c - 1) \in 1..(n - c) /\ c + (i - (c - 1)) = i + 1
          BY <2>1, <2>4, <4>3
        <5>2. b[i - (c - 1)] = s[i + 1]
          BY <2>3, <5>1
        <5>. QED  BY <2>1, <2>4, <4>1, <4>3, <5>2
      <4>4. i < c \/ i >= c
        BY <2>1, <2>4
      <4>. QED  BY <4>2, <4>3, <4>4
    <3>. QED  BY <3>1, <3>2, <3>3
  <2>6. DOMAIN r = 1..(n - 1)
    BY <2>4, <2>5
  <2>. HIDE DEF r
  <2>7. \A i \in DOMAIN r : \E k \in DOMAIN s : k # c /\ r[i] = s[k]
    <3>. SUFFICES ASSUME NEW i \in 1..(n - 1)
                  PROVE  \E k \in DOMAIN s : k # c /\ r[i] = s[k]
      BY <2>6
    <3>1. CASE i < c
      <4>1. i \in DOMAIN s /\ i # c /\ r[i] = s[i]
        BY <2>1, <2>4, <2>5, <3>1
      <4>. QED  BY <4>1
    <3>2. CASE ~(i < c)
      <4>1. i + 1 \in DOMAIN s /\ i + 1 # c /\ r[i] = s[i + 1]
        BY <2>1, <2>4, <2>5, <3>2
      <4>. QED  BY <4>1
    <3>. QED  BY <3>1, <3>2
  <2>8. \A k \in DOMAIN s : k # c => \E i \in DOMAIN r : r[i] = s[k]
    <3>. SUFFICES ASSUME NEW k \in DOMAIN s, k # c PROVE \E i \in DOMAIN r : r[i] = s[k]
      OBVIOUS
    <3>1. CASE k < c
      <4>1. k \in DOMAIN r /\ r[k] = s[k]
        BY <2>1, <2>4, <2>5, <2>6, <3>1
      <4>. QED  BY <4>1
    <3>2. CASE k > c
      <4>1. k - 1 \in DOMAIN r /\ (k - 1) + 1 = k /\ ~(k - 1 < c)
        BY <2>1, <2>4, <2>6, <3>2
      <4>2. r[k - 1] = s[k]
        BY <2>5, <2>6, <4>1
      <4>. QED  BY <4>1, <4>2
    <3>. QED  BY <2>1, <2>4, <3>1, <3>2
  <2>9. \A k \in DOMAIN s : s[k] = t <=> k = c
    BY <2>1, <2>4 DEF Once
  <2>10. ToSet(r) = ToSet(s) \ {t}
    BY <2>7, <2>8, <2>9 DEF ToSet
  <2>11. Once(r)
    <3>. SUFFICES ASSUME NEW i \in DOMAIN r, NEW k \in DOMAIN r, r[i] = r[k]
                  PROVE  i = k
      BY DEF Once
    <3>. DEFINE x == IF i < c THEN i ELSE i + 1
                y == IF k < c THEN k ELSE k + 1
    <3>1. /\ x \in DOMAIN s /\ r[i] = s[x]
          /\ y \in DOMAIN s /\ r[k] = s[y]
      BY <2>1, <2>4, <2>5, <2>6
    <3>2. x = y
      BY <3>1 DEF Once
    <3>. QED  BY <2>1, <2>4, <2>6, <3>2
  <2>. QED  BY <2>1, <2>10, <2>11
<1>. QED  BY <1>1, <1>2, <1>3

----------------------------------------------------------------------------
(* A step of a thread leaves the local variables of the others alone.       *)
OnlySelf(t) ==
    \A u \in Threads \ {t} :
        /\ pc'[u] = pc[u] /\ object'[u] = object[u]
        /\ installedMonitor'[u] = installedMonitor[u]
        /\ timeout'[u] = timeout[u] /\ waiting'[u] = waiting[u]

LEMMA StepsAreLocal ==
  ASSUME TypeOK, NEW t \in Threads, Call(t) \/ Step(t) \/ Throw(t)
  PROVE  OnlySelf(t)
<1>. USE DEF TypeOK, LabelType, CallType, ArgType, OnlySelf, At, Goto, EnterReturnsTrue,
             EnterFails, ExitReturns, Reenter, callv, argv
<1>1. CASE Call(t)
  BY <1>1 DEF Call, Enter, Exit, ExitRecursive, ExitLast, Wait, PulseMonitor
<1>2. CASE EnterStep(t)
  BY <1>2 DEF EnterStep, ReadMonitor, Allocate, Install, InstallLost, LockRecursively,
              TryAcquire, Recheck, RecheckFails, Backout, FailAtOnce, QueueUp, GetReady,
              TestAttached, Grab, GrabFails, Unready, Wake, Vacate, Acknowledge
<1>3. CASE TimeoutStep(t)
  BY <1>3 DEF TimeoutStep, TimeOut, LastRead, LastGrab, LastGrabFails, LateAck
<1>4. CASE ExitStep(t)
  BY <1>4 DEF ExitStep, ExitReady, Handoff, PostOne, ExitPulse, Yield, Repost, Deflate,
              FlushReset, FlushTest, FlushPost, FlushWait, Free
<1>5. CASE WaitStep(t)
  BY <1>5 DEF WaitStep, Pulsed, WaitTimeOut, Reacquired
<1>6. CASE Throw(t)
  BY <1>6 DEF Throw, InterruptEnter, AbortEnter, InterruptWait
<1>. QED  BY <1>1, <1>2, <1>3, <1>4, <1>5, <1>6 DEF Step

\* Without timeouts of TryEnter and exceptions their steps are not taken.
LEMMA QuietSteps ==
  ASSUME QuietClient, IInv, NEW t \in Threads
  PROVE  /\ ~TimeoutStep(t) /\ ~Throw(t)
         /\ FailAtOnce(t) => ~waiting[t]
         /\ pc[t] = "Idle" => ~waiting[t]
         /\ waiting[t] => object[t] \in Objects
         /\ pc[t] \in WaitLabels => object[t] \in Objects
         /\ pc[t] \notin {"Dead", "Unwind", "LastRead", "LastGrab", "LateAck"}
<1>. USE DEF IInv, NoThrowInv, CallInv, At
<1>1. pc[t] \notin {"Dead", "Unwind", "LastRead", "LastGrab", "LateAck"}
  OBVIOUS
<1>2. ~TimeoutStep(t)
  BY <1>1 DEF TimeoutStep, TimeOut, LastRead, LastGrab, LastGrabFails, LateAck, EnterLabels
<1>3. ~Throw(t)
  BY DEF Throw, InterruptEnter, AbortEnter, InterruptWait, QuietClient
<1>4. FailAtOnce(t) => ~waiting[t]
  BY DEF FailAtOnce, EnterLabels
<1>5. waiting[t] => object[t] \in Objects
  BY <1>1 DEF PointerInv
<1>6. pc[t] \in WaitLabels => object[t] \in Objects
  BY DEF PointerInv, WaitLabels, ExitLabels, FlushLabels
<1>. QED  BY <1>1, <1>2, <1>3, <1>4, <1>5, <1>6

(* Most steps leave the wait lists and the signals alone.                   *)
WaitAside(t) ==
    /\ UNCHANGED pulsev
    /\ \A o \in Objects : monitor[o] # NULL => monitor'[o] = monitor[o]
    /\ waiting'[t] = waiting[t]
    /\ waiting[t] => object'[t] = object[t]
    /\ waiting[t] /\ pc'[t] \in WaitLabels => pc[t] \in WaitLabels /\ timeout'[t] = timeout[t]
    /\ pc'[t] = "Deflate" =>
          /\ installedMonitor'[t] = installedMonitor[t]
          /\ threadsWaitingForPulse[installedMonitor[t]] = <<>>

LEMMA WaitFrame ==
  ASSUME QuietClient, IInv, WInv, NEW t \in Threads, OnlySelf(t), WaitAside(t)
  PROVE  WInv'
<1>. USE DEF WInv, pulsev, OnlySelf, WaitAside, OnList
<1>1. \A u \in Threads : /\ waiting'[u] = waiting[u]
                         /\ waiting[u] => object'[u] = object[u] /\ object[u] \in Objects
  BY QuietSteps
<1>2. ReachInv'
  <2>. SUFFICES ASSUME NEW u \in Threads, waiting'[u], timeout'[u] # "zero",
                       pc'[u] \in WaitLabels
                PROVE  \/ signalWaitingThread'[u]
                       \/ /\ monitor'[object'[u]] # NULL
                          /\ u \in ToSet(threadsWaitingForPulse'[monitor'[object'[u]]])
    BY DEF ReachInv
  <2>1. waiting[u] /\ timeout[u] # "zero" /\ pc[u] \in WaitLabels
    BY <1>1
  <2>. QED  BY <1>1, <2>1 DEF ReachInv
<1>3. EmptyInv'
  BY DEF EmptyInv
<1>4. NodeInv'
  <2>1. \A m \in Monitors : m # NULL
    BY ConstantsAssumption DEF ConstantsAssumption
  <2>. QED  BY <1>1, <2>1 DEF NodeInv
<1>. QED  BY <1>2, <1>3, <1>4

LEMMA WaitAsideSteps ==
  ASSUME QuietClient, IInv, NEW t \in Threads,
         \/ \E o \in Objects : (\E ms \in EnterTimeouts : Enter(t, o, ms)) \/ Exit(t, o)
         \/ EnterStep(t) \/ WaitTimeOut(t) \/ (ExitStep(t) /\ ~Deflate(t))
  PROVE  WaitAside(t)
<1>. USE DEF WaitAside, At, Goto, EnterReturnsTrue, ExitReturns, Reenter, lockv, countv,
             wakev, pulsev, callv, argv, WaitLabels, ExitLabels, FlushLabels
<1>1. TypeOK /\ LabelType /\ CallType /\ ArgType /\ LockType
  BY DEF IInv, TypeOK
<1>2. pc[t] = "Idle" => ~waiting[t]
  BY QuietSteps
<1>3. ASSUME NEW o \in Objects, NEW ms \in EnterTimeouts, Enter(t, o, ms)
      PROVE  WaitAside(t)
  BY <1>1, <1>2, <1>3 DEF Enter, LabelType
<1>4. ASSUME NEW o \in Objects, Exit(t, o)
      PROVE  WaitAside(t)
  <2>1. pc[t] = "Idle"
    BY <1>4, QuietSteps DEF Exit, ExitRecursive, ExitLast
  <2>. QED  BY <1>1, <1>2, <1>4, <2>1 DEF Exit, ExitRecursive, ExitLast, LabelType
<1>5. CASE EnterStep(t) /\ ~FailAtOnce(t)
  BY <1>1, <1>5
     DEF EnterStep, ReadMonitor, Allocate, Install, InstallLost, LockRecursively,
         TryAcquire, Recheck, RecheckFails, Backout, QueueUp, GetReady,
         TestAttached, Grab, GrabFails, Unready, Wake, Vacate, Acknowledge,
         LabelType, CallType, LockType, ArgType
<1>6. CASE FailAtOnce(t)
  BY <1>1, <1>6, QuietSteps DEF FailAtOnce, EnterFails, LabelType, ArgType
<1>7. CASE WaitTimeOut(t)
  BY <1>1, <1>7 DEF WaitTimeOut, LabelType
<1>8. CASE ExitStep(t) /\ ~Deflate(t)
  BY <1>1, <1>8
     DEF ExitStep, ExitReady, Handoff, PostOne, ExitPulse, Yield, Repost,
         FlushReset, FlushTest, FlushPost, FlushWait, Free, LabelType, CallType
<1>. QED  BY <1>3, <1>4, <1>5, <1>6, <1>7, <1>8

\* Deflation takes a monitor away from its object, with an empty wait list.
LEMMA DeflateKeepsWaiters ==
  ASSUME QuietClient, IInv, WInv, NEW t \in Threads, OnlySelf(t), Deflate(t)
  PROVE  WInv'
<1>. USE DEF WInv, pulsev, callv, argv, At, Goto, OnList
<1>1. /\ pc[t] = "Deflate" /\ pc'[t] = "FlushReset" /\ object[t] \in Objects
      /\ monitor' = [monitor EXCEPT ![object[t]] = NULL]
      /\ pc' = [pc EXCEPT ![t] = "FlushReset"]
      /\ UNCHANGED <<object, installedMonitor, timeout, waiting, threadsWaitingForPulse,
                     signalWaitingThread>>
  BY QuietSteps DEF Deflate, IInv, TypeOK, LabelType, WaitLabels, ExitLabels
<1>2. /\ monitor[object[t]] = installedMonitor[t]
      /\ threadsWaitingForPulse[monitor[object[t]]] = <<>>
  BY <1>1 DEF IInv, OwnerLabelsInv, ExitLabels, Attached, EmptyInv
<1>3. \A u \in Threads, o \in Objects :
         monitor[o] # NULL /\ u \in ToSet(threadsWaitingForPulse[monitor[o]])
            => monitor'[o] = monitor[o]
  BY <1>1, <1>2 DEF ToSet, IInv, TypeOK, LockType
<1>4. ReachInv'
  <2>. SUFFICES ASSUME NEW u \in Threads, waiting'[u], timeout'[u] # "zero",
                       pc'[u] \in WaitLabels
                PROVE  \/ signalWaitingThread'[u]
                       \/ /\ monitor'[object'[u]] # NULL
                          /\ u \in ToSet(threadsWaitingForPulse'[monitor'[object'[u]]])
    BY DEF ReachInv
  <2>1. waiting[u] /\ timeout[u] # "zero" /\ pc[u] \in WaitLabels
    BY <1>1 DEF WaitLabels, ExitLabels, FlushLabels, IInv, TypeOK, LabelType
  <2>2. object[u] \in Objects
    BY <2>1, QuietSteps
  <2>. QED  BY <1>1, <1>3, <2>1, <2>2 DEF ReachInv
<1>5. EmptyInv'
  BY <1>1 DEF EmptyInv, IInv, TypeOK, LabelType
<1>6. NodeInv'
  <2>1. \A m \in Monitors, u \in Threads :
           u \in ToSet(threadsWaitingForPulse[m]) => monitor'[object[u]] = m
    <3>. SUFFICES ASSUME NEW m \in Monitors, NEW u \in Threads,
                         u \in ToSet(threadsWaitingForPulse[m])
                  PROVE  monitor'[object[u]] = m
      OBVIOUS
    <3>1. waiting[u] /\ monitor[object[u]] = m /\ m # NULL
      BY ConstantsAssumption DEF NodeInv, ConstantsAssumption
    <3>2. object[u] \in Objects
      BY <3>1, QuietSteps
    <3>. QED  BY <1>3, <3>1, <3>2
  <2>. QED  BY <1>1, <2>1 DEF NodeInv
<1>. QED  BY <1>4, <1>5, <1>6

\* TryWait pushes the node of its thread, which is on no list.
LEMMA WaitKeepsWaiters ==
  ASSUME QuietClient, IInv, WInv, NEW t \in Threads, NEW o \in Objects,
         NEW ms \in WaitTimeouts, Wait(t, o, ms)
  PROVE  WInv'
<1>. USE DEF WInv, At, Goto, OnList
<1>. DEFINE m == monitor[o]
            s == threadsWaitingForPulse[m]
<1>1. /\ pc[t] = "Idle" /\ m \in Monitors /\ owningThreadId[m] = t /\ ~waiting[t]
      /\ m # NULL
  BY CallerHolds, ConstantsAssumption DEF Wait, ConstantsAssumption
<1>2. /\ pc' = [pc EXCEPT ![t] = "ExitReady"]
      /\ object' = [object EXCEPT ![t] = o]
      /\ installedMonitor' = [installedMonitor EXCEPT ![t] = m]
      /\ timeout' = [timeout EXCEPT ![t] = ms]
      /\ waiting' = [waiting EXCEPT ![t] = TRUE]
      /\ UNCHANGED <<monitor, signalWaitingThread>>
      /\ threadsWaitingForPulse' = IF ms = "zero" THEN threadsWaitingForPulse
                                   ELSE [threadsWaitingForPulse EXCEPT ![m] = <<t>> \o s]
  BY DEF Wait, lockv
<1>3. /\ pc'[t] = "ExitReady" /\ object'[t] = o /\ installedMonitor'[t] = m
      /\ timeout'[t] = ms /\ waiting'[t]
      /\ \A u \in Threads \ {t} :
            /\ pc'[u] = pc[u] /\ object'[u] = object[u] /\ timeout'[u] = timeout[u]
            /\ waiting'[u] = waiting[u] /\ installedMonitor'[u] = installedMonitor[u]
  BY <1>2 DEF IInv, TypeOK, LabelType, CallType, ArgType
<1>4. s \in Seq(Threads) /\ Once(s) /\ \A n \in Monitors : t \notin ToSet(threadsWaitingForPulse[n])
  BY <1>1 DEF NodeInv, IInv, TypeOK, PulseType
<1>5. ToSet(<<t>> \o s) = ToSet(s) \union {t} /\ Once(<<t>> \o s)
  BY <1>1, <1>4, NodePushed
<1>6. /\ \A n \in Monitors : \A u \in Threads :
            u \in ToSet(threadsWaitingForPulse'[n])
               <=> \/ u \in ToSet(threadsWaitingForPulse[n])
                   \/ ms # "zero" /\ n = m /\ u = t
      /\ \A n \in Monitors : Once(threadsWaitingForPulse'[n])
      /\ \A n \in Monitors : n # m => threadsWaitingForPulse'[n] = threadsWaitingForPulse[n]
  <2>1. CASE ms = "zero"
    BY <1>2, <2>1 DEF NodeInv
  <2>2. CASE ms # "zero"
    <3>1. threadsWaitingForPulse \in [Monitors -> Seq(Threads)]
      BY DEF IInv, TypeOK, PulseType
    <3>2. \A n \in Monitors : threadsWaitingForPulse'[n] =
             IF n = m THEN <<t>> \o s ELSE threadsWaitingForPulse[n]
      BY <1>2, <2>2, <3>1
    <3>. HIDE DEF m
    <3>. QED  BY <1>5, <2>2, <3>2 DEF NodeInv
  <2>. QED  BY <2>1, <2>2
<1>. HIDE DEF m, s
<1>7. ReachInv'
  <2>. SUFFICES ASSUME NEW u \in Threads, waiting'[u], timeout'[u] # "zero",
                       pc'[u] \in WaitLabels
                PROVE  \/ signalWaitingThread'[u]
                       \/ /\ monitor'[object'[u]] # NULL
                          /\ u \in ToSet(threadsWaitingForPulse'[monitor'[object'[u]]])
    BY DEF ReachInv
  <2>1. CASE u = t
    BY <1>1, <1>2, <1>3, <1>6, <2>1 DEF m
  <2>2. CASE u # t
    <3>1. waiting[u] /\ timeout[u] # "zero" /\ pc[u] \in WaitLabels
      BY <1>3, <2>2
    <3>2. object[u] \in Objects
      BY <3>1, QuietSteps
    <3>3. monitor[object[u]] # NULL => monitor[object[u]] \in Monitors
      BY <3>2 DEF IInv, TypeOK, LockType
    <3>. QED  BY <1>2, <1>3, <1>6, <2>2, <3>1, <3>3 DEF ReachInv
  <2>. QED  BY <2>1, <2>2
<1>8. EmptyInv'
  <2>. SUFFICES ASSUME NEW u \in Threads, pc'[u] = "Deflate"
                PROVE  threadsWaitingForPulse'[installedMonitor'[u]] = <<>>
    BY DEF EmptyInv
  <2>1. u # t /\ pc[u] = "Deflate"
    BY <1>3
  <2>2. owningThreadId[installedMonitor[u]] = u /\ installedMonitor[u] \in Monitors
    BY <2>1, ConstantsAssumption
       DEF IInv, OwnerLabelsInv, OwnerLabels, ExitLabels, PointerInv, MonitorLabels
  <2>. QED  BY <1>1, <1>3, <1>6, <2>1, <2>2 DEF EmptyInv
<1>9. NodeInv'
  <2>. SUFFICES ASSUME NEW n \in Monitors, NEW u \in Threads,
                       u \in ToSet(threadsWaitingForPulse'[n])
                PROVE  waiting'[u] /\ monitor'[object'[u]] = n
    BY <1>6 DEF NodeInv
  <2>1. CASE u = t
    BY <1>2, <1>3, <1>4, <1>6, <2>1 DEF m
  <2>2. CASE u # t
    BY <1>2, <1>3, <1>6, <2>2 DEF NodeInv
  <2>. QED  BY <2>1, <2>2
<1>. QED  BY <1>7, <1>8, <1>9

\* A pulse ends the wait for one.
LEMMA PulsedKeepsWaiters ==
  ASSUME QuietClient, IInv, WInv, NEW t \in Threads, OnlySelf(t), Pulsed(t)
  PROVE  WInv'
<1>. USE DEF WInv, At, Goto, OnList, OnlySelf
<1>1. /\ pc'[t] = "Enter" /\ pc[t] = "PulseWait"
      /\ UNCHANGED <<monitor, threadsWaitingForPulse, object, waiting, installedMonitor>>
      /\ \A u \in Threads \ {t} : signalWaitingThread'[u] = signalWaitingThread[u]
  BY DEF Pulsed, Reenter, IInv, TypeOK, LabelType, PulseType, lockv
<1>2. ReachInv'
  BY <1>1 DEF ReachInv, WaitLabels, ExitLabels, FlushLabels
<1>3. EmptyInv' /\ NodeInv'
  BY <1>1 DEF EmptyInv, NodeInv
<1>. QED  BY <1>2, <1>3

\* The waiting thread has the lock again, and takes its node off.
LEMMA ReacquiredKeepsWaiters ==
  ASSUME QuietClient, IInv, WInv, NEW t \in Threads, OnlySelf(t), Reacquired(t)
  PROVE  WInv'
<1>. USE DEF WInv, At, Goto, OnList, OnlySelf
<1>. DEFINE m == monitor[object[t]]
            s == threadsWaitingForPulse[m]
            r == RemoveFromPulseWaitingList(s, t)
<1>1. /\ pc[t] = "Reacquired" /\ pc'[t] = "Idle" /\ ~waiting'[t]
      /\ UNCHANGED <<monitor, installedMonitor>>
      /\ threadsWaitingForPulse' = [threadsWaitingForPulse EXCEPT ![m] = r]
      /\ signalWaitingThread' = [signalWaitingThread EXCEPT ![t] = FALSE]
  BY DEF Reacquired, IInv, TypeOK, LabelType, ArgType, lockv
<1>2. waiting[t] /\ object[t] \in Objects
  BY <1>1, QuietSteps DEF IInv, CallInv
<1>3. m \in Monitors
  BY <1>1, <1>2 DEF IInv, OwnerLabelsInv, TypeOK, LockType
<1>4. s \in Seq(Threads) /\ Once(s)
  BY <1>3 DEF NodeInv, IInv, TypeOK, PulseType
<1>5. ToSet(r) = ToSet(s) \ {t} /\ Once(r)
  BY <1>4, NodeRemoved
<1>6. \A n \in Monitors : threadsWaitingForPulse'[n] = IF n = m THEN r ELSE threadsWaitingForPulse[n]
  BY <1>1 DEF IInv, TypeOK, PulseType
<1>7. s = <<>> => r = <<>>
  BY DEF RemoveFromPulseWaitingList
<1>8. \A u \in Threads \ {t} : signalWaitingThread'[u] = signalWaitingThread[u]
  BY <1>1 DEF IInv, TypeOK, PulseType
<1>9. t \in ToSet(threadsWaitingForPulse[m]) \/ \A n \in Monitors : t \notin ToSet(threadsWaitingForPulse[n])
  BY DEF NodeInv
<1>10. \A n \in Monitors : n # m => t \notin ToSet(threadsWaitingForPulse[n])
  BY DEF NodeInv
<1>. HIDE DEF r
<1>11. ReachInv'
  <2>. SUFFICES ASSUME NEW u \in Threads, waiting'[u], timeout'[u] # "zero",
                       pc'[u] \in WaitLabels
                PROVE  \/ signalWaitingThread'[u]
                       \/ /\ monitor'[object'[u]] # NULL
                          /\ u \in ToSet(threadsWaitingForPulse'[monitor'[object'[u]]])
    BY DEF ReachInv
  <2>1. u # t /\ waiting[u] /\ timeout[u] # "zero" /\ pc[u] \in WaitLabels
    BY <1>1
  <2>2. object[u] \in Objects /\ object'[u] = object[u]
    BY <2>1, QuietSteps
  <2>3. monitor[object[u]] # NULL => monitor[object[u]] \in Monitors
    BY <2>2 DEF IInv, TypeOK, LockType
  <2>4. CASE signalWaitingThread[u]
    BY <1>8, <2>1, <2>4
  <2>5. CASE monitor[object[u]] # NULL /\ u \in ToSet(threadsWaitingForPulse[monitor[object[u]]])
    <3>. DEFINE n == monitor[object[u]]
    <3>1. n \in Monitors /\ n # NULL /\ u \in ToSet(threadsWaitingForPulse[n]) /\ monitor'[object'[u]] = n
      BY <1>1, <2>2, <2>3, <2>5
    <3>. HIDE DEF n, m
    <3>2. u \in ToSet(threadsWaitingForPulse'[n])
      BY <1>5, <1>6, <2>1, <3>1 DEF s
    <3>. QED  BY <3>1, <3>2
  <2>. QED  BY <2>1, <2>4, <2>5 DEF ReachInv
<1>12. EmptyInv'
  <2>. SUFFICES ASSUME NEW u \in Threads, pc'[u] = "Deflate"
                PROVE  threadsWaitingForPulse'[installedMonitor'[u]] = <<>>
    BY DEF EmptyInv
  <2>1. pc[u] = "Deflate" /\ threadsWaitingForPulse[installedMonitor[u]] = <<>>
    BY <1>1 DEF EmptyInv
  <2>2. installedMonitor[u] \in Monitors
    BY <2>1 DEF IInv, PointerInv, MonitorLabels
  <2>. QED  BY <1>1, <1>6, <1>7, <2>1, <2>2
<1>13. NodeInv'
  <2>. SUFFICES ASSUME NEW n \in Monitors
                PROVE  /\ Once(threadsWaitingForPulse'[n])
                       /\ \A u \in Threads : u \in ToSet(threadsWaitingForPulse'[n])
                              => waiting'[u] /\ monitor'[object'[u]] = n
    BY DEF NodeInv, Once
  <2>1. Once(threadsWaitingForPulse'[n])
    BY <1>5, <1>6 DEF NodeInv
  <2>2. \A u \in Threads : u \in ToSet(threadsWaitingForPulse'[n])
                              => u # t /\ u \in ToSet(threadsWaitingForPulse[n])
    BY <1>5, <1>6, <1>10
  <2>. QED  BY <1>1, <2>1, <2>2 DEF NodeInv
<1>. QED  BY <1>11, <1>12, <1>13

\* A pulse signals the threads whose nodes it pops.
LEMMA PulseKeepsWaiters ==
  ASSUME QuietClient, IInv, WInv, NEW t \in Threads, NEW o \in Objects,
         NEW all \in BOOLEAN, PulseMonitor(t, o, all)
  PROVE  WInv'
<1>. USE DEF WInv, At, OnList
<1>. DEFINE m == monitor[o]
            s == threadsWaitingForPulse[m]
            n == IF all \/ s = <<>> THEN Len(s) ELSE 1
            r == SubSeq(s, n + 1, Len(s))
            q == SubSeq(s, 1, n)
<1>1. m \in Monitors
  BY CallerHolds DEF PulseMonitor
<1>2. /\ UNCHANGED <<monitor, pc, object, installedMonitor, timeout, waiting>>
      /\ threadsWaitingForPulse' = [threadsWaitingForPulse EXCEPT ![m] = r]
      /\ signalWaitingThread' = [u \in Threads |-> signalWaitingThread[u] \/ u \in ToSet(q)]
  BY DEF PulseMonitor, lockv, callv, argv
<1>3. s \in Seq(Threads) /\ Once(s)
  BY <1>1 DEF NodeInv, IInv, TypeOK, PulseType
<1>4. n \in 0..Len(s)
  <2>1. Len(s) \in Nat /\ (s # <<>> => Len(s) # 0)
    BY <1>3
  <2>. QED  BY <2>1
<1>5. /\ ToSet(r) \subseteq ToSet(s)
      /\ ToSet(s) \subseteq ToSet(q) \union ToSet(r)
      /\ Once(r)
  BY <1>3, <1>4, NodesPopped
<1>6. s = <<>> => r = <<>>
  <2>1. ASSUME s = <<>> PROVE n = 0 /\ Len(s) = 0
    BY <2>1
  <2>2. ASSUME s = <<>> PROVE r = <<>>
    BY <2>1, <2>2, SubSeqEmpty
  <2>. QED  BY <2>2
<1>7. \A k \in Monitors : threadsWaitingForPulse'[k] = IF k = m THEN r ELSE threadsWaitingForPulse[k]
  BY <1>2 DEF IInv, TypeOK, PulseType
<1>. HIDE DEF r, q, n
<1>8. ReachInv'
  <2>. SUFFICES ASSUME NEW u \in Threads, waiting[u], timeout[u] # "zero",
                       pc[u] \in WaitLabels
                PROVE  \/ signalWaitingThread'[u]
                       \/ /\ monitor[object[u]] # NULL
                          /\ u \in ToSet(threadsWaitingForPulse'[monitor[object[u]]])
    BY <1>2 DEF ReachInv
  <2>1. object[u] \in Objects
    BY QuietSteps
  <2>2. monitor[object[u]] # NULL => monitor[object[u]] \in Monitors
    BY <2>1 DEF IInv, TypeOK, LockType
  <2>3. CASE signalWaitingThread[u]
    BY <1>2, <2>3
  <2>4. CASE monitor[object[u]] # NULL /\ u \in ToSet(threadsWaitingForPulse[monitor[object[u]]])
    <3>. DEFINE k == monitor[object[u]]
    <3>1. k \in Monitors /\ k # NULL /\ u \in ToSet(threadsWaitingForPulse[k])
      BY <2>2, <2>4
    <3>. HIDE DEF k
    <3>2. CASE u \in ToSet(q)
      BY <1>2, <3>2
    <3>3. CASE u \notin ToSet(q)
      BY <1>5, <1>7, <3>1, <3>3 DEF k
    <3>. QED  BY <3>2, <3>3
  <2>. QED  BY <2>3, <2>4 DEF ReachInv
<1>9. EmptyInv'
  <2>. SUFFICES ASSUME NEW u \in Threads, pc[u] = "Deflate"
                PROVE  threadsWaitingForPulse'[installedMonitor[u]] = <<>>
    BY <1>2 DEF EmptyInv
  <2>1. threadsWaitingForPulse[installedMonitor[u]] = <<>>
    BY DEF EmptyInv
  <2>2. installedMonitor[u] \in Monitors
    BY DEF IInv, PointerInv, MonitorLabels
  <2>. QED  BY <1>6, <1>7, <2>1, <2>2
<1>10. NodeInv'
  <2>. SUFFICES ASSUME NEW k \in Monitors
                PROVE  /\ Once(threadsWaitingForPulse'[k])
                       /\ \A u \in Threads : u \in ToSet(threadsWaitingForPulse'[k])
                              => waiting[u] /\ monitor[object[u]] = k
    BY <1>2 DEF NodeInv, Once
  <2>1. Once(threadsWaitingForPulse'[k])
    BY <1>5, <1>7 DEF NodeInv
  <2>2. \A u \in Threads : u \in ToSet(threadsWaitingForPulse'[k])
                              => u \in ToSet(threadsWaitingForPulse[k])
    BY <1>5, <1>7
  <2>. QED  BY <2>1, <2>2 DEF NodeInv
<1>. QED  BY <1>8, <1>9, <1>10

LEMMA WaitersInitially == Init => WInv
BY DEF Init, WInv, ReachInv, EmptyInv, NodeInv, OnList, Once, ToSet

LEMMA WaitersKept ==
  ASSUME QuietClient, IInv, WInv, [Next]_vars
  PROVE  WInv'
<1>1. CASE UNCHANGED vars
  BY <1>1 DEF vars, lockv, pulsev, callv, argv, WInv, ReachInv, EmptyInv, NodeInv, OnList, Once
<1>2. ASSUME NEW t \in Threads, Call(t) \/ Step(t) \/ Throw(t)
      PROVE  WInv'
  <2>1. OnlySelf(t)
    BY <1>2, StepsAreLocal DEF IInv
  <2>2. CASE WaitAside(t)
    BY <2>1, <2>2, WaitFrame
  <2>3. CASE Deflate(t)
    BY <2>1, <2>3, DeflateKeepsWaiters
  <2>4. CASE \E o \in Objects : \E ms \in WaitTimeouts : Wait(t, o, ms)
    BY <2>4, WaitKeepsWaiters
  <2>5. CASE \E o \in Objects : \E all \in BOOLEAN : PulseMonitor(t, o, all)
    BY <2>5, PulseKeepsWaiters
  <2>6. CASE Pulsed(t) \/ Reacquired(t)
    BY <2>1, <2>6, PulsedKeepsWaiters, ReacquiredKeepsWaiters
  <2>. QED  BY <1>2, <2>2, <2>3, <2>4, <2>5, <2>6, WaitAsideSteps, QuietSteps
            DEF Call, Step, WaitStep
<1>. QED  BY <1>1, <1>2 DEF Next

THEOREM WaitListInvariant ==
  ASSUME QuietClient
  PROVE  Spec => [](IInv /\ WInv)
<1>1. IInv /\ WInv /\ [Next]_vars => IInv' /\ WInv'
  BY IInvStep, WaitersKept
<1>. QED  BY IInvInit, WaitersInitially, <1>1, PTL DEF Spec

(* Whoever waits for a pulse and is not signalled yet is on the list of the *)
(* monitor that its object has now, where the next Pulse looks for it: the  *)
(* monitor is never deflated under it (TryWait 608-626, Exit 508-529).      *)
THEOREM WaitersAreReachable ==
  ASSUME QuietClient
  PROVE  Spec => []WaiterIsReachable
<1>1. IInv /\ WInv => WaiterIsReachable
  <2>1. ASSUME IInv, NEW t \in Threads, pc[t] = "PulseWait" PROVE waiting[t]
    BY <2>1 DEF IInv, CallInv
  <2>. QED  BY <2>1 DEF WInv, ReachInv, WaiterIsReachable, OnList, WaitLabels, At
<1>. QED  BY WaitListInvariant, <1>1, PTL

----------------------------------------------------------------------------
(* The wakeups.  A thread blocks only when the monitor is not to be had; a  *)
(* thread that gives the monitor up, or is woken, sees to it that the next  *)
(* one is woken or takes the monitor itself.                                *)
WakerLabels == {"Post", "Repost", "Loop", "Grab"}

BacksOut(t, m) == Backout(t) /\ installedMonitor[t] = m

\* What a step of t does to the threads blocked on a monitor.
WakeAside(t) ==
    /\ \A m \in Monitors :
          /\ CanAcquire(m)' => CanAcquire(m) \/ Wakes(t, m)' \/ BacksOut(t, m)
          /\ semaphore[m] > 0 => semaphore'[m] > 0 \/ Wakes(t, m)' \/ ~CanAcquire(m)'
          /\ Wakes(t, m) =>
                \/ Wakes(t, m)' \/ semaphore'[m] > 0 \/ ~CanAcquire(m)'
                \/ readyList[m] = {}
    /\ At(t, "SemWait")' => ~CanAcquire(installedMonitor[t])'

\* Nobody but its owner takes a monitor off its object.
LEMMA FreeMonitorStays ==
  ASSUME IInv, NEW t \in Threads, Call(t) \/ Step(t) \/ Throw(t),
         NEW o \in Objects, monitor[o] \in Monitors, CanAcquire(monitor[o])
  PROVE  monitor'[o] = monitor[o]
<1>. USE ConstantsAssumption
     DEF ConstantsAssumption, At, lockv, callv, argv, CanAcquire, IInv, TypeOK, LockType
<1>1. CASE Install(t)
  BY <1>1 DEF Install
<1>2. CASE Deflate(t)
  <2>1. /\ monitor' = [monitor EXCEPT ![object[t]] = NULL]
        /\ owningThreadId[monitor[object[t]]] = t
    BY <1>2 DEF Deflate, OwnerLabelsInv, OwnerLabels, ExitLabels, Attached
  <2>2. o # object[t]
    BY <2>1
  <2>. QED  BY <2>1, <2>2
<1>3. CASE ~Install(t) /\ ~Deflate(t)
  <2>1. CASE Call(t)
    BY <2>1 DEF Call, Enter, Exit, ExitRecursive, ExitLast, Wait, PulseMonitor
  <2>2. CASE EnterStep(t)
    BY <1>3, <2>2
       DEF EnterStep, ReadMonitor, Allocate, InstallLost, LockRecursively, TryAcquire, Recheck,
           RecheckFails, Backout, FailAtOnce, QueueUp, GetReady, TestAttached, Grab, GrabFails,
           Unready, Wake, Vacate, Acknowledge
  <2>3. CASE TimeoutStep(t)
    BY <2>3 DEF TimeoutStep, TimeOut, LastRead, LastGrab, LastGrabFails, LateAck
  <2>4. CASE ExitStep(t)
    BY <1>3, <2>4
       DEF ExitStep, ExitReady, Handoff, PostOne, ExitPulse, Yield, Repost, FlushReset, FlushTest,
           FlushPost, FlushWait, Free
  <2>5. CASE WaitStep(t)
    BY <2>5 DEF WaitStep, Pulsed, WaitTimeOut, Reacquired, Reenter
  <2>6. CASE Throw(t)
    BY <2>6 DEF Throw, InterruptEnter, AbortEnter, InterruptWait, Reenter
  <2>. QED  BY <2>1, <2>2, <2>3, <2>4, <2>5, <2>6 DEF Step
<1>. QED  BY <1>1, <1>2, <1>3

\* A thread blocked on a monitor that is to be had finds it attached: whoever
\* flushes a monitor owns it.
LEMMA BlockedIsAttached ==
  ASSUME IInv, NEW t \in Threads, pc[t] = "SemWait", CanAcquire(installedMonitor[t])
  PROVE  Attached(t)
BY ConstantsAssumption
   DEF ConstantsAssumption, IInv, HandshakeInv, OwnerLabelsInv, OwnerLabels, FlushLabels,
       CanAcquire

LEMMA CallsWakeAside ==
  ASSUME QuietClient, IInv, NEW t \in Threads, Call(t)
  PROVE  WakeAside(t)
<1>1. TypeOK
  BY DEF IInv
<1>2. pc[t] = "Idle"
  BY QuietSteps DEF Call, Enter, Exit, ExitRecursive, ExitLast, Wait, PulseMonitor, At
<1>3. UNCHANGED <<owningThreadId, semaphore>>
  BY DEF Call, Enter, Exit, ExitRecursive, ExitLast, Wait, PulseMonitor, lockv, wakev
<1>4. pc'[t] # "SemWait"
  <2>. USE <1>1, <1>2 DEF Goto, TypeOK, LabelType
  <2>1. CASE \E o \in Objects, ms \in EnterTimeouts : Enter(t, o, ms)
    BY <2>1 DEF Enter
  <2>2. CASE \E o \in Objects : Exit(t, o)
    BY <2>2 DEF Exit, ExitRecursive, ExitLast
  <2>3. CASE \E o \in Objects, ms \in WaitTimeouts : Wait(t, o, ms)
    BY <2>3 DEF Wait
  <2>4. CASE \E o \in Objects, all \in BOOLEAN : PulseMonitor(t, o, all)
    BY <2>4 DEF PulseMonitor
  <2>. QED  BY <2>1, <2>2, <2>3, <2>4 DEF Call
<1>. QED  BY <1>2, <1>3, <1>4 DEF WakeAside, Wakes, BacksOut, WakerLabels, CanAcquire, At

LEMMA EnterStepsWakeAside ==
  ASSUME QuietClient, IInv, NEW t \in Threads, EnterStep(t)
  PROVE  WakeAside(t)
<1>. USE ConstantsAssumption
     DEF WakeAside, Wakes, BacksOut, WakerLabels, ConstantsAssumption, At, Goto, CanAcquire, lockv, wakev,
         callv, argv
<1>1. /\ TypeOK
      /\ pc[t] \in MonitorLabels => object[t] \in Objects /\ installedMonitor[t] \in Monitors
  BY DEF IInv, PointerInv, MonitorLabels
<1>2. CASE \/ ReadMonitor(t) \/ Install(t) \/ LockRecursively(t) \/ Recheck(t) \/ RecheckFails(t)
           \/ FailAtOnce(t) \/ QueueUp(t) \/ GetReady(t) \/ Unready(t) \/ Vacate(t) \/ Acknowledge(t)
  <2>1. UNCHANGED <<owningThreadId, semaphore>> /\ pc[t] \notin WakerLabels /\ pc'[t] # "SemWait"
    BY <1>1, <1>2
       DEF ReadMonitor, Install, LockRecursively, Recheck, RecheckFails, FailAtOnce, QueueUp,
           GetReady, Unready, Vacate, Acknowledge, EnterReturnsTrue, EnterFails, TypeOK, LabelType
  <2>. QED  BY <2>1
<1>3. CASE Allocate(t) \/ InstallLost(t) \/ TryAcquire(t)
  <2>1. /\ UNCHANGED semaphore /\ pc[t] \notin WakerLabels /\ pc'[t] # "SemWait"
        /\ \A m \in Monitors : owningThreadId'[m] = CanBeAcquired => owningThreadId[m] = CanBeAcquired
    BY <1>1, <1>3
       DEF Allocate, InstallLost, TryAcquire, SetOwner, ReturnToFreeList, TypeOK, LabelType, LockType
  <2>. QED  BY <2>1
<1>4. CASE TestAttached(t)
  <2>1. UNCHANGED <<owningThreadId, semaphore, installedMonitor>> /\ pc[t] = "Loop"
    BY <1>4 DEF TestAttached
  <2>2. pc'[t] = "Grab" \/ (pc'[t] = "Vacate" /\ ~Attached(t))
    BY <1>1, <1>4 DEF TestAttached, TypeOK, LabelType
  <2>. QED  BY <2>1, <2>2
<1>5. CASE Grab(t)
  <2>1. /\ UNCHANGED <<semaphore, installedMonitor>> /\ pc[t] = "Grab" /\ pc'[t] = "Unready"
        /\ \A m \in Monitors : owningThreadId'[m] = CanBeAcquired => owningThreadId[m] = CanBeAcquired
        /\ owningThreadId'[installedMonitor[t]] # CanBeAcquired
    BY <1>1, <1>5 DEF Grab, SetOwner, TypeOK, LabelType, LockType, MonitorLabels
  <2>. QED  BY <2>1
<1>6. CASE GrabFails(t)
  <2>1. /\ UNCHANGED <<owningThreadId, semaphore, installedMonitor>> /\ pc'[t] = "SemWait"
        /\ owningThreadId[installedMonitor[t]] # CanBeAcquired
    BY <1>1, <1>6 DEF GrabFails, TypeOK, LabelType
  <2>. QED  BY <2>1
<1>7. CASE Wake(t)
  <2>1. /\ UNCHANGED <<owningThreadId, installedMonitor, object, monitor>>
        /\ pc[t] = "SemWait" /\ pc'[t] = "Loop"
        /\ \A m \in Monitors : m # installedMonitor[t] => semaphore'[m] = semaphore[m]
    BY <1>1, <1>7 DEF Wake, TypeOK, LabelType, WakeType
  <2>2. CanAcquire(installedMonitor[t]) => (Attached(t))'
    <3>1. CanAcquire(installedMonitor[t]) => Attached(t)
      BY <2>1, BlockedIsAttached
    <3>. QED  BY <2>1, <3>1 DEF Attached
  <2>. QED  BY <2>1, <2>2
<1>8. CASE Backout(t)
  <2>1. /\ UNCHANGED semaphore /\ pc[t] \notin WakerLabels /\ pc'[t] # "SemWait"
        /\ \A m \in Monitors : m # installedMonitor[t] => owningThreadId'[m] = owningThreadId[m]
    BY <1>1, <1>8 DEF Backout, Unacquire, SetOwner, TypeOK, LabelType, LockType
  <2>. QED  BY <1>8, <2>1
<1>. QED  BY <1>2, <1>3, <1>4, <1>5, <1>6, <1>7, <1>8 DEF EnterStep

LEMMA PostedIsPositive ==
  ASSUME NEW c \in 0 .. SemaphoreMaximum, NEW n \in Nat, SemaphoreMaximum > 0, c > 0 \/ n = 1
  PROVE  Posted(c, n) > 0
BY ConstantsAssumption DEF ConstantsAssumption, Posted

LEMMA ExitStepsWakeAside ==
  ASSUME QuietClient, SemaphoreMaximum > 0, IInv, NEW t \in Threads, ExitStep(t)
  PROVE  WakeAside(t)
<1>. USE ConstantsAssumption
     DEF WakeAside, Wakes, BacksOut, WakerLabels, ConstantsAssumption, At, Goto, CanAcquire, lockv, wakev,
         callv, argv
<1>1. TypeOK /\ installedMonitor[t] \in Monitors
  BY DEF ExitStep, ExitReady, Handoff, PostOne, ExitPulse, Yield, Repost, Deflate, FlushReset,
         FlushTest, FlushPost, FlushWait, Free, IInv, PointerInv, MonitorLabels
<1>2. CASE \/ ExitReady(t) \/ ExitPulse(t) \/ Deflate(t) \/ FlushReset(t) \/ FlushTest(t)
           \/ FlushWait(t)
  <2>1. UNCHANGED <<owningThreadId, semaphore>> /\ pc[t] \notin WakerLabels /\ pc'[t] # "SemWait"
    BY <1>1, <1>2
       DEF ExitReady, ExitPulse, Deflate, FlushReset, FlushTest, FlushWait, TypeOK, LabelType
  <2>. QED  BY <2>1
<1>3. CASE Handoff(t) \/ Yield(t)
  <2>1. /\ UNCHANGED <<semaphore, installedMonitor>> /\ pc[t] \notin WakerLabels
        /\ pc'[t] \in {"Post", "Repost"}
        /\ \A m \in Monitors : m # installedMonitor[t] => owningThreadId'[m] = owningThreadId[m]
    BY <1>1, <1>3 DEF Handoff, Yield, Unacquire, SetOwner, TypeOK, LabelType, LockType
  <2>. QED  BY <2>1
<1>4. CASE PostOne(t)
  <2>1. UNCHANGED owningThreadId /\ pc'[t] # "SemWait"
    BY <1>1, <1>4 DEF PostOne, ExitReturns, TypeOK, LabelType
  <2>2. \A m \in Monitors : semaphore'[m] = IF m = installedMonitor[t] THEN Posted(semaphore[m], 1)
                                            ELSE semaphore[m]
    BY <1>1, <1>4 DEF PostOne, Post, TypeOK, WakeType
  <2>3. \A m \in Monitors : (semaphore[m] > 0 \/ m = installedMonitor[t]) => semaphore'[m] > 0
    BY <1>1, <2>2, PostedIsPositive DEF TypeOK, WakeType
  <2>. QED  BY <2>1, <2>3
<1>5. CASE Repost(t)
  <2>1. UNCHANGED <<owningThreadId, semaphore>> /\ pc'[t] # "SemWait"
    BY <1>1, <1>5 DEF Repost, ExitReturns, TypeOK, LabelType
  <2>2. \/ readyList[installedMonitor[t]] = {}
        \/ pc'[t] = "Post" /\ UNCHANGED installedMonitor
    BY <1>1, <1>5 DEF Repost, TypeOK, LabelType
  <2>. QED  BY <2>1, <2>2
<1>6. CASE FlushPost(t)
  <2>1. /\ UNCHANGED owningThreadId /\ pc[t] \notin WakerLabels /\ pc'[t] # "SemWait"
    BY <1>1, <1>6 DEF FlushPost, TypeOK, LabelType
  <2>. DEFINE n == Cardinality(readyList[installedMonitor[t]])
  <2>2. n \in Nat
    BY <1>1, FS_Subset, FS_CardinalityType DEF TypeOK, WakeType
  <2>3. \A m \in Monitors : semaphore'[m] = IF m = installedMonitor[t] THEN Posted(semaphore[m], n)
                                            ELSE semaphore[m]
    BY <1>1, <1>6 DEF FlushPost, Post, TypeOK, WakeType
  <2>. HIDE DEF n
  <2>4. \A m \in Monitors : semaphore[m] > 0 => semaphore'[m] > 0
    BY <1>1, <2>2, <2>3, PostedIsPositive DEF TypeOK, WakeType
  <2>. QED  BY <2>1, <2>4
<1>7. CASE Free(t)
  <2>1. /\ UNCHANGED semaphore /\ pc[t] \notin WakerLabels /\ pc'[t] # "SemWait"
        /\ \A m \in Monitors : owningThreadId'[m] = CanBeAcquired => owningThreadId[m] = CanBeAcquired
    BY <1>1, <1>7 DEF Free, ReturnToFreeList, SetOwner, ExitReturns, TypeOK, LabelType, LockType
  <2>. QED  BY <2>1
<1>. QED  BY <1>2, <1>3, <1>4, <1>5, <1>6, <1>7 DEF ExitStep

LEMMA WakeAsideSteps ==
  ASSUME QuietClient, SemaphoreMaximum > 0, IInv, NEW t \in Threads,
         Call(t) \/ Step(t) \/ Throw(t)
  PROVE  WakeAside(t)
<1>1. TypeOK /\ ~TimeoutStep(t) /\ ~Throw(t)
  BY QuietSteps DEF IInv
<1>2. CASE WaitStep(t)
  <2>1. UNCHANGED <<owningThreadId, semaphore>> /\ pc[t] \in {"PulseWait", "Reacquired"}
    BY <1>2 DEF WaitStep, Pulsed, WaitTimeOut, Reacquired, Reenter, At, lockv, wakev
  <2>2. pc'[t] \in {"Enter", "Idle"}
    BY <1>1, <1>2
       DEF WaitStep, Pulsed, WaitTimeOut, Reacquired, Reenter, Goto, TypeOK, LabelType
  <2>. QED  BY <2>1, <2>2 DEF WakeAside, Wakes, CanAcquire, At
<1>. QED  BY <1>1, <1>2, CallsWakeAside, EnterStepsWakeAside, ExitStepsWakeAside DEF Step

LEMMA WakeupsKept ==
  ASSUME QuietClient, SemaphoreMaximum > 0, IInv, NEW t \in Threads,
         Call(t) \/ Step(t) \/ Throw(t), NEW m \in Monitors,
         WakeupIsComing(m), ~BacksOut(t, m)
  PROVE  WakeupIsComing(m)'
<1>1. OnlySelf(t) /\ WakeAside(t)
  BY StepsAreLocal, WakeAsideSteps DEF IInv
<1>2. SUFFICES ASSUME CanAcquire(m)', NEW u \in Threads, pc'[u] = "SemWait",
                      installedMonitor'[u] = m, ~(semaphore'[m] > 0)
               PROVE  \E v \in Threads : Wakes(v, m)'
  BY DEF WakeupIsComing, At
<1>3. u # t
  BY <1>1, <1>2 DEF WakeAside, At, CanAcquire
<1>4. installedMonitor[u] = m /\ pc[u] = "SemWait"
  BY <1>1, <1>2, <1>3 DEF OnlySelf
<1>5. u \in readyList[m]
  BY <1>4 DEF IInv, ReadyInv
<1>6. CASE ~CanAcquire(m) \/ semaphore[m] > 0
  BY <1>1, <1>2, <1>6 DEF WakeAside
<1>7. CASE CanAcquire(m) /\ ~(semaphore[m] > 0)
  <2>1. PICK v \in Threads : Wakes(v, m)
    BY <1>4, <1>7 DEF WakeupIsComing, At
  <2>2. CASE v = t
    BY <1>1, <1>2, <1>5, <2>1, <2>2 DEF WakeAside
  <2>3. CASE v # t
    <3>1. /\ pc'[v] = pc[v] /\ object'[v] = object[v]
          /\ installedMonitor'[v] = installedMonitor[v]
      BY <1>1, <2>3 DEF OnlySelf
    <3>2. CASE pc[v] \in {"Post", "Repost", "Grab"}
      BY <2>1, <3>1, <3>2 DEF Wakes
    <3>3. CASE At(v, "Loop") /\ Attached(v)
      <4>1. object[v] \in Objects /\ monitor[object[v]] = m
        BY <2>1, <3>3 DEF Wakes, Attached, At, IInv, PointerInv
      <4>2. monitor'[object[v]] = m
        BY <1>7, <4>1, FreeMonitorStays
      <4>. QED  BY <2>1, <3>1, <3>3, <4>2 DEF Wakes, Attached, At
    <3>. QED  BY <2>1, <3>2, <3>3 DEF Wakes
  <2>. QED  BY <2>2, <2>3
<1>. QED  BY <1>6, <1>7

(* Only a thread that backs out of a monitor loses the wakeup of the threads *)
(* blocked on it (TryEnter 354-358), whatever the objects and however their  *)
(* monitors change places.  Everybody else counts itself as ready before its *)
(* last try (TryEnter 381-401), and whoever unlocks looks at that count      *)
(* afterwards and posts (Exit 500-527).                                      *)
THEOREM WakeupLosses ==
  ASSUME QuietClient, SemaphoreMaximum > 0
  PROVE  Spec => OnlyBackoutLosesWakeups
<1>. DEFINE Kept == \A m \in Monitors :
              WakeupIsComing(m) /\ ~(\E t \in Threads : Backout(t) /\ installedMonitor[t] = m)
              => WakeupIsComing(m)'
<1>1. IInv /\ [Next]_vars => [Kept]_vars
  <2>. SUFFICES ASSUME IInv, Next, NEW m \in Monitors, WakeupIsComing(m),
                       ~(\E t \in Threads : Backout(t) /\ installedMonitor[t] = m)
                PROVE  WakeupIsComing(m)'
    OBVIOUS
  <2>1. PICK t \in Threads : Call(t) \/ Step(t) \/ Throw(t)
    BY DEF Next
  <2>2. ~BacksOut(t, m)
    BY DEF BacksOut
  <2>. QED  BY <2>1, <2>2, WakeupsKept
<1>. QED  BY InductiveInvariant, <1>1, PTL DEF Spec, OnlyBackoutLosesWakeups
============================================================================
