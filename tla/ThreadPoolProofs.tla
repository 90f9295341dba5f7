-------------------------- MODULE ThreadPoolProofs --------------------------
(***************************************************************************)
(* Proofs about ThreadPool: the invariant IInv is inductive, for any       *)
(* workers, requesters and limits.                                         *)
(***************************************************************************)
EXTENDS ThreadPool, FiniteSetTheorems, TLAPS

\* The number of workers at some labels, when only one worker moves.
LEMMA WorkerMoved ==
  ASSUME NEW L, NEW w \in Workers,
         \A v \in Workers \ {w} : pc'[v] = pc[v]
  PROVE  /\ Cardinality(WorkersAt(L)) \in Nat
         /\ pc[w] \in L /\ pc'[w] \in L =>
              Cardinality(WorkersAt(L)') = Cardinality(WorkersAt(L))
         /\ pc[w] \notin L /\ pc'[w] \notin L =>
              Cardinality(WorkersAt(L)') = Cardinality(WorkersAt(L))
         /\ pc[w] \in L /\ pc'[w] \notin L =>
              Cardinality(WorkersAt(L)') = Cardinality(WorkersAt(L)) - 1
         /\ pc[w] \notin L /\ pc'[w] \in L =>
              Cardinality(WorkersAt(L)') = Cardinality(WorkersAt(L)) + 1
<1> DEFINE S == WorkersAt(L)
<1>1. IsFiniteSet(S) /\ Cardinality(S) \in Nat
  BY ThreadAssumption, FS_Subset, FS_CardinalityType DEF WorkersAt
<1>2. (pc[w] \in L <=> pc'[w] \in L) => S' = S
  BY DEF WorkersAt
<1>3. pc[w] \in L /\ pc'[w] \notin L => w \in S /\ S' = S \ {w}
  BY DEF WorkersAt
<1>4. pc[w] \notin L /\ pc'[w] \in L => w \notin S /\ S' = S \cup {w}
  BY DEF WorkersAt
<1>5. w \in S => Cardinality(S \ {w}) = Cardinality(S) - 1
  BY <1>1, FS_RemoveElement
<1>6. w \notin S => Cardinality(S \cup {w}) = Cardinality(S) + 1
  BY <1>1, FS_AddElement
<1> QED BY <1>1, <1>2, <1>3, <1>4, <1>5, <1>6

\* Who is a worker and who is not.
LEMMA Disjoint ==
  /\ \A t \in Requesters \cup {Monitor, Main} : t \notin Workers /\ t \in Threads
  /\ \A w \in Workers : w \in Threads
  BY ThreadAssumption DEF Threads

\* The same when no worker crosses the border of L.
LEMMA WorkersStill ==
  ASSUME NEW L, \A v \in Workers : pc'[v] \in L <=> pc[v] \in L
  PROVE  WorkersAt(L)' = WorkersAt(L)
  BY DEF WorkersAt

\* worker_creation_lock: the reservation under way is its holder's.
LEMMA ReservedCount ==
  TypeOK /\ CreatorIsTrue =>
    Cardinality(Reserved) = IF creator = Nobody THEN 0 ELSE 1
<1> SUFFICES ASSUME TypeOK, CreatorIsTrue
             PROVE  Cardinality(Reserved) = IF creator = Nobody THEN 0 ELSE 1
  OBVIOUS
<1>1. CASE creator = Nobody
  <2>1. Reserved = {}
    BY <1>1, ThreadAssumption DEF Reserved, CreatorIsTrue, Nobody
  <2> QED BY <1>1, <2>1, FS_EmptySet
<1>2. CASE creator # Nobody
  <2>1. Reserved = {creator}
    BY <1>2, ThreadAssumption DEF Reserved, CreatorIsTrue, Nobody, TypeOK
  <2> QED BY <1>2, <2>1, FS_Singleton
<1> QED BY <1>1, <1>2

\* Every variable keeps to its range.
LEMMA TypeStep == IInv /\ [Next]_vars => TypeOK'
<1> SUFFICES ASSUME IInv, [Next]_vars PROVE TypeOK'
  OBVIOUS
<1> USE ThreadAssumption, LimitAssumption, BoundAssumption DEF TypeOK, CreatorIsTrue, Goto,
   Threads, Nobody, WorkersAt, WorkerPcs, RequesterPcs, MonitorPcs, MainPcs, counters, poolVars,
   requestVars, parkVars, monitorVars, worldVars, limitVars
<1>a. TypeOK /\ CreatorIsTrue
  BY DEF IInv
<1>1. ASSUME NEW r \in Requesters, Request(r) PROVE TypeOK'
  BY SMTT(60), <1>a, <1>1 DEF Request
<1>2. ASSUME NEW r \in Requesters, RequestSuspended(r) PROVE TypeOK'
  BY SMTT(60), <1>a, <1>2 DEF RequestSuspended
<1>3. ASSUME NEW r \in Requesters, EnsureRunning(r) PROVE TypeOK'
  <2>1. /\ pc' \in [Threads -> WorkerPcs \cup RequesterPcs \cup MonitorPcs \cup MainPcs]
        /\ \A u \in Workers : pc'[u] \in WorkerPcs
        /\ \A q \in Requesters : pc'[q] \in RequesterPcs
        /\ pc'[Monitor] \in MonitorPcs /\ pc'[Main] \in MainPcs
    BY <1>a, <1>3 DEF EnsureRunning
  <2>2. given' \in BOOLEAN /\ status' \in {"NOT_RUNNING", "WAITING_FOR_REQUEST", "REQUESTED"}
    BY <1>a, <1>3 DEF EnsureRunning
  <2> QED BY <1>a, <2>1, <2>2, <1>3 DEF EnsureRunning
<1>4. ASSUME NEW r \in Requesters, Claim(r) PROVE TypeOK'
  BY SMTT(60), <1>a, <1>4 DEF Claim
<1>5. ASSUME NEW r \in Requesters, MonitorStarts(r) PROVE TypeOK'
  <2>1. /\ pc' \in [Threads -> WorkerPcs \cup RequesterPcs \cup MonitorPcs \cup MainPcs]
        /\ \A u \in Workers : pc'[u] \in WorkerPcs
        /\ \A q \in Requesters : pc'[q] \in RequesterPcs
        /\ pc'[Monitor] \in MonitorPcs /\ pc'[Main] \in MainPcs
    BY SMTT(60), <1>a, <1>5 DEF MonitorStarts
  <2>2. given' \in BOOLEAN
    BY <1>5 DEF MonitorStarts
  <2>3. UNCHANGED <<max_working, active, working, parked, outstanding, jobs, filed, parkedCount,
                    workingThreads, retire, timedOut, status, tries, creator, created,
                    limitMin, limitMax, changes, suspended, shuttingDown, killing>>
    BY <1>5 DEF MonitorStarts
  <2>4. /\ suspended' \in BOOLEAN
        /\ shuttingDown' \in BOOLEAN /\ given' \in BOOLEAN
    BY Zenon, <1>a, <2>2, <2>3 DEF TypeOK
  <2> QED BY SMTT(60), <1>a, <2>1, <2>3, <2>4 DEF TypeOK
<1>6. ASSUME NEW r \in Requesters, MonitorStartFails(r) PROVE TypeOK'
  BY SMTT(60), <1>a, <1>6 DEF MonitorStartFails
<1>7. ASSUME NEW t \in Requesters \cup {Monitor}, Unpark(t) PROVE TypeOK'
  BY SMTT(60), <1>a, <1>7 DEF Unpark, After
<1>8. ASSUME NEW t \in Requesters \cup {Monitor}, CreateDenied(t) PROVE TypeOK'
  BY SMTT(60), <1>a, <1>8 DEF CreateDenied, Denied
<1>9. ASSUME NEW t \in Requesters \cup {Monitor}, Reserve(t) PROVE TypeOK'
  BY SMTT(60), <1>a, <1>9 DEF Reserve, CountActive, CannotReserve
<1>10. ASSUME NEW t \in Requesters \cup {Monitor}, Create(t) PROVE TypeOK'
  BY SMTT(60), <1>a, <1>10 DEF Create, After
<1>11. ASSUME NEW t \in Requesters \cup {Monitor}, CreateFails(t) PROVE TypeOK'
  BY SMTT(60), <1>a, <1>11 DEF CreateFails, Rollback, CountActive, Denied
<1>12. ASSUME NEW w \in Workers, Begin(w) PROVE TypeOK'
  BY SMTT(60), <1>a, <1>12 DEF Begin
<1>13. ASSUME NEW w \in Workers, TakeRequest(w) PROVE TypeOK'
  BY SMTT(60), <1>a, <1>13 DEF TakeRequest
<1>14. ASSUME NEW w \in Workers, FindNothing(w) PROVE TypeOK'
  BY SMTT(60), <1>a, <1>14 DEF FindNothing
<1>15. ASSUME NEW w \in Workers, StopLooping(w) PROVE TypeOK'
  BY SMTT(60), <1>a, <1>15 DEF StopLooping
<1>16. ASSUME NEW w \in Workers, GiveUp(w) PROVE TypeOK'
  BY SMTT(60), <1>a, <1>16 DEF GiveUp, CountParked
<1>17. ASSUME NEW w \in Workers, Park(w) PROVE TypeOK'
  BY SMTT(60), <1>a, <1>17 DEF Park
<1>18. ASSUME NEW w \in Workers, ParkTimeout(w) PROVE TypeOK'
  BY SMTT(60), <1>a, <1>18 DEF ParkTimeout
<1>19. ASSUME NEW w \in Workers, Wake(w) PROVE TypeOK'
  BY SMTT(60), <1>a, <1>19 DEF Wake, Unparked
<1>20. ASSUME NEW w \in Workers, GoOn(w) PROVE TypeOK'
  BY SMTT(60), <1>a, <1>20 DEF GoOn, CountParked
<1>21. ASSUME NEW w \in Workers, HeuristicAdjust(w) PROVE TypeOK'
  BY SMTT(60), <1>a, <1>21 DEF HeuristicAdjust, Clamped, Capped, Far
<1>22. ASSUME NEW w \in Workers, Leave(w) PROVE TypeOK'
  BY SMTT(60), <1>a, <1>22 DEF Leave
<1>23. ASSUME NEW w \in Workers, CountGone(w) PROVE TypeOK'
  BY SMTT(60), <1>a, <1>23 DEF CountGone, CountActive
<1>24. ASSUME NEW w \in Workers, Progress(w) PROVE TypeOK'
  BY SMTT(60), <1>a, <1>24 DEF Progress
<1>25. ASSUME NEW w \in Workers, JobReturns(w) PROVE TypeOK'
  BY SMTT(60), <1>a, <1>25 DEF JobReturns, JobDone
<1>26. ASSUME NEW w \in Workers, JobRetires(w) PROVE TypeOK'
  BY SMTT(60), <1>a, <1>26 DEF JobRetires, JobDone
<1>27. ASSUME NEW w \in Workers, JobThrows(w) PROVE TypeOK'
  BY SMTT(60), <1>a, <1>27 DEF JobThrows, JobDone
<1>28. CASE MonitorRests
  BY SMTT(60), <1>a, <1>28 DEF MonitorRests, MonitorGoto
<1>29. CASE MonitorRaises
  BY SMTT(60), <1>a, <1>29 DEF MonitorRaises, MonitorGoto, Capped, Far
<1>30. CASE MonitorTriesAgain
  BY SMTT(60), <1>a, <1>30 DEF MonitorTriesAgain, MonitorGoto
<1>31. CASE MonitorChecks
  BY SMTT(60), <1>a, <1>31 DEF MonitorChecks, MonitorGoto
<1>32. CASE MonitorDecides
  BY SMTT(60), <1>a, <1>32 DEF MonitorDecides, MonitorGoto, NothingToWatch
<1>33. CASE MonitorQuits
  BY SMTT(60), <1>a, <1>33 DEF MonitorQuits, MonitorGoto
<1>34. CASE Shutdown
  BY SMTT(60), <1>a, <1>34 DEF Shutdown, MainStep
<1>35. CASE CleanupKill
  BY SMTT(60), <1>a, <1>35 DEF CleanupKill, MainStep
<1>36. ASSUME NEW w \in Workers, WorkerKilled(w) PROVE TypeOK'
  BY SMTT(60), <1>a, <1>36 DEF WorkerKilled, MainStep
<1>37. CASE CleanupNotify
  BY SMTT(60), <1>a, <1>37 DEF CleanupNotify
<1>38. CASE NextSecond
  BY SMTT(60), <1>a, <1>38 DEF NextSecond
<1>39. ASSUME NEW n \in MinSettings, SetMinThreads(n) PROVE TypeOK'
  BY SMTT(60), <1>a, <1>39 DEF SetMinThreads, SetLimit, Far
<1>40. CASE Suspend
  BY SMTT(60), <1>a, <1>40 DEF Suspend
<1>41. CASE UNCHANGED vars
  BY SMTT(60), <1>a, <1>41 DEF vars
<1>42. CASE MonitorStarves
  BY SMTT(60), <1>a, <1>42 DEF MonitorStarves, MonitorGoto
<1>43. ASSUME NEW n \in MaxSettings, SetMaxThreads(n) PROVE TypeOK'
  BY SMTT(60), <1>a, <1>43 DEF SetMaxThreads, SetLimit, Far
<1> QED
  BY <1>1, <1>2, <1>3, <1>4, <1>5, <1>6, <1>7, <1>8, <1>9, <1>10, <1>11, <1>12, <1>13, <1>14,
     <1>15, <1>16, <1>17, <1>18, <1>19, <1>20, <1>21, <1>22, <1>23, <1>24, <1>25, <1>26, <1>27,
     <1>28, <1>29, <1>30, <1>31, <1>32, <1>33, <1>34, <1>35, <1>36, <1>37, <1>38, <1>39, <1>40,
     <1>41, <1>42, <1>43 DEF Next, RequesterStep, CreateStep, WorkerStep, JobEnds, MonitorStep, Cleanup

\* worker_creation_lock is held exactly across a reservation.
LEMMA CreatorStep == IInv /\ [Next]_vars => CreatorIsTrue'
<1> SUFFICES ASSUME IInv, [Next]_vars PROVE CreatorIsTrue'
  OBVIOUS
<1> USE ThreadAssumption, BoundAssumption DEF StatusIsTrue, TypeOK, CreatorIsTrue, Goto,
   Threads, Nobody, WorkersAt, WorkerPcs, RequesterPcs, MonitorPcs, MainPcs, counters, poolVars,
   requestVars, parkVars, monitorVars, worldVars, limitVars
<1>a. TypeOK /\ CreatorIsTrue /\ StatusIsTrue
  BY DEF IInv
<1>1. ASSUME NEW r \in Requesters, Request(r) PROVE CreatorIsTrue'
  BY <1>a, <1>1 DEF Request
<1>2. ASSUME NEW r \in Requesters, RequestSuspended(r) PROVE CreatorIsTrue'
  BY <1>a, <1>2 DEF RequestSuspended
<1>3. ASSUME NEW r \in Requesters, EnsureRunning(r) PROVE CreatorIsTrue'
  BY <1>a, <1>3 DEF EnsureRunning
<1>4. ASSUME NEW r \in Requesters, Claim(r) PROVE CreatorIsTrue'
  BY <1>a, <1>4 DEF Claim
<1>5. ASSUME NEW r \in Requesters, MonitorStarts(r) PROVE CreatorIsTrue'
  BY <1>a, <1>5 DEF MonitorStarts
<1>6. ASSUME NEW r \in Requesters, MonitorStartFails(r) PROVE CreatorIsTrue'
  BY <1>a, <1>6 DEF MonitorStartFails
<1>7. ASSUME NEW t \in Requesters \cup {Monitor}, Unpark(t) PROVE CreatorIsTrue'
  BY <1>a, <1>7 DEF Unpark, After
<1>8. ASSUME NEW t \in Requesters \cup {Monitor}, CreateDenied(t) PROVE CreatorIsTrue'
  BY <1>a, <1>8 DEF CreateDenied, Denied
<1>9. ASSUME NEW t \in Requesters \cup {Monitor}, Reserve(t) PROVE CreatorIsTrue'
  BY <1>a, <1>9 DEF Reserve, CountActive, CannotReserve
<1>10. ASSUME NEW t \in Requesters \cup {Monitor}, Create(t) PROVE CreatorIsTrue'
  BY <1>a, <1>10 DEF Create, After
<1>11. ASSUME NEW t \in Requesters \cup {Monitor}, CreateFails(t) PROVE CreatorIsTrue'
  BY <1>a, <1>11 DEF CreateFails, Rollback, CountActive, Denied
<1>12. ASSUME NEW w \in Workers, Begin(w) PROVE CreatorIsTrue'
  BY <1>a, <1>12 DEF Begin
<1>13. ASSUME NEW w \in Workers, TakeRequest(w) PROVE CreatorIsTrue'
  BY <1>a, <1>13 DEF TakeRequest
<1>14. ASSUME NEW w \in Workers, FindNothing(w) PROVE CreatorIsTrue'
  BY <1>a, <1>14 DEF FindNothing
<1>15. ASSUME NEW w \in Workers, StopLooping(w) PROVE CreatorIsTrue'
  BY <1>a, <1>15 DEF StopLooping
<1>16. ASSUME NEW w \in Workers, GiveUp(w) PROVE CreatorIsTrue'
  BY <1>a, <1>16 DEF GiveUp, CountParked
<1>17. ASSUME NEW w \in Workers, Park(w) PROVE CreatorIsTrue'
  BY <1>a, <1>17 DEF Park
<1>18. ASSUME NEW w \in Workers, ParkTimeout(w) PROVE CreatorIsTrue'
  BY <1>a, <1>18 DEF ParkTimeout
<1>19. ASSUME NEW w \in Workers, Wake(w) PROVE CreatorIsTrue'
  BY <1>a, <1>19 DEF Wake, Unparked
<1>20. ASSUME NEW w \in Workers, GoOn(w) PROVE CreatorIsTrue'
  BY <1>a, <1>20 DEF GoOn, CountParked
<1>21. ASSUME NEW w \in Workers, HeuristicAdjust(w) PROVE CreatorIsTrue'
  BY <1>a, <1>21 DEF HeuristicAdjust
<1>22. ASSUME NEW w \in Workers, Leave(w) PROVE CreatorIsTrue'
  BY <1>a, <1>22 DEF Leave
<1>23. ASSUME NEW w \in Workers, CountGone(w) PROVE CreatorIsTrue'
  BY <1>a, <1>23 DEF CountGone, CountActive
<1>24. ASSUME NEW w \in Workers, Progress(w) PROVE CreatorIsTrue'
  BY <1>a, <1>24 DEF Progress
<1>25. ASSUME NEW w \in Workers, JobReturns(w) PROVE CreatorIsTrue'
  BY <1>a, <1>25 DEF JobReturns, JobDone
<1>26. ASSUME NEW w \in Workers, JobRetires(w) PROVE CreatorIsTrue'
  BY <1>a, <1>26 DEF JobRetires, JobDone
<1>27. ASSUME NEW w \in Workers, JobThrows(w) PROVE CreatorIsTrue'
  BY <1>a, <1>27 DEF JobThrows, JobDone
<1>28. CASE MonitorRests
  BY <1>a, <1>28 DEF MonitorRests, MonitorGoto
<1>29. CASE MonitorRaises
  BY <1>a, <1>29 DEF MonitorRaises, MonitorGoto
<1>30. CASE MonitorTriesAgain
  BY <1>a, <1>30 DEF MonitorTriesAgain, MonitorGoto
<1>31. CASE MonitorChecks
  BY <1>a, <1>31 DEF MonitorChecks, MonitorGoto
<1>32. CASE MonitorDecides
  BY <1>a, <1>32 DEF MonitorDecides, MonitorGoto, NothingToWatch
<1>33. CASE MonitorQuits
  BY <1>a, <1>33 DEF MonitorQuits, MonitorGoto
<1>34. CASE Shutdown
  BY <1>a, <1>34 DEF Shutdown, MainStep
<1>35. CASE CleanupKill
  BY <1>a, <1>35 DEF CleanupKill, MainStep
<1>36. ASSUME NEW w \in Workers, WorkerKilled(w) PROVE CreatorIsTrue'
  BY <1>a, <1>36 DEF WorkerKilled, MainStep
<1>37. CASE CleanupNotify
  BY <1>a, <1>37 DEF CleanupNotify
<1>38. CASE NextSecond
  BY <1>a, <1>38 DEF NextSecond
<1>39. ASSUME NEW n \in MinSettings, SetMinThreads(n) PROVE CreatorIsTrue'
  BY <1>a, <1>39 DEF SetMinThreads, SetLimit
<1>40. CASE Suspend
  BY <1>a, <1>40 DEF Suspend
<1>41. CASE UNCHANGED vars
  BY <1>a, <1>41 DEF vars
<1>42. CASE MonitorStarves
  BY <1>a, <1>42 DEF MonitorStarves, MonitorGoto
<1>43. ASSUME NEW n \in MaxSettings, SetMaxThreads(n) PROVE CreatorIsTrue'
  BY <1>a, <1>43 DEF SetMaxThreads, SetLimit
<1> QED
  BY <1>1, <1>2, <1>3, <1>4, <1>5, <1>6, <1>7, <1>8, <1>9, <1>10, <1>11, <1>12, <1>13, <1>14,
     <1>15, <1>16, <1>17, <1>18, <1>19, <1>20, <1>21, <1>22, <1>23, <1>24, <1>25, <1>26, <1>27,
     <1>28, <1>29, <1>30, <1>31, <1>32, <1>33, <1>34, <1>35, <1>36, <1>37, <1>38, <1>39, <1>40,
     <1>41, <1>42, <1>43 DEF Next, RequesterStep, CreateStep, WorkerStep, JobEnds, MonitorStep, Cleanup

\* The counter word agrees with the threads after every step.
LEMMA CountersStep == IInv /\ [Next]_vars => CountersAgree'
<1> SUFFICES ASSUME IInv, [Next]_vars PROVE CountersAgree'
  OBVIOUS
<1>a. TypeOK /\ CreatorIsTrue /\ CountersAgree
  BY DEF IInv
<1>b. /\ Cardinality(Reserved) = IF creator = Nobody THEN 0 ELSE 1
      /\ Cardinality(Reserved)' = IF creator' = Nobody THEN 0 ELSE 1
  <2>1. TypeOK' /\ CreatorIsTrue'
    BY TypeStep, CreatorStep
  <2>2. (Cardinality(Reserved) = IF creator = Nobody THEN 0 ELSE 1)'
    BY <2>1, ReservedCount, PTL
  <2> QED BY <1>a, <2>2, ReservedCount DEF Nobody
<1>1. ASSUME NEW r \in Requesters, Request(r) PROVE CountersAgree'
  <2>1. \A v \in Workers : pc'[v] = pc[v] \/ (pc[v] = "parked" /\ pc'[v] = "woken")
    BY <1>a, <1>1, Disjoint DEF TypeOK, Goto, counters, poolVars, requestVars, parkVars,
       monitorVars, worldVars, limitVars, WorkersAt, After, Request
  <2>2. Live' = Live
    BY <2>1, WorkersStill DEF WorkerPcs, Live
  <2>3. Parked' = Parked
    BY <2>1, WorkersStill DEF WorkerPcs, Parked
  <2> QED BY <1>a, <1>b, <1>1, <2>1, <2>2, <2>3, ThreadAssumption DEF CountersAgree, TypeOK,
     CreatorIsTrue, Goto, Nobody, counters, poolVars, requestVars, parkVars, monitorVars,
     worldVars, limitVars, Request
<1>2. ASSUME NEW r \in Requesters, RequestSuspended(r) PROVE CountersAgree'
  <2>1. \A v \in Workers : pc'[v] = pc[v] \/ (pc[v] = "parked" /\ pc'[v] = "woken")
    BY <1>a, <1>2, Disjoint DEF TypeOK, Goto, counters, poolVars, requestVars, parkVars,
       monitorVars, worldVars, limitVars, WorkersAt, After, RequestSuspended
  <2>2. Live' = Live
    BY <2>1, WorkersStill DEF WorkerPcs, Live
  <2>3. Parked' = Parked
    BY <2>1, WorkersStill DEF WorkerPcs, Parked
  <2> QED BY <1>a, <1>b, <1>2, <2>1, <2>2, <2>3, ThreadAssumption DEF CountersAgree, TypeOK,
     CreatorIsTrue, Goto, Nobody, counters, poolVars, requestVars, parkVars, monitorVars,
     worldVars, limitVars, RequestSuspended
<1>3. ASSUME NEW r \in Requesters, EnsureRunning(r) PROVE CountersAgree'
  <2>1. \A v \in Workers : pc'[v] = pc[v] \/ (pc[v] = "parked" /\ pc'[v] = "woken")
    BY <1>a, <1>3, Disjoint DEF TypeOK, Goto, counters, poolVars, requestVars, parkVars,
       monitorVars, worldVars, limitVars, WorkersAt, After, EnsureRunning
  <2>2. Live' = Live
    BY <2>1, WorkersStill DEF WorkerPcs, Live
  <2>3. Parked' = Parked
    BY <2>1, WorkersStill DEF WorkerPcs, Parked
  <2> QED BY <1>a, <1>b, <1>3, <2>1, <2>2, <2>3, ThreadAssumption DEF CountersAgree, TypeOK,
     CreatorIsTrue, Goto, Nobody, counters, poolVars, requestVars, parkVars, monitorVars,
     worldVars, limitVars, EnsureRunning
<1>4. ASSUME NEW r \in Requesters, Claim(r) PROVE CountersAgree'
  <2>1. \A v \in Workers : pc'[v] = pc[v] \/ (pc[v] = "parked" /\ pc'[v] = "woken")
    BY <1>a, <1>4, Disjoint DEF TypeOK, Goto, counters, poolVars, requestVars, parkVars,
       monitorVars, worldVars, limitVars, WorkersAt, After, Claim
  <2>2. Live' = Live
    BY <2>1, WorkersStill DEF WorkerPcs, Live
  <2>3. Parked' = Parked
    BY <2>1, WorkersStill DEF WorkerPcs, Parked
  <2> QED BY <1>a, <1>b, <1>4, <2>1, <2>2, <2>3, ThreadAssumption DEF CountersAgree, TypeOK,
     CreatorIsTrue, Goto, Nobody, counters, poolVars, requestVars, parkVars, monitorVars,
     worldVars, limitVars, Claim
<1>5. ASSUME NEW r \in Requesters, MonitorStarts(r) PROVE CountersAgree'
  <2>1. \A v \in Workers : pc'[v] = pc[v] \/ (pc[v] = "parked" /\ pc'[v] = "woken")
    BY <1>a, <1>5, Disjoint DEF TypeOK, Goto, counters, poolVars, requestVars, parkVars,
       monitorVars, worldVars, limitVars, WorkersAt, After, MonitorStarts
  <2>2. Live' = Live
    BY <2>1, WorkersStill DEF WorkerPcs, Live
  <2>3. Parked' = Parked
    BY <2>1, WorkersStill DEF WorkerPcs, Parked
  <2> QED BY <1>a, <1>b, <1>5, <2>1, <2>2, <2>3, ThreadAssumption DEF CountersAgree, TypeOK,
     CreatorIsTrue, Goto, Nobody, counters, poolVars, requestVars, parkVars, monitorVars,
     worldVars, limitVars, MonitorStarts
<1>6. ASSUME NEW r \in Requesters, MonitorStartFails(r) PROVE CountersAgree'
  <2>1. \A v \in Workers : pc'[v] = pc[v] \/ (pc[v] = "parked" /\ pc'[v] = "woken")
    BY <1>a, <1>6, Disjoint DEF TypeOK, Goto, counters, poolVars, requestVars, parkVars,
       monitorVars, worldVars, limitVars, WorkersAt, After, MonitorStartFails
  <2>2. Live' = Live
    BY <2>1, WorkersStill DEF WorkerPcs, Live
  <2>3. Parked' = Parked
    BY <2>1, WorkersStill DEF WorkerPcs, Parked
  <2> QED BY <1>a, <1>b, <1>6, <2>1, <2>2, <2>3, ThreadAssumption DEF CountersAgree, TypeOK,
     CreatorIsTrue, Goto, Nobody, counters, poolVars, requestVars, parkVars, monitorVars,
     worldVars, limitVars, MonitorStartFails
<1>7. ASSUME NEW t \in Requesters \cup {Monitor}, Unpark(t) PROVE CountersAgree'
  <2>1. \A v \in Workers : pc'[v] = pc[v] \/ (pc[v] = "parked" /\ pc'[v] = "woken")
    BY <1>a, <1>7, Disjoint DEF TypeOK, Goto, counters, poolVars, requestVars, parkVars,
       monitorVars, worldVars, limitVars, WorkersAt, Unpark, After
  <2>2. Live' = Live
    BY <2>1, WorkersStill DEF WorkerPcs, Live
  <2>3. Parked' = Parked
    BY <2>1, WorkersStill DEF WorkerPcs, Parked
  <2> QED BY <1>a, <1>b, <1>7, <2>1, <2>2, <2>3, ThreadAssumption DEF CountersAgree, TypeOK,
     CreatorIsTrue, Goto, Nobody, counters, poolVars, requestVars, parkVars, monitorVars,
     worldVars, limitVars, Unpark, After
<1>8. ASSUME NEW t \in Requesters \cup {Monitor}, CreateDenied(t) PROVE CountersAgree'
  <2>1. \A v \in Workers : pc'[v] = pc[v] \/ (pc[v] = "parked" /\ pc'[v] = "woken")
    BY <1>a, <1>8, Disjoint DEF TypeOK, Goto, counters, poolVars, requestVars, parkVars,
       monitorVars, worldVars, limitVars, WorkersAt, After, CreateDenied, Denied
  <2>2. Live' = Live
    BY <2>1, WorkersStill DEF WorkerPcs, Live
  <2>3. Parked' = Parked
    BY <2>1, WorkersStill DEF WorkerPcs, Parked
  <2> QED BY <1>a, <1>b, <1>8, <2>1, <2>2, <2>3, ThreadAssumption DEF CountersAgree, TypeOK,
     CreatorIsTrue, Goto, Nobody, counters, poolVars, requestVars, parkVars, monitorVars,
     worldVars, limitVars, CreateDenied, Denied
<1>9. ASSUME NEW t \in Requesters \cup {Monitor}, Reserve(t) PROVE CountersAgree'
  <2>1. \A v \in Workers : pc'[v] = pc[v] \/ (pc[v] = "parked" /\ pc'[v] = "woken")
    BY <1>a, <1>9, Disjoint DEF TypeOK, Goto, counters, poolVars, requestVars, parkVars,
       monitorVars, worldVars, limitVars, WorkersAt, After, Reserve, CountActive, CannotReserve
  <2>2. Live' = Live
    BY <2>1, WorkersStill DEF WorkerPcs, Live
  <2>3. Parked' = Parked
    BY <2>1, WorkersStill DEF WorkerPcs, Parked
  <2>4. active' = active + 1 /\ working' = working + 1 /\ parked' = parked
    BY <1>a, <1>9 DEF TypeOK, counters, Reserve, CountActive, CannotReserve
  <2>5. creator = Nobody /\ creator' # Nobody
    BY <1>a, <1>9, ThreadAssumption DEF CreatorIsTrue, Nobody, Reserve, CountActive,
       CannotReserve
  <2>6. Cardinality(Live) \in Nat /\ Cardinality(Parked) \in Nat
    BY ThreadAssumption, FS_Subset, FS_CardinalityType DEF Live, Parked, WorkersAt
  <2> QED BY <1>a, <1>b, <2>2, <2>3, <2>4, <2>5, <2>6 DEF CountersAgree, TypeOK
<1>10. ASSUME NEW t \in Requesters \cup {Monitor}, Create(t) PROVE CountersAgree'
  <2>0. PICK w \in WorkersAt({"none"}) :
          pc' = [pc EXCEPT ![t] = After(t), ![w] = "new"]
    BY <1>10 DEF Create
  <2>1. w \in Workers /\ \A v \in Workers \ {w} : pc'[v] = pc[v]
    BY <1>a, <1>10, <2>0, Disjoint DEF TypeOK, WorkersAt
  <2>2. pc[w] = "none" /\ pc'[w] = "new"
    BY <1>a, <1>10, <2>0, Disjoint DEF TypeOK, WorkersAt
  <2>3. Cardinality(Live) \in Nat /\ Cardinality(Live)' = Cardinality(Live) + 1
    BY <2>1, <2>2, WorkerMoved DEF WorkerPcs, Live
  <2>4. Cardinality(Parked) \in Nat /\ Cardinality(Parked)' = Cardinality(Parked)
    BY <2>1, <2>2, WorkerMoved DEF WorkerPcs, Parked
  <2> QED BY <1>a, <1>b, <1>10, <2>0, <2>1, <2>2, <2>3, <2>4, ThreadAssumption DEF
     CountersAgree, TypeOK, CreatorIsTrue, Goto, Nobody, counters, poolVars, requestVars,
     parkVars, monitorVars, worldVars, limitVars, Create, After
<1>11. ASSUME NEW t \in Requesters \cup {Monitor}, CreateFails(t) PROVE CountersAgree'
  <2>1. \A v \in Workers : pc'[v] = pc[v] \/ (pc[v] = "parked" /\ pc'[v] = "woken")
    BY <1>a, <1>11, Disjoint DEF TypeOK, Goto, counters, poolVars, requestVars, parkVars,
       monitorVars, worldVars, limitVars, WorkersAt, After, CreateFails, Rollback, CountActive, Denied
  <2>2. Live' = Live
    BY <2>1, WorkersStill DEF WorkerPcs, Live
  <2>3. Parked' = Parked
    BY <2>1, WorkersStill DEF WorkerPcs, Parked
  <2>4. active' = active - 1 /\ working' = working - 1 /\ parked' = parked
    BY <1>a, <1>11 DEF TypeOK, counters, CreateFails, Rollback, CountActive, Denied
  <2>5. creator # Nobody /\ creator' = Nobody
    BY <1>a, <1>11, ThreadAssumption DEF CreatorIsTrue, Nobody, CreateFails, Rollback,
       CountActive, Denied
  <2>6. Cardinality(Live) \in Nat /\ Cardinality(Parked) \in Nat
    BY ThreadAssumption, FS_Subset, FS_CardinalityType DEF Live, Parked, WorkersAt
  <2> QED BY <1>a, <1>b, <2>2, <2>3, <2>4, <2>5, <2>6 DEF CountersAgree, TypeOK
<1>12. ASSUME NEW w \in Workers, Begin(w) PROVE CountersAgree'
  <2>1. w \in Workers /\ \A v \in Workers \ {w} : pc'[v] = pc[v]
    BY <1>a, <1>12, Disjoint DEF TypeOK, Goto, counters, poolVars, requestVars, parkVars,
       monitorVars, worldVars, limitVars, Begin
  <2>2. pc[w] = "new" /\ pc'[w] = "loop"
    BY <1>a, <1>12, Disjoint DEF TypeOK, Goto, counters, poolVars, requestVars, parkVars,
       monitorVars, worldVars, limitVars, Begin
  <2>3. Cardinality(Live) \in Nat /\ Cardinality(Live)' = Cardinality(Live)
    BY <2>1, <2>2, WorkerMoved DEF WorkerPcs, Live
  <2>4. Cardinality(Parked) \in Nat /\ Cardinality(Parked)' = Cardinality(Parked)
    BY <2>1, <2>2, WorkerMoved DEF WorkerPcs, Parked
  <2> QED BY <1>a, <1>b, <1>12, <2>1, <2>2, <2>3, <2>4, ThreadAssumption DEF CountersAgree,
     TypeOK, CreatorIsTrue, Goto, Nobody, counters, poolVars, requestVars, parkVars,
     monitorVars, worldVars, limitVars, Begin
<1>13. ASSUME NEW w \in Workers, TakeRequest(w) PROVE CountersAgree'
  <2>1. w \in Workers /\ \A v \in Workers \ {w} : pc'[v] = pc[v]
    BY <1>a, <1>13, Disjoint DEF TypeOK, Goto, counters, poolVars, requestVars, parkVars,
       monitorVars, worldVars, limitVars, TakeRequest
  <2>2. pc[w] = "loop" /\ pc'[w] = "job"
    BY <1>a, <1>13, Disjoint DEF TypeOK, Goto, counters, poolVars, requestVars, parkVars,
       monitorVars, worldVars, limitVars, TakeRequest
  <2>3. Cardinality(Live) \in Nat /\ Cardinality(Live)' = Cardinality(Live)
    BY <2>1, <2>2, WorkerMoved DEF WorkerPcs, Live
  <2>4. Cardinality(Parked) \in Nat /\ Cardinality(Parked)' = Cardinality(Parked)
    BY <2>1, <2>2, WorkerMoved DEF WorkerPcs, Parked
  <2> QED BY <1>a, <1>b, <1>13, <2>1, <2>2, <2>3, <2>4, ThreadAssumption DEF CountersAgree,
     TypeOK, CreatorIsTrue, Goto, Nobody, counters, poolVars, requestVars, parkVars,
     monitorVars, worldVars, limitVars, TakeRequest
<1>14. ASSUME NEW w \in Workers, FindNothing(w) PROVE CountersAgree'
  <2>1. w \in Workers /\ \A v \in Workers \ {w} : pc'[v] = pc[v]
    BY <1>a, <1>14, Disjoint DEF TypeOK, Goto, counters, poolVars, requestVars, parkVars,
       monitorVars, worldVars, limitVars, FindNothing
  <2>2. pc[w] = "loop" /\ pc'[w] = "idle"
    BY <1>a, <1>14, Disjoint DEF TypeOK, Goto, counters, poolVars, requestVars, parkVars,
       monitorVars, worldVars, limitVars, FindNothing
  <2>3. Cardinality(Live) \in Nat /\ Cardinality(Live)' = Cardinality(Live)
    BY <2>1, <2>2, WorkerMoved DEF WorkerPcs, Live
  <2>4. Cardinality(Parked) \in Nat /\ Cardinality(Parked)' = Cardinality(Parked)
    BY <2>1, <2>2, WorkerMoved DEF WorkerPcs, Parked
  <2> QED BY <1>a, <1>b, <1>14, <2>1, <2>2, <2>3, <2>4, ThreadAssumption DEF CountersAgree,
     TypeOK, CreatorIsTrue, Goto, Nobody, counters, poolVars, requestVars, parkVars,
     monitorVars, worldVars, limitVars, FindNothing
<1>15. ASSUME NEW w \in Workers, StopLooping(w) PROVE CountersAgree'
  <2>1. w \in Workers /\ \A v \in Workers \ {w} : pc'[v] = pc[v]
    BY <1>a, <1>15, Disjoint DEF TypeOK, Goto, counters, poolVars, requestVars, parkVars,
       monitorVars, worldVars, limitVars, StopLooping
  <2>2. pc[w] = "loop" /\ pc'[w] = "leaving"
    BY <1>a, <1>15, Disjoint DEF TypeOK, Goto, counters, poolVars, requestVars, parkVars,
       monitorVars, worldVars, limitVars, StopLooping
  <2>3. Cardinality(Live) \in Nat /\ Cardinality(Live)' = Cardinality(Live)
    BY <2>1, <2>2, WorkerMoved DEF WorkerPcs, Live
  <2>4. Cardinality(Parked) \in Nat /\ Cardinality(Parked)' = Cardinality(Parked)
    BY <2>1, <2>2, WorkerMoved DEF WorkerPcs, Parked
  <2> QED BY <1>a, <1>b, <1>15, <2>1, <2>2, <2>3, <2>4, ThreadAssumption DEF CountersAgree,
     TypeOK, CreatorIsTrue, Goto, Nobody, counters, poolVars, requestVars, parkVars,
     monitorVars, worldVars, limitVars, StopLooping
<1>16. ASSUME NEW w \in Workers, GiveUp(w) PROVE CountersAgree'
  <2>1. w \in Workers /\ \A v \in Workers \ {w} : pc'[v] = pc[v]
    BY <1>a, <1>16, Disjoint DEF TypeOK, Goto, counters, poolVars, requestVars, parkVars,
       monitorVars, worldVars, limitVars, GiveUp, CountParked
  <2>2. pc[w] = "idle" /\ pc'[w] = "parking"
    BY <1>a, <1>16, Disjoint DEF TypeOK, Goto, counters, poolVars, requestVars, parkVars,
       monitorVars, worldVars, limitVars, GiveUp, CountParked
  <2>3. Cardinality(Live) \in Nat /\ Cardinality(Live)' = Cardinality(Live)
    BY <2>1, <2>2, WorkerMoved DEF WorkerPcs, Live
  <2>4. Cardinality(Parked) \in Nat /\ Cardinality(Parked)' = Cardinality(Parked) + 1
    BY <2>1, <2>2, WorkerMoved DEF WorkerPcs, Parked
  <2> QED BY <1>a, <1>b, <1>16, <2>1, <2>2, <2>3, <2>4, ThreadAssumption DEF CountersAgree,
     TypeOK, CreatorIsTrue, Goto, Nobody, counters, poolVars, requestVars, parkVars,
     monitorVars, worldVars, limitVars, GiveUp, CountParked
<1>17. ASSUME NEW w \in Workers, Park(w) PROVE CountersAgree'
  <2>1. w \in Workers /\ \A v \in Workers \ {w} : pc'[v] = pc[v]
    BY <1>a, <1>17, Disjoint DEF TypeOK, Goto, counters, poolVars, requestVars, parkVars,
       monitorVars, worldVars, limitVars, Park
  <2>2. pc[w] = "parking" /\ pc'[w] \in {"counting", "parked"}
    BY <1>a, <1>17, Disjoint DEF TypeOK, Goto, counters, poolVars, requestVars, parkVars,
       monitorVars, worldVars, limitVars, Park
  <2>3. Cardinality(Live) \in Nat /\ Cardinality(Live)' = Cardinality(Live)
    BY <2>1, <2>2, WorkerMoved DEF WorkerPcs, Live
  <2>4. Cardinality(Parked) \in Nat /\ Cardinality(Parked)' = Cardinality(Parked)
    BY <2>1, <2>2, WorkerMoved DEF WorkerPcs, Parked
  <2> QED BY <1>a, <1>b, <1>17, <2>1, <2>2, <2>3, <2>4, ThreadAssumption DEF CountersAgree,
     TypeOK, CreatorIsTrue, Goto, Nobody, counters, poolVars, requestVars, parkVars,
     monitorVars, worldVars, limitVars, Park
<1>18. ASSUME NEW w \in Workers, ParkTimeout(w) PROVE CountersAgree'
  <2>1. w \in Workers /\ \A v \in Workers \ {w} : pc'[v] = pc[v]
    BY <1>a, <1>18, Disjoint DEF TypeOK, Goto, counters, poolVars, requestVars, parkVars,
       monitorVars, worldVars, limitVars, ParkTimeout
  <2>2. pc[w] = "parked" /\ pc'[w] = "woken"
    BY <1>a, <1>18, Disjoint DEF TypeOK, Goto, counters, poolVars, requestVars, parkVars,
       monitorVars, worldVars, limitVars, ParkTimeout
  <2>3. Cardinality(Live) \in Nat /\ Cardinality(Live)' = Cardinality(Live)
    BY <2>1, <2>2, WorkerMoved DEF WorkerPcs, Live
  <2>4. Cardinality(Parked) \in Nat /\ Cardinality(Parked)' = Cardinality(Parked)
    BY <2>1, <2>2, WorkerMoved DEF WorkerPcs, Parked
  <2> QED BY <1>a, <1>b, <1>18, <2>1, <2>2, <2>3, <2>4, ThreadAssumption DEF CountersAgree,
     TypeOK, CreatorIsTrue, Goto, Nobody, counters, poolVars, requestVars, parkVars,
     monitorVars, worldVars, limitVars, ParkTimeout
<1>19. ASSUME NEW w \in Workers, Wake(w) PROVE CountersAgree'
  <2>1. w \in Workers /\ \A v \in Workers \ {w} : pc'[v] = pc[v]
    BY <1>a, <1>19, Disjoint DEF TypeOK, Goto, counters, poolVars, requestVars, parkVars,
       monitorVars, worldVars, limitVars, Wake, Unparked
  <2>2. pc[w] = "woken" /\ pc'[w] = "counting"
    BY <1>a, <1>19, Disjoint DEF TypeOK, Goto, counters, poolVars, requestVars, parkVars,
       monitorVars, worldVars, limitVars, Wake, Unparked
  <2>3. Cardinality(Live) \in Nat /\ Cardinality(Live)' = Cardinality(Live)
    BY <2>1, <2>2, WorkerMoved DEF WorkerPcs, Live
  <2>4. Cardinality(Parked) \in Nat /\ Cardinality(Parked)' = Cardinality(Parked)
    BY <2>1, <2>2, WorkerMoved DEF WorkerPcs, Parked
  <2> QED BY <1>a, <1>b, <1>19, <2>1, <2>2, <2>3, <2>4, ThreadAssumption DEF CountersAgree,
     TypeOK, CreatorIsTrue, Goto, Nobody, counters, poolVars, requestVars, parkVars,
     monitorVars, worldVars, limitVars, Wake, Unparked
<1>20. ASSUME NEW w \in Workers, GoOn(w) PROVE CountersAgree'
  <2>1. w \in Workers /\ \A v \in Workers \ {w} : pc'[v] = pc[v]
    BY <1>a, <1>20, Disjoint DEF TypeOK, Goto, counters, poolVars, requestVars, parkVars,
       monitorVars, worldVars, limitVars, GoOn, CountParked
  <2>2. pc[w] = "counting" /\ pc'[w] \in {"leaving", "loop"}
    BY <1>a, <1>20, Disjoint DEF TypeOK, Goto, counters, poolVars, requestVars, parkVars,
       monitorVars, worldVars, limitVars, GoOn, CountParked
  <2>3. Cardinality(Live) \in Nat /\ Cardinality(Live)' = Cardinality(Live)
    BY <2>1, <2>2, WorkerMoved DEF WorkerPcs, Live
  <2>4. Cardinality(Parked) \in Nat /\ Cardinality(Parked)' = Cardinality(Parked) - 1
    BY <2>1, <2>2, WorkerMoved DEF WorkerPcs, Parked
  <2>5. parked' = parked - 1 /\ working' = working + 1 /\ active' = active /\ creator' = creator
    BY <1>a, <1>20 DEF TypeOK, GoOn, CountParked
  <2> QED BY <1>a, <1>b, <2>1, <2>2, <2>3, <2>4, <2>5, ThreadAssumption DEF CountersAgree,
     TypeOK
<1>21. ASSUME NEW w \in Workers, HeuristicAdjust(w) PROVE CountersAgree'
  <2>1. w \in Workers /\ \A v \in Workers \ {w} : pc'[v] = pc[v]
    BY <1>a, <1>21, Disjoint DEF TypeOK, Goto, counters, poolVars, requestVars, parkVars,
       monitorVars, worldVars, limitVars, HeuristicAdjust
  <2>2. pc[w] = "adjust" /\ pc'[w] = "job"
    BY <1>a, <1>21, Disjoint DEF TypeOK, Goto, counters, poolVars, requestVars, parkVars,
       monitorVars, worldVars, limitVars, HeuristicAdjust
  <2>3. Cardinality(Live) \in Nat /\ Cardinality(Live)' = Cardinality(Live)
    BY <2>1, <2>2, WorkerMoved DEF WorkerPcs, Live
  <2>4. Cardinality(Parked) \in Nat /\ Cardinality(Parked)' = Cardinality(Parked)
    BY <2>1, <2>2, WorkerMoved DEF WorkerPcs, Parked
  <2> QED BY <1>a, <1>b, <1>21, <2>1, <2>2, <2>3, <2>4, ThreadAssumption DEF CountersAgree,
     TypeOK, CreatorIsTrue, Goto, Nobody, counters, poolVars, requestVars, parkVars,
     monitorVars, worldVars, limitVars, HeuristicAdjust
<1>22. ASSUME NEW w \in Workers, Leave(w) PROVE CountersAgree'
  <2>1. w \in Workers /\ \A v \in Workers \ {w} : pc'[v] = pc[v]
    BY <1>a, <1>22, Disjoint DEF TypeOK, Goto, counters, poolVars, requestVars, parkVars,
       monitorVars, worldVars, limitVars, Leave
  <2>2. pc[w] = "leaving" /\ pc'[w] = "gone"
    BY <1>a, <1>22, Disjoint DEF TypeOK, Goto, counters, poolVars, requestVars, parkVars,
       monitorVars, worldVars, limitVars, Leave
  <2>3. Cardinality(Live) \in Nat /\ Cardinality(Live)' = Cardinality(Live)
    BY <2>1, <2>2, WorkerMoved DEF WorkerPcs, Live
  <2>4. Cardinality(Parked) \in Nat /\ Cardinality(Parked)' = Cardinality(Parked)
    BY <2>1, <2>2, WorkerMoved DEF WorkerPcs, Parked
  <2> QED BY <1>a, <1>b, <1>22, <2>1, <2>2, <2>3, <2>4, ThreadAssumption DEF CountersAgree,
     TypeOK, CreatorIsTrue, Goto, Nobody, counters, poolVars, requestVars, parkVars,
     monitorVars, worldVars, limitVars, Leave
<1>23. ASSUME NEW w \in Workers, CountGone(w) PROVE CountersAgree'
  <2>1. w \in Workers /\ \A v \in Workers \ {w} : pc'[v] = pc[v]
    BY <1>a, <1>23, Disjoint DEF TypeOK, Goto, counters, poolVars, requestVars, parkVars,
       monitorVars, worldVars, limitVars, CountGone, CountActive
  <2>2. pc[w] = "gone" /\ pc'[w] = "none"
    BY <1>a, <1>23, Disjoint DEF TypeOK, Goto, counters, poolVars, requestVars, parkVars,
       monitorVars, worldVars, limitVars, CountGone, CountActive
  <2>3. Cardinality(Live) \in Nat /\ Cardinality(Live)' = Cardinality(Live) - 1
    BY <2>1, <2>2, WorkerMoved DEF WorkerPcs, Live
  <2>4. Cardinality(Parked) \in Nat /\ Cardinality(Parked)' = Cardinality(Parked)
    BY <2>1, <2>2, WorkerMoved DEF WorkerPcs, Parked
  <2> QED BY <1>a, <1>b, <1>23, <2>1, <2>2, <2>3, <2>4, ThreadAssumption DEF CountersAgree,
     TypeOK, CreatorIsTrue, Goto, Nobody, counters, poolVars, requestVars, parkVars,
     monitorVars, worldVars, limitVars, CountGone, CountActive
<1>24. ASSUME NEW w \in Workers, Progress(w) PROVE CountersAgree'
  <2>1. \A v \in Workers : pc'[v] = pc[v] \/ (pc[v] = "job" /\ pc'[v] = "adjust")
    BY <1>a, <1>24, Disjoint DEF TypeOK, Goto, counters, poolVars, requestVars, parkVars,
       monitorVars, worldVars, limitVars, WorkersAt, After, Progress
  <2>2. Live' = Live
    BY <2>1, WorkersStill DEF WorkerPcs, Live
  <2>3. Parked' = Parked
    BY <2>1, WorkersStill DEF WorkerPcs, Parked
  <2> QED BY <1>a, <1>b, <1>24, <2>1, <2>2, <2>3, ThreadAssumption DEF CountersAgree, TypeOK,
     CreatorIsTrue, Goto, Nobody, counters, poolVars, requestVars, parkVars, monitorVars,
     worldVars, limitVars, Progress
<1>25. ASSUME NEW w \in Workers, JobReturns(w) PROVE CountersAgree'
  <2>1. w \in Workers /\ \A v \in Workers \ {w} : pc'[v] = pc[v]
    BY <1>a, <1>25, Disjoint DEF TypeOK, Goto, counters, poolVars, requestVars, parkVars,
       monitorVars, worldVars, limitVars, JobReturns, JobDone
  <2>2. pc[w] = "job" /\ pc'[w] = "loop"
    BY <1>a, <1>25, Disjoint DEF TypeOK, Goto, counters, poolVars, requestVars, parkVars,
       monitorVars, worldVars, limitVars, JobReturns, JobDone
  <2>3. Cardinality(Live) \in Nat /\ Cardinality(Live)' = Cardinality(Live)
    BY <2>1, <2>2, WorkerMoved DEF WorkerPcs, Live
  <2>4. Cardinality(Parked) \in Nat /\ Cardinality(Parked)' = Cardinality(Parked)
    BY <2>1, <2>2, WorkerMoved DEF WorkerPcs, Parked
  <2> QED BY <1>a, <1>b, <1>25, <2>1, <2>2, <2>3, <2>4, ThreadAssumption DEF CountersAgree,
     TypeOK, CreatorIsTrue, Goto, Nobody, counters, poolVars, requestVars, parkVars,
     monitorVars, worldVars, limitVars, JobReturns, JobDone
<1>26. ASSUME NEW w \in Workers, JobRetires(w) PROVE CountersAgree'
  <2>1. w \in Workers /\ \A v \in Workers \ {w} : pc'[v] = pc[v]
    BY <1>a, <1>26, Disjoint DEF TypeOK, Goto, counters, poolVars, requestVars, parkVars,
       monitorVars, worldVars, limitVars, JobRetires, JobDone
  <2>2. pc[w] = "job" /\ pc'[w] = "loop"
    BY <1>a, <1>26, Disjoint DEF TypeOK, Goto, counters, poolVars, requestVars, parkVars,
       monitorVars, worldVars, limitVars, JobRetires, JobDone
  <2>3. Cardinality(Live) \in Nat /\ Cardinality(Live)' = Cardinality(Live)
    BY <2>1, <2>2, WorkerMoved DEF WorkerPcs, Live
  <2>4. Cardinality(Parked) \in Nat /\ Cardinality(Parked)' = Cardinality(Parked)
    BY <2>1, <2>2, WorkerMoved DEF WorkerPcs, Parked
  <2> QED BY <1>a, <1>b, <1>26, <2>1, <2>2, <2>3, <2>4, ThreadAssumption DEF CountersAgree,
     TypeOK, CreatorIsTrue, Goto, Nobody, counters, poolVars, requestVars, parkVars,
     monitorVars, worldVars, limitVars, JobRetires, JobDone
<1>27. ASSUME NEW w \in Workers, JobThrows(w) PROVE CountersAgree'
  <2>1. w \in Workers /\ \A v \in Workers \ {w} : pc'[v] = pc[v]
    BY <1>a, <1>27, Disjoint DEF TypeOK, Goto, counters, poolVars, requestVars, parkVars,
       monitorVars, worldVars, limitVars, JobThrows, JobDone
  <2>2. pc[w] = "job" /\ pc'[w] = "leaving"
    BY <1>a, <1>27, Disjoint DEF TypeOK, Goto, counters, poolVars, requestVars, parkVars,
       monitorVars, worldVars, limitVars, JobThrows, JobDone
  <2>3. Cardinality(Live) \in Nat /\ Cardinality(Live)' = Cardinality(Live)
    BY <2>1, <2>2, WorkerMoved DEF WorkerPcs, Live
  <2>4. Cardinality(Parked) \in Nat /\ Cardinality(Parked)' = Cardinality(Parked)
    BY <2>1, <2>2, WorkerMoved DEF WorkerPcs, Parked
  <2> QED BY <1>a, <1>b, <1>27, <2>1, <2>2, <2>3, <2>4, ThreadAssumption DEF CountersAgree,
     TypeOK, CreatorIsTrue, Goto, Nobody, counters, poolVars, requestVars, parkVars,
     monitorVars, worldVars, limitVars, JobThrows, JobDone
<1>28. CASE MonitorRests
  <2>1. \A v \in Workers : pc'[v] = pc[v] \/ (pc[v] = "parked" /\ pc'[v] = "woken")
    BY <1>a, <1>28, Disjoint DEF TypeOK, Goto, counters, poolVars, requestVars, parkVars,
       monitorVars, worldVars, limitVars, WorkersAt, After, MonitorRests, MonitorGoto
  <2>2. Live' = Live
    BY <2>1, WorkersStill DEF WorkerPcs, Live
  <2>3. Parked' = Parked
    BY <2>1, WorkersStill DEF WorkerPcs, Parked
  <2> QED BY <1>a, <1>b, <1>28, <2>1, <2>2, <2>3, ThreadAssumption DEF CountersAgree, TypeOK,
     CreatorIsTrue, Goto, Nobody, counters, poolVars, requestVars, parkVars, monitorVars,
     worldVars, limitVars, MonitorRests, MonitorGoto
<1>29. CASE MonitorRaises
  <2>1. \A v \in Workers : pc'[v] = pc[v] \/ (pc[v] = "parked" /\ pc'[v] = "woken")
    BY <1>a, <1>29, Disjoint DEF TypeOK, Goto, counters, poolVars, requestVars, parkVars,
       monitorVars, worldVars, limitVars, WorkersAt, After, MonitorRaises, MonitorGoto
  <2>2. Live' = Live
    BY <2>1, WorkersStill DEF WorkerPcs, Live
  <2>3. Parked' = Parked
    BY <2>1, WorkersStill DEF WorkerPcs, Parked
  <2> QED BY <1>a, <1>b, <1>29, <2>1, <2>2, <2>3, ThreadAssumption DEF CountersAgree, TypeOK,
     CreatorIsTrue, Goto, Nobody, counters, poolVars, requestVars, parkVars, monitorVars,
     worldVars, limitVars, MonitorRaises, MonitorGoto
<1>30. CASE MonitorTriesAgain
  <2>1. \A v \in Workers : pc'[v] = pc[v] \/ (pc[v] = "parked" /\ pc'[v] = "woken")
    BY <1>a, <1>30, Disjoint DEF TypeOK, Goto, counters, poolVars, requestVars, parkVars,
       monitorVars, worldVars, limitVars, WorkersAt, After, MonitorTriesAgain, MonitorGoto
  <2>2. Live' = Live
    BY <2>1, WorkersStill DEF WorkerPcs, Live
  <2>3. Parked' = Parked
    BY <2>1, WorkersStill DEF WorkerPcs, Parked
  <2> QED BY <1>a, <1>b, <1>30, <2>1, <2>2, <2>3, ThreadAssumption DEF CountersAgree, TypeOK,
     CreatorIsTrue, Goto, Nobody, counters, poolVars, requestVars, parkVars, monitorVars,
     worldVars, limitVars, MonitorTriesAgain, MonitorGoto
<1>31. CASE MonitorChecks
  <2>1. \A v \in Workers : pc'[v] = pc[v] \/ (pc[v] = "parked" /\ pc'[v] = "woken")
    BY <1>a, <1>31, Disjoint DEF TypeOK, Goto, counters, poolVars, requestVars, parkVars,
       monitorVars, worldVars, limitVars, WorkersAt, After, MonitorChecks, MonitorGoto
  <2>2. Live' = Live
    BY <2>1, WorkersStill DEF WorkerPcs, Live
  <2>3. Parked' = Parked
    BY <2>1, WorkersStill DEF WorkerPcs, Parked
  <2> QED BY <1>a, <1>b, <1>31, <2>1, <2>2, <2>3, ThreadAssumption DEF CountersAgree, TypeOK,
     CreatorIsTrue, Goto, Nobody, counters, poolVars, requestVars, parkVars, monitorVars,
     worldVars, limitVars, MonitorChecks, MonitorGoto
<1>32. CASE MonitorDecides
  <2>1. \A v \in Workers : pc'[v] = pc[v] \/ (pc[v] = "parked" /\ pc'[v] = "woken")
    BY <1>a, <1>32, Disjoint DEF TypeOK, Goto, counters, poolVars, requestVars, parkVars,
       monitorVars, worldVars, limitVars, WorkersAt, After, MonitorDecides, MonitorGoto, NothingToWatch
  <2>2. Live' = Live
    BY <2>1, WorkersStill DEF WorkerPcs, Live
  <2>3. Parked' = Parked
    BY <2>1, WorkersStill DEF WorkerPcs, Parked
  <2> QED BY <1>a, <1>b, <1>32, <2>1, <2>2, <2>3, ThreadAssumption DEF CountersAgree, TypeOK,
     CreatorIsTrue, Goto, Nobody, counters, poolVars, requestVars, parkVars, monitorVars,
     worldVars, limitVars, MonitorDecides, MonitorGoto, NothingToWatch
<1>33. CASE MonitorQuits
  <2>1. \A v \in Workers : pc'[v] = pc[v] \/ (pc[v] = "parked" /\ pc'[v] = "woken")
    BY <1>a, <1>33, Disjoint DEF TypeOK, Goto, counters, poolVars, requestVars, parkVars,
       monitorVars, worldVars, limitVars, WorkersAt, After, MonitorQuits, MonitorGoto
  <2>2. Live' = Live
    BY <2>1, WorkersStill DEF WorkerPcs, Live
  <2>3. Parked' = Parked
    BY <2>1, WorkersStill DEF WorkerPcs, Parked
  <2> QED BY <1>a, <1>b, <1>33, <2>1, <2>2, <2>3, ThreadAssumption DEF CountersAgree, TypeOK,
     CreatorIsTrue, Goto, Nobody, counters, poolVars, requestVars, parkVars, monitorVars,
     worldVars, limitVars, MonitorQuits, MonitorGoto
<1>34. CASE Shutdown
  <2>1. \A v \in Workers : pc'[v] = pc[v] \/ (pc[v] = "parked" /\ pc'[v] = "woken")
    BY <1>a, <1>34, Disjoint DEF TypeOK, Goto, counters, poolVars, requestVars, parkVars,
       monitorVars, worldVars, limitVars, WorkersAt, After, Shutdown, MainStep
  <2>2. Live' = Live
    BY <2>1, WorkersStill DEF WorkerPcs, Live
  <2>3. Parked' = Parked
    BY <2>1, WorkersStill DEF WorkerPcs, Parked
  <2> QED BY <1>a, <1>b, <1>34, <2>1, <2>2, <2>3, ThreadAssumption DEF CountersAgree, TypeOK,
     CreatorIsTrue, Goto, Nobody, counters, poolVars, requestVars, parkVars, monitorVars,
     worldVars, limitVars, Shutdown, MainStep
<1>35. CASE CleanupKill
  <2>1. \A v \in Workers : pc'[v] = pc[v] \/ (pc[v] = "parked" /\ pc'[v] = "woken")
    BY <1>a, <1>35, Disjoint DEF TypeOK, Goto, counters, poolVars, requestVars, parkVars,
       monitorVars, worldVars, limitVars, WorkersAt, After, CleanupKill, MainStep
  <2>2. Live' = Live
    BY <2>1, WorkersStill DEF WorkerPcs, Live
  <2>3. Parked' = Parked
    BY <2>1, WorkersStill DEF WorkerPcs, Parked
  <2> QED BY <1>a, <1>b, <1>35, <2>1, <2>2, <2>3, ThreadAssumption DEF CountersAgree, TypeOK,
     CreatorIsTrue, Goto, Nobody, counters, poolVars, requestVars, parkVars, monitorVars,
     worldVars, limitVars, CleanupKill, MainStep
<1>36. ASSUME NEW w \in Workers, WorkerKilled(w) PROVE CountersAgree'
  <2>1. \A v \in Workers : pc'[v] = pc[v] \/ (pc[v] = "parked" /\ pc'[v] = "woken")
    BY <1>a, <1>36, Disjoint DEF TypeOK, Goto, counters, poolVars, requestVars, parkVars,
       monitorVars, worldVars, limitVars, WorkersAt, After, WorkerKilled, MainStep
  <2>2. Live' = Live
    BY <2>1, WorkersStill DEF WorkerPcs, Live
  <2>3. Parked' = Parked
    BY <2>1, WorkersStill DEF WorkerPcs, Parked
  <2> QED BY <1>a, <1>b, <1>36, <2>1, <2>2, <2>3, ThreadAssumption DEF CountersAgree, TypeOK,
     CreatorIsTrue, Goto, Nobody, counters, poolVars, requestVars, parkVars, monitorVars,
     worldVars, limitVars, WorkerKilled, MainStep
<1>37. CASE CleanupNotify
  <2>1. \A v \in Workers : pc'[v] = pc[v] \/ (pc[v] = "parked" /\ pc'[v] = "woken")
    BY <1>a, <1>37, Disjoint DEF TypeOK, Goto, counters, poolVars, requestVars, parkVars,
       monitorVars, worldVars, limitVars, WorkersAt, After, CleanupNotify
  <2>2. Live' = Live
    BY <2>1, WorkersStill DEF WorkerPcs, Live
  <2>3. Parked' = Parked
    BY <2>1, WorkersStill DEF WorkerPcs, Parked
  <2> QED BY <1>a, <1>b, <1>37, <2>1, <2>2, <2>3, ThreadAssumption DEF CountersAgree, TypeOK,
     CreatorIsTrue, Goto, Nobody, counters, poolVars, requestVars, parkVars, monitorVars,
     worldVars, limitVars, CleanupNotify
<1>38. CASE NextSecond
  <2>1. \A v \in Workers : pc'[v] = pc[v] \/ (pc[v] = "parked" /\ pc'[v] = "woken")
    BY <1>a, <1>38, Disjoint DEF TypeOK, Goto, counters, poolVars, requestVars, parkVars,
       monitorVars, worldVars, limitVars, WorkersAt, After, NextSecond
  <2>2. Live' = Live
    BY <2>1, WorkersStill DEF WorkerPcs, Live
  <2>3. Parked' = Parked
    BY <2>1, WorkersStill DEF WorkerPcs, Parked
  <2> QED BY <1>a, <1>b, <1>38, <2>1, <2>2, <2>3, ThreadAssumption DEF CountersAgree, TypeOK,
     CreatorIsTrue, Goto, Nobody, counters, poolVars, requestVars, parkVars, monitorVars,
     worldVars, limitVars, NextSecond
<1>39. ASSUME NEW n \in MinSettings, SetMinThreads(n) PROVE CountersAgree'
  <2>1. \A v \in Workers : pc'[v] = pc[v] \/ (pc[v] = "parked" /\ pc'[v] = "woken")
    BY <1>a, <1>39, Disjoint DEF TypeOK, Goto, counters, poolVars, requestVars, parkVars,
       monitorVars, worldVars, limitVars, WorkersAt, After, SetMinThreads, SetLimit
  <2>2. Live' = Live
    BY <2>1, WorkersStill DEF WorkerPcs, Live
  <2>3. Parked' = Parked
    BY <2>1, WorkersStill DEF WorkerPcs, Parked
  <2> QED BY <1>a, <1>b, <1>39, <2>1, <2>2, <2>3, ThreadAssumption DEF CountersAgree, TypeOK,
     CreatorIsTrue, Goto, Nobody, counters, poolVars, requestVars, parkVars, monitorVars,
     worldVars, limitVars, SetMinThreads, SetLimit
<1>40. CASE Suspend
  <2>1. \A v \in Workers : pc'[v] = pc[v] \/ (pc[v] = "parked" /\ pc'[v] = "woken")
    BY <1>a, <1>40, Disjoint DEF TypeOK, Goto, counters, poolVars, requestVars, parkVars,
       monitorVars, worldVars, limitVars, WorkersAt, After, Suspend
  <2>2. Live' = Live
    BY <2>1, WorkersStill DEF WorkerPcs, Live
  <2>3. Parked' = Parked
    BY <2>1, WorkersStill DEF WorkerPcs, Parked
  <2> QED BY <1>a, <1>b, <1>40, <2>1, <2>2, <2>3, ThreadAssumption DEF CountersAgree, TypeOK,
     CreatorIsTrue, Goto, Nobody, counters, poolVars, requestVars, parkVars, monitorVars,
     worldVars, limitVars, Suspend
<1>41. CASE UNCHANGED vars
  <2>1. \A v \in Workers : pc'[v] = pc[v] \/ (pc[v] = "parked" /\ pc'[v] = "woken")
    BY <1>a, <1>41, Disjoint DEF TypeOK, Goto, counters, poolVars, requestVars, parkVars,
       monitorVars, worldVars, limitVars, WorkersAt, After, vars
  <2>2. Live' = Live
    BY <2>1, WorkersStill DEF WorkerPcs, Live
  <2>3. Parked' = Parked
    BY <2>1, WorkersStill DEF WorkerPcs, Parked
  <2> QED BY <1>a, <1>b, <1>41, <2>1, <2>2, <2>3, ThreadAssumption DEF CountersAgree, TypeOK,
     CreatorIsTrue, Goto, Nobody, counters, poolVars, requestVars, parkVars, monitorVars,
     worldVars, limitVars, vars
<1>42. CASE MonitorStarves
  <2>1. \A v \in Workers : pc'[v] = pc[v] \/ (pc[v] = "parked" /\ pc'[v] = "woken")
    BY <1>a, <1>42, Disjoint DEF TypeOK, Goto, counters, poolVars, requestVars, parkVars,
       monitorVars, worldVars, limitVars, WorkersAt, After, MonitorStarves, MonitorGoto
  <2>2. Live' = Live
    BY <2>1, WorkersStill DEF WorkerPcs, Live
  <2>3. Parked' = Parked
    BY <2>1, WorkersStill DEF WorkerPcs, Parked
  <2> QED BY <1>a, <1>b, <1>42, <2>1, <2>2, <2>3, ThreadAssumption DEF CountersAgree, TypeOK,
     CreatorIsTrue, Goto, Nobody, counters, poolVars, requestVars, parkVars, monitorVars,
     worldVars, limitVars, MonitorStarves, MonitorGoto
<1>43. ASSUME NEW n \in MaxSettings, SetMaxThreads(n) PROVE CountersAgree'
  <2>1. \A v \in Workers : pc'[v] = pc[v] \/ (pc[v] = "parked" /\ pc'[v] = "woken")
    BY <1>a, <1>43, Disjoint DEF TypeOK, Goto, counters, poolVars, requestVars, parkVars,
       monitorVars, worldVars, limitVars, WorkersAt, After, SetMaxThreads, SetLimit
  <2>2. Live' = Live
    BY <2>1, WorkersStill DEF WorkerPcs, Live
  <2>3. Parked' = Parked
    BY <2>1, WorkersStill DEF WorkerPcs, Parked
  <2> QED BY <1>a, <1>b, <1>43, <2>1, <2>2, <2>3, ThreadAssumption DEF CountersAgree, TypeOK,
     CreatorIsTrue, Goto, Nobody, counters, poolVars, requestVars, parkVars, monitorVars,
     worldVars, limitVars, SetMaxThreads, SetLimit
<1> QED
  BY <1>1, <1>2, <1>3, <1>4, <1>5, <1>6, <1>7, <1>8, <1>9, <1>10, <1>11, <1>12, <1>13, <1>14,
     <1>15, <1>16, <1>17, <1>18, <1>19, <1>20, <1>21, <1>22, <1>23, <1>24, <1>25, <1>26, <1>27,
     <1>28, <1>29, <1>30, <1>31, <1>32, <1>33, <1>34, <1>35, <1>36, <1>37, <1>38, <1>39, <1>40,
     <1>41, <1>42, <1>43 DEF Next, RequesterStep, CreateStep, WorkerStep, JobEnds, MonitorStep, Cleanup

\* What worker_park and the callbacks count agrees with the threads.
LEMMA ParkingStep == IInv /\ [Next]_vars => ParkingAgrees'
<1> SUFFICES ASSUME IInv, [Next]_vars PROVE ParkingAgrees'
  OBVIOUS
<1>a. TypeOK /\ ParkingAgrees
  BY DEF IInv
<1>1. ASSUME NEW r \in Requesters, Request(r) PROVE ParkingAgrees'
  <2>1. \A v \in Workers : pc'[v] = pc[v] \/ (pc[v] = "parked" /\ pc'[v] = "woken")
    BY <1>a, <1>1, Disjoint DEF TypeOK, Goto, counters, poolVars, requestVars, parkVars,
       monitorVars, worldVars, limitVars, WorkersAt, After, Request
  <2>2. InPark' = InPark
    BY <2>1, WorkersStill DEF WorkerPcs, InPark
  <2>3. InJob' = InJob
    BY <2>1, WorkersStill DEF WorkerPcs, InJob
  <2> QED BY <1>a, <1>1, <2>1, <2>2, <2>3, Disjoint DEF ParkingAgrees, TypeOK,
     Goto, WorkersAt, Live, InPark, WorkerPcs, counters, poolVars, requestVars, parkVars,
     monitorVars, worldVars, limitVars, Request
<1>2. ASSUME NEW r \in Requesters, RequestSuspended(r) PROVE ParkingAgrees'
  <2>1. \A v \in Workers : pc'[v] = pc[v] \/ (pc[v] = "parked" /\ pc'[v] = "woken")
    BY <1>a, <1>2, Disjoint DEF TypeOK, Goto, counters, poolVars, requestVars, parkVars,
       monitorVars, worldVars, limitVars, WorkersAt, After, RequestSuspended
  <2>2. InPark' = InPark
    BY <2>1, WorkersStill DEF WorkerPcs, InPark
  <2>3. InJob' = InJob
    BY <2>1, WorkersStill DEF WorkerPcs, InJob
  <2> QED BY <1>a, <1>2, <2>1, <2>2, <2>3, Disjoint DEF ParkingAgrees, TypeOK,
     Goto, WorkersAt, Live, InPark, WorkerPcs, counters, poolVars, requestVars, parkVars,
     monitorVars, worldVars, limitVars, RequestSuspended
<1>3. ASSUME NEW r \in Requesters, EnsureRunning(r) PROVE ParkingAgrees'
  <2>1. \A v \in Workers : pc'[v] = pc[v] \/ (pc[v] = "parked" /\ pc'[v] = "woken")
    BY <1>a, <1>3, Disjoint DEF TypeOK, Goto, counters, poolVars, requestVars, parkVars,
       monitorVars, worldVars, limitVars, WorkersAt, After, EnsureRunning
  <2>2. InPark' = InPark
    BY <2>1, WorkersStill DEF WorkerPcs, InPark
  <2>3. InJob' = InJob
    BY <2>1, WorkersStill DEF WorkerPcs, InJob
  <2> QED BY <1>a, <1>3, <2>1, <2>2, <2>3, Disjoint DEF ParkingAgrees, TypeOK,
     Goto, WorkersAt, Live, InPark, WorkerPcs, counters, poolVars, requestVars, parkVars,
     monitorVars, worldVars, limitVars, EnsureRunning
<1>4. ASSUME NEW r \in Requesters, Claim(r) PROVE ParkingAgrees'
  <2>1. \A v \in Workers : pc'[v] = pc[v] \/ (pc[v] = "parked" /\ pc'[v] = "woken")
    BY <1>a, <1>4, Disjoint DEF TypeOK, Goto, counters, poolVars, requestVars, parkVars,
       monitorVars, worldVars, limitVars, WorkersAt, After, Claim
  <2>2. InPark' = InPark
    BY <2>1, WorkersStill DEF WorkerPcs, InPark
  <2>3. InJob' = InJob
    BY <2>1, WorkersStill DEF WorkerPcs, InJob
  <2> QED BY <1>a, <1>4, <2>1, <2>2, <2>3, Disjoint DEF ParkingAgrees, TypeOK,
     Goto, WorkersAt, Live, InPark, WorkerPcs, counters, poolVars, requestVars, parkVars,
     monitorVars, worldVars, limitVars, Claim
<1>5. ASSUME NEW r \in Requesters, MonitorStarts(r) PROVE ParkingAgrees'
  <2>1. \A v \in Workers : pc'[v] = pc[v] \/ (pc[v] = "parked" /\ pc'[v] = "woken")
    BY <1>a, <1>5, Disjoint DEF TypeOK, Goto, counters, poolVars, requestVars, parkVars,
       monitorVars, worldVars, limitVars, WorkersAt, After, MonitorStarts
  <2>2. InPark' = InPark
    BY <2>1, WorkersStill DEF WorkerPcs, InPark
  <2>3. InJob' = InJob
    BY <2>1, WorkersStill DEF WorkerPcs, InJob
  <2> QED BY <1>a, <1>5, <2>1, <2>2, <2>3, Disjoint DEF ParkingAgrees, TypeOK,
     Goto, WorkersAt, Live, InPark, WorkerPcs, counters, poolVars, requestVars, parkVars,
     monitorVars, worldVars, limitVars, MonitorStarts
<1>6. ASSUME NEW r \in Requesters, MonitorStartFails(r) PROVE ParkingAgrees'
  <2>1. \A v \in Workers : pc'[v] = pc[v] \/ (pc[v] = "parked" /\ pc'[v] = "woken")
    BY <1>a, <1>6, Disjoint DEF TypeOK, Goto, counters, poolVars, requestVars, parkVars,
       monitorVars, worldVars, limitVars, WorkersAt, After, MonitorStartFails
  <2>2. InPark' = InPark
    BY <2>1, WorkersStill DEF WorkerPcs, InPark
  <2>3. InJob' = InJob
    BY <2>1, WorkersStill DEF WorkerPcs, InJob
  <2> QED BY <1>a, <1>6, <2>1, <2>2, <2>3, Disjoint DEF ParkingAgrees, TypeOK,
     Goto, WorkersAt, Live, InPark, WorkerPcs, counters, poolVars, requestVars, parkVars,
     monitorVars, worldVars, limitVars, MonitorStartFails
<1>7. ASSUME NEW t \in Requesters \cup {Monitor}, Unpark(t) PROVE ParkingAgrees'
  <2>1. \A v \in Workers : pc'[v] = pc[v] \/ (pc[v] = "parked" /\ pc'[v] = "woken")
    BY <1>a, <1>7, Disjoint DEF TypeOK, Goto, counters, poolVars, requestVars, parkVars,
       monitorVars, worldVars, limitVars, WorkersAt, Unpark, After
  <2>2. InPark' = InPark
    BY <2>1, WorkersStill DEF WorkerPcs, InPark
  <2>3. InJob' = InJob
    BY <2>1, WorkersStill DEF WorkerPcs, InJob
  <2> QED BY <1>a, <1>7, <2>1, <2>2, <2>3, Disjoint DEF ParkingAgrees, TypeOK,
     Goto, WorkersAt, Live, InPark, WorkerPcs, counters, poolVars, requestVars, parkVars,
     monitorVars, worldVars, limitVars, Unpark, After
<1>8. ASSUME NEW t \in Requesters \cup {Monitor}, CreateDenied(t) PROVE ParkingAgrees'
  <2>1. \A v \in Workers : pc'[v] = pc[v] \/ (pc[v] = "parked" /\ pc'[v] = "woken")
    BY <1>a, <1>8, Disjoint DEF TypeOK, Goto, counters, poolVars, requestVars, parkVars,
       monitorVars, worldVars, limitVars, WorkersAt, After, CreateDenied, Denied
  <2>2. InPark' = InPark
    BY <2>1, WorkersStill DEF WorkerPcs, InPark
  <2>3. InJob' = InJob
    BY <2>1, WorkersStill DEF WorkerPcs, InJob
  <2> QED BY <1>a, <1>8, <2>1, <2>2, <2>3, Disjoint DEF ParkingAgrees, TypeOK,
     Goto, WorkersAt, Live, InPark, WorkerPcs, counters, poolVars, requestVars, parkVars,
     monitorVars, worldVars, limitVars, CreateDenied, Denied
<1>9. ASSUME NEW t \in Requesters \cup {Monitor}, Reserve(t) PROVE ParkingAgrees'
  <2>1. \A v \in Workers : pc'[v] = pc[v] \/ (pc[v] = "parked" /\ pc'[v] = "woken")
    BY <1>a, <1>9, Disjoint DEF TypeOK, Goto, counters, poolVars, requestVars, parkVars,
       monitorVars, worldVars, limitVars, WorkersAt, After, Reserve, CountActive, CannotReserve
  <2>2. InPark' = InPark
    BY <2>1, WorkersStill DEF WorkerPcs, InPark
  <2>3. InJob' = InJob
    BY <2>1, WorkersStill DEF WorkerPcs, InJob
  <2> QED BY <1>a, <1>9, <2>1, <2>2, <2>3, Disjoint DEF ParkingAgrees, TypeOK,
     Goto, WorkersAt, Live, InPark, WorkerPcs, counters, poolVars, requestVars, parkVars,
     monitorVars, worldVars, limitVars, Reserve, CountActive, CannotReserve
<1>10. ASSUME NEW t \in Requesters \cup {Monitor}, Create(t) PROVE ParkingAgrees'
  <2>0. PICK w \in WorkersAt({"none"}) :
          pc' = [pc EXCEPT ![t] = After(t), ![w] = "new"]
    BY <1>10 DEF Create
  <2>1. w \in Workers /\ \A v \in Workers \ {w} : pc'[v] = pc[v]
    BY <1>a, <1>10, <2>0, Disjoint DEF TypeOK, WorkersAt
  <2>2. pc[w] = "none" /\ pc'[w] = "new"
    BY <1>a, <1>10, <2>0, Disjoint DEF TypeOK, WorkersAt
  <2>3. Cardinality(InPark) \in Nat /\ Cardinality(InPark)' = Cardinality(InPark)
    BY <2>1, <2>2, WorkerMoved DEF WorkerPcs, InPark
  <2>4. Cardinality(InJob) \in Nat /\ Cardinality(InJob)' = Cardinality(InJob)
    BY <2>1, <2>2, WorkerMoved DEF WorkerPcs, InJob
  <2>5. workingThreads' = workingThreads /\ parkedCount' = parkedCount /\ jobs' = jobs
    BY <1>10 DEF Create, counters, poolVars, requestVars, parkVars, monitorVars, worldVars, limitVars
  <2>6. Live' = Live \cup {w} /\ InPark' = InPark /\ w \notin Live
        /\ WorkersAt({"new", "gone"})' = WorkersAt({"new", "gone"}) \cup {w}
    BY <2>1, <2>2 DEF Live, InPark, WorkersAt, WorkerPcs
  <2> QED BY <1>a, <2>3, <2>4, <2>5, <2>6 DEF ParkingAgrees
<1>11. ASSUME NEW t \in Requesters \cup {Monitor}, CreateFails(t) PROVE ParkingAgrees'
  <2>1. \A v \in Workers : pc'[v] = pc[v] \/ (pc[v] = "parked" /\ pc'[v] = "woken")
    BY <1>a, <1>11, Disjoint DEF TypeOK, Goto, counters, poolVars, requestVars, parkVars,
       monitorVars, worldVars, limitVars, WorkersAt, After, CreateFails, Rollback, CountActive, Denied
  <2>2. InPark' = InPark
    BY <2>1, WorkersStill DEF WorkerPcs, InPark
  <2>3. InJob' = InJob
    BY <2>1, WorkersStill DEF WorkerPcs, InJob
  <2> QED BY <1>a, <1>11, <2>1, <2>2, <2>3, Disjoint DEF ParkingAgrees, TypeOK,
     Goto, WorkersAt, Live, InPark, WorkerPcs, counters, poolVars, requestVars, parkVars,
     monitorVars, worldVars, limitVars, CreateFails, Rollback, CountActive, Denied
<1>12. ASSUME NEW w \in Workers, Begin(w) PROVE ParkingAgrees'
  <2>1. w \in Workers /\ \A v \in Workers \ {w} : pc'[v] = pc[v]
    BY <1>a, <1>12, Disjoint DEF TypeOK, Goto, counters, poolVars, requestVars, parkVars,
       monitorVars, worldVars, limitVars, Begin
  <2>2. pc[w] = "new" /\ pc'[w] = "loop"
    BY <1>a, <1>12, Disjoint DEF TypeOK, Goto, counters, poolVars, requestVars, parkVars,
       monitorVars, worldVars, limitVars, Begin
  <2>3. Cardinality(InPark) \in Nat /\ Cardinality(InPark)' = Cardinality(InPark)
    BY <2>1, <2>2, WorkerMoved DEF WorkerPcs, InPark
  <2>4. Cardinality(InJob) \in Nat /\ Cardinality(InJob)' = Cardinality(InJob)
    BY <2>1, <2>2, WorkerMoved DEF WorkerPcs, InJob
  <2> QED BY <1>a, <1>12, <2>1, <2>2, <2>3, <2>4, Disjoint DEF ParkingAgrees,
     TypeOK, Goto, WorkersAt, Live, InPark, WorkerPcs, counters, poolVars, requestVars,
     parkVars, monitorVars, worldVars, limitVars, Begin
<1>13. ASSUME NEW w \in Workers, TakeRequest(w) PROVE ParkingAgrees'
  <2>1. w \in Workers /\ \A v \in Workers \ {w} : pc'[v] = pc[v]
    BY <1>a, <1>13, Disjoint DEF TypeOK, Goto, counters, poolVars, requestVars, parkVars,
       monitorVars, worldVars, limitVars, TakeRequest
  <2>2. pc[w] = "loop" /\ pc'[w] = "job"
    BY <1>a, <1>13, Disjoint DEF TypeOK, Goto, counters, poolVars, requestVars, parkVars,
       monitorVars, worldVars, limitVars, TakeRequest
  <2>3. Cardinality(InPark) \in Nat /\ Cardinality(InPark)' = Cardinality(InPark)
    BY <2>1, <2>2, WorkerMoved DEF WorkerPcs, InPark
  <2>4. Cardinality(InJob) \in Nat /\ Cardinality(InJob)' = Cardinality(InJob) + 1
    BY <2>1, <2>2, WorkerMoved DEF WorkerPcs, InJob
  <2> QED BY <1>a, <1>13, <2>1, <2>2, <2>3, <2>4, Disjoint DEF ParkingAgrees,
     TypeOK, Goto, WorkersAt, Live, InPark, WorkerPcs, counters, poolVars, requestVars,
     parkVars, monitorVars, worldVars, limitVars, TakeRequest
<1>14. ASSUME NEW w \in Workers, FindNothing(w) PROVE ParkingAgrees'
  <2>1. w \in Workers /\ \A v \in Workers \ {w} : pc'[v] = pc[v]
    BY <1>a, <1>14, Disjoint DEF TypeOK, Goto, counters, poolVars, requestVars, parkVars,
       monitorVars, worldVars, limitVars, FindNothing
  <2>2. pc[w] = "loop" /\ pc'[w] = "idle"
    BY <1>a, <1>14, Disjoint DEF TypeOK, Goto, counters, poolVars, requestVars, parkVars,
       monitorVars, worldVars, limitVars, FindNothing
  <2>3. Cardinality(InPark) \in Nat /\ Cardinality(InPark)' = Cardinality(InPark)
    BY <2>1, <2>2, WorkerMoved DEF WorkerPcs, InPark
  <2>4. Cardinality(InJob) \in Nat /\ Cardinality(InJob)' = Cardinality(InJob)
    BY <2>1, <2>2, WorkerMoved DEF WorkerPcs, InJob
  <2> QED BY <1>a, <1>14, <2>1, <2>2, <2>3, <2>4, Disjoint DEF ParkingAgrees,
     TypeOK, Goto, WorkersAt, Live, InPark, WorkerPcs, counters, poolVars, requestVars,
     parkVars, monitorVars, worldVars, limitVars, FindNothing
<1>15. ASSUME NEW w \in Workers, StopLooping(w) PROVE ParkingAgrees'
  <2>1. w \in Workers /\ \A v \in Workers \ {w} : pc'[v] = pc[v]
    BY <1>a, <1>15, Disjoint DEF TypeOK, Goto, counters, poolVars, requestVars, parkVars,
       monitorVars, worldVars, limitVars, StopLooping
  <2>2. pc[w] = "loop" /\ pc'[w] = "leaving"
    BY <1>a, <1>15, Disjoint DEF TypeOK, Goto, counters, poolVars, requestVars, parkVars,
       monitorVars, worldVars, limitVars, StopLooping
  <2>3. Cardinality(InPark) \in Nat /\ Cardinality(InPark)' = Cardinality(InPark)
    BY <2>1, <2>2, WorkerMoved DEF WorkerPcs, InPark
  <2>4. Cardinality(InJob) \in Nat /\ Cardinality(InJob)' = Cardinality(InJob)
    BY <2>1, <2>2, WorkerMoved DEF WorkerPcs, InJob
  <2> QED BY <1>a, <1>15, <2>1, <2>2, <2>3, <2>4, Disjoint DEF ParkingAgrees,
     TypeOK, Goto, WorkersAt, Live, InPark, WorkerPcs, counters, poolVars, requestVars,
     parkVars, monitorVars, worldVars, limitVars, StopLooping
<1>16. ASSUME NEW w \in Workers, GiveUp(w) PROVE ParkingAgrees'
  <2>1. w \in Workers /\ \A v \in Workers \ {w} : pc'[v] = pc[v]
    BY <1>a, <1>16, Disjoint DEF TypeOK, Goto, counters, poolVars, requestVars, parkVars,
       monitorVars, worldVars, limitVars, GiveUp, CountParked
  <2>2. pc[w] = "idle" /\ pc'[w] = "parking"
    BY <1>a, <1>16, Disjoint DEF TypeOK, Goto, counters, poolVars, requestVars, parkVars,
       monitorVars, worldVars, limitVars, GiveUp, CountParked
  <2>3. Cardinality(InPark) \in Nat /\ Cardinality(InPark)' = Cardinality(InPark)
    BY <2>1, <2>2, WorkerMoved DEF WorkerPcs, InPark
  <2>4. Cardinality(InJob) \in Nat /\ Cardinality(InJob)' = Cardinality(InJob)
    BY <2>1, <2>2, WorkerMoved DEF WorkerPcs, InJob
  <2> QED BY <1>a, <1>16, <2>1, <2>2, <2>3, <2>4, Disjoint DEF ParkingAgrees,
     TypeOK, Goto, WorkersAt, Live, InPark, WorkerPcs, counters, poolVars, requestVars,
     parkVars, monitorVars, worldVars, limitVars, GiveUp, CountParked
<1>17. ASSUME NEW w \in Workers, Park(w) PROVE ParkingAgrees'
  <2>1. w \in Workers /\ \A v \in Workers \ {w} : pc'[v] = pc[v]
    BY <1>a, <1>17, Disjoint DEF TypeOK, Goto, counters, poolVars, requestVars, parkVars,
       monitorVars, worldVars, limitVars, Park
  <2>2. pc[w] = "parking" /\ pc'[w] \in {"counting", "parked"}
    BY <1>a, <1>17, Disjoint DEF TypeOK, Goto, counters, poolVars, requestVars, parkVars,
       monitorVars, worldVars, limitVars, Park
  <2>3. Cardinality(InPark) \in Nat /\ Cardinality(InPark)' = Cardinality(InPark) + (IF pc'[w] =
     "parked" THEN 1 ELSE 0)
    BY <2>1, <2>2, WorkerMoved DEF WorkerPcs, InPark
  <2>4. Cardinality(InJob) \in Nat /\ Cardinality(InJob)' = Cardinality(InJob)
    BY <2>1, <2>2, WorkerMoved DEF WorkerPcs, InJob
  <2> QED BY <1>a, <1>17, <2>1, <2>2, <2>3, <2>4, Disjoint DEF ParkingAgrees,
     TypeOK, Goto, WorkersAt, Live, InPark, WorkerPcs, counters, poolVars, requestVars,
     parkVars, monitorVars, worldVars, limitVars, Park
<1>18. ASSUME NEW w \in Workers, ParkTimeout(w) PROVE ParkingAgrees'
  <2>1. w \in Workers /\ \A v \in Workers \ {w} : pc'[v] = pc[v]
    BY <1>a, <1>18, Disjoint DEF TypeOK, Goto, counters, poolVars, requestVars, parkVars,
       monitorVars, worldVars, limitVars, ParkTimeout
  <2>2. pc[w] = "parked" /\ pc'[w] = "woken"
    BY <1>a, <1>18, Disjoint DEF TypeOK, Goto, counters, poolVars, requestVars, parkVars,
       monitorVars, worldVars, limitVars, ParkTimeout
  <2>3. Cardinality(InPark) \in Nat /\ Cardinality(InPark)' = Cardinality(InPark)
    BY <2>1, <2>2, WorkerMoved DEF WorkerPcs, InPark
  <2>4. Cardinality(InJob) \in Nat /\ Cardinality(InJob)' = Cardinality(InJob)
    BY <2>1, <2>2, WorkerMoved DEF WorkerPcs, InJob
  <2> QED BY <1>a, <1>18, <2>1, <2>2, <2>3, <2>4, Disjoint DEF ParkingAgrees,
     TypeOK, Goto, WorkersAt, Live, InPark, WorkerPcs, counters, poolVars, requestVars,
     parkVars, monitorVars, worldVars, limitVars, ParkTimeout
<1>19. ASSUME NEW w \in Workers, Wake(w) PROVE ParkingAgrees'
  <2>1. w \in Workers /\ \A v \in Workers \ {w} : pc'[v] = pc[v]
    BY <1>a, <1>19, Disjoint DEF TypeOK, Goto, counters, poolVars, requestVars, parkVars,
       monitorVars, worldVars, limitVars, Wake, Unparked
  <2>2. pc[w] = "woken" /\ pc'[w] = "counting"
    BY <1>a, <1>19, Disjoint DEF TypeOK, Goto, counters, poolVars, requestVars, parkVars,
       monitorVars, worldVars, limitVars, Wake, Unparked
  <2>3. Cardinality(InPark) \in Nat /\ Cardinality(InPark)' = Cardinality(InPark) - 1
    BY <2>1, <2>2, WorkerMoved DEF WorkerPcs, InPark
  <2>4. Cardinality(InJob) \in Nat /\ Cardinality(InJob)' = Cardinality(InJob)
    BY <2>1, <2>2, WorkerMoved DEF WorkerPcs, InJob
  <2> QED BY <1>a, <1>19, <2>1, <2>2, <2>3, <2>4, Disjoint DEF ParkingAgrees,
     TypeOK, Goto, WorkersAt, Live, InPark, WorkerPcs, counters, poolVars, requestVars,
     parkVars, monitorVars, worldVars, limitVars, Wake, Unparked
<1>20. ASSUME NEW w \in Workers, GoOn(w) PROVE ParkingAgrees'
  <2>1. w \in Workers /\ \A v \in Workers \ {w} : pc'[v] = pc[v]
    BY <1>a, <1>20, Disjoint DEF TypeOK, Goto, counters, poolVars, requestVars, parkVars,
       monitorVars, worldVars, limitVars, GoOn, CountParked
  <2>2. pc[w] = "counting" /\ pc'[w] \in {"leaving", "loop"}
    BY <1>a, <1>20, Disjoint DEF TypeOK, Goto, counters, poolVars, requestVars, parkVars,
       monitorVars, worldVars, limitVars, GoOn, CountParked
  <2>3. Cardinality(InPark) \in Nat /\ Cardinality(InPark)' = Cardinality(InPark)
    BY <2>1, <2>2, WorkerMoved DEF WorkerPcs, InPark
  <2>4. Cardinality(InJob) \in Nat /\ Cardinality(InJob)' = Cardinality(InJob)
    BY <2>1, <2>2, WorkerMoved DEF WorkerPcs, InJob
  <2> QED BY <1>a, <1>20, <2>1, <2>2, <2>3, <2>4, Disjoint DEF ParkingAgrees,
     TypeOK, Goto, WorkersAt, Live, InPark, WorkerPcs, counters, poolVars, requestVars,
     parkVars, monitorVars, worldVars, limitVars, GoOn, CountParked
<1>21. ASSUME NEW w \in Workers, HeuristicAdjust(w) PROVE ParkingAgrees'
  <2>1. w \in Workers /\ \A v \in Workers \ {w} : pc'[v] = pc[v]
    BY <1>a, <1>21, Disjoint DEF TypeOK, Goto, counters, poolVars, requestVars, parkVars,
       monitorVars, worldVars, limitVars, HeuristicAdjust
  <2>2. pc[w] = "adjust" /\ pc'[w] = "job"
    BY <1>a, <1>21, Disjoint DEF TypeOK, Goto, counters, poolVars, requestVars, parkVars,
       monitorVars, worldVars, limitVars, HeuristicAdjust
  <2>3. Cardinality(InPark) \in Nat /\ Cardinality(InPark)' = Cardinality(InPark)
    BY <2>1, <2>2, WorkerMoved DEF WorkerPcs, InPark
  <2>4. Cardinality(InJob) \in Nat /\ Cardinality(InJob)' = Cardinality(InJob)
    BY <2>1, <2>2, WorkerMoved DEF WorkerPcs, InJob
  <2> QED BY <1>a, <1>21, <2>1, <2>2, <2>3, <2>4, Disjoint DEF ParkingAgrees,
     TypeOK, Goto, WorkersAt, Live, InPark, WorkerPcs, counters, poolVars, requestVars,
     parkVars, monitorVars, worldVars, limitVars, HeuristicAdjust
<1>22. ASSUME NEW w \in Workers, Leave(w) PROVE ParkingAgrees'
  <2>1. w \in Workers /\ \A v \in Workers \ {w} : pc'[v] = pc[v]
    BY <1>a, <1>22, Disjoint DEF TypeOK, Goto, counters, poolVars, requestVars, parkVars,
       monitorVars, worldVars, limitVars, Leave
  <2>2. pc[w] = "leaving" /\ pc'[w] = "gone"
    BY <1>a, <1>22, Disjoint DEF TypeOK, Goto, counters, poolVars, requestVars, parkVars,
       monitorVars, worldVars, limitVars, Leave
  <2>3. Cardinality(InPark) \in Nat /\ Cardinality(InPark)' = Cardinality(InPark)
    BY <2>1, <2>2, WorkerMoved DEF WorkerPcs, InPark
  <2>4. Cardinality(InJob) \in Nat /\ Cardinality(InJob)' = Cardinality(InJob)
    BY <2>1, <2>2, WorkerMoved DEF WorkerPcs, InJob
  <2> QED BY <1>a, <1>22, <2>1, <2>2, <2>3, <2>4, Disjoint DEF ParkingAgrees,
     TypeOK, Goto, WorkersAt, Live, InPark, WorkerPcs, counters, poolVars, requestVars,
     parkVars, monitorVars, worldVars, limitVars, Leave
<1>23. ASSUME NEW w \in Workers, CountGone(w) PROVE ParkingAgrees'
  <2>1. w \in Workers /\ \A v \in Workers \ {w} : pc'[v] = pc[v]
    BY <1>a, <1>23, Disjoint DEF TypeOK, Goto, counters, poolVars, requestVars, parkVars,
       monitorVars, worldVars, limitVars, CountGone, CountActive
  <2>2. pc[w] = "gone" /\ pc'[w] = "none"
    BY <1>a, <1>23, Disjoint DEF TypeOK, Goto, counters, poolVars, requestVars, parkVars,
       monitorVars, worldVars, limitVars, CountGone, CountActive
  <2>3. Cardinality(InPark) \in Nat /\ Cardinality(InPark)' = Cardinality(InPark)
    BY <2>1, <2>2, WorkerMoved DEF WorkerPcs, InPark
  <2>4. Cardinality(InJob) \in Nat /\ Cardinality(InJob)' = Cardinality(InJob)
    BY <2>1, <2>2, WorkerMoved DEF WorkerPcs, InJob
  <2> QED BY <1>a, <1>23, <2>1, <2>2, <2>3, <2>4, Disjoint DEF ParkingAgrees,
     TypeOK, Goto, WorkersAt, Live, InPark, WorkerPcs, counters, poolVars, requestVars,
     parkVars, monitorVars, worldVars, limitVars, CountGone, CountActive
<1>24. ASSUME NEW w \in Workers, Progress(w) PROVE ParkingAgrees'
  <2>1. \A v \in Workers : pc'[v] = pc[v] \/ (pc[v] = "job" /\ pc'[v] = "adjust")
    BY <1>a, <1>24, Disjoint DEF TypeOK, Goto, counters, poolVars, requestVars, parkVars,
       monitorVars, worldVars, limitVars, WorkersAt, After, Progress
  <2>2. InPark' = InPark
    BY <2>1, WorkersStill DEF WorkerPcs, InPark
  <2>3. InJob' = InJob
    BY <2>1, WorkersStill DEF WorkerPcs, InJob
  <2> QED BY <1>a, <1>24, <2>1, <2>2, <2>3, Disjoint DEF ParkingAgrees, TypeOK,
     Goto, WorkersAt, Live, InPark, WorkerPcs, counters, poolVars, requestVars, parkVars,
     monitorVars, worldVars, limitVars, Progress
<1>25. ASSUME NEW w \in Workers, JobReturns(w) PROVE ParkingAgrees'
  <2>1. w \in Workers /\ \A v \in Workers \ {w} : pc'[v] = pc[v]
    BY <1>a, <1>25, Disjoint DEF TypeOK, Goto, counters, poolVars, requestVars, parkVars,
       monitorVars, worldVars, limitVars, JobReturns, JobDone
  <2>2. pc[w] = "job" /\ pc'[w] = "loop"
    BY <1>a, <1>25, Disjoint DEF TypeOK, Goto, counters, poolVars, requestVars, parkVars,
       monitorVars, worldVars, limitVars, JobReturns, JobDone
  <2>3. Cardinality(InPark) \in Nat /\ Cardinality(InPark)' = Cardinality(InPark)
    BY <2>1, <2>2, WorkerMoved DEF WorkerPcs, InPark
  <2>4. Cardinality(InJob) \in Nat /\ Cardinality(InJob)' = Cardinality(InJob) - 1
    BY <2>1, <2>2, WorkerMoved DEF WorkerPcs, InJob
  <2> QED BY <1>a, <1>25, <2>1, <2>2, <2>3, <2>4, Disjoint DEF ParkingAgrees,
     TypeOK, Goto, WorkersAt, Live, InPark, WorkerPcs, counters, poolVars, requestVars,
     parkVars, monitorVars, worldVars, limitVars, JobReturns, JobDone
<1>26. ASSUME NEW w \in Workers, JobRetires(w) PROVE ParkingAgrees'
  <2>1. w \in Workers /\ \A v \in Workers \ {w} : pc'[v] = pc[v]
    BY <1>a, <1>26, Disjoint DEF TypeOK, Goto, counters, poolVars, requestVars, parkVars,
       monitorVars, worldVars, limitVars, JobRetires, JobDone
  <2>2. pc[w] = "job" /\ pc'[w] = "loop"
    BY <1>a, <1>26, Disjoint DEF TypeOK, Goto, counters, poolVars, requestVars, parkVars,
       monitorVars, worldVars, limitVars, JobRetires, JobDone
  <2>3. Cardinality(InPark) \in Nat /\ Cardinality(InPark)' = Cardinality(InPark)
    BY <2>1, <2>2, WorkerMoved DEF WorkerPcs, InPark
  <2>4. Cardinality(InJob) \in Nat /\ Cardinality(InJob)' = Cardinality(InJob) - 1
    BY <2>1, <2>2, WorkerMoved DEF WorkerPcs, InJob
  <2> QED BY <1>a, <1>26, <2>1, <2>2, <2>3, <2>4, Disjoint DEF ParkingAgrees,
     TypeOK, Goto, WorkersAt, Live, InPark, WorkerPcs, counters, poolVars, requestVars,
     parkVars, monitorVars, worldVars, limitVars, JobRetires, JobDone
<1>27. ASSUME NEW w \in Workers, JobThrows(w) PROVE ParkingAgrees'
  <2>1. w \in Workers /\ \A v \in Workers \ {w} : pc'[v] = pc[v]
    BY <1>a, <1>27, Disjoint DEF TypeOK, Goto, counters, poolVars, requestVars, parkVars,
       monitorVars, worldVars, limitVars, JobThrows, JobDone
  <2>2. pc[w] = "job" /\ pc'[w] = "leaving"
    BY <1>a, <1>27, Disjoint DEF TypeOK, Goto, counters, poolVars, requestVars, parkVars,
       monitorVars, worldVars, limitVars, JobThrows, JobDone
  <2>3. Cardinality(InPark) \in Nat /\ Cardinality(InPark)' = Cardinality(InPark)
    BY <2>1, <2>2, WorkerMoved DEF WorkerPcs, InPark
  <2>4. Cardinality(InJob) \in Nat /\ Cardinality(InJob)' = Cardinality(InJob) - 1
    BY <2>1, <2>2, WorkerMoved DEF WorkerPcs, InJob
  <2> QED BY <1>a, <1>27, <2>1, <2>2, <2>3, <2>4, Disjoint DEF ParkingAgrees,
     TypeOK, Goto, WorkersAt, Live, InPark, WorkerPcs, counters, poolVars, requestVars,
     parkVars, monitorVars, worldVars, limitVars, JobThrows, JobDone
<1>28. CASE MonitorRests
  <2>1. \A v \in Workers : pc'[v] = pc[v] \/ (pc[v] = "parked" /\ pc'[v] = "woken")
    BY <1>a, <1>28, Disjoint DEF TypeOK, Goto, counters, poolVars, requestVars, parkVars,
       monitorVars, worldVars, limitVars, WorkersAt, After, MonitorRests, MonitorGoto
  <2>2. InPark' = InPark
    BY <2>1, WorkersStill DEF WorkerPcs, InPark
  <2>3. InJob' = InJob
    BY <2>1, WorkersStill DEF WorkerPcs, InJob
  <2> QED BY <1>a, <1>28, <2>1, <2>2, <2>3, Disjoint DEF ParkingAgrees, TypeOK,
     Goto, WorkersAt, Live, InPark, WorkerPcs, counters, poolVars, requestVars, parkVars,
     monitorVars, worldVars, limitVars, MonitorRests, MonitorGoto
<1>29. CASE MonitorRaises
  <2>1. \A v \in Workers : pc'[v] = pc[v] \/ (pc[v] = "parked" /\ pc'[v] = "woken")
    BY <1>a, <1>29, Disjoint DEF TypeOK, Goto, counters, poolVars, requestVars, parkVars,
       monitorVars, worldVars, limitVars, WorkersAt, After, MonitorRaises, MonitorGoto
  <2>2. InPark' = InPark
    BY <2>1, WorkersStill DEF WorkerPcs, InPark
  <2>3. InJob' = InJob
    BY <2>1, WorkersStill DEF WorkerPcs, InJob
  <2> QED BY <1>a, <1>29, <2>1, <2>2, <2>3, Disjoint DEF ParkingAgrees, TypeOK,
     Goto, WorkersAt, Live, InPark, WorkerPcs, counters, poolVars, requestVars, parkVars,
     monitorVars, worldVars, limitVars, MonitorRaises, MonitorGoto
<1>30. CASE MonitorTriesAgain
  <2>1. \A v \in Workers : pc'[v] = pc[v] \/ (pc[v] = "parked" /\ pc'[v] = "woken")
    BY <1>a, <1>30, Disjoint DEF TypeOK, Goto, counters, poolVars, requestVars, parkVars,
       monitorVars, worldVars, limitVars, WorkersAt, After, MonitorTriesAgain, MonitorGoto
  <2>2. InPark' = InPark
    BY <2>1, WorkersStill DEF WorkerPcs, InPark
  <2>3. InJob' = InJob
    BY <2>1, WorkersStill DEF WorkerPcs, InJob
  <2> QED BY <1>a, <1>30, <2>1, <2>2, <2>3, Disjoint DEF ParkingAgrees, TypeOK,
     Goto, WorkersAt, Live, InPark, WorkerPcs, counters, poolVars, requestVars, parkVars,
     monitorVars, worldVars, limitVars, MonitorTriesAgain, MonitorGoto
<1>31. CASE MonitorChecks
  <2>1. \A v \in Workers : pc'[v] = pc[v] \/ (pc[v] = "parked" /\ pc'[v] = "woken")
    BY <1>a, <1>31, Disjoint DEF TypeOK, Goto, counters, poolVars, requestVars, parkVars,
       monitorVars, worldVars, limitVars, WorkersAt, After, MonitorChecks, MonitorGoto
  <2>2. InPark' = InPark
    BY <2>1, WorkersStill DEF WorkerPcs, InPark
  <2>3. InJob' = InJob
    BY <2>1, WorkersStill DEF WorkerPcs, InJob
  <2> QED BY <1>a, <1>31, <2>1, <2>2, <2>3, Disjoint DEF ParkingAgrees, TypeOK,
     Goto, WorkersAt, Live, InPark, WorkerPcs, counters, poolVars, requestVars, parkVars,
     monitorVars, worldVars, limitVars, MonitorChecks, MonitorGoto
<1>32. CASE MonitorDecides
  <2>1. \A v \in Workers : pc'[v] = pc[v] \/ (pc[v] = "parked" /\ pc'[v] = "woken")
    BY <1>a, <1>32, Disjoint DEF TypeOK, Goto, counters, poolVars, requestVars, parkVars,
       monitorVars, worldVars, limitVars, WorkersAt, After, MonitorDecides, MonitorGoto, NothingToWatch
  <2>2. InPark' = InPark
    BY <2>1, WorkersStill DEF WorkerPcs, InPark
  <2>3. InJob' = InJob
    BY <2>1, WorkersStill DEF WorkerPcs, InJob
  <2> QED BY <1>a, <1>32, <2>1, <2>2, <2>3, Disjoint DEF ParkingAgrees, TypeOK,
     Goto, WorkersAt, Live, InPark, WorkerPcs, counters, poolVars, requestVars, parkVars,
     monitorVars, worldVars, limitVars, MonitorDecides, MonitorGoto, NothingToWatch
<1>33. CASE MonitorQuits
  <2>1. \A v \in Workers : pc'[v] = pc[v] \/ (pc[v] = "parked" /\ pc'[v] = "woken")
    BY <1>a, <1>33, Disjoint DEF TypeOK, Goto, counters, poolVars, requestVars, parkVars,
       monitorVars, worldVars, limitVars, WorkersAt, After, MonitorQuits, MonitorGoto
  <2>2. InPark' = InPark
    BY <2>1, WorkersStill DEF WorkerPcs, InPark
  <2>3. InJob' = InJob
    BY <2>1, WorkersStill DEF WorkerPcs, InJob
  <2> QED BY <1>a, <1>33, <2>1, <2>2, <2>3, Disjoint DEF ParkingAgrees, TypeOK,
     Goto, WorkersAt, Live, InPark, WorkerPcs, counters, poolVars, requestVars, parkVars,
     monitorVars, worldVars, limitVars, MonitorQuits, MonitorGoto
<1>34. CASE Shutdown
  <2>1. \A v \in Workers : pc'[v] = pc[v] \/ (pc[v] = "parked" /\ pc'[v] = "woken")
    BY <1>a, <1>34, Disjoint DEF TypeOK, Goto, counters, poolVars, requestVars, parkVars,
       monitorVars, worldVars, limitVars, WorkersAt, After, Shutdown, MainStep
  <2>2. InPark' = InPark
    BY <2>1, WorkersStill DEF WorkerPcs, InPark
  <2>3. InJob' = InJob
    BY <2>1, WorkersStill DEF WorkerPcs, InJob
  <2> QED BY <1>a, <1>34, <2>1, <2>2, <2>3, Disjoint DEF ParkingAgrees, TypeOK,
     Goto, WorkersAt, Live, InPark, WorkerPcs, counters, poolVars, requestVars, parkVars,
     monitorVars, worldVars, limitVars, Shutdown, MainStep
<1>35. CASE CleanupKill
  <2>1. \A v \in Workers : pc'[v] = pc[v] \/ (pc[v] = "parked" /\ pc'[v] = "woken")
    BY <1>a, <1>35, Disjoint DEF TypeOK, Goto, counters, poolVars, requestVars, parkVars,
       monitorVars, worldVars, limitVars, WorkersAt, After, CleanupKill, MainStep
  <2>2. InPark' = InPark
    BY <2>1, WorkersStill DEF WorkerPcs, InPark
  <2>3. InJob' = InJob
    BY <2>1, WorkersStill DEF WorkerPcs, InJob
  <2> QED BY <1>a, <1>35, <2>1, <2>2, <2>3, Disjoint DEF ParkingAgrees, TypeOK,
     Goto, WorkersAt, Live, InPark, WorkerPcs, counters, poolVars, requestVars, parkVars,
     monitorVars, worldVars, limitVars, CleanupKill, MainStep
<1>36. ASSUME NEW w \in Workers, WorkerKilled(w) PROVE ParkingAgrees'
  <2>1. \A v \in Workers : pc'[v] = pc[v] \/ (pc[v] = "parked" /\ pc'[v] = "woken")
    BY <1>a, <1>36, Disjoint DEF TypeOK, Goto, counters, poolVars, requestVars, parkVars,
       monitorVars, worldVars, limitVars, WorkersAt, After, WorkerKilled, MainStep
  <2>2. InPark' = InPark
    BY <2>1, WorkersStill DEF WorkerPcs, InPark
  <2>3. InJob' = InJob
    BY <2>1, WorkersStill DEF WorkerPcs, InJob
  <2> QED BY <1>a, <1>36, <2>1, <2>2, <2>3, Disjoint DEF ParkingAgrees, TypeOK,
     Goto, WorkersAt, Live, InPark, WorkerPcs, counters, poolVars, requestVars, parkVars,
     monitorVars, worldVars, limitVars, WorkerKilled, MainStep
<1>37. CASE CleanupNotify
  <2>1. \A v \in Workers : pc'[v] = pc[v] \/ (pc[v] = "parked" /\ pc'[v] = "woken")
    BY <1>a, <1>37, Disjoint DEF TypeOK, Goto, counters, poolVars, requestVars, parkVars,
       monitorVars, worldVars, limitVars, WorkersAt, After, CleanupNotify
  <2>2. InPark' = InPark
    BY <2>1, WorkersStill DEF WorkerPcs, InPark
  <2>3. InJob' = InJob
    BY <2>1, WorkersStill DEF WorkerPcs, InJob
  <2> QED BY <1>a, <1>37, <2>1, <2>2, <2>3, Disjoint DEF ParkingAgrees, TypeOK,
     Goto, WorkersAt, Live, InPark, WorkerPcs, counters, poolVars, requestVars, parkVars,
     monitorVars, worldVars, limitVars, CleanupNotify
<1>38. CASE NextSecond
  <2>1. \A v \in Workers : pc'[v] = pc[v] \/ (pc[v] = "parked" /\ pc'[v] = "woken")
    BY <1>a, <1>38, Disjoint DEF TypeOK, Goto, counters, poolVars, requestVars, parkVars,
       monitorVars, worldVars, limitVars, WorkersAt, After, NextSecond
  <2>2. InPark' = InPark
    BY <2>1, WorkersStill DEF WorkerPcs, InPark
  <2>3. InJob' = InJob
    BY <2>1, WorkersStill DEF WorkerPcs, InJob
  <2> QED BY <1>a, <1>38, <2>1, <2>2, <2>3, Disjoint DEF ParkingAgrees, TypeOK,
     Goto, WorkersAt, Live, InPark, WorkerPcs, counters, poolVars, requestVars, parkVars,
     monitorVars, worldVars, limitVars, NextSecond
<1>39. ASSUME NEW n \in MinSettings, SetMinThreads(n) PROVE ParkingAgrees'
  <2>1. \A v \in Workers : pc'[v] = pc[v] \/ (pc[v] = "parked" /\ pc'[v] = "woken")
    BY <1>a, <1>39, Disjoint DEF TypeOK, Goto, counters, poolVars, requestVars, parkVars,
       monitorVars, worldVars, limitVars, WorkersAt, After, SetMinThreads, SetLimit
  <2>2. InPark' = InPark
    BY <2>1, WorkersStill DEF WorkerPcs, InPark
  <2>3. InJob' = InJob
    BY <2>1, WorkersStill DEF WorkerPcs, InJob
  <2> QED BY <1>a, <1>39, <2>1, <2>2, <2>3, Disjoint DEF ParkingAgrees, TypeOK,
     Goto, WorkersAt, Live, InPark, WorkerPcs, counters, poolVars, requestVars, parkVars,
     monitorVars, worldVars, limitVars, SetMinThreads, SetLimit
<1>40. CASE Suspend
  <2>1. \A v \in Workers : pc'[v] = pc[v] \/ (pc[v] = "parked" /\ pc'[v] = "woken")
    BY <1>a, <1>40, Disjoint DEF TypeOK, Goto, counters, poolVars, requestVars, parkVars,
       monitorVars, worldVars, limitVars, WorkersAt, After, Suspend
  <2>2. InPark' = InPark
    BY <2>1, WorkersStill DEF WorkerPcs, InPark
  <2>3. InJob' = InJob
    BY <2>1, WorkersStill DEF WorkerPcs, InJob
  <2> QED BY <1>a, <1>40, <2>1, <2>2, <2>3, Disjoint DEF ParkingAgrees, TypeOK,
     Goto, WorkersAt, Live, InPark, WorkerPcs, counters, poolVars, requestVars, parkVars,
     monitorVars, worldVars, limitVars, Suspend
<1>41. CASE UNCHANGED vars
  <2>1. \A v \in Workers : pc'[v] = pc[v] \/ (pc[v] = "parked" /\ pc'[v] = "woken")
    BY <1>a, <1>41, Disjoint DEF TypeOK, Goto, counters, poolVars, requestVars, parkVars,
       monitorVars, worldVars, limitVars, WorkersAt, After, vars
  <2>2. InPark' = InPark
    BY <2>1, WorkersStill DEF WorkerPcs, InPark
  <2>3. InJob' = InJob
    BY <2>1, WorkersStill DEF WorkerPcs, InJob
  <2> QED BY <1>a, <1>41, <2>1, <2>2, <2>3, Disjoint DEF ParkingAgrees, TypeOK,
     Goto, WorkersAt, Live, InPark, WorkerPcs, counters, poolVars, requestVars, parkVars,
     monitorVars, worldVars, limitVars, vars
<1>42. CASE MonitorStarves
  <2>1. \A v \in Workers : pc'[v] = pc[v] \/ (pc[v] = "parked" /\ pc'[v] = "woken")
    BY <1>a, <1>42, Disjoint DEF TypeOK, Goto, counters, poolVars, requestVars, parkVars,
       monitorVars, worldVars, limitVars, WorkersAt, After, MonitorStarves, MonitorGoto
  <2>2. InPark' = InPark
    BY <2>1, WorkersStill DEF WorkerPcs, InPark
  <2>3. InJob' = InJob
    BY <2>1, WorkersStill DEF WorkerPcs, InJob
  <2> QED BY <1>a, <1>42, <2>1, <2>2, <2>3, Disjoint DEF ParkingAgrees, TypeOK,
     Goto, WorkersAt, Live, InPark, WorkerPcs, counters, poolVars, requestVars, parkVars,
     monitorVars, worldVars, limitVars, MonitorStarves, MonitorGoto
<1>43. ASSUME NEW n \in MaxSettings, SetMaxThreads(n) PROVE ParkingAgrees'
  <2>1. \A v \in Workers : pc'[v] = pc[v] \/ (pc[v] = "parked" /\ pc'[v] = "woken")
    BY <1>a, <1>43, Disjoint DEF TypeOK, Goto, counters, poolVars, requestVars, parkVars,
       monitorVars, worldVars, limitVars, WorkersAt, After, SetMaxThreads, SetLimit
  <2>2. InPark' = InPark
    BY <2>1, WorkersStill DEF WorkerPcs, InPark
  <2>3. InJob' = InJob
    BY <2>1, WorkersStill DEF WorkerPcs, InJob
  <2> QED BY <1>a, <1>43, <2>1, <2>2, <2>3, Disjoint DEF ParkingAgrees, TypeOK,
     Goto, WorkersAt, Live, InPark, WorkerPcs, counters, poolVars, requestVars, parkVars,
     monitorVars, worldVars, limitVars, SetMaxThreads, SetLimit
<1> QED
  BY <1>1, <1>2, <1>3, <1>4, <1>5, <1>6, <1>7, <1>8, <1>9, <1>10, <1>11, <1>12, <1>13, <1>14,
     <1>15, <1>16, <1>17, <1>18, <1>19, <1>20, <1>21, <1>22, <1>23, <1>24, <1>25, <1>26, <1>27,
     <1>28, <1>29, <1>30, <1>31, <1>32, <1>33, <1>34, <1>35, <1>36, <1>37, <1>38, <1>39, <1>40,
     <1>41, <1>42, <1>43 DEF Next, RequesterStep, CreateStep, WorkerStep, JobEnds, MonitorStep, Cleanup

\* The status word tells whether a monitor thread lives.
LEMMA StatusStep == IInv /\ [Next]_vars => StatusIsTrue'
<1> SUFFICES ASSUME IInv, [Next]_vars PROVE StatusIsTrue'
  OBVIOUS
<1> USE Disjoint DEF TypeOK, StatusIsTrue, MonitorLives, Goto, WorkersAt, After, Denied,
   counters, poolVars, requestVars, parkVars, monitorVars, worldVars, limitVars
<1>a. TypeOK /\ StatusIsTrue
  BY DEF IInv
<1>1. ASSUME NEW r \in Requesters, Request(r) PROVE StatusIsTrue'
  BY <1>a, <1>1 DEF Request
<1>2. ASSUME NEW r \in Requesters, RequestSuspended(r) PROVE StatusIsTrue'
  BY <1>a, <1>2 DEF RequestSuspended
<1>3. ASSUME NEW r \in Requesters, EnsureRunning(r) PROVE StatusIsTrue'
  BY <1>a, <1>3 DEF EnsureRunning
<1>4. ASSUME NEW r \in Requesters, Claim(r) PROVE StatusIsTrue'
  BY <1>a, <1>4 DEF Claim
<1>5. ASSUME NEW r \in Requesters, MonitorStarts(r) PROVE StatusIsTrue'
  BY <1>a, <1>5 DEF MonitorStarts
<1>6. ASSUME NEW r \in Requesters, MonitorStartFails(r) PROVE StatusIsTrue'
  BY <1>a, <1>6 DEF MonitorStartFails
<1>7. ASSUME NEW t \in Requesters \cup {Monitor}, Unpark(t) PROVE StatusIsTrue'
  BY <1>a, <1>7 DEF Unpark, After
<1>8. ASSUME NEW t \in Requesters \cup {Monitor}, CreateDenied(t) PROVE StatusIsTrue'
  BY <1>a, <1>8 DEF CreateDenied, Denied
<1>9. ASSUME NEW t \in Requesters \cup {Monitor}, Reserve(t) PROVE StatusIsTrue'
  BY <1>a, <1>9 DEF Reserve, CountActive, CannotReserve
<1>10. ASSUME NEW t \in Requesters \cup {Monitor}, Create(t) PROVE StatusIsTrue'
  BY <1>a, <1>10 DEF Create, After
<1>11. ASSUME NEW t \in Requesters \cup {Monitor}, CreateFails(t) PROVE StatusIsTrue'
  BY <1>a, <1>11 DEF CreateFails, Rollback, CountActive, Denied
<1>12. ASSUME NEW w \in Workers, Begin(w) PROVE StatusIsTrue'
  BY <1>a, <1>12 DEF Begin
<1>13. ASSUME NEW w \in Workers, TakeRequest(w) PROVE StatusIsTrue'
  BY <1>a, <1>13 DEF TakeRequest
<1>14. ASSUME NEW w \in Workers, FindNothing(w) PROVE StatusIsTrue'
  BY <1>a, <1>14 DEF FindNothing
<1>15. ASSUME NEW w \in Workers, StopLooping(w) PROVE StatusIsTrue'
  BY <1>a, <1>15 DEF StopLooping
<1>16. ASSUME NEW w \in Workers, GiveUp(w) PROVE StatusIsTrue'
  BY <1>a, <1>16 DEF GiveUp, CountParked
<1>17. ASSUME NEW w \in Workers, Park(w) PROVE StatusIsTrue'
  BY <1>a, <1>17 DEF Park
<1>18. ASSUME NEW w \in Workers, ParkTimeout(w) PROVE StatusIsTrue'
  BY <1>a, <1>18 DEF ParkTimeout
<1>19. ASSUME NEW w \in Workers, Wake(w) PROVE StatusIsTrue'
  BY <1>a, <1>19 DEF Wake, Unparked
<1>20. ASSUME NEW w \in Workers, GoOn(w) PROVE StatusIsTrue'
  BY <1>a, <1>20 DEF GoOn, CountParked
<1>21. ASSUME NEW w \in Workers, HeuristicAdjust(w) PROVE StatusIsTrue'
  BY <1>a, <1>21 DEF HeuristicAdjust
<1>22. ASSUME NEW w \in Workers, Leave(w) PROVE StatusIsTrue'
  BY <1>a, <1>22 DEF Leave
<1>23. ASSUME NEW w \in Workers, CountGone(w) PROVE StatusIsTrue'
  BY <1>a, <1>23 DEF CountGone, CountActive
<1>24. ASSUME NEW w \in Workers, Progress(w) PROVE StatusIsTrue'
  BY <1>a, <1>24 DEF Progress
<1>25. ASSUME NEW w \in Workers, JobReturns(w) PROVE StatusIsTrue'
  BY <1>a, <1>25 DEF JobReturns, JobDone
<1>26. ASSUME NEW w \in Workers, JobRetires(w) PROVE StatusIsTrue'
  BY <1>a, <1>26 DEF JobRetires, JobDone
<1>27. ASSUME NEW w \in Workers, JobThrows(w) PROVE StatusIsTrue'
  BY <1>a, <1>27 DEF JobThrows, JobDone
<1>28. CASE MonitorRests
  BY <1>a, <1>28 DEF MonitorRests, MonitorGoto
<1>29. CASE MonitorRaises
  BY <1>a, <1>29 DEF MonitorRaises, MonitorGoto
<1>30. CASE MonitorTriesAgain
  BY <1>a, <1>30 DEF MonitorTriesAgain, MonitorGoto
<1>31. CASE MonitorChecks
  BY <1>a, <1>31 DEF MonitorChecks, MonitorGoto
<1>32. CASE MonitorDecides
  BY <1>a, <1>32 DEF MonitorDecides, MonitorGoto, NothingToWatch
<1>33. CASE MonitorQuits
  BY <1>a, <1>33 DEF MonitorQuits, MonitorGoto
<1>34. CASE Shutdown
  BY <1>a, <1>34 DEF Shutdown, MainStep
<1>35. CASE CleanupKill
  BY <1>a, <1>35 DEF CleanupKill, MainStep
<1>36. ASSUME NEW w \in Workers, WorkerKilled(w) PROVE StatusIsTrue'
  BY <1>a, <1>36 DEF WorkerKilled, MainStep
<1>37. CASE CleanupNotify
  BY <1>a, <1>37 DEF CleanupNotify
<1>38. CASE NextSecond
  BY <1>a, <1>38 DEF NextSecond
<1>39. ASSUME NEW n \in MinSettings, SetMinThreads(n) PROVE StatusIsTrue'
  BY <1>a, <1>39 DEF SetMinThreads, SetLimit
<1>40. CASE Suspend
  BY <1>a, <1>40 DEF Suspend
<1>41. CASE UNCHANGED vars
  BY <1>a, <1>41 DEF vars
<1>42. CASE MonitorStarves
  BY <1>a, <1>42 DEF MonitorStarves, MonitorGoto
<1>43. ASSUME NEW n \in MaxSettings, SetMaxThreads(n) PROVE StatusIsTrue'
  BY <1>a, <1>43 DEF SetMaxThreads, SetLimit
<1> QED
  BY <1>1, <1>2, <1>3, <1>4, <1>5, <1>6, <1>7, <1>8, <1>9, <1>10, <1>11, <1>12, <1>13, <1>14,
     <1>15, <1>16, <1>17, <1>18, <1>19, <1>20, <1>21, <1>22, <1>23, <1>24, <1>25, <1>26, <1>27,
     <1>28, <1>29, <1>30, <1>31, <1>32, <1>33, <1>34, <1>35, <1>36, <1>37, <1>38, <1>39, <1>40,
     <1>41, <1>42, <1>43 DEF Next, RequesterStep, CreateStep, WorkerStep, JobEnds, MonitorStep, Cleanup

\* A request that was not given up keeps the monitor thread from stopping.
LEMMA WatchStep == IInv /\ [Next]_vars => RequestIsWatched'
<1> SUFFICES ASSUME IInv, [Next]_vars PROVE RequestIsWatched'
  OBVIOUS
<1> USE Disjoint DEF TypeOK, StatusIsTrue, RequestIsWatched, Ensuring, MonitorLives, Goto,
   WorkersAt, After, Denied, counters, poolVars, requestVars, parkVars, monitorVars, worldVars, limitVars
<1>a. TypeOK /\ StatusIsTrue /\ RequestIsWatched
  BY DEF IInv
<1>1. ASSUME NEW r \in Requesters, Request(r) PROVE RequestIsWatched'
  BY <1>a, <1>1 DEF Request
<1>2. ASSUME NEW r \in Requesters, RequestSuspended(r) PROVE RequestIsWatched'
  BY <1>a, <1>2 DEF RequestSuspended
<1>3. ASSUME NEW r \in Requesters, EnsureRunning(r) PROVE RequestIsWatched'
  BY <1>a, <1>3 DEF EnsureRunning
<1>4. ASSUME NEW r \in Requesters, Claim(r) PROVE RequestIsWatched'
  BY <1>a, <1>4 DEF Claim
<1>5. ASSUME NEW r \in Requesters, MonitorStarts(r) PROVE RequestIsWatched'
  BY <1>a, <1>5 DEF MonitorStarts
<1>6. ASSUME NEW r \in Requesters, MonitorStartFails(r) PROVE RequestIsWatched'
  BY <1>a, <1>6 DEF MonitorStartFails
<1>7. ASSUME NEW t \in Requesters \cup {Monitor}, Unpark(t) PROVE RequestIsWatched'
  BY <1>a, <1>7 DEF Unpark, After
<1>8. ASSUME NEW t \in Requesters \cup {Monitor}, CreateDenied(t) PROVE RequestIsWatched'
  BY <1>a, <1>8 DEF CreateDenied, Denied
<1>9. ASSUME NEW t \in Requesters \cup {Monitor}, Reserve(t) PROVE RequestIsWatched'
  BY <1>a, <1>9 DEF Reserve, CountActive, CannotReserve
<1>10. ASSUME NEW t \in Requesters \cup {Monitor}, Create(t) PROVE RequestIsWatched'
  BY <1>a, <1>10 DEF Create, After
<1>11. ASSUME NEW t \in Requesters \cup {Monitor}, CreateFails(t) PROVE RequestIsWatched'
  BY <1>a, <1>11 DEF CreateFails, Rollback, CountActive, Denied
<1>12. ASSUME NEW w \in Workers, Begin(w) PROVE RequestIsWatched'
  BY <1>a, <1>12 DEF Begin
<1>13. ASSUME NEW w \in Workers, TakeRequest(w) PROVE RequestIsWatched'
  BY <1>a, <1>13 DEF TakeRequest
<1>14. ASSUME NEW w \in Workers, FindNothing(w) PROVE RequestIsWatched'
  BY <1>a, <1>14 DEF FindNothing
<1>15. ASSUME NEW w \in Workers, StopLooping(w) PROVE RequestIsWatched'
  BY <1>a, <1>15 DEF StopLooping
<1>16. ASSUME NEW w \in Workers, GiveUp(w) PROVE RequestIsWatched'
  BY <1>a, <1>16 DEF GiveUp, CountParked
<1>17. ASSUME NEW w \in Workers, Park(w) PROVE RequestIsWatched'
  BY <1>a, <1>17 DEF Park
<1>18. ASSUME NEW w \in Workers, ParkTimeout(w) PROVE RequestIsWatched'
  BY <1>a, <1>18 DEF ParkTimeout
<1>19. ASSUME NEW w \in Workers, Wake(w) PROVE RequestIsWatched'
  BY <1>a, <1>19 DEF Wake, Unparked
<1>20. ASSUME NEW w \in Workers, GoOn(w) PROVE RequestIsWatched'
  BY <1>a, <1>20 DEF GoOn, CountParked
<1>21. ASSUME NEW w \in Workers, HeuristicAdjust(w) PROVE RequestIsWatched'
  BY <1>a, <1>21 DEF HeuristicAdjust
<1>22. ASSUME NEW w \in Workers, Leave(w) PROVE RequestIsWatched'
  BY <1>a, <1>22 DEF Leave
<1>23. ASSUME NEW w \in Workers, CountGone(w) PROVE RequestIsWatched'
  BY <1>a, <1>23 DEF CountGone, CountActive
<1>24. ASSUME NEW w \in Workers, Progress(w) PROVE RequestIsWatched'
  BY <1>a, <1>24 DEF Progress
<1>25. ASSUME NEW w \in Workers, JobReturns(w) PROVE RequestIsWatched'
  BY <1>a, <1>25 DEF JobReturns, JobDone
<1>26. ASSUME NEW w \in Workers, JobRetires(w) PROVE RequestIsWatched'
  BY <1>a, <1>26 DEF JobRetires, JobDone
<1>27. ASSUME NEW w \in Workers, JobThrows(w) PROVE RequestIsWatched'
  BY <1>a, <1>27 DEF JobThrows, JobDone
<1>28. CASE MonitorRests
  BY <1>a, <1>28 DEF MonitorRests, MonitorGoto
<1>29. CASE MonitorRaises
  BY <1>a, <1>29 DEF MonitorRaises, MonitorGoto
<1>30. CASE MonitorTriesAgain
  BY <1>a, <1>30 DEF MonitorTriesAgain, MonitorGoto
<1>31. CASE MonitorChecks
  BY <1>a, <1>31 DEF MonitorChecks, MonitorGoto
<1>32. CASE MonitorDecides
  BY <1>a, <1>32 DEF MonitorDecides, MonitorGoto, NothingToWatch
<1>33. CASE MonitorQuits
  BY <1>a, <1>33 DEF MonitorQuits, MonitorGoto
<1>34. CASE Shutdown
  BY <1>a, <1>34 DEF Shutdown, MainStep
<1>35. CASE CleanupKill
  BY <1>a, <1>35 DEF CleanupKill, MainStep
<1>36. ASSUME NEW w \in Workers, WorkerKilled(w) PROVE RequestIsWatched'
  BY <1>a, <1>36 DEF WorkerKilled, MainStep
<1>37. CASE CleanupNotify
  BY <1>a, <1>37 DEF CleanupNotify
<1>38. CASE NextSecond
  BY <1>a, <1>38 DEF NextSecond
<1>39. ASSUME NEW n \in MinSettings, SetMinThreads(n) PROVE RequestIsWatched'
  BY <1>a, <1>39 DEF SetMinThreads, SetLimit
<1>40. CASE Suspend
  BY <1>a, <1>40 DEF Suspend
<1>41. CASE UNCHANGED vars
  BY <1>a, <1>41 DEF vars
<1>42. CASE MonitorStarves
  BY <1>a, <1>42 DEF MonitorStarves, MonitorGoto
<1>43. ASSUME NEW n \in MaxSettings, SetMaxThreads(n) PROVE RequestIsWatched'
  BY <1>a, <1>43 DEF SetMaxThreads, SetLimit
<1> QED
  BY <1>1, <1>2, <1>3, <1>4, <1>5, <1>6, <1>7, <1>8, <1>9, <1>10, <1>11, <1>12, <1>13, <1>14,
     <1>15, <1>16, <1>17, <1>18, <1>19, <1>20, <1>21, <1>22, <1>23, <1>24, <1>25, <1>26, <1>27,
     <1>28, <1>29, <1>30, <1>31, <1>32, <1>33, <1>34, <1>35, <1>36, <1>37, <1>38, <1>39, <1>40,
     <1>41, <1>42, <1>43 DEF Next, RequesterStep, CreateStep, WorkerStep, JobEnds, MonitorStep, Cleanup

LEMMA IInvInit == Init => IInv
<1> SUFFICES ASSUME Init PROVE IInv
  OBVIOUS
<1> USE ThreadAssumption, LimitAssumption, BoundAssumption DEF Init, Nobody, Threads
<1>1. TypeOK
  <2>1. /\ Cpus \in 1..MaxCount /\ Cpus \in 1..Far /\ Far \in 1..Far
        /\ 0 \in 0..MaxChanges
    BY DEF Far
  <2>2. /\ pc \in [Threads -> WorkerPcs \cup RequesterPcs \cup MonitorPcs \cup MainPcs]
        /\ \A w \in Workers : pc[w] \in WorkerPcs
        /\ \A r \in Requesters : pc[r] \in RequesterPcs
        /\ pc[Monitor] \in MonitorPcs /\ pc[Main] \in MainPcs
    BY DEF WorkerPcs, RequesterPcs, MonitorPcs, MainPcs
  <2>3. 0 \in 0..MaxRequests /\ 0 \in 0..MaxPerSecond /\ 0 \in 0..MonitorTries
    OBVIOUS
  <2>4. /\ max_working \in 1..MaxCount /\ active \in Int /\ working \in Int
        /\ parked \in Int
        /\ limitMin \in 1..Far /\ limitMax \in 1..Far /\ changes \in 0..MaxChanges
    BY <2>1
  <2>5. outstanding \in 0..MaxRequests /\ jobs \in Int /\ filed \in 0..MaxRequests
        /\ parkedCount \in Int /\ created \in 0..MaxPerSecond /\ tries \in 0..MonitorTries
    BY <2>3
  <2> QED BY <2>2, <2>4, <2>5 DEF TypeOK
<1>2. StatusIsTrue /\ CreatorIsTrue /\ RequestIsWatched
  BY DEF StatusIsTrue, CreatorIsTrue, RequestIsWatched, MonitorLives
<1>3. Cardinality({}) = 0
  BY FS_EmptySet
<1>4. Live = {} /\ Parked = {} /\ InPark = {} /\ InJob = {} /\ Reserved = {}
      /\ WorkersAt({"new", "gone"}) = {}
  BY DEF Live, Parked, InPark, InJob, Reserved, WorkersAt
<1>5. CountersAgree /\ ParkingAgrees
  BY <1>3, <1>4 DEF CountersAgree, ParkingAgrees
<1> QED BY <1>1, <1>2, <1>5 DEF IInv

LEMMA IInvStep == IInv /\ [Next]_vars => IInv'
  BY TypeStep, CreatorStep, CountersStep, ParkingStep, StatusStep, WatchStep DEF IInv

\* Counts that agree with the threads pass the checks of COUNTER_ATOMIC.
LEMMA AgreementPasses == IInv => CounterChecks
<1> SUFFICES ASSUME IInv PROVE CounterChecks
  OBVIOUS
<1>1. TypeOK /\ CountersAgree /\ CreatorIsTrue
  BY DEF IInv
<1>2. Cardinality(Reserved) \in Nat
  BY <1>1, ReservedCount
<1>3. IsFiniteSet(Live) /\ Parked \subseteq Live
  BY ThreadAssumption, FS_Subset DEF Live, Parked, WorkersAt, WorkerPcs
<1>4. /\ Cardinality(Live) \in Nat /\ Cardinality(Parked) \in Nat
      /\ Cardinality(Parked) <= Cardinality(Live)
  BY <1>3, FS_Subset, FS_CardinalityType
<1>5. active >= 0 /\ working >= 0
  BY <1>1, <1>2, <1>4 DEF CountersAgree
<1>6. max_working > 0 /\ created <= MaxPerSecond
  BY <1>1, LimitAssumption, BoundAssumption DEF TypeOK
<1> QED BY <1>5, <1>6 DEF CounterChecks

\* The asserts of COUNTER_CHECK and of worker_try_create: SetMinThreads and
\* SetMaxThreads come at any time and do not clamp max_working, a creation can
\* fail at any time, and yet no count of the pool becomes negative.
THEOREM CounterChecksPass == Spec => []CounterChecks
<1> QED BY AgreementPasses, IInvInit, IInvStep, PTL DEF Spec

\* The counter word of the pool agrees with the threads, whatever interleaving
\* of COUNTER_ATOMIC updates, reservations and failed creations.
THEOREM CountersAlwaysAgree == Spec => []CountersAgree
<1>1. IInv => CountersAgree
  BY DEF IInv
<1> QED BY <1>1, IInvInit, IInvStep, PTL DEF Spec

\* parked_threads_count, working_threads and threadpool_jobs agree with the
\* threads: worker_try_unpark never misses a worker that waits.
THEOREM ParkingAlwaysAgrees == Spec => []ParkingAgrees
<1>1. IInv => ParkingAgrees
  BY DEF IInv
<1> QED BY <1>1, IInvInit, IInvStep, PTL DEF Spec

\* A request that went through monitor_ensure_running is never left without a
\* monitor thread that will look at it (monitor_should_keep_running).
THEOREM RequestAlwaysWatched == Spec => []RequestIsWatched
<1>1. IInv => RequestIsWatched
  BY DEF IInv
<1> QED BY <1>1, IInvInit, IInvStep, PTL DEF Spec
=============================================================================
