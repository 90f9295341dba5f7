--------------------------- MODULE ThreadsProofs ---------------------------
(***************************************************************************)
(* Theorems about Threads, for any workers, any number of static slots and *)
(* any maximum of the finalizer's semaphore.                               *)
(***************************************************************************)
EXTENDS Threads, TLAPS

WorkerPlaces == {"none", "starting", "registered", "running", "sleeping", "blocked", "reset",
                 "notify", "await", "ending", "freed", "leaving", "exited"}
Abortion == {"queue", "join"}
Demolition == {"stop", "announce", "joinFinalizer", "uninitialize", "done"}
MainPlaces == {"running", "reset", "notify", "await", "block"} \union Abortion \union Demolition
FinalizerPlaces == {"loop", "idle", "invoke", "set", "ending", "freed", "leaving", "exited"}

\* Who is where: each kind of thread has places of its own.
PlacesInv ==
    /\ \A t \in Workers : pc[t] \in WorkerPlaces
    /\ pc[Main] \in MainPlaces /\ pc[Finalizer] \in FinalizerPlaces

\* No thread has memory for a slot that does not exist.
SlotsInv == \A t \in Threads : static_data[t] \subseteq 0..(slots - 1)

\* The main thread is on the list until the list is deleted, and by then the
\* finalizer thread has left it.
ListInv ==
    /\ pc[Main] # "done" => Main \in s_AttachedThreads
    /\ pc[Main] \in {"uninitialize", "done"} => pc[Finalizer] = "exited"

(* Since new threads are blocked, whoever is on the list has been copied    *)
(* from it, and is in the copy or among the threads that are joined.        *)
AbortInv ==
    /\ pc[Main] \in Abortion \union Demolition => s_BlockNewThreads
    /\ pc[Main] = "queue" => \A t \in Workers : pc[t] \in OnTheList => t \in copy \union active
    /\ pc[Main] = "join" => \A t \in Workers : pc[t] \in OnTheList => t \in active

IInv == /\ TypeOK /\ PlacesInv /\ SlotsInv /\ ListInv /\ AbortInv
        /\ StaticsAreReady /\ NobodySurvives /\ WaiterIsOwedARound

-----------------------------------------------------------------------------
LEMMA IInvInit == Init => IInv
<1>. SUFFICES ASSUME Init PROVE IInv
  OBVIOUS
<1>. USE WorkersAssumption, ThreadsAssumption, BoundsAssumption DEF Threads
<1>1. PlacesInv
  BY DEF Init, PlacesInv, WorkerPlaces, MainPlaces, FinalizerPlaces
<1>2. TypeOK
  <2>1. pc \in [Threads -> WorkerPlaces \union MainPlaces \union FinalizerPlaces]
    BY <1>1 DEF Init, PlacesInv
  <2>2. static_data \in [Threads -> SUBSET (0..(MaxSlots - 1))]
    BY DEF Init
  <2>3. s_AttachedThreads \subseteq Threads /\ apcs \subseteq Workers /\ copy \subseteq Threads
        /\ active \subseteq Workers /\ slots \in 0..MaxSlots /\ semaphore \in 0..SemaphoreMaximum
    BY DEF Init
  <2>4. /\ s_BlockNewThreads \in BOOLEAN /\ completed \in BOOLEAN /\ pending \in BOOLEAN
        /\ s_StopFinalizer \in BOOLEAN /\ terminated \in BOOLEAN
    BY DEF Init
  <2>. QED  BY <2>1, <2>2, <2>3, <2>4
               DEF TypeOK, WorkerPlaces, MainPlaces, FinalizerPlaces, Abortion, Demolition
<1>3. SlotsInv /\ ListInv /\ AbortInv
  BY DEF Init, SlotsInv, ListInv, AbortInv, Abortion, Demolition
<1>4. StaticsAreReady
  BY DEF Init, StaticsAreReady
<1>5. NobodySurvives /\ WaiterIsOwedARound
  BY DEF Init, NobodySurvives, WaiterIsOwedARound, InManagedCode, OnTheList
<1>. QED  BY <1>1, <1>2, <1>3, <1>4, <1>5 DEF IInv

LEMMA TypeStep == IInv /\ [Next]_vars => TypeOK'
<1>. SUFFICES ASSUME IInv, [Next]_vars PROVE TypeOK'
  OBVIOUS
<1>. USE WorkersAssumption, ThreadsAssumption, BoundsAssumption
         DEF IInv, TypeOK, PlacesInv, WorkerPlaces, MainPlaces, FinalizerPlaces,
             Abortion, Demolition, staticVars, abortVars, finalizerVars, Goes, At, Runs,
             Threads
<1>1. ASSUME NEW t \in Workers, Start(t) PROVE TypeOK'
  BY <1>1 DEF Start
<1>2. ASSUME NEW t \in Workers, Register(t) PROVE TypeOK'
  BY <1>2 DEF Register
<1>3. ASSUME NEW t \in Workers, RegisterThrows(t) PROVE TypeOK'
  BY <1>3 DEF RegisterThrows
<1>4. ASSUME NEW t \in Workers, AdjustStaticData(t) PROVE TypeOK'
  BY <1>4 DEF AdjustStaticData, Adjusted
<1>5. ASSUME NEW t \in Workers, FreeThreadStaticData(t) PROVE TypeOK'
  BY <1>5 DEF FreeThreadStaticData
<1>6. ASSUME NEW t \in Workers, Unregister(t) PROVE TypeOK'
  BY <1>6 DEF Unregister
<1>7. ASSUME NEW t \in Workers, Exit(t) PROVE TypeOK'
  BY <1>7 DEF Exit
<1>8. ASSUME NEW t \in Workers, Sleep(t) PROVE TypeOK'
  BY <1>8 DEF Sleep
<1>9. ASSUME NEW t \in Workers, WakeUp(t) PROVE TypeOK'
  BY <1>9 DEF WakeUp
<1>10. ASSUME NEW t \in Workers, Abort(t) PROVE TypeOK'
  BY <1>10 DEF Abort
<1>11. ASSUME NEW t \in Workers, Block(t) PROVE TypeOK'
  BY <1>11 DEF Block
<1>12. ASSUME NEW t \in Workers, Unblock(t) PROVE TypeOK'
  BY <1>12 DEF Unblock
<1>13. ASSUME NEW t \in Workers, Return(t) PROVE TypeOK'
  BY <1>13 DEF Return
<1>14. ASSUME NEW t \in Workers \union {Main}, AllocThreadStaticData(t) PROVE TypeOK'
  BY <1>14 DEF AllocThreadStaticData
<1>15. ASSUME NEW t \in Workers \union {Main}, WaitForPendingFinalizers(t) PROVE TypeOK'
  BY <1>15 DEF WaitForPendingFinalizers
<1>16. ASSUME NEW t \in Workers \union {Main}, ResetCompleted(t) PROVE TypeOK'
  BY <1>16 DEF ResetCompleted
<1>17. ASSUME NEW t \in Workers \union {Main}, AskForARound(t) PROVE TypeOK'
  BY <1>17 DEF AskForARound, NotifyFinalizers
<1>18. ASSUME NEW t \in Workers \union {Main}, RoundIsOver(t) PROVE TypeOK'
  BY <1>18 DEF RoundIsOver
<1>19. CASE Collect
  BY <1>19 DEF Collect, NotifyFinalizers
<1>20. CASE FinalizerLoops
  BY <1>20 DEF FinalizerLoops
<1>21. CASE FinalizerTakes
  BY <1>21 DEF FinalizerTakes
<1>22. CASE InvokeFinalizers
  BY <1>22 DEF InvokeFinalizers
<1>23. CASE FinalizersCompleted
  BY <1>23 DEF FinalizersCompleted
<1>24. CASE FreeThreadStaticData(Finalizer)
  BY <1>24 DEF FreeThreadStaticData
<1>25. CASE Unregister(Finalizer)
  BY <1>25 DEF Unregister
<1>26. CASE Exit(Finalizer)
  BY <1>26 DEF Exit
<1>27. CASE Shutdown
  BY <1>27 DEF Shutdown
<1>28. CASE CopyAttachedThreads
  BY <1>28 DEF CopyAttachedThreads, BlockNewThreads
<1>29. CASE BeginToJoin
  BY <1>29 DEF BeginToJoin
<1>30. CASE ClearAttachedThreads
  BY <1>30 DEF ClearAttachedThreads
<1>31. CASE StopFinalizer
  BY <1>31 DEF StopFinalizer
<1>32. CASE NotifyStop
  BY <1>32 DEF NotifyStop, AnnounceStop, NotifyFinalizers
<1>33. CASE JoinFinalizer
  BY <1>33 DEF JoinFinalizer
<1>34. CASE Uninitialize
  BY <1>34 DEF Uninitialize
<1>35. ASSUME NEW t \in Threads, QueueTermination(t) PROVE TypeOK'
  BY <1>35 DEF QueueTermination
<1>36. ASSUME NEW t \in Threads, JoinSucceeds(t) PROVE TypeOK'
  BY <1>36 DEF JoinSucceeds
<1>37. ASSUME NEW t \in Threads, JoinTimesOut(t) PROVE TypeOK'
  BY <1>37 DEF JoinTimesOut
<1>38. CASE UNCHANGED vars
  BY <1>38 DEF vars
<1>. QED
  BY <1>1, <1>2, <1>3, <1>4, <1>5, <1>6, <1>7, <1>8, <1>9, <1>10, <1>11, <1>12, <1>13,
     <1>14, <1>15, <1>16, <1>17, <1>18, <1>19, <1>20, <1>21, <1>22, <1>23, <1>24, <1>25,
     <1>26, <1>27, <1>28, <1>29, <1>30, <1>31, <1>32, <1>33, <1>34, <1>35, <1>36, <1>37,
     <1>38 DEF Next, Enters, Leaves, Asks, FinalizerStep, MainStep

LEMMA PlacesStep == IInv /\ [Next]_vars => PlacesInv'
<1>. SUFFICES ASSUME IInv, [Next]_vars PROVE PlacesInv'
  OBVIOUS
<1>. USE WorkersAssumption, ThreadsAssumption, BoundsAssumption
         DEF IInv, TypeOK, PlacesInv, WorkerPlaces, MainPlaces, FinalizerPlaces,
             Abortion, Demolition, staticVars, abortVars, finalizerVars, Goes, At, Runs,
             Threads
<1>1. ASSUME NEW t \in Workers, Start(t) PROVE PlacesInv'
  BY <1>1 DEF Start
<1>2. ASSUME NEW t \in Workers, Register(t) PROVE PlacesInv'
  BY <1>2 DEF Register
<1>3. ASSUME NEW t \in Workers, RegisterThrows(t) PROVE PlacesInv'
  BY <1>3 DEF RegisterThrows
<1>4. ASSUME NEW t \in Workers, AdjustStaticData(t) PROVE PlacesInv'
  BY <1>4 DEF AdjustStaticData, Adjusted
<1>5. ASSUME NEW t \in Workers, FreeThreadStaticData(t) PROVE PlacesInv'
  BY <1>5 DEF FreeThreadStaticData
<1>6. ASSUME NEW t \in Workers, Unregister(t) PROVE PlacesInv'
  BY <1>6 DEF Unregister
<1>7. ASSUME NEW t \in Workers, Exit(t) PROVE PlacesInv'
  BY <1>7 DEF Exit
<1>8. ASSUME NEW t \in Workers, Sleep(t) PROVE PlacesInv'
  BY <1>8 DEF Sleep
<1>9. ASSUME NEW t \in Workers, WakeUp(t) PROVE PlacesInv'
  BY <1>9 DEF WakeUp
<1>10. ASSUME NEW t \in Workers, Abort(t) PROVE PlacesInv'
  BY <1>10 DEF Abort
<1>11. ASSUME NEW t \in Workers, Block(t) PROVE PlacesInv'
  BY <1>11 DEF Block
<1>12. ASSUME NEW t \in Workers, Unblock(t) PROVE PlacesInv'
  BY <1>12 DEF Unblock
<1>13. ASSUME NEW t \in Workers, Return(t) PROVE PlacesInv'
  BY <1>13 DEF Return
<1>14. ASSUME NEW t \in Workers \union {Main}, AllocThreadStaticData(t) PROVE PlacesInv'
  BY <1>14 DEF AllocThreadStaticData
<1>15. ASSUME NEW t \in Workers \union {Main}, WaitForPendingFinalizers(t) PROVE PlacesInv'
  BY <1>15 DEF WaitForPendingFinalizers
<1>16. ASSUME NEW t \in Workers \union {Main}, ResetCompleted(t) PROVE PlacesInv'
  BY <1>16 DEF ResetCompleted
<1>17. ASSUME NEW t \in Workers \union {Main}, AskForARound(t) PROVE PlacesInv'
  BY <1>17 DEF AskForARound, NotifyFinalizers
<1>18. ASSUME NEW t \in Workers \union {Main}, RoundIsOver(t) PROVE PlacesInv'
  BY <1>18 DEF RoundIsOver
<1>19. CASE Collect
  BY <1>19 DEF Collect, NotifyFinalizers
<1>20. CASE FinalizerLoops
  BY <1>20 DEF FinalizerLoops
<1>21. CASE FinalizerTakes
  BY <1>21 DEF FinalizerTakes
<1>22. CASE InvokeFinalizers
  BY <1>22 DEF InvokeFinalizers
<1>23. CASE FinalizersCompleted
  BY <1>23 DEF FinalizersCompleted
<1>24. CASE FreeThreadStaticData(Finalizer)
  BY <1>24 DEF FreeThreadStaticData
<1>25. CASE Unregister(Finalizer)
  BY <1>25 DEF Unregister
<1>26. CASE Exit(Finalizer)
  BY <1>26 DEF Exit
<1>27. CASE Shutdown
  BY <1>27 DEF Shutdown
<1>28. CASE CopyAttachedThreads
  BY <1>28 DEF CopyAttachedThreads, BlockNewThreads
<1>29. CASE BeginToJoin
  BY <1>29 DEF BeginToJoin
<1>30. CASE ClearAttachedThreads
  BY <1>30 DEF ClearAttachedThreads
<1>31. CASE StopFinalizer
  BY <1>31 DEF StopFinalizer
<1>32. CASE NotifyStop
  BY <1>32 DEF NotifyStop, AnnounceStop, NotifyFinalizers
<1>33. CASE JoinFinalizer
  BY <1>33 DEF JoinFinalizer
<1>34. CASE Uninitialize
  BY <1>34 DEF Uninitialize
<1>35. ASSUME NEW t \in Threads, QueueTermination(t) PROVE PlacesInv'
  BY <1>35 DEF QueueTermination
<1>36. ASSUME NEW t \in Threads, JoinSucceeds(t) PROVE PlacesInv'
  BY <1>36 DEF JoinSucceeds
<1>37. ASSUME NEW t \in Threads, JoinTimesOut(t) PROVE PlacesInv'
  BY <1>37 DEF JoinTimesOut
<1>38. CASE UNCHANGED vars
  BY <1>38 DEF vars
<1>. QED
  BY <1>1, <1>2, <1>3, <1>4, <1>5, <1>6, <1>7, <1>8, <1>9, <1>10, <1>11, <1>12, <1>13,
     <1>14, <1>15, <1>16, <1>17, <1>18, <1>19, <1>20, <1>21, <1>22, <1>23, <1>24, <1>25,
     <1>26, <1>27, <1>28, <1>29, <1>30, <1>31, <1>32, <1>33, <1>34, <1>35, <1>36, <1>37,
     <1>38 DEF Next, Enters, Leaves, Asks, FinalizerStep, MainStep

LEMMA SlotsStep == IInv /\ [Next]_vars => SlotsInv'
<1>. SUFFICES ASSUME IInv, [Next]_vars PROVE SlotsInv'
  OBVIOUS
<1>. USE WorkersAssumption, ThreadsAssumption, BoundsAssumption
         DEF IInv, TypeOK, SlotsInv, staticVars, abortVars, finalizerVars, Goes, At,
             Runs, Threads
<1>1. ASSUME NEW t \in Workers, Start(t) PROVE SlotsInv'
  BY <1>1 DEF Start
<1>2. ASSUME NEW t \in Workers, Register(t) PROVE SlotsInv'
  BY <1>2 DEF Register
<1>3. ASSUME NEW t \in Workers, RegisterThrows(t) PROVE SlotsInv'
  BY <1>3 DEF RegisterThrows
<1>4. ASSUME NEW t \in Workers, AdjustStaticData(t) PROVE SlotsInv'
  BY <1>4 DEF AdjustStaticData, Adjusted
<1>5. ASSUME NEW t \in Workers, FreeThreadStaticData(t) PROVE SlotsInv'
  BY <1>5 DEF FreeThreadStaticData
<1>6. ASSUME NEW t \in Workers, Unregister(t) PROVE SlotsInv'
  BY <1>6 DEF Unregister
<1>7. ASSUME NEW t \in Workers, Exit(t) PROVE SlotsInv'
  BY <1>7 DEF Exit
<1>8. ASSUME NEW t \in Workers, Sleep(t) PROVE SlotsInv'
  BY <1>8 DEF Sleep
<1>9. ASSUME NEW t \in Workers, WakeUp(t) PROVE SlotsInv'
  BY <1>9 DEF WakeUp
<1>10. ASSUME NEW t \in Workers, Abort(t) PROVE SlotsInv'
  BY <1>10 DEF Abort
<1>11. ASSUME NEW t \in Workers, Block(t) PROVE SlotsInv'
  BY <1>11 DEF Block
<1>12. ASSUME NEW t \in Workers, Unblock(t) PROVE SlotsInv'
  BY <1>12 DEF Unblock
<1>13. ASSUME NEW t \in Workers, Return(t) PROVE SlotsInv'
  BY <1>13 DEF Return
<1>14. ASSUME NEW t \in Workers \union {Main}, AllocThreadStaticData(t) PROVE SlotsInv'
  BY <1>14 DEF AllocThreadStaticData
<1>15. ASSUME NEW t \in Workers \union {Main}, WaitForPendingFinalizers(t) PROVE SlotsInv'
  BY <1>15 DEF WaitForPendingFinalizers
<1>16. ASSUME NEW t \in Workers \union {Main}, ResetCompleted(t) PROVE SlotsInv'
  BY <1>16 DEF ResetCompleted
<1>17. ASSUME NEW t \in Workers \union {Main}, AskForARound(t) PROVE SlotsInv'
  BY <1>17 DEF AskForARound, NotifyFinalizers
<1>18. ASSUME NEW t \in Workers \union {Main}, RoundIsOver(t) PROVE SlotsInv'
  BY <1>18 DEF RoundIsOver
<1>19. CASE Collect
  BY <1>19 DEF Collect, NotifyFinalizers
<1>20. CASE FinalizerLoops
  BY <1>20 DEF FinalizerLoops
<1>21. CASE FinalizerTakes
  BY <1>21 DEF FinalizerTakes
<1>22. CASE InvokeFinalizers
  BY <1>22 DEF InvokeFinalizers
<1>23. CASE FinalizersCompleted
  BY <1>23 DEF FinalizersCompleted
<1>24. CASE FreeThreadStaticData(Finalizer)
  BY <1>24 DEF FreeThreadStaticData
<1>25. CASE Unregister(Finalizer)
  BY <1>25 DEF Unregister
<1>26. CASE Exit(Finalizer)
  BY <1>26 DEF Exit
<1>27. CASE Shutdown
  BY <1>27 DEF Shutdown
<1>28. CASE CopyAttachedThreads
  BY <1>28 DEF CopyAttachedThreads, BlockNewThreads
<1>29. CASE BeginToJoin
  BY <1>29 DEF BeginToJoin
<1>30. CASE ClearAttachedThreads
  BY <1>30 DEF ClearAttachedThreads
<1>31. CASE StopFinalizer
  BY <1>31 DEF StopFinalizer
<1>32. CASE NotifyStop
  BY <1>32 DEF NotifyStop, AnnounceStop, NotifyFinalizers
<1>33. CASE JoinFinalizer
  BY <1>33 DEF JoinFinalizer
<1>34. CASE Uninitialize
  BY <1>34 DEF Uninitialize
<1>35. ASSUME NEW t \in Threads, QueueTermination(t) PROVE SlotsInv'
  BY <1>35 DEF QueueTermination
<1>36. ASSUME NEW t \in Threads, JoinSucceeds(t) PROVE SlotsInv'
  BY <1>36 DEF JoinSucceeds
<1>37. ASSUME NEW t \in Threads, JoinTimesOut(t) PROVE SlotsInv'
  BY <1>37 DEF JoinTimesOut
<1>38. CASE UNCHANGED vars
  BY <1>38 DEF vars
<1>. QED
  BY <1>1, <1>2, <1>3, <1>4, <1>5, <1>6, <1>7, <1>8, <1>9, <1>10, <1>11, <1>12, <1>13,
     <1>14, <1>15, <1>16, <1>17, <1>18, <1>19, <1>20, <1>21, <1>22, <1>23, <1>24, <1>25,
     <1>26, <1>27, <1>28, <1>29, <1>30, <1>31, <1>32, <1>33, <1>34, <1>35, <1>36, <1>37,
     <1>38 DEF Next, Enters, Leaves, Asks, FinalizerStep, MainStep

LEMMA ListStep == IInv /\ [Next]_vars => ListInv'
<1>. SUFFICES ASSUME IInv, [Next]_vars PROVE ListInv'
  OBVIOUS
<1>. USE WorkersAssumption, ThreadsAssumption, BoundsAssumption
         DEF IInv, TypeOK, PlacesInv, WorkerPlaces, MainPlaces, FinalizerPlaces,
             Abortion, Demolition, ListInv, staticVars, abortVars, finalizerVars, Goes,
             At, Runs, Threads
<1>1. ASSUME NEW t \in Workers, Start(t) PROVE ListInv'
  BY <1>1 DEF Start
<1>2. ASSUME NEW t \in Workers, Register(t) PROVE ListInv'
  BY <1>2 DEF Register
<1>3. ASSUME NEW t \in Workers, RegisterThrows(t) PROVE ListInv'
  BY <1>3 DEF RegisterThrows
<1>4. ASSUME NEW t \in Workers, AdjustStaticData(t) PROVE ListInv'
  BY <1>4 DEF AdjustStaticData, Adjusted
<1>5. ASSUME NEW t \in Workers, FreeThreadStaticData(t) PROVE ListInv'
  BY <1>5 DEF FreeThreadStaticData
<1>6. ASSUME NEW t \in Workers, Unregister(t) PROVE ListInv'
  BY <1>6 DEF Unregister
<1>7. ASSUME NEW t \in Workers, Exit(t) PROVE ListInv'
  BY <1>7 DEF Exit
<1>8. ASSUME NEW t \in Workers, Sleep(t) PROVE ListInv'
  BY <1>8 DEF Sleep
<1>9. ASSUME NEW t \in Workers, WakeUp(t) PROVE ListInv'
  BY <1>9 DEF WakeUp
<1>10. ASSUME NEW t \in Workers, Abort(t) PROVE ListInv'
  BY <1>10 DEF Abort
<1>11. ASSUME NEW t \in Workers, Block(t) PROVE ListInv'
  BY <1>11 DEF Block
<1>12. ASSUME NEW t \in Workers, Unblock(t) PROVE ListInv'
  BY <1>12 DEF Unblock
<1>13. ASSUME NEW t \in Workers, Return(t) PROVE ListInv'
  BY <1>13 DEF Return
<1>14. ASSUME NEW t \in Workers \union {Main}, AllocThreadStaticData(t) PROVE ListInv'
  BY <1>14 DEF AllocThreadStaticData
<1>15. ASSUME NEW t \in Workers \union {Main}, WaitForPendingFinalizers(t) PROVE ListInv'
  BY <1>15 DEF WaitForPendingFinalizers
<1>16. ASSUME NEW t \in Workers \union {Main}, ResetCompleted(t) PROVE ListInv'
  BY <1>16 DEF ResetCompleted
<1>17. ASSUME NEW t \in Workers \union {Main}, AskForARound(t) PROVE ListInv'
  BY <1>17 DEF AskForARound, NotifyFinalizers
<1>18. ASSUME NEW t \in Workers \union {Main}, RoundIsOver(t) PROVE ListInv'
  BY <1>18 DEF RoundIsOver
<1>19. CASE Collect
  BY <1>19 DEF Collect, NotifyFinalizers
<1>20. CASE FinalizerLoops
  BY <1>20 DEF FinalizerLoops
<1>21. CASE FinalizerTakes
  BY <1>21 DEF FinalizerTakes
<1>22. CASE InvokeFinalizers
  BY <1>22 DEF InvokeFinalizers
<1>23. CASE FinalizersCompleted
  BY <1>23 DEF FinalizersCompleted
<1>24. CASE FreeThreadStaticData(Finalizer)
  BY <1>24 DEF FreeThreadStaticData
<1>25. CASE Unregister(Finalizer)
  BY <1>25 DEF Unregister
<1>26. CASE Exit(Finalizer)
  BY <1>26 DEF Exit
<1>27. CASE Shutdown
  BY <1>27 DEF Shutdown
<1>28. CASE CopyAttachedThreads
  BY <1>28 DEF CopyAttachedThreads, BlockNewThreads
<1>29. CASE BeginToJoin
  BY <1>29 DEF BeginToJoin
<1>30. CASE ClearAttachedThreads
  BY <1>30 DEF ClearAttachedThreads
<1>31. CASE StopFinalizer
  BY <1>31 DEF StopFinalizer
<1>32. CASE NotifyStop
  BY <1>32 DEF NotifyStop, AnnounceStop, NotifyFinalizers
<1>33. CASE JoinFinalizer
  BY <1>33 DEF JoinFinalizer
<1>34. CASE Uninitialize
  BY <1>34 DEF Uninitialize
<1>35. ASSUME NEW t \in Threads, QueueTermination(t) PROVE ListInv'
  BY <1>35 DEF QueueTermination
<1>36. ASSUME NEW t \in Threads, JoinSucceeds(t) PROVE ListInv'
  BY <1>36 DEF JoinSucceeds
<1>37. ASSUME NEW t \in Threads, JoinTimesOut(t) PROVE ListInv'
  BY <1>37 DEF JoinTimesOut
<1>38. CASE UNCHANGED vars
  BY <1>38 DEF vars
<1>. QED
  BY <1>1, <1>2, <1>3, <1>4, <1>5, <1>6, <1>7, <1>8, <1>9, <1>10, <1>11, <1>12, <1>13,
     <1>14, <1>15, <1>16, <1>17, <1>18, <1>19, <1>20, <1>21, <1>22, <1>23, <1>24, <1>25,
     <1>26, <1>27, <1>28, <1>29, <1>30, <1>31, <1>32, <1>33, <1>34, <1>35, <1>36, <1>37,
     <1>38 DEF Next, Enters, Leaves, Asks, FinalizerStep, MainStep

LEMMA AbortStep == IInv /\ [Next]_vars => AbortInv'
<1>. SUFFICES ASSUME IInv, [Next]_vars PROVE AbortInv'
  OBVIOUS
<1>. USE WorkersAssumption, ThreadsAssumption, BoundsAssumption
         DEF IInv, TypeOK, PlacesInv, WorkerPlaces, MainPlaces, FinalizerPlaces,
             Abortion, Demolition, AbortInv, OnTheList, InManagedCode, ListInv,
             NobodySurvives, staticVars, abortVars, finalizerVars, Goes, At, Runs,
             Threads
<1>1. ASSUME NEW t \in Workers, Start(t) PROVE AbortInv'
  BY <1>1 DEF Start
<1>2. ASSUME NEW t \in Workers, Register(t) PROVE AbortInv'
  BY <1>2 DEF Register
<1>3. ASSUME NEW t \in Workers, RegisterThrows(t) PROVE AbortInv'
  BY <1>3 DEF RegisterThrows
<1>4. ASSUME NEW t \in Workers, AdjustStaticData(t) PROVE AbortInv'
  BY <1>4 DEF AdjustStaticData, Adjusted
<1>5. ASSUME NEW t \in Workers, FreeThreadStaticData(t) PROVE AbortInv'
  BY <1>5 DEF FreeThreadStaticData
<1>6. ASSUME NEW t \in Workers, Unregister(t) PROVE AbortInv'
  BY <1>6 DEF Unregister
<1>7. ASSUME NEW t \in Workers, Exit(t) PROVE AbortInv'
  BY <1>7 DEF Exit
<1>8. ASSUME NEW t \in Workers, Sleep(t) PROVE AbortInv'
  BY <1>8 DEF Sleep
<1>9. ASSUME NEW t \in Workers, WakeUp(t) PROVE AbortInv'
  BY <1>9 DEF WakeUp
<1>10. ASSUME NEW t \in Workers, Abort(t) PROVE AbortInv'
  BY <1>10 DEF Abort
<1>11. ASSUME NEW t \in Workers, Block(t) PROVE AbortInv'
  BY <1>11 DEF Block
<1>12. ASSUME NEW t \in Workers, Unblock(t) PROVE AbortInv'
  BY <1>12 DEF Unblock
<1>13. ASSUME NEW t \in Workers, Return(t) PROVE AbortInv'
  BY <1>13 DEF Return
<1>14. ASSUME NEW t \in Workers \union {Main}, AllocThreadStaticData(t) PROVE AbortInv'
  BY <1>14 DEF AllocThreadStaticData
<1>15. ASSUME NEW t \in Workers \union {Main}, WaitForPendingFinalizers(t) PROVE AbortInv'
  BY <1>15 DEF WaitForPendingFinalizers
<1>16. ASSUME NEW t \in Workers \union {Main}, ResetCompleted(t) PROVE AbortInv'
  BY <1>16 DEF ResetCompleted
<1>17. ASSUME NEW t \in Workers \union {Main}, AskForARound(t) PROVE AbortInv'
  BY <1>17 DEF AskForARound, NotifyFinalizers
<1>18. ASSUME NEW t \in Workers \union {Main}, RoundIsOver(t) PROVE AbortInv'
  BY <1>18 DEF RoundIsOver
<1>19. CASE Collect
  BY <1>19 DEF Collect, NotifyFinalizers
<1>20. CASE FinalizerLoops
  BY <1>20 DEF FinalizerLoops
<1>21. CASE FinalizerTakes
  BY <1>21 DEF FinalizerTakes
<1>22. CASE InvokeFinalizers
  BY <1>22 DEF InvokeFinalizers
<1>23. CASE FinalizersCompleted
  BY <1>23 DEF FinalizersCompleted
<1>24. CASE FreeThreadStaticData(Finalizer)
  BY <1>24 DEF FreeThreadStaticData
<1>25. CASE Unregister(Finalizer)
  BY <1>25 DEF Unregister
<1>26. CASE Exit(Finalizer)
  BY <1>26 DEF Exit
<1>27. CASE Shutdown
  BY <1>27 DEF Shutdown
<1>28. CASE CopyAttachedThreads
  BY <1>28 DEF CopyAttachedThreads, BlockNewThreads
<1>29. CASE BeginToJoin
  BY <1>29 DEF BeginToJoin
<1>30. CASE ClearAttachedThreads
  BY <1>30 DEF ClearAttachedThreads
<1>31. CASE StopFinalizer
  BY <1>31 DEF StopFinalizer
<1>32. CASE NotifyStop
  BY <1>32 DEF NotifyStop, AnnounceStop, NotifyFinalizers
<1>33. CASE JoinFinalizer
  BY <1>33 DEF JoinFinalizer
<1>34. CASE Uninitialize
  BY <1>34 DEF Uninitialize
<1>35. ASSUME NEW t \in Threads, QueueTermination(t) PROVE AbortInv'
  BY <1>35 DEF QueueTermination
<1>36. ASSUME NEW t \in Threads, JoinSucceeds(t) PROVE AbortInv'
  BY <1>36 DEF JoinSucceeds
<1>37. ASSUME NEW t \in Threads, JoinTimesOut(t) PROVE AbortInv'
  BY <1>37 DEF JoinTimesOut
<1>38. CASE UNCHANGED vars
  BY <1>38 DEF vars
<1>. QED
  BY <1>1, <1>2, <1>3, <1>4, <1>5, <1>6, <1>7, <1>8, <1>9, <1>10, <1>11, <1>12, <1>13,
     <1>14, <1>15, <1>16, <1>17, <1>18, <1>19, <1>20, <1>21, <1>22, <1>23, <1>24, <1>25,
     <1>26, <1>27, <1>28, <1>29, <1>30, <1>31, <1>32, <1>33, <1>34, <1>35, <1>36, <1>37,
     <1>38 DEF Next, Enters, Leaves, Asks, FinalizerStep, MainStep

LEMMA StaticsStep == IInv /\ [Next]_vars => StaticsAreReady'
<1>. SUFFICES ASSUME IInv, [Next]_vars PROVE StaticsAreReady'
  OBVIOUS
<1>. USE WorkersAssumption, ThreadsAssumption, BoundsAssumption
         DEF IInv, TypeOK, PlacesInv, WorkerPlaces, MainPlaces, FinalizerPlaces,
             Abortion, Demolition, SlotsInv, StaticsAreReady, InManagedCode, OnTheList,
             ListInv, NobodySurvives, staticVars, abortVars, finalizerVars, Goes, At,
             Runs, Threads
<1>1. ASSUME NEW t \in Workers, Start(t) PROVE StaticsAreReady'
  BY <1>1 DEF Start
<1>2. ASSUME NEW t \in Workers, Register(t) PROVE StaticsAreReady'
  BY <1>2 DEF Register
<1>3. ASSUME NEW t \in Workers, RegisterThrows(t) PROVE StaticsAreReady'
  BY <1>3 DEF RegisterThrows
<1>4. ASSUME NEW t \in Workers, AdjustStaticData(t) PROVE StaticsAreReady'
  BY <1>4 DEF AdjustStaticData, Adjusted
<1>5. ASSUME NEW t \in Workers, FreeThreadStaticData(t) PROVE StaticsAreReady'
  BY <1>5 DEF FreeThreadStaticData
<1>6. ASSUME NEW t \in Workers, Unregister(t) PROVE StaticsAreReady'
  BY <1>6 DEF Unregister
<1>7. ASSUME NEW t \in Workers, Exit(t) PROVE StaticsAreReady'
  BY <1>7 DEF Exit
<1>8. ASSUME NEW t \in Workers, Sleep(t) PROVE StaticsAreReady'
  BY <1>8 DEF Sleep
<1>9. ASSUME NEW t \in Workers, WakeUp(t) PROVE StaticsAreReady'
  BY <1>9 DEF WakeUp
<1>10. ASSUME NEW t \in Workers, Abort(t) PROVE StaticsAreReady'
  BY <1>10 DEF Abort
<1>11. ASSUME NEW t \in Workers, Block(t) PROVE StaticsAreReady'
  BY <1>11 DEF Block
<1>12. ASSUME NEW t \in Workers, Unblock(t) PROVE StaticsAreReady'
  BY <1>12 DEF Unblock
<1>13. ASSUME NEW t \in Workers, Return(t) PROVE StaticsAreReady'
  BY <1>13 DEF Return
<1>14. ASSUME NEW t \in Workers \union {Main}, AllocThreadStaticData(t) PROVE StaticsAreReady'
  BY <1>14 DEF AllocThreadStaticData
<1>15. ASSUME NEW t \in Workers \union {Main}, WaitForPendingFinalizers(t) PROVE StaticsAreReady'
  BY <1>15 DEF WaitForPendingFinalizers
<1>16. ASSUME NEW t \in Workers \union {Main}, ResetCompleted(t) PROVE StaticsAreReady'
  BY <1>16 DEF ResetCompleted
<1>17. ASSUME NEW t \in Workers \union {Main}, AskForARound(t) PROVE StaticsAreReady'
  BY <1>17 DEF AskForARound, NotifyFinalizers
<1>18. ASSUME NEW t \in Workers \union {Main}, RoundIsOver(t) PROVE StaticsAreReady'
  BY <1>18 DEF RoundIsOver
<1>19. CASE Collect
  BY <1>19 DEF Collect, NotifyFinalizers
<1>20. CASE FinalizerLoops
  BY <1>20 DEF FinalizerLoops
<1>21. CASE FinalizerTakes
  BY <1>21 DEF FinalizerTakes
<1>22. CASE InvokeFinalizers
  BY <1>22 DEF InvokeFinalizers
<1>23. CASE FinalizersCompleted
  BY <1>23 DEF FinalizersCompleted
<1>24. CASE FreeThreadStaticData(Finalizer)
  BY <1>24 DEF FreeThreadStaticData
<1>25. CASE Unregister(Finalizer)
  BY <1>25 DEF Unregister
<1>26. CASE Exit(Finalizer)
  BY <1>26 DEF Exit
<1>27. CASE Shutdown
  BY <1>27 DEF Shutdown
<1>28. CASE CopyAttachedThreads
  BY <1>28 DEF CopyAttachedThreads, BlockNewThreads
<1>29. CASE BeginToJoin
  BY <1>29 DEF BeginToJoin
<1>30. CASE ClearAttachedThreads
  BY <1>30 DEF ClearAttachedThreads
<1>31. CASE StopFinalizer
  BY <1>31 DEF StopFinalizer
<1>32. CASE NotifyStop
  BY <1>32 DEF NotifyStop, AnnounceStop, NotifyFinalizers
<1>33. CASE JoinFinalizer
  BY <1>33 DEF JoinFinalizer
<1>34. CASE Uninitialize
  BY <1>34 DEF Uninitialize
<1>35. ASSUME NEW t \in Threads, QueueTermination(t) PROVE StaticsAreReady'
  BY <1>35 DEF QueueTermination
<1>36. ASSUME NEW t \in Threads, JoinSucceeds(t) PROVE StaticsAreReady'
  BY <1>36 DEF JoinSucceeds
<1>37. ASSUME NEW t \in Threads, JoinTimesOut(t) PROVE StaticsAreReady'
  BY <1>37 DEF JoinTimesOut
<1>38. CASE UNCHANGED vars
  BY <1>38 DEF vars
<1>. QED
  BY <1>1, <1>2, <1>3, <1>4, <1>5, <1>6, <1>7, <1>8, <1>9, <1>10, <1>11, <1>12, <1>13,
     <1>14, <1>15, <1>16, <1>17, <1>18, <1>19, <1>20, <1>21, <1>22, <1>23, <1>24, <1>25,
     <1>26, <1>27, <1>28, <1>29, <1>30, <1>31, <1>32, <1>33, <1>34, <1>35, <1>36, <1>37,
     <1>38 DEF Next, Enters, Leaves, Asks, FinalizerStep, MainStep

LEMMA SurvivorsStep == IInv /\ [Next]_vars => NobodySurvives'
<1>. SUFFICES ASSUME IInv, [Next]_vars PROVE NobodySurvives'
  OBVIOUS
<1>. USE WorkersAssumption, ThreadsAssumption, BoundsAssumption
         DEF IInv, TypeOK, PlacesInv, WorkerPlaces, MainPlaces, FinalizerPlaces,
             Abortion, Demolition, AbortInv, OnTheList, InManagedCode, ListInv,
             NobodySurvives, staticVars, abortVars, finalizerVars, Goes, At, Runs,
             Threads
<1>1. ASSUME NEW t \in Workers, Start(t) PROVE NobodySurvives'
  BY <1>1 DEF Start
<1>2. ASSUME NEW t \in Workers, Register(t) PROVE NobodySurvives'
  BY <1>2 DEF Register
<1>3. ASSUME NEW t \in Workers, RegisterThrows(t) PROVE NobodySurvives'
  BY <1>3 DEF RegisterThrows
<1>4. ASSUME NEW t \in Workers, AdjustStaticData(t) PROVE NobodySurvives'
  BY <1>4 DEF AdjustStaticData, Adjusted
<1>5. ASSUME NEW t \in Workers, FreeThreadStaticData(t) PROVE NobodySurvives'
  BY <1>5 DEF FreeThreadStaticData
<1>6. ASSUME NEW t \in Workers, Unregister(t) PROVE NobodySurvives'
  BY <1>6 DEF Unregister
<1>7. ASSUME NEW t \in Workers, Exit(t) PROVE NobodySurvives'
  BY <1>7 DEF Exit
<1>8. ASSUME NEW t \in Workers, Sleep(t) PROVE NobodySurvives'
  BY <1>8 DEF Sleep
<1>9. ASSUME NEW t \in Workers, WakeUp(t) PROVE NobodySurvives'
  BY <1>9 DEF WakeUp
<1>10. ASSUME NEW t \in Workers, Abort(t) PROVE NobodySurvives'
  BY <1>10 DEF Abort
<1>11. ASSUME NEW t \in Workers, Block(t) PROVE NobodySurvives'
  BY <1>11 DEF Block
<1>12. ASSUME NEW t \in Workers, Unblock(t) PROVE NobodySurvives'
  BY <1>12 DEF Unblock
<1>13. ASSUME NEW t \in Workers, Return(t) PROVE NobodySurvives'
  BY <1>13 DEF Return
<1>14. ASSUME NEW t \in Workers \union {Main}, AllocThreadStaticData(t) PROVE NobodySurvives'
  BY <1>14 DEF AllocThreadStaticData
<1>15. ASSUME NEW t \in Workers \union {Main}, WaitForPendingFinalizers(t) PROVE NobodySurvives'
  BY <1>15 DEF WaitForPendingFinalizers
<1>16. ASSUME NEW t \in Workers \union {Main}, ResetCompleted(t) PROVE NobodySurvives'
  BY <1>16 DEF ResetCompleted
<1>17. ASSUME NEW t \in Workers \union {Main}, AskForARound(t) PROVE NobodySurvives'
  BY <1>17 DEF AskForARound, NotifyFinalizers
<1>18. ASSUME NEW t \in Workers \union {Main}, RoundIsOver(t) PROVE NobodySurvives'
  BY <1>18 DEF RoundIsOver
<1>19. CASE Collect
  BY <1>19 DEF Collect, NotifyFinalizers
<1>20. CASE FinalizerLoops
  BY <1>20 DEF FinalizerLoops
<1>21. CASE FinalizerTakes
  BY <1>21 DEF FinalizerTakes
<1>22. CASE InvokeFinalizers
  BY <1>22 DEF InvokeFinalizers
<1>23. CASE FinalizersCompleted
  BY <1>23 DEF FinalizersCompleted
<1>24. CASE FreeThreadStaticData(Finalizer)
  BY <1>24 DEF FreeThreadStaticData
<1>25. CASE Unregister(Finalizer)
  BY <1>25 DEF Unregister
<1>26. CASE Exit(Finalizer)
  BY <1>26 DEF Exit
<1>27. CASE Shutdown
  BY <1>27 DEF Shutdown
<1>28. CASE CopyAttachedThreads
  BY <1>28 DEF CopyAttachedThreads, BlockNewThreads
<1>29. CASE BeginToJoin
  BY <1>29 DEF BeginToJoin
<1>30. CASE ClearAttachedThreads
  BY <1>30 DEF ClearAttachedThreads
<1>31. CASE StopFinalizer
  BY <1>31 DEF StopFinalizer
<1>32. CASE NotifyStop
  BY <1>32 DEF NotifyStop, AnnounceStop, NotifyFinalizers
<1>33. CASE JoinFinalizer
  BY <1>33 DEF JoinFinalizer
<1>34. CASE Uninitialize
  BY <1>34 DEF Uninitialize
<1>35. ASSUME NEW t \in Threads, QueueTermination(t) PROVE NobodySurvives'
  BY <1>35 DEF QueueTermination
<1>36. ASSUME NEW t \in Threads, JoinSucceeds(t) PROVE NobodySurvives'
  BY <1>36 DEF JoinSucceeds
<1>37. ASSUME NEW t \in Threads, JoinTimesOut(t) PROVE NobodySurvives'
  BY <1>37 DEF JoinTimesOut
<1>38. CASE UNCHANGED vars
  BY <1>38 DEF vars
<1>. QED
  BY <1>1, <1>2, <1>3, <1>4, <1>5, <1>6, <1>7, <1>8, <1>9, <1>10, <1>11, <1>12, <1>13,
     <1>14, <1>15, <1>16, <1>17, <1>18, <1>19, <1>20, <1>21, <1>22, <1>23, <1>24, <1>25,
     <1>26, <1>27, <1>28, <1>29, <1>30, <1>31, <1>32, <1>33, <1>34, <1>35, <1>36, <1>37,
     <1>38 DEF Next, Enters, Leaves, Asks, FinalizerStep, MainStep

LEMMA RoundStep == IInv /\ [Next]_vars => WaiterIsOwedARound'
<1>. SUFFICES ASSUME IInv, [Next]_vars PROVE WaiterIsOwedARound'
  OBVIOUS
<1>. USE WorkersAssumption, ThreadsAssumption, BoundsAssumption
         DEF IInv, TypeOK, PlacesInv, WorkerPlaces, MainPlaces, FinalizerPlaces,
             Abortion, Demolition, WaiterIsOwedARound, staticVars, abortVars,
             finalizerVars, Goes, At, Runs, Threads
<1>1. ASSUME NEW t \in Workers, Start(t) PROVE WaiterIsOwedARound'
  BY <1>1 DEF Start
<1>2. ASSUME NEW t \in Workers, Register(t) PROVE WaiterIsOwedARound'
  BY <1>2 DEF Register
<1>3. ASSUME NEW t \in Workers, RegisterThrows(t) PROVE WaiterIsOwedARound'
  BY <1>3 DEF RegisterThrows
<1>4. ASSUME NEW t \in Workers, AdjustStaticData(t) PROVE WaiterIsOwedARound'
  BY <1>4 DEF AdjustStaticData, Adjusted
<1>5. ASSUME NEW t \in Workers, FreeThreadStaticData(t) PROVE WaiterIsOwedARound'
  BY <1>5 DEF FreeThreadStaticData
<1>6. ASSUME NEW t \in Workers, Unregister(t) PROVE WaiterIsOwedARound'
  BY <1>6 DEF Unregister
<1>7. ASSUME NEW t \in Workers, Exit(t) PROVE WaiterIsOwedARound'
  BY <1>7 DEF Exit
<1>8. ASSUME NEW t \in Workers, Sleep(t) PROVE WaiterIsOwedARound'
  BY <1>8 DEF Sleep
<1>9. ASSUME NEW t \in Workers, WakeUp(t) PROVE WaiterIsOwedARound'
  BY <1>9 DEF WakeUp
<1>10. ASSUME NEW t \in Workers, Abort(t) PROVE WaiterIsOwedARound'
  BY <1>10 DEF Abort
<1>11. ASSUME NEW t \in Workers, Block(t) PROVE WaiterIsOwedARound'
  BY <1>11 DEF Block
<1>12. ASSUME NEW t \in Workers, Unblock(t) PROVE WaiterIsOwedARound'
  BY <1>12 DEF Unblock
<1>13. ASSUME NEW t \in Workers, Return(t) PROVE WaiterIsOwedARound'
  BY <1>13 DEF Return
<1>14. ASSUME NEW t \in Workers \union {Main}, AllocThreadStaticData(t) PROVE WaiterIsOwedARound'
  BY <1>14 DEF AllocThreadStaticData
<1>15. ASSUME NEW t \in Workers \union {Main}, WaitForPendingFinalizers(t) PROVE WaiterIsOwedARound'
  BY <1>15 DEF WaitForPendingFinalizers
<1>16. ASSUME NEW t \in Workers \union {Main}, ResetCompleted(t) PROVE WaiterIsOwedARound'
  BY <1>16 DEF ResetCompleted
<1>17. ASSUME NEW t \in Workers \union {Main}, AskForARound(t) PROVE WaiterIsOwedARound'
  BY <1>17 DEF AskForARound, NotifyFinalizers
<1>18. ASSUME NEW t \in Workers \union {Main}, RoundIsOver(t) PROVE WaiterIsOwedARound'
  BY <1>18 DEF RoundIsOver
<1>19. CASE Collect
  BY <1>19 DEF Collect, NotifyFinalizers
<1>20. CASE FinalizerLoops
  BY <1>20 DEF FinalizerLoops
<1>21. CASE FinalizerTakes
  BY <1>21 DEF FinalizerTakes
<1>22. CASE InvokeFinalizers
  BY <1>22 DEF InvokeFinalizers
<1>23. CASE FinalizersCompleted
  BY <1>23 DEF FinalizersCompleted
<1>24. CASE FreeThreadStaticData(Finalizer)
  BY <1>24 DEF FreeThreadStaticData
<1>25. CASE Unregister(Finalizer)
  BY <1>25 DEF Unregister
<1>26. CASE Exit(Finalizer)
  BY <1>26 DEF Exit
<1>27. CASE Shutdown
  BY <1>27 DEF Shutdown
<1>28. CASE CopyAttachedThreads
  BY <1>28 DEF CopyAttachedThreads, BlockNewThreads
<1>29. CASE BeginToJoin
  BY <1>29 DEF BeginToJoin
<1>30. CASE ClearAttachedThreads
  BY <1>30 DEF ClearAttachedThreads
<1>31. CASE StopFinalizer
  BY <1>31 DEF StopFinalizer
<1>32. CASE NotifyStop
  BY <1>32 DEF NotifyStop, AnnounceStop, NotifyFinalizers
<1>33. CASE JoinFinalizer
  BY <1>33 DEF JoinFinalizer
<1>34. CASE Uninitialize
  BY <1>34 DEF Uninitialize
<1>35. ASSUME NEW t \in Threads, QueueTermination(t) PROVE WaiterIsOwedARound'
  BY <1>35 DEF QueueTermination
<1>36. ASSUME NEW t \in Threads, JoinSucceeds(t) PROVE WaiterIsOwedARound'
  BY <1>36 DEF JoinSucceeds
<1>37. ASSUME NEW t \in Threads, JoinTimesOut(t) PROVE WaiterIsOwedARound'
  BY <1>37 DEF JoinTimesOut
<1>38. CASE UNCHANGED vars
  BY <1>38 DEF vars
<1>. QED
  BY <1>1, <1>2, <1>3, <1>4, <1>5, <1>6, <1>7, <1>8, <1>9, <1>10, <1>11, <1>12, <1>13,
     <1>14, <1>15, <1>16, <1>17, <1>18, <1>19, <1>20, <1>21, <1>22, <1>23, <1>24, <1>25,
     <1>26, <1>27, <1>28, <1>29, <1>30, <1>31, <1>32, <1>33, <1>34, <1>35, <1>36, <1>37,
     <1>38 DEF Next, Enters, Leaves, Asks, FinalizerStep, MainStep

LEMMA IInvStep == IInv /\ [Next]_vars => IInv'
  BY TypeStep, PlacesStep, SlotsStep, ListStep, AbortStep, StaticsStep, SurvivorsStep,
     RoundStep DEF IInv

LEMMA IInvAlways == Spec => []IInv
  BY IInvInit, IInvStep, PTL DEF Spec

(* The state of the threads and of the finalizer's handshake is well formed *)
(* (vm/Thread.cpp, gc/GarbageCollector.cpp).                                *)
THEOREM TypeCorrect == Spec => []TypeOK
<1>1. IInv => TypeOK
  BY DEF IInv
<1>. QED  BY <1>1, IInvAlways, PTL

(* No thread in managed code meets a thread static without memory, however  *)
(* the making of slots and the start of threads interleave (412-440).       *)
THEOREM StaticsAlwaysReady == Spec => []StaticsAreReady
<1>1. IInv => StaticsAreReady
  BY DEF IInv
<1>. QED  BY <1>1, IInvAlways, PTL

(* After AbortAllThreads no worker runs, and nobody misses itself on the    *)
(* list (262-341, 492-505).                                                 *)
THEOREM NobodyEverSurvives == Spec => []NobodySurvives
<1>1. IInv => NobodySurvives
  BY DEF IInv
<1>. QED  BY <1>1, IInvAlways, PTL

(* Nobody who waits for the finalizers is forgotten (94-111, 227-243).      *)
THEOREM RoundAlwaysOwed == Spec => []WaiterIsOwedARound
<1>1. IInv => WaiterIsOwedARound
  BY DEF IInv
<1>. QED  BY <1>1, IInvAlways, PTL
=============================================================================
