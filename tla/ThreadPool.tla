----------------------------- MODULE ThreadPool -----------------------------
(***************************************************************************)
(* The managed thread pool of mono/ThreadPool: worker_request and the      *)
(* heuristic (threadpool-ms.cpp), the workers (ThreadPoolWorkerThread.cpp) *)
(* and the thread that watches over both (ThreadPoolMonitorThread.cpp).    *)
(* Sections under domains_lock and active_threads_lock, and the updates of *)
(* the 64-bit counter word, are single steps; worker_creation_lock is held *)
(* across two.  There is one domain, the only one il2cpp has.              *)
(***************************************************************************)
EXTENDS Integers, FiniteSets

CONSTANTS
  Workers,        \* the native threads that can be pool workers
  Requesters,     \* the threads that queue work (worker_request)
  Cpus,           \* GetProcessorCount
  MinSettings,    \* the worker limits the program passes to SetMinThreads
  MaxSettings,    \* ... and to SetMaxThreads
  MaxChanges,     \* bound: the calls of either
  MaxCount,       \* bound: max_working counts no further, and Far is beyond it
  MaxPerSecond,   \* WORKER_CREATION_MAX_PER_SEC
  MonitorTries,   \* the attempts of one starvation round, 5 in the code
  MaxRequests,    \* bound: requests filed in a behaviour
  Monitor,        \* the monitor thread
  Main            \* the thread that runs threadpool_ms_cleanup

Far == MaxCount + 1         \* a limit that max_working never reaches

ASSUME LimitAssumption == /\ Cpus \in 1..MaxCount
                          /\ MaxCount \in Nat
                          /\ MaxChanges \in Nat
                          /\ MinSettings \cup MaxSettings \subseteq 1..Far

ASSUME BoundAssumption == /\ MaxPerSecond \in Nat \ {0}
                          /\ MonitorTries \in Nat
                          /\ MaxRequests \in Nat

ASSUME ThreadAssumption == /\ IsFiniteSet(Workers)
                           /\ Workers \cap Requesters = {}
                           /\ Monitor \notin Workers \cup Requesters
                           /\ Main \notin Workers \cup Requesters \cup {Monitor}

VARIABLES
  pc,             \* where each thread is
  max_working, active, working, parked,  \* ThreadPool.counters, one atomic word
  limitMin,       \* limit_worker_min
  limitMax,       \* limit_worker_max
  changes,        \* calls that changed them, for the bound
  outstanding,    \* ThreadPoolDomain.outstanding_request
  jobs,           \* Il2CppDomain.threadpool_jobs
  parkedCount,    \* parked_threads_count
  workingThreads, \* working_threads
  retire,         \* WorkerThreadStateHolder.retire
  timedOut,       \* the workers whose TimedWait ran out
  status,         \* s_MonitorStatus
  tries,          \* i in the starvation loop of monitor_thread
  creator,        \* the holder of worker_creation_lock, or Main for nobody
  created,        \* worker_creation_current_count
  suspended,      \* suspended by the debugger
  shuttingDown,   \* Runtime::IsShuttingDown
  killing,        \* the workers cleanup still has to stop
  filed,          \* requests filed so far, for the bound
  given           \* the last request was given up before the monitor was ensured

vars == <<pc, max_working, active, working, parked, limitMin, limitMax, changes,
          outstanding, jobs, parkedCount, workingThreads, retire, timedOut, status,
          tries, creator, created, suspended, shuttingDown, killing, filed, given>>

counters    == <<max_working, active, working, parked>>
limitVars   == <<limitMin, limitMax, changes>>
poolVars    == <<counters, creator, created>>
requestVars == <<outstanding, jobs, filed>>
parkVars    == <<parkedCount, workingThreads, retire, timedOut>>
monitorVars == <<status, tries>>
worldVars   == <<limitVars, suspended, shuttingDown, killing, given>>

Threads == Workers \cup Requesters \cup {Monitor, Main}
Nobody  == Main     \* cleanup never creates a worker

WorkerPcs    == {"none", "new", "loop", "job", "adjust", "idle", "parking",
                 "parked", "woken", "counting", "leaving", "gone"}
RequesterPcs == {"out", "ensure", "ask", "claim", "start", "unpark", "create",
                 "reserved"}
MonitorPcs   == {"none", "asleep", "starved", "unpark", "create", "reserved",
                 "again", "check", "decide", "quit"}
MainPcs      == {"run", "await", "kill", "down"}

(***************************************************************************)
(* The workers that live, those counted as working, those counted as       *)
(* parked and those inside the section worker_park counts or in a callback. *)
(***************************************************************************)
WorkersAt(labels) == {w \in Workers : pc[w] \in labels}
Live        == WorkersAt(WorkerPcs \ {"none"})
Parked      == WorkersAt({"parking", "parked", "woken", "counting"})
Working     == Live \ Parked
InPark      == WorkersAt({"parked", "woken"})
InJob       == WorkersAt({"job", "adjust"})
Reserved    == {t \in Requesters \cup {Monitor} : pc[t] = "reserved"}

Goto(t, label) == pc' = [pc EXCEPT ![t] = label]

CountActive(by) == /\ active' = active + by /\ working' = working + by
                   /\ UNCHANGED <<max_working, parked>>

CountParked(by) == /\ parked' = parked + by /\ working' = working - by
                   /\ UNCHANGED <<max_working, active>>

Init ==
  /\ pc = [t \in Threads |-> IF t \in Requesters THEN "out"
                             ELSE IF t = Main THEN "run" ELSE "none"]
  /\ limitMin = Cpus /\ limitMax = Far /\ changes = 0
  /\ max_working = limitMin /\ active = 0 /\ working = 0 /\ parked = 0
  /\ outstanding = 0 /\ jobs = 0 /\ filed = 0
  /\ parkedCount = 0 /\ workingThreads = {} /\ retire = {} /\ timedOut = {}
  /\ status = "NOT_RUNNING" /\ tries = 0
  /\ creator = Nobody /\ created = 0
  /\ suspended = FALSE /\ shuttingDown = FALSE
  /\ killing = {} /\ given = FALSE

-----------------------------------------------------------------------------
(***************************************************************************)
(* worker_request.                                                         *)
(***************************************************************************)
Request(r) ==
  /\ pc[r] = "out" /\ ~shuttingDown /\ filed < MaxRequests
  /\ outstanding' = outstanding + 1 /\ filed' = filed + 1
  /\ Goto(r, "ensure")
  /\ UNCHANGED <<jobs, poolVars, parkVars, monitorVars, worldVars>>

RequestSuspended(r) ==      \* returns false, the request stays
  /\ pc[r] = "ensure" /\ suspended
  /\ Goto(r, "out") /\ given' = TRUE
  /\ UNCHANGED <<poolVars, requestVars, parkVars, monitorVars, limitVars,
                 suspended, shuttingDown, killing>>

(***************************************************************************)
(* monitor_ensure_running: a loop on the status word.  A CompareExchange   *)
(* that fails changes nothing and the loop goes round.                     *)
(***************************************************************************)
EnsureRunning(r) ==
  /\ pc[r] = "ask" \/ (pc[r] = "ensure" /\ ~suspended)
  /\ \/ /\ status = "REQUESTED"
        /\ Goto(r, "unpark") /\ given' = FALSE /\ UNCHANGED status
     \/ /\ status = "WAITING_FOR_REQUEST"
        /\ status' = "REQUESTED" /\ Goto(r, "ask") /\ UNCHANGED given
     \/ /\ status = "NOT_RUNNING" /\ shuttingDown
        /\ Goto(r, "unpark") /\ given' = TRUE /\ UNCHANGED status
     \/ /\ status = "NOT_RUNNING" /\ ~shuttingDown
        /\ Goto(r, "claim") /\ UNCHANGED <<status, given>>
  /\ UNCHANGED <<poolVars, requestVars, parkVars, tries, limitVars,
                 suspended, shuttingDown, killing>>

Claim(r) ==
  /\ pc[r] = "claim"
  /\ IF status = "NOT_RUNNING" THEN status' = "REQUESTED" /\ Goto(r, "start")
                                ELSE UNCHANGED status /\ Goto(r, "ask")
  /\ UNCHANGED <<poolVars, requestVars, parkVars, tries, worldVars>>

MonitorStarts(r) ==         \* CreateInternal(monitor_thread)
  /\ pc[r] = "start"
  /\ pc' = [pc EXCEPT ![r] = "unpark", ![Monitor] = "asleep"]
  /\ given' = FALSE
  /\ UNCHANGED <<poolVars, requestVars, parkVars, monitorVars, limitVars,
                 suspended, shuttingDown, killing>>

MonitorStartFails(r) ==
  /\ pc[r] = "start"
  /\ status' = "NOT_RUNNING" /\ given' = TRUE
  /\ Goto(r, "unpark")
  /\ UNCHANGED <<poolVars, requestVars, parkVars, tries, limitVars,
                 suspended, shuttingDown, killing>>

(***************************************************************************)
(* worker_try_unpark: Notify(1) wakes one of the threads in TimedWait, and *)
(* counts on it even when the only one left has already timed out.         *)
(***************************************************************************)
After(t) == IF t = Monitor THEN "check" ELSE "out"

NotifyNobody(t) ==                                                             \* mutant
  /\ pc[t] = "unpark"
  /\ Goto(t, IF parkedCount = 0 THEN "create" ELSE After(t))
  /\ UNCHANGED <<poolVars, requestVars, parkVars, monitorVars, worldVars>>

Unpark(t) ==
  /\ pc[t] = "unpark"
  /\ IF parkedCount = 0 THEN Goto(t, "create")
     ELSE \/ WorkersAt({"parked"}) = {} /\ Goto(t, After(t))
          \/ \E w \in WorkersAt({"parked"}) :
               pc' = [pc EXCEPT ![t] = After(t), ![w] = "woken"]
  /\ UNCHANGED <<poolVars, requestVars, parkVars, monitorVars, worldVars>>

(***************************************************************************)
(* worker_try_create: under worker_creation_lock a place is reserved in    *)
(* the counters, then the native thread is made or the place given back.   *)
(***************************************************************************)
CannotReserve == created = MaxPerSecond \/ working >= max_working

Denied(t) == IF t = Monitor THEN "again" ELSE "out"

CreateDenied(t) ==
  /\ pc[t] = "create" /\ creator = Nobody /\ CannotReserve
  /\ Goto(t, Denied(t))
  /\ UNCHANGED <<poolVars, requestVars, parkVars, monitorVars, worldVars>>

Reserve(t) ==
  /\ pc[t] = "create" /\ creator = Nobody /\ ~CannotReserve
  /\ creator' = t /\ CountActive(1)
  /\ Goto(t, "reserved")
  /\ UNCHANGED <<created, requestVars, parkVars, monitorVars, worldVars>>

Create(t) ==
  /\ pc[t] = "reserved"
  /\ \E w \in WorkersAt({"none"}) :
       pc' = [pc EXCEPT ![t] = After(t), ![w] = "new"]
  /\ created' = created + 1 /\ creator' = Nobody
  /\ UNCHANGED <<counters, requestVars, parkVars, monitorVars, worldVars>>

RollbackForgotten(t) == UNCHANGED counters                                     \* mutant

Rollback(t) == CountActive(-1)

CreateFails(t) ==
  /\ pc[t] = "reserved"
  /\ Rollback(t) /\ creator' = Nobody
  /\ Goto(t, Denied(t))
  /\ UNCHANGED <<created, requestVars, parkVars, monitorVars, worldVars>>
-----------------------------------------------------------------------------
(***************************************************************************)
(* worker_thread: the scopes of its state holders, one action per section. *)
(***************************************************************************)
Begin(w) ==
  /\ pc[w] = "new"
  /\ workingThreads' = workingThreads \cup {w}
  /\ Goto(w, "loop")
  /\ UNCHANGED <<poolVars, requestVars, parkedCount, retire, timedOut, monitorVars, worldVars>>

TakeRequest(w) ==           \* domain_get_next finds the domain
  /\ pc[w] = "loop" /\ ~shuttingDown /\ w \notin retire /\ outstanding > 0
  /\ outstanding' = outstanding - 1 /\ jobs' = jobs + 1
  /\ Goto(w, "job")
  /\ UNCHANGED <<filed, poolVars, parkVars, monitorVars, worldVars>>

FindNothing(w) ==
  /\ pc[w] = "loop" /\ ~shuttingDown
  /\ w \in retire \/ outstanding = 0
  /\ Goto(w, "idle")
  /\ UNCHANGED <<poolVars, requestVars, parkVars, monitorVars, worldVars>>

StopLooping(w) ==
  /\ pc[w] = "loop" /\ shuttingDown
  /\ Goto(w, "leaving")
  /\ UNCHANGED <<poolVars, requestVars, parkVars, monitorVars, worldVars>>

GiveUp(w) ==                \* WorkerThreadParkStateHolder
  /\ pc[w] = "idle"
  /\ CountParked(1)
  /\ Goto(w, "parking")
  /\ UNCHANGED <<creator, created, requestVars, parkVars, monitorVars, worldVars>>

ParkAnyway(w) ==                                                               \* mutant
  /\ pc[w] = "parking"
  /\ parkedCount' = parkedCount + 1
  /\ workingThreads' = workingThreads \ {w}
  /\ Goto(w, "parked")
  /\ UNCHANGED <<poolVars, requestVars, retire, timedOut, monitorVars, worldVars>>

Park(w) ==                  \* worker_park, up to the wait
  /\ pc[w] = "parking"
  /\ IF shuttingDown
     THEN Goto(w, "counting") /\ UNCHANGED <<parkedCount, workingThreads>>
     ELSE /\ parkedCount' = parkedCount + 1
          /\ workingThreads' = workingThreads \ {w}
          /\ Goto(w, "parked")
  /\ UNCHANGED <<poolVars, requestVars, retire, timedOut, monitorVars, worldVars>>

ParkTimeout(w) ==
  /\ pc[w] = "parked"
  /\ timedOut' = timedOut \cup {w}
  /\ Goto(w, "woken")
  /\ UNCHANGED <<poolVars, requestVars, parkedCount, workingThreads, retire,
                 monitorVars, worldVars>>

NotifiedUncounted(w) == IF w \in timedOut THEN parkedCount - 1 ELSE parkedCount \* mutant

Unparked(w) == parkedCount - 1

Wake(w) ==                  \* the lock is back: the rest of worker_park
  /\ pc[w] = "woken"
  /\ parkedCount' = Unparked(w)
  /\ workingThreads' = workingThreads \cup {w}
  /\ Goto(w, "counting")
  /\ UNCHANGED <<poolVars, requestVars, retire, timedOut, monitorVars, worldVars>>

GoOn(w) ==
  /\ pc[w] = "counting"
  /\ CountParked(-1)
  /\ retire' = retire \ {w} /\ timedOut' = timedOut \ {w}
  /\ Goto(w, IF w \in timedOut THEN "leaving" ELSE "loop")
  /\ UNCHANGED <<creator, created, requestVars, parkedCount, workingThreads,
                 monitorVars, worldVars>>

(***************************************************************************)
(* The callback.  NotifyWorkItemComplete and ...Progress note the time and *)
(* may let the heuristic, one thread at a time, choose another max_working *)
(* within the limits; the callback answers false, and the worker retires,  *)
(* when the runtime shuts down or more threads work than should.           *)
(***************************************************************************)
Progress(w) ==              \* when the heuristic lets it adjust
  /\ pc[w] = "job" /\ working <= max_working
  /\ WorkersAt({"adjust"}) = {}
  /\ Goto(w, "adjust")
  /\ UNCHANGED <<poolVars, requestVars, parkVars, monitorVars, worldVars>>

ClampedAbove(n) == IF n > limitMax THEN limitMax ELSE n                        \* mutant

Clamped(n) == IF n < limitMin THEN limitMin ELSE IF n > limitMax THEN limitMax ELSE n

Capped(n) == IF n > MaxCount THEN MaxCount ELSE n   \* bound: above every count of workers

HeuristicAdjust(w) ==       \* too few completions: as it was; else CLAMP
  /\ pc[w] = "adjust"
  /\ \/ UNCHANGED max_working
     \/ \E n \in 0..Far : max_working' = Capped(Clamped(n))
  /\ UNCHANGED <<active, working, parked>>
  /\ Goto(w, "job")
  /\ UNCHANGED <<creator, created, requestVars, parkVars, monitorVars, worldVars>>

JobDone(w, label) ==
  /\ pc[w] = "job"
  /\ jobs' = jobs - 1
  /\ Goto(w, label)
  /\ UNCHANGED <<outstanding, filed, poolVars, parkedCount, workingThreads, timedOut,
                 monitorVars, worldVars>>

JobReturns(w) == JobDone(w, "loop") /\ UNCHANGED retire

JobRetires(w) ==
  /\ (shuttingDown \/ working > max_working)
  /\ JobDone(w, "loop") /\ retire' = retire \cup {w}

JobThrows(w) == JobDone(w, "leaving") /\ UNCHANGED retire

Leave(w) ==                 \* ~WorkerThreadStateHolder
  /\ pc[w] = "leaving"
  /\ workingThreads' = workingThreads \ {w}
  /\ Goto(w, "gone")
  /\ UNCHANGED <<poolVars, requestVars, parkedCount, retire, timedOut, monitorVars, worldVars>>

CountGone(w) ==
  /\ pc[w] = "gone"
  /\ CountActive(-1)
  /\ retire' = retire \ {w}
  /\ Goto(w, "none")
  /\ UNCHANGED <<creator, created, requestVars, parkedCount, workingThreads, timedOut,
                 monitorVars, worldVars>>

-----------------------------------------------------------------------------
(***************************************************************************)
(* monitor_thread and monitor_should_keep_running.                         *)
(***************************************************************************)
MonitorGoto(label) ==
  /\ Goto(Monitor, label)
  /\ UNCHANGED <<requestVars, parkVars, creator, created, worldVars>>

MonitorRests ==             \* nothing to do, or somebody dequeued a request lately
  /\ pc[Monitor] = "asleep"
  /\ MonitorGoto("check")
  /\ UNCHANGED <<counters, monitorVars>>

MonitorStarves ==
  /\ pc[Monitor] = "asleep"
  /\ ~suspended /\ ~shuttingDown /\ outstanding > 0
  /\ MonitorGoto("starved")
  /\ UNCHANGED <<counters, monitorVars>>

MonitorRaises ==
  /\ pc[Monitor] = "starved"
  /\ IF max_working >= limitMax
     THEN MonitorGoto("check") /\ UNCHANGED counters
     ELSE /\ max_working' = Capped(max_working + 1) /\ UNCHANGED <<active, working, parked>>
          /\ MonitorGoto("again")
  /\ UNCHANGED monitorVars

MonitorTriesAgain ==
  /\ pc[Monitor] = "again"
  /\ IF shuttingDown \/ tries = MonitorTries
     THEN MonitorGoto("check") /\ UNCHANGED tries
     ELSE MonitorGoto("unpark") /\ tries' = tries + 1
  /\ UNCHANGED <<counters, status>>

MonitorChecks ==            \* Exchange of the status word
  /\ pc[Monitor] = "check"
  /\ status' = "WAITING_FOR_REQUEST" /\ tries' = 0
  /\ MonitorGoto(IF status = "WAITING_FOR_REQUEST" THEN "decide" ELSE "asleep")
  /\ UNCHANGED counters

MayAlwaysQuit == TRUE                                                          \* mutant
ShutdownUnseen == outstanding = 0                                              \* mutant

NothingToWatch == shuttingDown \/ outstanding = 0

MonitorDecides ==           \* without a request it may still serve its minimal lifetime
  /\ pc[Monitor] = "decide"
  /\ \/ ~shuttingDown /\ MonitorGoto("asleep")
     \/ NothingToWatch /\ MonitorGoto("quit")
  /\ UNCHANGED <<counters, monitorVars>>

MonitorQuitsBlindly ==                                                         \* mutant
  /\ pc[Monitor] = "quit"
  /\ status' = "NOT_RUNNING" /\ MonitorGoto("none")
  /\ UNCHANGED <<counters, tries>>

MonitorQuits ==             \* CompareExchange WAITING_FOR_REQUEST -> NOT_RUNNING
  /\ pc[Monitor] = "quit"
  /\ IF status = "WAITING_FOR_REQUEST"
     THEN status' = "NOT_RUNNING" /\ MonitorGoto("none")
     ELSE UNCHANGED status /\ MonitorGoto("asleep")
  /\ UNCHANGED <<counters, tries>>

-----------------------------------------------------------------------------
(***************************************************************************)
(* Runtime::Shutdown as the pool sees it: shutting_down, then cleanup.     *)
(* worker_kill waits for the thread to exit.                               *)
(***************************************************************************)
MainStep(from, to) ==
  /\ pc[Main] = from /\ Goto(Main, to)
  /\ UNCHANGED <<poolVars, requestVars, parkVars, monitorVars, limitVars,
                 suspended, given>>

Shutdown == MainStep("run", "await") /\ shuttingDown' = TRUE /\ UNCHANGED killing

CleanupKill ==
  /\ status = "NOT_RUNNING" /\ killing' = workingThreads
  /\ MainStep("await", "kill") /\ UNCHANGED shuttingDown

WorkerKilled(w) ==
  /\ w \in killing /\ pc[w] = "none" /\ killing' = killing \ {w}
  /\ MainStep("kill", "kill") /\ UNCHANGED shuttingDown

CleanupNotify ==            \* parked_threads_cond.NotifyAll
  /\ pc[Main] = "kill" /\ killing = {}
  /\ pc' = [t \in Threads |-> IF t = Main THEN "down"
                               ELSE IF t \in WorkersAt({"parked"}) THEN "woken" ELSE pc[t]]
  /\ UNCHANGED <<poolVars, requestVars, parkVars, monitorVars, worldVars>>

(***************************************************************************)
(* SetMinThreadsNative and SetMaxThreadsNative test one limit against the  *)
(* other and store it, without a lock: the test may be older than another  *)
(* thread's store, and the first limits pass every test.  Neither brings   *)
(* max_working within the new limits.                                      *)
(***************************************************************************)
SetLimit ==
  /\ changes < MaxChanges /\ changes' = changes + 1
  /\ UNCHANGED <<pc, poolVars, requestVars, parkVars, monitorVars, suspended, shuttingDown,
                 killing, given>>

SetMinThreads(n) ==
  /\ n <= limitMax \/ changes > 0
  /\ limitMin' = n /\ UNCHANGED limitMax
  /\ SetLimit

SetMaxThreads(n) ==
  /\ n >= limitMin \/ changes > 0
  /\ n >= Cpus
  /\ limitMax' = n /\ UNCHANGED limitMin
  /\ SetLimit

(***************************************************************************)
(* The clock and the debugger.                                             *)
(***************************************************************************)
NextSecond ==               \* worker_creation_current_second
  /\ created > 0 /\ creator = Nobody /\ created' = 0
  /\ UNCHANGED <<pc, counters, creator, requestVars, parkVars, monitorVars, worldVars>>

Suspend ==                  \* threadpool_ms_suspend, threadpool_ms_resume
  /\ suspended' = ~suspended
  /\ UNCHANGED <<pc, poolVars, requestVars, parkVars, monitorVars, limitVars,
                 shuttingDown, killing, given>>

-----------------------------------------------------------------------------
CreateStep(t) == Unpark(t) \/ CreateDenied(t) \/ Reserve(t) \/ Create(t) \/ CreateFails(t)

RequesterStep(r) ==
  \/ RequestSuspended(r) \/ EnsureRunning(r) \/ Claim(r)
  \/ MonitorStarts(r) \/ MonitorStartFails(r) \/ CreateStep(r)

JobEnds(w) == JobReturns(w) \/ JobRetires(w) \/ JobThrows(w)

WorkerStep(w) ==
  \/ Begin(w) \/ TakeRequest(w) \/ FindNothing(w) \/ StopLooping(w)
  \/ GiveUp(w) \/ Park(w) \/ Wake(w) \/ GoOn(w)
  \/ HeuristicAdjust(w) \/ Leave(w) \/ CountGone(w)

MonitorStep ==
  \/ MonitorRests \/ MonitorStarves \/ MonitorRaises \/ MonitorTriesAgain
  \/ MonitorChecks \/ MonitorDecides \/ MonitorQuits \/ CreateStep(Monitor)

Cleanup == CleanupKill \/ (\E w \in Workers : WorkerKilled(w)) \/ CleanupNotify

Next ==
  \/ \E r \in Requesters : Request(r) \/ RequesterStep(r)
  \/ \E w \in Workers : WorkerStep(w) \/ ParkTimeout(w) \/ Progress(w) \/ JobEnds(w)
  \/ MonitorStep \/ Shutdown \/ Cleanup
  \/ \E n \in MinSettings : SetMinThreads(n)
  \/ \E n \in MaxSettings : SetMaxThreads(n)
  \/ NextSecond \/ Suspend

Spec == Init /\ [][Next]_vars

(***************************************************************************)
(* Every thread is scheduled, callbacks end and the clock goes on; no wait *)
(* of worker_park need run out.  A lock is held for a bounded time, native *)
(* threads can be made sometimes, and the loops on the status word do not  *)
(* run in lockstep for ever.  Requests are finitely many, so now and then  *)
(* none was dequeued lately and the monitor sees a starved one.            *)
(***************************************************************************)
Fairness ==
  /\ \A r \in Requesters : /\ WF_vars(RequesterStep(r))
                           /\ SF_vars(status = "REQUESTED" /\ EnsureRunning(r))
  /\ \A w \in Workers : WF_vars(WorkerStep(w)) /\ SF_vars(JobEnds(w))
  /\ SF_vars(\E t \in Requesters \cup {Monitor} : Create(t))
  /\ WF_vars(MonitorStep) /\ SF_vars(MonitorStarves)
  /\ WF_vars(Cleanup) /\ WF_vars(NextSecond)

FairSpec == Spec /\ Fairness

-----------------------------------------------------------------------------
TypeOK ==
  /\ pc \in [Threads -> WorkerPcs \cup RequesterPcs \cup MonitorPcs \cup MainPcs]
  /\ \A w \in Workers : pc[w] \in WorkerPcs
  /\ \A r \in Requesters : pc[r] \in RequesterPcs
  /\ pc[Monitor] \in MonitorPcs /\ pc[Main] \in MainPcs
  /\ max_working \in 1..MaxCount /\ active \in Int /\ working \in Int /\ parked \in Int
  /\ limitMin \in 1..Far /\ limitMax \in 1..Far /\ changes \in 0..MaxChanges
  /\ outstanding \in 0..MaxRequests /\ jobs \in Int /\ filed \in 0..MaxRequests
  /\ parkedCount \in Int /\ created \in 0..MaxPerSecond /\ tries \in 0..MonitorTries
  /\ workingThreads \subseteq Workers /\ retire \subseteq Workers
  /\ timedOut \subseteq Workers /\ killing \subseteq Workers
  /\ status \in {"NOT_RUNNING", "WAITING_FOR_REQUEST", "REQUESTED"}
  /\ creator \in Requesters \cup {Monitor, Nobody}
  /\ suspended \in BOOLEAN /\ shuttingDown \in BOOLEAN /\ given \in BOOLEAN

(***************************************************************************)
(* COUNTER_CHECK and the assertion in worker_try_create: whoever changes   *)
(* the limits, and whatever failed, max_working is positive and no count   *)
(* is negative, and a second has its limit of new workers.  max_working    *)
(* need not lie between the limits: nothing brings it within new ones.     *)
(***************************************************************************)
CounterChecks ==
  /\ max_working > 0 /\ working >= 0 /\ active >= 0
  /\ created <= MaxPerSecond

(***************************************************************************)
(* The counter word tells the truth about the threads: active counts those *)
(* that live or are about to, parked those between the two halves of       *)
(* WorkerThreadParkStateHolder, working the others, although each is kept  *)
(* by the threads themselves, in steps of their own (COUNTER_CHECK).       *)
(***************************************************************************)
CountersAgree ==
  /\ active  = Cardinality(Live) + Cardinality(Reserved)
  /\ parked  = Cardinality(Parked)
  /\ working = active - parked

(***************************************************************************)
(* parked_threads_count counts the workers inside worker_park's wait, a    *)
(* worker is in working_threads exactly while it runs outside of it, and   *)
(* threadpool_jobs counts the callbacks that run.                          *)
(***************************************************************************)
ParkingAgrees ==
  /\ parkedCount = Cardinality(InPark)
  /\ workingThreads = Live \ (InPark \cup WorkersAt({"new", "gone"}))
  /\ jobs = Cardinality(InJob)

(***************************************************************************)
(* A request that went through monitor_ensure_running stays watched: while *)
(* it is outstanding the monitor thread runs, and is not about to stop     *)
(* without looking at the requests once more.                              *)
(***************************************************************************)
Ensuring == \E r \in Requesters : pc[r] \in {"ensure", "ask", "claim"}

MonitorLives == pc[Monitor] # "none" \/ \E r \in Requesters : pc[r] = "start"

RequestIsWatched ==
  outstanding > 0 /\ ~given /\ ~shuttingDown /\ ~Ensuring =>
    /\ MonitorLives /\ status # "NOT_RUNNING"
    /\ pc[Monitor] = "quit" => status = "REQUESTED"

(***************************************************************************)
(* What RequestIsWatched and the counters rest on: the status word says    *)
(* whether a monitor thread lives, at most one is being started and only   *)
(* when none does, and worker_creation_lock is held across a reservation.  *)
(***************************************************************************)
StatusIsTrue ==
  /\ status = "NOT_RUNNING" <=> ~MonitorLives
  /\ \A r, q \in Requesters : pc[r] = "start" /\ pc[q] = "start" => r = q
  /\ \A r \in Requesters : pc[r] = "start" => pc[Monitor] = "none"

CreatorIsTrue ==
  /\ \A t \in Requesters \cup {Monitor} : pc[t] = "reserved" <=> creator = t
  /\ creator # Nobody => created < MaxPerSecond
  /\ outstanding <= filed

IInv == /\ TypeOK /\ CountersAgree /\ ParkingAgrees
        /\ StatusIsTrue /\ CreatorIsTrue /\ RequestIsWatched

(***************************************************************************)
(* A request is served in the end, whatever notification was spent on a    *)
(* worker that had timed out or was about to retire: the monitor thread    *)
(* raises max_working and unparks or creates a worker.  Only when the      *)
(* program lowered limit_worker_max to what max_working already counts     *)
(* does the monitor give up, and then a request can stay while no worker   *)
(* looks for one.  Far is the limit of a program that did not.             *)
(***************************************************************************)
Stalled == max_working >= limitMax /\ Live \subseteq InPark

RequestIsServed ==
  [](outstanding > 0 =>
       <>(outstanding = 0 \/ given \/ suspended \/ shuttingDown \/ []Stalled))

(***************************************************************************)
(* Cleanup ends and every worker is gone: nobody waits in worker_park for  *)
(* a notification that came before the wait, even if no wait runs out.     *)
(***************************************************************************)
PoolDrains == shuttingDown ~> (pc[Main] = "down" /\ Live = {})
=============================================================================
