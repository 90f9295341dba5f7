----------------------------- MODULE IOSelector -----------------------------
(***************************************************************************)
(* The I/O selector (mono/ThreadPool/threadpool-ms-io.cpp) and its table of *)
(* polled descriptors (threadpool-ms-io-poll.cpp).  Threads that start an  *)
(* asynchronous socket operation or close a socket put updates into a      *)
(* bounded queue and wake the selector thread through a pipe; the selector *)
(* applies the updates, polls, and hands the job of an operation that can  *)
(* go on to the thread pool.                                               *)
(*                                                                         *)
(* A job is a pair of a descriptor and an operation: managed sockets keep  *)
(* one job of each operation at the selector (ReadSem, WriteSem).  A       *)
(* section under updates_lock is one step, except that the selector holds  *)
(* it over all the updates it applies.                                     *)
(***************************************************************************)
EXTENDS Naturals, SequencesExt

CONSTANTS
    Jobs,               \* <<descriptor, operation>>
    Closing,            \* bound: the descriptors whose sockets are ever closed
    UPDATES_CAPACITY    \* 128

Ops == {"IN", "OUT"}
Fds == {j[1] : j \in Jobs}
Err == Ops \union {"ERR"}       \* an error counts as both operations

ASSUME JobsAssumption == Jobs \subseteq Fds \X Ops /\ -1 \notin Fds
ASSUME ClosingAssumption == Closing \subseteq Fds
ASSUME CapacityAssumption == UPDATES_CAPACITY \in Nat \ {0}

VARIABLES
    updates,        \* threadpool_io->updates, the first updates_size of them
    wake,           \* something is in the wakeup pipe
    selector,       \* where the selector thread is
    running,        \* io_selector_running
    states,         \* states[f]: operations of the jobs on the list of f
    known,          \* the descriptors with an entry in states
    poll_fds,       \* the descriptors in poll_fds behind the pipe's, -1: a hole
    events,         \* events[f]: what poll_fds asks of f
    revents,        \* revents[f]: what poll said of f and is not handled yet
    drain,          \* poll said that the pipe is ready
    job,            \* job[j]: where the operation j is
    remover,        \* remover[f]: where the thread is that removes f
    early,          \* descriptors whose remover once woke up although nobody woke it
    owed,           \* jobs that were accepted before a removal of their socket (history)
    open,           \* the descriptors of open sockets
    shuttingDown,   \* Runtime::IsShuttingDown
    cleanup         \* where threadpool_ms_io_cleanup is

pollVars == <<states, known, poll_fds, events>>
callVars == <<job, remover, early, owed, open>>
mainVars == <<shuttingDown, cleanup>>
vars == <<updates, wake, selector, running, pollVars, revents, drain, callVars, mainVars>>

ADD(j) == <<"ADD", j[1], j[2]>>
REMOVE_SOCKET(f) == <<"REMOVE_SOCKET", f, "IN">>
EMPTY == <<"EMPTY", -1, "IN">>
Update == {ADD(j) : j \in Jobs} \union {REMOVE_SOCKET(f) : f \in Fds} \union {EMPTY}

Init ==
    /\ updates = <<>> /\ wake = FALSE
    /\ selector = "none" /\ running = FALSE
    /\ states = [f \in Fds |-> {}] /\ known = {}
    /\ poll_fds = <<>> /\ events = [f \in Fds |-> {}]
    /\ revents = [f \in Fds |-> {}] /\ drain = FALSE
    /\ job = [j \in Jobs |-> "idle"]
    /\ remover = [f \in Fds |-> "out"] /\ early = {} /\ owed = {}
    /\ open = Fds
    /\ shuttingDown = FALSE /\ cleanup = "none"

Initialized == selector # "none"
\* The selector applies updates with updates_lock held.
Unlocked == selector # "apply"
HasRoom == Len(updates) < UPDATES_CAPACITY
InQueue(u) == \E i \in DOMAIN updates : updates[i] = u

-----------------------------------------------------------------------------
(* IOSelector_Add (645): its check of the shutdown; once, the start of the  *)
(* selector thread; then the update, under the lock.                       *)
Add(j) ==
    /\ job[j] = "idle" /\ j[1] \in open /\ ~shuttingDown
    /\ job' = [job EXCEPT ![j] = IF Initialized THEN "adding" ELSE "starting"]
    /\ UNCHANGED <<updates, wake, selector, running, pollVars, revents, drain,
                   remover, early, owed, open, mainVars>>

\* The shutdown may have begun since (659).
LazyInitialize(j) ==
    /\ job[j] = "starting"
    /\ job' = [job EXCEPT ![j] = "adding"]
    /\ selector' = IF Initialized THEN selector ELSE "created"
    /\ UNCHANGED <<updates, wake, running, pollVars, revents, drain, remover, early, owed,
                   open, mainVars>>

\* Mutant: only a removal wakes the selector.
WokenByRemoval(u) == wake' = (wake \/ u[1] = "REMOVE_SOCKET")
Wakeup(u) == wake' = TRUE

\* update_get_new waits on updates_cond while there is no room (493).
AwaitRoom(j) ==
    /\ job[j] = "adding" /\ Unlocked /\ ~HasRoom
    /\ job' = [job EXCEPT ![j] = "full"]
    /\ UNCHANGED <<updates, wake, selector, running, pollVars, revents, drain,
                   remover, early, owed, open, mainVars>>

\* An ADD behind a removal of its descriptor may be emptied with it (431).
Taken(j) == IF InQueue(REMOVE_SOCKET(j[1])) THEN "late" ELSE "accepted"

\* Without a socket the update is empty, and the job goes nowhere (664-679).
AddUpdate(j) ==
    /\ job[j] = "adding" /\ Unlocked /\ HasRoom
    /\ LET u == IF j[1] \in open THEN ADD(j) ELSE EMPTY
       IN  updates' = Append(updates, u) /\ Wakeup(u)
    /\ job' = [job EXCEPT ![j] = IF j[1] \in open THEN Taken(j) ELSE "dropped"]
    /\ UNCHANGED <<selector, running, pollVars, revents, drain, remover, early, owed,
                   open, mainVars>>

\* threadpool_ms_io_remove_socket (696), which a socket calls as it closes.
RemoveSocket(f) ==
    /\ remover[f] = "out" /\ f \in open \intersect Closing
    /\ remover' = [remover EXCEPT ![f] = IF Initialized THEN "removing" ELSE "returned"]
    /\ UNCHANGED <<updates, wake, selector, running, pollVars, revents, drain, job,
                   early, owed, open, mainVars>>

RemoveAwaitsRoom(f) ==
    /\ remover[f] = "removing" /\ Unlocked /\ ~HasRoom
    /\ remover' = [remover EXCEPT ![f] = "full"]
    /\ UNCHANGED <<updates, wake, selector, running, pollVars, revents, drain, job,
                   early, owed, open, mainVars>>

\* With the update it goes on to wait for the next broadcast, whatever it is for.
RemoveUpdate(f) ==
    /\ remover[f] = "removing" /\ Unlocked /\ HasRoom
    /\ updates' = Append(updates, REMOVE_SOCKET(f))
    /\ Wakeup(REMOVE_SOCKET(f))
    /\ remover' = [remover EXCEPT ![f] = "waiting"]
    /\ owed' = owed \union {j \in Jobs : j[1] = f /\ job[j] = "accepted"}
    /\ UNCHANGED <<selector, running, pollVars, revents, drain, job, early, open, mainVars>>

RemoveReturns(f) ==
    /\ remover[f] = "woken" /\ Unlocked
    /\ remover' = [remover EXCEPT ![f] = "returned"]
    /\ UNCHANGED <<updates, wake, selector, running, pollVars, revents, drain, job, early, owed,
                   open, mainVars>>

\* A wait on a condition variable may end by itself, and remove_socket's is not
\* in a loop.
SpuriousWakeup(f) ==
    /\ remover[f] = "waiting"
    /\ remover' = [remover EXCEPT ![f] = "woken"] /\ early' = early \union {f}
    /\ UNCHANGED <<updates, wake, selector, running, pollVars, revents, drain, job, owed,
                   open, mainVars>>

\* The socket is closed; its descriptor serves another one later.
Close(f) ==
    /\ remover[f] = "returned" /\ f \in open
    /\ open' = open \ {f}
    /\ UNCHANGED <<updates, wake, selector, running, pollVars, revents, drain, job,
                   remover, early, owed, mainVars>>

\* What became of a late job whose ADD a removal has emptied: nothing.
Lost(j) == job[j] = "late" /\ ~InQueue(ADD(j)) /\ j[2] \notin states[j[1]]

Reopen(f) ==
    /\ remover[f] = "returned" /\ f \notin open
    /\ open' = open \union {f}
    /\ remover' = [remover EXCEPT ![f] = "out"]
    /\ job' = [j \in Jobs |-> IF j[1] = f /\ (job[j] = "dropped" \/ Lost(j)) THEN "idle"
                             ELSE job[j]]
    /\ UNCHANGED <<updates, wake, selector, running, pollVars, revents, drain, early, owed, mainVars>>

-----------------------------------------------------------------------------
(* poll_register_fd: an entry of its own, the first hole, or a new entry    *)
(* behind the last.                                                         *)
Index(f) == CHOOSE i \in DOMAIN poll_fds : poll_fds[i] = f
Registered(f) == \E i \in DOMAIN poll_fds : poll_fds[i] = f
RegisterFd(f, ops) ==
    /\ events' = [events EXCEPT ![f] = ops]
    /\ poll_fds' = IF Registered(f) THEN poll_fds
                   ELSE IF -1 \in Range(poll_fds)
                        THEN [poll_fds EXCEPT ![Index(-1)] = f]
                        ELSE Append(poll_fds, f)

(* poll_remove_fd: a hole, and poll_fds_size goes down past trailing holes. *)
\* Mutant: it goes down to the first hole.
CutAtHole(s) == IF -1 \in Range(s) THEN SubSeq(s, 1, SelectInSeq(s, LAMBDA f : f = -1) - 1)
                                   ELSE s
Trimmed(s) == SubSeq(s, 1, SelectLastInSeq(s, LAMBDA f : f # -1))
RemoveFd(f) ==
    /\ events' = [events EXCEPT ![f] = {}]
    /\ poll_fds' = Trimmed([poll_fds EXCEPT ![Index(f)] = -1])

\* threadpool_ms_enqueue_work_item, when it does not throw: the callback runs, and
\* the socket may start its next operation of that kind.
Enqueued == owed' = {j \in owed : job'[j] # "idle"}
Deliver(f, ops) ==
    /\ job' = [j \in Jobs |-> IF j[1] = f /\ j[2] \in ops THEN "idle" ELSE job[j]]
    /\ Enqueued

(* The selector thread (348): it says that it runs before it looks at the   *)
(* shutdown.                                                                *)
SelectorStarts ==
    /\ selector = "created"
    /\ selector' = "started" /\ running' = TRUE
    /\ UNCHANGED <<updates, wake, pollVars, revents, drain, callVars, mainVars>>

MustStop == shuttingDown
SelectorEnters ==
    /\ selector = "started"
    /\ IF MustStop THEN selector' = "stopped" /\ running' = FALSE
                   ELSE selector' = "apply" /\ UNCHANGED running
    /\ UNCHANGED <<updates, wake, pollVars, revents, drain, callVars, mainVars>>

(* One update after the other is applied and, here, made EMPTY; the code    *)
(* clears them all at the end, with the lock still held.                    *)
Applied(i) == [updates EXCEPT ![i] = EMPTY]
Current == SelectInSeq(updates, LAMBDA u : u # EMPTY)

ApplyAdd ==
    /\ selector = "apply" /\ Current # 0
    /\ LET u == updates[Current] IN
       /\ u[1] = "ADD"
       /\ states' = [states EXCEPT ![u[2]] = @ \union {u[3]}]
       /\ known' = known \union {u[2]}
       /\ RegisterFd(u[2], states'[u[2]])
       /\ job' = [job EXCEPT ![<<u[2], u[3]>>] = "accepted"]
    /\ updates' = Applied(Current)
    /\ UNCHANGED <<wake, selector, running, revents, drain, remover, early, owed, open,
                   mainVars>>

\* Mutant: every later ADD is cleared, of whatever socket.
ClearAll(f) == [i \in DOMAIN updates |->
    IF updates[i] = REMOVE_SOCKET(f) \/ updates[i][1] = "ADD" THEN EMPTY ELSE updates[i]]
\* The removal, and the later ADDs of the same descriptor, are gone (419).
ClearAdds(f) == [i \in DOMAIN updates |->
    IF i = Current \/ (updates[i][1] = "ADD" /\ updates[i][2] = f) THEN EMPTY ELSE updates[i]]

\* Mutant: the list is cleared before its jobs are enqueued.
NothingListed(f) == {}
Listed(f) == states[f]
\* The jobs on the list are enqueued, the ones cleared from the queue are lost.
ApplyRemove ==
    /\ selector = "apply" /\ Current # 0
    /\ LET f == updates[Current][2] IN
       /\ updates[Current][1] = "REMOVE_SOCKET"
       /\ IF f \in known
          THEN /\ states' = [states EXCEPT ![f] = {}]
               /\ known' = known \ {f}
               /\ RemoveFd(f)
               /\ updates' = ClearAdds(f)
               /\ Deliver(f, Listed(f))
          ELSE /\ updates' = Applied(Current)
               /\ UNCHANGED <<pollVars, job, owed>>
    /\ UNCHANGED <<wake, selector, running, revents, drain, remover, early, open, mainVars>>

\* Mutant: updates_cond is signalled once, not broadcast.
SignalOne ==
    /\ remover' = [f \in Fds |-> IF remover[f] = "waiting" THEN "woken" ELSE remover[f]]
    /\ job' = job
\* Whoever waits on updates_cond goes on (470): a removal returns, and those that
\* wait for room try again.
Broadcast ==
    /\ remover' = [f \in Fds |-> IF remover[f] = "waiting" THEN "woken"
                                 ELSE IF remover[f] = "full" THEN "removing" ELSE remover[f]]
    /\ job' = [j \in Jobs |-> IF job[j] = "full" THEN "adding" ELSE job[j]]

EmptyUpdates == updates' = <<>>
SelectorUnlocks ==
    /\ selector = "apply" /\ Current = 0
    /\ Broadcast
    /\ EmptyUpdates
    /\ selector' = "poll"
    /\ UNCHANGED <<wake, running, pollVars, revents, drain, early, owed, open, mainVars>>

(* poll_event_wait: poll blocks until the pipe or a descriptor is ready; a  *)
(* closed descriptor always is.  It may also fail, or end with nothing: the *)
(* interrupt check of EINTR (178) throws only out of a managed wait, which  *)
(* this is not (vm/Thread.cpp:587-589).                                     *)
Reports(f) ==
    IF f \notin known THEN {{}}
    ELSE IF f \notin open THEN {Err}
    ELSE (SUBSET events[f]) \union {Err}

Poll ==
    /\ selector = "poll"
    /\ revents' \in {r \in [Fds -> SUBSET Err] : \A f \in Fds : r[f] \in Reports(f)}
    /\ drain' = wake
    /\ wake \/ \E f \in Fds : revents'[f] # {}
    /\ selector' = "events"
    /\ UNCHANGED <<updates, wake, running, pollVars, callVars, mainVars>>

PollInterrupted ==
    /\ selector = "poll"
    /\ selector' = "events"
    /\ UNCHANGED <<updates, wake, running, pollVars, revents, drain, callVars, mainVars>>

PollFails ==
    /\ selector = "poll"
    /\ selector' = "stopped" /\ running' = FALSE
    /\ UNCHANGED <<updates, wake, pollVars, revents, drain, callVars, mainVars>>

(* wait_callback of the pipe, the first entry of the table: the pipe is     *)
(* emptied, unless the runtime shuts down.                                  *)
Drain ==
    /\ selector = "events" /\ drain
    /\ drain' = FALSE /\ wake' = (wake /\ shuttingDown)
    /\ UNCHANGED <<updates, selector, running, pollVars, revents, callVars, mainVars>>

\* The descriptors come in the order of the table.
Ready(f) == revents[f] # {}
NextReady == poll_fds[SelectInSeq(poll_fds, LAMBDA f : f # -1 /\ Ready(f))]
AllHandled == ~drain /\ \A f \in Fds : ~Ready(f)

JobsFor(f) == states[f] \intersect revents[f]

(* wait_callback of a descriptor: one job of each operation that is ready,  *)
(* and after an error the descriptor is forgotten.                          *)
Callback ==
    /\ selector = "events" /\ ~drain /\ ~AllHandled
    /\ LET f == NextReady IN
       /\ revents' = [revents EXCEPT ![f] = {}]
       /\ IF shuttingDown THEN UNCHANGED <<pollVars, job, owed>>
          ELSE /\ Deliver(f, JobsFor(f))
               /\ IF "ERR" \in revents[f]
                  THEN /\ states' = [states EXCEPT ![f] = {}]
                       /\ known' = known \ {f}
                       /\ RemoveFd(f)
                  ELSE /\ states' = [states EXCEPT ![f] = @ \ JobsFor(f)]
                       /\ UNCHANGED known
                       /\ RegisterFd(f, states'[f])
    /\ UNCHANGED <<updates, wake, selector, running, drain, remover, early, open, mainVars>>

SelectorGoesRound ==
    /\ selector = "events" /\ AllHandled
    /\ IF shuttingDown THEN selector' = "stopped" /\ running' = FALSE
                       ELSE selector' = "apply" /\ UNCHANGED running
    /\ UNCHANGED <<updates, wake, pollVars, revents, drain, callVars, mainVars>>

-----------------------------------------------------------------------------
(* Runtime::Shutdown and threadpool_ms_io_cleanup (628).                    *)
Shutdown ==
    /\ ~shuttingDown /\ shuttingDown' = TRUE
    /\ UNCHANGED <<updates, wake, selector, running, pollVars, revents, drain, callVars, cleanup>>

\* Mutant: the selector is not woken.
LeaveAsleep == UNCHANGED wake
CleanupWakeup == wake' = TRUE
Cleanup ==
    /\ shuttingDown /\ cleanup = "none"
    /\ IF Initialized THEN cleanup' = "wait" /\ CleanupWakeup
                      ELSE cleanup' = "done" /\ UNCHANGED wake
    /\ UNCHANGED <<updates, selector, running, pollVars, revents, drain, callVars, shuttingDown>>

CleanupEnds ==
    /\ cleanup = "wait" /\ ~running
    /\ cleanup' = "done"
    /\ UNCHANGED <<updates, wake, selector, running, pollVars, revents, drain, callVars, shuttingDown>>

-----------------------------------------------------------------------------
SelectorStep ==
    \/ SelectorStarts \/ SelectorEnters \/ ApplyAdd \/ ApplyRemove
    \/ SelectorUnlocks \/ Poll \/ Drain \/ Callback \/ SelectorGoesRound

AddStep(j) == LazyInitialize(j) \/ AwaitRoom(j) \/ AddUpdate(j)
RemoveStep(f) == RemoveAwaitsRoom(f) \/ RemoveUpdate(f) \/ RemoveReturns(f)

Next ==
    \/ SelectorStep \/ PollInterrupted \/ PollFails
    \/ \E j \in Jobs : Add(j) \/ AddStep(j)
    \/ \E f \in Fds : RemoveSocket(f) \/ RemoveStep(f) \/ SpuriousWakeup(f) \/ Close(f) \/ Reopen(f)
    \/ Shutdown \/ Cleanup \/ CleanupEnds

Spec == Init /\ [][Next]_vars

(* The selector and the thread that shuts down are scheduled.  Nothing is   *)
(* asked of the sockets, or of the threads that add and remove.             *)
Fairness == WF_vars(SelectorStep) /\ WF_vars(Cleanup) /\ WF_vars(CleanupEnds)

FairSpec == Spec /\ Fairness

-----------------------------------------------------------------------------
TypeOK ==
    /\ updates \in Seq(Update) /\ Len(updates) <= UPDATES_CAPACITY
    /\ wake \in BOOLEAN /\ running \in BOOLEAN /\ drain \in BOOLEAN
    /\ selector \in {"none", "created", "started", "apply", "poll", "events", "stopped"}
    /\ states \in [Fds -> SUBSET Ops] /\ known \subseteq Fds
    /\ poll_fds \in Seq(Fds \union {-1})
    /\ events \in [Fds -> SUBSET Ops]
    /\ revents \in [Fds -> SUBSET Err]
    /\ job \in [Jobs -> {"idle", "starting", "adding", "full", "late", "accepted", "dropped"}]
    /\ remover \in [Fds -> {"out", "removing", "full", "waiting", "woken", "returned"}]
    /\ early \subseteq Fds /\ owed \subseteq Jobs /\ open \subseteq Fds
    /\ shuttingDown \in BOOLEAN /\ cleanup \in {"none", "wait", "done"}

(* Whoever waits on updates_cond, for room or for its removal, is owed a    *)
(* broadcast, by an update that is still queued; so no thread waits while   *)
(* the selector has nothing to do (493-510, 712).                           *)
Waits == (\E j \in Jobs : job[j] = "full") \/ \E f \in Fds : remover[f] \in {"full", "waiting"}
WaitersAreOwedABroadcast == Waits => updates # <<>>

(* When remove_socket returns, every job its socket had at the selector     *)
(* when it asked has been handed to the thread pool, although it waits once *)
(* for a broadcast that may be meant for somebody else; unless a wait of    *)
(* this kind has ended by itself (412-447, 712).                            *)
RemovalIsDone ==
    \A j \in owed : remover[j[1]] \in {"woken", "returned"} => j[1] \in early

(* The table that poll uses and the table of jobs agree: one entry for each *)
(* descriptor with a list, none for others, asking for the operations of    *)
(* the jobs, whatever holes were filled and trimmed (poll_register_fd and   *)
(* poll_remove_fd, and their assertions on is_new and on a second entry).   *)
TablesAgree ==
    /\ Range(poll_fds) \ {-1} = known
    /\ \A i, k \in DOMAIN poll_fds : poll_fds[i] = poll_fds[k] /\ i # k => poll_fds[i] = -1
    /\ poll_fds # <<>> => Last(poll_fds) # -1
    /\ \A f \in Fds : events[f] = states[f] /\ (f \notin known => states[f] = {})
    /\ \A f \in Fds : Ready(f) => f \in known

(* An accepted job is in one place, the queue or the list of its socket,    *)
(* until it is handed to the thread pool: it is not lost, and not handed    *)
(* out twice, by polls, errors and removals in any order (367-447,          *)
(* 278-346).  This is not promised to a late job: the code empties an ADD   *)
(* that was queued behind a removal of its descriptor (428-433), and its    *)
(* operation never completes.                                               *)
JobHasAPlace ==
    \A j \in Jobs :
        /\ job[j] = "accepted" => InQueue(ADD(j)) \/ j[2] \in states[j[1]]
        /\ InQueue(ADD(j)) => job[j] \in {"accepted", "late"} /\ j[2] \notin states[j[1]]
        /\ j[2] \in states[j[1]] => job[j] = "accepted"

(* What the code does not give: that no operation at all is lost.           *)
NoJobIsLost == \A j \in Jobs : ~Lost(j)

(* While the selector runs, every update is applied in the end, and with    *)
(* the broadcast that follows the waits of WaitersAreOwedABroadcast end,    *)
(* although poll may block for ever (348-486).                              *)
UpdatesAreApplied == updates # <<>> ~> updates = <<>> \/ selector = "stopped"

(* Cleanup ends, wherever the shutdown meets the selector, and then no      *)
(* selector works any more, not even one that is created or starts after it *)
(* (353-358, 628-637, 654-659).                                             *)
Works == selector \in {"apply", "poll", "events"}
NoWorkAfterCleanup == cleanup = "done" => ~Works
CleanupReturns == (shuttingDown ~> cleanup = "done") /\ []NoWorkAfterCleanup
=============================================================================
