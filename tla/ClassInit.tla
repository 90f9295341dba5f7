----------------------------- MODULE ClassInit -----------------------------
(***************************************************************************)
(* Runtime::ClassInit (vm/Runtime.cpp:901): the protocol by which the      *)
(* static constructor of a class runs at most once, in the first thread    *)
(* that needs the class, while the other threads wait for it.              *)
(*                                                                         *)
(* A static constructor is managed code: while it runs, its thread calls   *)
(* ClassInit again for every class the constructor needs, and for its own  *)
(* class.  stack[t] holds the classes whose constructors t is inside, the  *)
(* innermost last.  Which class needs which is chosen in the initial state *)
(* and never changes.                                                      *)
(***************************************************************************)
EXTENDS Sequences, Functions, Naturals

CONSTANTS
    Threads,
    Classes,
    Graphs,     \* what the constructors of a program may need of each other
    None,       \* no thread (cctor_thread = 0), no class
    Throws,     \* TRUE if a constructor may end with a managed exception
    Aborts      \* TRUE if AbortAllThreads may end a thread in a constructor

ASSUME NoneAssumption == None \notin Threads \union Classes
\* Its own class a constructor always may use.
ASSUME GraphsAssumption == Graphs \subseteq
    {g \in [Classes -> SUBSET Classes] : \A c \in Classes : c \notin g[c]}
ASSUME SwitchAssumption == Throws \in BOOLEAN /\ Aborts \in BOOLEAN

VARIABLES
    needs,      \* needs[c]: the classes whose members the constructor of c uses
    finished,   \* the classes with cctor_finished_or_no_cctor = 1
    started,    \* the classes with cctor_started = 1
    runner,     \* runner[c]: cctor_thread
    failed,     \* the classes with an initializationExceptionGCHandle
    lock,       \* the thread that holds s_TypeInitializationLock, or None
    pc,         \* pc[t]: where t is in ClassInit, or in managed code
    class,      \* class[t]: the argument of the ClassInit t is in
    stack,      \* stack[t]: the constructors t is inside of
    runs        \* runs[c]: how often the constructor of c was called (history)

globals == <<finished, started, runner, failed, lock>>
locals  == <<pc, class, stack>>
vars    == <<needs, globals, locals, runs>>

Managed == {"managed", "raised"}      \* "raised": with an exception in flight
Locked == {"locked", "check", "claim", "publish"}
InClassInit == Locked \union {"fast", "acquire", "recursion", "wait", "run",
                "ended", "threw", "finish", "fail", "result"}
PCs == Managed \union InClassInit \union {"aborted"}

Running(t) == Range(stack[t])

(* The types; a thread has an argument exactly in ClassInit, and holds     *)
(* s_TypeInitializationLock exactly between Acquire and Release (907-938). *)
TypeOK ==
    /\ needs \in Graphs
    /\ finished \subseteq Classes /\ started \subseteq Classes /\ failed \subseteq Classes
    /\ runner \in [Classes -> Threads \union {None}]
    /\ lock \in Threads \union {None}
    /\ pc \in [Threads -> PCs]
    /\ class \in [Threads -> Classes \union {None}]
    /\ stack \in [Threads -> Seq(Classes)]
    /\ runs \in [Classes -> Nat]
    /\ \A t \in Threads : /\ (class[t] # None) = (pc[t] \in InClassInit)
                          /\ (lock = t) = (pc[t] \in Locked)

Init ==
    /\ needs \in Graphs
    /\ finished = {} /\ started = {} /\ failed = {}
    /\ runner = [c \in Classes |-> None]
    /\ lock = None
    /\ pc = [t \in Threads |-> "managed"]
    /\ class = [t \in Threads |-> None]
    /\ stack = [t \in Threads |-> <<>>]
    /\ runs = [c \in Classes |-> 0]

-----------------------------------------------------------------------------
At(t, p) == pc[t] = p
Go(t, p) == pc' = [pc EXCEPT ![t] = p]

\* ClassInit returns to managed code, or raises an exception into it.
Leave(t, p) ==
    /\ Go(t, p)
    /\ class' = [class EXCEPT ![t] = None]
    /\ UNCHANGED stack

\* Managed code allocates an object of c, reads a static field of it or calls
\* one of its static methods.
Use(t, c) ==
    /\ At(t, "managed")
    /\ stack[t] # <<>> => LET top == stack[t][Len(stack[t])]
                          IN  c \in needs[top] \union {top}
    /\ Go(t, "fast")
    /\ class' = [class EXCEPT ![t] = c]
    /\ UNCHANGED <<needs, globals, stack, runs>>

ReleaseLock == lock' = None

\* The check without the lock (904).
FastCheck(t) ==
    /\ At(t, "fast")
    /\ IF class[t] \in finished THEN Leave(t, "managed")
                                ELSE Go(t, "acquire") /\ UNCHANGED <<class, stack>>
    /\ UNCHANGED <<needs, globals, runs>>

\* s_TypeInitializationLock.Acquire() (907).
AcquireLock(t) ==
    /\ At(t, "acquire") /\ lock = None
    /\ lock' = t
    /\ Go(t, "locked")
    /\ UNCHANGED <<needs, finished, started, runner, failed, class, stack, runs>>

\* Some thread may have run the constructor meanwhile (910).
LockedCheck(t) ==
    /\ At(t, "locked")
    /\ IF class[t] \in finished
       THEN ReleaseLock /\ Leave(t, "managed")
       ELSE Go(t, "check") /\ UNCHANGED <<lock, class, stack>>
    /\ UNCHANGED <<needs, finished, started, runner, failed, runs>>

\* Mutant: the check forgets that another thread may have started.
NeverStarted(c) == FALSE
AlreadyStarted(c) == c \in started
\* Some thread may have started to run it (917).
StartedCheck(t) ==
    /\ At(t, "check")
    /\ IF AlreadyStarted(class[t])
       THEN Go(t, "recursion") /\ ReleaseLock
       ELSE Go(t, "claim") /\ UNCHANGED lock
    /\ UNCHANGED <<needs, finished, started, runner, failed, class, stack, runs>>

\* Mutants: any thread passes for the one that runs it; or none does.
AnybodyRecurses(t, c) == runner[c] # None
NobodyRecurses(t, c) == FALSE
IsRecursion(t, c) == runner[c] = t
\* It may be this thread, through recursion (922).
RecursionTest(t) ==
    /\ At(t, "recursion")
    /\ IF IsRecursion(t, class[t]) THEN Leave(t, "managed")
                                   ELSE Go(t, "wait") /\ UNCHANGED <<class, stack>>
    /\ UNCHANGED <<needs, globals, runs>>

\* The wait loop (927): it polls, and its Sleep(1) is not alertable.
\* Mutant: the loop does not look at initializationExceptionGCHandle.
FailureUnseen(c) == c \in finished
WaitIsOver(c) == c \in finished \union failed
WaitEnds(t) ==
    /\ At(t, "wait") /\ WaitIsOver(class[t])
    /\ Go(t, "result")
    /\ UNCHANGED <<needs, globals, class, stack, runs>>

\* cctor_thread is set before cctor_started (935, 936); then the lock is released.
Claim(t) ==
    /\ At(t, "claim")
    /\ runner' = [runner EXCEPT ![class[t]] = t]
    /\ Go(t, "publish")
    /\ UNCHANGED <<needs, finished, started, failed, lock, class, stack, runs>>

Publish(t) ==
    /\ At(t, "publish")
    /\ started' = started \union {class[t]}
    /\ ReleaseLock
    /\ Go(t, "run")
    /\ UNCHANGED <<needs, finished, runner, failed, class, stack, runs>>

\* Runtime::Invoke of the constructor (945).  Its own ClassInit of the class
\* (587) ends at the recursion test, as Use of the class itself does.
CallCctor(t) ==
    /\ At(t, "run")
    /\ stack' = [stack EXCEPT ![t] = Append(@, class[t])]
    /\ class' = [class EXCEPT ![t] = None]
    /\ Go(t, "managed")
    /\ runs' = [runs EXCEPT ![class[t]] = @ + 1]
    /\ UNCHANGED <<needs, globals>>

\* The constructor ends and Invoke returns: its frame goes, and ClassInit is
\* back with its class.
PopFrame(t, p) ==
    /\ stack[t] # <<>>
    /\ class' = [class EXCEPT ![t] = stack[t][Len(stack[t])]]
    /\ stack' = [stack EXCEPT ![t] = SubSeq(@, 1, Len(@) - 1)]
    /\ Go(t, p)
    /\ UNCHANGED <<needs, globals, runs>>

CctorReturns(t) == At(t, "managed") /\ PopFrame(t, "ended")

\* It ends with an exception of its own, or with one raised into it; Invoke
\* catches both (592).
CctorThrows(t) ==
    /\ At(t, "raised") \/ (Throws /\ At(t, "managed"))
    /\ PopFrame(t, "threw")

\* Managed code handles the exception that ClassInit raised into it.
Handle(t) ==
    /\ At(t, "raised")
    /\ Go(t, "managed")
    /\ UNCHANGED <<needs, globals, class, stack, runs>>

\* TerminateThread's NativeThreadAbortException, thrown from an alertable wait
\* inside a constructor: Invoke does not catch it, and every frame of ClassInit
\* is unwound without another statement of it.
Abort(t) ==
    /\ Aborts /\ At(t, "managed") /\ stack[t] # <<>>
    /\ Go(t, "aborted")
    /\ stack' = [stack EXCEPT ![t] = <<>>]
    /\ UNCHANGED <<needs, globals, class, runs>>

\* Mutant: a constructor that threw counts as finished as well.
ThrewFinishes(t) ==
    \/ At(t, "ended") /\ Go(t, "finish") /\ UNCHANGED failed
    \/ At(t, "threw") /\ Go(t, "finish") /\ failed' = failed \union {class[t]}
AfterCctor(t) ==
    \/ At(t, "ended") /\ Go(t, "finish") /\ UNCHANGED failed
    \/ At(t, "threw") /\ Go(t, "fail") /\ UNCHANGED failed

\* cctor_thread = 0 (948), before the outcome is published.
ClearRunner(t) ==
    /\ AfterCctor(t)
    /\ runner' = [runner EXCEPT ![class[t]] = None]
    /\ UNCHANGED <<needs, finished, started, lock, class, stack, runs>>

\* "Let other threads know we finished." (954)
Finish(t) ==
    /\ At(t, "finish")
    /\ finished' = finished \union {class[t]}
    /\ Go(t, "result")
    /\ UNCHANGED <<needs, started, runner, failed, lock, class, stack, runs>>

\* Class::SetClassInitializationError (960).
Fail(t) ==
    /\ At(t, "fail")
    /\ failed' = failed \union {class[t]}
    /\ Go(t, "result")
    /\ UNCHANGED <<needs, finished, started, runner, lock, class, stack, runs>>

\* Who ran it and who waited for it both raise its exception, if any (964).
ResultOf(c) == IF c \in failed THEN "raised" ELSE "managed"
Result(t) ==
    /\ At(t, "result")
    /\ Leave(t, ResultOf(class[t]))
    /\ UNCHANGED <<needs, globals, runs>>

Step(t) ==
    \/ FastCheck(t) \/ AcquireLock(t) \/ LockedCheck(t) \/ StartedCheck(t)
    \/ RecursionTest(t) \/ WaitEnds(t) \/ Claim(t) \/ Publish(t) \/ CallCctor(t)
    \/ ClearRunner(t) \/ Finish(t) \/ Fail(t) \/ Result(t)

Next == \E t \in Threads :
    \/ Step(t)
    \/ \E c \in Classes : Use(t, c)
    \/ CctorReturns(t) \/ CctorThrows(t) \/ Handle(t) \/ Abort(t)

Spec == Init /\ [][Next]_vars

(* ClassInit's own steps go on, the lock is fair, and a constructor that is *)
(* not kept waiting ends at some time, however often it uses other classes. *)
Fairness == \A t \in Threads :
    /\ WF_vars(Step(t) /\ ~AcquireLock(t))
    /\ SF_vars(AcquireLock(t))
    /\ SF_vars(CctorReturns(t) \/ CctorThrows(t))

FairSpec == Spec /\ Fairness

-----------------------------------------------------------------------------
(* A constructor is called at most once, whatever the threads that need its *)
(* class do at the same time (the two checks under the lock, 910 and 917).  *)
CctorRunsOnce == \A c \in Classes : runs[c] <= 1

(* The flags of a class tell one story (932-962): it finished or it failed, *)
(* never both, only after it was started; and while its constructor is on a *)
(* stack, cctor_thread names that thread and neither outcome is published.  *)
OutcomeAgrees ==
    /\ finished \intersect failed = {}
    /\ finished \union failed \subseteq started
    /\ \A t \in Threads : \A c \in Running(t) :
            runner[c] = t /\ c \in started \ (finished \union failed)

(* ClassInit returns without an exception only when the constructor of its *)
(* class has finished, or to code that this constructor itself is running; *)
(* it never lets a thread into a class another thread is initialising, or  *)
(* one whose initialisation failed (904-931).                              *)
ReturnsNormally(t) == At(t, "managed")' /\ pc[t] \in InClassInit \ {"run"}
SeenIsInitialised ==
    [][\A t \in Threads : ReturnsNormally(t) =>
            class[t] \in finished \/ class[t] \in Running(t)]_vars

(* A set of threads that wait for each other's constructors (927), with no *)
(* other thread that could release one of them.                            *)
WaitsFor(t, u) ==
    At(t, "wait") /\ class[t] \notin finished \union failed /\ runner[class[t]] = u
Deadlocked(S) == S # {} /\ \A t \in S : \E u \in S : WaitsFor(t, u)
Cyclic == \E D \in SUBSET Classes : D # {} /\ \A c \in D : needs[c] \intersect D # {}

(* Threads wait for each other in a circle only when the constructors      *)
(* themselves need each other in a circle: the recursion test (922) keeps  *)
(* a thread from waiting for itself, and no thread waits inside the lock.  *)
DeadlockNeedsACycle == (\E S \in SUBSET Threads : Deadlocked(S)) => Cyclic

(* Unless the constructors need each other in a circle, or a thread was    *)
(* aborted inside one, a class that was started gets an outcome and the    *)
(* threads that wait for it go on, with an exception if it failed (927).   *)
Aborted == \E t \in Threads : At(t, "aborted")
WaitersGoOn ==
    \A t \in Threads : At(t, "wait") ~> ~At(t, "wait") \/ Cyclic \/ Aborted
=============================================================================
