----------------------------- MODULE ObjectLock -----------------------------
(***************************************************************************)
(* What Monitor promises its clients: one recursive lock per object, held  *)
(* by one thread at a time, that Wait gives up at whatever depth it is     *)
(* held and takes back at the same depth before it returns.                *)
(***************************************************************************)
EXTENDS Naturals

CONSTANTS Threads, Objects

VARIABLES
    depth,  \* how many times a thread is inside the lock of an object
    saved   \* the depth to come back to, while inside Wait

lvars == <<depth, saved>>

LockInit ==
    /\ depth = [t \in Threads |-> [o \in Objects |-> 0]]
    /\ saved = [t \in Threads |-> [o \in Objects |-> 0]]

\* No other thread is inside the lock of o.
Available(t, o) == \A u \in Threads \ {t} : depth[u][o] = 0

Lock(t, o) ==
    /\ Available(t, o)
    /\ depth' = [depth EXCEPT ![t][o] = @ + 1]
    /\ UNCHANGED saved

Unlock(t, o) ==
    /\ depth[t][o] > 0
    /\ depth' = [depth EXCEPT ![t][o] = @ - 1]
    /\ UNCHANGED saved

BeginWait(t, o) ==
    /\ depth[t][o] > 0
    /\ depth' = [depth EXCEPT ![t][o] = 0]
    /\ saved' = [saved EXCEPT ![t][o] = depth[t][o]]

EndWait(t, o) ==
    /\ saved[t][o] > 0
    /\ Available(t, o)
    /\ depth' = [depth EXCEPT ![t][o] = saved[t][o]]
    /\ saved' = [saved EXCEPT ![t][o] = 0]

LockNext ==
    \E t \in Threads, o \in Objects :
        Lock(t, o) \/ Unlock(t, o) \/ BeginWait(t, o) \/ EndWait(t, o)

LockSpec == LockInit /\ [][LockNext]_lvars
============================================================================
