----------------------------- MODULE HandleMap -----------------------------
(***************************************************************************)
(* What the table of GC handles (gc/GCHandle.cpp) promises: a map from the *)
(* handles in use to the objects they stand for.  A handle is given out    *)
(* only while nobody has it, it keeps its target until somebody sets       *)
(* another one or frees it, and a weak table forgets an object that the    *)
(* garbage collector has taken.                                            *)
(***************************************************************************)
CONSTANTS
    Objects,
    NULL,       \* no object
    Numbers     \* the handles there may be

VARIABLES
    weak,       \* TRUE if the handles are weak references
    target,     \* target[h]: the object that the handle h in use stands for
    result      \* the handle that the last operation gave out, or 0

Used == DOMAIN target

MapInit == result = 0 /\ weak \in BOOLEAN /\ target = [h \in {} |-> NULL]

New(h, o) ==
    /\ h \notin Used /\ result' = h
    /\ target' = [g \in Used \union {h} |-> IF g = h THEN o ELSE target[g]]

Free(h) == h \in Used /\ result' = 0 /\ target' = [g \in Used \ {h} |-> target[g]]

SetTarget(h, o) == h \in Used /\ result' = 0 /\ target' = [target EXCEPT ![h] = o]

Collect(o) ==
    /\ weak /\ result' = 0
    /\ target' = [h \in Used |-> IF target[h] = o THEN NULL ELSE target[h]]

MapNext ==
    /\ weak' = weak
    /\ \/ \E h \in Numbers, o \in Objects \union {NULL} : New(h, o) \/ SetTarget(h, o)
       \/ \E h \in Numbers : Free(h)
       \/ \E o \in Objects : Collect(o)

MapSpec == MapInit /\ [][MapNext]_<<weak, target, result>>
============================================================================
