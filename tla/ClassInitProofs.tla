-------------------------- MODULE ClassInitProofs --------------------------
(***************************************************************************)
(* Proofs about ClassInit: a static constructor runs at most once, and     *)
(* ClassInit lets nobody into a class that is not initialised, and threads *)
(* wait for each other for good only in a circle of constructors.          *)
(***************************************************************************)
EXTENDS ClassInit, SequenceTheorems, TLAPS

\* t has claimed the class it is called with, and has not published an outcome.
Owning == {"publish", "run", "ended", "threw", "finish", "fail"}
Owns(t) == pc[t] \in Owning

\* No class is twice on a stack.
NoRepetition == \A t \in Threads : \A i, j \in DOMAIN stack[t] :
                    stack[t][i] = stack[t][j] => i = j

\* What a thread between the claim and the outcome knows of its class.
OwnerInv == \A t \in Threads :
    /\ pc[t] = "claim" => class[t] \notin started
    /\ pc[t] = "publish" => class[t] \notin started
    /\ pc[t] \in Owning \ {"publish"} => class[t] \in started \ (finished \union failed)
    /\ Owns(t) => class[t] \notin Running(t)
    /\ pc[t] \in {"publish", "run", "ended", "threw"} => runner[class[t]] = t
    /\ pc[t] \in {"finish", "fail"} => runner[class[t]] = None
    /\ pc[t] = "run" => runs[class[t]] = 0
    /\ pc[t] = "result" => class[t] \in finished \union failed

\* At most one thread is about to publish the outcome of a class.
OneOwner == \A t, u \in Threads :
    pc[t] \in {"finish", "fail"} /\ pc[u] \in {"finish", "fail"} /\ class[t] = class[u] => t = u

\* cctor_thread names a thread that is inside the constructor, or about to be.
RunnerInv == \A t \in Threads : \A c \in Classes : runner[c] = t =>
    pc[t] = "aborted" \/ c \in Running(t) \/ (Owns(t) /\ c = class[t])

StartedInv == \A c \in Classes : runs[c] <= 1 /\ (c \notin started => runs[c] = 0)

IInv == /\ TypeOK /\ OutcomeAgrees /\ NoRepetition /\ OwnerInv
        /\ OneOwner /\ RunnerInv /\ StartedInv

-----------------------------------------------------------------------------
(* What calling and leaving a constructor does to the set of classes on a stack. *)
LEMMA RunningAfterCall ==
  ASSUME NEW s \in Seq(Classes), NEW c \in Classes, NEW r, r = Append(s, c)
  PROVE  Range(r) = Range(s) \union {c}
<1>1. /\ r \in Seq(Classes) /\ Len(r) = Len(s) + 1 /\ Len(s) \in Nat
      /\ DOMAIN r = 1..Len(r) /\ DOMAIN s = 1..Len(s)
      /\ r[Len(r)] = c /\ \A i \in 1..Len(s) : r[i] = s[i]
  OBVIOUS
<1>. QED  BY <1>1 DEF Range

LEMMA NoRepetitionAfterCall ==
  ASSUME NEW s \in Seq(Classes), NEW c \in Classes, NEW r, r = Append(s, c),
         \A i, j \in DOMAIN s : s[i] = s[j] => i = j,
         c \notin Range(s)
  PROVE  \A i, j \in DOMAIN r : r[i] = r[j] => i = j
<1>1. /\ Len(r) = Len(s) + 1 /\ Len(s) \in Nat
      /\ DOMAIN r = 1..Len(r) /\ DOMAIN s = 1..Len(s)
      /\ r[Len(r)] = c /\ \A i \in 1..Len(s) : r[i] = s[i]
  OBVIOUS
<1>. QED  BY <1>1 DEF Range

LEMMA RunningAfterReturn ==
  ASSUME NEW s \in Seq(Classes), s # <<>>, NEW r, r = SubSeq(s, 1, Len(s) - 1),
         \A i, j \in DOMAIN s : s[i] = s[j] => i = j
  PROVE  /\ r \in Seq(Classes) /\ s[Len(s)] \in Classes
         /\ s[Len(s)] \in Range(s)
         /\ Range(r) = Range(s) \ {s[Len(s)]}
<1>1. /\ Len(s) \in Nat \ {0} /\ DOMAIN s = 1..Len(s)
      /\ \A i \in 1..Len(s) : s[i] \in Classes
  OBVIOUS
<1>2. /\ r \in Seq(Classes) /\ Len(r) = Len(s) - 1
      /\ \A i \in 1..(Len(s) - 1) : r[i] = s[i]
  BY <1>1, SubSeqProperties
<1>3. DOMAIN r = 1..(Len(s) - 1)
  BY <1>1, <1>2
<1>4. \A i \in 1..(Len(s) - 1) : s[i] # s[Len(s)]
  BY <1>1
<1>5. \A x : x \in Range(r) <=> x \in Range(s) \ {s[Len(s)]}
  <2>1. ASSUME NEW i \in DOMAIN r PROVE r[i] \in Range(s) \ {s[Len(s)]}
    BY <1>1, <1>2, <1>3, <1>4 DEF Range
  <2>2. ASSUME NEW i \in DOMAIN s, s[i] # s[Len(s)] PROVE s[i] \in Range(r)
    <3>1. i \in 1..(Len(s) - 1)
      BY <1>1, <2>2
    <3>. QED  BY <1>2, <1>3, <3>1 DEF Range
  <2>. QED  BY <2>1, <2>2 DEF Range
<1>6. s[Len(s)] \in Classes /\ s[Len(s)] \in Range(s)
  BY <1>1 DEF Range
<1>. QED  BY <1>2, <1>5, <1>6

LEMMA NoRepetitionAfterReturn ==
  ASSUME NEW s \in Seq(Classes), s # <<>>, NEW r, r = SubSeq(s, 1, Len(s) - 1),
         \A i, j \in DOMAIN s : s[i] = s[j] => i = j
  PROVE  \A i, j \in DOMAIN r : r[i] = r[j] => i = j
<1>1. /\ Len(s) \in Nat \ {0} /\ DOMAIN s = 1..Len(s)
      /\ \A i \in 1..Len(s) : s[i] \in Classes
  OBVIOUS
<1>2. /\ r \in Seq(Classes) /\ Len(r) = Len(s) - 1
      /\ \A i \in 1..(Len(s) - 1) : r[i] = s[i]
  BY <1>1, SubSeqProperties
<1>3. DOMAIN r = 1..(Len(s) - 1)
  BY <1>1, <1>2
<1>. QED  BY <1>1, <1>2, <1>3

-----------------------------------------------------------------------------
(* Every action preserves IInv. *)

LEMMA UseStep ==
  ASSUME IInv, NEW t \in Threads, NEW c \in Classes, Use(t, c)
  PROVE  IInv'
<1>. USE NoneAssumption
<1>1. /\ TypeOK /\ OutcomeAgrees /\ NoRepetition /\ OwnerInv /\ OneOwner /\ RunnerInv /\ StartedInv
      /\ \A u \in Threads : Running(u) \subseteq Classes
  BY DEF IInv, TypeOK, Running, Range
<1>2. /\ pc[t] = "managed" /\ pc' = [pc EXCEPT ![t] = "fast"]
      /\ class' = [class EXCEPT ![t] = c] /\ finished' = finished
      /\ started' = started /\ runner' = runner /\ failed' = failed /\ lock' = lock
      /\ stack' = stack /\ runs' = runs /\ needs' = needs
  BY DEF Use, At, Go, globals
<1>3. class[t] \in Classes \/ class[t] = None
  BY <1>1 DEF TypeOK
<1>4. \A u \in Threads : Running(u)' = Running(u)
  BY <1>2 DEF Running
<1>6. TypeOK'
  BY <1>1, <1>2, <1>3, <1>4 DEF TypeOK, Locked, InClassInit, Managed, PCs
<1>7. OutcomeAgrees'
  <2>1. /\ finished' \intersect failed' = {}
        /\ finished' \union failed' \subseteq started'
    BY <1>1, <1>2, <1>3 DEF OutcomeAgrees, OwnerInv, OneOwner, Owns, Owning, TypeOK, Managed, InClassInit, Locked
  <2>2. ASSUME NEW u \in Threads, NEW e \in Running(u)'
        PROVE  runner'[e] = u /\ e \in started' \ (finished' \union failed')
    <3>1. e \in Classes /\ e \in Running(u)
      BY <1>1, <1>3, <1>4
    <3>2. runner[e] = u /\ e \in started \ (finished \union failed)
      BY <1>1, <1>2, <3>1 DEF OutcomeAgrees, OwnerInv, Owning
    <3>. QED  BY <1>1, <1>2, <1>3, <3>1, <3>2 DEF OutcomeAgrees, OwnerInv, OneOwner, Owns, Owning, TypeOK, Managed, InClassInit, Locked
  <2>. QED  BY <2>1, <2>2 DEF OutcomeAgrees
<1>8. NoRepetition'
  BY <1>1, <1>2 DEF NoRepetition
<1>9. OwnerInv'
  BY <1>1, <1>2, <1>3, <1>4 DEF OutcomeAgrees, OwnerInv, OneOwner, Owns, Owning, TypeOK, StartedInv, RunnerInv, Managed
<1>10. OneOwner'
  BY <1>1, <1>2, <1>3, <1>4 DEF OneOwner, OwnerInv, Owns, Owning, TypeOK, Managed
<1>11. RunnerInv'
  BY <1>1, <1>2, <1>3, <1>4 DEF RunnerInv, OwnerInv, Owns, Owning, TypeOK, OutcomeAgrees, Managed
<1>12. StartedInv'
  BY <1>1, <1>2, <1>3, <1>4 DEF StartedInv, OwnerInv, Owns, Owning, TypeOK
<1>. QED  BY <1>6, <1>7, <1>8, <1>9, <1>10, <1>11, <1>12 DEF IInv

LEMMA FastCheckStep ==
  ASSUME IInv, NEW t \in Threads, FastCheck(t)
  PROVE  IInv'
<1>. USE NoneAssumption
<1>1. /\ TypeOK /\ OutcomeAgrees /\ NoRepetition /\ OwnerInv /\ OneOwner /\ RunnerInv /\ StartedInv
      /\ \A u \in Threads : Running(u) \subseteq Classes
  BY DEF IInv, TypeOK, Running, Range
<1>2. /\ pc[t] = "fast" /\ finished' = finished /\ started' = started
      /\ runner' = runner /\ failed' = failed /\ lock' = lock /\ stack' = stack
      /\ runs' = runs /\ needs' = needs
  BY DEF FastCheck, At, Go, globals, Leave
<1>3. class[t] \in Classes \/ class[t] = None
  BY <1>1 DEF TypeOK
<1>4. \A u \in Threads : Running(u)' = Running(u)
  BY <1>2 DEF Running
<1>5. \/ class[t] \in finished /\ pc' = [pc EXCEPT ![t] = "managed"] /\ class' = [class EXCEPT ![t] = None]
      \/ pc' = [pc EXCEPT ![t] = "acquire"] /\ class' = class
  BY <1>1 DEF TypeOK, FastCheck, At, Go, globals, Leave
<1>6. TypeOK'
  <2>1. CASE class[t] \in finished /\ pc' = [pc EXCEPT ![t] = "managed"] /\ class' = [class EXCEPT ![t] = None]
    BY <1>1, <1>2, <1>3, <1>4, <2>1 DEF TypeOK, Locked, InClassInit, Managed, PCs
  <2>2. CASE pc' = [pc EXCEPT ![t] = "acquire"] /\ class' = class
    BY <1>1, <1>2, <1>3, <1>4, <2>2 DEF TypeOK, Locked, InClassInit, Managed, PCs
  <2>. QED  BY <1>5, <2>1, <2>2
<1>7. OutcomeAgrees'
  <2>1. /\ finished' \intersect failed' = {}
        /\ finished' \union failed' \subseteq started'
    BY <1>1, <1>2, <1>3 DEF OutcomeAgrees, OwnerInv, OneOwner, Owns, Owning, TypeOK, Managed, InClassInit, Locked
  <2>2. ASSUME NEW u \in Threads, NEW e \in Running(u)'
        PROVE  runner'[e] = u /\ e \in started' \ (finished' \union failed')
    <3>1. e \in Classes /\ e \in Running(u)
      BY <1>1, <1>3, <1>4
    <3>2. runner[e] = u /\ e \in started \ (finished \union failed)
      BY <1>1, <1>2, <3>1 DEF OutcomeAgrees, OwnerInv, Owning
    <3>. QED  BY <1>1, <1>2, <1>3, <1>5, <3>1, <3>2 DEF OutcomeAgrees, OwnerInv, OneOwner, Owns, Owning, TypeOK, Managed, InClassInit, Locked
  <2>. QED  BY <2>1, <2>2 DEF OutcomeAgrees
<1>8. NoRepetition'
  BY <1>1, <1>2 DEF NoRepetition
<1>9. OwnerInv'
  <2>1. CASE class[t] \in finished /\ pc' = [pc EXCEPT ![t] = "managed"] /\ class' = [class EXCEPT ![t] = None]
    BY <1>1, <1>2, <1>3, <1>4, <2>1 DEF OutcomeAgrees, OwnerInv, OneOwner, Owns, Owning, TypeOK, StartedInv, RunnerInv, Managed
  <2>2. CASE pc' = [pc EXCEPT ![t] = "acquire"] /\ class' = class
    BY <1>1, <1>2, <1>3, <1>4, <2>2 DEF OutcomeAgrees, OwnerInv, OneOwner, Owns, Owning, TypeOK, StartedInv, RunnerInv, Managed
  <2>. QED  BY <1>5, <2>1, <2>2
<1>10. OneOwner'
  <2>1. CASE class[t] \in finished /\ pc' = [pc EXCEPT ![t] = "managed"] /\ class' = [class EXCEPT ![t] = None]
    BY <1>1, <1>2, <1>3, <1>4, <2>1 DEF OneOwner, OwnerInv, Owns, Owning, TypeOK, Managed
  <2>2. CASE pc' = [pc EXCEPT ![t] = "acquire"] /\ class' = class
    BY <1>1, <1>2, <1>3, <1>4, <2>2 DEF OneOwner, OwnerInv, Owns, Owning, TypeOK, Managed
  <2>. QED  BY <1>5, <2>1, <2>2
<1>11. RunnerInv'
  <2>1. CASE class[t] \in finished /\ pc' = [pc EXCEPT ![t] = "managed"] /\ class' = [class EXCEPT ![t] = None]
    BY <1>1, <1>2, <1>3, <1>4, <2>1 DEF RunnerInv, OwnerInv, Owns, Owning, TypeOK, OutcomeAgrees, Managed
  <2>2. CASE pc' = [pc EXCEPT ![t] = "acquire"] /\ class' = class
    BY <1>1, <1>2, <1>3, <1>4, <2>2 DEF RunnerInv, OwnerInv, Owns, Owning, TypeOK, OutcomeAgrees, Managed
  <2>. QED  BY <1>5, <2>1, <2>2
<1>12. StartedInv'
  BY <1>1, <1>2, <1>3, <1>4, <1>5 DEF StartedInv, OwnerInv, Owns, Owning, TypeOK
<1>. QED  BY <1>6, <1>7, <1>8, <1>9, <1>10, <1>11, <1>12 DEF IInv

LEMMA AcquireLockStep ==
  ASSUME IInv, NEW t \in Threads, AcquireLock(t)
  PROVE  IInv'
<1>. USE NoneAssumption
<1>1. /\ TypeOK /\ OutcomeAgrees /\ NoRepetition /\ OwnerInv /\ OneOwner /\ RunnerInv /\ StartedInv
      /\ \A u \in Threads : Running(u) \subseteq Classes
  BY DEF IInv, TypeOK, Running, Range
<1>2. /\ pc[t] = "acquire" /\ lock = None /\ lock' = t
      /\ pc' = [pc EXCEPT ![t] = "locked"] /\ class' = class
      /\ finished' = finished /\ started' = started /\ runner' = runner
      /\ failed' = failed /\ stack' = stack /\ runs' = runs /\ needs' = needs
  BY DEF AcquireLock, At, Go, globals
<1>3. class[t] \in Classes \/ class[t] = None
  BY <1>1 DEF TypeOK
<1>4. \A u \in Threads : Running(u)' = Running(u)
  BY <1>2 DEF Running
<1>6. TypeOK'
  BY <1>1, <1>2, <1>3, <1>4 DEF TypeOK, Locked, InClassInit, Managed, PCs
<1>7. OutcomeAgrees'
  <2>1. /\ finished' \intersect failed' = {}
        /\ finished' \union failed' \subseteq started'
    BY <1>1, <1>2, <1>3 DEF OutcomeAgrees, OwnerInv, OneOwner, Owns, Owning, TypeOK, Managed, InClassInit, Locked
  <2>2. ASSUME NEW u \in Threads, NEW e \in Running(u)'
        PROVE  runner'[e] = u /\ e \in started' \ (finished' \union failed')
    <3>1. e \in Classes /\ e \in Running(u)
      BY <1>1, <1>3, <1>4
    <3>2. runner[e] = u /\ e \in started \ (finished \union failed)
      BY <1>1, <1>2, <3>1 DEF OutcomeAgrees, OwnerInv, Owning
    <3>. QED  BY <1>1, <1>2, <1>3, <3>1, <3>2 DEF OutcomeAgrees, OwnerInv, OneOwner, Owns, Owning, TypeOK, Managed, InClassInit, Locked
  <2>. QED  BY <2>1, <2>2 DEF OutcomeAgrees
<1>8. NoRepetition'
  BY <1>1, <1>2 DEF NoRepetition
<1>9. OwnerInv'
  BY <1>1, <1>2, <1>3, <1>4 DEF OutcomeAgrees, OwnerInv, OneOwner, Owns, Owning, TypeOK, StartedInv, RunnerInv, Managed
<1>10. OneOwner'
  BY <1>1, <1>2, <1>3, <1>4 DEF OneOwner, OwnerInv, Owns, Owning, TypeOK, Managed
<1>11. RunnerInv'
  BY <1>1, <1>2, <1>3, <1>4 DEF RunnerInv, OwnerInv, Owns, Owning, TypeOK, OutcomeAgrees, Managed
<1>12. StartedInv'
  BY <1>1, <1>2, <1>3, <1>4 DEF StartedInv, OwnerInv, Owns, Owning, TypeOK
<1>. QED  BY <1>6, <1>7, <1>8, <1>9, <1>10, <1>11, <1>12 DEF IInv

LEMMA LockedCheckStep ==
  ASSUME IInv, NEW t \in Threads, LockedCheck(t)
  PROVE  IInv'
<1>. USE NoneAssumption
<1>1. /\ TypeOK /\ OutcomeAgrees /\ NoRepetition /\ OwnerInv /\ OneOwner /\ RunnerInv /\ StartedInv
      /\ \A u \in Threads : Running(u) \subseteq Classes
  BY DEF IInv, TypeOK, Running, Range
<1>2. /\ pc[t] = "locked" /\ finished' = finished /\ started' = started
      /\ runner' = runner /\ failed' = failed /\ stack' = stack /\ runs' = runs
      /\ needs' = needs
  BY DEF LockedCheck, At, Go, globals, Leave, ReleaseLock
<1>3. class[t] \in Classes \/ class[t] = None
  BY <1>1 DEF TypeOK
<1>4. \A u \in Threads : Running(u)' = Running(u)
  BY <1>2 DEF Running
<1>5. \/ class[t] \in finished /\ pc' = [pc EXCEPT ![t] = "managed"] /\ class' = [class EXCEPT ![t] = None] /\ lock' = None
      \/ pc' = [pc EXCEPT ![t] = "check"] /\ class' = class /\ lock' = lock
  BY <1>1 DEF TypeOK, LockedCheck, At, Go, globals, Leave, ReleaseLock
<1>6. TypeOK'
  <2>1. CASE class[t] \in finished /\ pc' = [pc EXCEPT ![t] = "managed"] /\ class' = [class EXCEPT ![t] = None] /\ lock' = None
    BY <1>1, <1>2, <1>3, <1>4, <2>1 DEF TypeOK, Locked, InClassInit, Managed, PCs
  <2>2. CASE pc' = [pc EXCEPT ![t] = "check"] /\ class' = class /\ lock' = lock
    BY <1>1, <1>2, <1>3, <1>4, <2>2 DEF TypeOK, Locked, InClassInit, Managed, PCs
  <2>. QED  BY <1>5, <2>1, <2>2
<1>7. OutcomeAgrees'
  <2>1. /\ finished' \intersect failed' = {}
        /\ finished' \union failed' \subseteq started'
    BY <1>1, <1>2, <1>3 DEF OutcomeAgrees, OwnerInv, OneOwner, Owns, Owning, TypeOK, Managed, InClassInit, Locked
  <2>2. ASSUME NEW u \in Threads, NEW e \in Running(u)'
        PROVE  runner'[e] = u /\ e \in started' \ (finished' \union failed')
    <3>1. e \in Classes /\ e \in Running(u)
      BY <1>1, <1>3, <1>4
    <3>2. runner[e] = u /\ e \in started \ (finished \union failed)
      BY <1>1, <1>2, <3>1 DEF OutcomeAgrees, OwnerInv, Owning
    <3>. QED  BY <1>1, <1>2, <1>3, <1>5, <3>1, <3>2 DEF OutcomeAgrees, OwnerInv, OneOwner, Owns, Owning, TypeOK, Managed, InClassInit, Locked
  <2>. QED  BY <2>1, <2>2 DEF OutcomeAgrees
<1>8. NoRepetition'
  BY <1>1, <1>2 DEF NoRepetition
<1>9. OwnerInv'
  <2>1. CASE class[t] \in finished /\ pc' = [pc EXCEPT ![t] = "managed"] /\ class' = [class EXCEPT ![t] = None] /\ lock' = None
    BY <1>1, <1>2, <1>3, <1>4, <2>1 DEF OutcomeAgrees, OwnerInv, OneOwner, Owns, Owning, TypeOK, StartedInv, RunnerInv, Managed
  <2>2. CASE pc' = [pc EXCEPT ![t] = "check"] /\ class' = class /\ lock' = lock
    BY <1>1, <1>2, <1>3, <1>4, <2>2 DEF OutcomeAgrees, OwnerInv, OneOwner, Owns, Owning, TypeOK, StartedInv, RunnerInv, Managed
  <2>. QED  BY <1>5, <2>1, <2>2
<1>10. OneOwner'
  <2>1. CASE class[t] \in finished /\ pc' = [pc EXCEPT ![t] = "managed"] /\ class' = [class EXCEPT ![t] = None] /\ lock' = None
    BY <1>1, <1>2, <1>3, <1>4, <2>1 DEF OneOwner, OwnerInv, Owns, Owning, TypeOK, Managed
  <2>2. CASE pc' = [pc EXCEPT ![t] = "check"] /\ class' = class /\ lock' = lock
    BY <1>1, <1>2, <1>3, <1>4, <2>2 DEF OneOwner, OwnerInv, Owns, Owning, TypeOK, Managed
  <2>. QED  BY <1>5, <2>1, <2>2
<1>11. RunnerInv'
  <2>1. CASE class[t] \in finished /\ pc' = [pc EXCEPT ![t] = "managed"] /\ class' = [class EXCEPT ![t] = None] /\ lock' = None
    BY <1>1, <1>2, <1>3, <1>4, <2>1 DEF RunnerInv, OwnerInv, Owns, Owning, TypeOK, OutcomeAgrees, Managed
  <2>2. CASE pc' = [pc EXCEPT ![t] = "check"] /\ class' = class /\ lock' = lock
    BY <1>1, <1>2, <1>3, <1>4, <2>2 DEF RunnerInv, OwnerInv, Owns, Owning, TypeOK, OutcomeAgrees, Managed
  <2>. QED  BY <1>5, <2>1, <2>2
<1>12. StartedInv'
  BY <1>1, <1>2, <1>3, <1>4, <1>5 DEF StartedInv, OwnerInv, Owns, Owning, TypeOK
<1>. QED  BY <1>6, <1>7, <1>8, <1>9, <1>10, <1>11, <1>12 DEF IInv

LEMMA StartedCheckStep ==
  ASSUME IInv, NEW t \in Threads, StartedCheck(t)
  PROVE  IInv'
<1>. USE NoneAssumption
<1>1. /\ TypeOK /\ OutcomeAgrees /\ NoRepetition /\ OwnerInv /\ OneOwner /\ RunnerInv /\ StartedInv
      /\ \A u \in Threads : Running(u) \subseteq Classes
  BY DEF IInv, TypeOK, Running, Range
<1>2. /\ pc[t] = "check" /\ class' = class /\ finished' = finished
      /\ started' = started /\ runner' = runner /\ failed' = failed
      /\ stack' = stack /\ runs' = runs /\ needs' = needs
  BY DEF StartedCheck, At, Go, globals, AlreadyStarted, ReleaseLock
<1>3. class[t] \in Classes \/ class[t] = None
  BY <1>1 DEF TypeOK
<1>4. \A u \in Threads : Running(u)' = Running(u)
  BY <1>2 DEF Running
<1>5. \/ class[t] \in started /\ pc' = [pc EXCEPT ![t] = "recursion"] /\ lock' = None
      \/ class[t] \notin started /\ pc' = [pc EXCEPT ![t] = "claim"] /\ lock' = lock
  BY <1>1 DEF TypeOK, StartedCheck, At, Go, globals, AlreadyStarted, ReleaseLock
<1>6. TypeOK'
  <2>1. CASE class[t] \in started /\ pc' = [pc EXCEPT ![t] = "recursion"] /\ lock' = None
    BY <1>1, <1>2, <1>3, <1>4, <2>1 DEF TypeOK, Locked, InClassInit, Managed, PCs
  <2>2. CASE class[t] \notin started /\ pc' = [pc EXCEPT ![t] = "claim"] /\ lock' = lock
    BY <1>1, <1>2, <1>3, <1>4, <2>2 DEF TypeOK, Locked, InClassInit, Managed, PCs
  <2>. QED  BY <1>5, <2>1, <2>2
<1>7. OutcomeAgrees'
  <2>1. /\ finished' \intersect failed' = {}
        /\ finished' \union failed' \subseteq started'
    BY <1>1, <1>2, <1>3 DEF OutcomeAgrees, OwnerInv, OneOwner, Owns, Owning, TypeOK, Managed, InClassInit, Locked
  <2>2. ASSUME NEW u \in Threads, NEW e \in Running(u)'
        PROVE  runner'[e] = u /\ e \in started' \ (finished' \union failed')
    <3>1. e \in Classes /\ e \in Running(u)
      BY <1>1, <1>3, <1>4
    <3>2. runner[e] = u /\ e \in started \ (finished \union failed)
      BY <1>1, <1>2, <3>1 DEF OutcomeAgrees, OwnerInv, Owning
    <3>. QED  BY <1>1, <1>2, <1>3, <1>5, <3>1, <3>2 DEF OutcomeAgrees, OwnerInv, OneOwner, Owns, Owning, TypeOK, Managed, InClassInit, Locked
  <2>. QED  BY <2>1, <2>2 DEF OutcomeAgrees
<1>8. NoRepetition'
  BY <1>1, <1>2 DEF NoRepetition
<1>9. OwnerInv'
  <2>1. CASE class[t] \in started /\ pc' = [pc EXCEPT ![t] = "recursion"] /\ lock' = None
    BY <1>1, <1>2, <1>3, <1>4, <2>1 DEF OutcomeAgrees, OwnerInv, OneOwner, Owns, Owning, TypeOK, StartedInv, RunnerInv, Managed
  <2>2. CASE class[t] \notin started /\ pc' = [pc EXCEPT ![t] = "claim"] /\ lock' = lock
    BY <1>1, <1>2, <1>3, <1>4, <2>2 DEF OutcomeAgrees, OwnerInv, OneOwner, Owns, Owning, TypeOK, StartedInv, RunnerInv, Managed
  <2>. QED  BY <1>5, <2>1, <2>2
<1>10. OneOwner'
  <2>1. CASE class[t] \in started /\ pc' = [pc EXCEPT ![t] = "recursion"] /\ lock' = None
    BY <1>1, <1>2, <1>3, <1>4, <2>1 DEF OneOwner, OwnerInv, Owns, Owning, TypeOK, Managed
  <2>2. CASE class[t] \notin started /\ pc' = [pc EXCEPT ![t] = "claim"] /\ lock' = lock
    BY <1>1, <1>2, <1>3, <1>4, <2>2 DEF OneOwner, OwnerInv, Owns, Owning, TypeOK, Managed
  <2>. QED  BY <1>5, <2>1, <2>2
<1>11. RunnerInv'
  <2>1. CASE class[t] \in started /\ pc' = [pc EXCEPT ![t] = "recursion"] /\ lock' = None
    BY <1>1, <1>2, <1>3, <1>4, <2>1 DEF RunnerInv, OwnerInv, Owns, Owning, TypeOK, OutcomeAgrees, Managed
  <2>2. CASE class[t] \notin started /\ pc' = [pc EXCEPT ![t] = "claim"] /\ lock' = lock
    BY <1>1, <1>2, <1>3, <1>4, <2>2 DEF RunnerInv, OwnerInv, Owns, Owning, TypeOK, OutcomeAgrees, Managed
  <2>. QED  BY <1>5, <2>1, <2>2
<1>12. StartedInv'
  BY <1>1, <1>2, <1>3, <1>4, <1>5 DEF StartedInv, OwnerInv, Owns, Owning, TypeOK
<1>. QED  BY <1>6, <1>7, <1>8, <1>9, <1>10, <1>11, <1>12 DEF IInv

LEMMA RecursionTestStep ==
  ASSUME IInv, NEW t \in Threads, RecursionTest(t)
  PROVE  IInv'
<1>. USE NoneAssumption
<1>1. /\ TypeOK /\ OutcomeAgrees /\ NoRepetition /\ OwnerInv /\ OneOwner /\ RunnerInv /\ StartedInv
      /\ \A u \in Threads : Running(u) \subseteq Classes
  BY DEF IInv, TypeOK, Running, Range
<1>2. /\ pc[t] = "recursion" /\ finished' = finished /\ started' = started
      /\ runner' = runner /\ failed' = failed /\ lock' = lock /\ stack' = stack
      /\ runs' = runs /\ needs' = needs
  BY DEF RecursionTest, At, Go, globals, IsRecursion, Leave
<1>3. class[t] \in Classes \/ class[t] = None
  BY <1>1 DEF TypeOK
<1>4. \A u \in Threads : Running(u)' = Running(u)
  BY <1>2 DEF Running
<1>5. \/ pc' = [pc EXCEPT ![t] = "managed"] /\ class' = [class EXCEPT ![t] = None]
      \/ pc' = [pc EXCEPT ![t] = "wait"] /\ class' = class
  BY <1>1 DEF TypeOK, RecursionTest, At, Go, globals, IsRecursion, Leave
<1>6. TypeOK'
  <2>1. CASE pc' = [pc EXCEPT ![t] = "managed"] /\ class' = [class EXCEPT ![t] = None]
    BY <1>1, <1>2, <1>3, <1>4, <2>1 DEF TypeOK, Locked, InClassInit, Managed, PCs
  <2>2. CASE pc' = [pc EXCEPT ![t] = "wait"] /\ class' = class
    BY <1>1, <1>2, <1>3, <1>4, <2>2 DEF TypeOK, Locked, InClassInit, Managed, PCs
  <2>. QED  BY <1>5, <2>1, <2>2
<1>7. OutcomeAgrees'
  <2>1. /\ finished' \intersect failed' = {}
        /\ finished' \union failed' \subseteq started'
    BY <1>1, <1>2, <1>3 DEF OutcomeAgrees, OwnerInv, OneOwner, Owns, Owning, TypeOK, Managed, InClassInit, Locked
  <2>2. ASSUME NEW u \in Threads, NEW e \in Running(u)'
        PROVE  runner'[e] = u /\ e \in started' \ (finished' \union failed')
    <3>1. e \in Classes /\ e \in Running(u)
      BY <1>1, <1>3, <1>4
    <3>2. runner[e] = u /\ e \in started \ (finished \union failed)
      BY <1>1, <1>2, <3>1 DEF OutcomeAgrees, OwnerInv, Owning
    <3>. QED  BY <1>1, <1>2, <1>3, <1>5, <3>1, <3>2 DEF OutcomeAgrees, OwnerInv, OneOwner, Owns, Owning, TypeOK, Managed, InClassInit, Locked
  <2>. QED  BY <2>1, <2>2 DEF OutcomeAgrees
<1>8. NoRepetition'
  BY <1>1, <1>2 DEF NoRepetition
<1>9. OwnerInv'
  <2>1. CASE pc' = [pc EXCEPT ![t] = "managed"] /\ class' = [class EXCEPT ![t] = None]
    BY <1>1, <1>2, <1>3, <1>4, <2>1 DEF OutcomeAgrees, OwnerInv, OneOwner, Owns, Owning, TypeOK, StartedInv, RunnerInv, Managed
  <2>2. CASE pc' = [pc EXCEPT ![t] = "wait"] /\ class' = class
    BY <1>1, <1>2, <1>3, <1>4, <2>2 DEF OutcomeAgrees, OwnerInv, OneOwner, Owns, Owning, TypeOK, StartedInv, RunnerInv, Managed
  <2>. QED  BY <1>5, <2>1, <2>2
<1>10. OneOwner'
  <2>1. CASE pc' = [pc EXCEPT ![t] = "managed"] /\ class' = [class EXCEPT ![t] = None]
    BY <1>1, <1>2, <1>3, <1>4, <2>1 DEF OneOwner, OwnerInv, Owns, Owning, TypeOK, Managed
  <2>2. CASE pc' = [pc EXCEPT ![t] = "wait"] /\ class' = class
    BY <1>1, <1>2, <1>3, <1>4, <2>2 DEF OneOwner, OwnerInv, Owns, Owning, TypeOK, Managed
  <2>. QED  BY <1>5, <2>1, <2>2
<1>11. RunnerInv'
  <2>1. CASE pc' = [pc EXCEPT ![t] = "managed"] /\ class' = [class EXCEPT ![t] = None]
    BY <1>1, <1>2, <1>3, <1>4, <2>1 DEF RunnerInv, OwnerInv, Owns, Owning, TypeOK, OutcomeAgrees, Managed
  <2>2. CASE pc' = [pc EXCEPT ![t] = "wait"] /\ class' = class
    BY <1>1, <1>2, <1>3, <1>4, <2>2 DEF RunnerInv, OwnerInv, Owns, Owning, TypeOK, OutcomeAgrees, Managed
  <2>. QED  BY <1>5, <2>1, <2>2
<1>12. StartedInv'
  BY <1>1, <1>2, <1>3, <1>4, <1>5 DEF StartedInv, OwnerInv, Owns, Owning, TypeOK
<1>. QED  BY <1>6, <1>7, <1>8, <1>9, <1>10, <1>11, <1>12 DEF IInv

LEMMA WaitEndsStep ==
  ASSUME IInv, NEW t \in Threads, WaitEnds(t)
  PROVE  IInv'
<1>. USE NoneAssumption
<1>1. /\ TypeOK /\ OutcomeAgrees /\ NoRepetition /\ OwnerInv /\ OneOwner /\ RunnerInv /\ StartedInv
      /\ \A u \in Threads : Running(u) \subseteq Classes
  BY DEF IInv, TypeOK, Running, Range
<1>2. /\ pc[t] = "wait" /\ class[t] \in finished \union failed
      /\ pc' = [pc EXCEPT ![t] = "result"] /\ class' = class
      /\ finished' = finished /\ started' = started /\ runner' = runner
      /\ failed' = failed /\ lock' = lock /\ stack' = stack /\ runs' = runs
      /\ needs' = needs
  BY DEF WaitEnds, At, Go, globals, WaitIsOver
<1>3. class[t] \in Classes \/ class[t] = None
  BY <1>1 DEF TypeOK
<1>4. \A u \in Threads : Running(u)' = Running(u)
  BY <1>2 DEF Running
<1>6. TypeOK'
  BY <1>1, <1>2, <1>3, <1>4 DEF TypeOK, Locked, InClassInit, Managed, PCs
<1>7. OutcomeAgrees'
  <2>1. /\ finished' \intersect failed' = {}
        /\ finished' \union failed' \subseteq started'
    BY <1>1, <1>2, <1>3 DEF OutcomeAgrees, OwnerInv, OneOwner, Owns, Owning, TypeOK, Managed, InClassInit, Locked
  <2>2. ASSUME NEW u \in Threads, NEW e \in Running(u)'
        PROVE  runner'[e] = u /\ e \in started' \ (finished' \union failed')
    <3>1. e \in Classes /\ e \in Running(u)
      BY <1>1, <1>3, <1>4
    <3>2. runner[e] = u /\ e \in started \ (finished \union failed)
      BY <1>1, <1>2, <3>1 DEF OutcomeAgrees, OwnerInv, Owning
    <3>. QED  BY <1>1, <1>2, <1>3, <3>1, <3>2 DEF OutcomeAgrees, OwnerInv, OneOwner, Owns, Owning, TypeOK, Managed, InClassInit, Locked
  <2>. QED  BY <2>1, <2>2 DEF OutcomeAgrees
<1>8. NoRepetition'
  BY <1>1, <1>2 DEF NoRepetition
<1>9. OwnerInv'
  BY <1>1, <1>2, <1>3, <1>4 DEF OutcomeAgrees, OwnerInv, OneOwner, Owns, Owning, TypeOK, StartedInv, RunnerInv, Managed
<1>10. OneOwner'
  BY <1>1, <1>2, <1>3, <1>4 DEF OneOwner, OwnerInv, Owns, Owning, TypeOK, Managed
<1>11. RunnerInv'
  BY <1>1, <1>2, <1>3, <1>4 DEF RunnerInv, OwnerInv, Owns, Owning, TypeOK, OutcomeAgrees, Managed
<1>12. StartedInv'
  BY <1>1, <1>2, <1>3, <1>4 DEF StartedInv, OwnerInv, Owns, Owning, TypeOK
<1>. QED  BY <1>6, <1>7, <1>8, <1>9, <1>10, <1>11, <1>12 DEF IInv

LEMMA ClaimStep ==
  ASSUME IInv, NEW t \in Threads, Claim(t)
  PROVE  IInv'
<1>. USE NoneAssumption
<1>1. /\ TypeOK /\ OutcomeAgrees /\ NoRepetition /\ OwnerInv /\ OneOwner /\ RunnerInv /\ StartedInv
      /\ \A u \in Threads : Running(u) \subseteq Classes
  BY DEF IInv, TypeOK, Running, Range
<1>2. /\ pc[t] = "claim" /\ pc' = [pc EXCEPT ![t] = "publish"] /\ class' = class
      /\ runner' = [runner EXCEPT ![class[t]] = t] /\ finished' = finished
      /\ started' = started /\ failed' = failed /\ lock' = lock /\ stack' = stack
      /\ runs' = runs /\ needs' = needs
  BY DEF Claim, At, Go, globals
<1>3. /\ class[t] \in Classes
      /\ \A u \in Threads : u # t => pc[u] \notin {"locked", "check", "claim", "publish"}
  <2>1. pc[t] \in Locked /\ pc[t] \in InClassInit
    BY <1>2 DEF Locked, InClassInit
  <2>2. lock = t /\ class[t] # None
    BY <1>1, <2>1 DEF TypeOK
  <2>. QED  BY <1>1, <2>2 DEF TypeOK, Locked
<1>4. \A u \in Threads : Running(u)' = Running(u)
  BY <1>2 DEF Running
<1>6. TypeOK'
  BY <1>1, <1>2, <1>3, <1>4 DEF TypeOK, Locked, InClassInit, Managed, PCs
<1>7. OutcomeAgrees'
  <2>1. /\ finished' \intersect failed' = {}
        /\ finished' \union failed' \subseteq started'
    BY <1>1, <1>2, <1>3 DEF OutcomeAgrees, OwnerInv, OneOwner, Owns, Owning, TypeOK, Managed, InClassInit, Locked
  <2>2. ASSUME NEW u \in Threads, NEW e \in Running(u)'
        PROVE  runner'[e] = u /\ e \in started' \ (finished' \union failed')
    <3>1. e \in Classes /\ e \in Running(u)
      BY <1>1, <1>3, <1>4
    <3>2. runner[e] = u /\ e \in started \ (finished \union failed)
      BY <1>1, <1>2, <3>1 DEF OutcomeAgrees, OwnerInv, Owning
    <3>3. e # class[t]
      BY <1>1, <1>2, <3>2 DEF OwnerInv
    <3>. QED  BY <1>1, <1>2, <3>2, <3>3 DEF TypeOK
  <2>. QED  BY <2>1, <2>2 DEF OutcomeAgrees
<1>8. NoRepetition'
  BY <1>1, <1>2 DEF NoRepetition
<1>9. OwnerInv'
  BY <1>1, <1>2, <1>3, <1>4 DEF OutcomeAgrees, OwnerInv, OneOwner, Owns, Owning, TypeOK, StartedInv, RunnerInv, Managed
<1>10. OneOwner'
  BY <1>1, <1>2, <1>3, <1>4 DEF OneOwner, OwnerInv, Owns, Owning, TypeOK, Managed
<1>11. RunnerInv'
  BY <1>1, <1>2, <1>3, <1>4 DEF RunnerInv, OwnerInv, Owns, Owning, TypeOK, OutcomeAgrees, Managed
<1>12. StartedInv'
  BY <1>1, <1>2, <1>3, <1>4 DEF StartedInv, OwnerInv, Owns, Owning, TypeOK
<1>. QED  BY <1>6, <1>7, <1>8, <1>9, <1>10, <1>11, <1>12 DEF IInv

LEMMA PublishStep ==
  ASSUME IInv, NEW t \in Threads, Publish(t)
  PROVE  IInv'
<1>. USE NoneAssumption
<1>1. /\ TypeOK /\ OutcomeAgrees /\ NoRepetition /\ OwnerInv /\ OneOwner /\ RunnerInv /\ StartedInv
      /\ \A u \in Threads : Running(u) \subseteq Classes
  BY DEF IInv, TypeOK, Running, Range
<1>2. /\ pc[t] = "publish" /\ pc' = [pc EXCEPT ![t] = "run"] /\ class' = class
      /\ started' = started \union {class[t]} /\ lock' = None
      /\ finished' = finished /\ runner' = runner /\ failed' = failed
      /\ stack' = stack /\ runs' = runs /\ needs' = needs
  BY DEF Publish, At, Go, globals, ReleaseLock
<1>3. /\ class[t] \in Classes
      /\ \A u \in Threads : u # t => pc[u] \notin {"locked", "check", "claim", "publish"}
  <2>1. pc[t] \in Locked /\ pc[t] \in InClassInit
    BY <1>2 DEF Locked, InClassInit
  <2>2. lock = t /\ class[t] # None
    BY <1>1, <2>1 DEF TypeOK
  <2>. QED  BY <1>1, <2>2 DEF TypeOK, Locked
<1>4. \A u \in Threads : Running(u)' = Running(u)
  BY <1>2 DEF Running
<1>6. TypeOK'
  BY <1>1, <1>2, <1>3, <1>4 DEF TypeOK, Locked, InClassInit, Managed, PCs
<1>7. OutcomeAgrees'
  <2>1. /\ finished' \intersect failed' = {}
        /\ finished' \union failed' \subseteq started'
    BY <1>1, <1>2, <1>3 DEF OutcomeAgrees, OwnerInv, OneOwner, Owns, Owning, TypeOK, Managed, InClassInit, Locked
  <2>2. ASSUME NEW u \in Threads, NEW e \in Running(u)'
        PROVE  runner'[e] = u /\ e \in started' \ (finished' \union failed')
    <3>1. e \in Classes /\ e \in Running(u)
      BY <1>1, <1>3, <1>4
    <3>2. runner[e] = u /\ e \in started \ (finished \union failed)
      BY <1>1, <1>2, <3>1 DEF OutcomeAgrees, OwnerInv, Owning
    <3>. QED  BY <1>1, <1>2, <3>2 DEF OutcomeAgrees
  <2>. QED  BY <2>1, <2>2 DEF OutcomeAgrees
<1>8. NoRepetition'
  BY <1>1, <1>2 DEF NoRepetition
<1>9. OwnerInv'
  BY <1>1, <1>2, <1>3, <1>4 DEF OutcomeAgrees, OwnerInv, OneOwner, Owns, Owning, TypeOK, StartedInv, RunnerInv, Managed
<1>10. OneOwner'
  BY <1>1, <1>2, <1>3, <1>4 DEF OneOwner, OwnerInv, Owns, Owning, TypeOK, Managed
<1>11. RunnerInv'
  BY <1>1, <1>2, <1>3, <1>4 DEF RunnerInv, OwnerInv, Owns, Owning, TypeOK, OutcomeAgrees, Managed
<1>12. StartedInv'
  BY <1>1, <1>2, <1>3, <1>4 DEF StartedInv, OwnerInv, Owns, Owning, TypeOK
<1>. QED  BY <1>6, <1>7, <1>8, <1>9, <1>10, <1>11, <1>12 DEF IInv

LEMMA CallCctorStep ==
  ASSUME IInv, NEW t \in Threads, CallCctor(t)
  PROVE  IInv'
<1>. USE NoneAssumption
<1>1. /\ TypeOK /\ OutcomeAgrees /\ NoRepetition /\ OwnerInv /\ OneOwner /\ RunnerInv /\ StartedInv
      /\ \A u \in Threads : Running(u) \subseteq Classes
  BY DEF IInv, TypeOK, Running, Range
<1>2. /\ pc[t] = "run" /\ pc' = [pc EXCEPT ![t] = "managed"]
      /\ class' = [class EXCEPT ![t] = None]
      /\ runs' = [runs EXCEPT ![class[t]] = @ + 1] /\ finished' = finished
      /\ started' = started /\ runner' = runner /\ failed' = failed /\ lock' = lock
      /\ needs' = needs
  BY DEF CallCctor, At, Go, globals
<1>3. class[t] \in Classes /\ class[t] \notin Running(t)
  BY <1>1, <1>2 DEF TypeOK, OwnerInv, Owns, Owning, Locked, InClassInit, Managed, PCs
<1>4. /\ stack' = [stack EXCEPT ![t] = Append(@, class[t])]
      /\ \A u \in Threads : Running(u)' = IF u = t THEN Running(u) \union {class[t]} ELSE Running(u)
  <2>1. stack' = [stack EXCEPT ![t] = Append(@, class[t])]
    BY DEF CallCctor
  <2>2. stack[t] \in Seq(Classes) /\ stack'[t] = Append(stack[t], class[t])
    BY <1>1, <2>1 DEF TypeOK
  <2>4. Running(t)' = Running(t) \union {class[t]}
    BY <1>3, <2>2, RunningAfterCall DEF Running
  <2>3. \A u \in Threads : u # t => Running(u)' = Running(u)
    BY <1>1, <2>1 DEF TypeOK, Running
  <2>. QED  BY <2>1, <2>3, <2>4
<1>6. TypeOK'
  BY <1>1, <1>2, <1>3, <1>4 DEF TypeOK, Locked, InClassInit, Managed, PCs
<1>7. OutcomeAgrees'
  <2>1. /\ finished' \intersect failed' = {}
        /\ finished' \union failed' \subseteq started'
    BY <1>1, <1>2, <1>3 DEF OutcomeAgrees, OwnerInv, OneOwner, Owns, Owning, TypeOK, Managed, InClassInit, Locked
  <2>2. ASSUME NEW u \in Threads, NEW e \in Running(u)'
        PROVE  runner'[e] = u /\ e \in started' \ (finished' \union failed')
    <3>1. e \in Classes /\ ((e = class[t] /\ u = t) \/ e \in Running(u))
      BY <1>1, <1>3, <1>4
    <3>2. runner[e] = u /\ e \in started \ (finished \union failed)
      BY <1>1, <1>2, <3>1 DEF OutcomeAgrees, OwnerInv, Owning
    <3>. QED  BY <1>1, <1>2, <1>3, <3>1, <3>2 DEF OutcomeAgrees, OwnerInv, OneOwner, Owns, Owning, TypeOK, Managed, InClassInit, Locked
  <2>. QED  BY <2>1, <2>2 DEF OutcomeAgrees
<1>8. NoRepetition'
    <2>1. stack[t] \in Seq(Classes) /\ stack'[t] = Append(stack[t], class[t])
    BY <1>1, <1>4 DEF TypeOK
  <2>2. \A i, j \in DOMAIN stack'[t] : stack'[t][i] = stack'[t][j] => i = j
    BY <1>1, <1>3, <2>1, NoRepetitionAfterCall DEF NoRepetition, Running
  <2>. QED  BY <1>1, <1>4, <2>2 DEF NoRepetition, TypeOK
<1>9. OwnerInv'
  BY <1>1, <1>2, <1>3, <1>4 DEF OutcomeAgrees, OwnerInv, OneOwner, Owns, Owning, TypeOK, StartedInv, RunnerInv, Managed
<1>10. OneOwner'
  BY <1>1, <1>2, <1>3, <1>4 DEF OneOwner, OwnerInv, Owns, Owning, TypeOK, Managed
<1>11. RunnerInv'
  BY <1>1, <1>2, <1>3, <1>4 DEF RunnerInv, OwnerInv, Owns, Owning, TypeOK, OutcomeAgrees, Managed
<1>12. StartedInv'
  BY <1>1, <1>2, <1>3, <1>4 DEF StartedInv, OwnerInv, Owns, Owning, TypeOK
<1>. QED  BY <1>6, <1>7, <1>8, <1>9, <1>10, <1>11, <1>12 DEF IInv

LEMMA ClearRunnerStep ==
  ASSUME IInv, NEW t \in Threads, ClearRunner(t)
  PROVE  IInv'
<1>. USE NoneAssumption
<1>1. /\ TypeOK /\ OutcomeAgrees /\ NoRepetition /\ OwnerInv /\ OneOwner /\ RunnerInv /\ StartedInv
      /\ \A u \in Threads : Running(u) \subseteq Classes
  BY DEF IInv, TypeOK, Running, Range
<1>2. /\ class' = class /\ runner' = [runner EXCEPT ![class[t]] = None]
      /\ finished' = finished /\ started' = started /\ failed' = failed
      /\ lock' = lock /\ stack' = stack /\ runs' = runs /\ needs' = needs
  BY DEF ClearRunner, At, Go, globals, AfterCctor
<1>3. class[t] \in Classes \/ class[t] = None
  BY <1>1 DEF TypeOK
<1>4. \A u \in Threads : Running(u)' = Running(u)
  BY <1>2 DEF Running
<1>5. \/ pc[t] = "ended" /\ pc' = [pc EXCEPT ![t] = "finish"]
      \/ pc[t] = "threw" /\ pc' = [pc EXCEPT ![t] = "fail"]
  BY <1>1 DEF TypeOK, ClearRunner, At, Go, globals, AfterCctor
<1>6. TypeOK'
  <2>1. CASE pc[t] = "ended" /\ pc' = [pc EXCEPT ![t] = "finish"]
    BY <1>1, <1>2, <1>3, <1>4, <2>1 DEF TypeOK, Locked, InClassInit, Managed, PCs
  <2>2. CASE pc[t] = "threw" /\ pc' = [pc EXCEPT ![t] = "fail"]
    BY <1>1, <1>2, <1>3, <1>4, <2>2 DEF TypeOK, Locked, InClassInit, Managed, PCs
  <2>. QED  BY <1>5, <2>1, <2>2
<1>7. OutcomeAgrees'
  <2>1. /\ finished' \intersect failed' = {}
        /\ finished' \union failed' \subseteq started'
    BY <1>1, <1>2, <1>3 DEF OutcomeAgrees, OwnerInv, OneOwner, Owns, Owning, TypeOK, Managed, InClassInit, Locked
  <2>2. ASSUME NEW u \in Threads, NEW e \in Running(u)'
        PROVE  runner'[e] = u /\ e \in started' \ (finished' \union failed')
    <3>1. e \in Classes /\ e \in Running(u)
      BY <1>1, <1>3, <1>4
    <3>2. runner[e] = u /\ e \in started \ (finished \union failed)
      BY <1>1, <1>2, <3>1 DEF OutcomeAgrees, OwnerInv, Owning
    <3>. QED  BY <1>1, <1>2, <1>3, <1>5, <3>1, <3>2 DEF OutcomeAgrees, OwnerInv, OneOwner, Owns, Owning, TypeOK, Managed, InClassInit, Locked
  <2>. QED  BY <2>1, <2>2 DEF OutcomeAgrees
<1>8. NoRepetition'
  BY <1>1, <1>2 DEF NoRepetition
<1>9. OwnerInv'
  <2>1. CASE pc[t] = "ended" /\ pc' = [pc EXCEPT ![t] = "finish"]
    BY <1>1, <1>2, <1>3, <1>4, <2>1 DEF OutcomeAgrees, OwnerInv, OneOwner, Owns, Owning, TypeOK, StartedInv, RunnerInv, Managed
  <2>2. CASE pc[t] = "threw" /\ pc' = [pc EXCEPT ![t] = "fail"]
    BY <1>1, <1>2, <1>3, <1>4, <2>2 DEF OutcomeAgrees, OwnerInv, OneOwner, Owns, Owning, TypeOK, StartedInv, RunnerInv, Managed
  <2>. QED  BY <1>5, <2>1, <2>2
<1>10. OneOwner'
  <2>1. CASE pc[t] = "ended" /\ pc' = [pc EXCEPT ![t] = "finish"]
    BY <1>1, <1>2, <1>3, <1>4, <2>1 DEF OneOwner, OwnerInv, Owns, Owning, TypeOK, Managed
  <2>2. CASE pc[t] = "threw" /\ pc' = [pc EXCEPT ![t] = "fail"]
    BY <1>1, <1>2, <1>3, <1>4, <2>2 DEF OneOwner, OwnerInv, Owns, Owning, TypeOK, Managed
  <2>. QED  BY <1>5, <2>1, <2>2
<1>11. RunnerInv'
  <2>1. CASE pc[t] = "ended" /\ pc' = [pc EXCEPT ![t] = "finish"]
    BY <1>1, <1>2, <1>3, <1>4, <2>1 DEF RunnerInv, OwnerInv, Owns, Owning, TypeOK, OutcomeAgrees, Managed
  <2>2. CASE pc[t] = "threw" /\ pc' = [pc EXCEPT ![t] = "fail"]
    BY <1>1, <1>2, <1>3, <1>4, <2>2 DEF RunnerInv, OwnerInv, Owns, Owning, TypeOK, OutcomeAgrees, Managed
  <2>. QED  BY <1>5, <2>1, <2>2
<1>12. StartedInv'
  BY <1>1, <1>2, <1>3, <1>4, <1>5 DEF StartedInv, OwnerInv, Owns, Owning, TypeOK
<1>. QED  BY <1>6, <1>7, <1>8, <1>9, <1>10, <1>11, <1>12 DEF IInv

LEMMA FinishStep ==
  ASSUME IInv, NEW t \in Threads, Finish(t)
  PROVE  IInv'
<1>. USE NoneAssumption
<1>1. /\ TypeOK /\ OutcomeAgrees /\ NoRepetition /\ OwnerInv /\ OneOwner /\ RunnerInv /\ StartedInv
      /\ \A u \in Threads : Running(u) \subseteq Classes
  BY DEF IInv, TypeOK, Running, Range
<1>2. /\ pc[t] = "finish" /\ pc' = [pc EXCEPT ![t] = "result"] /\ class' = class
      /\ finished' = finished \union {class[t]} /\ started' = started
      /\ runner' = runner /\ failed' = failed /\ lock' = lock /\ stack' = stack
      /\ runs' = runs /\ needs' = needs
  BY DEF Finish, At, Go, globals
<1>3. class[t] \in Classes \/ class[t] = None
  BY <1>1 DEF TypeOK
<1>4. \A u \in Threads : Running(u)' = Running(u)
  BY <1>2 DEF Running
<1>6. TypeOK'
  BY <1>1, <1>2, <1>3, <1>4 DEF TypeOK, Locked, InClassInit, Managed, PCs
<1>7. OutcomeAgrees'
  <2>1. /\ finished' \intersect failed' = {}
        /\ finished' \union failed' \subseteq started'
    BY <1>1, <1>2, <1>3 DEF OutcomeAgrees, OwnerInv, OneOwner, Owns, Owning, TypeOK, Managed, InClassInit, Locked
  <2>2. ASSUME NEW u \in Threads, NEW e \in Running(u)'
        PROVE  runner'[e] = u /\ e \in started' \ (finished' \union failed')
    <3>1. e \in Classes /\ e \in Running(u)
      BY <1>1, <1>3, <1>4
    <3>2. runner[e] = u /\ e \in started \ (finished \union failed)
      BY <1>1, <1>2, <3>1 DEF OutcomeAgrees, OwnerInv, Owning
    <3>. QED  BY <1>1, <1>2, <1>3, <3>1, <3>2 DEF OutcomeAgrees, OwnerInv, OneOwner, Owns, Owning, TypeOK, Managed, InClassInit, Locked
  <2>. QED  BY <2>1, <2>2 DEF OutcomeAgrees
<1>8. NoRepetition'
  BY <1>1, <1>2 DEF NoRepetition
<1>9. OwnerInv'
  BY <1>1, <1>2, <1>3, <1>4 DEF OutcomeAgrees, OwnerInv, OneOwner, Owns, Owning, TypeOK, StartedInv, RunnerInv, Managed
<1>10. OneOwner'
  BY <1>1, <1>2, <1>3, <1>4 DEF OneOwner, OwnerInv, Owns, Owning, TypeOK, Managed
<1>11. RunnerInv'
  BY <1>1, <1>2, <1>3, <1>4 DEF RunnerInv, OwnerInv, Owns, Owning, TypeOK, OutcomeAgrees, Managed
<1>12. StartedInv'
  BY <1>1, <1>2, <1>3, <1>4 DEF StartedInv, OwnerInv, Owns, Owning, TypeOK
<1>. QED  BY <1>6, <1>7, <1>8, <1>9, <1>10, <1>11, <1>12 DEF IInv

LEMMA FailStep ==
  ASSUME IInv, NEW t \in Threads, Fail(t)
  PROVE  IInv'
<1>. USE NoneAssumption
<1>1. /\ TypeOK /\ OutcomeAgrees /\ NoRepetition /\ OwnerInv /\ OneOwner /\ RunnerInv /\ StartedInv
      /\ \A u \in Threads : Running(u) \subseteq Classes
  BY DEF IInv, TypeOK, Running, Range
<1>2. /\ pc[t] = "fail" /\ pc' = [pc EXCEPT ![t] = "result"] /\ class' = class
      /\ failed' = failed \union {class[t]} /\ started' = started
      /\ runner' = runner /\ finished' = finished /\ lock' = lock /\ stack' = stack
      /\ runs' = runs /\ needs' = needs
  BY DEF Fail, At, Go, globals
<1>3. class[t] \in Classes \/ class[t] = None
  BY <1>1 DEF TypeOK
<1>4. \A u \in Threads : Running(u)' = Running(u)
  BY <1>2 DEF Running
<1>6. TypeOK'
  BY <1>1, <1>2, <1>3, <1>4 DEF TypeOK, Locked, InClassInit, Managed, PCs
<1>7. OutcomeAgrees'
  <2>1. /\ finished' \intersect failed' = {}
        /\ finished' \union failed' \subseteq started'
    BY <1>1, <1>2, <1>3 DEF OutcomeAgrees, OwnerInv, OneOwner, Owns, Owning, TypeOK, Managed, InClassInit, Locked
  <2>2. ASSUME NEW u \in Threads, NEW e \in Running(u)'
        PROVE  runner'[e] = u /\ e \in started' \ (finished' \union failed')
    <3>1. e \in Classes /\ e \in Running(u)
      BY <1>1, <1>3, <1>4
    <3>2. runner[e] = u /\ e \in started \ (finished \union failed)
      BY <1>1, <1>2, <3>1 DEF OutcomeAgrees, OwnerInv, Owning
    <3>. QED  BY <1>1, <1>2, <1>3, <3>1, <3>2 DEF OutcomeAgrees, OwnerInv, OneOwner, Owns, Owning, TypeOK, Managed, InClassInit, Locked
  <2>. QED  BY <2>1, <2>2 DEF OutcomeAgrees
<1>8. NoRepetition'
  BY <1>1, <1>2 DEF NoRepetition
<1>9. OwnerInv'
  BY <1>1, <1>2, <1>3, <1>4 DEF OutcomeAgrees, OwnerInv, OneOwner, Owns, Owning, TypeOK, StartedInv, RunnerInv, Managed
<1>10. OneOwner'
  BY <1>1, <1>2, <1>3, <1>4 DEF OneOwner, OwnerInv, Owns, Owning, TypeOK, Managed
<1>11. RunnerInv'
  BY <1>1, <1>2, <1>3, <1>4 DEF RunnerInv, OwnerInv, Owns, Owning, TypeOK, OutcomeAgrees, Managed
<1>12. StartedInv'
  BY <1>1, <1>2, <1>3, <1>4 DEF StartedInv, OwnerInv, Owns, Owning, TypeOK
<1>. QED  BY <1>6, <1>7, <1>8, <1>9, <1>10, <1>11, <1>12 DEF IInv

LEMMA ResultStep ==
  ASSUME IInv, NEW t \in Threads, Result(t)
  PROVE  IInv'
<1>. USE NoneAssumption
<1>1. /\ TypeOK /\ OutcomeAgrees /\ NoRepetition /\ OwnerInv /\ OneOwner /\ RunnerInv /\ StartedInv
      /\ \A u \in Threads : Running(u) \subseteq Classes
  BY DEF IInv, TypeOK, Running, Range
<1>2. /\ pc[t] = "result" /\ class' = [class EXCEPT ![t] = None]
      /\ finished' = finished /\ started' = started /\ runner' = runner
      /\ failed' = failed /\ lock' = lock /\ stack' = stack /\ runs' = runs
      /\ needs' = needs
  BY DEF Result, At, Go, globals, Leave, ResultOf
<1>3. class[t] \in Classes \/ class[t] = None
  BY <1>1 DEF TypeOK
<1>4. \A u \in Threads : Running(u)' = Running(u)
  BY <1>2 DEF Running
<1>5. \/ pc' = [pc EXCEPT ![t] = "managed"]
      \/ pc' = [pc EXCEPT ![t] = "raised"]
  BY <1>1 DEF TypeOK, Result, At, Go, globals, Leave, ResultOf
<1>6. TypeOK'
  <2>1. CASE pc' = [pc EXCEPT ![t] = "managed"]
    BY <1>1, <1>2, <1>3, <1>4, <2>1 DEF TypeOK, Locked, InClassInit, Managed, PCs
  <2>2. CASE pc' = [pc EXCEPT ![t] = "raised"]
    BY <1>1, <1>2, <1>3, <1>4, <2>2 DEF TypeOK, Locked, InClassInit, Managed, PCs
  <2>. QED  BY <1>5, <2>1, <2>2
<1>7. OutcomeAgrees'
  <2>1. /\ finished' \intersect failed' = {}
        /\ finished' \union failed' \subseteq started'
    BY <1>1, <1>2, <1>3 DEF OutcomeAgrees, OwnerInv, OneOwner, Owns, Owning, TypeOK, Managed, InClassInit, Locked
  <2>2. ASSUME NEW u \in Threads, NEW e \in Running(u)'
        PROVE  runner'[e] = u /\ e \in started' \ (finished' \union failed')
    <3>1. e \in Classes /\ e \in Running(u)
      BY <1>1, <1>3, <1>4
    <3>2. runner[e] = u /\ e \in started \ (finished \union failed)
      BY <1>1, <1>2, <3>1 DEF OutcomeAgrees, OwnerInv, Owning
    <3>. QED  BY <1>1, <1>2, <1>3, <1>5, <3>1, <3>2 DEF OutcomeAgrees, OwnerInv, OneOwner, Owns, Owning, TypeOK, Managed, InClassInit, Locked
  <2>. QED  BY <2>1, <2>2 DEF OutcomeAgrees
<1>8. NoRepetition'
  BY <1>1, <1>2 DEF NoRepetition
<1>9. OwnerInv'
  <2>1. CASE pc' = [pc EXCEPT ![t] = "managed"]
    BY <1>1, <1>2, <1>3, <1>4, <2>1 DEF OutcomeAgrees, OwnerInv, OneOwner, Owns, Owning, TypeOK, StartedInv, RunnerInv, Managed
  <2>2. CASE pc' = [pc EXCEPT ![t] = "raised"]
    BY <1>1, <1>2, <1>3, <1>4, <2>2 DEF OutcomeAgrees, OwnerInv, OneOwner, Owns, Owning, TypeOK, StartedInv, RunnerInv, Managed
  <2>. QED  BY <1>5, <2>1, <2>2
<1>10. OneOwner'
  <2>1. CASE pc' = [pc EXCEPT ![t] = "managed"]
    BY <1>1, <1>2, <1>3, <1>4, <2>1 DEF OneOwner, OwnerInv, Owns, Owning, TypeOK, Managed
  <2>2. CASE pc' = [pc EXCEPT ![t] = "raised"]
    BY <1>1, <1>2, <1>3, <1>4, <2>2 DEF OneOwner, OwnerInv, Owns, Owning, TypeOK, Managed
  <2>. QED  BY <1>5, <2>1, <2>2
<1>11. RunnerInv'
  <2>1. CASE pc' = [pc EXCEPT ![t] = "managed"]
    BY <1>1, <1>2, <1>3, <1>4, <2>1 DEF RunnerInv, OwnerInv, Owns, Owning, TypeOK, OutcomeAgrees, Managed
  <2>2. CASE pc' = [pc EXCEPT ![t] = "raised"]
    BY <1>1, <1>2, <1>3, <1>4, <2>2 DEF RunnerInv, OwnerInv, Owns, Owning, TypeOK, OutcomeAgrees, Managed
  <2>. QED  BY <1>5, <2>1, <2>2
<1>12. StartedInv'
  BY <1>1, <1>2, <1>3, <1>4, <1>5 DEF StartedInv, OwnerInv, Owns, Owning, TypeOK
<1>. QED  BY <1>6, <1>7, <1>8, <1>9, <1>10, <1>11, <1>12 DEF IInv

LEMMA CctorReturnsStep ==
  ASSUME IInv, NEW t \in Threads, CctorReturns(t)
  PROVE  IInv'
<1>. USE NoneAssumption
<1>1. /\ TypeOK /\ OutcomeAgrees /\ NoRepetition /\ OwnerInv /\ OneOwner /\ RunnerInv /\ StartedInv
      /\ \A u \in Threads : Running(u) \subseteq Classes
  BY DEF IInv, TypeOK, Running, Range
<1>2. /\ pc[t] = "managed" /\ pc' = [pc EXCEPT ![t] = "ended"]
      /\ finished' = finished /\ started' = started /\ runner' = runner
      /\ failed' = failed /\ lock' = lock /\ runs' = runs /\ needs' = needs
  BY DEF CctorReturns, At, Go, globals, PopFrame
<1>3. /\ stack' = [stack EXCEPT ![t] = SubSeq(@, 1, Len(@) - 1)]
      /\ class' = [class EXCEPT ![t] = stack[t][Len(stack[t])]]
      /\ stack[t] # <<>> /\ stack[t] \in Seq(Classes)
  BY <1>1 DEF TypeOK, CctorReturns, PopFrame
<1>4. /\ class'[t] \in Classes /\ class'[t] \in Running(t)
      /\ stack' \in [Threads -> Seq(Classes)]
      /\ \A u \in Threads : Running(u)' = IF u = t THEN Running(u) \ {class'[t]} ELSE Running(u)
  <2>1. /\ class'[t] = stack[t][Len(stack[t])]
        /\ stack'[t] = SubSeq(stack[t], 1, Len(stack[t]) - 1)
    BY <1>1, <1>3 DEF TypeOK
  <2>5. \A i, j \in DOMAIN stack[t] : stack[t][i] = stack[t][j] => i = j
    BY <1>1 DEF NoRepetition
  <2>2. /\ class'[t] \in Classes /\ class'[t] \in Running(t) /\ stack'[t] \in Seq(Classes)
        /\ Running(t)' = Running(t) \ {class'[t]}
    <3>2. stack[t] \in Seq(Classes) /\ stack[t] # <<>>
      BY <1>3
    <3>1. /\ stack'[t] \in Seq(Classes) /\ class'[t] \in Classes
          /\ class'[t] \in Range(stack[t])
          /\ Range(stack'[t]) = Range(stack[t]) \ {class'[t]}
      BY <3>2, <2>1, <2>5, RunningAfterReturn
    <3>. QED  BY <3>1 DEF Running
  <2>3. \A u \in Threads : u # t => Running(u)' = Running(u)
    BY <1>1, <1>3 DEF TypeOK, Running
  <2>4. stack' \in [Threads -> Seq(Classes)]
    BY <1>1, <1>3, <2>2 DEF TypeOK
  <2>. QED  BY <2>2, <2>3, <2>4
<1>6. TypeOK'
  BY <1>1, <1>2, <1>3, <1>4 DEF TypeOK, Locked, InClassInit, Managed, PCs
<1>7. OutcomeAgrees'
  <2>1. /\ finished' \intersect failed' = {}
        /\ finished' \union failed' \subseteq started'
    BY <1>1, <1>2, <1>3 DEF OutcomeAgrees, OwnerInv, OneOwner, Owns, Owning, TypeOK, Managed, InClassInit, Locked
  <2>2. ASSUME NEW u \in Threads, NEW e \in Running(u)'
        PROVE  runner'[e] = u /\ e \in started' \ (finished' \union failed')
    <3>1. e \in Classes /\ e \in Running(u)
      BY <1>1, <1>3, <1>4
    <3>2. runner[e] = u /\ e \in started \ (finished \union failed)
      BY <1>1, <1>2, <3>1 DEF OutcomeAgrees, OwnerInv, Owning
    <3>. QED  BY <1>1, <1>2, <1>3, <3>1, <3>2 DEF OutcomeAgrees, OwnerInv, OneOwner, Owns, Owning, TypeOK, Managed, InClassInit, Locked
  <2>. QED  BY <2>1, <2>2 DEF OutcomeAgrees
<1>8. NoRepetition'
  BY <1>1, <1>3, NoRepetitionAfterReturn DEF NoRepetition, TypeOK
<1>9. OwnerInv'
  BY <1>1, <1>2, <1>3, <1>4 DEF OutcomeAgrees, OwnerInv, OneOwner, Owns, Owning, TypeOK, StartedInv, RunnerInv, Managed
<1>10. OneOwner'
  BY <1>1, <1>2, <1>3, <1>4 DEF OneOwner, OwnerInv, Owns, Owning, TypeOK, Managed
<1>11. RunnerInv'
  BY <1>1, <1>2, <1>3, <1>4 DEF RunnerInv, OwnerInv, Owns, Owning, TypeOK, OutcomeAgrees, Managed
<1>12. StartedInv'
  BY <1>1, <1>2, <1>3, <1>4 DEF StartedInv, OwnerInv, Owns, Owning, TypeOK
<1>. QED  BY <1>6, <1>7, <1>8, <1>9, <1>10, <1>11, <1>12 DEF IInv

LEMMA CctorThrowsStep ==
  ASSUME IInv, NEW t \in Threads, CctorThrows(t)
  PROVE  IInv'
<1>. USE NoneAssumption
<1>1. /\ TypeOK /\ OutcomeAgrees /\ NoRepetition /\ OwnerInv /\ OneOwner /\ RunnerInv /\ StartedInv
      /\ \A u \in Threads : Running(u) \subseteq Classes
  BY DEF IInv, TypeOK, Running, Range
<1>2. /\ pc[t] \in Managed /\ pc' = [pc EXCEPT ![t] = "threw"]
      /\ finished' = finished /\ started' = started /\ runner' = runner
      /\ failed' = failed /\ lock' = lock /\ runs' = runs /\ needs' = needs
  BY DEF CctorThrows, At, Go, globals, PopFrame, Managed
<1>3. /\ stack' = [stack EXCEPT ![t] = SubSeq(@, 1, Len(@) - 1)]
      /\ class' = [class EXCEPT ![t] = stack[t][Len(stack[t])]]
      /\ stack[t] # <<>> /\ stack[t] \in Seq(Classes)
  BY <1>1 DEF TypeOK, CctorThrows, PopFrame
<1>4. /\ class'[t] \in Classes /\ class'[t] \in Running(t)
      /\ stack' \in [Threads -> Seq(Classes)]
      /\ \A u \in Threads : Running(u)' = IF u = t THEN Running(u) \ {class'[t]} ELSE Running(u)
  <2>1. /\ class'[t] = stack[t][Len(stack[t])]
        /\ stack'[t] = SubSeq(stack[t], 1, Len(stack[t]) - 1)
    BY <1>1, <1>3 DEF TypeOK
  <2>5. \A i, j \in DOMAIN stack[t] : stack[t][i] = stack[t][j] => i = j
    BY <1>1 DEF NoRepetition
  <2>2. /\ class'[t] \in Classes /\ class'[t] \in Running(t) /\ stack'[t] \in Seq(Classes)
        /\ Running(t)' = Running(t) \ {class'[t]}
    <3>2. stack[t] \in Seq(Classes) /\ stack[t] # <<>>
      BY <1>3
    <3>1. /\ stack'[t] \in Seq(Classes) /\ class'[t] \in Classes
          /\ class'[t] \in Range(stack[t])
          /\ Range(stack'[t]) = Range(stack[t]) \ {class'[t]}
      BY <3>2, <2>1, <2>5, RunningAfterReturn
    <3>. QED  BY <3>1 DEF Running
  <2>3. \A u \in Threads : u # t => Running(u)' = Running(u)
    BY <1>1, <1>3 DEF TypeOK, Running
  <2>4. stack' \in [Threads -> Seq(Classes)]
    BY <1>1, <1>3, <2>2 DEF TypeOK
  <2>. QED  BY <2>2, <2>3, <2>4
<1>6. TypeOK'
  BY <1>1, <1>2, <1>3, <1>4 DEF TypeOK, Locked, InClassInit, Managed, PCs
<1>7. OutcomeAgrees'
  <2>1. /\ finished' \intersect failed' = {}
        /\ finished' \union failed' \subseteq started'
    BY <1>1, <1>2, <1>3 DEF OutcomeAgrees, OwnerInv, OneOwner, Owns, Owning, TypeOK, Managed, InClassInit, Locked
  <2>2. ASSUME NEW u \in Threads, NEW e \in Running(u)'
        PROVE  runner'[e] = u /\ e \in started' \ (finished' \union failed')
    <3>1. e \in Classes /\ e \in Running(u)
      BY <1>1, <1>3, <1>4
    <3>2. runner[e] = u /\ e \in started \ (finished \union failed)
      BY <1>1, <1>2, <3>1 DEF OutcomeAgrees, OwnerInv, Owning
    <3>. QED  BY <1>1, <1>2, <1>3, <3>1, <3>2 DEF OutcomeAgrees, OwnerInv, OneOwner, Owns, Owning, TypeOK, Managed, InClassInit, Locked
  <2>. QED  BY <2>1, <2>2 DEF OutcomeAgrees
<1>8. NoRepetition'
  BY <1>1, <1>3, NoRepetitionAfterReturn DEF NoRepetition, TypeOK
<1>9. OwnerInv'
  BY <1>1, <1>2, <1>3, <1>4 DEF OutcomeAgrees, OwnerInv, OneOwner, Owns, Owning, TypeOK, StartedInv, RunnerInv, Managed
<1>10. OneOwner'
  BY <1>1, <1>2, <1>3, <1>4 DEF OneOwner, OwnerInv, Owns, Owning, TypeOK, Managed
<1>11. RunnerInv'
  BY <1>1, <1>2, <1>3, <1>4 DEF RunnerInv, OwnerInv, Owns, Owning, TypeOK, OutcomeAgrees, Managed
<1>12. StartedInv'
  BY <1>1, <1>2, <1>3, <1>4 DEF StartedInv, OwnerInv, Owns, Owning, TypeOK
<1>. QED  BY <1>6, <1>7, <1>8, <1>9, <1>10, <1>11, <1>12 DEF IInv

LEMMA HandleStep ==
  ASSUME IInv, NEW t \in Threads, Handle(t)
  PROVE  IInv'
<1>. USE NoneAssumption
<1>1. /\ TypeOK /\ OutcomeAgrees /\ NoRepetition /\ OwnerInv /\ OneOwner /\ RunnerInv /\ StartedInv
      /\ \A u \in Threads : Running(u) \subseteq Classes
  BY DEF IInv, TypeOK, Running, Range
<1>2. /\ pc[t] = "raised" /\ pc' = [pc EXCEPT ![t] = "managed"] /\ class' = class
      /\ finished' = finished /\ started' = started /\ runner' = runner
      /\ failed' = failed /\ lock' = lock /\ stack' = stack /\ runs' = runs
      /\ needs' = needs
  BY DEF Handle, At, Go, globals
<1>3. class[t] \in Classes \/ class[t] = None
  BY <1>1 DEF TypeOK
<1>4. \A u \in Threads : Running(u)' = Running(u)
  BY <1>2 DEF Running
<1>6. TypeOK'
  BY <1>1, <1>2, <1>3, <1>4 DEF TypeOK, Locked, InClassInit, Managed, PCs
<1>7. OutcomeAgrees'
  <2>1. /\ finished' \intersect failed' = {}
        /\ finished' \union failed' \subseteq started'
    BY <1>1, <1>2, <1>3 DEF OutcomeAgrees, OwnerInv, OneOwner, Owns, Owning, TypeOK, Managed, InClassInit, Locked
  <2>2. ASSUME NEW u \in Threads, NEW e \in Running(u)'
        PROVE  runner'[e] = u /\ e \in started' \ (finished' \union failed')
    <3>1. e \in Classes /\ e \in Running(u)
      BY <1>1, <1>3, <1>4
    <3>2. runner[e] = u /\ e \in started \ (finished \union failed)
      BY <1>1, <1>2, <3>1 DEF OutcomeAgrees, OwnerInv, Owning
    <3>. QED  BY <1>1, <1>2, <1>3, <3>1, <3>2 DEF OutcomeAgrees, OwnerInv, OneOwner, Owns, Owning, TypeOK, Managed, InClassInit, Locked
  <2>. QED  BY <2>1, <2>2 DEF OutcomeAgrees
<1>8. NoRepetition'
  BY <1>1, <1>2 DEF NoRepetition
<1>9. OwnerInv'
  BY <1>1, <1>2, <1>3, <1>4 DEF OutcomeAgrees, OwnerInv, OneOwner, Owns, Owning, TypeOK, StartedInv, RunnerInv, Managed
<1>10. OneOwner'
  BY <1>1, <1>2, <1>3, <1>4 DEF OneOwner, OwnerInv, Owns, Owning, TypeOK, Managed
<1>11. RunnerInv'
  BY <1>1, <1>2, <1>3, <1>4 DEF RunnerInv, OwnerInv, Owns, Owning, TypeOK, OutcomeAgrees, Managed
<1>12. StartedInv'
  BY <1>1, <1>2, <1>3, <1>4 DEF StartedInv, OwnerInv, Owns, Owning, TypeOK
<1>. QED  BY <1>6, <1>7, <1>8, <1>9, <1>10, <1>11, <1>12 DEF IInv

LEMMA AbortStep ==
  ASSUME IInv, NEW t \in Threads, Abort(t)
  PROVE  IInv'
<1>. USE NoneAssumption
<1>1. /\ TypeOK /\ OutcomeAgrees /\ NoRepetition /\ OwnerInv /\ OneOwner /\ RunnerInv /\ StartedInv
      /\ \A u \in Threads : Running(u) \subseteq Classes
  BY DEF IInv, TypeOK, Running, Range
<1>2. /\ pc[t] = "managed" /\ pc' = [pc EXCEPT ![t] = "aborted"] /\ class' = class
      /\ finished' = finished /\ started' = started /\ runner' = runner
      /\ failed' = failed /\ lock' = lock /\ runs' = runs /\ needs' = needs
  BY DEF Abort, At, Go, globals
<1>3. stack' = [stack EXCEPT ![t] = <<>>]
  BY DEF Abort
<1>4. \A u \in Threads : Running(u)' = IF u = t THEN {} ELSE Running(u)
  BY <1>1, <1>3 DEF TypeOK, Running, Range
<1>6. TypeOK'
  BY <1>1, <1>2, <1>3, <1>4 DEF TypeOK, Locked, InClassInit, Managed, PCs
<1>7. OutcomeAgrees'
  <2>1. /\ finished' \intersect failed' = {}
        /\ finished' \union failed' \subseteq started'
    BY <1>1, <1>2, <1>3 DEF OutcomeAgrees, OwnerInv, OneOwner, Owns, Owning, TypeOK, Managed, InClassInit, Locked
  <2>2. ASSUME NEW u \in Threads, NEW e \in Running(u)'
        PROVE  runner'[e] = u /\ e \in started' \ (finished' \union failed')
    <3>1. e \in Classes /\ e \in Running(u)
      BY <1>1, <1>3, <1>4
    <3>2. runner[e] = u /\ e \in started \ (finished \union failed)
      BY <1>1, <1>2, <3>1 DEF OutcomeAgrees, OwnerInv, Owning
    <3>. QED  BY <1>1, <1>2, <1>3, <3>1, <3>2 DEF OutcomeAgrees, OwnerInv, OneOwner, Owns, Owning, TypeOK, Managed, InClassInit, Locked
  <2>. QED  BY <2>1, <2>2 DEF OutcomeAgrees
<1>8. NoRepetition'
  BY <1>1, <1>3 DEF NoRepetition, TypeOK
<1>9. OwnerInv'
  BY <1>1, <1>2, <1>3, <1>4 DEF OutcomeAgrees, OwnerInv, OneOwner, Owns, Owning, TypeOK, StartedInv, RunnerInv, Managed
<1>10. OneOwner'
  BY <1>1, <1>2, <1>3, <1>4 DEF OneOwner, OwnerInv, Owns, Owning, TypeOK, Managed
<1>11. RunnerInv'
  BY <1>1, <1>2, <1>3, <1>4 DEF RunnerInv, OwnerInv, Owns, Owning, TypeOK, OutcomeAgrees, Managed
<1>12. StartedInv'
  BY <1>1, <1>2, <1>3, <1>4 DEF StartedInv, OwnerInv, Owns, Owning, TypeOK
<1>. QED  BY <1>6, <1>7, <1>8, <1>9, <1>10, <1>11, <1>12 DEF IInv

-----------------------------------------------------------------------------
LEMMA IInvInit == Init => IInv
<1>. SUFFICES ASSUME Init PROVE IInv
  OBVIOUS
<1>1. \A t \in Threads : Running(t) = {}
  BY DEF Init, Running, Range
<1>2. TypeOK
  BY NoneAssumption DEF Init, TypeOK, PCs, Managed, InClassInit, Locked
<1>3. OutcomeAgrees /\ OwnerInv /\ OneOwner
  BY <1>1 DEF Init, OutcomeAgrees, OwnerInv, OneOwner, Owns, Owning
<1>4. NoRepetition /\ StartedInv
  BY DEF Init, NoRepetition, StartedInv
<1>5. RunnerInv
  BY NoneAssumption DEF Init, RunnerInv
<1>. QED  BY <1>2, <1>3, <1>4, <1>5 DEF IInv

LEMMA IInvStutter == IInv /\ UNCHANGED vars => IInv'
  BY DEF IInv, TypeOK, OutcomeAgrees, NoRepetition, OwnerInv, OneOwner, RunnerInv,
         StartedInv, Running, Owns, vars, globals, locals

LEMMA IInvNext == IInv /\ [Next]_vars => IInv'
<1>. SUFFICES ASSUME IInv, [Next]_vars PROVE IInv'
  OBVIOUS
<1>1. CASE UNCHANGED vars
  BY <1>1, IInvStutter
<1>2. ASSUME NEW t \in Threads, Step(t) PROVE IInv'
  BY <1>2, FastCheckStep, AcquireLockStep, LockedCheckStep, StartedCheckStep, RecursionTestStep, WaitEndsStep, ClaimStep, PublishStep, CallCctorStep, ClearRunnerStep, FinishStep, FailStep, ResultStep
     DEF Step
<1>3. ASSUME NEW t \in Threads, NEW c \in Classes, Use(t, c) PROVE IInv'
  BY <1>3, UseStep
<1>4. ASSUME NEW t \in Threads, CctorReturns(t) \/ CctorThrows(t) \/ Handle(t) \/ Abort(t)
      PROVE  IInv'
  BY <1>4, CctorReturnsStep, CctorThrowsStep, HandleStep, AbortStep
<1>. QED  BY <1>1, <1>2, <1>3, <1>4 DEF Next

LEMMA IInvAlways == Spec => []IInv
  BY IInvInit, IInvNext, PTL DEF Spec

(* The state has its types, and the lock is held exactly in the part of     *)
(* ClassInit that it guards (907-938).                                      *)
THEOREM TypeCorrect == Spec => []TypeOK
<1>1. IInv => TypeOK
  BY DEF IInv
<1>. QED  BY <1>1, IInvAlways, PTL

(* No static constructor is called twice, in any number of threads (917).   *)
THEOREM RunsOnce == Spec => []CctorRunsOnce
<1>1. IInv => CctorRunsOnce
  BY DEF IInv, StartedInv, CctorRunsOnce
<1>. QED  BY <1>1, IInvAlways, PTL

(* The flags of a class and cctor_thread agree (932-962).                   *)
THEOREM OutcomesAgree == Spec => []OutcomeAgrees
<1>1. IInv => OutcomeAgrees
  BY DEF IInv
<1>. QED  BY <1>1, IInvAlways, PTL

(* ClassInit lets a thread into a class only when its constructor finished, *)
(* or from inside that constructor (904-931).                               *)
THEOREM SeenInitialised == Spec => SeenIsInitialised
<1>. DEFINE Seen == \A t \in Threads : ReturnsNormally(t) =>
                        class[t] \in finished \/ class[t] \in Running(t)
<1>1. IInv /\ [Next]_vars => [Seen]_vars
  <2>. SUFFICES ASSUME IInv, Next, NEW t \in Threads, ReturnsNormally(t)
                PROVE  class[t] \in finished \/ class[t] \in Running(t)
    OBVIOUS
  <2>1. TypeOK /\ OwnerInv /\ RunnerInv
    BY DEF IInv
  <2>2. pc[t] \in InClassInit \ {"run"} /\ pc'[t] = "managed" /\ class[t] \in Classes
    BY <2>1, NoneAssumption DEF ReturnsNormally, At, TypeOK
  <2>3. PICK u \in Threads : \/ Step(u)
                             \/ \E c \in Classes : Use(u, c)
                             \/ CctorReturns(u) \/ CctorThrows(u) \/ Handle(u) \/ Abort(u)
    BY DEF Next
  <2>4. u = t
    BY <2>1, <2>2, <2>3 DEF Step, FastCheck, AcquireLock, LockedCheck, StartedCheck, RecursionTest, WaitEnds, Claim, Publish, CallCctor, ClearRunner, Finish, Fail, Result, CctorReturns, CctorThrows, Handle, Abort, Use,
           Go, At, Leave, PopFrame, AfterCctor, TypeOK, InClassInit, Locked
  <2>5. FastCheck(t) \/ LockedCheck(t) \/ RecursionTest(t) \/ Result(t)
    BY <2>1, <2>2, <2>3, <2>4 DEF Step, AcquireLock, StartedCheck, WaitEnds, Claim, Publish, CallCctor, ClearRunner, Finish, Fail, CctorReturns, CctorThrows, Handle, Abort, Use,
           Go, At, Leave, PopFrame, AfterCctor, TypeOK, InClassInit, Locked
  <2>6. CASE FastCheck(t) \/ LockedCheck(t)
    BY <2>1, <2>2, <2>6 DEF FastCheck, LockedCheck, Leave, Go, At, TypeOK
  <2>7. CASE RecursionTest(t)
    BY <2>1, <2>2, <2>7 DEF RecursionTest, IsRecursion, Leave, Go, At, TypeOK, RunnerInv, Owns, Owning
  <2>8. CASE Result(t)
    BY <2>1, <2>2, <2>8 DEF Result, ResultOf, Leave, Go, At, TypeOK, OwnerInv
  <2>. QED  BY <2>5, <2>6, <2>7, <2>8
<1>2. Spec => [][Seen]_vars
  BY <1>1, IInvAlways, PTL DEF Spec
<1>. QED  BY <1>2 DEF SeenIsInitialised
-----------------------------------------------------------------------------
(* Deadlocks.  The constructors on a stack need each other in a chain, and a *)
(* thread in ClassInit is there for a class that its innermost constructor   *)
(* needs, or for that constructor's own class.                               *)
Top(t) == stack[t][Len(stack[t])]
ChainInv == \A t \in Threads : \A i \in 1..(Len(stack[t]) - 1) :
                stack[t][i + 1] \in needs[stack[t][i]]
NeedInv == \A t \in Threads : pc[t] \in InClassInit /\ stack[t] # <<>> =>
                class[t] \in needs[Top(t)] \union {Top(t)}
\* The recursion test keeps a thread from waiting for itself.
WaitInv == \A t \in Threads : pc[t] = "wait" => class[t] \notin Running(t)
DInv == ChainInv /\ NeedInv /\ WaitInv

LEMMA TopIsRunning ==
  ASSUME TypeOK, NEW t \in Threads, stack[t] # <<>>
  PROVE  Top(t) \in Running(t) /\ Top(t) \in Classes
<1>1. stack[t] \in Seq(Classes)
  BY DEF TypeOK
<1>2. Len(stack[t]) \in DOMAIN stack[t] /\ stack[t][Len(stack[t])] \in Classes
  BY <1>1
<1>. QED  BY <1>2 DEF Top, Running, Range

\* What a step leaves alone: the threads that do not take it, and needs.
OthersStay(t) == /\ needs' = needs
                 /\ \A u \in Threads \ {t} :
                        /\ pc'[u] = pc[u] /\ class'[u] = class[u] /\ stack'[u] = stack[u]

\* A step that keeps the stack.
LEMMA StackKept ==
  ASSUME IInv, DInv, NEW t \in Threads, OthersStay(t), stack'[t] = stack[t],
         \/ pc'[t] \notin InClassInit
         \/ class'[t] = class[t] /\ pc[t] \in InClassInit,
         pc'[t] = "wait" => class'[t] \notin Running(t)
  PROVE  DInv'
<1>1. \A u \in Threads : stack'[u] = stack[u] /\ Running(u)' = Running(u) /\ Top(u)' = Top(u)
  BY DEF OthersStay, Running, Top
<1>2. ChainInv'
  BY <1>1 DEF DInv, ChainInv, OthersStay
<1>3. NeedInv'
  BY <1>1 DEF DInv, NeedInv, OthersStay
<1>4. WaitInv'
  BY <1>1 DEF DInv, WaitInv, OthersStay
<1>. QED  BY <1>2, <1>3, <1>4 DEF DInv

LEMMA UseChain ==
  ASSUME IInv, DInv, NEW t \in Threads, NEW c \in Classes, Use(t, c)
  PROVE  DInv'
<1>1. TypeOK
  BY DEF IInv
<1>2. /\ OthersStay(t) /\ stack' = stack /\ pc'[t] = "fast" /\ class'[t] = c
      /\ stack[t] # <<>> => c \in needs[Top(t)] \union {Top(t)}
  BY <1>1 DEF Use, Go, OthersStay, TypeOK, Top
<1>3. \A u \in Threads : Running(u)' = Running(u) /\ Top(u)' = Top(u)
  BY <1>2 DEF Running, Top
<1>4. ChainInv'
  BY <1>2 DEF DInv, ChainInv, OthersStay
<1>5. NeedInv'
  BY <1>2, <1>3 DEF DInv, NeedInv, OthersStay
<1>6. WaitInv'
  BY <1>2, <1>3 DEF DInv, WaitInv, OthersStay
<1>. QED  BY <1>4, <1>5, <1>6 DEF DInv

LEMMA CallChain ==
  ASSUME IInv, DInv, NEW t \in Threads, CallCctor(t)
  PROVE  DInv'
<1>1. TypeOK /\ OwnerInv
  BY DEF IInv
<1>2. /\ OthersStay(t) /\ pc[t] = "run" /\ pc'[t] = "managed"
      /\ stack'[t] = Append(stack[t], class[t])
  BY <1>1 DEF CallCctor, Go, At, OthersStay, TypeOK
<1>3. stack[t] \in Seq(Classes) /\ class[t] \in Classes
  BY <1>1, <1>2, NoneAssumption DEF TypeOK, InClassInit
<1>4. stack[t] # <<>> => class[t] \in needs[Top(t)]
  <2>. SUFFICES ASSUME stack[t] # <<>> PROVE class[t] \in needs[Top(t)]
    OBVIOUS
  <2>1. class[t] \in needs[Top(t)] \union {Top(t)}
    BY <1>2 DEF DInv, NeedInv, InClassInit
  <2>2. class[t] \notin Running(t)
    BY <1>1, <1>2 DEF OwnerInv, Owns, Owning
  <2>. QED  BY <2>1, <2>2, <1>1, TopIsRunning
<1>5. /\ Len(stack'[t]) = Len(stack[t]) + 1 /\ Len(stack[t]) \in Nat
      /\ \A i \in 1..Len(stack[t]) : stack'[t][i] = stack[t][i]
      /\ stack'[t][Len(stack[t]) + 1] = class[t]
      /\ Len(stack[t]) > 0 => stack[t] # <<>>
  BY <1>2, <1>3
<1>6. ASSUME NEW i \in 1..(Len(stack'[t]) - 1)
      PROVE  stack'[t][i + 1] \in needs'[stack'[t][i]]
  <2>0. i \in 1..Len(stack[t]) /\ stack'[t][i] = stack[t][i] /\ needs' = needs
    BY <1>2, <1>5 DEF OthersStay
  <2>1. CASE i = Len(stack[t])
    BY <2>0, <2>1, <1>4, <1>5 DEF Top
  <2>2. CASE i # Len(stack[t])
    <3>1. i \in 1..(Len(stack[t]) - 1) /\ i + 1 \in 1..Len(stack[t])
      BY <2>0, <2>2, <1>5
    <3>. QED  BY <2>0, <3>1, <1>5 DEF DInv, ChainInv
  <2>. QED  BY <2>1, <2>2
<1>7. ChainInv'
  BY <1>2, <1>6 DEF DInv, ChainInv, OthersStay
<1>8. \A u \in Threads \ {t} : Running(u)' = Running(u) /\ Top(u)' = Top(u)
  BY <1>2 DEF OthersStay, Running, Top
<1>9. NeedInv'
  BY <1>2, <1>8 DEF DInv, NeedInv, OthersStay, InClassInit, Locked
<1>10. WaitInv'
  BY <1>2, <1>8 DEF DInv, WaitInv, OthersStay
<1>. QED  BY <1>7, <1>9, <1>10 DEF DInv

LEMMA ReturnChain ==
  ASSUME IInv, DInv, NEW t \in Threads, NEW p \in {"ended", "threw"}, PopFrame(t, p)
  PROVE  DInv'
<1>1. TypeOK
  BY DEF IInv
<1>2. /\ OthersStay(t) /\ pc'[t] = p /\ stack[t] # <<>>
      /\ class'[t] = Top(t) /\ stack'[t] = SubSeq(stack[t], 1, Len(stack[t]) - 1)
  BY <1>1 DEF PopFrame, Go, OthersStay, TypeOK, Top
<1>3. stack[t] \in Seq(Classes)
  BY <1>1 DEF TypeOK
<1>4. /\ Len(stack[t]) \in Nat \ {0} /\ Len(stack'[t]) = Len(stack[t]) - 1
      /\ \A i \in 1..(Len(stack[t]) - 1) : stack'[t][i] = stack[t][i]
  BY <1>2, <1>3, SubSeqProperties
<1>5. ASSUME NEW i \in 1..(Len(stack'[t]) - 1)
      PROVE  stack'[t][i + 1] \in needs'[stack'[t][i]]
  <2>1. i \in 1..(Len(stack[t]) - 1) /\ i + 1 \in 1..(Len(stack[t]) - 1)
    BY <1>4
  <2>2. stack[t][i + 1] \in needs[stack[t][i]] /\ needs' = needs
    BY <1>2, <2>1 DEF DInv, ChainInv, OthersStay
  <2>. QED  BY <1>4, <2>1, <2>2
<1>6. ChainInv'
  BY <1>2, <1>5 DEF DInv, ChainInv, OthersStay
<1>7. stack'[t] # <<>> => class'[t] \in needs'[Top(t)']
  <2>. SUFFICES ASSUME stack'[t] # <<>> PROVE class'[t] \in needs'[Top(t)']
    OBVIOUS
  <2>1. stack'[t] \in Seq(Classes)
    BY <1>2, <1>3, SubSeqProperties
  <2>2. Len(stack[t]) - 1 \in 1..(Len(stack[t]) - 1)
    BY <1>4, <2>1
  <2>3. stack[t][Len(stack[t]) - 1 + 1] \in needs[stack[t][Len(stack[t]) - 1]]
    BY <2>2 DEF DInv, ChainInv
  <2>4. Top(t)' = stack[t][Len(stack[t]) - 1] /\ Len(stack[t]) - 1 + 1 = Len(stack[t])
    BY <1>4, <2>2 DEF Top
  <2>. QED  BY <1>2, <2>3, <2>4 DEF Top, OthersStay
<1>8. \A u \in Threads \ {t} : Running(u)' = Running(u) /\ Top(u)' = Top(u)
  BY <1>2 DEF OthersStay, Running, Top
<1>9. NeedInv'
  BY <1>2, <1>7, <1>8 DEF DInv, NeedInv, OthersStay
<1>10. WaitInv'
  BY <1>2, <1>8 DEF DInv, WaitInv, OthersStay
<1>. QED  BY <1>6, <1>9, <1>10 DEF DInv

LEMMA AbortChain ==
  ASSUME IInv, DInv, NEW t \in Threads, Abort(t)
  PROVE  DInv'
<1>1. TypeOK
  BY DEF IInv
<1>2. OthersStay(t) /\ pc'[t] = "aborted" /\ stack'[t] = <<>>
  BY <1>1 DEF Abort, Go, OthersStay, TypeOK
<1>3. \A u \in Threads \ {t} : Running(u)' = Running(u) /\ Top(u)' = Top(u)
  BY <1>2 DEF OthersStay, Running, Top
<1>4. ChainInv'
  BY <1>2 DEF DInv, ChainInv, OthersStay
<1>5. NeedInv' /\ WaitInv'
  BY <1>2, <1>3 DEF DInv, NeedInv, WaitInv, OthersStay, InClassInit, Locked
<1>. QED  BY <1>4, <1>5 DEF DInv

\* The other steps keep the stack, and only the recursion test leads to the wait.
LEMMA InsideStep ==
  ASSUME IInv, DInv, NEW t \in Threads, Step(t) \/ Handle(t), ~CallCctor(t)
  PROVE  DInv'
<1>1. TypeOK /\ OutcomeAgrees
  BY DEF IInv
<1>2. OthersStay(t) /\ stack' = stack
  BY <1>1 DEF Step, FastCheck, AcquireLock, LockedCheck, StartedCheck, RecursionTest, WaitEnds,
     Claim, Publish, ClearRunner, Finish, Fail, Result, Handle, AfterCctor, Go, Leave, OthersStay,
     TypeOK, globals
<1>3. \/ pc'[t] \notin InClassInit
      \/ class'[t] = class[t] /\ pc[t] \in InClassInit
  BY <1>1 DEF Step, FastCheck, AcquireLock, LockedCheck, StartedCheck, RecursionTest, WaitEnds,
     Claim, Publish, ClearRunner, Finish, Fail, Result, ResultOf, Handle, AfterCctor, Go, At, Leave,
     TypeOK, globals, InClassInit, Locked
<1>4. pc'[t] = "wait" => RecursionTest(t) /\ runner[class[t]] # t /\ class'[t] = class[t]
  BY <1>1 DEF Step, FastCheck, AcquireLock, LockedCheck, StartedCheck, RecursionTest, WaitEnds,
     Claim, Publish, ClearRunner, Finish, Fail, Result, ResultOf, Handle, AfterCctor, Go, At, Leave,
     TypeOK, globals, IsRecursion
<1>5. pc'[t] = "wait" => class'[t] \notin Running(t)
  BY <1>1, <1>4 DEF OutcomeAgrees
<1>. QED  BY <1>2, <1>3, <1>5, StackKept

LEMMA DInvInit == Init => DInv
<1>. SUFFICES ASSUME Init PROVE DInv
  OBVIOUS
<1>1. \A t \in Threads : stack[t] = <<>> /\ pc[t] = "managed"
  BY DEF Init
<1>. QED  BY <1>1 DEF DInv, ChainInv, NeedInv, WaitInv, InClassInit, Locked

LEMMA DInvNext == IInv /\ DInv /\ [Next]_vars => DInv'
<1>. SUFFICES ASSUME IInv, DInv, [Next]_vars PROVE DInv'
  OBVIOUS
<1>1. CASE UNCHANGED vars
  BY <1>1 DEF DInv, ChainInv, NeedInv, WaitInv, Top, Running, vars, globals, locals
<1>2. ASSUME NEW t \in Threads, Step(t) \/ Handle(t) PROVE DInv'
  BY <1>2, InsideStep, CallChain
<1>3. ASSUME NEW t \in Threads, NEW c \in Classes, Use(t, c) PROVE DInv'
  BY <1>3, UseChain
<1>4. ASSUME NEW t \in Threads, CctorReturns(t) \/ CctorThrows(t) PROVE DInv'
  BY <1>4, ReturnChain DEF CctorReturns, CctorThrows
<1>5. ASSUME NEW t \in Threads, Abort(t) PROVE DInv'
  BY <1>5, AbortChain
<1>. QED  BY <1>1, <1>2, <1>3, <1>4, <1>5 DEF Next

LEMMA DInvAlways == Spec => [](IInv /\ DInv)
  BY IInvInit, IInvNext, DInvInit, DInvNext, PTL DEF Spec

(* The classes on the stacks of threads that wait for each other need each  *)
(* other in a circle: no other deadlock comes from the wait loop (927).     *)
LEMMA DeadlockIsCyclic ==
  ASSUME IInv, DInv, NEW S \in SUBSET Threads, Deadlocked(S)
  PROVE  Cyclic
<1>. DEFINE D == UNION {Running(t) : t \in S}
<1>1. TypeOK /\ RunnerInv
  BY DEF IInv
<1>2. ASSUME NEW t \in S
      PROVE  /\ pc[t] = "wait" /\ class[t] \in Classes /\ class[t] \in D
  <2>1. PICK u \in S : WaitsFor(t, u)
    BY DEF Deadlocked
  <2>2. pc[t] = "wait" /\ runner[class[t]] = u
    BY <2>1 DEF WaitsFor, At
  <2>3. pc[u] = "wait"
    BY DEF Deadlocked, WaitsFor, At
  <2>4. class[t] \in Classes
    BY <1>1, <2>2, NoneAssumption DEF TypeOK, InClassInit
  <2>5. class[t] \in Running(u)
    BY <1>1, <2>2, <2>3, <2>4 DEF RunnerInv, Owns, Owning
  <2>. QED  BY <2>2, <2>4, <2>5
<1>3. ASSUME NEW t \in S, NEW i \in DOMAIN stack[t]
      PROVE  /\ stack[t][i] \in Classes
             /\ needs[stack[t][i]] \intersect D # {}
  <2>1. stack[t] \in Seq(Classes)
    BY <1>1 DEF TypeOK
  <2>2. /\ Len(stack[t]) \in Nat /\ i \in 1..Len(stack[t]) /\ stack[t][i] \in Classes
        /\ stack[t] # <<>> /\ DOMAIN stack[t] = 1..Len(stack[t])
    BY <2>1
  <2>3. CASE i = Len(stack[t])
    <3>1. class[t] \in needs[Top(t)] \union {Top(t)}
      BY <1>2, <2>2 DEF DInv, NeedInv, InClassInit
    <3>2. class[t] # Top(t)
      BY <1>1, <1>2, <2>2, TopIsRunning DEF DInv, WaitInv
    <3>. QED  BY <1>2, <2>2, <2>3, <3>1, <3>2 DEF Top
  <2>4. CASE i # Len(stack[t])
    <3>1. i \in 1..(Len(stack[t]) - 1) /\ i + 1 \in DOMAIN stack[t]
      BY <2>2, <2>4
    <3>2. stack[t][i + 1] \in needs[stack[t][i]]
      BY <3>1 DEF DInv, ChainInv
    <3>3. stack[t][i + 1] \in Running(t)
      BY <3>1 DEF Running, Range
    <3>. QED  BY <2>2, <3>2, <3>3
  <2>. QED  BY <2>3, <2>4
<1>4. D \in SUBSET Classes /\ \A c \in D : needs[c] \intersect D # {}
  <2>. SUFFICES ASSUME NEW t \in S, NEW c \in Running(t)
                PROVE  c \in Classes /\ needs[c] \intersect D # {}
    OBVIOUS
  <2>. HIDE DEF D
  <2>1. PICK i \in DOMAIN stack[t] : c = stack[t][i]
    BY DEF Running, Range
  <2>. QED  BY <2>1, <1>3
<1>5. D # {}
  <2>1. PICK t \in S : TRUE
    BY DEF Deadlocked
  <2>. QED  BY <2>1, <1>2
<1>. HIDE DEF D
<1>. QED  BY <1>4, <1>5 DEF Cyclic

(* Threads wait for each other only if the program's constructors need each *)
(* other in a circle, whatever their number (922-931).                      *)
THEOREM DeadlocksAreCycles == Spec => []DeadlockNeedsACycle
<1>1. IInv /\ DInv => DeadlockNeedsACycle
  BY DeadlockIsCyclic DEF DeadlockNeedsACycle
<1>. QED  BY <1>1, DInvAlways, PTL
=============================================================================
