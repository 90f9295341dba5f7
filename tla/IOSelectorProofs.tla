-------------------------- MODULE IOSelectorProofs --------------------------
(***************************************************************************)
(* Proofs about IOSelector, for any sockets, operations and capacity of    *)
(* the queue: the two tables agree, an operation is lost only if it was    *)
(* queued behind a removal of its descriptor, none is handed out twice,    *)
(* nobody waits for a broadcast in vain, remove_socket returns only when   *)
(* the operations of its socket are back, and no selector works after the  *)
(* cleanup.                                                                *)
(***************************************************************************)
EXTENDS IOSelector, SequenceTheorems, WellFoundedInduction, TLAPS

(* Events are pending only between poll and the end of the callbacks, and   *)
(* an error is reported with both operations (278-346).                     *)
ReventsInv ==
    /\ selector # "events" => ~drain /\ \A f \in Fds : ~Ready(f)
    /\ \A f \in Fds : "ERR" \in revents[f] => revents[f] = Err

\* A job is queued once.
QueueInv ==
    \A i, k \in DOMAIN updates :
        updates[i] = updates[k] /\ updates[i][1] = "ADD" => i = k

\* An ADD behind a removal of its descriptor is known to be late.
LateInv ==
    \A i, k \in DOMAIN updates, j \in Jobs :
        updates[i] = REMOVE_SOCKET(j[1]) /\ updates[k] = ADD(j) /\ i < k => job[j] = "late"

\* As long as no wait of a remover of f has ended by itself, a removal of f in
\* the queue is the only one, and its thread waits for it.
RemovalInv ==
    \A f \in Fds \ early :
        /\ \A i \in DOMAIN updates : updates[i] = REMOVE_SOCKET(f) => remover[f] = "waiting"
        /\ \A i, k \in DOMAIN updates :
              updates[i] = REMOVE_SOCKET(f) /\ updates[k] = REMOVE_SOCKET(f) => i = k

\* A job that is owed to a removal comes before it in the queue, or is listed.
OwedInv ==
    \A j \in owed : j[1] \notin early =>
        \E r \in DOMAIN updates :
            /\ updates[r] = REMOVE_SOCKET(j[1])
            /\ j[2] \in states[j[1]] \/ \E i \in 1..(r - 1) : updates[i] = ADD(j)

IInv == /\ TypeOK /\ TablesAgree /\ ReventsInv /\ QueueInv /\ JobHasAPlace
        /\ LateInv /\ RemovalInv /\ OwedInv /\ WaitersAreOwedABroadcast

-----------------------------------------------------------------------------
(* The first and the last position of a sequence with a property.           *)
LEMMA MinOfIndices ==
  ASSUME NEW n \in Nat, NEW I \in SUBSET (1..n), I # {}
  PROVE  Min(I) \in I /\ \A i \in I : Min(I) <= i
<1>1. I \subseteq Nat
  OBVIOUS
<1>2. PICK w \in I : \A v \in I : <<v, w>> \notin OpToRel(<, Nat)
  BY <1>1, WFMin, NatLessThanWellFounded
<1>3. \A v \in I : w =< v
  <2>. SUFFICES ASSUME NEW v \in I PROVE w =< v
    OBVIOUS
  <2>1. v \in Nat /\ w \in Nat
    BY <1>1
  <2>2. ~(v < w)
    BY <1>2, <2>1, Zenon DEF OpToRel
  <2>. QED  BY <2>1, <2>2
<1>. QED  BY <1>3 DEF Min

LEMMA MaxOfIndices ==
  ASSUME NEW n \in Nat, NEW I \in SUBSET (1..n), I # {}
  PROVE  Max(I) \in I /\ \A i \in I : i <= Max(I)
<1>. DEFINE J == {n + 1 - i : i \in I}
<1>1. J \in SUBSET (1..n) /\ J # {}
  <2>1. \A i \in I : n + 1 - i \in 1..n
    OBVIOUS
  <2>2. J \subseteq 1..n
    BY <2>1, Zenon
  <2>3. J # {}
    BY Zenon
  <2>. QED  BY <2>2, <2>3
<1>2. Min(J) \in J /\ \A k \in J : Min(J) <= k
  BY <1>1, MinOfIndices
<1>3. PICK x \in I : Min(J) = n + 1 - x
  BY <1>2
<1>4. \A i \in I : x >= i
  <2>. SUFFICES ASSUME NEW i \in I PROVE x >= i
    OBVIOUS
  <2>1. n + 1 - i \in J
    BY Zenon
  <2>. HIDE DEF J
  <2>2. n + 1 - x <= n + 1 - i
    BY <1>2, <1>3, <2>1
  <2>3. i \in 1..n /\ x \in 1..n
    OBVIOUS
  <2>. QED  BY <2>2, <2>3
<1>. QED  BY <1>4 DEF Max

-----------------------------------------------------------------------------
(* A table of polled descriptors with the entries K: each once, holes       *)
(* between them but none at the end (poll_register_fd, poll_remove_fd).     *)
Table(s, K) ==
    /\ s \in Seq(Fds \union {-1})
    /\ Range(s) \ {-1} = K
    /\ \A i, k \in DOMAIN s : s[i] = s[k] /\ i # k => s[i] = -1
    /\ s # <<>> => Last(s) # -1

LEMMA TheTable ==
  ASSUME TypeOK, TablesAgree
  PROVE  Table(poll_fds, known)
BY DEF TypeOK, TablesAgree, Table

\* A descriptor is put into a hole.
LEMMA HoleFilled ==
  ASSUME NEW s, NEW K, Table(s, K), NEW f \in Fds, f \notin K,
         NEW i \in DOMAIN s, s[i] = -1
  PROVE  Table([s EXCEPT ![i] = f], K \union {f})
<1>. DEFINE r == [s EXCEPT ![i] = f]
<1>1. /\ s \in Seq(Fds \union {-1}) /\ Len(s) \in Nat /\ DOMAIN s = 1..Len(s) /\ f # -1
      /\ i \in 1..Len(s) /\ Len(s) \in 1..Len(s)
  BY JobsAssumption DEF Table
<1>2. /\ r \in Seq(Fds \union {-1}) /\ Len(r) = Len(s) /\ DOMAIN r = DOMAIN s
      /\ \A k \in DOMAIN s : r[k] = IF k = i THEN f ELSE s[k]
  BY <1>1
<1>. HIDE DEF r
<1>3. \A k \in DOMAIN s : s[k] # f
  BY <1>1 DEF Table, Range
<1>4. Range(r) \ {-1} = K \union {f}
  <2>1. ASSUME NEW k \in DOMAIN r, r[k] # -1 PROVE r[k] \in K \union {f}
    BY <1>2, <2>1 DEF Table, Range
  <2>2. ASSUME NEW g \in K PROVE g \in Range(r) /\ g # -1
    <3>1. PICK k \in DOMAIN s : s[k] = g
      BY DEF Table, Range
    <3>2. g # -1
      BY DEF Table
    <3>. QED  BY <1>2, <3>1, <3>2 DEF Range
  <2>3. f \in Range(r)
    BY <1>2 DEF Range
  <2>. QED  BY <1>1, <2>1, <2>2, <2>3 DEF Range
<1>5. \A k, m \in DOMAIN r : r[k] = r[m] /\ k # m => r[k] = -1
  BY <1>2, <1>3 DEF Table
<1>6. Last(r) # -1
  BY <1>1, <1>2 DEF Table, Last
<1>. QED  BY <1>2, <1>4, <1>5, <1>6 DEF Table, r

\* A descriptor is put behind the last.
LEMMA Appended ==
  ASSUME NEW s, NEW K, Table(s, K), NEW f \in Fds, f \notin K
  PROVE  Table(Append(s, f), K \union {f})
<1>. DEFINE r == Append(s, f)
<1>1. /\ s \in Seq(Fds \union {-1}) /\ Len(s) \in Nat /\ DOMAIN s = 1..Len(s) /\ f # -1
  BY JobsAssumption DEF Table
<1>2. /\ r \in Seq(Fds \union {-1}) /\ Len(r) = Len(s) + 1 /\ DOMAIN r = 1..(Len(s) + 1)
      /\ \A k \in DOMAIN s : r[k] = s[k]
      /\ r[Len(s) + 1] = f
  BY <1>1
<1>. HIDE DEF r
<1>3. \A k \in DOMAIN s : s[k] # f
  BY <1>1 DEF Table, Range
<1>4. Range(r) \ {-1} = K \union {f}
  <2>1. ASSUME NEW k \in DOMAIN r, r[k] # -1 PROVE r[k] \in K \union {f}
    BY <1>1, <1>2, <2>1 DEF Table, Range
  <2>2. ASSUME NEW g \in K PROVE g \in Range(r) /\ g # -1
    <3>1. PICK k \in DOMAIN s : s[k] = g
      BY DEF Table, Range
    <3>2. g # -1
      BY DEF Table
    <3>. QED  BY <1>1, <1>2, <3>1, <3>2 DEF Range
  <2>3. f \in Range(r)
    BY <1>1, <1>2 DEF Range
  <2>. QED  BY <1>1, <2>1, <2>2, <2>3 DEF Range
<1>5. \A k, m \in DOMAIN r : r[k] = r[m] /\ k # m => r[k] = -1
  <2>. SUFFICES ASSUME NEW k \in DOMAIN r, NEW m \in DOMAIN r, r[k] = r[m], k # m
                PROVE  r[k] = -1
    OBVIOUS
  <2>1. CASE k \in DOMAIN s /\ m \in DOMAIN s
    BY <1>2, <2>1 DEF Table
  <2>2. CASE k = Len(s) + 1 \/ m = Len(s) + 1
    BY <1>1, <1>2, <1>3, <2>2
  <2>. QED  BY <1>1, <1>2, <2>1, <2>2
<1>6. Last(r) # -1
  BY <1>1, <1>2 DEF Last
<1>. QED  BY <1>2, <1>4, <1>5, <1>6 DEF Table, r

\* The holes at the end go.
LEMMA TrimmedTable ==
  ASSUME NEW s \in Seq(Fds \union {-1}),
         \A i, k \in DOMAIN s : s[i] = s[k] /\ i # k => s[i] = -1
  PROVE  Table(Trimmed(s), Range(s) \ {-1})
<1>. DEFINE I == {i \in 1..Len(s) : s[i] # -1}
            m == IF I # {} THEN Max(I) ELSE 0
            r == SubSeq(s, 1, m)
<1>1. Len(s) \in Nat /\ DOMAIN s = 1..Len(s) /\ \A i \in 1..Len(s) : s[i] \in Fds \union {-1}
  OBVIOUS
<1>2. Trimmed(s) = r
  BY DEF Trimmed, SelectLastInSeq
<1>3. /\ m \in 0..Len(s)
      /\ \A i \in 1..Len(s) : s[i] # -1 => i <= m
      /\ m > 0 => s[m] # -1
  <2>1. CASE I = {}
    BY <1>1, <2>1
  <2>2. CASE I # {}
    <3>1. Max(I) \in I /\ \A i \in I : i <= Max(I)
      BY <1>1, <2>2, MaxOfIndices
    <3>. QED  BY <1>1, <2>2, <3>1
  <2>. QED  BY <2>1, <2>2
<1>. HIDE DEF m
<1>4. /\ r \in Seq(Fds \union {-1}) /\ Len(r) = m
      /\ \A i \in 1..m : r[i] = s[i]
  <2>1. \A i \in 1..m : s[i] \in Fds \union {-1}
    BY <1>1, <1>3
  <2>. QED  BY <1>3, <2>1, SubSeqProperties
<1>5. DOMAIN r = 1..m
  BY <1>4
<1>. HIDE DEF r, I
<1>6. Range(r) \ {-1} = Range(s) \ {-1}
  <2>1. ASSUME NEW k \in DOMAIN r PROVE r[k] \in Range(s)
    BY <1>1, <1>3, <1>4, <1>5 DEF Range
  <2>2. ASSUME NEW k \in DOMAIN s, s[k] # -1 PROVE s[k] \in Range(r)
    <3>1. k \in 1..m
      BY <1>1, <1>3, <2>2
    <3>. QED  BY <1>4, <1>5, <3>1 DEF Range
  <2>. QED  BY <2>1, <2>2 DEF Range
<1>7. \A i, k \in DOMAIN r : r[i] = r[k] /\ i # k => r[i] = -1
  BY <1>1, <1>3, <1>4, <1>5
<1>8. r # <<>> => Last(r) # -1
  BY <1>3, <1>4 DEF Last
<1>. QED  BY <1>2, <1>4, <1>6, <1>7, <1>8 DEF Table

\* A descriptor is taken out.
LEMMA HoleMade ==
  ASSUME NEW s, NEW K, Table(s, K), NEW f \in K, NEW i \in DOMAIN s, s[i] = f
  PROVE  Table(Trimmed([s EXCEPT ![i] = -1]), K \ {f})
<1>. DEFINE r == [s EXCEPT ![i] = -1]
<1>1. /\ s \in Seq(Fds \union {-1}) /\ Len(s) \in Nat /\ DOMAIN s = 1..Len(s) /\ f # -1
  BY DEF Table
<1>2. /\ r \in Seq(Fds \union {-1}) /\ DOMAIN r = DOMAIN s
      /\ \A k \in DOMAIN s : r[k] = IF k = i THEN -1 ELSE s[k]
  BY <1>1
<1>. HIDE DEF r
<1>3. \A k, m \in DOMAIN r : r[k] = r[m] /\ k # m => r[k] = -1
  BY <1>2 DEF Table
<1>4. Range(r) \ {-1} = K \ {f}
  <2>1. ASSUME NEW k \in DOMAIN r, r[k] # -1 PROVE r[k] \in K \ {f}
    BY <1>1, <1>2, <2>1 DEF Table, Range
  <2>2. ASSUME NEW g \in K \ {f} PROVE g \in Range(r) /\ g # -1
    <3>1. PICK k \in DOMAIN s : s[k] = g
      BY DEF Table, Range
    <3>2. g # -1
      BY DEF Table
    <3>. QED  BY <1>2, <3>1, <3>2 DEF Range
  <2>. QED  BY <2>1, <2>2 DEF Range
<1>5. Table(Trimmed(r), K \ {f})
  BY <1>2, <1>3, <1>4, TrimmedTable
<1>. QED  BY <1>5 DEF r

\* poll_register_fd: the descriptor has an entry afterwards, and it is the only new one.
LEMMA Registers ==
  ASSUME TypeOK, TablesAgree, NEW f \in Fds, NEW ops, RegisterFd(f, ops)
  PROVE  Table(poll_fds', known \union {f}) /\ events' = [events EXCEPT ![f] = ops]
<1>1. Table(poll_fds, known) /\ f # -1
  BY TheTable, JobsAssumption
<1>2. CASE Registered(f)
  <2>1. f \in known
    BY <1>1, <1>2 DEF Registered, Table, Range
  <2>2. known \union {f} = known
    BY <2>1
  <2>. QED  BY <1>1, <1>2, <2>2 DEF RegisterFd
<1>3. CASE ~Registered(f)
  <2>1. f \notin known
    BY <1>1, <1>3 DEF Registered, Table, Range
  <2>2. CASE -1 \in Range(poll_fds)
    <3>1. Index(-1) \in DOMAIN poll_fds /\ poll_fds[Index(-1)] = -1
      BY <2>2 DEF Index, Range
    <3>2. poll_fds' = [poll_fds EXCEPT ![Index(-1)] = f]
      BY <1>3, <2>2 DEF RegisterFd
    <3>3. Table([poll_fds EXCEPT ![Index(-1)] = f], known \union {f})
      BY <1>1, <2>1, <3>1, HoleFilled
    <3>. QED  BY <3>2, <3>3 DEF RegisterFd
  <2>3. CASE -1 \notin Range(poll_fds)
    <3>1. poll_fds' = Append(poll_fds, f)
      BY <1>3, <2>3 DEF RegisterFd
    <3>2. Table(Append(poll_fds, f), known \union {f})
      BY <1>1, <2>1, Appended
    <3>. QED  BY <3>1, <3>2 DEF RegisterFd
  <2>. QED  BY <2>2, <2>3
<1>. QED  BY <1>2, <1>3

\* poll_remove_fd: the entry of the descriptor, and only that, is gone.
LEMMA Removes ==
  ASSUME TypeOK, TablesAgree, NEW f \in known, RemoveFd(f)
  PROVE  Table(poll_fds', known \ {f}) /\ events' = [events EXCEPT ![f] = {}]
<1>1. Table(poll_fds, known)
  BY TheTable
<1>2. Index(f) \in DOMAIN poll_fds /\ poll_fds[Index(f)] = f
  BY <1>1 DEF Index, Table, Range
<1>. QED  BY <1>1, <1>2, HoleMade DEF RemoveFd

\* The descriptor whose callback is next has an entry, and poll said something of it.
LEMMA ReadyDescriptor ==
  ASSUME TypeOK, TablesAgree, ~drain, ~AllHandled
  PROVE  NextReady \in known /\ NextReady \in Fds /\ Ready(NextReady)
<1>. DEFINE I == {i \in 1..Len(poll_fds) : poll_fds[i] # -1 /\ Ready(poll_fds[i])}
<1>1. Table(poll_fds, known) /\ Len(poll_fds) \in Nat /\ DOMAIN poll_fds = 1..Len(poll_fds)
  BY TheTable DEF TypeOK
<1>2. PICK g \in known : Ready(g)
  BY DEF AllHandled, TablesAgree
<1>3. I # {}
  BY <1>1, <1>2 DEF Table, Range
<1>4. Min(I) \in I
  <2>1. I \in SUBSET (1..Len(poll_fds))
    OBVIOUS
  <2>. HIDE DEF I
  <2>. QED  BY <1>1, <1>3, <2>1, MinOfIndices
<1>5. NextReady = poll_fds[Min(I)]
  BY <1>3 DEF NextReady, SelectInSeq
<1>. QED  BY <1>1, <1>4, <1>5 DEF Table, Range, TypeOK

-----------------------------------------------------------------------------
(* The updates.                                                             *)
LEMMA UpdateCases ==
  ASSUME NEW u \in Update
  PROVE  \/ u = EMPTY /\ u[1] = "EMPTY"
         \/ /\ u[1] = "ADD" /\ <<u[2], u[3]>> \in Jobs /\ u = ADD(<<u[2], u[3]>>)
            /\ u[2] \in Fds /\ u[3] \in Ops
         \/ u[1] = "REMOVE_SOCKET" /\ u[2] \in Fds /\ u = REMOVE_SOCKET(u[2])
<1>1. ASSUME NEW j \in Jobs, u = ADD(j)
      PROVE  /\ u[1] = "ADD" /\ <<u[2], u[3]>> \in Jobs /\ u = ADD(<<u[2], u[3]>>)
             /\ u[2] \in Fds /\ u[3] \in Ops
  <2>1. j \in Fds \X Ops
    BY JobsAssumption
  <2>2. j = <<j[1], j[2]>> /\ j[1] \in Fds /\ j[2] \in Ops
    BY <2>1
  <2>. QED  BY <1>1, <2>2 DEF ADD
<1>2. ASSUME NEW f \in Fds, u = REMOVE_SOCKET(f)
      PROVE  u[1] = "REMOVE_SOCKET" /\ u[2] \in Fds /\ u = REMOVE_SOCKET(u[2])
  BY <1>2 DEF REMOVE_SOCKET
<1>. QED  BY <1>1, <1>2 DEF Update, EMPTY

LEMMA JobShape ==
  ASSUME NEW j \in Jobs
  PROVE  j = <<j[1], j[2]>> /\ j[1] \in Fds /\ j[2] \in Ops
<1>1. j \in Fds \X Ops
  BY JobsAssumption
<1>. QED  BY <1>1

LEMMA Distinct ==
  /\ \A j \in Jobs, k \in Jobs : ADD(j) = ADD(k) => j = k
  /\ \A j \in Jobs : /\ ADD(j) # EMPTY /\ ADD(j)[1] = "ADD" /\ ADD(j)[2] = j[1]
                     /\ ADD(j)[3] = j[2] /\ ADD(j) \in Update
                     /\ \A f \in Fds : ADD(j) # REMOVE_SOCKET(f)
  /\ \A f, g \in Fds : REMOVE_SOCKET(f) = REMOVE_SOCKET(g) => f = g
  /\ \A f \in Fds : /\ REMOVE_SOCKET(f) # EMPTY /\ REMOVE_SOCKET(f)[1] = "REMOVE_SOCKET"
                    /\ REMOVE_SOCKET(f)[2] = f /\ REMOVE_SOCKET(f) \in Update
  /\ EMPTY \in Update /\ EMPTY[1] = "EMPTY"
<1>1. \A j \in Jobs, k \in Jobs : ADD(j) = ADD(k) => j = k
  BY JobShape DEF ADD
<1>. QED  BY <1>1 DEF ADD, REMOVE_SOCKET, EMPTY, Update

\* The update that the selector applies next is the first that is left.
LEMMA FirstUpdate ==
  ASSUME TypeOK
  PROVE  /\ Current \in Nat /\ Len(updates) \in Nat /\ DOMAIN updates = 1..Len(updates)
         /\ \A i \in DOMAIN updates : updates[i] \in Update
         /\ Current = 0 => \A i \in DOMAIN updates : updates[i] = EMPTY
         /\ Current # 0 => /\ Current \in DOMAIN updates /\ updates[Current] # EMPTY
                           /\ updates[Current] \in Update
                           /\ \A i \in 1..(Current - 1) : updates[i] = EMPTY
<1>. DEFINE I == {i \in 1..Len(updates) : updates[i] # EMPTY}
<1>1. /\ Len(updates) \in Nat /\ DOMAIN updates = 1..Len(updates)
      /\ \A i \in DOMAIN updates : updates[i] \in Update
  BY DEF TypeOK
<1>2. CASE I = {}
  BY <1>1, <1>2 DEF Current, SelectInSeq
<1>3. CASE I # {}
  <2>1. Current = Min(I)
    BY <1>3 DEF Current, SelectInSeq
  <2>2. Min(I) \in I /\ \A i \in I : Min(I) <= i
    <3>1. I \in SUBSET (1..Len(updates))
      OBVIOUS
    <3>. HIDE DEF I
    <3>. QED  BY <1>1, <1>3, <3>1, MinOfIndices
  <2>3. ASSUME NEW i \in 1..(Current - 1) PROVE updates[i] = EMPTY
    <3>1. Current \in 1..Len(updates)
      BY <2>1, <2>2
    <3>2. i \in 1..Len(updates) /\ i < Current
      BY <1>1, <3>1
    <3>3. i \notin I
      BY <2>1, <2>2, <3>1, <3>2
    <3>. QED  BY <3>2, <3>3
  <2>. QED  BY <1>1, <2>1, <2>2, <2>3
<1>. QED  BY <1>2, <1>3

-----------------------------------------------------------------------------
(* Most steps leave the queue, the tables and what poll said alone: no job  *)
(* becomes or stops being accepted or late, no remover stops waiting except *)
(* by itself, and nobody starts to wait while the queue is empty.              *)
PollAside ==
    \/ selector # "events" /\ selector' # "events" /\ UNCHANGED drain
    \/ selector' = "events"
    \/ ~drain' /\ \A f \in Fds : ~Ready(f)
NoNewWait ==
    updates = <<>> =>
        /\ \A j \in Jobs : job'[j] = "full" => job[j] = "full"
        /\ \A f \in Fds : remover'[f] \in {"full", "waiting"} => remover[f] \in {"full", "waiting"}
Aside ==
    /\ UNCHANGED <<updates, states, known, poll_fds, events, revents, owed>>
    /\ PollAside /\ NoNewWait
    /\ \A j \in Jobs : /\ job'[j] = "accepted" <=> job[j] = "accepted"
                       /\ job[j] = "late" /\ InQueue(ADD(j)) => job'[j] = "late"
    /\ early \subseteq early'
    /\ \A f \in Fds : remover[f] = "waiting" => remover'[f] = "waiting" \/ f \in early'

LEMMA Frame ==
  ASSUME IInv, TypeOK', Aside
  PROVE  IInv'
<1>. USE DEF IInv, Aside
<1>1. TablesAgree'
  BY DEF TablesAgree, Ready
<1>2. ReventsInv'
  BY DEF ReventsInv, Ready, PollAside
<1>3. QueueInv'
  BY DEF QueueInv
<1>4. JobHasAPlace'
  BY DEF JobHasAPlace, InQueue
<1>5. LateInv'
  BY DEF LateInv, InQueue
<1>6. RemovalInv'
  BY DEF RemovalInv
<1>7. OwedInv'
  BY DEF OwedInv
<1>8. WaitersAreOwedABroadcast'
  BY DEF WaitersAreOwedABroadcast, Waits, NoNewWait
<1>. QED  BY <1>1, <1>2, <1>3, <1>4, <1>5, <1>6, <1>7, <1>8

LEMMA Initially == Init => IInv
<1>. SUFFICES ASSUME Init PROVE IInv
  OBVIOUS
<1>1. TypeOK
  <2>1. updates \in Seq(Update) /\ Len(updates) = 0 /\ poll_fds \in Seq(Fds \union {-1})
    BY DEF Init
  <2>2. Len(updates) <= UPDATES_CAPACITY
    BY <2>1, CapacityAssumption
  <2>. QED  BY <2>1, <2>2 DEF Init, TypeOK
<1>2. TablesAgree
  <2>1. Range(poll_fds) = {}
    BY DEF Init, Range
  <2>. QED  BY <2>1 DEF Init, TablesAgree, Ready
<1>3. JobHasAPlace
  <2>. SUFFICES ASSUME NEW j \in Jobs
                PROVE  ~InQueue(ADD(j)) /\ j[2] \notin states[j[1]] /\ job[j] # "accepted"
    BY DEF JobHasAPlace
  <2>. QED  BY JobShape DEF Init, InQueue
<1>4. WaitersAreOwedABroadcast
  BY DEF Init, WaitersAreOwedABroadcast, Waits
<1>5. ReventsInv /\ QueueInv /\ LateInv /\ RemovalInv /\ OwedInv
  BY DEF Init, ReventsInv, QueueInv, LateInv, RemovalInv, OwedInv, Ready
<1>. QED  BY <1>1, <1>2, <1>3, <1>4, <1>5 DEF IInv

(* The steps of the threads that add and remove, and of the shutdown, that  *)
(* do not touch the queue.                                                  *)
LEMMA ThreadsKeep ==
  ASSUME IInv,
         \/ \E j \in Jobs : Add(j) \/ LazyInitialize(j) \/ AwaitRoom(j)
         \/ \E f \in Fds : \/ RemoveSocket(f) \/ RemoveAwaitsRoom(f) \/ RemoveReturns(f)
                           \/ SpuriousWakeup(f) \/ Close(f) \/ Reopen(f)
         \/ Shutdown \/ Cleanup \/ CleanupEnds
  PROVE  IInv'
<1>. USE DEF pollVars, callVars, mainVars
<1>1. /\ TypeOK /\ (~HasRoom => updates # <<>>)
      /\ selector # "events" => ~drain /\ \A f \in Fds : ~Ready(f)
  BY CapacityAssumption DEF IInv, TypeOK, HasRoom, ReventsInv
<1>2. ASSUME NEW j \in Jobs, Add(j) PROVE IInv'
  <2>1. TypeOK'
    BY <1>1, <1>2 DEF Add, TypeOK
  <2>2. PollAside
    BY <1>1, <1>2 DEF Add, PollAside, Initialized
  <2>3. NoNewWait
    BY <1>1, <1>2 DEF Add, NoNewWait, TypeOK
  <2>4. Aside
    BY <1>1, <1>2, <2>2, <2>3 DEF Add, Aside, TypeOK
  <2>. QED  BY <2>1, <2>4, Frame
<1>11. ASSUME NEW j \in Jobs, LazyInitialize(j) PROVE IInv'
  <2>1. TypeOK'
    BY <1>1, <1>11 DEF LazyInitialize, TypeOK
  <2>2. PollAside
    BY <1>1, <1>11 DEF LazyInitialize, PollAside, Initialized
  <2>3. NoNewWait
    BY <1>1, <1>11 DEF LazyInitialize, NoNewWait, TypeOK
  <2>4. Aside
    BY <1>1, <1>11, <2>2, <2>3 DEF LazyInitialize, Aside, TypeOK
  <2>. QED  BY <2>1, <2>4, Frame
<1>3. ASSUME NEW j \in Jobs, AwaitRoom(j) PROVE IInv'
  <2>1. TypeOK'
    BY <1>1, <1>3 DEF AwaitRoom, TypeOK
  <2>2. PollAside
    BY <1>1, <1>3 DEF AwaitRoom, PollAside
  <2>3. NoNewWait
    BY <1>1, <1>3 DEF AwaitRoom, NoNewWait, TypeOK
  <2>4. Aside
    BY <1>1, <1>3, <2>2, <2>3 DEF AwaitRoom, Aside, TypeOK
  <2>. QED  BY <2>1, <2>4, Frame
<1>4. ASSUME NEW f \in Fds, RemoveSocket(f) PROVE IInv'
  <2>1. TypeOK'
    BY <1>1, <1>4 DEF RemoveSocket, TypeOK
  <2>2. PollAside
    BY <1>1, <1>4 DEF RemoveSocket, PollAside
  <2>3. NoNewWait
    BY <1>1, <1>4 DEF RemoveSocket, NoNewWait, TypeOK
  <2>4. Aside
    BY <1>1, <1>4, <2>2, <2>3 DEF RemoveSocket, Aside, TypeOK
  <2>. QED  BY <2>1, <2>4, Frame
<1>5. ASSUME NEW f \in Fds, RemoveAwaitsRoom(f) PROVE IInv'
  <2>1. TypeOK'
    BY <1>1, <1>5 DEF RemoveAwaitsRoom, TypeOK
  <2>2. PollAside
    BY <1>1, <1>5 DEF RemoveAwaitsRoom, PollAside
  <2>3. NoNewWait
    BY <1>1, <1>5 DEF RemoveAwaitsRoom, NoNewWait, TypeOK
  <2>4. Aside
    BY <1>1, <1>5, <2>2, <2>3 DEF RemoveAwaitsRoom, Aside, TypeOK
  <2>. QED  BY <2>1, <2>4, Frame
<1>6. ASSUME NEW f \in Fds, RemoveReturns(f) PROVE IInv'
  <2>1. TypeOK'
    BY <1>1, <1>6 DEF RemoveReturns, TypeOK
  <2>2. PollAside
    BY <1>1, <1>6 DEF RemoveReturns, PollAside
  <2>3. NoNewWait
    BY <1>1, <1>6 DEF RemoveReturns, NoNewWait, TypeOK
  <2>4. Aside
    BY <1>1, <1>6, <2>2, <2>3 DEF RemoveReturns, Aside, TypeOK
  <2>. QED  BY <2>1, <2>4, Frame
<1>7. ASSUME NEW f \in Fds, SpuriousWakeup(f) PROVE IInv'
  <2>1. TypeOK'
    BY <1>1, <1>7 DEF SpuriousWakeup, TypeOK
  <2>2. PollAside
    BY <1>1, <1>7 DEF SpuriousWakeup, PollAside
  <2>3. NoNewWait
    BY <1>1, <1>7 DEF SpuriousWakeup, NoNewWait, TypeOK
  <2>4. Aside
    BY <1>1, <1>7, <2>2, <2>3 DEF SpuriousWakeup, Aside, TypeOK
  <2>. QED  BY <2>1, <2>4, Frame
<1>8. ASSUME NEW f \in Fds, Close(f) PROVE IInv'
  <2>1. TypeOK'
    BY <1>1, <1>8 DEF Close, TypeOK
  <2>2. PollAside
    BY <1>1, <1>8 DEF Close, PollAside
  <2>3. NoNewWait
    BY <1>1, <1>8 DEF Close, NoNewWait, TypeOK
  <2>4. Aside
    BY <1>1, <1>8, <2>2, <2>3 DEF Close, Aside, TypeOK
  <2>. QED  BY <2>1, <2>4, Frame
<1>9. ASSUME NEW f \in Fds, Reopen(f) PROVE IInv'
  <2>1. TypeOK'
    BY <1>1, <1>9 DEF Reopen, TypeOK
  <2>2. PollAside
    BY <1>1, <1>9 DEF Reopen, PollAside
  <2>3. NoNewWait
    BY <1>1, <1>9 DEF Reopen, NoNewWait, TypeOK
  <2>4. Aside
    BY <1>1, <1>9, <2>2, <2>3 DEF Reopen, Lost, Aside, TypeOK
  <2>. QED  BY <2>1, <2>4, Frame
<1>10. ASSUME Shutdown \/ Cleanup \/ CleanupEnds PROVE IInv'
  <2>1. TypeOK'
    BY <1>1, <1>10 DEF Shutdown, Cleanup, CleanupEnds, CleanupWakeup, TypeOK
  <2>2. PollAside
    BY <1>1, <1>10 DEF Shutdown, Cleanup, CleanupEnds, CleanupWakeup, PollAside
  <2>3. NoNewWait
    BY <1>1, <1>10 DEF Shutdown, Cleanup, CleanupEnds, CleanupWakeup, NoNewWait, TypeOK
  <2>4. Aside
    BY <1>1, <1>10, <2>2, <2>3 DEF Shutdown, Cleanup, CleanupEnds, CleanupWakeup, Aside, TypeOK
  <2>. QED  BY <2>1, <2>4, Frame
<1>. QED  BY <1>2, <1>3, <1>4, <1>5, <1>6, <1>7, <1>8, <1>9, <1>10, <1>11

\* The steps of the selector that touch neither the queue nor the tables.
LEMMA SelectorKeeps ==
  ASSUME IInv, \/ SelectorStarts \/ SelectorEnters \/ PollInterrupted \/ PollFails
               \/ Drain \/ SelectorGoesRound
  PROVE  IInv'
<1>. USE DEF pollVars, callVars, mainVars
<1>0. TypeOK /\ ReventsInv
  BY DEF IInv
<1>1. TypeOK'
  BY <1>0 DEF SelectorStarts, SelectorEnters, PollInterrupted, PollFails, Drain,
              SelectorGoesRound, TypeOK
<1>2. PollAside
  BY <1>0 DEF SelectorStarts, SelectorEnters, PollInterrupted, PollFails, Drain,
              SelectorGoesRound, ReventsInv, AllHandled, PollAside
<1>3. UNCHANGED <<updates, states, known, poll_fds, events, revents, job, remover, early, owed>>
  BY DEF SelectorStarts, SelectorEnters, PollInterrupted, PollFails, Drain, SelectorGoesRound
<1>4. Aside
  BY <1>2, <1>3 DEF Aside, NoNewWait
<1>. QED  BY <1>1, <1>4, Frame

\* Poll: an error is reported of any descriptor, an operation only if it is asked for.
LEMMA PollKeeps ==
  ASSUME IInv, Poll
  PROVE  IInv'
<1>. USE DEF IInv, Poll, pollVars, callVars, mainVars
<1>1. \A f \in Fds : /\ f \notin known => revents'[f] = {}
                     /\ "ERR" \in revents'[f] => revents'[f] = Err
  <2>. SUFFICES ASSUME NEW f \in Fds
                PROVE  /\ f \notin known => revents'[f] = {}
                       /\ "ERR" \in revents'[f] => revents'[f] = Err
    OBVIOUS
  <2>1. revents'[f] \in Reports(f) /\ events[f] \subseteq Ops
    BY DEF TypeOK
  <2>2. "ERR" \notin events[f]
    BY <2>1 DEF Ops
  <2>. QED  BY <2>1, <2>2 DEF Reports
<1>2. TypeOK'
  BY DEF TypeOK
<1>3. TablesAgree'
  BY <1>1 DEF TablesAgree, Ready
<1>4. ReventsInv'
  BY <1>1 DEF ReventsInv
<1>5. JobHasAPlace'
  BY DEF JobHasAPlace, InQueue
<1>6. QueueInv' /\ LateInv' /\ RemovalInv' /\ OwedInv' /\ WaitersAreOwedABroadcast'
  BY DEF QueueInv, LateInv, RemovalInv, OwedInv, WaitersAreOwedABroadcast, Waits
<1>. QED  BY <1>2, <1>3, <1>4, <1>5, <1>6

-----------------------------------------------------------------------------
(* The queue grows: an operation is accepted, or comes too late.            *)
LEMMA Appends ==
  ASSUME TypeOK, NEW u \in Update, updates' = Append(updates, u)
  PROVE  /\ Len(updates) \in Nat /\ DOMAIN updates = 1..Len(updates)
         /\ Len(updates') = Len(updates) + 1 /\ DOMAIN updates' = 1..(Len(updates) + 1)
         /\ \A i \in DOMAIN updates : updates'[i] = updates[i]
         /\ updates'[Len(updates) + 1] = u
         /\ updates' \in Seq(Update) /\ updates' # <<>>
<1>1. updates \in Seq(Update)
  BY DEF TypeOK
<1>2. /\ Len(updates) \in Nat /\ DOMAIN updates = 1..Len(updates)
      /\ Len(updates') = Len(updates) + 1 /\ DOMAIN updates' = 1..(Len(updates) + 1)
      /\ updates' \in Seq(Update)
  BY <1>1
<1>3. \A i \in 1..Len(updates) : updates'[i] = updates[i]
  BY <1>1
<1>4. updates'[Len(updates) + 1] = u
  BY <1>1
<1>5. updates' # <<>>
  BY <1>2
<1>. QED  BY <1>2, <1>3, <1>4, <1>5

LEMMA AddUpdateKeeps ==
  ASSUME IInv, NEW j \in Jobs, AddUpdate(j)
  PROVE  IInv'
<1>. USE DEF IInv, pollVars, callVars, mainVars
<1>. DEFINE u == IF j[1] \in open THEN ADD(j) ELSE EMPTY
            n == Len(updates)
<1>1. u \in Update /\ updates' = Append(updates, u)
  BY Distinct DEF AddUpdate
<1>2. /\ n \in Nat /\ DOMAIN updates = 1..n
      /\ Len(updates') = n + 1 /\ DOMAIN updates' = 1..(n + 1)
      /\ \A i \in DOMAIN updates : updates'[i] = updates[i]
      /\ updates'[n + 1] = u
      /\ updates' \in Seq(Update) /\ updates' # <<>>
  BY <1>1, Appends
<1>3. /\ \A k \in Jobs : u = ADD(k) => k = j
      /\ job' = [job EXCEPT ![j] = IF j[1] \in open THEN Taken(j) ELSE "dropped"]
      /\ Taken(j) \in {"accepted", "late"}
  BY Distinct DEF AddUpdate, Taken
<1>4. \A f \in Fds : u # REMOVE_SOCKET(f)
  BY Distinct, <1>1 DEF EMPTY, REMOVE_SOCKET
<1>5. u[1] = "ADD" => u = ADD(j) /\ j[1] \in open
  BY Distinct
<1>6. j[1] \in open <=> u = ADD(j)
  BY Distinct
<1>. HIDE DEF u, n
<1>7. ~InQueue(ADD(j)) /\ j[2] \notin states[j[1]]
  BY DEF AddUpdate, JobHasAPlace
<1>8. TypeOK'
  <2>1. Len(updates') <= UPDATES_CAPACITY
    BY <1>2, CapacityAssumption DEF AddUpdate, HasRoom, n
  <2>2. wake' \in BOOLEAN
    BY DEF AddUpdate, Wakeup
  <2>3. job' \in [Jobs -> {"idle", "starting", "adding", "full", "late", "accepted", "dropped"}]
    BY <1>3 DEF TypeOK
  <2>. QED  BY <1>2, <2>1, <2>2, <2>3 DEF AddUpdate, TypeOK
<1>9. TablesAgree' /\ ReventsInv'
  BY DEF AddUpdate, TablesAgree, ReventsInv, Ready
<1>10. QueueInv'
  <2>. SUFFICES ASSUME NEW i \in 1..(n + 1), NEW k \in 1..(n + 1),
                       updates'[i] = updates'[k], updates'[i][1] = "ADD"
                PROVE  i = k
    BY <1>2 DEF QueueInv
  <2>1. CASE i \in 1..n /\ k \in 1..n
    BY <1>2, <2>1 DEF QueueInv
  <2>2. CASE i = n + 1 \/ k = n + 1
    <3>1. updates'[i] = ADD(j) /\ updates'[k] = ADD(j)
      BY <1>2, <1>5, <2>2
    <3>2. i \notin 1..n /\ k \notin 1..n
      BY <1>2, <1>7, <3>1 DEF InQueue
    <3>. QED  BY <1>2, <3>2
  <2>. QED  BY <1>2, <2>1, <2>2
<1>11. \A k \in Jobs : (InQueue(ADD(k)))' <=> InQueue(ADD(k)) \/ u = ADD(k)
  <2>1. \A k \in Jobs : (ADD(k))' = ADD(k)
    BY DEF ADD
  <2>2. \A v : (\E i \in 1..(n + 1) : updates'[i] = v)
                 <=> (\E i \in 1..n : updates[i] = v) \/ u = v
    <3>1. \A i \in 1..(n + 1) : i \in 1..n \/ i = n + 1
      BY <1>2
    <3>2. n + 1 \in 1..(n + 1) /\ \A i \in 1..n : i \in 1..(n + 1)
      BY <1>2
    <3>. QED  BY <1>2, <3>1, <3>2
  <2>. QED  BY <1>2, <2>2 DEF InQueue
<1>12. JobHasAPlace'
  <2>. SUFFICES ASSUME NEW k \in Jobs
                PROVE  /\ job'[k] = "accepted" => (InQueue(ADD(k)))' \/ k[2] \in states'[k[1]]
                       /\ (InQueue(ADD(k)))' => /\ job'[k] \in {"accepted", "late"}
                                                /\ k[2] \notin states'[k[1]]
                       /\ k[2] \in states'[k[1]] => job'[k] = "accepted"
    BY DEF JobHasAPlace
  <2>0. states' = states
    BY DEF AddUpdate
  <2>1. CASE k = j
    <3>1. job'[k] = IF j[1] \in open THEN Taken(j) ELSE "dropped"
      BY <1>3, <2>1 DEF TypeOK
    <3>. QED  BY <1>3, <1>6, <1>7, <1>11, <2>0, <2>1, <3>1
  <2>2. CASE k # j
    <3>1. job'[k] = job[k] /\ ((InQueue(ADD(k)))' <=> InQueue(ADD(k)))
      BY <1>3, <1>11, <2>2 DEF TypeOK
    <3>. QED  BY <2>0, <3>1 DEF JobHasAPlace
  <2>. QED  BY <2>1, <2>2
<1>13. RemovalInv'
  <2>1. \A f \in Fds, i \in DOMAIN updates' : updates'[i] = REMOVE_SOCKET(f)
            => i \in DOMAIN updates /\ updates[i] = REMOVE_SOCKET(f)
    BY <1>2, <1>4
  <2>. QED  BY <2>1 DEF RemovalInv, AddUpdate
<1>14. OwedInv'
  <2>1. \A r \in DOMAIN updates : r \in DOMAIN updates' /\ updates'[r] = updates[r]
    BY <1>2
  <2>2. \A r \in DOMAIN updates : \A i \in 1..(r - 1) : i \in DOMAIN updates
    BY <1>2
  <2>. QED  BY <2>1, <2>2 DEF OwedInv, AddUpdate
<1>15. WaitersAreOwedABroadcast'
  BY <1>2 DEF WaitersAreOwedABroadcast
<1>16. LateInv'
  <2>. SUFFICES ASSUME NEW i \in 1..(n + 1), NEW k \in 1..(n + 1), NEW m \in Jobs,
                       updates'[i] = REMOVE_SOCKET(m[1]), updates'[k] = ADD(m), i < k
                PROVE  job'[m] = "late"
    BY <1>2 DEF LateInv, REMOVE_SOCKET, ADD
  <2>1. i \in DOMAIN updates /\ updates[i] = REMOVE_SOCKET(m[1])
    BY <1>2
  <2>2. CASE k = n + 1
    <3>1. m = j /\ j[1] \in open
      BY <1>2, <1>3, <1>6, <2>2
    <3>2. Taken(j) = "late"
      BY <2>1, <3>1 DEF Taken, InQueue
    <3>. QED  BY <1>3, <3>1, <3>2 DEF TypeOK
  <2>3. CASE k # n + 1
    <3>1. k \in DOMAIN updates /\ updates[k] = ADD(m)
      BY <1>2, <2>3
    <3>2. m # j
      BY <1>7, <3>1 DEF InQueue
    <3>3. job[m] = "late"
      BY <2>1, <3>1 DEF LateInv
    <3>. QED  BY <1>3, <3>2, <3>3 DEF TypeOK
  <2>. QED  BY <2>2, <2>3
<1>. QED  BY <1>8, <1>9, <1>10, <1>12, <1>13, <1>14, <1>15, <1>16

\* A removal is queued behind the operations of its socket.
LEMMA RemoveUpdateKeeps ==
  ASSUME IInv, NEW f \in Fds, RemoveUpdate(f)
  PROVE  IInv'
<1>. USE DEF IInv, pollVars, callVars, mainVars
<1>. DEFINE n == Len(updates)
<1>1. /\ n \in Nat /\ DOMAIN updates = 1..n
      /\ Len(updates') = n + 1 /\ DOMAIN updates' = 1..(n + 1)
      /\ \A i \in DOMAIN updates : updates'[i] = updates[i]
      /\ updates'[n + 1] = REMOVE_SOCKET(f)
      /\ updates' \in Seq(Update) /\ updates' # <<>>
  BY Appends, Distinct DEF RemoveUpdate
<1>2. /\ remover[f] = "removing"
      /\ remover' = [remover EXCEPT ![f] = "waiting"]
      /\ owed' = owed \union {j \in Jobs : j[1] = f /\ job[j] = "accepted"}
      /\ UNCHANGED <<states, job, early>>
  BY DEF RemoveUpdate
<1>3. n < UPDATES_CAPACITY
  BY DEF RemoveUpdate, HasRoom
<1>. HIDE DEF n
<1>4. TypeOK'
  <2>1. Len(updates') <= UPDATES_CAPACITY
    BY <1>1, <1>3, CapacityAssumption
  <2>2. wake' \in BOOLEAN
    BY DEF RemoveUpdate, Wakeup
  <2>. QED  BY <1>1, <2>1, <2>2 DEF RemoveUpdate, TypeOK
<1>5. TablesAgree' /\ ReventsInv'
  BY DEF RemoveUpdate, TablesAgree, ReventsInv, Ready
<1>6. \A i \in DOMAIN updates' : i \in DOMAIN updates \/ i = n + 1
  BY <1>1
<1>7. QueueInv'
  BY <1>1, <1>6, Distinct DEF QueueInv
<1>8. \A k \in Jobs : (InQueue(ADD(k)))' <=> InQueue(ADD(k))
  <2>1. \A i \in DOMAIN updates : i \in DOMAIN updates'
    BY <1>1
  <2>. QED  BY <1>1, <1>6, <2>1, Distinct DEF InQueue
<1>9. JobHasAPlace'
  BY <1>2, <1>8 DEF JobHasAPlace
<1>10. RemovalInv'
  <2>. SUFFICES ASSUME NEW g \in Fds \ early'
                PROVE  /\ \A i \in DOMAIN updates' :
                             updates'[i] = REMOVE_SOCKET(g) => remover'[g] = "waiting"
                       /\ \A i, k \in DOMAIN updates' :
                             updates'[i] = REMOVE_SOCKET(g) /\ updates'[k] = REMOVE_SOCKET(g)
                                => i = k
    BY DEF RemovalInv, REMOVE_SOCKET
  <2>1. CASE g = f
    <3>1. \A i \in DOMAIN updates : updates[i] # REMOVE_SOCKET(f)
      BY <1>2, <2>1 DEF RemovalInv
    <3>2. remover'[f] = "waiting"
      BY <1>2 DEF TypeOK
    <3>. QED  BY <1>1, <1>6, <2>1, <3>1, <3>2
  <2>2. CASE g # f
    <3>1. \A i \in DOMAIN updates' : updates'[i] = REMOVE_SOCKET(g)
              => i \in DOMAIN updates /\ updates[i] = REMOVE_SOCKET(g)
      BY <1>1, <1>6, <2>2, Distinct
    <3>2. remover'[g] = remover[g]
      BY <1>2, <2>2 DEF TypeOK
    <3>. QED  BY <1>2, <3>1, <3>2 DEF RemovalInv
  <2>. QED  BY <2>1, <2>2
<1>11. OwedInv'
  <2>. SUFFICES ASSUME NEW j \in owed', j[1] \notin early'
                PROVE  \E r \in DOMAIN updates' :
                         /\ updates'[r] = REMOVE_SOCKET(j[1])
                         /\ j[2] \in states'[j[1]] \/ \E i \in 1..(r - 1) : updates'[i] = ADD(j)
    BY DEF OwedInv, REMOVE_SOCKET, ADD
  <2>1. CASE j \in owed
    <3>1. PICK r \in DOMAIN updates :
             /\ updates[r] = REMOVE_SOCKET(j[1])
             /\ j[2] \in states[j[1]] \/ \E i \in 1..(r - 1) : updates[i] = ADD(j)
      BY <1>2, <2>1 DEF OwedInv
    <3>2. r \in DOMAIN updates' /\ \A i \in 1..(r - 1) : i \in DOMAIN updates
      BY <1>1
    <3>. QED  BY <1>1, <1>2, <3>1, <3>2
  <2>2. CASE j \in Jobs /\ j[1] = f /\ job[j] = "accepted"
    <3>1. n + 1 \in DOMAIN updates' /\ \A i \in DOMAIN updates : i \in 1..((n + 1) - 1)
      BY <1>1
    <3>2. InQueue(ADD(j)) \/ j[2] \in states[j[1]]
      BY <2>2 DEF JobHasAPlace
    <3>. QED  BY <1>1, <1>2, <2>2, <3>1, <3>2 DEF InQueue
  <2>. QED  BY <1>2, <2>1, <2>2
<1>12. WaitersAreOwedABroadcast'
  BY <1>1 DEF WaitersAreOwedABroadcast
<1>13. LateInv'
  <2>. SUFFICES ASSUME NEW i \in DOMAIN updates', NEW k \in DOMAIN updates', NEW j \in Jobs,
                       updates'[i] = REMOVE_SOCKET(j[1]), updates'[k] = ADD(j), i < k
                PROVE  job'[j] = "late"
    BY DEF LateInv, REMOVE_SOCKET, ADD
  <2>1. k # n + 1
    BY <1>1, Distinct
  <2>2. k \in DOMAIN updates /\ i \in DOMAIN updates
    BY <1>1, <2>1
  <2>. QED  BY <1>1, <1>2, <2>2 DEF LateInv
<1>. QED  BY <1>4, <1>5, <1>7, <1>9, <1>10, <1>11, <1>12, <1>13

-----------------------------------------------------------------------------
(* The selector applies an ADD: the job moves from the queue to the list.   *)
LEMMA AppliedQueue ==
  ASSUME TypeOK, updates' = Applied(Current), Current # 0
  PROVE  /\ updates' \in Seq(Update) /\ Len(updates') = Len(updates)
         /\ DOMAIN updates' = DOMAIN updates
         /\ \A i \in DOMAIN updates : updates'[i] = IF i = Current THEN EMPTY ELSE updates[i]
         /\ Current \in DOMAIN updates /\ updates' # <<>>
<1>1. Current \in DOMAIN updates /\ Current \in 1..Len(updates)
  BY FirstUpdate
<1>2. EMPTY \in Update /\ updates \in Seq(Update)
  BY Distinct DEF TypeOK
<1>3. updates' = [updates EXCEPT ![Current] = EMPTY]
  BY DEF Applied
<1>4. /\ updates' \in Seq(Update) /\ Len(updates') = Len(updates)
      /\ DOMAIN updates' = DOMAIN updates
      /\ \A i \in DOMAIN updates : updates'[i] = IF i = Current THEN EMPTY ELSE updates[i]
  BY <1>1, <1>2, <1>3
<1>. QED  BY <1>1, <1>4

LEMMA ApplyAddKeeps ==
  ASSUME IInv, ApplyAdd
  PROVE  IInv'
<1>. USE DEF IInv, pollVars, callVars, mainVars
<1>. DEFINE u == updates[Current]
            c == Current
<1>1. PICK j \in Jobs : u = ADD(j) /\ u[2] = j[1] /\ u[3] = j[2] /\ j[1] \in Fds /\ j[2] \in Ops
  <2>1. u \in Update /\ u[1] = "ADD"
    BY FirstUpdate DEF ApplyAdd
  <2>2. <<u[2], u[3]>> \in Jobs /\ u = ADD(<<u[2], u[3]>>) /\ u[2] \in Fds /\ u[3] \in Ops
    BY <2>1, UpdateCases DEF EMPTY
  <2>. HIDE DEF u
  <2>. QED  BY <2>2
<1>2. /\ updates' \in Seq(Update) /\ Len(updates') = Len(updates)
      /\ DOMAIN updates' = DOMAIN updates
      /\ \A i \in DOMAIN updates : updates'[i] = IF i = c THEN EMPTY ELSE updates[i]
      /\ c \in DOMAIN updates /\ updates' # <<>> /\ updates[c] = ADD(j)
  BY <1>1, AppliedQueue DEF ApplyAdd
<1>3. /\ states' = [states EXCEPT ![j[1]] = @ \union {j[2]}]
      /\ known' = known \union {j[1]}
      /\ Table(poll_fds', known \union {j[1]})
      /\ events' = [events EXCEPT ![j[1]] = states'[j[1]]]
      /\ job' = [job EXCEPT ![<<j[1], j[2]>>] = "accepted"]
      /\ UNCHANGED <<wake, selector, running, revents, drain, remover, early, owed, open,
                     shuttingDown, cleanup>>
  BY <1>1, Registers DEF ApplyAdd
<1>. HIDE DEF u, c
<1>4. /\ \A g \in Fds : states'[g] = IF g = j[1] THEN states[g] \union {j[2]} ELSE states[g]
      /\ \A k \in Jobs : job'[k] = IF k = j THEN "accepted" ELSE job[k]
      /\ job' \in [Jobs -> {"idle", "starting", "adding", "full", "late", "accepted", "dropped"}]
  BY <1>3, JobShape DEF TypeOK
<1>5. TypeOK'
  <2>1. states' \in [Fds -> SUBSET Ops]
    BY <1>1, <1>3 DEF TypeOK
  <2>2. events' \in [Fds -> SUBSET Ops] /\ poll_fds' \in Seq(Fds \union {-1})
    BY <1>1, <1>3, <2>1 DEF TypeOK, Table
  <2>3. updates' \in Seq(Update) /\ Len(updates') <= UPDATES_CAPACITY
    BY <1>2 DEF TypeOK
  <2>. QED  BY <1>1, <1>3, <1>4, <2>1, <2>2, <2>3 DEF TypeOK
<1>6. TablesAgree'
  <2>1. \A g \in Fds : events'[g] = states'[g] /\ (g \notin known' => states'[g] = {})
    BY <1>1, <1>3, <1>4 DEF TypeOK, TablesAgree
  <2>2. \A g \in Fds : (Ready(g))' => g \in known'
    BY <1>3 DEF TablesAgree, Ready
  <2>. QED  BY <1>3, <2>1, <2>2 DEF TablesAgree, Table
<1>7. ReventsInv'
  BY <1>3 DEF ReventsInv, Ready
<1>8. QueueInv'
  BY <1>2, Distinct DEF QueueInv, EMPTY
<1>9. \A k \in Jobs : (InQueue(ADD(k)))' <=> InQueue(ADD(k)) /\ k # j
  <2>. SUFFICES ASSUME NEW k \in Jobs
                PROVE  (InQueue(ADD(k)))' <=> InQueue(ADD(k)) /\ k # j
    OBVIOUS
  <2>1. CASE k = j
    <3>1. ASSUME NEW i \in DOMAIN updates, updates'[i] = ADD(j) PROVE FALSE
      <4>1. i # c /\ updates[i] = ADD(j)
        BY <1>2, <3>1, Distinct
      <4>2. updates[i][1] = "ADD"
        BY <4>1, Distinct
      <4>. QED  BY <1>2, <4>1, <4>2 DEF QueueInv
    <3>. QED  BY <1>2, <2>1, <3>1 DEF InQueue, ADD
  <2>2. CASE k # j
    <3>1. \A i \in DOMAIN updates : updates'[i] = ADD(k) <=> updates[i] = ADD(k)
      BY <1>2, <2>2, Distinct
    <3>. QED  BY <1>2, <2>2, <3>1 DEF InQueue, ADD
  <2>. QED  BY <2>1, <2>2
<1>10. \A k \in Jobs : k[2] \in states'[k[1]] <=> k[2] \in states[k[1]] \/ k = j
  <2>. SUFFICES ASSUME NEW k \in Jobs
                PROVE  k[2] \in states'[k[1]] <=> k[2] \in states[k[1]] \/ k = j
    OBVIOUS
  <2>1. k = <<k[1], k[2]>> /\ k[1] \in Fds /\ j = <<j[1], j[2]>>
    BY JobShape
  <2>. QED  BY <1>1, <1>4, <2>1
<1>11. JobHasAPlace'
  <2>. SUFFICES ASSUME NEW k \in Jobs
                PROVE  /\ job'[k] = "accepted" => (InQueue(ADD(k)))' \/ k[2] \in states'[k[1]]
                       /\ (InQueue(ADD(k)))' => /\ job'[k] \in {"accepted", "late"}
                                                /\ k[2] \notin states'[k[1]]
                       /\ k[2] \in states'[k[1]] => job'[k] = "accepted"
    BY DEF JobHasAPlace
  <2>. QED  BY <1>4, <1>9, <1>10 DEF JobHasAPlace
<1>12. \A f \in Fds, i \in DOMAIN updates :
          updates'[i] = REMOVE_SOCKET(f) <=> updates[i] = REMOVE_SOCKET(f)
  BY <1>2, Distinct
<1>13. RemovalInv'
  BY <1>2, <1>3, <1>12 DEF RemovalInv, REMOVE_SOCKET
<1>14. OwedInv'
  <2>. SUFFICES ASSUME NEW k \in owed, k[1] \notin early
                PROVE  \E r \in DOMAIN updates' :
                         /\ updates'[r] = REMOVE_SOCKET(k[1])
                         /\ k[2] \in states'[k[1]] \/ \E i \in 1..(r - 1) : updates'[i] = ADD(k)
    BY <1>3 DEF OwedInv, REMOVE_SOCKET, ADD
  <2>1. PICK r \in DOMAIN updates :
           /\ updates[r] = REMOVE_SOCKET(k[1])
           /\ k[2] \in states[k[1]] \/ \E i \in 1..(r - 1) : updates[i] = ADD(k)
    BY DEF OwedInv
  <2>2. k \in Jobs /\ k[1] \in Fds
    BY JobShape DEF TypeOK
  <2>3. r \in DOMAIN updates' /\ updates'[r] = REMOVE_SOCKET(k[1])
    BY <1>2, <1>12, <2>1, <2>2
  <2>4. CASE k[2] \in states[k[1]]
    BY <1>10, <2>2, <2>3, <2>4
  <2>5. ASSUME NEW i \in 1..(r - 1), updates[i] = ADD(k)
        PROVE  k[2] \in states'[k[1]] \/ updates'[i] = ADD(k)
    <3>1. i \in DOMAIN updates
      BY FirstUpdate
    <3>2. CASE i = c
      <4>1. ADD(k) = ADD(j)
        BY <1>2, <2>5, <3>2
      <4>2. k = j
        BY <2>2, <4>1, Distinct
      <4>. QED  BY <1>10, <2>2, <4>2
    <3>3. CASE i # c
      BY <1>2, <2>5, <3>1, <3>3
    <3>. QED  BY <3>2, <3>3
  <2>. QED  BY <2>1, <2>3, <2>4, <2>5
<1>15. WaitersAreOwedABroadcast'
  BY <1>2 DEF WaitersAreOwedABroadcast
<1>16. LateInv'
  <2>. SUFFICES ASSUME NEW i \in DOMAIN updates, NEW k \in DOMAIN updates, NEW m \in Jobs,
                       updates'[i] = REMOVE_SOCKET(m[1]), updates'[k] = ADD(m), i < k
                PROVE  job'[m] = "late"
    BY <1>2 DEF LateInv, REMOVE_SOCKET, ADD
  <2>1. m # j /\ m[1] \in Fds
    BY <1>2, <1>9, JobShape DEF InQueue, ADD
  <2>2. updates[k] = ADD(m) /\ updates[i] = REMOVE_SOCKET(m[1])
    BY <1>2, <1>12, <2>1, Distinct
  <2>. QED  BY <1>4, <2>1, <2>2 DEF LateInv
<1>. QED  BY <1>5, <1>6, <1>7, <1>8, <1>11, <1>13, <1>14, <1>15, <1>16

-----------------------------------------------------------------------------
(* The selector applies a removal.  Nothing is left of the queue before it, *)
(* so a job that the removal owes is on the list, and is handed out.        *)
LEMMA OwedIsListed ==
  ASSUME IInv, Current # 0, NEW f \in Fds, updates[Current] = REMOVE_SOCKET(f),
         NEW j \in owed, j[1] = f, f \notin early
  PROVE  j[2] \in states[f] /\ job[j] = "accepted"
<1>1. PICK r \in DOMAIN updates :
         /\ updates[r] = REMOVE_SOCKET(f)
         /\ j[2] \in states[f] \/ \E i \in 1..(r - 1) : updates[i] = ADD(j)
  BY DEF IInv, OwedInv
<1>2. Current \in DOMAIN updates /\ \A i \in 1..(Current - 1) : updates[i] = EMPTY
  BY FirstUpdate DEF IInv
<1>3. r = Current
  BY <1>1, <1>2 DEF IInv, RemovalInv
<1>4. j \in Jobs
  BY DEF IInv, TypeOK
<1>5. j[2] \in states[f]
  BY <1>1, <1>2, <1>3, <1>4, Distinct
<1>. QED  BY <1>4, <1>5 DEF IInv, JobHasAPlace

LEMMA ApplyRemoveKeeps ==
  ASSUME IInv, ApplyRemove
  PROVE  IInv'
<1>. USE DEF IInv, pollVars, callVars, mainVars
<1>. DEFINE c == Current
            f == updates[Current][2]
<1>1. f \in Fds /\ updates[c] = REMOVE_SOCKET(f) /\ c # 0
  <2>1. updates[Current] \in Update /\ updates[Current][1] = "REMOVE_SOCKET"
    BY FirstUpdate DEF ApplyRemove
  <2>. QED  BY <2>1, UpdateCases DEF ApplyRemove, EMPTY
<1>2. /\ c \in DOMAIN updates /\ Len(updates) \in Nat /\ DOMAIN updates = 1..Len(updates)
      /\ updates \in Seq(Update)
  BY <1>1, FirstUpdate DEF TypeOK
<1>7. \A i \in 1..(c - 1) : updates[i] = EMPTY
  BY <1>1, FirstUpdate
<1>3. \A j \in owed : j[1] = f /\ f \notin early => j[2] \in states[f] /\ job[j] = "accepted"
  BY <1>1, OwedIsListed
<1>4. /\ selector = "apply" /\ ~drain /\ (\A g \in Fds : ~Ready(g))
      /\ UNCHANGED <<wake, selector, running, revents, drain, remover, early, open,
                     shuttingDown, cleanup>>
  BY DEF ApplyRemove, ReventsInv
<1>5. CASE f \in known
  <2>1. /\ states' = [states EXCEPT ![f] = {}]
        /\ known' = known \ {f}
        /\ RemoveFd(f)
        /\ updates' = ClearAdds(f)
        /\ job' = [j \in Jobs |-> IF j[1] = f /\ j[2] \in states[f] THEN "idle" ELSE job[j]]
        /\ owed' = {j \in owed : job'[j] # "idle"}
    BY <1>5 DEF ApplyRemove, Listed, Deliver, Enqueued
  <2>2. Table(poll_fds', known \ {f}) /\ events' = [events EXCEPT ![f] = {}]
    BY <1>5, <2>1, Removes
  <2>3. updates' = [i \in DOMAIN updates |->
          IF i = c \/ (updates[i][1] = "ADD" /\ updates[i][2] = f) THEN EMPTY ELSE updates[i]]
    BY <2>1 DEF ClearAdds
  <2>. HIDE DEF c, f
  <2>4. /\ updates' \in Seq(Update) /\ Len(updates') = Len(updates)
        /\ DOMAIN updates' = DOMAIN updates /\ updates' # <<>>
    <3>1. \A i \in 1..Len(updates) : updates[i] \in Update /\ EMPTY \in Update
      BY <1>2, Distinct
    <3>2. updates' \in [1..Len(updates) -> Update]
      BY <1>2, <2>3, <3>1
    <3>. QED  BY <1>2, <2>3, <3>2
  <2>5. \A i \in DOMAIN updates :
           updates'[i] = IF i = c \/ (updates[i][1] = "ADD" /\ updates[i][2] = f)
                         THEN EMPTY ELSE updates[i]
    BY <2>3
  <2>6. /\ \A g \in Fds : states'[g] = IF g = f THEN {} ELSE states[g]
        /\ \A j \in Jobs : job'[j] = IF j[1] = f /\ j[2] \in states[f] THEN "idle" ELSE job[j]
    BY <2>1 DEF TypeOK
  <2>7. TypeOK'
    <3>1. /\ states' \in [Fds -> SUBSET Ops] /\ known' \subseteq Fds
          /\ events' \in [Fds -> SUBSET Ops] /\ poll_fds' \in Seq(Fds \union {-1})
      BY <2>1, <2>2 DEF TypeOK, Table
    <3>2. job' \in [Jobs -> {"idle", "starting", "adding", "full", "late", "accepted", "dropped"}]
      BY <2>1 DEF TypeOK
    <3>3. owed' \subseteq Jobs /\ Len(updates') <= UPDATES_CAPACITY
      BY <2>1, <2>4 DEF TypeOK
    <3>. QED  BY <1>4, <2>4, <3>1, <3>2, <3>3 DEF TypeOK
  <2>8. TablesAgree'
    <3>1. \A g \in Fds : events'[g] = states'[g] /\ (g \notin known' => states'[g] = {})
      BY <2>1, <2>2, <2>6 DEF TypeOK, TablesAgree
    <3>2. \A g \in Fds : ~(Ready(g))'
      BY <1>4 DEF Ready
    <3>. QED  BY <2>1, <2>2, <3>1, <3>2 DEF TablesAgree, Table
  <2>9. ReventsInv'
    BY <1>4 DEF ReventsInv, Ready
  <2>10. QueueInv'
    BY <2>4, <2>5, Distinct DEF QueueInv
  <2>11. \A k \in Jobs : (InQueue(ADD(k)))' <=> InQueue(ADD(k)) /\ k[1] # f
    <3>. SUFFICES ASSUME NEW k \in Jobs
                  PROVE  (InQueue(ADD(k)))' <=> InQueue(ADD(k)) /\ k[1] # f
      OBVIOUS
    <3>1. \A i \in DOMAIN updates : updates'[i] = ADD(k) <=> updates[i] = ADD(k) /\ k[1] # f
      BY <1>1, <2>5, Distinct
    <3>. QED  BY <2>4, <3>1 DEF InQueue, ADD
  <2>17. \A k \in Jobs : k[1] = f /\ InQueue(ADD(k)) => job[k] = "late"
    <3>. SUFFICES ASSUME NEW k \in Jobs, k[1] = f, NEW i \in DOMAIN updates,
                         updates[i] = ADD(k)
                  PROVE  job[k] = "late"
      BY DEF InQueue
    <3>1. i # c /\ updates[i] # EMPTY
      BY <1>1, Distinct
    <3>2. i \notin 1..(c - 1)
      BY <1>1, <1>7, <3>1
    <3>3. c < i
      BY <1>2, <3>1, <3>2
    <3>. QED  BY <1>1, <1>2, <3>3 DEF LateInv
  <2>12. JobHasAPlace'
    <3>. SUFFICES ASSUME NEW k \in Jobs
                  PROVE  /\ job'[k] = "accepted"
                               => (InQueue(ADD(k)))' \/ k[2] \in states'[k[1]]
                         /\ (InQueue(ADD(k)))' => /\ job'[k] \in {"accepted", "late"}
                                                  /\ k[2] \notin states'[k[1]]
                         /\ k[2] \in states'[k[1]] => job'[k] = "accepted"
      BY DEF JobHasAPlace
    <3>1. k[1] \in Fds
      BY JobShape
    <3>2. k[1] = f /\ InQueue(ADD(k)) => job[k] = "late"
      BY <2>17
    <3>. QED  BY <2>6, <2>11, <3>1, <3>2 DEF JobHasAPlace
  <2>13. \A g \in Fds, i \in DOMAIN updates :
            updates'[i] = REMOVE_SOCKET(g) <=> updates[i] = REMOVE_SOCKET(g) /\ i # c
    BY <2>5, Distinct
  <2>14. RemovalInv'
    BY <1>4, <2>4, <2>13 DEF RemovalInv, REMOVE_SOCKET
  <2>15. OwedInv'
    <3>. SUFFICES ASSUME NEW k \in owed, job'[k] # "idle", k[1] \notin early
                  PROVE  \E r \in DOMAIN updates' :
                           /\ updates'[r] = REMOVE_SOCKET(k[1])
                           /\ k[2] \in states'[k[1]] \/ \E i \in 1..(r - 1) : updates'[i] = ADD(k)
      BY <1>4, <2>1 DEF OwedInv, REMOVE_SOCKET, ADD
    <3>1. k \in Jobs /\ k[1] \in Fds
      BY JobShape DEF TypeOK
    <3>2. k[1] # f
      BY <1>3, <2>6, <3>1
    <3>3. PICK r \in DOMAIN updates :
             /\ updates[r] = REMOVE_SOCKET(k[1])
             /\ k[2] \in states[k[1]] \/ \E i \in 1..(r - 1) : updates[i] = ADD(k)
      BY DEF OwedInv
    <3>4. r \in DOMAIN updates' /\ updates'[r] = REMOVE_SOCKET(k[1])
      BY <1>1, <2>4, <2>13, <3>1, <3>2, <3>3, Distinct
    <3>5. \A i \in 1..(r - 1) : updates[i] = ADD(k) => updates'[i] = ADD(k)
      BY <1>1, <1>2, <2>5, <3>1, <3>2, Distinct
    <3>. QED  BY <2>6, <3>1, <3>2, <3>3, <3>4, <3>5
  <2>16. WaitersAreOwedABroadcast'
    BY <2>4 DEF WaitersAreOwedABroadcast
  <2>18. LateInv'
    <3>. SUFFICES ASSUME NEW i \in DOMAIN updates, NEW k \in DOMAIN updates, NEW m \in Jobs,
                         updates'[i] = REMOVE_SOCKET(m[1]), updates'[k] = ADD(m), i < k
                  PROVE  job'[m] = "late"
      BY <2>4 DEF LateInv, REMOVE_SOCKET, ADD
    <3>1. m[1] \in Fds
      BY JobShape
    <3>2. updates[k] = ADD(m) /\ m[1] # f
      BY <1>1, <2>5, Distinct
    <3>3. updates[i] = REMOVE_SOCKET(m[1])
      BY <2>13, <3>1
    <3>. QED  BY <2>6, <3>2, <3>3 DEF LateInv
  <2>. QED  BY <2>7, <2>8, <2>9, <2>10, <2>12, <2>14, <2>15, <2>16, <2>18
<1>6. CASE f \notin known
  <2>1. updates' = Applied(Current) /\ UNCHANGED <<pollVars, job, owed>>
    BY <1>6 DEF ApplyRemove
  <2>2. /\ updates' \in Seq(Update) /\ Len(updates') = Len(updates)
        /\ DOMAIN updates' = DOMAIN updates
        /\ \A i \in DOMAIN updates : updates'[i] = IF i = c THEN EMPTY ELSE updates[i]
        /\ updates' # <<>>
    BY <1>1, <2>1, AppliedQueue
  <2>3. states[f] = {}
    BY <1>1, <1>6 DEF TablesAgree
  <2>. HIDE DEF c, f
  <2>4. TypeOK'
    <3>1. Len(updates') <= UPDATES_CAPACITY
      BY <2>2 DEF TypeOK
    <3>. QED  BY <1>4, <2>1, <2>2, <3>1 DEF TypeOK
  <2>5. TablesAgree' /\ ReventsInv'
    BY <1>4, <2>1 DEF TablesAgree, ReventsInv, Ready
  <2>6. QueueInv'
    BY <2>2, Distinct DEF QueueInv
  <2>7. \A k \in Jobs, i \in DOMAIN updates : updates'[i] = ADD(k) <=> updates[i] = ADD(k)
    BY <1>1, <2>2, Distinct
  <2>8. JobHasAPlace'
    BY <2>1, <2>2, <2>7 DEF JobHasAPlace, InQueue, ADD
  <2>9. \A g \in Fds, i \in DOMAIN updates :
            updates'[i] = REMOVE_SOCKET(g) <=> updates[i] = REMOVE_SOCKET(g) /\ i # c
    BY <2>2, Distinct
  <2>10. RemovalInv'
    BY <1>4, <2>2, <2>9 DEF RemovalInv, REMOVE_SOCKET
  <2>11. OwedInv'
    <3>. SUFFICES ASSUME NEW k \in owed, k[1] \notin early
                  PROVE  \E r \in DOMAIN updates' :
                           /\ updates'[r] = REMOVE_SOCKET(k[1])
                           /\ k[2] \in states'[k[1]] \/ \E i \in 1..(r - 1) : updates'[i] = ADD(k)
      BY <1>4, <2>1 DEF OwedInv, REMOVE_SOCKET, ADD
    <3>1. k \in Jobs /\ k[1] \in Fds
      BY JobShape DEF TypeOK
    <3>2. k[1] # f
      BY <1>3, <2>3
    <3>3. PICK r \in DOMAIN updates :
             /\ updates[r] = REMOVE_SOCKET(k[1])
             /\ k[2] \in states[k[1]] \/ \E i \in 1..(r - 1) : updates[i] = ADD(k)
      BY DEF OwedInv
    <3>4. r \in DOMAIN updates' /\ updates'[r] = REMOVE_SOCKET(k[1])
      BY <1>1, <2>2, <2>9, <3>1, <3>2, <3>3, Distinct
    <3>5. \A i \in 1..(r - 1) : updates[i] = ADD(k) => updates'[i] = ADD(k)
      BY <1>2, <2>7, <3>1
    <3>. QED  BY <2>1, <3>3, <3>4, <3>5
  <2>12. WaitersAreOwedABroadcast'
    BY <2>2 DEF WaitersAreOwedABroadcast
  <2>13. LateInv'
    <3>. SUFFICES ASSUME NEW i \in DOMAIN updates, NEW k \in DOMAIN updates, NEW m \in Jobs,
                         updates'[i] = REMOVE_SOCKET(m[1]), updates'[k] = ADD(m), i < k
                  PROVE  job'[m] = "late"
      BY <2>2 DEF LateInv, REMOVE_SOCKET, ADD
    <3>1. m[1] \in Fds
      BY JobShape
    <3>. QED  BY <2>1, <2>7, <2>9, <3>1 DEF LateInv
  <2>. QED  BY <2>4, <2>5, <2>6, <2>8, <2>10, <2>11, <2>12, <2>13
<1>. QED  BY <1>5, <1>6

\* The selector has applied all the updates: whoever waits goes on.
LEMMA UnlocksKeeps ==
  ASSUME IInv, SelectorUnlocks
  PROVE  IInv'
<1>. USE DEF IInv, pollVars, callVars, mainVars
<1>1. /\ updates' = <<>> /\ selector = "apply" /\ selector' = "poll"
      /\ UNCHANGED <<wake, running, states, known, poll_fds, events, revents, drain, early,
                     owed, open, shuttingDown, cleanup>>
      /\ \A i \in DOMAIN updates : updates[i] = EMPTY
      /\ remover' = [f \in Fds |-> IF remover[f] = "waiting" THEN "woken"
                                   ELSE IF remover[f] = "full" THEN "removing" ELSE remover[f]]
      /\ job' = [j \in Jobs |-> IF job[j] = "full" THEN "adding" ELSE job[j]]
  BY FirstUpdate DEF SelectorUnlocks, EmptyUpdates, Broadcast
<1>2. updates' \in Seq(Update) /\ Len(updates') = 0 /\ DOMAIN updates' = {}
  BY <1>1
<1>3. TypeOK'
  <2>1. Len(updates') <= UPDATES_CAPACITY
    BY <1>2, CapacityAssumption
  <2>2. /\ remover' \in [Fds -> {"out", "removing", "full", "waiting", "woken", "returned"}]
        /\ job' \in [Jobs -> {"idle", "starting", "adding", "full", "late", "accepted", "dropped"}]
    BY <1>1 DEF TypeOK
  <2>. QED  BY <1>1, <1>2, <2>1, <2>2 DEF TypeOK
<1>4. TablesAgree' /\ ReventsInv'
  BY <1>1 DEF TablesAgree, ReventsInv, Ready
<1>5. \A k \in Jobs : ~InQueue(ADD(k)) /\ ~(InQueue(ADD(k)))'
  BY <1>1, <1>2, Distinct DEF InQueue
<1>6. JobHasAPlace'
  BY <1>1, <1>5 DEF JobHasAPlace, TypeOK
<1>7. QueueInv' /\ LateInv' /\ RemovalInv'
  BY <1>2 DEF QueueInv, LateInv, RemovalInv
<1>8. OwedInv'
  <2>1. ASSUME NEW j \in owed, j[1] \notin early PROVE FALSE
    <3>1. \E r \in DOMAIN updates : updates[r] = REMOVE_SOCKET(j[1])
      BY <2>1 DEF OwedInv
    <3>2. j[1] \in Fds
      BY JobShape DEF TypeOK
    <3>. QED  BY <1>1, <3>1, <3>2, Distinct
  <2>. QED  BY <1>1, <2>1 DEF OwedInv
<1>9. WaitersAreOwedABroadcast'
  <2>1. \A j \in Jobs : job'[j] # "full"
    BY <1>1
  <2>2. \A f \in Fds : remover'[f] \notin {"full", "waiting"}
    BY <1>1
  <2>. QED  BY <2>1, <2>2 DEF WaitersAreOwedABroadcast, Waits
<1>. QED  BY <1>3, <1>4, <1>6, <1>7, <1>8, <1>9

-----------------------------------------------------------------------------
(* The callback of a descriptor hands out the jobs that can go on.          *)
LEMMA CallbackKeeps ==
  ASSUME IInv, Callback
  PROVE  IInv'
<1>. USE DEF IInv, pollVars, callVars, mainVars
<1>. DEFINE f == NextReady
<1>1. f \in known /\ f \in Fds /\ Ready(f)
  BY ReadyDescriptor DEF Callback
<1>2. /\ selector = "events" /\ ~drain /\ revents' = [revents EXCEPT ![f] = {}]
      /\ UNCHANGED <<updates, wake, selector, running, drain, remover, early, open,
                     shuttingDown, cleanup>>
  BY DEF Callback
<1>3. \A g \in Fds : revents'[g] = IF g = f THEN {} ELSE revents[g]
  BY <1>2 DEF TypeOK
<1>4. revents' \in [Fds -> SUBSET Err]
  BY <1>2 DEF TypeOK
<1>5. ReventsInv'
  BY <1>2, <1>3 DEF ReventsInv, Ready
<1>6. QueueInv' /\ RemovalInv'
  BY <1>2 DEF QueueInv, RemovalInv
<1>7. \A j \in Jobs : j[1] \in Fds /\ j[2] \in Ops
  BY JobShape
<1>8. CASE shuttingDown
  <2>1. UNCHANGED <<states, known, poll_fds, events, job, owed>>
    BY <1>8 DEF Callback
  <2>. HIDE DEF f
  <2>2. TypeOK'
    BY <1>2, <1>4, <2>1 DEF TypeOK
  <2>3. TablesAgree'
    BY <1>3, <2>1 DEF TablesAgree, Ready
  <2>4. JobHasAPlace' /\ LateInv' /\ OwedInv' /\ WaitersAreOwedABroadcast'
    BY <1>2, <2>1 DEF JobHasAPlace, LateInv, InQueue, OwedInv, WaitersAreOwedABroadcast, Waits
  <2>. QED  BY <1>5, <1>6, <2>2, <2>3, <2>4
<1>9. CASE ~shuttingDown
  <2>. DEFINE ops == JobsFor(f)
              K == IF "ERR" \in revents[f] THEN known \ {f} ELSE known
  <2>1. /\ job' = [j \in Jobs |-> IF j[1] = f /\ j[2] \in ops THEN "idle" ELSE job[j]]
        /\ owed' = {j \in owed : job'[j] # "idle"}
    BY <1>9 DEF Callback, Deliver, Enqueued
  <2>2. ops \subseteq states[f] /\ states[f] \subseteq Ops
    BY <1>1 DEF JobsFor, TypeOK
  <2>3. /\ states' = [states EXCEPT ![f] = @ \ ops] /\ known' = K
        /\ Table(poll_fds', K) /\ events' = [events EXCEPT ![f] = states'[f]]
        /\ f \notin K => states'[f] = {}
    <3>1. CASE "ERR" \in revents[f]
      <4>1. states' = [states EXCEPT ![f] = {}] /\ known' = known \ {f} /\ RemoveFd(f)
        BY <1>9, <3>1 DEF Callback
      <4>2. states[f] \ ops = {}
        BY <1>1, <2>2, <3>1 DEF ReventsInv, Err, JobsFor
      <4>3. Table(poll_fds', known \ {f}) /\ events' = [events EXCEPT ![f] = {}]
        BY <1>1, <4>1, Removes
      <4>4. states'[f] = {}
        BY <1>1, <4>1 DEF TypeOK
      <4>5. states' = [states EXCEPT ![f] = states[f] \ ops]
        BY <4>1, <4>2
      <4>. QED  BY <3>1, <4>1, <4>3, <4>4, <4>5
    <3>2. CASE "ERR" \notin revents[f]
      <4>1. states' = [states EXCEPT ![f] = @ \ ops] /\ known' = known
            /\ RegisterFd(f, states'[f])
        BY <1>9, <3>2 DEF Callback
      <4>2. /\ Table(poll_fds', known \union {f})
            /\ events' = [events EXCEPT ![f] = states'[f]]
        BY <1>1, <4>1, Registers
      <4>3. known \union {f} = known
        BY <1>1
      <4>. QED  BY <1>1, <3>2, <4>1, <4>2, <4>3
    <3>. QED  BY <3>1, <3>2
  <2>4. K \subseteq known /\ \A g \in known : g \in K \/ g = f
    OBVIOUS
  <2>. HIDE DEF f, ops, K
  <2>5. \A g \in Fds : states'[g] = IF g = f THEN states[g] \ ops ELSE states[g]
    BY <2>3 DEF TypeOK
  <2>6. TypeOK'
    <3>1. states' \in [Fds -> SUBSET Ops]
      BY <1>1, <2>2, <2>3 DEF TypeOK
    <3>2. /\ known' \subseteq Fds /\ poll_fds' \in Seq(Fds \union {-1})
          /\ events' \in [Fds -> SUBSET Ops]
      BY <1>1, <2>3, <2>4, <3>1 DEF TypeOK, Table
    <3>3. /\ job' \in [Jobs -> {"idle", "starting", "adding", "full", "late", "accepted", "dropped"}]
          /\ owed' \subseteq Jobs
      BY <2>1 DEF TypeOK
    <3>. QED  BY <1>2, <1>4, <3>1, <3>2, <3>3 DEF TypeOK
  <2>7. TablesAgree'
    <3>1. \A g \in Fds : events'[g] = states'[g] /\ (g \notin known' => states'[g] = {})
      BY <1>1, <2>3, <2>4, <2>5 DEF TypeOK, TablesAgree
    <3>2. \A g \in Fds : (Ready(g))' => g \in known'
      BY <1>3, <2>3, <2>4 DEF TablesAgree, Ready
    <3>. QED  BY <2>3, <3>1, <3>2 DEF TablesAgree, Table
  <2>8. \A j \in Jobs : /\ job'[j] = IF j[1] = f /\ j[2] \in ops THEN "idle" ELSE job[j]
                        /\ j[2] \in states'[j[1]]
                              <=> j[2] \in states[j[1]] /\ ~(j[1] = f /\ j[2] \in ops)
    BY <1>7, <2>1, <2>5
  <2>9. JobHasAPlace'
    BY <1>2, <2>2, <2>8 DEF JobHasAPlace, InQueue, ADD
  <2>10. OwedInv'
    <3>. SUFFICES ASSUME NEW k \in owed, job'[k] # "idle", k[1] \notin early
                  PROVE  \E r \in DOMAIN updates :
                           /\ updates[r] = REMOVE_SOCKET(k[1])
                           /\ k[2] \in states'[k[1]] \/ \E i \in 1..(r - 1) : updates[i] = ADD(k)
      BY <1>2, <2>1 DEF OwedInv, REMOVE_SOCKET, ADD
    <3>1. k \in Jobs
      BY DEF TypeOK
    <3>2. k[2] \in states[k[1]] => k[2] \in states'[k[1]]
      BY <2>8, <3>1
    <3>. QED  BY <3>2 DEF OwedInv
  <2>11. WaitersAreOwedABroadcast'
    BY <1>2, <2>8 DEF WaitersAreOwedABroadcast, Waits
  <2>12. LateInv'
    <3>. SUFFICES ASSUME NEW i \in DOMAIN updates, NEW k \in DOMAIN updates, NEW m \in Jobs,
                         updates[i] = REMOVE_SOCKET(m[1]), updates[k] = ADD(m), i < k
                  PROVE  job'[m] = "late"
      BY <1>2 DEF LateInv, REMOVE_SOCKET, ADD
    <3>1. job[m] = "late" /\ InQueue(ADD(m))
      BY DEF LateInv, InQueue
    <3>2. m[2] \notin states[m[1]]
      BY <3>1 DEF JobHasAPlace
    <3>. QED  BY <2>2, <2>8, <3>1, <3>2
  <2>. QED  BY <1>5, <1>6, <2>6, <2>7, <2>9, <2>10, <2>11, <2>12
<1>. QED  BY <1>8, <1>9

-----------------------------------------------------------------------------
LEMMA Inductive == IInv /\ [Next]_vars => IInv'
<1>. SUFFICES ASSUME IInv, [Next]_vars PROVE IInv'
  OBVIOUS
<1>1. CASE UNCHANGED vars
  <2>1. TypeOK'
    BY <1>1 DEF IInv, TypeOK, vars, pollVars, callVars, mainVars
  <2>2. PollAside
    BY <1>1 DEF IInv, ReventsInv, PollAside, vars
  <2>3. Aside
    BY <1>1, <2>2 DEF Aside, NoNewWait, vars, pollVars, callVars, mainVars
  <2>. QED  BY <2>1, <2>3, Frame
<1>2. CASE SelectorStep
  BY <1>2, SelectorKeeps, ApplyAddKeeps, ApplyRemoveKeeps, UnlocksKeeps, PollKeeps, CallbackKeeps
     DEF SelectorStep
<1>3. CASE PollInterrupted \/ PollFails
  BY <1>3, SelectorKeeps
<1>4. CASE \E j \in Jobs : Add(j) \/ AddStep(j)
  BY <1>4, ThreadsKeep, AddUpdateKeeps DEF AddStep
<1>5. CASE \E f \in Fds : \/ RemoveSocket(f) \/ RemoveStep(f) \/ SpuriousWakeup(f)
                          \/ Close(f) \/ Reopen(f)
  BY <1>5, ThreadsKeep, RemoveUpdateKeeps DEF RemoveStep
<1>6. CASE Shutdown \/ Cleanup \/ CleanupEnds
  BY <1>6, ThreadsKeep
<1>. QED  BY <1>1, <1>2, <1>3, <1>4, <1>5, <1>6 DEF Next

THEOREM SelectorInvariant == Spec => []IInv
BY Initially, Inductive, PTL DEF Spec

(* The variables of the selector have their types, and the queue of updates *)
(* never exceeds its 128 entries (update_get_new, 488).                     *)
THEOREM TypeCorrect == Spec => []TypeOK
<1>1. IInv => TypeOK
  BY DEF IInv
<1>. QED  BY <1>1, SelectorInvariant, PTL

(* poll_fds has one entry for each descriptor with a list of jobs, in any   *)
(* order of registrations, errors and removals, and asks of it for the      *)
(* operations of its jobs (poll_register_fd, poll_remove_fd).               *)
THEOREM TablesAlwaysAgree == Spec => []TablesAgree
<1>1. IInv => TablesAgree
  BY DEF IInv
<1>. QED  BY <1>1, SelectorInvariant, PTL

(* An accepted job is in the queue or on the list of its socket until it is *)
(* handed to the thread pool, once, unless its ADD was queued behind a      *)
(* removal of its descriptor, with which the selector empties it (278-346,  *)
(* 367-447).                                                                *)
THEOREM JobsHavePlaces == Spec => []JobHasAPlace
<1>1. IInv => JobHasAPlace
  BY DEF IInv
<1>. QED  BY <1>1, SelectorInvariant, PTL

(* No thread waits on updates_cond without an update in the queue, whose    *)
(* broadcast ends the wait (493-510, 712).                                  *)
THEOREM WaitersAlwaysOwed == Spec => []WaitersAreOwedABroadcast
<1>1. IInv => WaitersAreOwedABroadcast
  BY DEF IInv
<1>. QED  BY <1>1, SelectorInvariant, PTL

(* threadpool_ms_io_remove_socket returns only when the jobs of its socket  *)
(* are handed out, unless its wait ended by itself (696-714).               *)
THEOREM RemovalsAreDone == Spec => []RemovalIsDone
<1>1. IInv => RemovalIsDone
  <2>. SUFFICES ASSUME IInv, NEW j \in owed, remover[j[1]] \in {"woken", "returned"},
                       j[1] \notin early
                PROVE  FALSE
    BY DEF RemovalIsDone
  <2>1. j[1] \in Fds
    BY JobShape DEF IInv, TypeOK
  <2>2. \E r \in DOMAIN updates : updates[r] = REMOVE_SOCKET(j[1])
    BY DEF IInv, OwedInv
  <2>. QED  BY <2>1, <2>2 DEF IInv, RemovalInv
<1>. QED  BY <1>1, SelectorInvariant, PTL

(* What the end of the cleanup rests on: the flag tells whether a selector  *)
(* runs, and cleanup begins after the shutdown does (353-358, 484-486).     *)
CleanupInv ==
    /\ TypeOK /\ NoWorkAfterCleanup
    /\ Works \/ selector = "started" => running
    /\ cleanup # "none" => shuttingDown

(* threadpool_ms_io_cleanup returns when no selector works, and none will:  *)
(* one that is created or starts later sees the shutdown (353-358, 628-637).*)
THEOREM NobodyWorksAfterCleanup == Spec => []NoWorkAfterCleanup
<1>. USE DEF CleanupInv, NoWorkAfterCleanup, Works
<1>1. Init => NoWorkAfterCleanup /\ (Works \/ selector = "started" => running)
               /\ (cleanup # "none" => shuttingDown)
  BY DEF Init
<1>2. IInv => TypeOK
  BY DEF IInv
<1>3. CleanupInv /\ TypeOK' /\ [Next]_vars => CleanupInv'
  <2>. SUFFICES ASSUME CleanupInv, TypeOK', [Next]_vars PROVE CleanupInv'
    OBVIOUS
  <2>. USE DEF pollVars, callVars, mainVars
  <2>1. ASSUME SelectorStep \/ PollInterrupted \/ PollFails PROVE CleanupInv'
    <3>1. CASE SelectorStarts
      BY <3>1 DEF SelectorStarts
    <3>2. CASE SelectorEnters
      BY <3>2 DEF SelectorEnters, MustStop
    <3>3. CASE ApplyAdd
      BY <3>3 DEF ApplyAdd
    <3>4. CASE ApplyRemove
      BY <3>4 DEF ApplyRemove
    <3>5. CASE SelectorUnlocks
      BY <3>5 DEF SelectorUnlocks
    <3>6. CASE Poll
      BY <3>6 DEF Poll
    <3>7. CASE Drain
      BY <3>7 DEF Drain
    <3>8. CASE Callback
      BY <3>8 DEF Callback
    <3>9. CASE SelectorGoesRound
      BY <3>9 DEF SelectorGoesRound
    <3>10. CASE PollInterrupted \/ PollFails
      BY <3>10 DEF PollInterrupted, PollFails
    <3>. QED  BY <2>1, <3>1, <3>2, <3>3, <3>4, <3>5, <3>6, <3>7, <3>8, <3>9, <3>10
                 DEF SelectorStep
  <2>2. ASSUME NEW j \in Jobs, Add(j) \/ AddStep(j) PROVE CleanupInv'
    BY <2>2 DEF Add, AddStep, LazyInitialize, AwaitRoom, AddUpdate, Initialized
  <2>3. ASSUME NEW f \in Fds, \/ RemoveSocket(f) \/ RemoveStep(f) \/ SpuriousWakeup(f)
                              \/ Close(f) \/ Reopen(f)
        PROVE  CleanupInv'
    BY <2>3 DEF RemoveSocket, RemoveStep, RemoveAwaitsRoom, RemoveUpdate, RemoveReturns,
                SpuriousWakeup, Close, Reopen
  <2>4. CASE Shutdown \/ Cleanup \/ CleanupEnds
    BY <2>4 DEF Shutdown, Cleanup, CleanupEnds, Initialized, TypeOK
  <2>5. CASE UNCHANGED vars
    BY <2>5 DEF vars
  <2>. QED  BY <2>1, <2>2, <2>3, <2>4, <2>5 DEF Next
<1>4. CleanupInv => NoWorkAfterCleanup
  OBVIOUS
<1>. HIDE DEF CleanupInv, NoWorkAfterCleanup, Works
<1>5. Init /\ IInv => CleanupInv
  BY <1>1, <1>2 DEF CleanupInv
<1>. QED  BY <1>2, <1>3, <1>4, <1>5, SelectorInvariant, PTL DEF Spec
=============================================================================
