--------------------------- MODULE WithdrawalProofs ---------------------------
(***************************************************************************)
(* Every step of the local docs worker keeps the queues (QInv), what is    *)
(* left of a withdrawn publication, and the active generation (KInv).      *)
(***************************************************************************)
EXTENDS LocalDocsInvariants, WellFoundedInduction, TLAPS

(* Lists.  Induction is stated over sets instead of predicates: the provers *)
(* do not instantiate a theorem that has an operator as its parameter.      *)

Less == {ss \in Nat \X Nat : ss[1] < ss[2]}

\* A set of naturals that holds 0, and with a number the next one, holds all.
LEMMA AllNaturals ==
  ASSUME NEW N, 0 \in N, \A n \in Nat : n \in N => n + 1 \in N
  PROVE  Nat \subseteq N
<1> DEFINE T == Nat \ N
<1> SUFFICES ASSUME T # {} PROVE FALSE
  OBVIOUS
<1>1. IsWellFoundedOn(Less, Nat)
  BY NatLessThanWellFounded DEF Less, OpToRel
<1>2. PICK n \in T : \A m \in T : <<m, n>> \notin Less
  <2>1. T \subseteq Nat
    OBVIOUS
  <2> HIDE DEF T
  <2> QED BY <1>1, <2>1, WFMin, Zenon
<1>3. n \in Nat /\ n - 1 \in Nat /\ (n - 1) + 1 = n
  OBVIOUS
<1>4. <<n - 1, n>> \in Less
  BY <1>3 DEF Less
<1>5. n - 1 \notin T
  BY <1>2, <1>4, Zenon
<1> QED BY <1>3, <1>5

Left(s, S, f, n) ==
  IF n = 0 THEN <<>> ELSE IF s[n] \in S THEN f[n - 1] ELSE Append(f[n - 1], s[n])
Leaves(s, S, m, f) == f = [n \in 0..m |-> Left(s, S, f, n)]

\* The function that Without computes.
LEMMA WithoutIs ==
  ASSUME NEW s, NEW S
  PROVE  Without(s, S) = (CHOOSE f : Leaves(s, S, Len(s), f))[Len(s)]
BY Zenon DEF Without, Leaves, Left

\* There is such a function.
LEMMA LeavesExists ==
  ASSUME NEW s, NEW S
  PROVE  \A m \in Nat : \E f : Leaves(s, S, m, f)
<1> DEFINE N == {m \in Nat : \E f : Leaves(s, S, m, f)}
<1>1. 0 \in N
  <2>1. 0..0 = {0}
    OBVIOUS
  <2>2. Leaves(s, S, 0, [n \in {0} |-> <<>>])
    BY <2>1, Zenon DEF Leaves, Left
  <2> QED BY <2>2
<1>2. ASSUME NEW m \in Nat, m \in N PROVE m + 1 \in N
  <2>1. PICK f : Leaves(s, S, m, f)
    BY <1>2, Zenon
  <2> DEFINE g == [n \in 0..(m + 1) |-> Left(s, S, f, n)]
  <2>2. /\ m + 1 \in Nat /\ 0..m \subseteq 0..(m + 1)
        /\ \A n \in 0..(m + 1) : n # 0 => n - 1 \in 0..m
    OBVIOUS
  <2>3. \A n \in 0..m : g[n] = f[n]
    BY <2>1, <2>2, Zenon DEF Leaves
  <2>4. \A n \in 0..(m + 1) : Left(s, S, g, n) = Left(s, S, f, n)
    <3> HIDE DEF g
    <3> QED BY <2>2, <2>3, Zenon DEF Left
  <2>5. Leaves(s, S, m + 1, g)
    BY <2>4, Zenon DEF Leaves
  <2> QED BY <2>2, <2>5, Zenon
<1>3. Nat \subseteq N
  <2> HIDE DEF N
  <2> QED BY <1>1, <1>2, AllNaturals, Zenon
<1> QED BY <1>3, Zenon

\* What Without leaves is not in S, and it leaves a first element that is not.
LEMMA WithoutLeaves ==
  ASSUME NEW K, NEW s \in Seq(K), NEW S
  PROVE  /\ Without(s, S) \in Seq(K \ S)
         /\ s # <<>> /\ s[1] \notin S =>
              1 <= Len(Without(s, S)) /\ Without(s, S)[1] = s[1]
<1> DEFINE f == CHOOSE f : Leaves(s, S, Len(s), f)
           Good(n) == /\ f[n] \in Seq(K \ S)
                      /\ n # 0 /\ s[1] \notin S => 1 <= Len(f[n]) /\ f[n][1] = s[1]
           N == {n \in Nat : n <= Len(s) => Good(n)}
<1>1. Len(s) \in Nat /\ \A i \in 1..Len(s) : s[i] \in K
  OBVIOUS
<1>2. Leaves(s, S, Len(s), f)
  BY <1>1, LeavesExists, Zenon
<1>3. Without(s, S) = f[Len(s)]
  BY WithoutIs, Zenon
<1> HIDE DEF f
<1>4. \A n \in 0..Len(s) : f[n] = Left(s, S, f, n)
  BY <1>2, Zenon DEF Leaves
<1>5. 0 \in N
  <2>1. f[0] = <<>>
    <3>1. 0 \in 0..Len(s)
      BY <1>1
    <3> QED BY <1>4, <3>1, Zenon DEF Left
  <2>2. <<>> \in Seq(K \ S)
    OBVIOUS
  <2> QED BY <2>1, <2>2, Zenon
<1>6. ASSUME NEW n \in Nat, n \in N PROVE n + 1 \in N
  <2> SUFFICES ASSUME n + 1 <= Len(s) PROVE Good(n + 1)
    OBVIOUS
  <2>1. n <= Len(s) /\ n + 1 \in 0..Len(s) /\ n + 1 \in 1..Len(s) /\ n + 1 # 0 /\ (n + 1) - 1 = n
    BY <1>1
  <2>2. Good(n)
    BY <1>6, <2>1, Zenon
  <2>3. f[n + 1] = IF s[n + 1] \in S THEN f[n] ELSE Append(f[n], s[n + 1])
    BY <1>4, <2>1, Zenon DEF Left
  <2>4. CASE s[n + 1] \in S
    <3>1. n = 0 => s[1] \in S
      BY <2>4
    <3> QED BY <2>1, <2>2, <2>3, <2>4, <3>1
  <2>5. CASE s[n + 1] \notin S
    <3>1. s[n + 1] \in K \ S
      BY <1>1, <2>1, <2>5, Zenon
    <3> DEFINE t == f[n]
               u == Append(t, s[n + 1])
    <3>2. /\ t \in Seq(K \ S) /\ (n = 0 => t = <<>>)
          /\ n # 0 /\ s[1] \notin S => 1 <= Len(t) /\ t[1] = s[1]
      <4>1. n = 0 => f[0] = <<>>
        <5>1. 0 \in 0..Len(s)
          BY <1>1
        <5> QED BY <1>4, <5>1, Zenon DEF Left
      <4> QED BY <2>2, <4>1, Zenon
    <3>3. f[n + 1] = u
      BY <2>3, <2>5, Zenon
    <3> HIDE DEF t
    <3>4. u \in Seq(K \ S) /\ Len(u) = Len(t) + 1 /\ u[Len(t) + 1] = s[n + 1]
          /\ \A i \in 1..Len(t) : u[i] = t[i]
      BY <3>1, <3>2
    <3> HIDE DEF u
    <3>5. s[1] \notin S => 1 <= Len(u) /\ u[1] = s[1]
      BY <3>2, <3>4
    <3> QED BY <3>3, <3>4, <3>5, Zenon
  <2> QED BY <2>4, <2>5, Zenon
<1>7. Good(Len(s))
  <2>1. Nat \subseteq N
    <3> HIDE DEF N
    <3> QED BY <1>5, <1>6, AllNaturals, Zenon
  <2>2. Len(s) <= Len(s)
    BY <1>1
  <2> HIDE DEF Good
  <2> QED BY <1>1, <2>1, <2>2, Zenon
<1>8. s # <<>> => Len(s) # 0
  OBVIOUS
<1> QED BY <1>3, <1>7, <1>8, Zenon

-----------------------------------------------------------------------------
(* Queues as lists.                                                         *)

\* A process joins the end of a queue.
LEMMA Joined ==
  ASSUME NEW K, NEW s \in Seq(K), Distinct(s), NEW x \in K, ~ Among(s, x), NEW t, t = Append(s, x)
  PROVE  /\ t \in Seq(K) /\ Distinct(t) /\ t # <<>>
         /\ \A y : Among(t, y) <=> Among(s, y) \/ y = x
         /\ s # <<>> => Head(t) = Head(s)
<1>1. /\ t \in Seq(K) /\ Len(t) = Len(s) + 1 /\ t[Len(s) + 1] = x /\ Len(s) \in Nat
      /\ \A i \in 1 .. Len(s) : t[i] = s[i]
  OBVIOUS
<1>2. /\ 1 .. Len(t) = (1 .. Len(s)) \cup {Len(s) + 1} /\ Len(s) + 1 \notin 1 .. Len(s)
      /\ (Len(s) # 0 => 1 \in 1 .. Len(s)) /\ Len(t) # 0
  BY <1>1
<1>3. Distinct(t)
  <2>1. \A i \in 1 .. Len(s) : t[i] # x
    BY <1>1, Zenon DEF Among
  <2>2. \A i, j \in 1 .. Len(s) : t[i] = t[j] => i = j
    BY <1>1, Zenon DEF Distinct
  <2> SUFFICES ASSUME NEW i \in 1 .. Len(t), NEW j \in 1 .. Len(t), t[i] = t[j] PROVE i = j
    BY Zenon DEF Distinct
  <2>3. i \in 1 .. Len(s) \/ i = Len(s) + 1
    BY <1>2, Zenon
  <2>4. j \in 1 .. Len(s) \/ j = Len(s) + 1
    BY <1>2, Zenon
  <2> QED BY <1>1, <2>1, <2>2, <2>3, <2>4, Zenon
<1>4. ASSUME NEW y PROVE Among(t, y) <=> Among(s, y) \/ y = x
  <2>1. ASSUME NEW i \in 1 .. Len(t), t[i] = y PROVE Among(s, y) \/ y = x
    BY <1>1, <1>2, <2>1, Zenon DEF Among
  <2>2. ASSUME NEW i \in 1 .. Len(s), s[i] = y PROVE Among(t, y)
    BY <1>1, <1>2, <2>2, Zenon DEF Among
  <2>3. Among(t, x)
    BY <1>1, <1>2, Zenon DEF Among
  <2> QED BY <2>1, <2>2, <2>3, Zenon DEF Among
<1>5. t # <<>> /\ (s # <<>> => Len(s) # 0)
  BY <1>1
<1>6. ASSUME s # <<>> PROVE Head(t) = Head(s)
  <2>1. Head(t) = t[1] /\ Head(s) = s[1]
    BY <1>1, <1>5, <1>6
  <2> QED BY <1>1, <1>2, <1>5, <1>6, <2>1, Zenon
<1> QED BY <1>1, <1>3, <1>4, <1>5, <1>6, Zenon

\* The first process leaves it.
LEMMA Served ==
  ASSUME NEW K, NEW s \in Seq(K), Distinct(s), s # <<>>, NEW t, t = Tail(s)
  PROVE  /\ t \in Seq(K) /\ Distinct(t)
         /\ \A y : Among(t, y) <=> Among(s, y) /\ y # Head(s)
<1>1. /\ t \in Seq(K) /\ Len(t) = Len(s) - 1 /\ Len(s) \in Nat /\ Len(s) # 0 /\ Head(s) = s[1]
      /\ \A i \in 1 .. Len(t) : t[i] = s[i + 1]
  OBVIOUS
<1>2. /\ 1 \in 1 .. Len(s) /\ \A i \in 1 .. Len(t) : i + 1 \in 1 .. Len(s) /\ i + 1 # 1
      /\ \A i, j \in 1 .. Len(t) : i + 1 = j + 1 => i = j
      /\ \A i \in 1 .. Len(s) : i # 1 => i - 1 \in 1 .. Len(t) /\ (i - 1) + 1 = i
  BY <1>1
<1>3. ASSUME NEW i \in 1 .. Len(t), NEW j \in 1 .. Len(t), t[i] = t[j] PROVE i = j
  <2>1. s[i + 1] = s[j + 1] /\ i + 1 \in 1 .. Len(s) /\ j + 1 \in 1 .. Len(s)
    BY <1>1, <1>2, <1>3, Zenon
  <2>2. i + 1 = j + 1
    BY <2>1, Zenon DEF Distinct
  <2> QED BY <1>2, <2>2, Zenon
<1>4. ASSUME NEW y, Among(t, y) PROVE Among(s, y) /\ y # Head(s)
  <2>1. PICK i \in 1 .. Len(t) : t[i] = y
    BY <1>4, Zenon DEF Among
  <2>2. i + 1 \in 1 .. Len(s) /\ i + 1 # 1 /\ s[i + 1] = y
    BY <1>1, <1>2, <2>1, Zenon
  <2>3. s[1] # s[i + 1]
    BY <1>2, <2>2, Zenon DEF Distinct
  <2> QED BY <1>1, <2>2, <2>3, Zenon DEF Among
<1>5. ASSUME NEW y, Among(s, y), y # Head(s) PROVE Among(t, y)
  <2>1. PICK i \in 1 .. Len(s) : s[i] = y
    BY <1>5, Zenon DEF Among
  <2>2. i # 1
    BY <1>1, <1>5, <2>1, Zenon
  <2>3. i - 1 \in 1 .. Len(t) /\ t[i - 1] = y
    BY <1>1, <1>2, <2>1, <2>2, Zenon
  <2> QED BY <2>3, Zenon DEF Among
<1> QED BY <1>1, <1>3, <1>4, <1>5, Zenon DEF Distinct

\* The first element is one.
LEMMA FirstAmong ==
  ASSUME NEW K, NEW s \in Seq(K), s # <<>>
  PROVE  Among(s, Head(s)) /\ Head(s) \in K
<1>1. Head(s) = s[1] /\ 1 \in 1 .. Len(s) /\ Head(s) \in K
  OBVIOUS
<1> QED BY <1>1, Zenon DEF Among

\* It leaves and joins the end.
LEMMA Rejoined ==
  ASSUME NEW K, NEW s \in Seq(K), Distinct(s), s # <<>>,
         NEW t, t = Tail(s), NEW u, u = Append(t, Head(s))
  PROVE  u \in Seq(K) /\ Distinct(u) /\ \A y : Among(u, y) <=> Among(s, y)
<1>1. /\ t \in Seq(K) /\ Distinct(t)
      /\ \A y : Among(t, y) <=> Among(s, y) /\ y # Head(s)
  BY Served, Zenon
<1>2. Head(s) \in K /\ Among(s, Head(s))
  BY FirstAmong, Zenon
<1>3. ASSUME NEW a \in Seq(K), Distinct(a), NEW b \in K, ~ Among(a, b), NEW c, c = Append(a, b)
      PROVE  c \in Seq(K) /\ Distinct(c) /\ \A y : Among(c, y) <=> Among(a, y) \/ y = b
  BY <1>3, Joined, Zenon
<1>4. ~ Among(t, Head(s))
  BY <1>1, Zenon
<1>5. u \in Seq(K) /\ Distinct(u) /\ \A y : Among(u, y) <=> Among(t, y) \/ y = Head(s)
  BY <1>1, <1>2, <1>3, <1>4, Zenon
<1> QED BY <1>1, <1>2, <1>5, Zenon

-----------------------------------------------------------------------------
(* The queues of the publications.                                          *)

\* A process that is in no queue.
Calm(r) == r.at \notin Queued \cup Holding \cup Tombstoning

\* Only x moves, apart from processes that are in no queue before and after.
Alone(x) ==
  \A y \in Procs : y # x => proc'[y] = proc[y] \/ (Calm(proc[y]) /\ Calm(proc'[y]))

\* A process is in q's queue after a step exactly if it was before it.
Like(r, n, q) ==
  (Engages(n, q) <=> Engages(r, q)) /\ (Inside(n, q) => Inside(r, q))

\* A calm process engages nothing.
LEMMA CalmEngages ==
  ASSUME NEW r, Calm(r), NEW q
  PROVE  ~ Engages(r, q) /\ ~ Inside(r, q)
BY Zenon DEF Calm, Engages, Waits, Inside, Evicts, Purging, Tombstoning

\* The processes that do not move stay where they are.
LEMMA OthersLike ==
  ASSUME NEW x, Alone(x), NEW y \in Procs, y # x, NEW q
  PROVE  Like(proc[y], proc'[y], q)
BY CalmEngages, Zenon DEF Alone, Like

\* One queue, which x does not join or leave.
LEMMA QueueStays ==
  ASSUME NEW x \in Procs, Alone(x), NEW q, NEW s, QueueGood(s, q, proc),
         Engages(proc'[x], q) <=> Engages(proc[x], q),
         Inside(proc'[x], q) => Inside(proc[x], q) \/ (s # <<>> /\ Head(s) = x)
  PROVE  QueueGood(s, q, proc')
<1>1. ASSUME NEW y \in Procs
      PROVE  /\ Engages(proc'[y], q) <=> Among(s, y)
             /\ Inside(proc'[y], q) => s # <<>> /\ Head(s) = y
  <2>1. CASE y = x
    BY <2>1, Zenon DEF QueueGood
  <2>2. CASE y # x
    BY <2>2, OthersLike, Zenon DEF QueueGood, Like
  <2> QED BY <2>1, <2>2
<1> QED BY <1>1, Zenon DEF QueueGood

\* Which x joins.
LEMMA QueueJoined ==
  ASSUME NEW x \in Procs, Alone(x), NEW q, NEW s, QueueGood(s, q, proc),
         ~ Engages(proc[x], q), Engages(proc'[x], q), ~ Inside(proc'[x], q)
  PROVE  QueueGood(Append(s, x), q, proc')
<1> DEFINE t == Append(s, x)
<1>1. s \in Seq(Procs) /\ Distinct(s) /\ ~ Among(s, x)
  BY Zenon DEF QueueGood
<1>2. /\ t \in Seq(Procs) /\ Distinct(t) /\ t # <<>>
      /\ \A y : Among(t, y) <=> Among(s, y) \/ y = x
      /\ s # <<>> => Head(t) = Head(s)
  BY <1>1, Joined, Zenon
<1> HIDE DEF t
<1>3. ASSUME NEW y \in Procs
      PROVE  /\ Engages(proc'[y], q) <=> Among(t, y)
             /\ Inside(proc'[y], q) => t # <<>> /\ Head(t) = y
  BY <1>2, OthersLike, Zenon DEF QueueGood, Like
<1> QED BY <1>2, <1>3, Zenon DEF QueueGood, t

\* Which x leaves.
LEMMA QueueLeft ==
  ASSUME NEW x \in Procs, Alone(x), NEW q, NEW s, QueueGood(s, q, proc),
         s # <<>>, Head(s) = x, ~ Engages(proc'[x], q)
  PROVE  QueueGood(Tail(s), q, proc')
<1> DEFINE t == Tail(s)
<1>1. s \in Seq(Procs) /\ Distinct(s)
  BY Zenon DEF QueueGood
<1>2. /\ t \in Seq(Procs) /\ Distinct(t)
      /\ \A y : Among(t, y) <=> Among(s, y) /\ y # x
  BY <1>1, Served, Zenon
<1> HIDE DEF t
<1>3. ASSUME NEW y \in Procs
      PROVE  /\ Engages(proc'[y], q) <=> Among(t, y)
             /\ ~ Inside(proc'[y], q)
  <2>1. CASE y = x
    BY <1>2, <2>1, Zenon DEF Engages
  <2>2. CASE y # x
    BY <1>2, <2>2, OthersLike, Zenon DEF QueueGood, Like
  <2> QED BY <2>1, <2>2
<1> QED BY <1>2, <1>3, Zenon DEF QueueGood, t

\* Which x leaves to wait in it again.
LEMMA QueueAgain ==
  ASSUME NEW x \in Procs, Alone(x), NEW q, NEW s, QueueGood(s, q, proc),
         s # <<>>, Head(s) = x, Engages(proc'[x], q), ~ Inside(proc'[x], q)
  PROVE  QueueGood(Append(Tail(s), x), q, proc')
<1> DEFINE u == Append(Tail(s), x)
<1>1. s \in Seq(Procs) /\ Distinct(s)
  BY Zenon DEF QueueGood
<1>2. u \in Seq(Procs) /\ Distinct(u) /\ \A y : Among(u, y) <=> Among(s, y)
  BY <1>1, Rejoined, Zenon
<1> HIDE DEF u
<1>3. Among(s, x)
  BY <1>1, FirstAmong, Zenon
<1>4. ASSUME NEW y \in Procs
      PROVE  /\ Engages(proc'[y], q) <=> Among(u, y)
             /\ ~ Inside(proc'[y], q)
  <2>1. CASE y = x
    BY <1>2, <1>3, <2>1, Zenon
  <2>2. CASE y # x
    <3>1. ~ Inside(proc[y], q)
      BY <2>2, Zenon DEF QueueGood
    <3> QED BY <1>2, <2>2, <3>1, OthersLike, Zenon DEF QueueGood, Like
  <2> QED BY <2>1, <2>2
<1> QED BY <1>2, <1>4, Zenon DEF QueueGood, u

\* A step that joins and leaves no queue.
LEMMA Stay ==
  ASSUME QInv, NEW x \in Procs, Alone(x), UNCHANGED queue,
         \A q \in Publications :
           /\ Engages(proc'[x], q) <=> Engages(proc[x], q)
           /\ Inside(proc'[x], q) => Inside(proc[x], q) \/ Holds(x, q)
  PROVE  QInv'
<1>1. ASSUME NEW q \in Publications PROVE QueueGood(queue'[q], q, proc')
  <2>1. /\ QueueGood(queue[q], q, proc)
        /\ Engages(proc'[x], q) <=> Engages(proc[x], q)
        /\ Inside(proc'[x], q) => Inside(proc[x], q) \/ (queue[q] # <<>> /\ Head(queue[q]) = x)
    BY Zenon DEF QInv, Holds
  <2> QED BY <2>1, QueueStays, Zenon
<1>2. queue' = [q \in Publications |-> queue'[q]]
  BY DEF QInv
<1> QED BY <1>1, <1>2, Zenon DEF QInv

\* A step that changes one queue.
LEMMA OneQueue ==
  ASSUME QInv, NEW x \in Procs, Alone(x), NEW q \in Publications, NEW s,
         queue' = [queue EXCEPT ![q] = s], QueueGood(s, q, proc'),
         \A z \in Publications : z # q => Like(proc[x], proc'[x], z)
  PROVE  QInv'
<1>1. queue' = [z \in Publications |-> queue'[z]] /\ queue'[q] = s
  BY DEF QInv
<1>2. ASSUME NEW z \in Publications PROVE QueueGood(queue'[z], z, proc')
  <2>1. CASE z = q
    BY <1>1, <2>1, Zenon
  <2>2. CASE z # q
    <3>1. queue'[z] = queue[z] /\ QueueGood(queue[z], z, proc) /\ Like(proc[x], proc'[x], z)
      BY <2>2 DEF QInv
    <3> QED BY <3>1, QueueStays, Zenon DEF Like
  <2> QED BY <2>1, <2>2
<1> QED BY <1>1, <1>2, Zenon DEF QInv

\* A step that joins a queue.
LEMMA Enter ==
  ASSUME QInv, NEW x \in Procs, Alone(x), NEW q \in Publications,
         queue' = [queue EXCEPT ![q] = Append(@, x)],
         ~ Engages(proc[x], q), Engages(proc'[x], q), ~ Inside(proc'[x], q),
         \A z \in Publications : z # q => Like(proc[x], proc'[x], z)
  PROVE  QInv'
<1>1. QueueGood(Append(queue[q], x), q, proc')
  BY QueueJoined, Zenon DEF QInv
<1> QED BY <1>1, OneQueue, Zenon

\* A step that leaves a queue.
LEMMA Leave ==
  ASSUME QInv, NEW x \in Procs, Alone(x), NEW q \in Publications, Holds(x, q),
         queue' = [queue EXCEPT ![q] = Tail(@)], ~ Engages(proc'[x], q),
         \A z \in Publications : z # q => Like(proc[x], proc'[x], z)
  PROVE  QInv'
<1>1. QueueGood(Tail(queue[q]), q, proc')
  BY QueueLeft, Zenon DEF QInv, Holds
<1> QED BY <1>1, OneQueue, Zenon

\* A step that leaves a queue and joins it again.
LEMMA Again ==
  ASSUME QInv, NEW x \in Procs, Alone(x), NEW q \in Publications, Holds(x, q),
         queue' = [queue EXCEPT ![q] = Append(Tail(@), x)],
         Engages(proc'[x], q), ~ Inside(proc'[x], q),
         \A z \in Publications : z # q => Like(proc[x], proc'[x], z)
  PROVE  QInv'
<1>1. QueueGood(Append(Tail(queue[q]), x), q, proc')
  BY QueueAgain, Zenon DEF QInv, Holds
<1> QED BY <1>1, OneQueue, Zenon

\* The operation that is running is the one at the head of the queue.
LEMMA InsideHolds ==
  ASSUME QInv, NEW x \in Procs, NEW q \in Publications, Inside(proc[x], q)
  PROVE  Holds(x, q)
BY Zenon DEF QInv, QueueGood, Holds

-----------------------------------------------------------------------------
(* Every step keeps the queues.                                             *)

\* Only x moves when only its process is assigned.
LEMMA MoveAlone ==
  ASSUME Inv, NEW x \in Procs, NEW n, proc' = [proc EXCEPT ![x] = n]
  PROVE  Alone(x) /\ proc'[x] = n
BY DEF Alone, Inv, ProcsGood

\* A process that goes to another label keeps what it remembers.
LEMMA GotoAlone ==
  ASSUME Inv, NEW x \in Procs, NEW label, Goto(x, label)
  PROVE  /\ Alone(x) /\ proc'[x].at = label
         /\ label # "idle" =>
              /\ proc'[x].p = proc[x].p /\ proc'[x].d = proc[x].d
              /\ proc'[x].on = proc[x].on /\ proc'[x].back = proc[x].back
<1> DEFINE n == IF label = "idle" THEN Idle ELSE [proc[x] EXCEPT !.at = label]
<1>1. proc' = [proc EXCEPT ![x] = n]
  BY DEF Goto
<1>2. IsProc(proc[x])
  BY Zenon DEF Inv, ProcsGood, ProcGood
<1>3. /\ n.at = label
      /\ label # "idle" => /\ n.p = proc[x].p /\ n.d = proc[x].d
                           /\ n.on = proc[x].on /\ n.back = proc[x].back
  BY <1>2 DEF Idle, IsProc, ProcFields
<1> HIDE DEF n
<1>4. Alone(x) /\ proc'[x] = n
  BY <1>1, MoveAlone, Zenon
<1> QED BY <1>3, <1>4, Zenon

\* revalidateDescriptor moves its caller and starts the revalidation, and
\* neither is in a queue.
LEMMA RevalidateAlone ==
  ASSUME Inv, NEW h \in Handlers, NEW p \in Publications, NEW d,
         NEW label \in {"join", "rejoin"}, RevalidateDescriptor(h, p, d, label)
  PROVE  Alone(h) /\ proc'[h].at = label
<1> DEFINE r == [proc[h] EXCEPT !.at = label, !.p = p, !.d = d]
           s == [Idle EXCEPT !.at = "load", !.p = p, !.d = Bound(p, d)]
<1>1. h # p /\ h \in Procs /\ p \in Procs
  BY NamesAreDistinct DEF Procs
<1>2. r.at = label
  BY <1>1, Zenon DEF Inv, ProcsGood, ProcGood, IsProc, ProcFields
<1>3. s.at = "load"
  BY Zenon DEF Idle
<1>4. /\ proc'[h] = r
      /\ proc'[p] = proc[p] \/ (proc[p].at = "idle" /\ proc'[p] = s)
      /\ \A x \in Procs : x \notin {h, p} => proc'[x] = proc[x]
  BY <1>1, Zenon DEF RevalidateDescriptor, Inv, ProcsGood
<1> HIDE DEF r, s
<1>5. proc'[p] = proc[p] \/ (Calm(proc[p]) /\ Calm(proc'[p]))
  BY <1>3, <1>4 DEF Calm, Queued, Holding, Tombstoning
<1>6. Alone(h)
  BY <1>4, <1>5, Zenon DEF Alone
<1> QED BY <1>2, <1>4, <1>6, Zenon

\* The end of a revalidation moves it and those who joined it.
LEMMA SettleAlone ==
  ASSUME Inv, NEW p \in Publications, Settle(p)
  PROVE  Alone(p) /\ proc'[p].at = "idle"
<1>1. ASSUME NEW x \in Procs, x # p
      PROVE  proc'[x] = proc[x] \/ (Calm(proc[x]) /\ Calm(proc'[x]))
  <2> DEFINE r == [proc[x] EXCEPT !.at = "assets", !.reenable = TRUE]
  <2>1. \/ proc'[x] = proc[x]
        \/ proc[x].at = "join" /\ proc'[x] = Idle
        \/ proc[x].at = "rejoin" /\ proc'[x] \in {Idle, r}
    BY <1>1, Zenon DEF Settle, Settled
  <2>2. r.at = "assets" /\ Idle.at = "idle"
    BY ZenonT(30) DEF Idle, Inv, ProcsGood, ProcGood, IsProc, ProcFields
  <2> HIDE DEF r
  <2> QED BY <2>1, <2>2 DEF Calm, Queued, Holding, Tombstoning
<1>2. proc'[p] = Idle /\ Idle.at = "idle"
  BY Zenon DEF Settle, Settled, Procs, Idle
<1> QED BY <1>1, <1>2, Zenon DEF Alone

\* Which queues a process is in, from where it is.
LEMMA WhereEngages ==
  ASSUME NEW r, NEW q
  PROVE  /\ r.at \in Queued => (Engages(r, q) <=> r.p = q) /\ ~ Inside(r, q)
         /\ r.at \in Holding => (Engages(r, q) <=> r.p = q) /\ (Inside(r, q) <=> r.p = q)
         /\ r.at \in Tombstoning /\ r.back # "evicting" =>
              /\ Engages(r, q) <=> r.on = q
              /\ Inside(r, q) <=> r.on = q /\ r.at \in Purging
         /\ Evicts(r) =>
              /\ Engages(r, q) <=> q \in {r.p, r.on}
              /\ Inside(r, q) <=> r.p = q \/ (r.on = q /\ r.at \in Purging)
BY DEF Engages, Waits, Inside, Evicts, Queued, Holding, Tombstoning, Purging

\* Steps outside the queues,
LEMMA CalmQueues ==
  ASSUME QInv, NEW x \in Procs, Alone(x), Calm(proc[x]), Calm(proc'[x]), UNCHANGED queue
  PROVE  QInv'
BY CalmEngages, Stay, Zenon

\* steps that call a storage operation,
LEMMA CallQueues ==
  ASSUME Inv, QInv, NEW x \in Procs, Calm(proc[x]), proc[x].p \in Publications,
         NEW label \in Queued, Call(x, label)
  PROVE  QInv'
<1>1. /\ Goto(x, label) /\ label # "idle"
      /\ queue' = [queue EXCEPT ![proc[x].p] = Append(@, x)]
  BY DEF Call, Queued
<1>2. Alone(x) /\ proc'[x].at \in Queued /\ proc'[x].p = proc[x].p
  <2>1. Alone(x) /\ proc'[x].at = label /\ proc'[x].p = proc[x].p
    BY <1>1, GotoAlone
  <2> QED BY <2>1, Zenon
<1>3. \A z \in Publications : z # proc[x].p => Like(proc[x], proc'[x], z)
  BY <1>2, CalmEngages, WhereEngages, Zenon DEF Like
<1>4. /\ ~ Engages(proc[x], proc[x].p) /\ Engages(proc'[x], proc[x].p)
      /\ ~ Inside(proc'[x], proc[x].p)
  BY <1>2, CalmEngages, WhereEngages, Zenon
<1> QED BY <1>1, <1>2, <1>3, <1>4, Enter, Zenon

\* that return from one,
LEMMA ReleaseQueues ==
  ASSUME QInv, NEW x \in Procs, Alone(x), proc[x].p \in Publications, Holds(x, proc[x].p),
         proc[x].at \in Queued \cup Holding, Calm(proc'[x]), Release(x)
  PROVE  QInv'
<1>1. \A z \in Publications : z # proc[x].p => Like(proc[x], proc'[x], z)
  BY CalmEngages, WhereEngages, Zenon DEF Like
<1>2. ~ Engages(proc'[x], proc[x].p)
  BY CalmEngages, Zenon
<1> QED BY <1>1, <1>2, Leave, Zenon DEF Release

\* and call the next one,
LEMMA NextQueues ==
  ASSUME Inv, QInv, NEW x \in Procs, proc[x].p \in Publications, Holds(x, proc[x].p),
         proc[x].at \in Queued \cup Holding, NEW label \in Queued, CallNext(x, label)
  PROVE  QInv'
<1>1. /\ Goto(x, label) /\ label # "idle"
      /\ queue' = [queue EXCEPT ![proc[x].p] = Append(Tail(@), x)]
  BY DEF CallNext, Queued
<1>2. Alone(x) /\ proc'[x].at \in Queued /\ proc'[x].p = proc[x].p
  <2>1. Alone(x) /\ proc'[x].at = label /\ proc'[x].p = proc[x].p
    BY <1>1, GotoAlone
  <2> QED BY <2>1, Zenon
<1>3. \A z \in Publications : z # proc[x].p => Like(proc[x], proc'[x], z)
  BY <1>2, WhereEngages, Zenon DEF Like
<1>4. Engages(proc'[x], proc[x].p) /\ ~ Inside(proc'[x], proc[x].p)
  BY <1>2, WhereEngages
<1> QED BY <1>1, <1>2, <1>3, <1>4, Again, Zenon

\* that keep the queue they hold,
LEMMA HoldQueues ==
  ASSUME QInv, NEW x \in Procs, Alone(x), UNCHANGED queue, Holds(x, proc[x].p),
         proc[x].at \in Queued \cup Holding, proc'[x].at \in Holding, proc'[x].p = proc[x].p
  PROVE  QInv'
<1>1. ASSUME NEW q \in Publications
      PROVE  /\ Engages(proc'[x], q) <=> Engages(proc[x], q)
             /\ Inside(proc'[x], q) => Inside(proc[x], q) \/ Holds(x, q)
  BY WhereEngages, Zenon
<1> QED BY <1>1, Stay, Zenon

\* and that withdraw a publication.
LEMMA DisableQueues ==
  ASSUME Inv, QInv, NEW x \in Procs, Calm(proc[x]), proc[x].p \in Publications,
         NEW back, back # "evicting", DisablePublication(x, back)
  PROVE  QInv' /\ Alone(x) /\ Withdraws(proc'[x], proc[x].p) /\ proc'[x].at = "tombstone"
<1> DEFINE r == [proc[x] EXCEPT !.at = "tombstone", !.on = proc[x].p, !.back = back]
<1>1. /\ proc' = [proc EXCEPT ![x] = r]
      /\ queue' = [queue EXCEPT ![proc[x].p] = Append(@, x)]
  BY Zenon DEF DisablePublication, AwaitTombstone
<1>2. r.at = "tombstone" /\ r.on = proc[x].p /\ r.back = back
  BY Zenon DEF Inv, ProcsGood, ProcGood, IsProc, ProcFields
<1> HIDE DEF r
<1>3. Alone(x) /\ proc'[x] = r
  BY <1>1, MoveAlone, Zenon
<1>4. r.at \in Tombstoning /\ r.back # "evicting" /\ r.at \notin Purging
  BY <1>2 DEF Tombstoning, Purging
<1>5. \A z \in Publications : z # proc[x].p => Like(proc[x], proc'[x], z)
  BY <1>2, <1>3, <1>4, CalmEngages, WhereEngages, Zenon DEF Like
<1>6. /\ ~ Engages(proc[x], proc[x].p) /\ Engages(proc'[x], proc[x].p)
      /\ ~ Inside(proc'[x], proc[x].p)
  BY <1>2, <1>3, <1>4, CalmEngages, WhereEngages, Zenon
<1>7. QInv'
  BY <1>1, <1>3, <1>5, <1>6, Enter, Zenon
<1> QED BY <1>2, <1>3, <1>4, <1>7, Zenon DEF Withdraws

-----------------------------------------------------------------------------
(* Withdrawals and active generations.                                      *)

\* Nothing is refused or rejected.
Untroubled ==
  budget'.faults = budget.faults /\ budget'.rejections = budget.rejections

\* A write that leaves a clean publication clean, and the active generation
\* where it is or disables the publication.
Sweeps(s, t) == (Clean(s) => Clean(t)) /\ \A d : Wiped(s, d) => Wiped(t, d)
Tame(s, t) ==
  \/ t.disabled
  \/ /\ ~ s.disabled /\ t.active = s.active
     /\ Sole(s.active) /\ s.active \in s.generations => t.active \in t.generations
Gentle(s, t) == Sweeps(s, t) /\ (Firm => Tame(s, t))

\* A write to the caches alone.
Slight(s, t) ==
  /\ t.disabled = s.disabled /\ t.active = s.active /\ t.previous = s.previous
  /\ t.candidate = s.candidate /\ t.generations = s.generations

\* observe is gentle,
LEMMA ObserveGentle ==
  ASSUME NEW s, Typed(s), NEW d, NEW e
  PROVE  Gentle(s, Observe(s, d, e))
<1> DEFINE t == Observe(s, d, e)
<1>1. Slight(s, t) /\ t.cached = s.cached
  BY Zenon DEF Typed, IsState, StateFields, Observe, Slight
<1> HIDE DEF t
<1>2. Gentle(s, t)
  BY <1>1, Zenon DEF Gentle, Sweeps, Tame, Clean, Cleared, Wiped, Slight
<1> QED BY <1>2, Zenon DEF t

\* putShell and putAsset, unless the publication is disabled,
LEMMA PutGentle ==
  ASSUME NEW s, Typed(s), NEW d, NEW c
  PROVE  Slight(s, Put(s, d, c)) /\ (MayPut(s) => Gentle(s, Put(s, d, c)))
<1> DEFINE t == Put(s, d, c)
<1>1. Slight(s, t)
  BY Zenon DEF Typed, IsState, StateFields, Put, Slight
<1> HIDE DEF t
<1>2. MayPut(s) => Gentle(s, t)
  BY <1>1, Zenon DEF Gentle, Sweeps, Tame, Clean, Cleared, Wiped, Slight, MayPut
<1> QED BY <1>1, <1>2, Zenon DEF t

\* prunes and the purge of the caches,
LEMMA PruneGentle ==
  ASSUME NEW s, Typed(s), StateGood(s)
  PROVE  Gentle(s, PruneGenerations(s)) /\ Gentle(s, PruneGenerationCaches(s))
<1>1. Gentle(s, PruneGenerationCaches(s))
  <2>1. ASSUME NEW K PROVE Gentle(s, [s EXCEPT !.cached = {e \in s.cached : e[1] \in K}])
    <3> DEFINE c == {e \in s.cached : e[1] \in K}
               t == [s EXCEPT !.cached = c]
    <3>1. s.cached = {} => c = {}
      OBVIOUS
    <3> HIDE DEF c
    <3>2. Slight(s, t) /\ t.cached = c
      BY Zenon DEF Typed, IsState, StateFields, Slight
    <3> HIDE DEF t
    <3>3. Gentle(s, t)
      BY <3>1, <3>2, Zenon DEF Gentle, Sweeps, Tame, Clean, Cleared, Wiped, Slight
    <3> QED BY <3>3 DEF t, c
  <2> QED BY <2>1, Zenon DEF PruneGenerationCaches
<1>2. Gentle(s, PruneGenerations(s))
  <2> DEFINE list == <<s.active, s.previous, s.candidate>>
             kept == Without(list, {None})
             keep == {Revision(kept[i]) : i \in 1 .. Len(kept) \cap 1 .. MaxGenerations}
             left == {g \in s.generations : RevisionOf[g] \in keep}
             t == [s EXCEPT !.generations = left]
  <2>1. t = PruneGenerations(s)
    BY DEF PruneGenerations
  <2>2. list \in Seq(Pointers) /\ list # <<>> /\ list[1] = s.active
    BY DEF Typed, Inv_Metadata
  <2>3. s.active # None => 1 <= Len(kept) /\ kept[1] = s.active /\ kept \in Seq(Pointers \ {None})
    <3> HIDE DEF list
    <3> QED BY <2>2, WithoutLeaves
  <2> HIDE DEF kept
  <2>4. s.active \in s.generations => s.active \in left
    <3> SUFFICES ASSUME s.active \in s.generations PROVE s.active \in left
      OBVIOUS
    <3>1. s.active # None
      BY DEF StateGood
    <3>2. 1 \in 1 .. Len(kept) \cap 1 .. MaxGenerations
      BY <2>3, <3>1, BoundsAreNat, SomeGenerationIsKept
    <3>3. Revision(kept[1]) = RevisionOf[s.active]
      BY <2>3, <3>1 DEF Revision
    <3> QED BY <3>2, <3>3
  <2>5. left \subseteq s.generations
    OBVIOUS
  <2> HIDE DEF left
  <2>6. /\ t.disabled = s.disabled /\ t.active = s.active /\ t.previous = s.previous
        /\ t.candidate = s.candidate /\ t.cached = s.cached /\ t.generations = left
    BY Zenon DEF Typed, IsState, StateFields
  <2> HIDE DEF t
  <2>7. Sweeps(s, t)
    BY <2>5, <2>6, Zenon DEF Sweeps, Clean, Cleared, Wiped
  <2>8. Tame(s, t)
    BY <2>4, <2>6, Zenon DEF Tame
  <2> QED BY <2>1, <2>7, <2>8, Zenon DEF Gentle
<1> QED BY <1>1, <1>2

\* a tombstone and its purge of the generations,
LEMMA TombstoneGentle ==
  ASSUME NEW s, Typed(s), NEW e
  PROVE  /\ Gentle(s, Tombstone(s, e)) /\ Cleared(Tombstone(s, e))
         /\ s.disabled => Gentle(s, PurgeGenerations(s))
         /\ Cleared(s) => Cleared(PurgeGenerations(s))
         /\ Cleared(s) /\ s.cached = {} => Clean(PurgeGenerations(s))
<1> DEFINE t == Tombstone(s, e)
           u == PurgeGenerations(s)
<1>1. Cleared(t) /\ t.generations = s.generations /\ t.cached = s.cached
  BY ZenonT(60) DEF Typed, IsState, StateFields, Tombstone, NextEpoch, Cleared
<1>2. /\ u.disabled = s.disabled /\ u.active = s.active /\ u.previous = s.previous
      /\ u.candidate = s.candidate /\ u.generations = {} /\ u.cached = s.cached
  BY Zenon DEF Typed, IsState, StateFields, PurgeGenerations
<1> HIDE DEF t, u
<1>3. Gentle(s, t)
  BY <1>1, Zenon DEF Gentle, Sweeps, Tame, Clean, Cleared, Wiped
<1>4. s.disabled => Gentle(s, u)
  BY <1>2, Zenon DEF Gentle, Sweeps, Tame, Clean, Cleared, Wiped
<1>5. (Cleared(s) => Cleared(u)) /\ (Cleared(s) /\ s.cached = {} => Clean(u))
  BY <1>2, Zenon DEF Clean, Cleared
<1> QED BY <1>1, <1>3, <1>4, <1>5, Zenon DEF t, u

\* discardCandidate, unless it discards the active generation,
LEMMA DiscardGentle ==
  ASSUME NEW s, Typed(s), NEW d \in Descriptors,
         Firm /\ ~ s.disabled /\ Sole(d) => s.active # d
  PROVE  /\ Gentle(s, DiscardCandidate(s, RevisionOf[d]))
         /\ Wiped(s, d) => Clean(DiscardCandidate(s, RevisionOf[d]))
<1> DEFINE r == RevisionOf[d]
           t == DiscardCandidate(s, r)
           left == s.generations \ Record(s, r)
           after == IF Revision(s.candidate) = r THEN None ELSE s.candidate
<1>1. /\ t.disabled = s.disabled /\ t.active = s.active /\ t.previous = s.previous
      /\ t.candidate = after /\ t.cached = s.cached /\ t.generations = left
  <2> HIDE DEF left, r
  <2>1. t = IF Revision(s.candidate) = r
              THEN NextEpoch([[s EXCEPT !.generations = left] EXCEPT !.candidate = None])
              ELSE [s EXCEPT !.generations = left]
    BY Zenon DEF DiscardCandidate, left
  <2>2. CASE Revision(s.candidate) = r
    BY <2>1, <2>2, ZenonT(60) DEF NextEpoch, Typed, IsState, StateFields
  <2>3. CASE Revision(s.candidate) # r
    BY <2>1, <2>3, Zenon DEF Typed, IsState, StateFields
  <2> QED BY <2>2, <2>3
<1>2. left \subseteq s.generations /\ \A g \in left : RevisionOf[g] # r
  BY DEF Record
<1>3. s.candidate = None => after = None
  OBVIOUS
<1>4. s.candidate # None /\ RevisionOf[s.candidate] = r => after = None
  BY DEF Revision
<1>5. after # None => after = s.candidate
  OBVIOUS
<1>6. Firm /\ Sole(s.active) /\ ~ s.disabled /\ s.active \in s.generations => s.active \in left
  <2> SUFFICES ASSUME Firm, Sole(s.active), ~ s.disabled, s.active \in s.generations
               PROVE  s.active \in left
    OBVIOUS
  <2>1. s.active # d
    OBVIOUS
  <2>2. RevisionOf[s.active] # r
    BY <2>1, Zenon DEF Sole
  <2> QED BY <2>2 DEF Record
<1> HIDE DEF left, after, t
<1>7. Sweeps(s, t)
  BY <1>1, <1>2, <1>3, <1>5, Zenon DEF Sweeps, Clean, Cleared, Wiped
<1>8. Firm => Tame(s, t)
  BY <1>1, <1>6, Zenon DEF Tame
<1>9. Wiped(s, d) => Clean(t)
  <2> SUFFICES ASSUME Wiped(s, d) PROVE Clean(t)
    OBVIOUS
  <2>1. left = {}
    BY <1>2, Zenon DEF Wiped
  <2>2. after = None
    BY <1>3, <1>4, Zenon DEF Wiped
  <2> QED BY <1>1, <2>1, <2>2, Zenon DEF Wiped, Clean, Cleared
<1> QED BY <1>7, <1>8, <1>9, Zenon DEF t, Gentle

\* and restoreMetadata.
LEMMA RestoreGentle ==
  ASSUME NEW s, Typed(s), StateGood(s), NEW t, TokenTyped(t), TokenGood(t),
         RestoreApplies(s, t)
  PROVE  Gentle(s, RestoreMetadata(s, t))
<1> DEFINE left == {g \in s.generations : RevisionOf[g] \notin {RevisionOf[h] : h \in t.records}}
                     \cup t.records
           u == RestoreMetadata(s, t)
<1>1. u.active = t.metadata.active /\ u.generations = left
  <2> HIDE DEF left
  <2>1. u = [t.metadata EXCEPT !.epoch = s.epoch + 1, !.cached = s.cached, !.generations = left]
    BY Zenon DEF RestoreMetadata, left
  <2> QED BY <2>1, Zenon DEF TokenTyped, Typed, IsState, StateFields
<1>2. s.active = t.metadata.active /\ s.active # None /\ ~ s.disabled
  BY Zenon DEF RestoreApplies, TokenGood, StateGood
<1>3. Sole(s.active) /\ s.active \in s.generations => s.active \in left
  <2> SUFFICES ASSUME Sole(s.active), s.active \in s.generations, s.active \notin t.records
               PROVE  s.active \in left
    OBVIOUS
  <2>1. \A h \in t.records : h \in Descriptors /\ h # s.active
    BY Zenon DEF TokenTyped
  <2>2. \A h \in t.records : RevisionOf[h] # RevisionOf[s.active]
    BY <2>1, Zenon DEF Sole
  <2> QED BY <2>2
<1> HIDE DEF left, u
<1>4. Gentle(s, u)
  BY <1>1, <1>2, <1>3, Zenon DEF Gentle, Sweeps, Tame, Clean, Cleared, Wiped
<1> QED BY <1>4, Zenon DEF u

\* commitGeneration leaves what a clean publication has not in its candidate,
\* and the active generation where it is.
LEMMA CommitTame ==
  ASSUME NEW s, Typed(s), NEW d \in Descriptors
  PROVE  /\ Tame(s, CommitGeneration(s, d))
         /\ Clean(s) => Wiped(CommitGeneration(s, d), d)
<1> DEFINE left == (s.generations \ Record(s, RevisionOf[d])) \cup {d}
           t == CommitGeneration(s, d)
<1>1. /\ t.disabled = s.disabled /\ t.active = s.active /\ t.previous = s.previous
      /\ t.candidate = d /\ t.cached = s.cached /\ t.generations = left
  <2> HIDE DEF left
  <2>1. t = NextEpoch([s EXCEPT !.seen = d, !.candidate = d, !.generations = left])
    BY Zenon DEF CommitGeneration, left
  <2> QED BY <2>1, ZenonT(60) DEF NextEpoch, Typed, IsState, StateFields
<1>2. Sole(s.active) /\ s.active \in s.generations => s.active \in left
  <2> SUFFICES ASSUME Sole(s.active), s.active \in s.generations, s.active # d
               PROVE  s.active \in left
    OBVIOUS
  <2>1. RevisionOf[s.active] # RevisionOf[d]
    BY Zenon DEF Sole
  <2> QED BY <2>1 DEF Record
<1>3. s.generations = {} => \A g \in left : RevisionOf[g] = RevisionOf[d]
  OBVIOUS
<1> HIDE DEF left, t
<1>4. Tame(s, t)
  BY <1>1, <1>2, Zenon DEF Tame
<1>5. Clean(s) => Wiped(t, d)
  BY <1>1, <1>3, Zenon DEF Wiped, Clean, Cleared
<1> QED BY <1>4, <1>5, Zenon DEF t

\* activate points to a generation that is stored.
LEMMA ActivateStored ==
  ASSUME NEW s, Typed(s), NEW r, MayActivate(s, r)
  PROVE  StoredGood(Activate(s, r)) /\ ~ Clean(s)
<1> DEFINE d == CHOOSE g \in Record(s, r) : TRUE
           prev == IF s.active # None /\ Revision(s.active) # r THEN s.active ELSE s.previous
           t == Activate(s, r)
<1>1. d \in Record(s, r)
  BY DEF MayActivate
<1>2. d \in s.generations
  BY <1>1 DEF Record
<1>3. t = NextEpoch([s EXCEPT !.previous = prev, !.active = d, !.candidate = None,
                          !.disabled = FALSE, !.tombstone = None,
                          !.evicted = FALSE, !.etag = d])
  BY Zenon DEF Activate
<1> HIDE DEF d, prev, t
<1>4. t.active = d /\ t.generations = s.generations
  BY <1>3, ZenonT(60) DEF NextEpoch, Typed, IsState, StateFields
<1> QED BY <1>2, <1>4, Zenon DEF StoredGood, Clean, t

-----------------------------------------------------------------------------
(* Every step keeps the queues, the withdrawals and the active generations. *)

\* Nobody else is told apart by what the holder of a queue writes.
LEMMA OthersPurge ==
  ASSUME TInv, QInv, WInv, NEW x \in Procs, Alone(x), disabled \subseteq disabled',
         \A q \in Publications :
           db'[q] = db[q] \/ Holds(x, q) \/ (q \notin disabled /\ Slight(db[q], db'[q])),
         NEW y \in Procs, y # x
  PROVE  PurgeGood(proc'[y], disabled', db')
<1>1. CASE Calm(proc'[y])
  <2>1. proc'[y].at \notin Tombstoning /\ proc'[y].at \notin Purging /\ proc'[y].at # "purgeGenerations"
    BY <1>1 DEF Calm, Tombstoning, Purging
  <2> QED BY <2>1, Zenon DEF PurgeGood
<1>2. CASE proc'[y] = proc[y]
  <2> DEFINE r == proc[y]
             q == proc[y].on
  <2>1. PurgeGood(r, disabled, db) /\ (r.at \in Tombstoning => q \in Publications)
    BY Zenon DEF WInv, TInv, ProcsTyped, ProcTyped
  <2>2. r.at \in Purging => r.at \in Tombstoning
    BY DEF Purging, Tombstoning
  <2>3. r.at = "purgeGenerations" => r.at \in Purging
    BY DEF Purging
  <2>4. r.at \in Purging => Holds(y, q)
    BY <2>1, <2>2, InsideHolds, Zenon DEF Inside
  <2>5. r.at \in Purging => ~ Holds(x, q)
    BY <2>4 DEF Holds
  <2>6. r.at \in Purging => db'[q] = db[q] \/ (q \notin disabled /\ Slight(db[q], db'[q]))
    BY <2>1, <2>2, <2>5, Zenon
  <2> HIDE DEF q
  <2>7. r.at \in Purging => Cleared(db'[q])
    BY <2>1, <2>6, Zenon DEF PurgeGood, Cleared, Slight, q
  <2>8. r.at = "purgeGenerations" /\ r.back # "evicting" => db'[q].cached = {}
    BY <2>1, <2>2, <2>3, <2>6, Zenon DEF PurgeGood, q
  <2>9. r.at \in Tombstoning /\ r.back # "evicting" => q \in disabled'
    BY <2>1 DEF PurgeGood, q
  <2>10. PurgeGood(r, disabled', db')
    BY <2>7, <2>8, <2>9, Zenon DEF PurgeGood, q
  <2> QED BY <1>2, <2>10, Zenon
<1> QED BY <1>1, <1>2, Zenon DEF Alone

\* A withdrawal that has won has still won.
LEMMA StillWon ==
  ASSUME NEW x \in Procs, Alone(x), NEW q \in Publications, Won(q), Sweeps(db[q], db'[q]),
         Withdraws(proc[x], q) => Withdraws(proc'[x], q) \/ Clean(db'[q]),
         x = q /\ proc[x].at = "discard" /\ Wiped(db[x], proc[x].d) => Clean(db'[q])
  PROVE  Won(q)'
<1>1. CASE Clean(db[q])
  BY <1>1, Zenon DEF Sweeps, Won
<1>2. CASE \E y \in Procs : Withdraws(proc[y], q)
  <2>1. PICK y \in Procs : Withdraws(proc[y], q)
    BY <1>2
  <2>2. CASE y = x
    BY <2>1, <2>2, Zenon DEF Won
  <2>3. CASE y # x
    <3>1. ~ Calm(proc[y])
      BY <2>1 DEF Withdraws, Calm
    <3>2. proc'[y] = proc[y]
      BY <2>3, <3>1, Zenon DEF Alone
    <3> QED BY <2>1, <3>2, Zenon DEF Won
  <2> QED BY <2>2, <2>3
<1>3. CASE proc[q].at = "discard" /\ Wiped(db[q], proc[q].d)
  <2>1. CASE x = q
    BY <1>3, <2>1, Zenon DEF Won
  <2>2. CASE x # q
    <3>1. q \in Procs /\ ~ Calm(proc[q])
      BY <1>3 DEF Procs, Calm, Queued
    <3>2. proc'[q] = proc[q]
      BY <2>2, <3>1, Zenon DEF Alone
    <3> QED BY <1>3, <3>2, Zenon DEF Won, Sweeps
  <2> QED BY <2>1, <2>2
<1> QED BY <1>1, <1>2, <1>3 DEF Won

\* An active generation that is stored is still stored.
LEMMA StillStored ==
  ASSUME NEW q, StoredGood(db[q]), FreshGood(proc[q], db[q]),
         Tame(db[q], db'[q]),
         proc'[q] = proc[q] \/ Calm(proc'[q]) \/ FreshGood(proc'[q], db'[q])
  PROVE  StoredGood(db'[q]) /\ FreshGood(proc'[q], db'[q])
<1>1. db'[q].disabled \/ (~ db[q].disabled /\ db'[q].active = db[q].active)
  BY Zenon DEF Tame
<1>2. StoredGood(db'[q])
  BY Zenon DEF Tame, StoredGood
<1>3. Calm(proc'[q]) => proc'[q].at \notin {"commit", "activate", "discard"}
  BY DEF Calm, Queued
<1>4. FreshGood(proc'[q], db'[q])
  BY <1>1, <1>3, Zenon DEF FreshGood
<1> QED BY <1>2, <1>4

\* A step that writes gently what it holds, or the caches of a publication
\* that is not withdrawn.
LEMMA MoveWins ==
  ASSUME TInv, QInv, KInv, NEW x \in Procs, Alone(x),
         UNCHANGED disabled, Untroubled,
         \A q \in Publications :
           \/ db'[q] = db[q]
           \/ Holds(x, q) /\ Gentle(db[q], db'[q])
           \/ q \notin disabled /\ Slight(db[q], db'[q]),
         PurgeGood(proc'[x], disabled', db'),
         \A q \in Publications :
           Withdraws(proc[x], q) => Withdraws(proc'[x], q) \/ Clean(db'[q]),
         x \in Publications /\ proc[x].at = "discard" /\ Wiped(db[x], proc[x].d) => Clean(db'[x]),
         x \in Publications /\ Firm => FreshGood(proc'[x], db'[x])
  PROVE  KInv'
<1>0. WInv /\ AInv /\ disabled \subseteq Publications
  BY DEF KInv, TInv, WorkerTyped
<1>1. ASSUME NEW y \in Procs PROVE PurgeGood(proc'[y], disabled', db')
  BY <1>0, OthersPurge, Zenon
<1>2. ASSUME NEW q \in disabled, budget'.faults = MaxFaults, Firm' PROVE Won(q)'
  <2>1. q \in Publications /\ Won(q)
    BY <1>0, <1>2, Zenon DEF WInv, Firm, Untroubled
  <2>2. Sweeps(db[q], db'[q])
    BY <2>1, <1>2, Zenon DEF Gentle, Sweeps
  <2> QED BY <2>1, <2>2, StillWon, Zenon
<1>3. WInv'
  BY <1>1, <1>2, Zenon DEF WInv, Firm
<1>4. ASSUME Firm, NEW q \in Publications
      PROVE  StoredGood(db'[q]) /\ FreshGood(proc'[q], db'[q])
  <2>1. StoredGood(db[q]) /\ FreshGood(proc[q], db[q]) /\ q \in Procs
    BY <1>0, <1>4, Zenon DEF AInv, Procs
  <2>2. db'[q].disabled = db[q].disabled /\ db'[q].active = db[q].active
          /\ db'[q].generations = db[q].generations => Tame(db[q], db'[q])
    BY Zenon DEF Tame
  <2>3. Tame(db[q], db'[q])
    BY <1>4, <2>2, Zenon DEF Gentle, Slight
  <2>4. proc'[q] = proc[q] \/ Calm(proc'[q]) \/ FreshGood(proc'[q], db'[q])
    BY <1>4, <2>1, Zenon DEF Alone
  <2> QED BY <1>4, <2>1, <2>3, <2>4, StillStored, Zenon
<1>5. AInv'
  BY <1>4, Zenon DEF AInv, Firm, Untroubled
<1> QED BY <1>3, <1>5, Zenon DEF KInv

\* Such a step of a process that withdraws, commits and discards nothing.
LEMMA PlainWins ==
  ASSUME TInv, QInv, KInv, NEW x \in Procs, Alone(x),
         UNCHANGED disabled, Untroubled,
         \A q \in Publications :
           \/ db'[q] = db[q]
           \/ Holds(x, q) /\ Gentle(db[q], db'[q])
           \/ q \notin disabled /\ Slight(db[q], db'[q]),
         proc[x].at \notin Tombstoning, proc[x].at # "discard", proc'[x].at \notin Tombstoning,
         x \in Publications => proc'[x].at \notin {"commit", "activate", "discard"}
  PROVE  KInv'
<1>1. proc'[x].at \notin Purging /\ proc'[x].at # "purgeGenerations"
  BY DEF Purging, Tombstoning
<1>2. PurgeGood(proc'[x], disabled', db')
  BY <1>1, Zenon DEF PurgeGood
<1>3. x \in Publications => FreshGood(proc'[x], db'[x])
  BY Zenon DEF FreshGood
<1>4. \A q \in Publications : ~ Withdraws(proc[x], q)
  BY Zenon DEF Withdraws
<1> QED BY <1>2, <1>3, <1>4, MoveWins, Zenon

\* Nothing is written but what the process holds, and that gently; routing
\* and refusals are as they were.
Gently(x) ==
  /\ \A q \in Publications : db'[q] = db[q] \/ (Holds(x, q) /\ Gentle(db[q], db'[q]))
  /\ UNCHANGED disabled /\ Untroubled

\* One gentle write, or none.
LEMMA WriteGently ==
  ASSUME Inv, NEW x, UNCHANGED <<disabled, budget>>,
         UNCHANGED db \/ \E q \in Publications : \E s :
                           Holds(x, q) /\ Write(q, s) /\ Gentle(db[q], s)
  PROVE  Gently(x)
<1>1. CASE UNCHANGED db
  BY <1>1, Zenon DEF Gently, Untroubled
<1>2. ASSUME NEW q \in Publications, NEW s, Holds(x, q), Write(q, s), Gentle(db[q], s)
      PROVE  Gently(x)
  <2>1. \A z \in Publications : db'[z] = IF z = q THEN s ELSE db[z]
    BY <1>2, Zenon DEF Write, Inv, DbGood
  <2> QED BY <1>2, <2>1, Zenon DEF Gently, Untroubled
<1> QED BY <1>1, <1>2, Zenon

\* Where a calm process is not.
LEMMA CalmIsPlain ==
  ASSUME NEW r, Calm(r)
  PROVE  r.at \notin Tombstoning /\ r.at \notin {"commit", "activate", "discard"}
BY DEF Calm, Queued

\* Where a process in the store is not.
LEMMA QueuedIsPlain ==
  ASSUME NEW label \in Queued \cup Holding
  PROVE  label \notin Tombstoning /\ label # "idle"
BY DEF Queued, Holding, Tombstoning

\* The steps of a process outside the queues,
LEMMA CalmStep ==
  ASSUME Whole, NEW x \in Procs, Alone(x), Calm(proc[x]), Calm(proc'[x]), UNCHANGED queue,
         Gently(x)
  PROVE  QInv' /\ KInv'
<1>1. QInv'
  BY CalmQueues, Zenon DEF Whole
<1>2. KInv'
  BY CalmIsPlain, PlainWins, Zenon DEF Whole, Gently
<1> QED BY <1>1, <1>2

\* into one,
LEMMA CallStep ==
  ASSUME Whole, NEW x \in Procs, Calm(proc[x]), proc[x].p \in Publications, Gently(x),
         NEW label \in Queued, Call(x, label),
         x \in Publications /\ label \in {"commit", "activate", "discard"} =>
           (Firm => FreshGood(proc'[x], db'[x]))
  PROVE  QInv' /\ KInv'
<1>1. QInv'
  BY CallQueues, Zenon DEF Whole
<1>2. Goto(x, label)
  BY DEF Call
<1>3. Alone(x) /\ proc'[x].at = label
  BY <1>2, GotoAlone, Zenon DEF Whole
<1>4. /\ proc[x].at \notin Tombstoning /\ proc[x].at # "discard"
      /\ label \notin Tombstoning /\ label \notin Purging /\ label # "purgeGenerations"
  BY CalmIsPlain DEF Queued, Tombstoning, Purging
<1>5. PurgeGood(proc'[x], disabled', db')
  BY <1>3, <1>4, Zenon DEF PurgeGood
<1>6. x \in Publications /\ Firm => FreshGood(proc'[x], db'[x])
  BY <1>3, Zenon DEF FreshGood
<1>7. KInv'
  BY <1>3, <1>4, <1>5, <1>6, MoveWins, Zenon DEF Whole, Gently, Withdraws
<1> QED BY <1>1, <1>7

\* out of one,
LEMMA ReleaseStep ==
  ASSUME Whole, NEW x \in Procs, Alone(x), proc[x].p \in Publications, Holds(x, proc[x].p),
         proc[x].at \in Queued \cup Holding, proc[x].at # "discard", Calm(proc'[x]), Release(x),
         Gently(x)
  PROVE  QInv' /\ KInv'
<1>1. QInv'
  BY ReleaseQueues, Zenon DEF Whole
<1>2. proc[x].at \notin Tombstoning
  BY QueuedIsPlain, Zenon
<1>3. KInv'
  BY <1>2, CalmIsPlain, PlainWins, Zenon DEF Whole, Gently
<1> QED BY <1>1, <1>3

\* and within one.
LEMMA HoldStep ==
  ASSUME Whole, NEW x \in Procs, Alone(x), UNCHANGED queue, Holds(x, proc[x].p),
         proc[x].at \in Queued \cup Holding, proc[x].at # "discard",
         proc'[x].at \in Holding, proc'[x].p = proc[x].p, Gently(x)
  PROVE  QInv' /\ KInv'
<1>1. QInv'
  BY HoldQueues, Zenon DEF Whole
<1>2. proc[x].at \notin Tombstoning /\ proc'[x].at \notin Tombstoning
  BY QueuedIsPlain, Zenon
<1>3. proc'[x].at \notin {"commit", "activate", "discard"}
  BY DEF Holding
<1>4. KInv'
  BY <1>2, <1>3, PlainWins, Zenon DEF Whole, Gently
<1> QED BY <1>1, <1>4

\* The step that disables a publication.
LEMMA WithdrawWins ==
  ASSUME Whole, NEW x \in Procs, Alone(x), NEW q \in Publications, Calm(proc[x]),
         proc'[x].at = "tombstone", Withdraws(proc'[x], q),
         disabled' = disabled \cup {q}, UNCHANGED db, Untroubled
  PROVE  KInv'
<1>0. WInv /\ AInv /\ TInv /\ QInv /\ disabled \subseteq Publications
  BY DEF Whole, KInv, TInv, WorkerTyped
<1>1. ASSUME NEW y \in Procs PROVE PurgeGood(proc'[y], disabled', db')
  <2>1. CASE y = x
    <3>1. proc'[x].at \notin Purging /\ proc'[x].at # "purgeGenerations" /\ proc'[x].on \in disabled'
      BY DEF Purging, Withdraws
    <3> QED BY <2>1, <3>1, Zenon DEF PurgeGood
  <2>2. CASE y # x
    <3>1. disabled \subseteq disabled' /\ \A z \in Publications : db'[z] = db[z]
      OBVIOUS
    <3> QED BY <1>0, <2>2, <3>1, OthersPurge, Zenon
  <2> QED BY <2>1, <2>2
<1>2. ASSUME NEW z \in disabled', budget'.faults = MaxFaults, Firm' PROVE Won(z)'
  <2>1. CASE z = q
    BY <2>1, Zenon DEF Won
  <2>2. CASE z # q
    <3>1. z \in disabled /\ z \in Publications
      BY <1>0, <1>2, <2>2
    <3>2. Won(z) /\ Sweeps(db[z], db'[z])
      BY <1>0, <1>2, <3>1, Zenon DEF WInv, Firm, Untroubled, Sweeps
    <3>3. ~ Withdraws(proc[x], z) /\ proc[x].at # "discard"
      BY CalmIsPlain, Zenon DEF Withdraws
    <3> QED BY <3>1, <3>2, <3>3, StillWon, Zenon
  <2> QED BY <2>1, <2>2
<1>3. WInv'
  BY <1>1, <1>2, Zenon DEF WInv, Firm
<1>4. ASSUME Firm, NEW z \in Publications
      PROVE  StoredGood(db'[z]) /\ FreshGood(proc'[z], db'[z])
  <2>1. StoredGood(db[z]) /\ FreshGood(proc[z], db[z]) /\ z \in Procs
    BY <1>0, <1>4, Zenon DEF AInv, Procs
  <2>2. Tame(db[z], db'[z])
    BY Zenon DEF Tame
  <2>3. FreshGood(proc'[x], db'[x])
    BY DEF FreshGood
  <2>4. proc'[z] = proc[z] \/ Calm(proc'[z]) \/ FreshGood(proc'[z], db'[z])
    BY <2>1, <2>3, Zenon DEF Alone
  <2> QED BY <1>4, <2>1, <2>2, <2>4, StillStored, Zenon
<1>5. AInv'
  BY <1>4, Zenon DEF AInv, Firm, Untroubled
<1> QED BY <1>3, <1>5, Zenon DEF KInv

\* disablePublication keeps them.
LEMMA DisableStep ==
  ASSUME Whole, NEW x \in Procs, Calm(proc[x]), proc[x].p \in Publications,
         NEW back, back # "evicting", DisablePublication(x, back), UNCHANGED <<db, budget>>
  PROVE  QInv' /\ KInv'
<1>1. QInv' /\ Alone(x) /\ Withdraws(proc'[x], proc[x].p) /\ proc'[x].at = "tombstone"
  BY DisableQueues, Zenon DEF Whole
<1>2. disabled' = disabled \cup {proc[x].p}
  BY DEF DisablePublication
<1>3. KInv'
  BY <1>1, <1>2, WithdrawWins, Zenon DEF Untroubled
<1> QED BY <1>1, <1>3

\* The labels outside the queues that a step goes to.
Outside == {"idle", "configured", "assets", "shell", "persisted", "fallback", "read", "serve",
            "served", "failed", "refused", "recover", "compare", "ready", "join", "rejoin",
            "load", "manifest", "admit", "network", "direct"}

\* A process there is in no queue.
LEMMA OutsideCalm ==
  ASSUME NEW r, r.at \in Outside
  PROVE  Calm(r)
BY DEF Outside, Calm, Queued, Holding, Tombstoning

\* Going on outside the queues,
LEMMA CalmGoto ==
  ASSUME Whole, NEW x \in Procs, Calm(proc[x]), NEW label \in Outside, Goto(x, label),
         UNCHANGED <<db, queue, disabled, budget>>
  PROVE  QInv' /\ KInv'
<1>1. Alone(x) /\ proc'[x].at = label
  BY GotoAlone, Zenon DEF Whole
<1>2. Calm(proc'[x])
  BY <1>1, OutsideCalm, Zenon
<1>3. Gently(x)
  BY Zenon DEF Gently, Untroubled
<1> QED BY <1>1, <1>2, <1>3, CalmStep, Zenon

\* and returning from the store.
LEMMA ReleaseGoto ==
  ASSUME Whole, NEW x \in Procs, proc[x].p \in Publications, Holds(x, proc[x].p),
         proc[x].at \in Queued \cup Holding, proc[x].at # "discard",
         NEW label \in Outside, Goto(x, label), Release(x), Gently(x)
  PROVE  QInv' /\ KInv'
<1>1. Alone(x) /\ proc'[x].at = label
  BY GotoAlone, Zenon DEF Whole
<1>2. Calm(proc'[x])
  BY <1>1, OutsideCalm, Zenon
<1> QED BY <1>1, <1>2, ReleaseStep, Zenon

\* A running process that is not withdrawing has a publication.
LEMMA HasPublication ==
  ASSUME Whole, NEW x \in Procs, proc[x].at # "idle"
  PROVE  /\ proc[x].p \in Publications /\ Typed(db[proc[x].p]) /\ StateGood(db[proc[x].p])
         /\ x \in Publications => proc[x].p = x
         /\ IsProc(proc[x])
BY Zenon DEF Whole, Inv, DbGood, ProcsGood, ProcGood, TInv, StorageTyped, ProcsTyped, ProcTyped

\* The configure message up to the shell keeps queues and withdrawals.
LEMMA ConfigureKeeps ==
  ASSUME Whole, NEW h \in Handlers,
         Admit(h) \/ ObserveDescriptor(h) \/ Configured(h) \/ CacheAssets(h)
  PROVE  QInv' /\ KInv'
<1> DEFINE p == proc[h].p
<1>0. h \in Procs /\ h \notin Publications /\ Inv
  BY NamesAreDistinct DEF Procs, Whole
<1>1. proc[h].at \in {"admit", "observe", "configured", "assets"} /\ proc[h].at # "idle"
  BY DEF Admit, ObserveDescriptor, Configured, CacheAssets, At
<1>2. p \in Publications /\ Typed(db[p]) /\ IsProc(proc[h])
  BY <1>0, <1>1, HasPublication, Zenon
<1>3. UNCHANGED <<disabled, budget>>
  BY Zenon DEF Admit, ObserveDescriptor, Configured, CacheAssets
<1>4. proc[h].at # "observe" => Calm(proc[h])
  BY <1>1 DEF Calm, Queued, Holding, Tombstoning
<1>5. CASE Admit(h)
  <2>1. proc[h].at = "admit" /\ UNCHANGED db
    BY <1>5 DEF Admit, At, stored
  <2>2. Calm(proc[h]) /\ Gently(h)
    BY <1>3, <1>4, <2>1 DEF Gently, Untroubled
  <2>3. CASE Goto(h, "idle") /\ UNCHANGED queue
    BY <1>0, <1>3, <2>1, <2>2, <2>3, CalmGoto, Zenon DEF Outside
  <2>4. CASE Call(h, "observe")
    <3>1. "observe" \in Queued
      BY DEF Queued
    <3> QED BY <1>0, <1>2, <2>2, <2>4, <3>1, CallStep, Zenon
  <2> QED BY <1>5, <2>3, <2>4, Zenon DEF Admit, Done
<1>6. CASE ObserveDescriptor(h)
  <2>1. /\ proc[h].at = "observe" /\ Holds(h, p) /\ Release(h)
        /\ Write(p, Observe(db[p], proc[h].d, None))
        /\ \E label \in {"idle", "configured"} : Goto(h, label)
    BY <1>6, Zenon DEF ObserveDescriptor, At, Done
  <2>2. Gently(h)
    BY <1>0, <1>2, <1>3, <2>1, ObserveGentle, WriteGently, Zenon
  <2>3. proc[h].at \in Queued /\ {"idle", "configured"} \subseteq Outside /\ proc[h].at # "discard"
    BY <2>1 DEF Queued, Outside
  <2> QED BY <1>0, <1>2, <2>1, <2>2, <2>3, ReleaseGoto, Zenon
<1>7. CASE Configured(h)
  <2>1. proc[h].at = "configured" /\ UNCHANGED <<db, queue>>
    BY <1>7 DEF Configured, At, stored
  <2>2. Calm(proc[h]) /\ Gently(h)
    BY <1>3, <1>4, <2>1 DEF Gently, Untroubled
  <2>3. ASSUME NEW label \in {"idle", "assets"}, Goto(h, label) PROVE QInv' /\ KInv'
    <3>1. label \in Outside
      BY DEF Outside
    <3> QED BY <1>0, <1>3, <2>1, <2>2, <2>3, <3>1, CalmGoto, Zenon
  <2>4. CASE RevalidateDescriptor(h, p, proc[h].d, "rejoin")
    <3>1. Alone(h) /\ proc'[h].at = "rejoin"
      BY <1>0, <1>2, <2>4, RevalidateAlone, Zenon
    <3>2. Calm(proc'[h])
      BY <3>1, OutsideCalm DEF Outside
    <3> QED BY <1>0, <2>1, <2>2, <3>1, <3>2, CalmStep, Zenon
  <2> QED BY <1>7, <2>3, <2>4, Zenon DEF Configured, Done
<1>8. CASE CacheAssets(h)
  <2>1. proc[h].at = "assets" /\ UNCHANGED queue
    BY <1>8 DEF CacheAssets, At
  <2>2. Calm(proc[h])
    BY <1>4, <2>1
  <2>3. CASE Goto(h, "idle") /\ UNCHANGED db
    BY <1>0, <1>3, <2>1, <2>2, <2>3, CalmGoto, Zenon DEF Outside
  <2>4. ASSUME NEW ok, proc' = [proc EXCEPT ![h].at = "shell", ![h].ok = ok], p \notin disabled,
               Write(p, Put(db[p], proc[h].d, "fallback")) \/ UNCHANGED db
        PROVE  QInv' /\ KInv'
    <3> DEFINE r == [proc[h] EXCEPT !.at = "shell", !.ok = ok]
    <3>1. proc' = [proc EXCEPT ![h] = r]
      BY <2>4, Zenon
    <3>2. r.at = "shell"
      BY <1>2, Zenon DEF IsProc, ProcFields
    <3> HIDE DEF r
    <3>3. Alone(h) /\ proc'[h].at = "shell"
      BY <1>0, <3>1, <3>2, MoveAlone, Zenon
    <3>4. Calm(proc'[h])
      BY <3>3, OutsideCalm DEF Outside
    <3>5. QInv'
      BY <1>0, <2>1, <2>2, <3>3, <3>4, CalmQueues, Zenon DEF Whole
    <3>6. \A q \in Publications : db'[q] = db[q] \/ (q \notin disabled /\ Slight(db[q], db'[q]))
      <4>1. CASE UNCHANGED db
        BY <4>1
      <4>2. CASE Write(p, Put(db[p], proc[h].d, "fallback"))
        <5>1. \A q \in Publications :
                db'[q] = IF q = p THEN Put(db[p], proc[h].d, "fallback") ELSE db[q]
          BY <1>0, <4>2, Zenon DEF Write, Inv, DbGood
        <5>2. Slight(db[p], Put(db[p], proc[h].d, "fallback"))
          BY <1>2, PutGentle, Zenon
        <5> QED BY <2>4, <5>1, <5>2, Zenon
      <4> QED BY <2>4, <4>1, <4>2
    <3>7. KInv'
      BY <1>0, <1>3, <2>2, <3>3, <3>4, <3>6, CalmIsPlain, PlainWins, Zenon DEF Whole, Untroubled
    <3> QED BY <3>5, <3>7
  <2> QED BY <1>8, <2>3, <2>4, Zenon DEF CacheAssets, Done, Off
<1> QED BY <1>5, <1>6, <1>7, <1>8

\* The shell,
LEMMA ShellKeeps ==
  ASSUME Whole, NEW h \in Handlers, ShellAnswer(h) \/ PutShell(h) \/ PersistedShell(h)
  PROVE  QInv' /\ KInv'
<1> DEFINE p == proc[h].p
<1>0. h \in Procs /\ h \notin Publications /\ Inv
  BY NamesAreDistinct DEF Procs, Whole
<1>1. proc[h].at \in {"shell", "putShell", "persisted"} /\ proc[h].at # "idle"
  BY DEF ShellAnswer, PutShell, PersistedShell, At
<1>2. p \in Publications /\ Typed(db[p])
  BY <1>0, <1>1, HasPublication, Zenon
<1>3. UNCHANGED budget
  BY Zenon DEF ShellAnswer, PutShell, PersistedShell
<1>4. proc[h].at # "putShell" => Calm(proc[h])
  BY <1>1 DEF Calm, Queued, Holding, Tombstoning
<1>5. {"idle", "persisted", "join"} \subseteq Outside /\ "putShell" \in Queued
  BY DEF Outside, Queued
<1>6. ASSUME ShellReady(h)
      PROVE  Alone(h) /\ Calm(proc'[h])
  <2>1. CASE Goto(h, "idle")
    BY <1>0, <1>5, <2>1, GotoAlone, OutsideCalm, Zenon
  <2>2. CASE RevalidateDescriptor(h, p, proc[h].d, "join")
    BY <1>0, <1>2, <1>5, <2>2, RevalidateAlone, OutsideCalm, Zenon
  <2> QED BY <1>6, <2>1, <2>2, Zenon DEF ShellReady, Done
<1>7. CASE ShellAnswer(h)
  <2>1. Calm(proc[h]) /\ UNCHANGED db
    BY <1>4, <1>7 DEF ShellAnswer, At, stored
  <2>2. CASE Goto(h, "persisted") /\ UNCHANGED <<disabled, queue>>
    BY <1>0, <1>3, <1>5, <2>1, <2>2, CalmGoto, Zenon
  <2>3. CASE DisablePublication(h, "persisted")
    <3>1. "persisted" # "evicting"
      OBVIOUS
    <3> QED BY <1>0, <1>2, <1>3, <2>1, <2>3, <3>1, DisableStep, Zenon
  <2>4. CASE Call(h, "putShell") /\ UNCHANGED disabled
    <3>1. Gently(h)
      BY <1>3, <2>1, <2>4, Zenon DEF Gently, Untroubled
    <3> QED BY <1>0, <1>2, <1>5, <2>1, <2>4, <3>1, CallStep, Zenon
  <2> QED BY <1>7, <2>2, <2>3, <2>4, Zenon DEF ShellAnswer
<1>8. CASE PutShell(h)
  <2>1. /\ proc[h].at = "putShell" /\ Holds(h, p) /\ Release(h) /\ UNCHANGED disabled
    BY <1>8, Zenon DEF PutShell, At
  <2>2. proc[h].at \in Queued /\ proc[h].at # "discard"
    BY <2>1 DEF Queued
  <2>3. CASE MayPut(db[p])
    <3>1. Write(p, Put(db[p], proc[h].d, "shell")) /\ ShellReady(h)
      BY <1>8, <2>3, Zenon DEF PutShell
    <3>2. Gentle(db[p], Put(db[p], proc[h].d, "shell"))
      BY <1>2, <2>3, PutGentle, Zenon
    <3>3. Gently(h)
      BY <1>0, <1>2, <1>3, <2>1, <3>1, <3>2, WriteGently, Zenon
    <3> QED BY <1>0, <1>2, <1>6, <2>1, <2>2, <3>1, <3>3, ReleaseStep, Zenon
  <2>4. CASE ~ MayPut(db[p])
    <3>1. Goto(h, "persisted") /\ UNCHANGED db
      BY <1>8, <2>4, Zenon DEF PutShell
    <3>2. Gently(h)
      BY <1>3, <2>1, <3>1, Zenon DEF Gently, Untroubled
    <3> QED BY <1>0, <1>2, <1>5, <2>1, <2>2, <3>1, <3>2, ReleaseGoto, Zenon
  <2> QED BY <2>3, <2>4
<1>9. CASE PersistedShell(h)
  <2>1. Calm(proc[h]) /\ UNCHANGED <<db, disabled, queue>>
    BY <1>4, <1>9 DEF PersistedShell, At, stored
  <2>2. Gently(h)
    BY <1>3, <2>1, Zenon DEF Gently, Untroubled
  <2>3. Alone(h) /\ Calm(proc'[h])
    <3>1. CASE Goto(h, "idle")
      BY <1>0, <1>5, <3>1, GotoAlone, OutsideCalm, Zenon
    <3> QED BY <1>6, <1>9, <3>1, Zenon DEF PersistedShell, Done
  <2> QED BY <1>0, <2>1, <2>2, <2>3, CalmStep, Zenon
<1> QED BY <1>7, <1>8, <1>9

\* a fetch,
LEMMA FetchKeeps ==
  ASSUME Whole, NEW h \in Handlers,
         DirectAnswer(h) \/ NetworkAnswer(h) \/ PutFetched(h) \/ Fallback(h) \/ Read(h)
           \/ Serve(h) \/ Respond(h)
  PROVE  QInv' /\ KInv'
<1> DEFINE p == proc[h].p
<1>0. h \in Procs /\ h \notin Publications /\ Inv
  BY NamesAreDistinct, SMTT(30) DEF Procs, Whole
<1>1. /\ proc[h].at \in {"direct", "network", "put", "fallback", "read", "serve", "served"}
      /\ proc[h].at # "idle"
  BY DEF DirectAnswer, NetworkAnswer, PutFetched, Fallback, Read, Serve, Respond, At
<1>2. p \in Publications /\ Typed(db[p])
  BY <1>0, <1>1, HasPublication, Zenon
<1>3. UNCHANGED budget
  BY Zenon DEF DirectAnswer, NetworkAnswer, PutFetched, Fallback, Read, Serve, Respond
<1>4. proc[h].at # "put" => Calm(proc[h])
  BY <1>1 DEF Calm, Queued, Holding, Tombstoning
<1>5. {"idle", "fallback", "read", "serve", "served"} \subseteq Outside /\ "put" \in Queued
  BY DEF Outside, Queued
<1>6. ASSUME NEW label \in {"idle", "fallback", "read", "serve", "served"}, Goto(h, label),
             UNCHANGED <<db, queue, disabled>>, proc[h].at # "put"
      PROVE  QInv' /\ KInv'
  BY <1>0, <1>3, <1>4, <1>5, <1>6, CalmGoto, Zenon
<1>7. CASE DirectAnswer(h) \/ NetworkAnswer(h)
  <2>1. Calm(proc[h]) /\ UNCHANGED db /\ proc[h].at # "put"
    BY <1>4, <1>7 DEF DirectAnswer, NetworkAnswer, At, stored
  <2>2. CASE DisablePublication(h, "idle")
    <3>1. "idle" # "evicting"
      OBVIOUS
    <3> QED BY <1>0, <1>2, <1>3, <2>1, <2>2, <3>1, DisableStep, Zenon
  <2>3. CASE Call(h, "put") /\ UNCHANGED disabled
    <3>1. Gently(h)
      BY <1>3, <2>1, <2>3, Zenon DEF Gently, Untroubled
    <3> QED BY <1>0, <1>2, <1>5, <2>1, <2>3, <3>1, CallStep, Zenon
  <2>4. CASE (\E label \in {"idle", "fallback"} : Goto(h, label)) /\ UNCHANGED <<disabled, queue>>
    BY <1>6, <2>1, <2>4, Zenon
  <2> QED BY <1>7, <2>2, <2>3, <2>4, ZenonT(30) DEF DirectAnswer, NetworkAnswer, Done
<1>8. CASE PutFetched(h)
  <2>1. /\ proc[h].at = "put" /\ Holds(h, p) /\ Release(h) /\ UNCHANGED disabled
        /\ \E label \in {"idle", "fallback"} : Goto(h, label)
    BY <1>8, Zenon DEF PutFetched, At, Done
  <2>2. proc[h].at \in Queued /\ proc[h].at # "discard"
    BY <2>1 DEF Queued
  <2>3. Gently(h)
    <3>1. CASE MayPut(db[p])
      <4>1. Write(p, Put(db[p], proc[h].d, proc[h].content))
        BY <1>8, <3>1, Zenon DEF PutFetched
      <4>2. Gentle(db[p], Put(db[p], proc[h].d, proc[h].content))
        BY <1>2, <3>1, PutGentle, Zenon
      <4> QED BY <1>0, <1>2, <1>3, <2>1, <4>1, <4>2, WriteGently, Zenon
    <3>2. CASE ~ MayPut(db[p])
      BY <1>3, <1>8, <2>1, <3>2, Zenon DEF PutFetched, Gently, Untroubled
    <3> QED BY <3>1, <3>2
  <2> QED BY <1>0, <1>2, <1>5, <2>1, <2>2, <2>3, ReleaseGoto, Zenon
<1>9. CASE Fallback(h) \/ Read(h) \/ Serve(h) \/ Respond(h)
  <2>1. /\ proc[h].at # "put" /\ UNCHANGED <<db, queue, disabled>>
        /\ \E label \in {"idle", "read", "serve", "served"} : Goto(h, label)
    BY <1>9 DEF Fallback, Read, Serve, Respond, At, Done, stored
  <2> QED BY <1>6, <2>1, ZenonT(30)
<1> QED BY <1>7, <1>8, <1>9

\* commitGeneration and activate: nothing that a withdrawal has cleaned
\* stays but a candidate about to be discarded.
LEMMA PointerWins ==
  ASSUME Whole, NEW p \in Publications, Alone(p), Holds(p, p), UNCHANGED <<disabled, budget>>,
         \A q \in Publications : q # p => db'[q] = db[q],
         proc[p].at \in {"commit", "activate"}, proc'[p].at \notin Tombstoning,
         p \in disabled /\ Clean(db[p]) =>
           proc'[p].at = "discard" /\ Wiped(db'[p], proc'[p].d),
         Firm => StoredGood(db'[p]) /\ FreshGood(proc'[p], db'[p])
  PROVE  KInv'
<1>0. WInv /\ AInv /\ TInv /\ QInv /\ disabled \subseteq Publications /\ p \in Procs
  BY DEF Whole, KInv, TInv, WorkerTyped, Procs
<1>1. ASSUME NEW y \in Procs PROVE PurgeGood(proc'[y], disabled', db')
  <2>1. CASE y = p
    <3>1. proc'[p].at \notin Purging /\ proc'[p].at # "purgeGenerations"
      BY DEF Purging, Tombstoning
    <3> QED BY <2>1, <3>1, Zenon DEF PurgeGood
  <2>2. CASE y # p
    BY <1>0, <2>2, OthersPurge, Zenon
  <2> QED BY <2>1, <2>2
<1>2. ASSUME NEW q \in disabled, budget'.faults = MaxFaults, Firm' PROVE Won(q)'
  <2>0. q \in Publications /\ Won(q)
    BY <1>0, <1>2, Zenon DEF WInv, Firm, Untroubled
  <2>1. ~ Withdraws(proc[p], q) /\ proc[p].at # "discard"
    BY DEF Withdraws, Tombstoning
  <2>2. CASE q # p
    <3>1. Sweeps(db[q], db'[q])
      BY <2>0, <2>2, Zenon DEF Sweeps
    <3> QED BY <1>0, <2>0, <2>1, <3>1, StillWon, Zenon
  <2>3. CASE q = p
    <3>1. CASE Clean(db[p])
      BY <1>2, <2>3, <3>1, Zenon DEF Won
    <3>2. CASE ~ Clean(db[p])
      <4>1. PICK y \in Procs : Withdraws(proc[y], q)
        BY <2>0, <2>1, <2>3, <3>2, Zenon DEF Won
      <4>2. y # p /\ ~ Calm(proc[y])
        BY <2>1, <4>1 DEF Withdraws, Calm
      <4>3. proc'[y] = proc[y]
        BY <4>2, Zenon DEF Alone
      <4> QED BY <4>1, <4>3, Zenon DEF Won
    <3> QED BY <3>1, <3>2
  <2> QED BY <2>2, <2>3
<1>3. WInv'
  BY <1>1, <1>2, Zenon DEF WInv, Firm
<1>4. ASSUME Firm, NEW q \in Publications
      PROVE  StoredGood(db'[q]) /\ FreshGood(proc'[q], db'[q])
  <2>1. CASE q = p
    BY <1>4, <2>1, Zenon
  <2>2. CASE q # p
    <3>1. StoredGood(db[q]) /\ FreshGood(proc[q], db[q]) /\ q \in Procs
      BY <1>0, <1>4, Zenon DEF AInv, Procs
    <3>2. Tame(db[q], db'[q])
      BY <2>2, Zenon DEF Tame
    <3>3. proc'[q] = proc[q] \/ Calm(proc'[q])
      BY <2>2, <3>1, Zenon DEF Alone
    <3> QED BY <1>4, <3>1, <3>2, <3>3, StillStored, Zenon
  <2> QED BY <2>1, <2>2
<1>5. AInv'
  BY <1>4, Zenon DEF AInv, Firm, Untroubled
<1> QED BY <1>3, <1>5, Zenon DEF KInv

\* A step that leaves the store and calls it again.
LEMMA NextStep ==
  ASSUME Whole, NEW p \in Publications, proc[p].p = p, Holds(p, p),
         proc[p].at \in Queued \cup Holding, proc[p].at # "discard",
         NEW label \in {"discard", "restore"}, CallNext(p, label),
         label = "discard" => proc[p].at \in {"commit", "activate"},
         UNCHANGED <<db, disabled, budget>>
  PROVE  QInv' /\ KInv'
<1>0. p \in Procs /\ Inv /\ label \in Queued /\ label # "idle" /\ Goto(p, label)
  BY DEF Procs, Whole, Queued, CallNext
<1>1. QInv'
  BY <1>0, NextQueues, Zenon DEF Whole
<1>2. Alone(p) /\ proc'[p].at = label /\ proc'[p].d = proc[p].d
  BY <1>0, GotoAlone, Zenon
<1>3. /\ proc[p].at \notin Tombstoning /\ label \notin Tombstoning
      /\ label \notin Purging /\ label # "purgeGenerations"
  <2>1. proc[p].at \notin Tombstoning
    BY QueuedIsPlain, Zenon
  <2> QED BY <2>1 DEF Tombstoning, Purging
<1>4. PurgeGood(proc'[p], disabled', db')
  BY <1>2, <1>3, Zenon DEF PurgeGood
<1>5. Firm => FreshGood(proc'[p], db'[p])
  <2>1. CASE label = "restore"
    BY <1>2, <2>1 DEF FreshGood
  <2>2. CASE label = "discard"
    <3>1. Firm => FreshGood(proc[p], db[p])
      BY Zenon DEF Whole, KInv, AInv
    <3>2. proc[p].at \in {"commit", "activate", "discard"}
      BY <2>2
    <3> QED BY <1>2, <3>1, <3>2, Zenon DEF FreshGood
  <2> QED BY <2>1, <2>2
<1>6. KInv'
  BY <1>0, <1>2, <1>3, <1>4, <1>5, MoveWins, Zenon DEF Whole, Untroubled, Withdraws
<1> QED BY <1>1, <1>6

\* the steps of a revalidation,
LEMMA RevalidationKeeps ==
  ASSUME Whole, NEW p \in Publications,
         Load(p) \/ ManifestAnswer(p) \/ Recover(p) \/ Refresh(p) \/ Compare(p)
           \/ PruneAfterRestore(p)
  PROVE  QInv' /\ KInv'
<1>0. p \in Procs /\ Inv
  BY DEF Procs, Whole
<1>1. /\ proc[p].at \in {"load", "manifest", "recover", "refresh", "compare",
                         "restoredCaches", "restored"}
      /\ proc[p].at # "idle"
  BY DEF Load, ManifestAnswer, Recover, Refresh, Compare, PruneAfterRestore, At
<1>2. proc[p].p = p /\ Typed(db[p]) /\ StateGood(db[p]) /\ IsProc(proc[p])
  BY <1>0, <1>1, HasPublication, Zenon
<1>3. UNCHANGED budget
  BY Zenon DEF Load, ManifestAnswer, Recover, Refresh, Compare, PruneAfterRestore
<1>4. proc[p].at \in {"load", "manifest", "recover", "compare"} => Calm(proc[p])
  BY DEF Calm, Queued, Holding, Tombstoning
<1>5. /\ {"failed", "refused", "recover", "compare", "fallback", "ready"} \subseteq Outside
      /\ {"refresh", "commit"} \subseteq Queued /\ {"restored", "restoredCaches"} \subseteq Holding
  BY DEF Outside, Queued, Holding
<1>6. ASSUME NEW label \in {"failed", "refused", "recover", "compare", "fallback"}, Goto(p, label),
             UNCHANGED <<db, queue, disabled>>, Calm(proc[p])
      PROVE  QInv' /\ KInv'
  BY <1>0, <1>3, <1>5, <1>6, CalmGoto, Zenon
<1>7. ASSUME Call(p, "refresh"), UNCHANGED <<db, disabled>>, Calm(proc[p])
      PROVE  QInv' /\ KInv'
  <2>1. Gently(p)
    BY <1>3, <1>7, Zenon DEF Gently, Untroubled
  <2>2. "refresh" \notin {"commit", "activate", "discard"}
    OBVIOUS
  <2> QED BY <1>0, <1>2, <1>5, <1>7, <2>1, <2>2, CallStep, Zenon
<1>8. CASE Load(p)
  <2>1. Calm(proc[p]) /\ UNCHANGED <<db, queue, disabled>>
    BY <1>4, <1>8 DEF Load, At, stored
  <2>2. CASE proc' = [proc EXCEPT ![p].at = "manifest", ![p].etag = db[p].etag]
    <3> DEFINE r == [proc[p] EXCEPT !.at = "manifest", !.etag = db[p].etag]
    <3>1. proc' = [proc EXCEPT ![p] = r]
      BY <2>2, Zenon
    <3>2. r.at = "manifest"
      BY <1>2, Zenon DEF IsProc, ProcFields
    <3> HIDE DEF r
    <3>3. Alone(p) /\ proc'[p].at = "manifest"
      BY <1>0, <3>1, <3>2, MoveAlone, Zenon
    <3>4. Calm(proc'[p])
      BY <3>3, OutsideCalm DEF Outside
    <3>5. Gently(p)
      BY <1>3, <2>1, Zenon DEF Gently, Untroubled
    <3> QED BY <1>0, <2>1, <3>3, <3>4, <3>5, CalmStep, Zenon
  <2> QED BY <1>6, <1>8, <2>1, <2>2, Zenon DEF Load
<1>9. CASE ManifestAnswer(p)
  <2>1. Calm(proc[p]) /\ UNCHANGED db
    BY <1>4, <1>9 DEF ManifestAnswer, At, stored
  <2>2. CASE DisablePublication(p, "refused")
    <3>1. "refused" # "evicting"
      OBVIOUS
    <3> QED BY <1>0, <1>2, <1>3, <2>1, <2>2, <3>1, DisableStep, Zenon
  <2>3. \/ DisablePublication(p, "refused")
        \/ UNCHANGED disabled /\ Call(p, "refresh")
        \/ /\ UNCHANGED <<disabled, queue>>
           /\ \E label \in {"failed", "recover", "compare", "fallback"} : Goto(p, label)
    BY <1>9, Zenon DEF ManifestAnswer
  <2> QED BY <1>6, <1>7, <2>1, <2>2, <2>3, Zenon
<1>10. CASE Recover(p)
  <2>1. Calm(proc[p]) /\ UNCHANGED <<db, disabled>>
    BY <1>4, <1>10 DEF Recover, At, stored
  <2>2. \/ Call(p, "refresh")
        \/ UNCHANGED queue /\ \E label \in {"failed", "fallback"} : Goto(p, label)
    BY <1>10, Zenon DEF Recover
  <2> QED BY <1>6, <1>7, <2>1, <2>2, ZenonT(30)
<1>11. CASE Compare(p)
  <2>1. Calm(proc[p]) /\ UNCHANGED <<db, disabled>> /\ proc[p].at = "compare"
    BY <1>4, <1>11 DEF Compare, At, stored
  <2>2. CASE Call(p, "commit") /\ proc[p].d \notin LoadActive(db[p])
    <3>1. proc[p].d # None
      BY <1>0, <2>1, SMTT(30) DEF Inv, ProcsGood, ProcGood, Tombstoning
    <3>2. Firm /\ ~ db[p].disabled /\ Sole(proc[p].d) => db[p].active # proc[p].d
      BY <2>2, <3>1, SMTT(30) DEF LoadActive, Loadable, Whole, KInv, AInv, StoredGood
    <3>3. Goto(p, "commit") /\ "commit" # "idle"
      BY <2>2 DEF Call
    <3>4. proc'[p].d = proc[p].d
      BY <1>0, <3>3, GotoAlone
    <3>5. Firm => FreshGood(proc'[p], db'[p])
      BY <2>1, <3>2, <3>4, Zenon DEF FreshGood
    <3>6. Gently(p)
      BY <1>3, <2>1, Zenon DEF Gently, Untroubled
    <3> QED BY <1>0, <1>2, <1>5, <2>1, <2>2, <3>5, <3>6, CallStep, Zenon
  <2>3. \/ UNCHANGED queue /\ Goto(p, "failed")
        \/ Call(p, "refresh")
        \/ Call(p, "commit") /\ proc[p].d \notin LoadActive(db[p])
    BY <1>11, Zenon DEF Compare
  <2> QED BY <1>6, <1>7, <2>1, <2>2, <2>3, ZenonT(30)
<1>12. CASE Refresh(p)
  <2>1. /\ proc[p].at = "refresh" /\ Holds(p, p) /\ Release(p) /\ UNCHANGED disabled
        /\ Write(p, Observe(db[p], None, proc[p].d))
        /\ \E label \in {"failed", "ready"} : Goto(p, label)
    BY <1>12, Zenon DEF Refresh, At
  <2>2. Gently(p)
    BY <1>0, <1>2, <1>3, <2>1, ObserveGentle, WriteGently, Zenon
  <2>3. proc[p].at \in Queued /\ proc[p].at # "discard"
    BY <2>1 DEF Queued
  <2> QED BY <1>0, <1>2, <1>5, <2>1, <2>2, <2>3, ReleaseGoto, Zenon
<1>13. CASE PruneAfterRestore(p)
  <2>1. proc[p].at \in {"restoredCaches", "restored"} /\ UNCHANGED disabled
    BY <1>13, Zenon DEF PruneAfterRestore, At
  <2>2. proc[p].at \in Holding /\ proc[p].at # "discard"
    BY <2>1 DEF Holding
  <2>3. Holds(p, p)
    BY <1>0, <1>2, <2>2, InsideHolds, Zenon DEF Whole, Inside
  <2>4. Gently(p)
    <3>1. \E s : Write(p, s) /\ Gentle(db[p], s)
      BY <1>2, <1>13, PruneGentle, Zenon DEF PruneAfterRestore
    <3> QED BY <1>0, <1>3, <2>1, <2>3, <3>1, WriteGently, Zenon
  <2>5. CASE Goto(p, "restored") /\ UNCHANGED queue
    <3>1. "restored" # "idle"
      OBVIOUS
    <3>2. Alone(p) /\ proc'[p].at = "restored" /\ proc'[p].p = proc[p].p
      BY <1>0, <2>5, <3>1, GotoAlone
    <3> QED BY <1>0, <1>2, <1>5, <2>2, <2>3, <2>4, <2>5, <3>2, HoldStep, Zenon
  <2>6. CASE Goto(p, "failed") /\ Release(p)
    BY <1>0, <1>2, <1>5, <2>2, <2>3, <2>4, <2>6, ReleaseGoto, ZenonT(30)
  <2> QED BY <1>13, <2>5, <2>6, Zenon DEF PruneAfterRestore
<1> QED BY <1>8, <1>9, <1>10, <1>11, <1>12, <1>13

\* commitCandidate's commit and discard,
LEMMA CandidateKeeps ==
  ASSUME Whole, NEW p \in Publications, Commit(p) \/ Discard(p)
  PROVE  QInv' /\ KInv'
<1> DEFINE d == proc[p].d
<1>0. p \in Procs /\ Inv /\ QInv
  BY SMTT(30) DEF Procs, Whole
<1>1. /\ proc[p].at \in {"commit", "discard"} /\ proc[p].at # "idle" /\ proc[p].at \notin Tombstoning
      /\ proc[p].at \in Queued
  BY DEF Commit, Discard, At, Tombstoning, Queued
<1>2. proc[p].p = p /\ Typed(db[p]) /\ d \in Descriptors
  <2>1. proc[p].p = p /\ Typed(db[p])
    BY <1>0, <1>1, HasPublication, Zenon
  <2>2. d \in Descriptors
    BY <1>0, <1>1, Zenon DEF Whole, TInv, ProcsTyped, ProcTyped
  <2> QED BY <2>1, <2>2
<1>3. UNCHANGED <<disabled, budget>> /\ Holds(p, p)
  BY Zenon DEF Commit, Discard
<1>4. Firm /\ ~ db[p].disabled /\ Sole(d) => db[p].active # d
  <2>1. Firm => FreshGood(proc[p], db[p])
    BY Zenon DEF Whole, KInv, AInv
  <2>2. proc[p].at \in {"commit", "activate", "discard"}
    BY <1>1
  <2> QED BY <2>1, <2>2, Zenon DEF FreshGood
<1>5. CASE Commit(p) /\ MayCommit(db[p], d)
  <2> DEFINE s == CommitGeneration(db[p], d)
             label == IF p \in disabled THEN "discard" ELSE "activate"
  <2>1. Write(p, s) /\ CallNext(p, label) /\ proc[p].at = "commit"
    BY <1>5, Zenon DEF Commit, At
  <2>2. Tame(db[p], s) /\ (Clean(db[p]) => Wiped(s, d))
    BY <1>2, CommitTame, Zenon
  <2> HIDE DEF s
  <2>3. label \in Queued /\ label # "idle" /\ label \notin Tombstoning
    BY DEF Queued, Tombstoning
  <2>4. Goto(p, label)
    BY <2>1 DEF CallNext
  <2>5. p \in disabled => label = "discard"
    OBVIOUS
  <2> HIDE DEF label
  <2>6. Alone(p) /\ proc'[p].at = label /\ proc'[p].d = d
    BY <1>0, <2>3, <2>4, GotoAlone
  <2>7. QInv'
    BY <1>0, <1>1, <1>2, <1>3, <2>1, <2>3, NextQueues, Zenon
  <2>8. db'[p] = s /\ \A q \in Publications : q # p => db'[q] = db[q]
    BY <1>0, <2>1, Zenon DEF Write, Inv, DbGood
  <2>9. Firm => StoredGood(db'[p]) /\ FreshGood(proc'[p], db'[p])
    <3> SUFFICES ASSUME Firm PROVE StoredGood(s) /\ FreshGood(proc'[p], s)
      BY <2>8
    <3>1. StoredGood(db[p]) /\ (s.disabled \/ (~ db[p].disabled /\ s.active = db[p].active))
      BY <2>2, Zenon DEF Tame, Whole, KInv, AInv
    <3>2. StoredGood(s)
      BY <2>2, <3>1, Zenon DEF Tame, StoredGood
    <3>3. FreshGood(proc'[p], s)
      BY <1>4, <2>6, <3>1, Zenon DEF FreshGood
    <3> QED BY <3>2, <3>3
  <2>10. proc[p].at \in {"commit", "activate"} /\ proc'[p].at \notin Tombstoning
    BY <2>1, <2>3, <2>6
  <2>11. p \in disabled /\ Clean(db[p]) => proc'[p].at = "discard" /\ Wiped(db'[p], proc'[p].d)
    BY <2>2, <2>5, <2>6, <2>8, Zenon
  <2>12. KInv'
    BY <1>3, <2>6, <2>8, <2>9, <2>10, <2>11, PointerWins, Zenon
  <2> QED BY <2>7, <2>12
<1>6. CASE Commit(p) /\ ~ MayCommit(db[p], d)
  <2>1. CallNext(p, "discard") /\ UNCHANGED db /\ proc[p].at = "commit"
    BY <1>6, Zenon DEF Commit, At, stored
  <2>2. proc[p].at # "discard" /\ proc[p].at \in {"commit", "activate"}
    BY <2>1
  <2> QED BY <1>1, <1>2, <1>3, <2>1, <2>2, NextStep, Zenon
<1>7. CASE Discard(p)
  <2> DEFINE s == DiscardCandidate(db[p], RevisionOf[d])
  <2>1. Write(p, s) /\ Release(p) /\ Goto(p, "failed") /\ proc[p].at = "discard"
    BY <1>7, Zenon DEF Discard, At
  <2>2. Gentle(db[p], s) /\ (Wiped(db[p], d) => Clean(s))
    BY <1>2, <1>4, DiscardGentle, Zenon
  <2> HIDE DEF s
  <2>3. Alone(p) /\ proc'[p].at = "failed"
    BY <1>0, <2>1, GotoAlone, Zenon
  <2>4. Calm(proc'[p])
    BY <2>3, OutsideCalm DEF Outside
  <2>5. QInv'
    BY <1>0, <1>1, <1>2, <1>3, <2>1, <2>3, <2>4, ReleaseQueues, Zenon
  <2>6. Gently(p) /\ db'[p] = s
    <3>1. Gently(p)
      BY <1>0, <1>3, <2>1, <2>2, WriteGently, Zenon
    <3>2. db'[p] = s
      BY <1>0, <2>1, Zenon DEF Write, Inv, DbGood
    <3> QED BY <3>1, <3>2
  <2>7. /\ proc'[p].at \notin Tombstoning /\ proc'[p].at \notin {"commit", "activate", "discard"}
        /\ proc'[p].at \notin Purging /\ proc'[p].at # "purgeGenerations"
    BY <2>3 DEF Tombstoning, Purging
  <2>8. PurgeGood(proc'[p], disabled', db') /\ FreshGood(proc'[p], db'[p])
    BY <2>7, Zenon DEF PurgeGood, FreshGood
  <2>9. KInv'
    BY <1>0, <1>1, <2>2, <2>3, <2>6, <2>8, MoveWins, Zenon DEF Whole, Gently, Withdraws
  <2> QED BY <2>5, <2>9
<1> QED BY <1>5, <1>6, <1>7

\* of an activation and its rollback,
LEMMA ActivationKeeps ==
  ASSUME Whole, NEW p \in Publications,
         ActivateCandidate(p) \/ PruneAfterActivation(p) \/ Evict(p) \/ EvictNext(p)
           \/ Activated(p) \/ Restore(p)
  PROVE  QInv' /\ KInv'
<1>0. p \in Procs /\ Inv /\ QInv
  BY SMTT(30) DEF Procs, Whole
<1>1. /\ proc[p].at \in {"activate", "pruneGenerations", "pruneCaches", "evict", "evicting", "restore"}
      /\ proc[p].at # "idle" /\ proc[p].at # "discard"
  BY Zenon DEF ActivateCandidate, PruneAfterActivation, Evict, EvictNext, Activated, Restore, At
<1>2. proc[p].p = p /\ Typed(db[p]) /\ StateGood(db[p]) /\ IsProc(proc[p])
  BY <1>0, <1>1, HasPublication, Zenon
<1>3. UNCHANGED <<disabled, budget>>
  BY Zenon DEF ActivateCandidate, PruneAfterActivation, Evict, EvictNext, Activated, Restore
<1>4. proc[p].at \in Queued \cup Holding
  BY <1>1 DEF Queued, Holding
<1>5. proc[p].at \in Holding => Holds(p, p)
  BY <1>0, <1>2, InsideHolds, Zenon DEF Inside
<1>6. ASSUME NEW r, proc' = [proc EXCEPT ![p] = r], r.at \in Holding, r.p = p, Holds(p, p),
             UNCHANGED queue, Gently(p)
      PROVE  QInv' /\ KInv'
  <2>1. Alone(p) /\ proc'[p] = r
    BY <1>0, <1>6, MoveAlone, Zenon
  <2> QED BY <1>0, <1>1, <1>2, <1>4, <1>6, <2>1, HoldStep, Zenon
<1>7. ASSUME NEW label \in {"pruneCaches", "evict", "restoredCaches"}, Goto(p, label), Holds(p, p),
             UNCHANGED queue, Gently(p)
      PROVE  QInv' /\ KInv'
  <2>1. label \in Holding /\ label # "idle"
    BY DEF Holding
  <2>2. Alone(p) /\ proc'[p].at = label /\ proc'[p].p = proc[p].p
    BY <1>0, <1>7, <2>1, GotoAlone
  <2> QED BY <1>0, <1>1, <1>2, <1>4, <1>7, <2>1, <2>2, HoldStep, Zenon
<1>8. CASE ActivateCandidate(p)
  <2> DEFINE n == RevisionOf[proc[p].d]
             s == Activate(db[p], n)
             r == [proc[p] EXCEPT !.at = "pruneGenerations", !.token = Token(db[p], s)]
  <2>0. Holds(p, p) /\ proc[p].at = "activate" /\ proc[p].at \in {"commit", "activate"}
    BY <1>8 DEF ActivateCandidate, At
  <2>1. CASE MayActivate(db[p], n)
    <3>1. Write(p, s) /\ proc' = [proc EXCEPT ![p] = r] /\ UNCHANGED queue
      BY <1>8, <2>1, Zenon DEF ActivateCandidate
    <3>2. StoredGood(s) /\ ~ Clean(db[p])
      BY <1>2, <2>1, ActivateStored, Zenon
    <3>3. r.at = "pruneGenerations" /\ r.p = proc[p].p
      BY <1>2, Zenon DEF IsProc, ProcFields
    <3> HIDE DEF s, r, n
    <3>4. Alone(p) /\ proc'[p] = r
      BY <1>0, <3>1, MoveAlone, Zenon
    <3>5. /\ proc'[p].at \in Holding /\ proc'[p].at \notin {"commit", "activate", "discard"}
          /\ proc'[p].at \notin Tombstoning
      BY <3>3, <3>4 DEF Holding, Tombstoning
    <3>6. QInv'
      BY <1>0, <1>2, <1>4, <2>0, <3>1, <3>3, <3>4, <3>5, HoldQueues, Zenon
    <3>7. db'[p] = s /\ \A q \in Publications : q # p => db'[q] = db[q]
      BY <1>0, <3>1, Zenon DEF Write, Inv, DbGood
    <3>8. FreshGood(proc'[p], db'[p])
      BY <3>5, Zenon DEF FreshGood
    <3>9. KInv'
      BY <1>3, <2>0, <3>2, <3>4, <3>5, <3>7, <3>8, PointerWins, Zenon
    <3> QED BY <3>6, <3>9
  <2>2. CASE ~ MayActivate(db[p], n)
    <3>1. CallNext(p, "discard") /\ UNCHANGED db
      BY <1>8, <2>2, Zenon DEF ActivateCandidate, stored
    <3> QED BY <1>1, <1>2, <1>3, <1>4, <2>0, <3>1, NextStep, Zenon
  <2> QED BY <2>1, <2>2
<1>9. CASE PruneAfterActivation(p)
  <2>1. /\ proc[p].at \in Holding /\ UNCHANGED queue
        /\ \E label \in {"pruneCaches", "evict"} : Goto(p, label)
    BY <1>9, Zenon DEF PruneAfterActivation, At, Holding
  <2>2. \E s : Write(p, s) /\ Gentle(db[p], s)
    BY <1>2, <1>9, PruneGentle, Zenon DEF PruneAfterActivation
  <2>3. Gently(p)
    BY <1>0, <1>3, <1>5, <2>1, <2>2, WriteGently, Zenon
  <2> QED BY <1>5, <1>7, <2>1, <2>3, Zenon
<1>10. CASE Evict(p)
  <2> DEFINE r == [proc[p] EXCEPT !.at = "evicting", !.victims = Evictable(db, recent, p)]
  <2>1. /\ proc[p].at = "evict" /\ proc' = [proc EXCEPT ![p] = r] /\ UNCHANGED <<db, queue>>
    BY <1>10, Zenon DEF Evict, At, stored
  <2>2. r.at = "evicting" /\ r.p = proc[p].p
    BY <1>2, Zenon DEF IsProc, ProcFields
  <2> HIDE DEF r
  <2>3. r.at \in Holding /\ proc[p].at \in Holding
    BY <2>1, <2>2 DEF Holding
  <2>4. Gently(p)
    BY <1>3, <2>1, Zenon DEF Gently, Untroubled
  <2> QED BY <1>2, <1>5, <1>6, <2>1, <2>2, <2>3, <2>4, Zenon
<1>11. CASE EvictNext(p)
  <2> DEFINE v == Head(proc[p].victims)
             r == [proc[p] EXCEPT !.at = "tombstone", !.back = "evicting", !.on = v,
                                  !.victims = Tail(proc[p].victims)]
  <2>1. /\ proc[p].at = "evicting" /\ proc[p].victims # <<>> /\ UNCHANGED db
        /\ proc' = [proc EXCEPT ![p] = r] /\ queue' = [queue EXCEPT ![v] = Append(@, p)]
    BY <1>11, Zenon DEF EvictNext, At, stored
  <2>2. proc[p].victims \in Seq(Publications \ {p})
    BY <1>0, <1>2, <2>1, SMTT(30) DEF Whole, TInv, ProcsTyped, ProcTyped
  <2>3. v \in Publications \ {p}
    BY <2>1, <2>2
  <2>4. r.at = "tombstone" /\ r.back = "evicting" /\ r.on = v /\ r.p = p
    BY <1>2, Zenon DEF IsProc, ProcFields
  <2> HIDE DEF v, r
  <2>5. Alone(p) /\ proc'[p] = r
    BY <1>0, <2>1, MoveAlone, Zenon
  <2>6. Evicts(r) /\ r.at \notin Purging /\ proc[p].at \in Holding
    BY <2>1, <2>4, SMTT(30) DEF Evicts, Tombstoning, Purging, Holding
  <2>7. ~ Engages(proc[p], v) /\ Engages(r, v) /\ ~ Inside(r, v)
    BY <1>2, <2>3, <2>4, <2>6, WhereEngages, SMTT(30)
  <2>8. ASSUME NEW z \in Publications, z # v PROVE Like(proc[p], r, z)
    BY <1>2, <2>4, <2>6, <2>8, WhereEngages DEF Like
  <2>9. QInv'
    BY <1>0, <2>1, <2>3, <2>5, <2>7, <2>8, Enter, Zenon
  <2>10. r.at # "purgeGenerations" /\ r.at \notin {"commit", "activate", "discard"}
    BY <2>4
  <2>11. PurgeGood(r, disabled', db') /\ FreshGood(r, db'[p])
    BY <2>4, <2>6, <2>10, Zenon DEF PurgeGood, FreshGood
  <2>12. \A q \in Publications : ~ Withdraws(proc[p], q)
    BY <2>1 DEF Withdraws, Tombstoning
  <2>13. KInv'
    BY <1>0, <1>1, <1>3, <2>1, <2>5, <2>11, <2>12, MoveWins, Zenon DEF Whole, Untroubled
  <2> QED BY <2>9, <2>13
<1>12. CASE Activated(p)
  <2>1. proc[p].at = "evicting" /\ UNCHANGED db
    BY <1>12, Zenon DEF Activated, At, stored
  <2>2. Holds(p, p) /\ Gently(p)
    <3>1. proc[p].at \in Holding
      BY <2>1 DEF Holding
    <3> QED BY <1>3, <1>5, <2>1, <3>1, ZenonT(30) DEF Gently, Untroubled
  <2>3. CASE CallNext(p, "restore")
    <3>1. "restore" # "discard"
      OBVIOUS
    <3> QED BY <1>1, <1>2, <1>3, <1>4, <2>1, <2>2, <2>3, <3>1, NextStep, Zenon
  <2>4. CASE Release(p) /\ Goto(p, "ready")
    <3>1. "ready" \in Outside
      BY SMTT(30) DEF Outside
    <3> QED BY <1>0, <1>1, <1>2, <1>4, <2>2, <2>4, <3>1, ReleaseGoto, Zenon
  <2> QED BY <1>12, <2>3, <2>4, ZenonT(30) DEF Activated
<1>13. CASE Restore(p)
  <2> DEFINE t == proc[p].token
  <2>1. proc[p].at = "restore" /\ Holds(p, p)
    BY <1>13, SMTT(30) DEF Restore, At
  <2>2. TokenGood(t) /\ TokenTyped(t)
    BY <1>0, <2>1, Zenon DEF Whole, TInv, ProcsTyped, ProcTyped, Inv, ProcsGood, ProcGood, Activating
  <2>3. CASE RestoreApplies(db[p], t)
    <3>1. Write(p, RestoreMetadata(db[p], t)) /\ Goto(p, "restoredCaches") /\ UNCHANGED queue
      BY <1>13, <2>3, Zenon DEF Restore
    <3>2. Gentle(db[p], RestoreMetadata(db[p], t))
      BY <1>2, <2>2, <2>3, RestoreGentle, Zenon
    <3>3. Gently(p)
      BY <1>0, <1>3, <2>1, <3>1, <3>2, WriteGently, Zenon
    <3> QED BY <1>7, <2>1, <3>1, <3>3, Zenon
  <2>4. CASE ~ RestoreApplies(db[p], t)
    <3>1. Release(p) /\ Goto(p, "failed") /\ UNCHANGED db
      BY <1>13, <2>4, Zenon DEF Restore
    <3>2. Gently(p) /\ "failed" \in Outside
      BY <1>3, <3>1 DEF Gently, Untroubled, Outside
    <3> QED BY <1>0, <1>1, <1>2, <1>4, <2>1, <3>1, <3>2, ReleaseGoto, Zenon
  <2> QED BY <2>3, <2>4, SMTT(30)
<1> QED BY <1>8, <1>9, <1>10, <1>11, <1>12, <1>13

\* The purge of the caches of a tombstoned publication leaves none.
LEMMA PurgeCachesEmpties ==
  ASSUME NEW s, Typed(s), Cleared(s)
  PROVE  Cleared(PurgeCaches(s)) /\ PurgeCaches(s).cached = {}
<1> DEFINE keep == {<<s.active, s.previous, s.candidate>>[i] : i \in 1 .. 3 \cap 1 .. MaxGenerations}
           c == {e \in s.cached : e[1] \in keep}
           t == [s EXCEPT !.cached = c]
<1>1. PurgeCaches(s) = t
  BY Zenon DEF PurgeCaches, PruneGenerationCaches
<1>2. \A k \in keep : k = None
  BY DEF Cleared
<1>3. \A e \in s.cached : e[1] \in Descriptors
  BY DEF Typed, Inv_Metadata
<1> HIDE DEF keep
<1>4. c = {}
  BY <1>2, <1>3, NamesAreDistinct
<1> HIDE DEF c
<1>5. Slight(s, t) /\ t.cached = c
  BY Zenon DEF Typed, IsState, StateFields, Slight
<1> HIDE DEF t
<1> QED BY <1>1, <1>4, <1>5, Zenon DEF Cleared, Slight

\* the tombstones,
LEMMA TombstonesKeep ==
  ASSUME Whole, NEW x \in Procs, TombstoneStep(x)
  PROVE  QInv' /\ KInv'
<1> DEFINE q == proc[x].on
<1>0. Inv /\ QInv /\ TInv /\ WInv
  BY DEF Whole, KInv
<1>1. /\ proc[x].at \in Tombstoning /\ proc[x].at # "discard" /\ proc[x].at # "idle"
      /\ proc[x].at # "tombstone" => proc[x].at \in Purging
  BY DEF TombstoneStep, WriteTombstone, PurgeTombstonedCaches, PurgeTombstonedGenerations, At,
     Tombstoning, Purging
<1>2. q \in Publications /\ Typed(db[q]) /\ StateGood(db[q])
  BY <1>0, <1>1, Zenon DEF TInv, ProcsTyped, ProcTyped, StorageTyped, Inv, DbGood
<1>3. PurgeGood(proc[x], disabled, db) /\ UNCHANGED <<disabled, budget>>
  BY <1>0, Zenon DEF WInv, TombstoneStep, WriteTombstone, PurgeTombstonedCaches,
     PurgeTombstonedGenerations
<1>4. Holds(x, q)
  <2>1. proc[x].at = "tombstone" => Holds(x, q)
    BY DEF TombstoneStep, WriteTombstone, PurgeTombstonedCaches, PurgeTombstonedGenerations, At
  <2>2. proc[x].at \in Purging => Holds(x, q)
    BY <1>0, <1>2, InsideHolds, Zenon DEF Inside
  <2> QED BY <1>1, <2>1, <2>2
<1>5. proc[x].back # "evicting" \/ Evicts(proc[x])
  BY <1>1 DEF Evicts
<1>6. ASSUME NEW s, Write(q, s), Gentle(db[q], s)
      PROVE  Gently(x) /\ db'[q] = s
  <2>1. Gently(x)
    BY <1>0, <1>2, <1>3, <1>4, <1>6, WriteGently, Zenon
  <2>2. db'[q] = s
    BY <1>0, <1>2, <1>6, Zenon DEF Write, Inv, DbGood
  <2> QED BY <2>1, <2>2
<1>7. ASSUME NEW label \in Purging, Goto(x, label), UNCHANGED queue, Gently(x), Cleared(db'[q]),
             label = "purgeGenerations" => db'[q].cached = {}
      PROVE  QInv' /\ KInv'
  <2>1. label # "idle" /\ label \in Tombstoning /\ label \notin {"commit", "activate", "discard"}
    BY DEF Purging, Tombstoning
  <2>2. /\ Alone(x) /\ proc'[x].at = label /\ proc'[x].p = proc[x].p
        /\ proc'[x].on = q /\ proc'[x].back = proc[x].back
    BY <1>0, <1>7, <2>1, GotoAlone, SMTT(30)
  <2> HIDE DEF q
  <2>3. ASSUME NEW z \in Publications
        PROVE  /\ Engages(proc'[x], z) <=> Engages(proc[x], z)
               /\ Inside(proc'[x], z) => Inside(proc[x], z) \/ Holds(x, z)
    <3>1. CASE proc[x].back # "evicting"
      BY <1>1, <1>4, <2>1, <2>2, <3>1, WhereEngages, ZenonT(30) DEF q
    <3>2. CASE Evicts(proc[x])
      <4>1. Evicts(proc'[x])
        BY <2>1, <2>2, <3>2, Zenon DEF Evicts
      <4> QED BY <1>4, <2>2, <3>2, <4>1, WhereEngages DEF q
    <3> QED BY <1>5, <3>1, <3>2
  <2>4. QInv'
    BY <1>0, <1>7, <2>2, <2>3, Stay, Zenon
  <2>5. proc[x].back # "evicting" => q \in disabled'
    BY <1>1, <1>3, Zenon DEF PurgeGood, q
  <2>6. PurgeGood(proc'[x], disabled', db') /\ FreshGood(proc'[x], db'[x])
    BY <1>7, <2>1, <2>2, <2>5, Zenon DEF PurgeGood, FreshGood
  <2>7. \A z \in Publications : Withdraws(proc[x], z) => Withdraws(proc'[x], z)
    BY <2>1, <2>2, Zenon DEF Withdraws, q
  <2>8. KInv'
    BY <1>1, <1>7, <2>2, <2>6, <2>7, MoveWins, Zenon DEF Whole, Gently
  <2> QED BY <2>4, <2>8
<1>8. CASE WriteTombstone(x)
  <2> DEFINE s == Tombstone(db[q], proc[x].back = "evicting")
  <2>1. Write(q, s) /\ Goto(x, "purgeCaches") /\ UNCHANGED queue
    BY <1>8, Zenon DEF WriteTombstone
  <2>2. Gentle(db[q], s) /\ Cleared(s)
    BY <1>2, TombstoneGentle, Zenon
  <2> HIDE DEF s
  <2>3. Gently(x) /\ Cleared(db'[q])
    BY <1>6, <2>1, <2>2, Zenon
  <2>4. "purgeCaches" \in Purging /\ "purgeCaches" # "purgeGenerations"
    BY DEF Purging
  <2> QED BY <1>7, <2>1, <2>3, <2>4, Zenon
<1>9. CASE PurgeTombstonedCaches(x)
  <2> DEFINE s == PurgeCaches(db[q])
  <2>1. Write(q, s) /\ Goto(x, "purgeGenerations") /\ UNCHANGED queue /\ proc[x].at = "purgeCaches"
    BY <1>9, Zenon DEF PurgeTombstonedCaches, At
  <2>2. Cleared(db[q])
    BY <1>3, <2>1 DEF PurgeGood, Purging
  <2>3. Gentle(db[q], s) /\ Cleared(s) /\ s.cached = {}
    BY <1>2, <2>2, PruneGentle, PurgeCachesEmpties, Zenon DEF PurgeCaches
  <2> HIDE DEF s
  <2>4. Gently(x) /\ Cleared(db'[q]) /\ db'[q].cached = {}
    BY <1>6, <2>1, <2>3, Zenon
  <2>5. "purgeGenerations" \in Purging
    BY DEF Purging
  <2> QED BY <1>7, <2>1, <2>4, <2>5, Zenon
<1>10. CASE PurgeTombstonedGenerations(x)
  <2> DEFINE s == PurgeGenerations(db[q])
             back == proc[x].back
             n == [proc[x] EXCEPT !.at = back, !.on = None, !.back = None]
             r == IF back = "idle" THEN Idle ELSE n
  <2>1. /\ proc[x].at = "purgeGenerations" /\ Write(q, s)
        /\ proc' = [proc EXCEPT ![x] = r] /\ queue' = [queue EXCEPT ![q] = Tail(@)]
    BY <1>10, Zenon DEF PurgeTombstonedGenerations, At
  <2>2. /\ back \in {"idle", "persisted", "refused", "evicting"} /\ IsProc(proc[x])
        /\ Evicts(proc[x]) => q # proc[x].p
    BY <1>0, <1>1, Zenon DEF Inv, ProcsGood, ProcGood, TInv, ProcsTyped, ProcTyped
  <2>3. r.at = back /\ (back # "idle" => r.p = proc[x].p)
    BY <2>2 DEF Idle, IsProc, ProcFields
  <2>4. Cleared(db[q]) /\ (back # "evicting" => db[q].cached = {})
    BY <1>3, <2>1 DEF PurgeGood, Purging
  <2>5. Gentle(db[q], s) /\ (back # "evicting" => Clean(s))
    BY <1>2, <2>4, TombstoneGentle, Zenon DEF Cleared
  <2> HIDE DEF s, r, q
  <2>6. Alone(x) /\ proc'[x] = r
    BY <1>0, <2>1, MoveAlone, Zenon
  <2>7. Gently(x) /\ db'[q] = s
    BY <1>6, <2>1, <2>5, Zenon DEF q
  <2>8. QInv'
    <3>1. CASE back = "evicting"
      <4>1. Evicts(proc[x]) /\ r.at \in Holding /\ r.p = proc[x].p /\ q # proc[x].p
        BY <1>1, <2>2, <2>3, <3>1, SMTT(30) DEF Evicts, Holding
      <4>2. ~ Engages(r, q)
        BY <4>1, WhereEngages
      <4>3. ASSUME NEW z \in Publications, z # q PROVE Like(proc[x], r, z)
        BY <4>1, <4>3, WhereEngages DEF Like, q
      <4> QED BY <1>0, <1>2, <1>4, <2>1, <2>6, <4>2, <4>3, Leave, ZenonT(30) DEF q
    <3>2. CASE back # "evicting"
      <4>1. Calm(r)
        BY <2>2, <2>3, <3>2 DEF Calm, Queued, Holding, Tombstoning
      <4>2. \A z : ~ Engages(r, z) /\ ~ Inside(r, z)
        BY <4>1, CalmEngages, Zenon
      <4>3. ASSUME NEW z \in Publications, z # q PROVE Like(proc[x], r, z)
        BY <1>1, <3>2, <4>2, <4>3, WhereEngages, Zenon DEF Like, q
      <4> QED BY <1>0, <1>2, <1>4, <2>1, <2>6, <4>2, <4>3, Leave, ZenonT(30) DEF q
    <3> QED BY <3>1, <3>2
  <2>9. /\ r.at \notin Purging /\ r.at # "purgeGenerations" /\ r.at \notin Tombstoning
        /\ r.at \notin {"commit", "activate", "discard"}
    BY <2>2, <2>3 DEF Purging, Tombstoning
  <2>10. PurgeGood(r, disabled', db') /\ FreshGood(r, db'[x])
    BY <2>9, Zenon DEF PurgeGood, FreshGood
  <2>11. \A z \in Publications : Withdraws(proc[x], z) => Clean(db'[z])
    BY <2>5, <2>7, Zenon DEF Withdraws, q
  <2>12. KInv'
    BY <1>1, <2>6, <2>7, <2>10, <2>11, MoveWins, Zenon DEF Whole, Gently
  <2> QED BY <2>8, <2>12
<1> QED BY <1>8, <1>9, <1>10 DEF TombstoneStep

\* An operation that rejects leaves the queues as they should be.
LEMMA LeavesQueues ==
  ASSUME Whole, NEW x \in Procs,
         NEW label \in {"idle", "discard", "failed", "persisted", "fallback", "evicting"},
         \/ /\ proc[x].at \in Tombstoning /\ LeaveWith(x, proc[x].on, label)
            /\ label = AfterTombstone(x)
         \/ /\ proc[x].at \in Queued \cup Holding /\ LeaveWith(x, proc[x].p, label)
            /\ label # "evicting"
  PROVE  QInv' /\ Alone(x) /\ proc'[x].at = label /\ (label # "idle" => proc'[x].d = proc[x].d)
<1>0. Inv /\ QInv /\ TInv /\ Goto(x, label)
  BY Zenon DEF Whole, LeaveWith
<1>1. Alone(x) /\ proc'[x].at = label
  BY <1>0, GotoAlone, Zenon
<1>2. label # "idle" => proc'[x].d = proc[x].d
  BY <1>0, GotoAlone, Zenon
<1>3. CASE proc[x].at \in Tombstoning /\ LeaveWith(x, proc[x].on, label) /\ label = AfterTombstone(x)
  <2> DEFINE q == proc[x].on
             back == proc[x].back
  <2>1. label = (IF back = "refused" THEN "failed" ELSE back) /\ Holds(x, q)
    BY <1>3 DEF AfterTombstone, LeaveWith
  <2>2. /\ back \in {"idle", "persisted", "refused", "evicting"} /\ q \in Publications
        /\ Evicts(proc[x]) => q # proc[x].p
    BY <1>0, <1>3, Zenon DEF Inv, ProcsGood, ProcGood, TInv, ProcsTyped, ProcTyped
  <2>3. /\ label \in {"idle", "persisted", "failed", "evicting"} /\ label # "discard"
        /\ label = "evicting" <=> back = "evicting"
    BY <2>1, <2>2
  <2>4. queue' = [queue EXCEPT ![q] = Tail(@)]
    BY <1>3, <2>3, Zenon DEF LeaveWith
  <2> HIDE DEF q
  <2>5. CASE back = "evicting"
    <3>1. label # "idle"
      BY <2>3, <2>5
    <3>2. proc'[x].p = proc[x].p /\ proc'[x].at \in Holding
      BY <1>0, <1>1, <2>3, <2>5, <3>1, GotoAlone, SMTT(30) DEF Holding
    <3>3. Evicts(proc[x]) /\ q # proc[x].p
      BY <1>3, <2>2, <2>5 DEF Evicts
    <3>4. ~ Engages(proc'[x], q)
      BY <3>2, <3>3, WhereEngages, SMTT(30)
    <3>5. ASSUME NEW z \in Publications, z # q PROVE Like(proc[x], proc'[x], z)
      BY <3>2, <3>3, <3>5, WhereEngages DEF Like, q
    <3>6. QInv'
      BY <1>0, <1>1, <2>1, <2>2, <2>4, <3>4, <3>5, Leave, Zenon
    <3> QED BY <1>1, <1>2, <3>6
  <2>6. CASE back # "evicting"
    <3>1. Calm(proc'[x])
      BY <1>1, <2>3, <2>6 DEF Calm, Queued, Holding, Tombstoning
    <3>2. \A z : ~ Engages(proc'[x], z) /\ ~ Inside(proc'[x], z)
      BY <3>1, CalmEngages, Zenon
    <3>3. ASSUME NEW z \in Publications, z # q PROVE Like(proc[x], proc'[x], z)
      BY <1>3, <2>6, <3>2, <3>3, WhereEngages, Zenon DEF Like, q
    <3>4. QInv'
      BY <1>0, <1>1, <2>1, <2>2, <2>4, <3>2, <3>3, Leave, Zenon
    <3> QED BY <1>1, <1>2, <3>4
  <2> QED BY <2>5, <2>6
<1>4. CASE proc[x].at \in Queued \cup Holding /\ LeaveWith(x, proc[x].p, label) /\ label # "evicting"
  <2> DEFINE p == proc[x].p
  <2>1. proc[x].at # "idle" /\ Holds(x, p)
    BY <1>4, QueuedIsPlain, Zenon DEF LeaveWith
  <2>2. p \in Publications
    BY <2>1, HasPublication, Zenon
  <2>3. CASE label = "discard"
    <3>1. CallNext(x, label) /\ label \in Queued /\ label # "idle"
      BY <1>4, <2>3 DEF LeaveWith, CallNext, Queued
    <3>2. QInv'
      BY <1>0, <1>4, <2>1, <2>2, <3>1, NextQueues, Zenon
    <3> QED BY <1>1, <1>2, <3>2
  <2>4. CASE label # "discard"
    <3>1. Release(x) /\ label \in Outside
      BY <1>4, <2>4 DEF LeaveWith, Release, Outside
    <3>2. Calm(proc'[x])
      BY <1>1, <3>1, OutsideCalm, Zenon
    <3>3. QInv'
      BY <1>0, <1>1, <1>4, <2>1, <2>2, <3>1, <3>2, ReleaseQueues, Zenon
    <3> QED BY <1>1, <1>2, <3>3
  <2> QED BY <2>3, <2>4
<1> QED BY <1>3, <1>4

\* What tombstones have done so far stays when an operation rejects.
LEMMA LeavesPurges ==
  ASSUME Whole, NEW x \in Procs, Alone(x), UNCHANGED <<db, disabled>>,
         proc'[x].at \notin Tombstoning
  PROVE  \A y \in Procs : PurgeGood(proc'[y], disabled', db')
<1>0. QInv /\ TInv /\ WInv
  BY DEF Whole, KInv
<1> SUFFICES ASSUME NEW y \in Procs PROVE PurgeGood(proc'[y], disabled', db')
  OBVIOUS
<1>1. CASE y = x
  <2>1. proc'[x].at \notin Purging /\ proc'[x].at # "purgeGenerations"
    BY DEF Purging, Tombstoning
  <2> QED BY <1>1, <2>1, Zenon DEF PurgeGood
<1>2. CASE y # x
  BY <1>0, <1>2, OthersPurge, Zenon
<1> QED BY <1>1, <1>2

\* a refused write,
LEMMA RefuseKeeps ==
  ASSUME Whole, NEW x \in Procs, Refuse(x)
  PROVE  QInv' /\ KInv'
<1> DEFINE label == AfterRefusal(x)
<1>0. Inv /\ TInv /\ AInv /\ UNCHANGED <<db, disabled>>
  BY Zenon DEF Whole, KInv, Refuse, stored
<1>1. budget'.faults # MaxFaults /\ (Firm' => Firm)
  <2>1. budget \in [events : Nat, kills : Nat, releases : Nat,
                   faults : 0 .. MaxFaults, rejections : 0 .. MaxRejections]
    BY <1>0 DEF TInv, WorkerTyped
  <2>2. budget' = [budget EXCEPT !.faults = @ - 1]
    BY Zenon DEF Refuse
  <2> QED BY <2>1, <2>2, BoundsAreNat DEF Firm
<1>2. /\ label \in {"idle", "discard", "failed", "persisted", "fallback", "evicting"}
      /\ label = "discard" => proc[x].at \in {"commit", "activate"}
      /\ \/ /\ proc[x].at \in Tombstoning /\ LeaveWith(x, proc[x].on, label)
            /\ label = AfterTombstone(x)
         \/ /\ proc[x].at \in Queued \cup Holding /\ LeaveWith(x, proc[x].p, label)
            /\ label # "evicting"
  <2>1. CASE proc[x].at = "tombstone"
    <3>1. /\ proc[x].at \in Tombstoning /\ label = AfterTombstone(x)
          /\ LeaveWith(x, proc[x].on, label)
      BY <2>1 DEF Refuse, AfterRefusal, At, Tombstoning
    <3>2. proc[x].back \in {"idle", "persisted", "refused", "evicting"}
      BY <1>0, <3>1, Zenon DEF Inv, ProcsGood, ProcGood
    <3> QED BY <3>1, <3>2 DEF AfterTombstone
  <2>2. CASE proc[x].at # "tombstone"
    <3>1. /\ proc[x].at \in {"observe", "commit", "activate", "refresh", "discard",
                             "restore", "putShell", "put"}
          /\ LeaveWith(x, proc[x].p, label)
      BY <2>2, Zenon DEF Refuse, At
    <3>2. proc[x].at \in Queued
      BY <3>1 DEF Queued
    <3>3. /\ label \in {"idle", "discard", "failed", "persisted", "fallback"}
          /\ label = "discard" => proc[x].at \in {"commit", "activate"}
      BY <3>1 DEF AfterRefusal
    <3> QED BY <3>1, <3>2, <3>3
  <2> QED BY <2>1, <2>2
<1> HIDE DEF label
<1>3. QInv' /\ Alone(x) /\ proc'[x].at = label /\ (label # "idle" => proc'[x].d = proc[x].d)
  BY <1>2, LeavesQueues, Zenon
<1>4. WInv'
  <2>1. proc'[x].at \notin Tombstoning
    BY <1>2, <1>3 DEF Tombstoning
  <2> QED BY <1>0, <1>1, <1>3, <2>1, LeavesPurges, Zenon DEF WInv
<1>5. ASSUME Firm, NEW q \in Publications
      PROVE  StoredGood(db'[q]) /\ FreshGood(proc'[q], db'[q])
  <2>1. StoredGood(db[q]) /\ FreshGood(proc[q], db[q]) /\ q \in Procs
    BY <1>0, <1>5, Zenon DEF AInv, Procs
  <2>2. Tame(db[q], db'[q])
    BY <1>0, Zenon DEF Tame
  <2>3. q = x => FreshGood(proc'[q], db'[q])
    <3>1. CASE label = "discard"
      <4>1. proc[x].at \in {"commit", "activate", "discard"} /\ proc'[x].d = proc[x].d
        BY <1>2, <1>3, <3>1
      <4> QED BY <1>0, <2>1, <4>1, Zenon DEF FreshGood
    <3>2. CASE label # "discard"
      <4>1. label \notin {"commit", "activate", "discard"}
        BY <1>2, <3>2
      <4> QED BY <1>3, <4>1, Zenon DEF FreshGood
    <3> QED BY <3>1, <3>2
  <2>4. proc'[q] = proc[q] \/ Calm(proc'[q]) \/ FreshGood(proc'[q], db'[q])
    BY <1>3, <2>1, <2>3, Zenon DEF Alone
  <2> QED BY <2>1, <2>2, <2>4, StillStored, Zenon
<1>6. AInv'
  BY <1>1, <1>5, Zenon DEF AInv
<1> QED BY <1>3, <1>4, <1>6 DEF KInv

\* an operation that rejects after its write,
LEMMA RejectKeeps ==
  ASSUME Whole, NEW x \in Procs, Reject(x)
  PROVE  QInv' /\ KInv'
<1> DEFINE label == AfterRejection(x)
<1>0. Inv /\ TInv /\ UNCHANGED <<db, disabled>>
  BY Zenon DEF Whole, Reject, stored
<1>1. ~ Firm'
  <2>1. budget \in [events : Nat, kills : Nat, releases : Nat,
                   faults : 0 .. MaxFaults, rejections : 0 .. MaxRejections]
    BY <1>0 DEF TInv, WorkerTyped
  <2>2. budget' = [budget EXCEPT !.rejections = @ - 1]
    BY Zenon DEF Reject
  <2> QED BY <2>1, <2>2, BoundsAreNat DEF Firm
<1>2. /\ label \in {"idle", "discard", "failed", "persisted", "fallback", "evicting"}
      /\ \/ /\ proc[x].at \in Tombstoning /\ LeaveWith(x, proc[x].on, label)
            /\ label = AfterTombstone(x)
         \/ /\ proc[x].at \in Queued \cup Holding /\ LeaveWith(x, proc[x].p, label)
            /\ label # "evicting"
  <2>1. CASE proc[x].at \in {"purgeCaches", "purgeGenerations"}
    <3>1. /\ proc[x].at \in Tombstoning /\ label = AfterTombstone(x)
          /\ LeaveWith(x, proc[x].on, label)
      BY <2>1 DEF Reject, AfterRejection, Tombstoning
    <3>2. proc[x].back \in {"idle", "persisted", "refused", "evicting"}
      BY <1>0, <3>1, Zenon DEF Inv, ProcsGood, ProcGood
    <3> QED BY <3>1, <3>2 DEF AfterTombstone
  <2>2. CASE proc[x].at \notin {"purgeCaches", "purgeGenerations"}
    <3>1. /\ proc[x].at \in {"pruneGenerations", "pruneCaches", "evict", "restoredCaches", "restored"}
          /\ LeaveWith(x, proc[x].p, label)
      BY <2>2, Zenon DEF Reject
    <3>2. proc[x].at \in Holding
      BY <3>1 DEF Holding
    <3>3. label \in {"discard", "failed"}
      BY <3>1 DEF AfterRejection
    <3> QED BY <3>1, <3>2, <3>3
  <2> QED BY <2>1, <2>2
<1> HIDE DEF label
<1>3. QInv' /\ Alone(x) /\ proc'[x].at = label
  BY <1>2, LeavesQueues, Zenon
<1>4. proc'[x].at \notin Tombstoning
  BY <1>2, <1>3 DEF Tombstoning
<1>5. WInv'
  BY <1>0, <1>1, <1>3, <1>4, LeavesPurges, Zenon DEF WInv
<1> QED BY <1>1, <1>3, <1>5 DEF KInv, AInv

\* the arrival of an event,
LEMMA MessageKeeps ==
  ASSUME Whole, Message
  PROVE  QInv' /\ KInv'
<1>0. PICK h \in Handlers, p \in Visited :
        \/ \E d \in DescriptorsOf[p] : ConfigureMessage(h, p, d)
        \/ RevalidateMessage(h, p)
        \/ DisableMessage(h, p)
        \/ \E content \in {"document", "shell", "asset"} : FetchEvent(h, p, content)
  BY DEF Message
<1>1. h \in Procs /\ p \in Publications /\ Inv /\ QInv
  BY VisitedAreOffered DEF Procs, Whole
<1>2. /\ proc[h].at = "idle" /\ UNCHANGED db
      /\ budget' = [budget EXCEPT !.events = @ - 1]
  BY <1>0, Zenon DEF ConfigureMessage, RevalidateMessage, DisableMessage, FetchEvent, Event, At, stored
<1>3. Calm(proc[h])
  BY <1>2, OutsideCalm DEF Outside
<1>4. Untroubled
  <2>1. budget \in [events : Nat, kills : Nat, releases : Nat,
                   faults : 0 .. MaxFaults, rejections : 0 .. MaxRejections]
    BY DEF Whole, TInv, WorkerTyped
  <2> QED BY <1>2, <2>1 DEF Untroubled
<1>5. UNCHANGED disabled => Gently(h)
  BY <1>2, <1>4, Zenon DEF Gently, Untroubled
<1>6. ASSUME NEW r, proc' = [proc EXCEPT ![h] = r], r.at \in Outside, UNCHANGED <<queue, disabled>>
      PROVE  QInv' /\ KInv'
  <2>1. Alone(h) /\ proc'[h] = r
    BY <1>1, <1>6, MoveAlone, Zenon
  <2> QED BY <1>1, <1>3, <1>5, <1>6, <2>1, OutsideCalm, CalmStep, Zenon
<1>7. CASE \E d \in DescriptorsOf[p] : ConfigureMessage(h, p, d)
  <2>1. PICK d \in DescriptorsOf[p] : ConfigureMessage(h, p, d)
    BY <1>7
  <2> DEFINE r == [Idle EXCEPT !.at = "admit", !.p = p, !.d = d]
  <2>2. proc' = [proc EXCEPT ![h] = r] /\ UNCHANGED <<queue, disabled>>
    BY <2>1 DEF ConfigureMessage
  <2>3. r.at \in Outside
    BY DEF Idle, Outside
  <2> HIDE DEF r
  <2> QED BY <1>6, <2>2, <2>3, Zenon
<1>8. CASE RevalidateMessage(h, p)
  <2>1. RevalidateDescriptor(h, p, descriptors[p], "join") /\ UNCHANGED <<queue, disabled>>
    BY <1>8 DEF RevalidateMessage
  <2>2. Alone(h) /\ proc'[h].at = "join"
    BY <1>1, <2>1, RevalidateAlone, Zenon
  <2>3. Calm(proc'[h])
    BY <2>2, OutsideCalm DEF Outside
  <2> QED BY <1>1, <1>3, <1>5, <2>1, <2>2, <2>3, CalmStep, Zenon
<1>9. CASE DisableMessage(h, p)
  <2> DEFINE r == [Idle EXCEPT !.at = "tombstone", !.p = p, !.on = p, !.back = "idle"]
  <2>1. /\ proc' = [proc EXCEPT ![h] = r] /\ disabled' = disabled \cup {p}
        /\ queue' = [queue EXCEPT ![p] = Append(@, h)]
    BY <1>9 DEF DisableMessage
  <2>2. r.at = "tombstone" /\ r.on = p /\ r.back = "idle"
    BY DEF Idle
  <2> HIDE DEF r
  <2>3. Alone(h) /\ proc'[h] = r
    BY <1>1, <2>1, MoveAlone, Zenon
  <2>4. r.at \in Tombstoning /\ r.back # "evicting" /\ r.at \notin Purging
    BY <2>2 DEF Tombstoning, Purging
  <2>5. \A z \in Publications : z # p => Like(proc[h], proc'[h], z)
    BY <1>3, <2>2, <2>3, <2>4, CalmEngages, WhereEngages, Zenon DEF Like
  <2>6. ~ Engages(proc[h], p) /\ Engages(proc'[h], p) /\ ~ Inside(proc'[h], p)
    BY <1>3, <2>2, <2>3, <2>4, CalmEngages, WhereEngages, Zenon
  <2>7. QInv'
    BY <1>1, <2>1, <2>3, <2>5, <2>6, Enter, Zenon
  <2>8. Withdraws(proc'[h], p) /\ proc'[h].at = "tombstone"
    BY <2>2, <2>3, <2>4, Zenon DEF Withdraws
  <2>9. KInv'
    BY <1>1, <1>2, <1>3, <1>4, <2>1, <2>3, <2>8, WithdrawWins, Zenon
  <2> QED BY <2>7, <2>9
<1>10. CASE \E content \in {"document", "shell", "asset"} : FetchEvent(h, p, content)
  <2>1. PICK content \in {"document", "shell", "asset"} : FetchEvent(h, p, content)
    BY <1>10
  <2> DEFINE d == IF descriptors[p] = None THEN Restored(p) ELSE descriptors[p]
             label == IF p \in disabled THEN "direct" ELSE "network"
             r == [Idle EXCEPT !.at = label, !.p = p, !.d = d, !.content = content]
  <2>2. proc' = [proc EXCEPT ![h] = r] /\ UNCHANGED <<queue, disabled>>
    BY <2>1 DEF FetchEvent
  <2>3. label \in Outside
    BY DEF Outside
  <2> HIDE DEF d, label
  <2>4. r.at = label
    BY Zenon DEF Idle
  <2> HIDE DEF r
  <2> QED BY <1>6, <2>2, <2>3, <2>4, Zenon
<1> QED BY <1>0, <1>7, <1>8, <1>9, <1>10, SMTT(30)

\* the end of a revalidation,
LEMMA SettleKeeps ==
  ASSUME Whole, NEW p \in Publications, Settle(p)
  PROVE  QInv' /\ KInv'
<1>0. p \in Procs /\ Inv /\ UNCHANGED <<db, queue, disabled, budget>>
  BY Zenon DEF Procs, Whole, Settle, stored
<1>1. Alone(p) /\ proc'[p].at = "idle"
  BY <1>0, SettleAlone, Zenon
<1>2. proc[p].at \in Outside /\ proc'[p].at \in Outside
  BY <1>1 DEF Settle, Ends, Outside
<1>3. Gently(p)
  BY <1>0, Zenon DEF Gently, Untroubled
<1> QED BY <1>0, <1>1, <1>2, <1>3, OutsideCalm, CalmStep, Zenon

\* A worker that has just started.
Started ==
  /\ proc = AllIdle /\ queue = NoQueues /\ disabled = {}
  /\ \A q \in Publications : Firm => StoredGood(db[q])

\* Nobody is at work, and the queues are empty.
LEMMA StartedKeeps == Started => QInv /\ KInv
<1> SUFFICES ASSUME Started PROVE QInv /\ KInv
  OBVIOUS
<1> USE DEF Started
<1>1. \A x \in Procs : proc[x].at = "idle"
  BY DEF AllIdle, Idle
<1>2. ASSUME NEW x \in Procs
      PROVE  /\ proc[x].at \in Outside /\ proc[x].at \notin Purging /\ proc[x].at \notin Tombstoning
             /\ proc[x].at # "purgeGenerations" /\ proc[x].at \notin {"commit", "activate", "discard"}
  BY <1>1 DEF Outside, Purging, Tombstoning
<1>3. ASSUME NEW q \in Publications PROVE QueueGood(queue[q], q, proc)
  <2>1. queue[q] = <<>>
    BY DEF NoQueues
  <2>2. \A x \in Procs : ~ Engages(proc[x], q) /\ ~ Inside(proc[x], q)
    BY <1>2, OutsideCalm, CalmEngages, Zenon
  <2>3. <<>> \in Seq(Procs) /\ Distinct(<<>>) /\ \A x : ~ Among(<<>>, x)
    BY DEF Distinct, Among
  <2> QED BY <2>1, <2>2, <2>3, Zenon DEF QueueGood
<1>4. QInv
  BY <1>3 DEF QInv, NoQueues
<1>5. WInv
  BY <1>2, Zenon DEF WInv, PurgeGood
<1>6. AInv
  BY <1>2 DEF AInv, FreshGood, Procs
<1> QED BY <1>4, <1>5, <1>6 DEF KInv

\* They hold of what an earlier worker has stored.
LEMMA InitKeeps == Init => QInv /\ KInv
<1> SUFFICES ASSUME Init PROVE QInv /\ KInv
  OBVIOUS
<1>1. StoredGood(EmptyMetadata)
  BY DEF StoredGood, EmptyMetadata
<1>2. ASSUME NEW d PROVE StoredGood(StoredAs(d))
  BY DEF StoredGood, StoredAs, EmptyMetadata
<1>3. \A q \in Publications : StoredGood(db[q])
  BY <1>1, <1>2, Zenon DEF Init
<1> QED BY <1>3, StartedKeeps, Zenon DEF Init, Started

\* Every step keeps them.
LEMMA StepsKeep == Whole /\ [Next]_vars => QInv' /\ KInv'
<1> SUFFICES ASSUME Whole, [Next]_vars PROVE QInv' /\ KInv'
  OBVIOUS
<1>1. CASE Message
  BY <1>1, MessageKeeps
<1>2. CASE \E h \in Handlers : HandlerStep(h)
  BY <1>2, ConfigureKeeps, ShellKeeps, FetchKeeps, TombstonesKeep DEF HandlerStep, Procs
<1>3. CASE \E p \in Publications : RevalidationStep(p)
  BY <1>3, RevalidationKeeps, CandidateKeeps, ActivationKeeps, SettleKeeps, TombstonesKeep
     DEF RevalidationStep, Procs
<1>4. CASE \E x \in Procs : Refuse(x) \/ Reject(x)
  BY <1>4, RefuseKeeps, RejectKeeps
<1>5. CASE ServerChange \/ UNCHANGED vars
  <2>1. UNCHANGED <<db, disabled, proc, queue>>
    BY <1>5, Zenon DEF ServerChange, Withdraw, Publish, stored, volatile, vars
  <2>2. Untroubled
    <3>1. budget \in [events : Nat, kills : Nat, releases : Nat,
                     faults : 0 .. MaxFaults, rejections : 0 .. MaxRejections]
      BY DEF Whole, TInv, WorkerTyped
    <3>2. budget' = budget \/ budget' = [budget EXCEPT !.releases = @ - 1]
      BY <1>5, Zenon DEF ServerChange, Withdraw, Publish, vars
    <3> QED BY <3>1, <3>2 DEF Untroubled
  <2>3. QInv'
    BY <2>1 DEF Whole, QInv
  <2>4. WInv'
    BY <2>1, <2>2, Zenon DEF Whole, KInv, WInv, Won, Firm, Untroubled
  <2>5. AInv'
    BY <2>1, <2>2, Zenon DEF Whole, KInv, AInv, Firm, Untroubled
  <2> QED BY <2>3, <2>4, <2>5 DEF KInv
<1>6. CASE Kill
  <2>1. UNCHANGED db /\ proc' = AllIdle /\ queue' = NoQueues /\ disabled' = {}
    BY <1>6, Zenon DEF Kill, stored
  <2>2. Firm' => Firm
    <3>1. budget \in [events : Nat, kills : Nat, releases : Nat,
                     faults : 0 .. MaxFaults, rejections : 0 .. MaxRejections]
      BY DEF Whole, TInv, WorkerTyped
    <3>2. budget' = [budget EXCEPT !.kills = @ - 1]
      BY <1>6, Zenon DEF Kill
    <3> QED BY <3>1, <3>2 DEF Firm
  <2>3. \A q \in Publications : Firm' => StoredGood(db'[q])
    BY <2>1, <2>2, Zenon DEF Whole, KInv, AInv
  <2>4. Started'
    BY <2>1, <2>3, Zenon DEF Started, AllIdle, NoQueues
  <2> QED BY <2>4, StartedKeeps, PTL
<1> QED BY <1>1, <1>2, <1>3, <1>4, <1>5, <1>6 DEF Next

==============================================================================
