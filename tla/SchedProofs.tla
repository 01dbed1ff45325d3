---------------------------- MODULE SchedProofs ----------------------------
(***************************************************************************)
(* Proofs about Sched: the run queue is exact, no timer is lost or         *)
(* outlives the function it is a variable of, and the list of differences  *)
(* keeps the time of every timer as TimerService promises.                 *)
(***************************************************************************)
EXTENDS Sched, ListLemmas, FiniteSetTheorems

-----------------------------------------------------------------------------
(* Sums along timer_list *)

\* What add_timer adds to a sum at each timer.
Sums(l, e) == [x \in Int \X (1 .. Len(l)) |-> x[1] + e[l[x[2]]]]

\* The sums that add_timer and run_timer_list go by exist: each is the one before it and
\* one field more.
LEMMA DueSteps ==
  ASSUME NEW l \in Seq(Pid), NEW e \in [Pid -> Int]
  PROVE  /\ DueIn(l, e, 0) = 0
         /\ \A i \in 1 .. Len(l) : DueIn(l, e, i) = DueIn(l, e, i-1) + e[l[i]]
         /\ \A i \in 0 .. Len(l) : DueIn(l, e, i) \in Int
<1>1. Sums(l, e) \in [Int \X (1 .. Len(l)) -> Int]
  <2>1. \A i \in 1 .. Len(l) : e[l[i]] \in Int
    OBVIOUS
  <2> QED BY <2>1 DEF Sums
<1>2. Len(l) \in Nat /\ 0 \in Int
  OBVIOUS
<1>3. PICK f : Builds(f, Len(l), Int, 0, Sums(l, e))
  BY <1>1, <1>2, BuildsExists
<1>4. f \in [0 .. Len(l) -> Int] /\ f[0] = 0
  BY <1>3 DEF Builds
<1>5. ASSUME NEW i \in 1 .. Len(l) PROVE f[i] = f[i-1] + e[l[i]]
  <2>1. f[i] = Sums(l, e)[<<f[i-1], i>>]
    BY <1>3 DEF Builds
  <2>2. f[i-1] \in Int
    <3>1. i - 1 \in 0 .. Len(l)
      BY <1>2
    <3> QED BY ONLY <1>4, <3>1
  <2> QED BY <2>1, <2>2 DEF Sums
<1>6. ASSUME NEW i \in 0 .. Len(l) PROVE DueIn(l, e, i) = f[i]
  <2> DEFINE Def(h) == h = [k \in 0 .. i |-> IF k = 0 THEN 0 ELSE h[k-1] + e[l[k]]]
             g == CHOOSE h : Def(h)
  <2>1. DueIn(l, e, i) = g[i]
    BY DEF DueIn
  <2>2. Def([k \in 0 .. i |-> f[k]])
    <3>1. \A k \in 0 .. i : f[k] = IF k = 0 THEN 0 ELSE [j \in 0 .. i |-> f[j]][k-1] + e[l[k]]
      BY <1>4, <1>5
    <3> QED BY <3>1
  <2>3. Def(g)
    <3> HIDE DEF Def
    <3> QED BY <2>2
  <2>4. g[0] = 0 /\ \A k \in 1 .. i : g[k] = g[k-1] + e[l[k]]
    <3> HIDE DEF g
    <3>1. g = [k \in 0 .. i |-> IF k = 0 THEN 0 ELSE g[k-1] + e[l[k]]]
      BY <2>3
    <3>2. 0 \in 0 .. i /\ \A k \in 1 .. i : k \in 0 .. i /\ k # 0
      OBVIOUS
    <3> QED BY <3>1, <3>2
  <2> HIDE DEF g
  <2> DEFINE T == {k \in 0 .. i : g[k] = f[k]}
  <2>5. \A k \in 0 .. i : k \in T
    <3>1. 0 \in T /\ \A k \in 1 .. i : k - 1 \in T => k \in T
      BY <1>4, <1>5, <2>4
    <3>2. i \in Nat
      OBVIOUS
    <3> HIDE DEF T
    <3> QED BY <3>1, <3>2, PlaceInduction
  <2> QED BY <2>1, <2>5
<1>7. DueIn(l, e, 0) = 0
  <2>1. 0 \in 0 .. Len(l)
    BY <1>2
  <2> QED BY <2>1, <1>4, <1>6
<1>8. ASSUME NEW i \in 1 .. Len(l) PROVE DueIn(l, e, i) = DueIn(l, e, i-1) + e[l[i]]
  <2>1. i \in 0 .. Len(l) /\ i - 1 \in 0 .. Len(l)
    OBVIOUS
  <2> QED BY <2>1, <1>5, <1>6
<1>9. ASSUME NEW i \in 0 .. Len(l) PROVE DueIn(l, e, i) \in Int
  BY <1>4, <1>6
<1> QED BY <1>7, <1>8, <1>9

\* And they are the only such sums.
LEMMA DueOnly ==
  ASSUME NEW l \in Seq(Pid), NEW e \in [Pid -> Int], NEW g,
         g[0] = 0, \A i \in 1 .. Len(l) : g[i] = g[i-1] + e[l[i]]
  PROVE  \A i \in 0 .. Len(l) : DueIn(l, e, i) = g[i]
<1> DEFINE T == {i \in 0 .. Len(l) : DueIn(l, e, i) = g[i]}
<1>1. 0 \in T /\ \A i \in 1 .. Len(l) : i - 1 \in T => i \in T
  <2>1. 0 \in 0 .. Len(l) /\ \A i \in 1 .. Len(l) : i \in 0 .. Len(l) /\ i - 1 \in 0 .. Len(l)
    OBVIOUS
  <2> QED BY <2>1, DueSteps
<1>2. Len(l) \in Nat
  OBVIOUS
<1>3. \A i \in 0 .. Len(l) : i \in T
  <2> HIDE DEF T
  <2> QED BY <1>1, <1>2, PlaceInduction
<1> QED BY <1>3

\* No timer is due before one ahead of it.
LEMMA DueInOrder ==
  ASSUME NEW l \in Seq(Pid), NEW e \in [Pid -> Nat]
  PROVE  \A j, k \in 0 .. Len(l) : j <= k => DueIn(l, e, j) <= DueIn(l, e, k)
<1> DEFINE T == {k \in 0 .. Len(l) : \A j \in 0 .. k : DueIn(l, e, j) <= DueIn(l, e, k)}
<1>1. e \in [Pid -> Int]
  OBVIOUS
<1>2. 0 \in T
  <2>1. 0 \in 0 .. Len(l) /\ DueIn(l, e, 0) = 0 /\ \A j \in 0 .. 0 : j = 0
    BY <1>1, DueSteps
  <2> QED BY <2>1
<1>3. ASSUME NEW k \in 1 .. Len(l), k - 1 \in T PROVE k \in T
  <2>1. k \in 0 .. Len(l) /\ k - 1 \in 0 .. Len(l)
    OBVIOUS
  <2>2. /\ DueIn(l, e, k) = DueIn(l, e, k-1) + e[l[k]] /\ e[l[k]] \in Nat
        /\ DueIn(l, e, k-1) \in Int /\ DueIn(l, e, k) \in Int
    BY <1>1, <2>1, DueSteps
  <2>3. ASSUME NEW j \in 0 .. k PROVE DueIn(l, e, j) <= DueIn(l, e, k)
    <3>1. CASE j = k
      BY <3>1, <2>2
    <3>2. CASE j # k
      <4>1. j \in 0 .. k - 1 /\ j \in 0 .. Len(l)
        BY <3>2
      <4>2. DueIn(l, e, j) <= DueIn(l, e, k-1) /\ DueIn(l, e, j) \in Int
        BY <4>1, <1>1, <1>3, DueSteps
      <4> QED BY <4>2, <2>2
    <3> QED BY <3>1, <3>2
  <2> QED BY <2>1, <2>3
<1>4. \A k \in 0 .. Len(l) : k \in T
  <2>1. Len(l) \in Nat
    OBVIOUS
  <2> HIDE DEF T
  <2> QED BY <2>1, <1>2, <1>3, PlaceInduction
<1>5. ASSUME NEW j \in 0 .. Len(l), NEW k \in 0 .. Len(l), j <= k
      PROVE  DueIn(l, e, j) <= DueIn(l, e, k)
  <2>1. k \in T /\ j \in 0 .. k
    BY <1>4, <1>5
  <2> QED BY <2>1
<1> QED BY <1>5

\* Places that are all ahead of the others are the first ones, as many as they are.
LEMMA Prefix ==
  ASSUME NEW n \in Nat, NEW P \in SUBSET (1 .. n),
         \A j, k \in 1 .. n : j <= k /\ k \in P => j \in P
  PROVE  Cardinality(P) \in 0 .. n /\ P = 1 .. Cardinality(P)
<1>1. \E k \in 0 .. n : P = 1 .. k
  <2>1. CASE P = 1 .. n
    BY <2>1
  <2>2. CASE P # 1 .. n
    <3> DEFINE T == P \cup {0}
    <3>1. \E i \in 1 .. n : i - 1 \in T /\ i \notin T
      <4>1. SUFFICES ASSUME \A i \in 1 .. n : i - 1 \in T => i \in T PROVE FALSE
        OBVIOUS
      <4>2. 0 \in T
        OBVIOUS
      <4>3. \A i \in 0 .. n : i \in T
        <5> HIDE DEF T
        <5> QED BY <4>1, <4>2, PlaceInduction
      <4>4. \A i \in 1 .. n : i \in P
        BY <4>3
      <4> HIDE DEF T
      <4> QED BY <4>4, <2>2
    <3>2. PICK i \in 1 .. n : i - 1 \in T /\ i \notin T
      BY <3>1
    <3>3. ASSUME NEW j \in 1 .. i - 1 PROVE j \in P
      <4>1. i - 1 \in P /\ i - 1 \in 1 .. n /\ j \in 1 .. n /\ j <= i - 1
        BY <3>2
      <4> QED BY <4>1
    <3>4. ASSUME NEW j \in P PROVE j \in 1 .. i - 1
      <4>1. j \in 1 .. n /\ i \notin P
        BY <3>2
      <4>2. ~ (i <= j)
        BY <4>1
      <4> QED BY <4>1, <4>2
    <3>5. i - 1 \in 0 .. n /\ P = 1 .. i - 1
      <4>1. P = 1 .. i - 1
        <5> HIDE DEF T
        <5> QED BY <3>3, <3>4
      <4> QED BY <4>1
    <3> QED BY <3>5
  <2> QED BY <2>1, <2>2
<1>2. PICK k \in 0 .. n : P = 1 .. k
  BY <1>1
<1>3. Cardinality(1 .. k) = k
  <2>1. Cardinality(1 .. k) = IF 1 > k THEN 0 ELSE k - 1 + 1
    BY FS_Interval
  <2> QED BY <2>1
<1> QED BY <1>2, <1>3

\* How many timers of a list are due in m ticks or less.
DueBy(l, e, m) == Cardinality({i \in 1 .. Len(l) : DueIn(l, e, i) <= m})

\* What a new timer goes behind, and what a tick runs off, is the head of the list.
LEMMA DueFirst ==
  ASSUME NEW l \in Seq(Pid), NEW e \in [Pid -> Nat], NEW m \in Int
  PROVE  /\ DueBy(l, e, m) \in 0 .. Len(l)
         /\ \A i \in 1 .. Len(l) : i <= DueBy(l, e, m) <=> DueIn(l, e, i) <= m
<1> DEFINE P == {i \in 1 .. Len(l) : DueIn(l, e, i) <= m}
<1>1. Len(l) \in Nat /\ e \in [Pid -> Int] /\ \A i \in 1 .. Len(l) : i \in 0 .. Len(l)
  OBVIOUS
<1>2. ASSUME NEW i \in 1 .. Len(l), NEW j \in 1 .. Len(l), i <= j, j \in P
      PROVE  i \in P
  <2>1. /\ DueIn(l, e, i) <= DueIn(l, e, j) /\ DueIn(l, e, j) <= m
        /\ DueIn(l, e, i) \in Int /\ DueIn(l, e, j) \in Int
    BY <1>1, <1>2, DueInOrder, DueSteps
  <2> QED BY <2>1
<1>3. P \in SUBSET (1 .. Len(l))
  OBVIOUS
<1>4. Cardinality(P) \in 0 .. Len(l) /\ P = 1 .. Cardinality(P)
  <2> HIDE DEF P
  <2> QED BY <1>1, <1>2, <1>3, Prefix
<1>5. DueBy(l, e, m) = Cardinality(P)
  BY DEF DueBy
<1>6. ASSUME NEW i \in 1 .. Len(l) PROVE i <= DueBy(l, e, m) <=> DueIn(l, e, i) <= m
  <2>1. i \in P <=> DueIn(l, e, i) <= m
    OBVIOUS
  <2> HIDE DEF P
  <2>2. i \in P <=> i <= DueBy(l, e, m)
    BY <1>4, <1>5
  <2> QED BY <2>1, <2>2
<1> QED
  <2> HIDE DEF P
  <2> QED BY <1>4, <1>5, <1>6
-----------------------------------------------------------------------------
(* What the three operations on timer_list do to the sums *)

\* A list of timers in which each has time left, no more than the longest sleep.
Pending(l, e) ==
  /\ l \in Seq(Pid) /\ IsInjective(l)
  /\ e \in [Pid -> 0 .. MaxExpires]
  /\ \A i \in 1 .. Len(l) : DueIn(l, e, i) \in 1 .. MaxExpires

\* add_timer: the timer is due when it was asked to, and the others when they were.
LEMMA AddTimerDue ==
  ASSUME Pending(timer_list, expires),
         NEW p \in Pid \ Range(timer_list), NEW m \in 1 .. MaxExpires, AddTimer(p, m)
  PROVE  /\ Pending(timer_list', expires')
         /\ Range(timer_list') = Range(timer_list) \cup {p}
         /\ \E i \in 1 .. Len(timer_list') :
              timer_list'[i] = p /\ DueIn(timer_list', expires', i) = m
         /\ \A i \in 1 .. Len(timer_list) : \E j \in 1 .. Len(timer_list') :
              /\ timer_list'[j] = timer_list[i]
              /\ DueIn(timer_list', expires', j) = DueIn(timer_list, expires, i)
<1> DEFINE l == timer_list
           e == expires
           t == timer_list'
           f == expires'
           G(i) == DueIn(l, e, i)
           b == Before(m)
           d == m - G(b)
<1>1. /\ l \in Seq(Pid) /\ IsInjective(l) /\ e \in [Pid -> 0 .. MaxExpires]
      /\ \A i \in 1 .. Len(l) : G(i) \in 1 .. MaxExpires
      /\ Len(l) \in Nat /\ DOMAIN l = 1 .. Len(l)
      /\ e \in [Pid -> Nat] /\ e \in [Pid -> Int] /\ m \in Int
      /\ MaxExpires \in Nat
  BY SchedAssumption DEF Pending
<1>2. /\ G(0) = 0
      /\ \A i \in 1 .. Len(l) : G(i) = G(i-1) + e[l[i]]
      /\ \A i \in 0 .. Len(l) : G(i) \in Int
  BY <1>1, DueSteps
<1>3. /\ b \in 0 .. Len(l)
      /\ \A i \in 1 .. Len(l) : i <= b <=> G(i) <= m
  <2>1. b = DueBy(l, e, m)
    BY DEF Before, Due, DueBy
  <2> HIDE DEF b, l, e
  <2> QED BY <2>1, <1>1, DueFirst
<1>4. /\ t = InsertAt(l, b + 1, p)
      /\ f = [NextExpires(e, b + 1, d) EXCEPT ![p] = d]
  BY DEF AddTimer, Due
<1>5. d \in 0 .. MaxExpires
  <2>1. CASE b = 0
    BY <2>1, <1>1, <1>2
  <2>2. CASE b # 0
    <3>1. b \in 1 .. Len(l)
      BY <2>2, <1>3
    <3>2. G(b) \in 1 .. MaxExpires /\ G(b) <= m
      BY <3>1, <1>1, <1>3
    <3> HIDE DEF G, b
    <3> QED BY <3>2, <1>1
  <2> QED BY <2>1, <2>2
<1> HIDE DEF b
<1>6. /\ t \in Seq(Pid) /\ Len(t) = Len(l) + 1
      /\ \A j \in 1 .. Len(t) :
           t[j] = IF j <= b THEN l[j] ELSE IF j = b + 1 THEN p ELSE l[j-1]
      /\ IsInjective(t) /\ Range(t) = Range(l) \cup {p}
  <2>1. p \in Pid /\ p \notin Range(l) /\ t = InsertAt(l, b + 1, p)
    BY <1>4
  <2>2. l \in Seq(Pid) /\ IsInjective(l) /\ b \in 0 .. Len(l)
    BY <1>1, <1>3
  <2> HIDE DEF l, e, t, f, d, G
  <2> QED BY <2>1, <2>2, InsertOne
<1>7. b < Len(l) => /\ b + 1 \in 1 .. Len(l) /\ l[b+1] \in Pid /\ l[b+1] # p
                    /\ G(b+1) > m /\ G(b+1) = G(b) + e[l[b+1]] /\ e[l[b+1]] \in 0 .. MaxExpires
  <2>1. ASSUME b < Len(l) PROVE b + 1 \in 1 .. Len(l)
    BY <2>1, <1>1, <1>3
  <2>2. ASSUME b < Len(l)
        PROVE  l[b+1] \in Pid /\ l[b+1] # p /\ e[l[b+1]] \in 0 .. MaxExpires
    BY <2>1, <2>2, <1>1 DEF Range
  <2>3. ASSUME b < Len(l) PROVE G(b+1) > m /\ G(b+1) = G(b) + e[l[b+1]]
    <3>1. ~ (b + 1 <= b) /\ (b + 1) - 1 = b /\ G(b+1) \in Int
      BY <2>1, <2>3, <1>1, <1>2, <1>3
    <3>2. ~ (G(b+1) <= m)
      BY <3>1, <2>1, <2>3, <1>3
    <3>3. G(b+1) = G(b) + e[l[b+1]]
      BY <3>1, <2>1, <2>3, <1>2
    <3> HIDE DEF G
    <3> QED BY <3>1, <3>2, <3>3, <1>1
  <2> QED BY <2>1, <2>2, <2>3
<1>8. /\ f \in [Pid -> 0 .. MaxExpires] /\ f[p] = d
      /\ \A q \in Pid : q # p /\ (b < Len(l) => q # l[b+1]) => f[q] = e[q]
      /\ b < Len(l) => f[l[b+1]] = e[l[b+1]] - d
  <2> HIDE DEF f
  <2>1. CASE ~ (b < Len(l))
    <3>1. f = [e EXCEPT ![p] = d]
      <4>1. b + 1 > Len(l)
        BY <2>1, <1>1, <1>3
      <4> QED BY <4>1, <1>4 DEF NextExpires
    <3> HIDE DEF d, e
    <3> QED BY <3>1, <2>1, <1>1, <1>5
  <2>2. CASE b < Len(l)
    <3> DEFINE r == l[b+1]
               v == e[r] - d
    <3>1. f = [[e EXCEPT ![r] = v] EXCEPT ![p] = d]
      <4>1. ~ (b + 1 > Len(l))
        BY <2>2, <1>1, <1>3
      <4> QED BY <4>1, <1>4 DEF NextExpires
    <3>2. v \in 0 .. MaxExpires
      <4>1. G(b) \in Int
        BY <1>2, <1>3
      <4> HIDE DEF G, e, l
      <4> QED BY <4>1, <2>2, <1>1, <1>5, <1>7
    <3>3. r \in Pid /\ r # p
      BY <2>2, <1>7
    <3>4. v = e[l[b+1]] - d
      OBVIOUS
    <3>5. f[p] = d /\ f[r] = v /\ \A q \in Pid : q # p /\ q # r => f[q] = e[q]
      <4> HIDE DEF r, v, d, e
      <4> QED BY <3>1, <3>3, <1>1
    <3>6. f \in [Pid -> 0 .. MaxExpires]
      <4> HIDE DEF r, v, d, e
      <4> QED BY <3>1, <3>2, <3>3, <1>1, <1>5
    <3> QED BY <2>2, <3>4, <3>5, <3>6
  <2> QED BY <2>1, <2>2
<1> DEFINE g == [j \in 0 .. Len(t) |-> IF j <= b THEN G(j) ELSE IF j = b + 1 THEN m
                                       ELSE G(j-1)]
<1>9. g[0] = 0 /\ \A j \in 1 .. Len(t) : g[j] = g[j-1] + f[t[j]]
  <2>1. g[0] = 0
    <3>1. 0 \in 0 .. Len(t) /\ 0 <= b
      BY <1>1, <1>3, <1>6
    <3> QED BY <3>1, <1>2
  <2>2. ASSUME NEW j \in 1 .. Len(t) PROVE g[j] = g[j-1] + f[t[j]]
    <3>1. /\ j \in 0 .. Len(t) /\ j - 1 \in 0 .. Len(t) /\ j \in Int /\ b \in Int
          /\ 1 <= j /\ j <= Len(l) + 1 /\ 0 <= b /\ b <= Len(l)
      BY <1>1, <1>3, <1>6
    <3>2. CASE j <= b
      <4>1. j \in 1 .. Len(l) /\ j - 1 <= b /\ t[j] = l[j]
        BY <3>1, <3>2, <1>1, <1>6
      <4>2. l[j] # p /\ l[j] \in Pid
        BY <4>1, <1>1 DEF Range
      <4>3. b < Len(l) => l[j] # l[b+1]
        <5>1. j # b + 1
          BY <3>1, <3>2
        <5> QED BY <5>1, <4>1, <1>1, <1>7 DEF IsInjective
      <4>4. f[t[j]] = e[l[j]]
        BY <4>1, <4>2, <4>3, <1>8
      <4>5. g[j] = G(j) /\ g[j-1] = G(j-1)
        BY <3>1, <3>2, <4>1
      <4> QED BY <4>1, <4>4, <4>5, <1>2
    <3>3. CASE j = b + 1
      <4>1. /\ ~ (j <= b) /\ j - 1 <= b /\ j - 1 = b /\ t[j] = p
        BY <3>1, <3>3, <1>6
      <4>2. g[j] = m /\ g[j-1] = G(b)
        BY <3>1, <3>3, <4>1
      <4>3. G(b) \in Int
        BY <1>2, <1>3
      <4>4. f[t[j]] = m - G(b)
        BY <4>1, <1>8
      <4> HIDE DEF G, g, f, t
      <4> QED BY <4>2, <4>3, <4>4, <1>1
    <3>4. CASE j = b + 2
      <4>1. /\ ~ (j <= b) /\ j # b + 1 /\ ~ (j - 1 <= b) /\ j - 1 = b + 1 /\ b < Len(l)
        BY <3>1, <3>4
      <4>2. t[j] = l[b+1] /\ g[j] = G(b+1) /\ g[j-1] = m
        BY <3>1, <4>1, <1>6
      <4>3. f[t[j]] = e[l[b+1]] - (m - G(b)) /\ G(b+1) = G(b) + e[l[b+1]]
        BY <4>1, <4>2, <1>7, <1>8
      <4>4. G(b) \in Int /\ e[l[b+1]] \in Int
        BY <4>1, <1>2, <1>3, <1>7
      <4> HIDE DEF G, g, f, t
      <4> QED BY <4>2, <4>3, <4>4, <1>1
    <3>5. CASE j > b + 2
      <4>1. /\ ~ (j <= b) /\ j # b + 1 /\ ~ (j - 1 <= b) /\ j - 1 # b + 1
            /\ j - 1 \in 1 .. Len(l) /\ b < Len(l)
        BY <3>1, <3>5
      <4>2. t[j] = l[j-1] /\ g[j] = G(j-1) /\ g[j-1] = G((j-1)-1)
        BY <3>1, <4>1, <1>6
      <4>3. l[j-1] # p /\ l[j-1] \in Pid /\ l[j-1] # l[b+1]
        <5>1. l[j-1] # p /\ l[j-1] \in Pid
          BY <4>1, <1>1 DEF Range
        <5>2. l[j-1] # l[b+1]
          BY <4>1, <1>1, <1>7 DEF IsInjective
        <5> QED BY <5>1, <5>2
      <4>4. f[t[j]] = e[l[j-1]]
        BY <4>1, <4>2, <4>3, <1>8
      <4> QED BY <4>1, <4>2, <4>4, <1>2
    <3> QED BY <3>1, <3>2, <3>3, <3>4, <3>5
  <2> QED BY <2>1, <2>2
<1>10. \A j \in 0 .. Len(t) : DueIn(t, f, j) = g[j]
  <2>1. f \in [Pid -> Int]
    BY <1>8
  <2>2. t \in Seq(Pid)
    BY <1>6
  <2> HIDE DEF t, f, g
  <2> QED BY ONLY <2>1, <2>2, <1>9, DueOnly
<1>11. ASSUME NEW j \in 1 .. Len(t) PROVE DueIn(t, f, j) \in 1 .. MaxExpires
  <2>1. /\ j \in 0 .. Len(t) /\ j <= b => j \in 1 .. Len(l)
        /\ ~ (j <= b) /\ j # b + 1 => j - 1 \in 1 .. Len(l)
    BY <1>1, <1>3, <1>6
  <2>2. DueIn(t, f, j) = IF j <= b THEN G(j) ELSE IF j = b + 1 THEN m ELSE G(j-1)
    BY <2>1, <1>10
  <2> QED BY <2>1, <2>2, <1>1
<1>12. Pending(t, f)
  BY <1>6, <1>8, <1>11 DEF Pending
<1>13. \E i \in 1 .. Len(t) : t[i] = p /\ DueIn(t, f, i) = m
  <2>1. b + 1 \in 1 .. Len(t) /\ b + 1 \in 0 .. Len(t) /\ ~ (b + 1 <= b)
    BY <1>1, <1>3, <1>6
  <2>2. t[b+1] = p /\ g[b+1] = m
    BY <2>1, <1>6
  <2> HIDE DEF t, f, g
  <2> QED BY <2>1, <2>2, <1>10
<1>14. ASSUME NEW i \in 1 .. Len(l)
       PROVE  \E j \in 1 .. Len(t) : t[j] = l[i] /\ DueIn(t, f, j) = G(i)
  <2>1. CASE i <= b
    <3>1. i \in 1 .. Len(t) /\ i \in 0 .. Len(t)
      BY <1>1, <1>6
    <3>2. t[i] = l[i] /\ g[i] = G(i)
      BY <2>1, <3>1, <1>6
    <3> HIDE DEF t, f, g, l, G
    <3> QED BY <3>1, <3>2, <1>10
  <2>2. CASE ~ (i <= b)
    <3>1. /\ i + 1 \in 1 .. Len(t) /\ i + 1 \in 0 .. Len(t) /\ ~ (i + 1 <= b)
          /\ i + 1 # b + 1 /\ (i + 1) - 1 = i
      BY <2>2, <1>1, <1>3, <1>6
    <3>2. t[i+1] = l[i] /\ g[i+1] = G(i)
      BY <3>1, <1>6
    <3> HIDE DEF t, f, g, l, G
    <3> QED BY <3>1, <3>2, <1>10
  <2> QED BY <2>1, <2>2
<1> QED BY <1>6, <1>12, <1>13, <1>14

\* del_timer: a timer that is taken off leaves the others due when they were.
LEMMA DelTimerDue ==
  ASSUME Pending(timer_list, expires),
         NEW i \in 1 .. Len(timer_list),
         timer_list' = RemoveAt(timer_list, i),
         expires' = [Carried(i) EXCEPT ![timer_list[i]] = 0]
  PROVE  /\ Pending(timer_list', expires')
         /\ Range(timer_list') = Range(timer_list) \ {timer_list[i]}
         /\ \A k \in 1 .. Len(timer_list') : \E j \in 1 .. Len(timer_list) :
              /\ timer_list[j] = timer_list'[k]
              /\ DueIn(timer_list', expires', k) = DueIn(timer_list, expires, j)
<1> DEFINE l == timer_list
           e == expires
           t == timer_list'
           f == expires'
           G(j) == DueIn(l, e, j)
           p == l[i]
<1>1. /\ l \in Seq(Pid) /\ IsInjective(l) /\ e \in [Pid -> 0 .. MaxExpires]
      /\ \A j \in 1 .. Len(l) : G(j) \in 1 .. MaxExpires
      /\ Len(l) \in Nat /\ DOMAIN l = 1 .. Len(l)
      /\ e \in [Pid -> Nat] /\ e \in [Pid -> Int]
      /\ MaxExpires \in Nat /\ p \in Pid /\ i \in 1 .. Len(l)
  BY SchedAssumption DEF Pending
<1>a. Len(l) \in Nat /\ i \in 1 .. Len(l) /\ MaxExpires \in Nat
  BY <1>1
<1>b. \A j, k \in 1 .. Len(l) : j # k => l[j] # l[k]
  BY <1>1 DEF IsInjective
<1>2. /\ G(0) = 0
      /\ \A j \in 1 .. Len(l) : G(j) = G(j-1) + e[l[j]]
      /\ \A j \in 0 .. Len(l) : G(j) \in Int
  BY <1>1, DueSteps
<1>3. /\ t \in Seq(Pid) /\ Len(t) = Len(l) - 1
      /\ \A j \in 1 .. Len(t) : t[j] = IF j < i THEN l[j] ELSE l[j+1]
  BY <1>1, RemoveOne
<1>4. IsInjective(t) /\ Range(t) = Range(l) \ {p}
  BY <1>1, RemoveOneInjective, RemoveOneRange
<1>5. i < Len(l) => /\ i + 1 \in 1 .. Len(l) /\ l[i+1] \in Pid /\ l[i+1] # p
                    /\ G(i+1) = G(i-1) + (e[l[i+1]] + e[p])
                    /\ e[l[i+1]] + e[p] \in 0 .. MaxExpires
  <2>1. ASSUME i < Len(l) PROVE i + 1 \in 1 .. Len(l) /\ l[i+1] \in Pid /\ l[i+1] # p
    <3>1. i + 1 \in 1 .. Len(l) /\ i + 1 # i
      BY <2>1, <1>a
    <3>2. l[i+1] \in Pid
      BY <3>1, <1>1
    <3> HIDE DEF l
    <3> QED BY <3>1, <3>2, <1>a, <1>b
  <2>2. ASSUME i < Len(l)
        PROVE  /\ G(i+1) = G(i-1) + (e[l[i+1]] + e[p])
               /\ e[l[i+1]] + e[p] \in 0 .. MaxExpires
    <3>1. /\ i + 1 \in 1 .. Len(l) /\ (i + 1) - 1 = i /\ i - 1 \in 0 .. Len(l)
          /\ i - 1 = 0 \/ i - 1 \in 1 .. Len(l)
      BY <2>2, <1>1
    <3>2. /\ G(i+1) = G(i) + e[l[i+1]] /\ G(i) = G(i-1) + e[p]
          /\ G(i+1) \in 1 .. MaxExpires /\ G(i-1) \in 0 .. MaxExpires
      BY <3>1, <1>1, <1>2
    <3>3. e[l[i+1]] \in Nat /\ e[p] \in Nat
      BY <2>1, <2>2, <1>1
    <3> DEFINE x == G(i-1)
               y == e[p]
               z == e[l[i+1]]
    <3>4. x \in 0 .. MaxExpires /\ y \in Nat /\ z \in Nat
      BY <3>2, <3>3
    <3>5. G(i+1) = (x + y) + z
      BY <3>2
    <3>6. G(i+1) \in 1 .. MaxExpires
      BY <3>2
    <3> HIDE DEF G, e, l, p, x, y, z
    <3>7. G(i+1) = x + (z + y) /\ z + y \in 0 .. MaxExpires
      BY <3>4, <3>5, <3>6, <1>a
    <3> QED BY <3>7 DEF x, y, z
  <2> QED BY <2>1, <2>2
<1>6. /\ f \in [Pid -> 0 .. MaxExpires]
      /\ \A q \in Pid : q # p /\ (i < Len(l) => q # l[i+1]) => f[q] = e[q]
      /\ i < Len(l) => f[l[i+1]] = e[l[i+1]] + e[p]
  <2>1. CASE i = Len(l)
    <3>1. f = [e EXCEPT ![p] = 0]
      BY <2>1 DEF Carried
    <3> HIDE DEF e, p, f
    <3> QED BY <2>1, <3>1, <1>1
  <2>2. CASE i # Len(l)
    <3> DEFINE r == l[i+1]
               v == e[r] + e[p]
    <3>1. f = [[e EXCEPT ![r] = v] EXCEPT ![p] = 0]
      BY <2>2 DEF Carried
    <3>2. i < Len(l)
      BY <2>2, <1>a
    <3>3. r \in Pid /\ r # p /\ v \in 0 .. MaxExpires
      BY <3>2, <1>5
    <3>4. v = e[l[i+1]] + e[p]
      OBVIOUS
    <3>5. /\ f \in [Pid -> 0 .. MaxExpires] /\ f[r] = v
          /\ \A q \in Pid : q # p /\ q # r => f[q] = e[q]
      <4> HIDE DEF e, p, f, r, v
      <4> QED BY <3>1, <3>3, <1>1
    <3> QED BY <3>2, <3>4, <3>5
  <2> QED BY <2>1, <2>2
<1> DEFINE g == [j \in 0 .. Len(t) |-> IF j < i THEN G(j) ELSE G(j+1)]
<1>7. g[0] = 0 /\ \A j \in 1 .. Len(t) : g[j] = g[j-1] + f[t[j]]
  <2>1. g[0] = 0
    <3>1. 0 \in 0 .. Len(t) /\ 0 < i
      BY <1>1, <1>3
    <3> QED BY <3>1, <1>2
  <2>2. ASSUME NEW j \in 1 .. Len(t) PROVE g[j] = g[j-1] + f[t[j]]
    <3>1. /\ j \in 0 .. Len(t) /\ j - 1 \in 0 .. Len(t) /\ j \in Int /\ i \in Int
          /\ j \in 1 .. Len(l) /\ j + 1 \in 1 .. Len(l)
      BY <1>a, <1>3
    <3>2. CASE j < i
      <4>1. j - 1 < i /\ t[j] = l[j] /\ j # i
        BY <3>1, <3>2, <1>3
      <4>2. l[j] # p /\ l[j] \in Pid
        BY <4>1, <3>1, <1>1, <1>a, <1>b
      <4>3. i < Len(l) => l[j] # l[i+1]
        <5>1. j # i + 1
          BY <3>1, <3>2
        <5> QED BY <5>1, <3>1, <1>5, <1>b
      <4>4. f[t[j]] = e[l[j]]
        BY <4>1, <4>2, <4>3, <1>6
      <4>5. g[j] = G(j) /\ g[j-1] = G(j-1)
        BY <3>1, <3>2, <4>1
      <4> QED BY <3>1, <4>4, <4>5, <1>2
    <3>3. CASE j = i
      <4>1. ~ (j < i) /\ j - 1 < i /\ t[j] = l[i+1] /\ i < Len(l)
        <5>1. ~ (j < i) /\ j - 1 < i
          BY ONLY <3>1, <3>3
        <5>2. t[j] = l[j+1]
          BY <1>3, <5>1
        <5>3. i < Len(l)
          BY ONLY <3>1, <3>3, <1>a
        <5> QED BY <3>3, <5>1, <5>2, <5>3
      <4>2. g[j] = G(i+1) /\ g[j-1] = G(i-1)
        BY <3>1, <3>3, <4>1
      <4> QED BY <4>1, <4>2, <1>5, <1>6
    <3>4. CASE j > i
      <4>1. /\ ~ (j < i) /\ ~ (j - 1 < i) /\ (j - 1) + 1 = j /\ (j + 1) - 1 = j
            /\ j + 1 # i /\ j + 1 # i + 1 /\ t[j] = l[j+1]
        BY <3>1, <3>4, <1>3
      <4>2. g[j] = G(j+1) /\ g[j-1] = G(j)
        BY <3>1, <4>1
      <4>3. l[j+1] # p /\ l[j+1] \in Pid
        BY <3>1, <4>1, <1>1, <1>a, <1>b
      <4>4. i < Len(l) => l[j+1] # l[i+1]
        BY <3>1, <4>1, <1>5, <1>b
      <4>5. f[t[j]] = e[l[j+1]]
        BY <4>1, <4>3, <4>4, <1>6
      <4>6. G(j+1) = G(j) + e[l[j+1]]
        BY <3>1, <4>1, <1>2
      <4> QED BY <4>2, <4>5, <4>6
    <3> QED BY <3>1, <3>2, <3>3, <3>4
  <2> QED BY <2>1, <2>2
<1>8. \A j \in 0 .. Len(t) : DueIn(t, f, j) = g[j]
  <2>1. f \in [Pid -> Int]
    BY <1>6
  <2> HIDE DEF t, f, g
  <2> QED BY <2>1, <1>3, <1>7, DueOnly
<1>9. ASSUME NEW k \in 1 .. Len(t)
      PROVE  \E j \in 1 .. Len(l) : l[j] = t[k] /\ DueIn(t, f, k) = G(j)
  <2>1. k \in 0 .. Len(t) /\ k \in 1 .. Len(l) /\ k + 1 \in 1 .. Len(l)
    BY <1>1, <1>3
  <2>2. CASE k < i
    <3>1. t[k] = l[k] /\ g[k] = G(k)
      BY <2>1, <2>2, <1>3
    <3> HIDE DEF t, f, g, l, G
    <3> QED BY <3>1, <2>1, <1>8
  <2>3. CASE ~ (k < i)
    <3>1. t[k] = l[k+1] /\ g[k] = G(k+1)
      BY <2>1, <2>3, <1>3
    <3> HIDE DEF t, f, g, l, G
    <3> QED BY <3>1, <2>1, <1>8
  <2> QED BY <2>2, <2>3
<1>10. Pending(t, f)
  <2>1. \A k \in 1 .. Len(t) : DueIn(t, f, k) \in 1 .. MaxExpires
    <3> HIDE DEF t, f, G, l
    <3> QED BY <1>1, <1>9
  <2> QED BY <2>1, <1>3, <1>4, <1>6 DEF Pending
<1> QED BY <1>4, <1>9, <1>10

\* The loop of run_timer_list: the timers at the head that are due at this tick are
\* taken off, and the others are due one tick sooner.
LEMMA RunTimersDue ==
  ASSUME Pending(timer_list, expires), RunTimers
  PROVE  /\ Expired \in 0 .. Len(timer_list)
         /\ Wakeup(SubSeq(timer_list, 1, Expired))
         /\ Pending(timer_list', expires')
         /\ timer_list' = SubSeq(timer_list, Expired + 1, Len(timer_list))
         /\ \A i \in 1 .. Expired : DueIn(timer_list, expires, i) = 1
         /\ \A i \in 1 .. Len(timer_list') :
              /\ DueIn(timer_list, expires, Expired + i) > 1
              /\ DueIn(timer_list', expires', i) = DueIn(timer_list, expires, Expired + i) - 1
<1> DEFINE l == timer_list
           e == expires
           t == timer_list'
           f == expires'
           k == Expired
           G(j) == DueIn(l, e, j)
           s == SubSeq(l, 1, k)
<1>1. /\ l \in Seq(Pid) /\ IsInjective(l) /\ e \in [Pid -> 0 .. MaxExpires]
      /\ \A j \in 1 .. Len(l) : G(j) \in 1 .. MaxExpires
      /\ Len(l) \in Nat /\ DOMAIN l = 1 .. Len(l)
      /\ e \in [Pid -> Nat] /\ e \in [Pid -> Int]
      /\ MaxExpires \in Nat
  BY SchedAssumption DEF Pending
<1>2. /\ G(0) = 0
      /\ \A j \in 1 .. Len(l) : G(j) = G(j-1) + e[l[j]]
      /\ \A j \in 0 .. Len(l) : G(j) \in Int
  BY <1>1, DueSteps
<1>3. /\ k \in 0 .. Len(l)
      /\ \A i \in 1 .. Len(l) : i <= k <=> G(i) = 1
  <2>1. k = DueBy(l, e, 1)
    <3>1. {i \in 1 .. Len(l) : G(i) = 1} = {i \in 1 .. Len(l) : G(i) <= 1}
      <4>1. \A i \in 1 .. Len(l) : G(i) = 1 <=> G(i) <= 1
        <5> HIDE DEF G
        <5> QED BY <1>1
      <4> HIDE DEF G
      <4> QED BY <4>1
    <3> QED BY <3>1 DEF Expired, Due, DueBy
  <2>2. 1 \in Int
    OBVIOUS
  <2> HIDE DEF k, l, e
  <2>3. k \in 0 .. Len(l) /\ \A i \in 1 .. Len(l) : i <= k <=> DueIn(l, e, i) <= 1
    BY <2>1, <2>2, <1>1, DueFirst
  <2> HIDE DEF G
  <2>4. \A i \in 1 .. Len(l) : G(i) <= 1 <=> G(i) = 1
    BY <1>1
  <2> QED BY <2>3, <2>4 DEF G
<1> HIDE DEF k
<1>4. CASE l = <<>>
  <2>1. Len(l) = 0 /\ k = 0
    BY <1>3, <1>4
  <2>2. s = <<>> /\ SubSeq(l, k + 1, Len(l)) = <<>>
    BY <2>1, <1>4
  <2>3. Wakeup(s) /\ t = l /\ f = e
    <3>1. Wakeup(<<>>) /\ UNCHANGED timers
      BY <1>4 DEF RunTimers
    <3> HIDE DEF s
    <3> QED BY <3>1, <2>2 DEF timers
  <2>4. Pending(t, f)
    BY <2>3
  <2>5. (\A i \in 1 .. k : G(i) = 1) /\ Len(t) = 0
    BY <2>1, <2>3
  <2> QED BY <2>1, <2>2, <2>3, <2>4, <2>5, <1>4 DEF k
<1>5. CASE l # <<>>
  <2>1. /\ Wakeup(s)
        /\ t = SubSeq(l, k + 1, Len(l))
        /\ f = [p \in Pid |-> IF p \in Range(s) THEN 0
                              ELSE IF p = l[1] THEN e[p] - 1 ELSE e[p]]
    BY <1>5 DEF RunTimers, k
  <2>2. /\ s \in Seq(Pid) /\ Len(s) = k /\ \A i \in 1 .. k : s[i] = l[i]
        /\ t \in Seq(Pid) /\ Len(t) = Len(l) - k
        /\ \A i \in 1 .. Len(l) - k : t[i] = l[k + i]
        /\ IsInjective(s) /\ IsInjective(t)
        /\ Range(l) = Range(s) \cup Range(t) /\ Range(s) \cap Range(t) = {}
    <3>1. l \in Seq(Pid) /\ IsInjective(l) /\ k \in 0 .. Len(l)
      BY <1>1, <1>3
    <3>2. t = SubSeq(l, k + 1, Len(l))
      BY <2>1
    <3> HIDE DEF l, e, f, G, t
    <3> QED BY <3>1, <3>2, Cut
  <2>3. 1 \in 1 .. Len(l) /\ l[1] \in Pid /\ G(1) = e[l[1]] /\ G(1) \in 1 .. MaxExpires
    <3>1. 1 \in 1 .. Len(l) /\ 1 - 1 = 0
      BY <1>1, <1>5
    <3>2. G(1) = G(0) + e[l[1]] /\ e[l[1]] \in Int
      BY <3>1, <1>1, <1>2
    <3> HIDE DEF G
    <3> QED BY <3>1, <3>2, <1>1, <1>2
  <2>4. f \in [Pid -> 0 .. MaxExpires]
    <3>1. e[l[1]] - 1 \in 0 .. MaxExpires
      <4> HIDE DEF G
      <4> QED BY <2>3, <1>1
    <3>2. \A p \in Pid : e[p] \in 0 .. MaxExpires /\ 0 \in 0 .. MaxExpires
      BY <1>1
    <3> HIDE DEF f, s, e
    <3> QED BY <2>1, <3>1, <3>2
  <2>5. ASSUME NEW j \in 1 .. Len(t)
        PROVE  /\ k + j \in 1 .. Len(l) /\ t[j] = l[k + j] /\ t[j] \in Pid
               /\ f[t[j]] = IF k + j = 1 THEN e[l[k+j]] - 1 ELSE e[l[k+j]]
    <3>1. k + j \in 1 .. Len(l) /\ t[j] = l[k + j] /\ t[j] \in Pid /\ j \in 1 .. Len(t)
      BY <2>2, <1>1, <1>3
    <3>2. t[j] \notin Range(s)
      <4>1. t[j] \in Range(t)
        <5>1. j \in DOMAIN t
          BY <3>1, <2>2
        <5> QED BY <5>1 DEF Range
      <4> QED BY <4>1, <2>2
    <3>3. t[j] = l[1] <=> k + j = 1
      BY <3>1, <2>3, <1>1 DEF IsInjective
    <3> HIDE DEF f, s, t
    <3> QED BY <3>1, <3>2, <3>3, <2>1
  <2> DEFINE g == [j \in 0 .. Len(t) |-> IF j = 0 THEN 0 ELSE G(k + j) - 1]
  <2>6. g[0] = 0 /\ \A j \in 1 .. Len(t) : g[j] = g[j-1] + f[t[j]]
    <3>1. g[0] = 0
      BY <2>2, <1>1, <1>3
    <3>2. ASSUME NEW j \in 1 .. Len(t) PROVE g[j] = g[j-1] + f[t[j]]
      <4>1. /\ j \in 0 .. Len(t) /\ j - 1 \in 0 .. Len(t) /\ j # 0 /\ j \in Nat /\ k \in Nat
            /\ k + j \in 1 .. Len(l) /\ (k + j) - 1 = k + (j - 1)
            /\ k + (j - 1) \in 0 .. Len(l)
        BY <2>5, <2>2, <1>1, <1>3
      <4>2. g[j] = G(k + j) - 1
        BY <4>1
      <4>3. /\ G(k + j) = G(k + (j - 1)) + e[l[k+j]] /\ e[l[k+j]] \in Int
            /\ G(k + (j - 1)) \in Int
        BY <4>1, <1>1, <1>2
      <4>4. CASE j = 1 /\ k = 0
        <5>1. g[j-1] = 0 /\ k + j = 1 /\ k + (j - 1) = 0
          BY <4>1, <4>4
        <5>2. f[t[j]] = e[l[k+j]] - 1 /\ G(k + (j - 1)) = 0
          BY <5>1, <2>5, <1>2
        <5> HIDE DEF g, G
        <5> QED BY <5>1, <5>2, <4>2, <4>3
      <4>5. CASE j = 1 /\ k # 0
        <5>1. g[j-1] = 0 /\ k + j # 1 /\ k + (j - 1) = k /\ k \in 1 .. Len(l)
          BY <4>1, <4>5, <1>3
        <5>2. f[t[j]] = e[l[k+j]] /\ G(k) = 1
          BY <5>1, <4>1, <2>5, <1>3
        <5> HIDE DEF g, G
        <5> QED BY <5>1, <5>2, <4>2, <4>3
      <4>6. CASE j # 1
        <5>1. j - 1 # 0 /\ k + j # 1
          BY <4>1, <4>6
        <5>2. g[j-1] = G(k + (j - 1)) - 1 /\ f[t[j]] = e[l[k+j]]
          BY <5>1, <4>1, <2>5
        <5> HIDE DEF g, G
        <5> QED BY <5>2, <4>2, <4>3
      <4> QED BY <4>4, <4>5, <4>6
    <3> QED BY <3>1, <3>2
  <2>7. \A j \in 0 .. Len(t) : DueIn(t, f, j) = g[j]
    <3>1. f \in [Pid -> Int]
      BY <2>4
    <3> HIDE DEF t, f, g
    <3>2. t \in Seq(Pid)
      BY <2>2
    <3> QED BY <3>1, <3>2, <2>6, DueOnly
  <2>8. ASSUME NEW i \in 1 .. Len(t) PROVE G(k + i) > 1 /\ DueIn(t, f, i) = G(k + i) - 1
    <3>1. k + i \in 1 .. Len(l) /\ ~ (k + i <= k) /\ i \in 0 .. Len(t) /\ i # 0
      BY <2>5, <1>3
    <3>2. G(k + i) \in 1 .. MaxExpires /\ G(k + i) # 1
      BY <3>1, <1>1, <1>3
    <3>3. G(k + i) > 1
      <4> HIDE DEF G
      <4> QED BY <3>2, <1>1
    <3> QED BY <3>1, <3>3, <2>7
  <2>9. Pending(t, f)
    <3>1. ASSUME NEW i \in 1 .. Len(t) PROVE DueIn(t, f, i) \in 1 .. MaxExpires
      <4>1. k + i \in 1 .. Len(l)
        BY <2>5
      <4>2. G(k + i) \in 1 .. MaxExpires /\ G(k + i) > 1 /\ DueIn(t, f, i) = G(k + i) - 1
        BY <4>1, <1>1, <2>8
      <4> HIDE DEF G, t, f
      <4> QED BY <4>2, <1>1
    <3> QED BY <3>1, <2>2, <2>4 DEF Pending
  <2>10. \A i \in 1 .. k : G(i) = 1
    BY <1>3
  <2> QED BY <2>1, <2>8, <2>9, <2>10, <1>3 DEF k
<1> QED BY <1>4, <1>5

-----------------------------------------------------------------------------
(* The run queue *)

\* What Among does at each place of a list.
Picks(ps, S, A) ==
  [x \in Seq(A) \X (1 .. Len(ps)) |-> IF ps[x[2]] \in S THEN Append(x[1], ps[x[2]]) ELSE x[1]]

\* Among takes the members of S out of a list, and repeats nothing.
LEMMA AmongIs ==
  ASSUME NEW A, NEW ps \in Seq(A), NEW S
  PROVE  /\ Among(ps, S) \in Seq(A)
         /\ Range(Among(ps, S)) = Range(ps) \cap S
         /\ IsInjective(ps) => IsInjective(Among(ps, S))
<1>1. Len(ps) \in Nat /\ DOMAIN ps = 1 .. Len(ps) /\ <<>> \in Seq(A)
  OBVIOUS
<1>2. Picks(ps, S, A) \in [Seq(A) \X (1 .. Len(ps)) -> Seq(A)]
  <2>1. ASSUME NEW x \in Seq(A) \X (1 .. Len(ps))
        PROVE  (IF ps[x[2]] \in S THEN Append(x[1], ps[x[2]]) ELSE x[1]) \in Seq(A)
    <3>1. x[1] \in Seq(A) /\ ps[x[2]] \in A
      BY <1>1
    <3> QED BY <3>1, AppendProperties
  <2> QED BY <2>1 DEF Picks
<1>3. PICK f : Builds(f, Len(ps), Seq(A), <<>>, Picks(ps, S, A))
  BY <1>1, <1>2, BuildsExists
<1>4. f \in [0 .. Len(ps) -> Seq(A)] /\ f[0] = <<>>
  BY <1>3 DEF Builds
<1>5. ASSUME NEW i \in 1 .. Len(ps)
      PROVE  f[i] = IF ps[i] \in S THEN Append(f[i-1], ps[i]) ELSE f[i-1]
  <2>1. f[i] = Picks(ps, S, A)[<<f[i-1], i>>]
    BY <1>3 DEF Builds
  <2>2. f[i-1] \in Seq(A)
    BY <1>4
  <2> QED BY <2>1, <2>2 DEF Picks
<1>6. Among(ps, S) = f[Len(ps)]
  <2> DEFINE n == Len(ps)
             Def(h) == h = [i \in 0 .. n |-> IF i = 0 THEN <<>>
                            ELSE IF ps[i] \in S THEN Append(h[i-1], ps[i]) ELSE h[i-1]]
             g == CHOOSE h : Def(h)
  <2>1. Among(ps, S) = g[n]
    BY DEF Among
  <2>2. Def(f)
    <3>1. f = [i \in 0 .. n |-> f[i]]
      BY <1>4
    <3>2. ASSUME NEW i \in 0 .. n
          PROVE  f[i] = IF i = 0 THEN <<>>
                        ELSE IF ps[i] \in S THEN Append(f[i-1], ps[i]) ELSE f[i-1]
      <4>1. CASE i = 0
        BY <4>1, <1>4
      <4>2. CASE i # 0
        <5>1. i \in 1 .. Len(ps)
          BY <4>2
        <5> QED BY <5>1, <4>2, <1>5
      <4> QED BY <4>1, <4>2
    <3> QED BY <3>1, <3>2
  <2>3. Def(g)
    <3> HIDE DEF Def
    <3> QED BY <2>2
  <2>4. g[0] = <<>> /\ \A i \in 1 .. n :
                          g[i] = IF ps[i] \in S THEN Append(g[i-1], ps[i]) ELSE g[i-1]
    <3> HIDE DEF g
    <3>1. g = [i \in 0 .. n |-> IF i = 0 THEN <<>>
                        ELSE IF ps[i] \in S THEN Append(g[i-1], ps[i]) ELSE g[i-1]]
      BY <2>3
    <3>2. 0 \in 0 .. n /\ \A i \in 1 .. n : i \in 0 .. n /\ i # 0
      BY <1>1
    <3> QED BY <3>1, <3>2
  <2> HIDE DEF g
  <2> DEFINE T == {i \in 0 .. n : g[i] = f[i]}
  <2>5. \A i \in 0 .. n : i \in T
    <3>1. 0 \in T /\ \A i \in 1 .. n : i - 1 \in T => i \in T
      BY <1>1, <1>4, <1>5, <2>4
    <3> HIDE DEF T
    <3> QED BY <3>1, <1>1, PlaceInduction
  <2> QED BY <2>1, <2>5, <1>1
<1> DEFINE Ahead(i) == {ps[j] : j \in 1 .. i}
           T == {i \in 0 .. Len(ps) : /\ Range(f[i]) = Ahead(i) \cap S
                                      /\ IsInjective(ps) => IsInjective(f[i])}
<1>7. 0 \in T
  <2>1. Range(<<>>) = {} /\ IsInjective(<<>>) /\ Ahead(0) = {}
    BY DEF Range, IsInjective
  <2> QED BY <2>1, <1>1, <1>4
<1>8. ASSUME NEW i \in 1 .. Len(ps), i - 1 \in T PROVE i \in T
  <2>1. i \in 0 .. Len(ps) /\ i - 1 \in 0 .. Len(ps) /\ f[i-1] \in Seq(A) /\ ps[i] \in A
    BY <1>1, <1>4
  <2>2. /\ Range(f[i-1]) = Ahead(i-1) \cap S
        /\ IsInjective(ps) => IsInjective(f[i-1])
    BY <1>8
  <2>3. Ahead(i) = Ahead(i-1) \cup {ps[i]}
    <3>1. 1 .. i = (1 .. i - 1) \cup {i}
      BY <1>1
    <3> QED BY <3>1
  <2>4. IsInjective(ps) => ps[i] \notin Ahead(i-1)
    <3>1. \A j \in 1 .. i - 1 : j \in DOMAIN ps /\ i \in DOMAIN ps /\ j # i
      BY <1>1
    <3> QED BY <3>1 DEF IsInjective
  <2> HIDE DEF Ahead
  <2>5. CASE ps[i] \in S
    <3>1. f[i] = Append(f[i-1], ps[i])
      BY <2>5, <1>5
    <3>2. /\ Range(f[i]) = Range(f[i-1]) \cup {ps[i]}
          /\ IsInjective(f[i-1]) /\ ps[i] \notin Range(f[i-1]) => IsInjective(f[i])
      BY <3>1, <2>1, PushBack
    <3> QED BY <3>2, <2>1, <2>2, <2>3, <2>4, <2>5
  <2>6. CASE ps[i] \notin S
    <3>1. f[i] = f[i-1]
      BY <2>6, <1>5
    <3> QED BY <3>1, <2>1, <2>2, <2>3, <2>6
  <2> QED BY <2>5, <2>6
<1>9. Len(ps) \in T
  <2> HIDE DEF T
  <2>1. \A i \in 0 .. Len(ps) : i \in T
    BY <1>1, <1>7, <1>8, PlaceInduction
  <2> QED BY <2>1, <1>1
<1>10. Ahead(Len(ps)) = Range(ps)
  BY <1>1 DEF Range
<1>11. f[Len(ps)] \in Seq(A)
  BY <1>1, <1>4
<1> QED BY <1>6, <1>9, <1>10, <1>11

\* The run queue holds every process that can run and is not running, once.
QueueFits(list, st, cur) ==
  /\ list \in Seq(Pid) /\ IsInjective(list)
  /\ Range(list) = {p \in Pid : st[p] = "RUNNABLE" /\ p # cur}

\* schedule(): the process that calls it goes to the end of the queue if it can run, and
\* the first of the queue runs.
LEMMA ScheduleFits ==
  ASSUME TypeOK, QueueFits(run_list, state, current),
         state' \in [Proc -> {"UNINIT", "SLEEPING", "RUNNABLE", "ZOMBIE"}],
         \A p \in Proc : p # current => state'[p] = state[p],
         state'[idleproc] = "RUNNABLE",
         Schedule
  PROVE  /\ QueueFits(run_list', state', current')
         /\ current' \in Proc /\ state'[current'] = "RUNNABLE"
         /\ need_resched' \in [Proc -> BOOLEAN]
         /\ time_slice' \in [Pid -> 0 .. MAX_TIME_SLICE]
<1> DEFINE back == Preempted
           list == run_list \o back
<1>1. /\ run_list \in Seq(Pid) /\ IsInjective(run_list)
      /\ Range(run_list) = {p \in Pid : state[p] = "RUNNABLE" /\ p # current}
      /\ current \in Proc /\ need_resched \in [Proc -> BOOLEAN]
      /\ time_slice \in [Pid -> 0 .. MAX_TIME_SLICE]
      /\ idleproc \notin Pid /\ Proc = Pid \cup {idleproc}
      /\ MAX_TIME_SLICE \in Nat
  BY SchedAssumption DEF TypeOK, QueueFits, Proc
<1>2. /\ need_resched' = [need_resched EXCEPT ![current] = FALSE]
      /\ time_slice' = Refilled(back)
      /\ list = <<>> => current' = idleproc /\ run_list' = list
      /\ list # <<>> => current' = Head(list) /\ run_list' = Tail(list)
  BY DEF Schedule, Enqueued
<1>3. /\ back \in Seq(Pid) /\ IsInjective(back)
      /\ Range(back) = {p \in Pid : state'[p] = "RUNNABLE" /\ p = current}
  <2>1. CASE state'[current] = "RUNNABLE" /\ current # idleproc
    <3>1. back = <<current>> /\ current \in Pid
      BY <2>1, <1>1 DEF Preempted
    <3>2. <<current>> \in Seq(Pid) /\ IsInjective(<<current>>) /\ Range(<<current>>) = {current}
      BY <3>1 DEF IsInjective, Range
    <3> HIDE DEF back
    <3> QED BY <3>1, <3>2, <2>1
  <2>2. CASE ~ (state'[current] = "RUNNABLE" /\ current # idleproc)
    <3>1. back = <<>>
      BY <2>2 DEF Preempted
    <3>2. <<>> \in Seq(Pid) /\ IsInjective(<<>>) /\ Range(<<>>) = {}
      BY DEF IsInjective, Range
    <3> HIDE DEF back
    <3> QED BY <3>1, <3>2, <2>2, <1>1
  <2> QED BY <2>1, <2>2
<1> HIDE DEF back
<1>4. /\ list \in Seq(Pid) /\ IsInjective(list)
      /\ Range(list) = {p \in Pid : state'[p] = "RUNNABLE"}
  <2>1. Range(run_list) \cap Range(back) = {}
    BY <1>1, <1>3
  <2>2. /\ list \in Seq(Pid) /\ IsInjective(list)
        /\ Range(list) = Range(run_list) \cup Range(back)
    BY <2>1, <1>1, <1>3, Joined
  <2>3. \A p \in Pid : p \in Proc
    BY <1>1
  <2> HIDE DEF list
  <2> QED BY <2>2, <2>3, <1>1, <1>3
<1> HIDE DEF list
<1>5. time_slice' \in [Pid -> 0 .. MAX_TIME_SLICE]
  BY <1>1, <1>2 DEF Refilled
<1>6. need_resched' \in [Proc -> BOOLEAN]
  BY <1>1, <1>2
<1>7. CASE list = <<>>
  <2>1. current' = idleproc /\ run_list' = <<>> /\ Range(list) = {}
    BY <1>2, <1>7 DEF Range
  <2>2. QueueFits(run_list', state', current')
    <3>1. <<>> \in Seq(Pid) /\ IsInjective(<<>>) /\ Range(<<>>) = {}
      BY DEF IsInjective, Range
    <3> QED BY <2>1, <3>1, <1>4 DEF QueueFits
  <2> QED BY <2>1, <2>2, <1>1, <1>5, <1>6
<1>8. CASE list # <<>>
  <2>1. current' = Head(list) /\ run_list' = Tail(list)
    BY <1>2, <1>8
  <2>2. /\ Head(list) \in Pid /\ Tail(list) \in Seq(Pid) /\ IsInjective(Tail(list))
        /\ Head(list) \in Range(list) /\ Range(Tail(list)) = Range(list) \ {Head(list)}
    BY <1>4, <1>8, PopFront
  <2>3. QueueFits(run_list', state', current')
    BY <2>1, <2>2, <1>4 DEF QueueFits
  <2>4. current' \in Proc /\ state'[current'] = "RUNNABLE"
    BY <2>1, <2>2, <1>1, <1>4
  <2> QED BY <2>3, <2>4, <1>5, <1>6
<1> QED BY <1>7, <1>8

\* wakeup_proc of several processes: those that could not run and are not the current one
\* go to the end of the queue.
LEMMA WakeupFits ==
  ASSUME TypeOK, QueueFits(run_list, state, current),
         NEW ps \in Seq(Pid), IsInjective(ps), Wakeup(ps)
  PROVE  /\ QueueFits(run_list', state', current)
         /\ state' \in [Proc -> {"UNINIT", "SLEEPING", "RUNNABLE", "ZOMBIE"}]
         /\ wait_state' \in [Proc -> {"none", "WT_TIMER", "other"}]
<1>1. /\ run_list \in Seq(Pid) /\ IsInjective(run_list)
      /\ Range(run_list) = {p \in Pid : state[p] = "RUNNABLE" /\ p # current}
      /\ state \in [Proc -> {"UNINIT", "SLEEPING", "RUNNABLE", "ZOMBIE"}]
      /\ wait_state \in [Proc -> {"none", "WT_TIMER", "other"}]
      /\ Pid \subseteq Proc
  BY DEF TypeOK, QueueFits, Proc
<1>2. /\ Woken(ps) \in Seq(Pid) /\ IsInjective(Woken(ps))
      /\ Range(Woken(ps)) = Range(ps) \cap {p \in Proc : state[p] # "RUNNABLE" /\ p # current}
  BY AmongIs DEF Woken
<1>3. run_list' = run_list \o Woken(ps)
  BY DEF Wakeup, Enqueued
<1>4. Range(ps) \subseteq Pid
  BY DEF Range
<1> DEFINE woken == Woken(ps)
<1> HIDE DEF woken
<1>5. /\ run_list' \in Seq(Pid) /\ IsInjective(run_list')
      /\ Range(run_list') = Range(run_list) \cup Range(woken)
  <2>1. Range(run_list) \cap Range(woken) = {}
    BY <1>1, <1>2 DEF woken
  <2> QED BY <2>1, <1>1, <1>2, <1>3, Joined DEF woken
<1>6. \A p \in Proc : state'[p] = IF p \in Range(ps) THEN "RUNNABLE" ELSE state[p]
  BY DEF Wakeup
<1>7. Range(run_list') = {p \in Pid : state'[p] = "RUNNABLE" /\ p # current}
  <2>1. \A p \in Pid : p \in Range(run_list') <=> state'[p] = "RUNNABLE" /\ p # current
    BY <1>1, <1>2, <1>4, <1>5, <1>6 DEF woken
  <2>2. Range(run_list') \subseteq Pid
    BY <1>5 DEF Range
  <2> QED BY <2>1, <2>2
<1>8. /\ state' \in [Proc -> {"UNINIT", "SLEEPING", "RUNNABLE", "ZOMBIE"}]
      /\ wait_state' \in [Proc -> {"none", "WT_TIMER", "other"}]
  BY <1>1 DEF Wakeup
<1> QED BY <1>5, <1>7, <1>8 DEF QueueFits

-----------------------------------------------------------------------------
(* The invariant *)

\* Inductive as it stands: the queue needs to know that only those that can run are
\* current, the timers where the sleepers stand.
SchedInv == QueueExact /\ TimersExact

\* The invariant in the terms of the lemmas above,
LEMMA PartsOfInv ==
  ASSUME SchedInv
  PROVE  /\ TypeOK /\ QueueFits(run_list, state, current) /\ Pending(timer_list, expires)
         /\ TimersOnStack /\ SleepersTimed /\ StatesFit
<1>1. TypeOK /\ run_list \in Seq(Pid) /\ timer_list \in Seq(Pid)
      /\ expires \in [Pid -> 0 .. MaxExpires]
  BY DEF SchedInv, QueueExact, TypeOK
<1>2. QueueFits(run_list, state, current)
  BY <1>1 DEF SchedInv, QueueExact, QueueFits
<1>3. Pending(timer_list, expires)
  BY <1>1 DEF SchedInv, TimersExact, TimersPending, Pending, Due
<1> QED BY <1>1, <1>2, <1>3 DEF SchedInv, TimersExact

\* and back, after a step.
LEMMA InvOfParts ==
  ASSUME TypeOK', QueueFits(run_list', state', current'), Pending(timer_list', expires'),
         TimersOnStack', SleepersTimed', StatesFit'
  PROVE  SchedInv'
<1>1. QueueExact'
  BY DEF QueueExact, QueueFits
<1>2. TimersPending'
  BY DEF TimersPending, Pending, Due
<1> QED BY <1>1, <1>2 DEF SchedInv, TimersExact

\* What TypeOK says of each variable.
LEMMA Typed ==
  ASSUME TypeOK
  PROVE  /\ state \in [Proc -> {"UNINIT", "SLEEPING", "RUNNABLE", "ZOMBIE"}]
         /\ wait_state \in [Proc -> {"none", "WT_TIMER", "other"}]
         /\ time_slice \in [Pid -> 0 .. MAX_TIME_SLICE]
         /\ need_resched \in [Proc -> BOOLEAN]
         /\ current \in Proc
         /\ pc \in [Proc -> {"run", "marks", "off", "new", "gone"}]
         /\ idleproc \in Proc /\ idleproc \notin Pid /\ \A p \in Pid : p \in Proc
         /\ MAX_TIME_SLICE \in Nat \ {0}
BY SchedAssumption DEF TypeOK, Proc

\* A process that enters the kernel is running and has no timer.
LEMMA EntersFit ==
  ASSUME SchedInv, NEW p \in Pid, Enters(p)
  PROVE  /\ p = current /\ pc[p] = "run" /\ state[p] = "RUNNABLE"
         /\ p \notin Range(timer_list) /\ wait_state[p] = "none"
<1>1. TypeOK /\ TimersOnStack /\ StatesFit
  BY PartsOfInv
<1>2. p = current /\ pc[p] = "run" /\ p \in Proc
  BY <1>1, Typed DEF Enters
<1>3. state[p] = "RUNNABLE" /\ p \notin Range(timer_list)
  BY <1>1, <1>2 DEF StatesFit, TimersOnStack
<1>4. wait_state[p] = "none"
  BY <1>1, <1>2, <1>3 DEF StatesFit
<1> QED BY <1>2, <1>3, <1>4

\* A process that marks itself as sleeping, with a timer
LEMMA SleepForFits ==
  ASSUME SchedInv, NEW p \in Pid, NEW n \in 1 .. MaxExpires, SleepFor(p, n)
  PROVE  SchedInv'
<1>1. /\ TypeOK /\ QueueFits(run_list, state, current) /\ Pending(timer_list, expires)
      /\ TimersOnStack /\ SleepersTimed /\ StatesFit
  BY PartsOfInv
<1>2. /\ p = current /\ pc[p] = "run" /\ state[p] = "RUNNABLE"
      /\ p \notin Range(timer_list)
  BY EntersFit DEF SleepFor
<1>3. /\ state' = [state EXCEPT ![p] = "SLEEPING"]
      /\ wait_state' = [wait_state EXCEPT ![p] = "WT_TIMER"]
      /\ pc' = [pc EXCEPT ![p] = "marks"]
      /\ AddTimer(p, n)
      /\ UNCHANGED <<run_list, time_slice, need_resched, current>>
  BY DEF SleepFor, queue
<1>4. Pending(timer_list', expires') /\ Range(timer_list') = Range(timer_list) \cup {p}
  BY <1>1, <1>2, <1>3, AddTimerDue
<1>5. /\ state'[p] = "SLEEPING" /\ wait_state'[p] = "WT_TIMER" /\ pc'[p] = "marks"
      /\ \A q \in Proc : q # p => /\ state'[q] = state[q] /\ pc'[q] = pc[q]
                                  /\ wait_state'[q] = wait_state[q]
      /\ p \in Proc /\ p # idleproc
  BY <1>1, <1>3, Typed
<1>6. TypeOK'
  <2>1. timer_list' \in Seq(Pid) /\ expires' \in [Pid -> 0 .. MaxExpires]
    BY <1>4 DEF Pending
  <2> QED BY <2>1, <1>1, <1>3 DEF TypeOK
<1>7. QueueFits(run_list', state', current')
  <2>1. {q \in Pid : state'[q] = "RUNNABLE" /\ q # current}
          = {q \in Pid : state[q] = "RUNNABLE" /\ q # current}
    BY <1>1, <1>2, <1>5, Typed
  <2> QED BY <2>1, <1>1, <1>3 DEF QueueFits
<1>8. TimersOnStack'
  <2>1. Range(timer_list) \subseteq Pid
    BY <1>1 DEF Pending, Range
  <2>2. ASSUME NEW q \in Range(timer_list') PROVE pc'[q] \in {"marks", "off"}
    BY <2>1, <1>1, <1>4, <1>5, Typed DEF TimersOnStack
  <2> QED BY <2>2 DEF TimersOnStack
<1>9. SleepersTimed'
  <2>1. ASSUME NEW q \in Pid, wait_state'[q] = "WT_TIMER" PROVE q \in Range(timer_list')
    BY <2>1, <1>1, <1>4, <1>5, Typed DEF SleepersTimed
  <2> QED BY <2>1 DEF SleepersTimed
<1>10. StatesFit'
  BY <1>1, <1>2, <1>3, <1>5, Typed DEF StatesFit
<1> QED BY <1>4, <1>6, <1>7, <1>8, <1>9, <1>10, InvOfParts

\* or without one.
LEMMA SleepOnFits ==
  ASSUME SchedInv, NEW p \in Pid, SleepOn(p)
  PROVE  SchedInv'
<1>1. /\ TypeOK /\ QueueFits(run_list, state, current) /\ Pending(timer_list, expires)
      /\ TimersOnStack /\ SleepersTimed /\ StatesFit
  BY PartsOfInv
<1>2. /\ p = current /\ pc[p] = "run" /\ state[p] = "RUNNABLE"
      /\ p \notin Range(timer_list)
  BY EntersFit DEF SleepOn
<1>3. /\ state' = [state EXCEPT ![p] = "SLEEPING"]
      /\ wait_state' = [wait_state EXCEPT ![p] = "other"]
      /\ pc' = [pc EXCEPT ![p] = "marks"]
      /\ UNCHANGED <<run_list, time_slice, timer_list, expires, need_resched, current>>
  BY DEF SleepOn, queue, timers
<1>4. Pending(timer_list', expires')
  BY <1>1, <1>3
<1>5. /\ state'[p] = "SLEEPING" /\ wait_state'[p] = "other" /\ pc'[p] = "marks"
      /\ \A q \in Proc : q # p => /\ state'[q] = state[q] /\ pc'[q] = pc[q]
                                  /\ wait_state'[q] = wait_state[q]
      /\ p \in Proc /\ p # idleproc
  BY <1>1, <1>3, Typed
<1>6. TypeOK'
  BY <1>1, <1>3 DEF TypeOK
<1>7. QueueFits(run_list', state', current')
  <2>1. {q \in Pid : state'[q] = "RUNNABLE" /\ q # current}
          = {q \in Pid : state[q] = "RUNNABLE" /\ q # current}
    BY <1>1, <1>2, <1>5, Typed
  <2> QED BY <2>1, <1>1, <1>3 DEF QueueFits
<1>8. TimersOnStack'
  <2>1. Range(timer_list) \subseteq Pid
    BY <1>1 DEF Pending, Range
  <2> QED BY <2>1, <1>1, <1>2, <1>3, <1>5, Typed DEF TimersOnStack
<1>9. SleepersTimed'
  BY <1>1, <1>3, <1>5, Typed DEF SleepersTimed
<1>10. StatesFit'
  BY <1>1, <1>2, <1>3, <1>5, Typed DEF StatesFit
<1> QED BY <1>4, <1>6, <1>7, <1>8, <1>9, <1>10, InvOfParts

\* The schedule() of a process that has marked itself as sleeping.
LEMMA SwitchesAwayFits ==
  ASSUME SchedInv, NEW p \in Proc, SwitchesAway(p)
  PROVE  SchedInv'
<1>1. /\ TypeOK /\ QueueFits(run_list, state, current) /\ Pending(timer_list, expires)
      /\ TimersOnStack /\ SleepersTimed /\ StatesFit
  BY PartsOfInv
<1>2. /\ current = p /\ pc[p] = "marks"
      /\ pc' = [pc EXCEPT ![p] = "off"]
      /\ UNCHANGED <<state, wait_state, timer_list, expires>>
      /\ Schedule
  BY DEF SwitchesAway, timers
<1>3. p # idleproc /\ state[idleproc] = "RUNNABLE"
  BY <1>1, <1>2 DEF StatesFit
<1>4. /\ QueueFits(run_list', state', current')
      /\ current' \in Proc /\ state'[current'] = "RUNNABLE"
      /\ need_resched' \in [Proc -> BOOLEAN]
      /\ time_slice' \in [Pid -> 0 .. MAX_TIME_SLICE]
  BY <1>1, <1>2, <1>3, Typed, ScheduleFits
<1>5. pc'[p] = "off" /\ \A q \in Proc : q # p => pc'[q] = pc[q]
  BY <1>1, <1>2, Typed
<1>6. TypeOK'
  <2>1. run_list' \in Seq(Pid)
    BY <1>4 DEF QueueFits
  <2> QED BY <2>1, <1>1, <1>2, <1>4 DEF TypeOK
<1>7. Pending(timer_list', expires') /\ SleepersTimed'
  BY <1>1, <1>2 DEF SleepersTimed
<1>8. TimersOnStack'
  <2>1. Range(timer_list) \subseteq Pid
    BY <1>1 DEF Pending, Range
  <2> QED BY <2>1, <1>1, <1>2, <1>5, Typed DEF TimersOnStack
<1>9. StatesFit'
  <2>1. ASSUME NEW q \in Proc
        PROVE  /\ state'[q] = "UNINIT" <=> pc'[q] = "new"
               /\ state'[q] = "ZOMBIE" <=> pc'[q] = "gone"
               /\ state'[q] = "SLEEPING" => pc'[q] \in {"marks", "off"}
               /\ pc'[q] = "marks" => q = current'
               /\ wait_state'[q] # "none" => state'[q] = "SLEEPING"
    <3>1. CASE q = p
      BY <3>1, <1>1, <1>2, <1>5 DEF StatesFit
    <3>2. CASE q # p
      BY <3>2, <1>1, <1>2, <1>5 DEF StatesFit
    <3> QED BY <3>1, <3>2
  <2>2. state'[idleproc] = "RUNNABLE" /\ pc'[idleproc] = "run"
    BY <1>1, <1>2, <1>3, <1>5, Typed DEF StatesFit
  <2> QED BY <2>1, <2>2, <1>4 DEF StatesFit
<1> QED BY <1>4, <1>6, <1>7, <1>8, <1>9, InvOfParts

\* The way back from schedule(), with the timer deleted.
LEMMA ReturnsFits ==
  ASSUME SchedInv, NEW p \in Proc, Returns(p)
  PROVE  SchedInv'
<1>1. /\ TypeOK /\ QueueFits(run_list, state, current) /\ Pending(timer_list, expires)
      /\ TimersOnStack /\ SleepersTimed /\ StatesFit
  BY PartsOfInv
<1>2. /\ current = p /\ pc[p] = "off"
      /\ pc' = [pc EXCEPT ![p] = "run"]
      /\ DelTimer(p)
      /\ UNCHANGED <<state, wait_state, run_list, time_slice, need_resched, current>>
  BY DEF Returns, queue
<1>3. p # idleproc /\ state[p] = "RUNNABLE" /\ p \in Pid
  BY <1>1, <1>2 DEF StatesFit, Proc
<1>4. Pending(timer_list', expires') /\ Range(timer_list') = Range(timer_list) \ {p}
  <2>1. CASE p \notin Range(timer_list) /\ UNCHANGED timers
    BY <2>1, <1>1 DEF timers
  <2>2. CASE \E i \in 1 .. Len(timer_list) :
               /\ timer_list[i] = p
               /\ timer_list' = RemoveAt(timer_list, i)
               /\ expires' = [Carried(i) EXCEPT ![p] = 0]
    BY <2>2, <1>1, DelTimerDue
  <2> QED BY <2>1, <2>2, <1>2 DEF DelTimer
<1>5. pc'[p] = "run" /\ \A q \in Proc : q # p => pc'[q] = pc[q]
  BY <1>1, <1>2, Typed
<1>6. TypeOK'
  <2>1. timer_list' \in Seq(Pid) /\ expires' \in [Pid -> 0 .. MaxExpires]
    BY <1>4 DEF Pending
  <2> QED BY <2>1, <1>1, <1>2 DEF TypeOK
<1>7. QueueFits(run_list', state', current')
  BY <1>1, <1>2
<1>8. TimersOnStack'
  <2>1. Range(timer_list) \subseteq Pid
    BY <1>1 DEF Pending, Range
  <2> QED BY <2>1, <1>1, <1>4, <1>5, Typed DEF TimersOnStack
<1>9. SleepersTimed'
  <2>1. wait_state[p] = "none"
    BY <1>1, <1>3 DEF StatesFit
  <2> QED BY <2>1, <1>1, <1>2, <1>4 DEF SleepersTimed
<1>10. StatesFit'
  BY <1>1, <1>2, <1>3, <1>5, Typed DEF StatesFit
<1> QED BY <1>4, <1>6, <1>7, <1>8, <1>9, <1>10, InvOfParts

\* A process wakes another one, or makes it.
LEMMA WakesFits ==
  ASSUME SchedInv, NEW p \in Pid, NEW q \in Pid, Wakes(p, q)
  PROVE  SchedInv'
<1>1. /\ TypeOK /\ QueueFits(run_list, state, current) /\ Pending(timer_list, expires)
      /\ TimersOnStack /\ SleepersTimed /\ StatesFit
  BY PartsOfInv
<1>2. p = current /\ pc[p] = "run" /\ state[p] = "RUNNABLE"
  BY EntersFit DEF Wakes
<1>3. /\ state[q] \in {"SLEEPING", "UNINIT"}
      /\ Wakeup(<<q>>)
      /\ time_slice' = Refilled(Woken(<<q>>))
      /\ pc' = [pc EXCEPT ![q] = IF @ = "new" THEN "run" ELSE @]
      /\ UNCHANGED <<timer_list, expires, need_resched, current>>
  BY DEF Wakes, timers
<1>4. <<q>> \in Seq(Pid) /\ IsInjective(<<q>>) /\ Range(<<q>>) = {q}
  BY DEF IsInjective, Range
<1>5. /\ QueueFits(run_list', state', current)
      /\ state' \in [Proc -> {"UNINIT", "SLEEPING", "RUNNABLE", "ZOMBIE"}]
      /\ wait_state' \in [Proc -> {"none", "WT_TIMER", "other"}]
  BY <1>1, <1>3, <1>4, WakeupFits
<1>6. /\ state'[q] = "RUNNABLE" /\ wait_state'[q] = "none"
      /\ pc'[q] = IF pc[q] = "new" THEN "run" ELSE pc[q]
      /\ \A r \in Proc : r # q => /\ state'[r] = state[r] /\ pc'[r] = pc[r]
                                  /\ wait_state'[r] = wait_state[r]
      /\ q \in Proc /\ q # idleproc /\ q # p
  <2>1. \A r \in Proc : /\ state'[r] = IF r \in Range(<<q>>) THEN "RUNNABLE" ELSE state[r]
                        /\ wait_state'[r] = IF r \in Range(<<q>>) /\ state[r] # "RUNNABLE"
                                            THEN "none" ELSE wait_state[r]
    BY <1>3 DEF Wakeup
  <2> QED BY <2>1, <1>1, <1>2, <1>3, <1>4, Typed
<1>7. TypeOK'
  <2>1. run_list' \in Seq(Pid)
    BY <1>5 DEF QueueFits
  <2>2. time_slice' \in [Pid -> 0 .. MAX_TIME_SLICE]
    BY <1>1, <1>3, Typed DEF Refilled
  <2>3. pc' \in [Proc -> {"run", "marks", "off", "new", "gone"}]
    BY <1>1, <1>3, Typed
  <2> QED BY <2>1, <2>2, <2>3, <1>1, <1>3, <1>5 DEF TypeOK
<1>8. QueueFits(run_list', state', current') /\ Pending(timer_list', expires')
  BY <1>1, <1>3, <1>5
<1>9. TimersOnStack'
  <2>1. Range(timer_list) \subseteq Pid
    BY <1>1 DEF Pending, Range
  <2> QED BY <2>1, <1>1, <1>3, <1>6, Typed DEF TimersOnStack
<1>10. SleepersTimed'
  BY <1>1, <1>3, <1>6, Typed DEF SleepersTimed
<1>11. StatesFit'
  <2>1. ASSUME NEW r \in Proc
        PROVE  /\ state'[r] = "UNINIT" <=> pc'[r] = "new"
               /\ state'[r] = "ZOMBIE" <=> pc'[r] = "gone"
               /\ state'[r] = "SLEEPING" => pc'[r] \in {"marks", "off"}
               /\ pc'[r] = "marks" => r = current'
               /\ wait_state'[r] # "none" => state'[r] = "SLEEPING"
    <3>1. CASE r = q
      BY <3>1, <1>1, <1>2, <1>3, <1>6 DEF StatesFit
    <3>2. CASE r # q
      BY <3>2, <1>1, <1>3, <1>6 DEF StatesFit
    <3> QED BY <3>1, <3>2
  <2>2. /\ state'[idleproc] = "RUNNABLE" /\ pc'[idleproc] = "run"
        /\ state'[current'] = "RUNNABLE"
    BY <1>1, <1>2, <1>3, <1>6, Typed DEF StatesFit
  <2> QED BY <2>1, <2>2 DEF StatesFit
<1> QED BY <1>7, <1>8, <1>9, <1>10, <1>11, InvOfParts

\* The last schedule() of a process.
LEMMA ExitsFits ==
  ASSUME SchedInv, NEW p \in Pid, Exits(p)
  PROVE  SchedInv'
<1>1. /\ TypeOK /\ QueueFits(run_list, state, current) /\ Pending(timer_list, expires)
      /\ TimersOnStack /\ SleepersTimed /\ StatesFit
  BY PartsOfInv
<1>2. /\ p = current /\ pc[p] = "run" /\ state[p] = "RUNNABLE"
      /\ p \notin Range(timer_list) /\ wait_state[p] = "none"
  BY EntersFit DEF Exits
<1>3. /\ state' = [state EXCEPT ![p] = "ZOMBIE"]
      /\ pc' = [pc EXCEPT ![p] = "gone"]
      /\ UNCHANGED <<wait_state, timer_list, expires>>
      /\ Schedule
  BY DEF Exits, timers
<1>4. /\ state'[p] = "ZOMBIE" /\ pc'[p] = "gone"
      /\ \A q \in Proc : q # p => state'[q] = state[q] /\ pc'[q] = pc[q]
      /\ p \in Proc /\ p # idleproc /\ state'[idleproc] = "RUNNABLE"
      /\ state' \in [Proc -> {"UNINIT", "SLEEPING", "RUNNABLE", "ZOMBIE"}]
      /\ pc' \in [Proc -> {"run", "marks", "off", "new", "gone"}]
  BY <1>1, <1>3, Typed DEF StatesFit
<1>5. /\ QueueFits(run_list', state', current')
      /\ current' \in Proc /\ state'[current'] = "RUNNABLE"
      /\ need_resched' \in [Proc -> BOOLEAN]
      /\ time_slice' \in [Pid -> 0 .. MAX_TIME_SLICE]
  BY <1>1, <1>2, <1>3, <1>4, ScheduleFits
<1>6. TypeOK'
  <2>1. run_list' \in Seq(Pid)
    BY <1>5 DEF QueueFits
  <2> QED BY <2>1, <1>1, <1>3, <1>4, <1>5 DEF TypeOK
<1>7. Pending(timer_list', expires') /\ SleepersTimed'
  BY <1>1, <1>3 DEF SleepersTimed
<1>8. TimersOnStack'
  <2>1. Range(timer_list) \subseteq Pid
    BY <1>1 DEF Pending, Range
  <2> QED BY <2>1, <1>1, <1>2, <1>3, <1>4, Typed DEF TimersOnStack
<1>9. StatesFit'
  <2>1. ASSUME NEW q \in Proc
        PROVE  /\ state'[q] = "UNINIT" <=> pc'[q] = "new"
               /\ state'[q] = "ZOMBIE" <=> pc'[q] = "gone"
               /\ state'[q] = "SLEEPING" => pc'[q] \in {"marks", "off"}
               /\ pc'[q] = "marks" => q = current'
               /\ wait_state'[q] # "none" => state'[q] = "SLEEPING"
    <3>1. CASE q = p
      BY <3>1, <1>2, <1>3, <1>4
    <3>2. CASE q # p
      BY <3>2, <1>1, <1>2, <1>3, <1>4 DEF StatesFit
    <3> QED BY <3>1, <3>2
  <2>2. pc'[idleproc] = "run"
    BY <1>1, <1>4, Typed DEF StatesFit
  <2> QED BY <2>1, <2>2, <1>4, <1>5 DEF StatesFit
<1> QED BY <1>5, <1>6, <1>7, <1>8, <1>9, InvOfParts

\* A schedule() of a process that goes on to run: do_yield, the end of a trap, cpu_idle.
LEMMA GivesWayFits ==
  ASSUME SchedInv, pc[current] = "run", UNCHANGED <<procs, timers>>, Schedule
  PROVE  SchedInv'
<1>1. /\ TypeOK /\ QueueFits(run_list, state, current) /\ Pending(timer_list, expires)
      /\ TimersOnStack /\ SleepersTimed /\ StatesFit
  BY PartsOfInv
<1>2. UNCHANGED <<state, wait_state, pc, timer_list, expires>>
  BY DEF procs, timers
<1>3. state'[idleproc] = "RUNNABLE"
  BY <1>1, <1>2 DEF StatesFit
<1>4. /\ QueueFits(run_list', state', current')
      /\ current' \in Proc /\ state'[current'] = "RUNNABLE"
      /\ need_resched' \in [Proc -> BOOLEAN]
      /\ time_slice' \in [Pid -> 0 .. MAX_TIME_SLICE]
  BY <1>1, <1>2, <1>3, Typed, ScheduleFits
<1>5. TypeOK'
  <2>1. run_list' \in Seq(Pid)
    BY <1>4 DEF QueueFits
  <2> QED BY <2>1, <1>1, <1>2, <1>4 DEF TypeOK
<1>6. Pending(timer_list', expires') /\ SleepersTimed' /\ TimersOnStack'
  BY <1>1, <1>2 DEF SleepersTimed, TimersOnStack
<1>7. StatesFit'
  BY <1>1, <1>2, <1>4 DEF StatesFit
<1> QED BY <1>4, <1>5, <1>6, <1>7, InvOfParts

\* The timer interrupt, wherever it finds the current process.
LEMMA TickFits ==
  ASSUME SchedInv, Tick
  PROVE  SchedInv'
<1> DEFINE s == SubSeq(timer_list, 1, Expired)
<1>1. /\ TypeOK /\ QueueFits(run_list, state, current) /\ Pending(timer_list, expires)
      /\ TimersOnStack /\ SleepersTimed /\ StatesFit
  BY PartsOfInv
<1>2. RunTimers /\ UNCHANGED <<pc, current>>
  BY DEF Tick
<1>3. /\ Expired \in 0 .. Len(timer_list) /\ Wakeup(s) /\ Pending(timer_list', expires')
      /\ timer_list' = SubSeq(timer_list, Expired + 1, Len(timer_list))
  BY <1>1, <1>2, RunTimersDue
<1>4. /\ s \in Seq(Pid) /\ IsInjective(s)
      /\ Range(timer_list) = Range(s) \cup Range(timer_list')
      /\ Range(timer_list) \subseteq Pid
  <2>1. timer_list \in Seq(Pid) /\ IsInjective(timer_list)
    BY <1>1 DEF Pending
  <2>2. Range(timer_list) \subseteq Pid
    BY <2>1 DEF Range
  <2> QED BY <2>1, <2>2, <1>3, Cut
<1>5. /\ QueueFits(run_list', state', current)
      /\ state' \in [Proc -> {"UNINIT", "SLEEPING", "RUNNABLE", "ZOMBIE"}]
      /\ wait_state' \in [Proc -> {"none", "WT_TIMER", "other"}]
  BY <1>1, <1>3, <1>4, WakeupFits
<1>6. \A r \in Proc : /\ state'[r] = IF r \in Range(s) THEN "RUNNABLE" ELSE state[r]
                      /\ wait_state'[r] = IF r \in Range(s) /\ state[r] # "RUNNABLE"
                                          THEN "none" ELSE wait_state[r]
  BY <1>3 DEF Wakeup
<1>7. TypeOK'
  <2>1. /\ run_list' \in Seq(Pid) /\ timer_list' \in Seq(Pid)
        /\ expires' \in [Pid -> 0 .. MaxExpires]
    BY <1>3, <1>5 DEF QueueFits, Pending
  <2>2. time_slice' \in [Pid -> 0 .. MAX_TIME_SLICE] /\ need_resched' \in [Proc -> BOOLEAN]
    <3> DEFINE filled == Refilled(Woken(s))
               slice == IF current = idleproc \/ filled[current] = 0 THEN 0
                        ELSE filled[current] - 1
    <3>1. filled \in [Pid -> 0 .. MAX_TIME_SLICE]
      BY <1>1, Typed DEF Refilled
    <3>2. slice \in 0 .. MAX_TIME_SLICE
      <4>1. current # idleproc => current \in Pid
        BY <1>1, Typed DEF Proc
      <4>2. MAX_TIME_SLICE \in Nat
        BY SchedAssumption
      <4> HIDE DEF filled
      <4> QED BY <3>1, <4>1, <4>2
    <3>3. /\ time_slice' = [p \in Pid |-> IF p = current THEN slice ELSE filled[p]]
          /\ ProcTick(slice)
      BY DEF Tick
    <3> HIDE DEF filled, slice
    <3>4. time_slice' \in [Pid -> 0 .. MAX_TIME_SLICE]
      BY <3>1, <3>2, <3>3
    <3>5. need_resched' \in [Proc -> BOOLEAN]
      <4>1. need_resched' = [need_resched EXCEPT ![current] = @ \/ slice = 0]
        BY <3>3 DEF ProcTick
      <4>2. need_resched \in [Proc -> BOOLEAN]
        BY <1>1, Typed
      <4> QED BY <4>1, <4>2
    <3> QED BY <3>4, <3>5
  <2>3. pc' \in [Proc -> {"run", "marks", "off", "new", "gone"}] /\ current' \in Proc
    BY <1>1, <1>2, Typed
  <2> QED BY <2>1, <2>2, <2>3, <1>5 DEF TypeOK
<1>8. QueueFits(run_list', state', current')
  BY <1>2, <1>5
<1>9. TimersOnStack'
  BY <1>1, <1>2, <1>4 DEF TimersOnStack
<1>10. ASSUME NEW p \in Range(s) PROVE p \in Pid /\ pc[p] \in {"marks", "off"}
  BY <1>1, <1>4 DEF TimersOnStack
<1> HIDE DEF s
<1>11. SleepersTimed'
  <2>1. ASSUME NEW p \in Pid, wait_state'[p] = "WT_TIMER" PROVE p \in Range(timer_list')
    <3>1. p \in Proc
      BY <1>1, Typed
    <3>2. wait_state[p] = "WT_TIMER" /\ ~ (p \in Range(s) /\ state[p] # "RUNNABLE")
      BY <3>1, <2>1, <1>6
    <3>3. state[p] = "SLEEPING"
      BY <3>1, <3>2, <1>1 DEF StatesFit
    <3> QED BY <3>2, <3>3, <1>1, <1>4 DEF SleepersTimed
  <2> QED BY <2>1 DEF SleepersTimed
<1>12. StatesFit'
  <2>1. ASSUME NEW r \in Proc
        PROVE  /\ state'[r] = "UNINIT" <=> pc'[r] = "new"
               /\ state'[r] = "ZOMBIE" <=> pc'[r] = "gone"
               /\ state'[r] = "SLEEPING" => pc'[r] \in {"marks", "off"}
               /\ pc'[r] = "marks" => r = current'
               /\ wait_state'[r] # "none" => state'[r] = "SLEEPING"
    <3>1. CASE r \in Range(s)
      <4>1. state'[r] = "RUNNABLE" /\ pc[r] \in {"marks", "off"} /\ pc'[r] = pc[r]
        BY <3>1, <1>2, <1>6, <1>10
      <4>2. wait_state'[r] = "none"
        BY <3>1, <1>1, <1>6 DEF StatesFit
      <4> QED BY <4>1, <4>2, <1>1, <1>2 DEF StatesFit
    <3>2. CASE r \notin Range(s)
      BY <3>2, <1>1, <1>2, <1>6 DEF StatesFit
    <3> QED BY <3>1, <3>2
  <2>2. /\ state'[idleproc] = "RUNNABLE" /\ pc'[idleproc] = "run"
        /\ state'[current'] = "RUNNABLE" \/ pc'[current'] = "marks"
    BY <1>1, <1>2, <1>6, Typed DEF StatesFit
  <2> QED BY <2>1, <2>2 DEF StatesFit
<1> QED BY <1>3, <1>7, <1>8, <1>9, <1>11, <1>12, InvOfParts

\* The boot: one process on the queue, and no timer.
LEMMA InitFits ==
  ASSUME Init
  PROVE  SchedInv
<1>1. /\ <<first>> \in Seq(Pid) /\ IsInjective(<<first>>) /\ Range(<<first>>) = {first}
      /\ <<>> \in Seq(Pid) /\ IsInjective(<<>>) /\ Range(<<>>) = {} /\ Len(<<>>) = 0
  BY SchedAssumption DEF IsInjective, Range
<1>2. TypeOK
  BY <1>1, SchedAssumption DEF Init, TypeOK, Proc
<1>3. QueueExact
  BY <1>1, <1>2, SchedAssumption DEF Init, QueueExact, Proc
<1>4. TimersExact
  BY <1>1, SchedAssumption DEF Init, TimersExact, TimersPending, TimersOnStack,
                               SleepersTimed, StatesFit, Proc
<1> QED BY <1>3, <1>4 DEF SchedInv

\* Every step keeps the invariant.
LEMMA StepFits ==
  ASSUME SchedInv, [Next]_vars
  PROVE  SchedInv'
<1>1. ASSUME NEW p \in Pid, UserStep(p) PROVE SchedInv'
  <2>1. ASSUME Yields(p) PROVE SchedInv'
    BY <2>1, EntersFit, GivesWayFits DEF Yields
  <2> QED BY <1>1, <2>1, SleepForFits, SleepOnFits, ExitsFits, WakesFits DEF UserStep
<1>2. ASSUME NEW p \in Proc, KernelStep(p) PROVE SchedInv'
  <2>1. ASSUME Reschedules(p) PROVE SchedInv'
    BY <2>1, GivesWayFits DEF Reschedules
  <2> QED BY <1>2, <2>1, SwitchesAwayFits, ReturnsFits DEF KernelStep
<1>3. ASSUME UNCHANGED vars PROVE SchedInv'
  BY <1>3 DEF SchedInv, QueueExact, TypeOK, TimersExact, TimersPending, TimersOnStack,
              SleepersTimed, StatesFit, Due, vars, procs, queue, timers
<1> QED BY <1>1, <1>2, <1>3, TickFits DEF Next

\* The invariant: the run queue, the states of the processes and the list of timers fit
\* each other, whatever the number of processes, the length of a slice and of a sleep.
THEOREM SchedCorrect == Spec => []SchedInv
BY InitFits, StepFits, PTL DEF Spec

\* The asserts of RR_enqueue and RR_dequeue never fail, and schedule() finds every process
\* that can run: wakeup_proc, schedule() and run_timer_list enqueue each of them once.
THEOREM QueueAlwaysExact == Spec => []QueueExact
<1>1. SchedInv => QueueExact
  BY DEF SchedInv
<1> QED BY <1>1, SchedCorrect, PTL

\* The assert of run_timer_list never fails, no timer is left behind on a stack that is
\* gone, and no process sleeps for a timer that is not on the list.
THEOREM TimersAlwaysExact == Spec => []TimersExact
<1>1. SchedInv => TimersExact
  BY DEF SchedInv
<1> QED BY <1>1, SchedCorrect, PTL

-----------------------------------------------------------------------------
(* The list of differences implements the service of timers *)

\* Left, of any list of timers and their fields.
LeftIn(l, e) == [p \in Range(l) |-> DueIn(l, e, CHOOSE i \in 1 .. Len(l) : l[i] = p)]

\* What is left to a timer is the sum up to its place.
LEMMA LeftIs ==
  ASSUME NEW l, NEW e, Pending(l, e)
  PROVE  /\ DOMAIN LeftIn(l, e) = Range(l)
         /\ \A p \in Range(l) : \E i \in 1 .. Len(l) : p = l[i]
         /\ \A i \in 1 .. Len(l) : /\ l[i] \in Range(l)
                                   /\ LeftIn(l, e)[l[i]] = DueIn(l, e, i)
<1>1. l \in Seq(Pid) /\ IsInjective(l) /\ DOMAIN l = 1 .. Len(l)
  BY DEF Pending
<1>2. \A p \in Range(l) : \E i \in 1 .. Len(l) : p = l[i]
  BY <1>1 DEF Range
<1>3. ASSUME NEW i \in 1 .. Len(l)
      PROVE  l[i] \in Range(l) /\ LeftIn(l, e)[l[i]] = DueIn(l, e, i)
  <2> DEFINE c == CHOOSE j \in 1 .. Len(l) : l[j] = l[i]
  <2>1. c \in 1 .. Len(l) /\ l[c] = l[i]
    OBVIOUS
  <2>2. l[i] \in Range(l)
    BY <1>1 DEF Range
  <2>3. LeftIn(l, e)[l[i]] = DueIn(l, e, c)
    BY <2>2 DEF LeftIn
  <2> HIDE DEF c
  <2>4. c = i
    BY <2>1, <1>1 DEF IsInjective
  <2> QED BY <2>2, <2>3, <2>4
<1>4. DOMAIN LeftIn(l, e) = Range(l)
  BY DEF LeftIn
<1> QED BY <1>2, <1>3, <1>4

\* Before and after a step.
LEMMA LeftNow ==
  Left = LeftIn(timer_list, expires) /\ Left' = LeftIn(timer_list', expires')
BY DEF Left, LeftIn, Due

\* LeftIn is the function of its values.
LEMMA LeftIsFunction ==
  ASSUME NEW l, NEW e
  PROVE  LeftIn(l, e) = [x \in DOMAIN LeftIn(l, e) |-> LeftIn(l, e)[x]]
BY DEF LeftIn

\* add_timer sets one timer and no other.
LEMMA AddTimerSets ==
  ASSUME Pending(timer_list, expires),
         NEW p \in Pid \ Range(timer_list), NEW m \in 1 .. MaxExpires, AddTimer(p, m)
  PROVE  Service!Set(p, m)
<1> DEFINE l == timer_list
           e == expires
           t == timer_list'
           f == expires'
           L == LeftIn(l, e)
           M == LeftIn(t, f)
<1>1. /\ Pending(t, f)
      /\ Range(t) = Range(l) \cup {p}
      /\ \E i \in 1 .. Len(t) : t[i] = p /\ DueIn(t, f, i) = m
      /\ \A i \in 1 .. Len(l) : \E j \in 1 .. Len(t) :
           t[j] = l[i] /\ DueIn(t, f, j) = DueIn(l, e, i)
  BY AddTimerDue
<1>2. /\ DOMAIN L = Range(l)
      /\ \A q \in Range(l) : \E i \in 1 .. Len(l) : q = l[i]
      /\ \A i \in 1 .. Len(l) : l[i] \in Range(l) /\ L[l[i]] = DueIn(l, e, i)
  BY LeftIs
<1>3. /\ DOMAIN M = Range(t)
      /\ \A i \in 1 .. Len(t) : t[i] \in Range(t) /\ M[t[i]] = DueIn(t, f, i)
  <2>1. Pending(t, f)
    BY <1>1
  <2> QED BY <2>1, LeftIs
<1>4. M = [x \in DOMAIN M |-> M[x]]
  BY LeftIsFunction
<1>5. p \notin DOMAIN L
  BY <1>2
<1> HIDE DEF l, e, t, f, L, M
<1>6. M[p] = m
  BY <1>1, <1>3
<1>7. ASSUME NEW q \in DOMAIN L PROVE M[q] = L[q]
  <2>1. PICK i \in 1 .. Len(l) : q = l[i]
    BY <1>2
  <2>2. PICK j \in 1 .. Len(t) : t[j] = l[i] /\ DueIn(t, f, j) = DueIn(l, e, i)
    BY <1>1
  <2> QED BY <2>1, <2>2, <1>2, <1>3
<1>8. M = [q \in DOMAIN L \cup {p} |-> IF q = p THEN m ELSE L[q]]
  <2>1. DOMAIN M = DOMAIN L \cup {p}
    BY <1>1, <1>2, <1>3
  <2>2. \A q \in DOMAIN L \cup {p} : M[q] = IF q = p THEN m ELSE L[q]
    BY <1>6, <1>7
  <2> QED BY <2>1, <2>2, <1>4
<1>9. Left = L /\ Left' = M
  BY LeftNow DEF l, e, t, f, L, M
<1> QED BY <1>5, <1>8, <1>9 DEF Service!Set

\* del_timer cancels one timer, if it is on the list, and no other.
LEMMA DelTimerCancels ==
  ASSUME Pending(timer_list, expires), NEW p \in Pid, DelTimer(p)
  PROVE  Service!Cancel(p) \/ UNCHANGED Left
<1> DEFINE l == timer_list
           e == expires
           t == timer_list'
           f == expires'
           L == LeftIn(l, e)
           M == LeftIn(t, f)
<1>1. ASSUME UNCHANGED timers PROVE UNCHANGED Left
  BY <1>1 DEF timers, Left, Due
<1>2. ASSUME NEW i \in 1 .. Len(l), l[i] = p, t = RemoveAt(l, i),
             f = [Carried(i) EXCEPT ![p] = 0]
      PROVE  Service!Cancel(p)
  <2>1. /\ Pending(t, f)
        /\ Range(t) = Range(l) \ {p}
        /\ \A k \in 1 .. Len(t) : \E j \in 1 .. Len(l) :
             l[j] = t[k] /\ DueIn(t, f, k) = DueIn(l, e, j)
    BY <1>2, DelTimerDue
  <2>2. /\ DOMAIN L = Range(l)
        /\ \A j \in 1 .. Len(l) : l[j] \in Range(l) /\ L[l[j]] = DueIn(l, e, j)
    BY LeftIs
  <2>3. /\ DOMAIN M = Range(t)
        /\ \A q \in Range(t) : \E k \in 1 .. Len(t) : q = t[k]
        /\ \A k \in 1 .. Len(t) : t[k] \in Range(t) /\ M[t[k]] = DueIn(t, f, k)
    <3>1. Pending(t, f)
      BY <2>1
    <3> HIDE DEF t, f
    <3> QED BY ONLY <3>1, LeftIs DEF M
  <2>4. M = [x \in DOMAIN M |-> M[x]]
    BY LeftIsFunction
  <2> HIDE DEF l, e, t, f, L, M
  <2>5. ASSUME NEW q \in DOMAIN M PROVE M[q] = L[q]
    <3>1. PICK k \in 1 .. Len(t) : q = t[k]
      BY <2>3
    <3>2. PICK j \in 1 .. Len(l) : l[j] = t[k] /\ DueIn(t, f, k) = DueIn(l, e, j)
      BY <2>1
    <3> QED BY <3>1, <3>2, <2>2, <2>3
  <2>6. M = [q \in DOMAIN L \ {p} |-> L[q]]
    BY <2>1, <2>2, <2>3, <2>4, <2>5
  <2>7. Left = L /\ Left' = M
    BY LeftNow DEF l, e, t, f, L, M
  <2> QED BY <2>6, <2>7 DEF Service!Cancel
<1> QED BY <1>1, <1>2 DEF DelTimer

\* run_timer_list takes one tick from every timer, and off those that had one left.
LEMMA RunTimersTicks ==
  ASSUME Pending(timer_list, expires), RunTimers
  PROVE  Service!Tick
<1> DEFINE l == timer_list
           e == expires
           t == timer_list'
           f == expires'
           k == Expired
           s == SubSeq(l, 1, k)
           L == LeftIn(l, e)
           M == LeftIn(t, f)
<1>1. /\ k \in 0 .. Len(l)
      /\ Pending(t, f)
      /\ t = SubSeq(l, k + 1, Len(l))
      /\ \A i \in 1 .. k : DueIn(l, e, i) = 1
      /\ \A i \in 1 .. Len(t) : DueIn(l, e, k + i) > 1 /\ DueIn(t, f, i) = DueIn(l, e, k + i) - 1
  BY RunTimersDue
<1>2. /\ DOMAIN L = Range(l)
      /\ \A j \in 1 .. Len(l) : l[j] \in Range(l) /\ L[l[j]] = DueIn(l, e, j)
  BY LeftIs
<1>3. /\ DOMAIN M = Range(t)
      /\ \A q \in Range(t) : \E i \in 1 .. Len(t) : q = t[i]
      /\ \A i \in 1 .. Len(t) : t[i] \in Range(t) /\ M[t[i]] = DueIn(t, f, i)
  <2>1. Pending(t, f)
    BY <1>1
  <2> HIDE DEF t, f
  <2> QED BY ONLY <2>1, LeftIs DEF M
<1>4. M = [x \in DOMAIN M |-> M[x]]
  BY LeftIsFunction
<1>5. /\ Len(s) = k /\ DOMAIN s = 1 .. k /\ \A i \in 1 .. k : s[i] = l[i]
      /\ Len(t) = Len(l) - k /\ \A i \in 1 .. Len(l) - k : t[i] = l[k + i]
      /\ Range(l) = Range(s) \cup Range(t)
      /\ Len(l) \in Nat
  <2>1. l \in Seq(Pid) /\ IsInjective(l) /\ Len(l) \in Nat
    BY DEF Pending
  <2>2. t = SubSeq(l, k + 1, Len(l)) /\ k \in 0 .. Len(l)
    BY <1>1
  <2>3. DOMAIN s = 1 .. k
    BY <2>1, <2>2
  <2> HIDE DEF l, e, t, f, k, L, M
  <2> QED BY <2>1, <2>2, <2>3, Cut
<1> HIDE DEF l, e, t, f, k, s, L, M
<1>6. ASSUME NEW q \in Range(t) PROVE q \in DOMAIN L /\ L[q] > 1 /\ M[q] = L[q] - 1
  <2>1. PICK i \in 1 .. Len(t) : q = t[i]
    BY <1>3
  <2>2. k + i \in 1 .. Len(l) /\ q = l[k + i]
    BY <2>1, <1>1, <1>5
  <2>3. L[q] = DueIn(l, e, k + i) /\ q \in DOMAIN L
    BY <2>2, <1>2
  <2>4. M[q] = DueIn(t, f, i)
    BY <2>1, <1>3
  <2>5. DueIn(l, e, k + i) > 1 /\ DueIn(t, f, i) = DueIn(l, e, k + i) - 1
    BY <2>1, <1>1
  <2> QED BY <2>3, <2>4, <2>5
<1>7. ASSUME NEW q \in Range(s) PROVE L[q] = 1
  <2>1. PICK i \in 1 .. k : q = l[i]
    BY <1>5 DEF Range
  <2>2. i \in 1 .. Len(l)
    BY <1>1, <1>5
  <2> QED BY <2>1, <2>2, <1>1, <1>2
<1>8. {r \in DOMAIN L : L[r] > 1} = Range(t)
  BY <1>2, <1>5, <1>6, <1>7
<1>9. M = [q \in {r \in DOMAIN L : L[r] > 1} |-> L[q] - 1]
  BY <1>3, <1>4, <1>6, <1>8
<1>10. Left = L /\ Left' = M
  BY LeftNow DEF l, e, t, f, L, M
<1> QED BY <1>9, <1>10 DEF Service!Tick

\* Every step is one of the service, or leaves the timers as they are.
LEMMA StepServes ==
  ASSUME SchedInv, [Next]_vars
  PROVE  [Service!Next]_Left
<1>1. Pending(timer_list, expires)
  BY PartsOfInv
<1>2. ASSUME UNCHANGED timers PROVE UNCHANGED Left
  BY <1>2 DEF timers, Left, Due
<1>3. ASSUME NEW p \in Pid, NEW n \in 1 .. MaxExpires, SleepFor(p, n) PROVE Service!Next
  <2>1. p \notin Range(timer_list) /\ AddTimer(p, n)
    BY <1>3, EntersFit DEF SleepFor
  <2>2. Service!Set(p, n)
    BY <2>1, <1>1, AddTimerSets
  <2> QED BY <2>2 DEF Service!Next
<1>4. ASSUME NEW p \in Proc, Returns(p) PROVE [Service!Next]_Left
  <2>1. p \in Pid /\ DelTimer(p)
    <3>1. StatesFit
      BY PartsOfInv
    <3> QED BY <3>1, <1>4 DEF Returns, StatesFit, Proc
  <2>2. Service!Cancel(p) \/ UNCHANGED Left
    BY <2>1, <1>1, DelTimerCancels
  <2> QED BY <2>1, <2>2 DEF Service!Next
<1>5. ASSUME Tick PROVE Service!Next
  <2>1. Service!Tick
    BY <1>1, <1>5, RunTimersTicks DEF Tick
  <2> QED BY <2>1 DEF Service!Next
<1>6. ASSUME NEW p \in Pid, UserStep(p) PROVE [Service!Next]_Left
  <2>1. ASSUME SleepOn(p) \/ Exits(p) \/ Yields(p) \/ \E q \in Pid : Wakes(p, q)
        PROVE  UNCHANGED timers
    BY <2>1 DEF SleepOn, Exits, Yields, Wakes
  <2> QED BY <1>2, <1>3, <1>6, <2>1 DEF UserStep
<1>7. ASSUME NEW p \in Proc, KernelStep(p) PROVE [Service!Next]_Left
  <2>1. ASSUME SwitchesAway(p) \/ Reschedules(p) PROVE UNCHANGED timers
    BY <2>1 DEF SwitchesAway, Reschedules
  <2> QED BY <1>2, <1>4, <1>7, <2>1 DEF KernelStep
<1>8. ASSUME UNCHANGED vars PROVE UNCHANGED timers
  BY <1>8 DEF vars
<1> QED BY <1>2, <1>5, <1>6, <1>7, <1>8 DEF Next

\* Sched implements TimerService: with fields that only say how much later than the one
\* before, every timer is off at the tick add_timer was asked for, whatever is set and
\* deleted around it.
THEOREM TimersKeepTime == Spec => KeepsTime
<1>1. Init => Service!Init
  <2>1. Range(<<>>) = {}
    BY DEF Range
  <2> QED BY <2>1 DEF Init, Service!Init, Left
<1>2. Init => SchedInv
  BY InitFits
<1>3. SchedInv /\ [Next]_vars => SchedInv' /\ [Service!Next]_Left
  BY StepFits, StepServes
<1> QED BY <1>1, <1>2, <1>3, PTL DEF Spec, KeepsTime, Service!Spec
=============================================================================
