----------------------------- MODULE ListLemmas -----------------------------
(***************************************************************************)
(* What list_add and list_del do to a list kept as a sequence: the lemmas  *)
(* that the proofs about proc_list, lists of siblings, run queues and      *)
(* timers share.                                                           *)
(***************************************************************************)
EXTENDS Integers, Sequences, Functions, SequencesExt, SequenceTheorems,
        WellFoundedInduction, TLAPS

\* list_add at the head: one element more, the others one place further.
LEMMA PushFront ==
  ASSUME NEW S, NEW s \in Seq(S), NEW e \in S
  PROVE  LET t == <<e>> \o s
         IN  /\ t \in Seq(S)
             /\ Len(t) = Len(s) + 1
             /\ t[1] = e
             /\ \A i \in 2 .. Len(t) : t[i] = s[i-1]
OBVIOUS

\* list_del of the i-th element: the later ones move up by one place.
LEMMA RemoveOne ==
  ASSUME NEW S, NEW s \in Seq(S), NEW i \in 1 .. Len(s)
  PROVE  LET t == RemoveAt(s, i)
         IN  /\ t \in Seq(S)
             /\ Len(t) = Len(s) - 1
             /\ \A j \in 1 .. Len(t) : t[j] = IF j < i THEN s[j] ELSE s[j+1]
<1> DEFINE a == SubSeq(s, 1, i-1)
           b == SubSeq(s, i+1, Len(s))
<1>1. /\ a \in Seq(S) /\ Len(a) = i - 1
      /\ \A j \in 1 .. i - 1 : a[j] = s[j]
  OBVIOUS
<1>2. /\ b \in Seq(S) /\ Len(b) = Len(s) - i
      /\ \A j \in 1 .. Len(s) - i : b[j] = s[i + j]
  OBVIOUS
<1> HIDE DEF a, b
<1>3. /\ a \o b \in Seq(S) /\ Len(a \o b) = Len(s) - 1
      /\ \A j \in 1 .. Len(s) - 1 :
            (a \o b)[j] = IF j < i THEN a[j] ELSE b[j - (i - 1)]
  <2>1. /\ a \o b \in Seq(S)
        /\ Len(a \o b) = Len(a) + Len(b)
        /\ \A j \in 1 .. Len(a) + Len(b) :
              (a \o b)[j] = IF j <= Len(a) THEN a[j] ELSE b[j - Len(a)]
    BY <1>1, <1>2, ConcatProperties
  <2>2. Len(a) + Len(b) = Len(s) - 1 /\ \A j \in Int : j <= Len(a) <=> j < i
    BY <1>1, <1>2
  <2> QED BY <1>1, <2>1, <2>2
<1>4. ASSUME NEW j \in 1 .. Len(s) - 1, ~ (j < i)
      PROVE  b[j - (i - 1)] = s[j + 1]
  <2>1. j - (i - 1) \in 1 .. Len(s) - i /\ i + (j - (i - 1)) = j + 1
    BY <1>4
  <2> QED BY <2>1, <1>2
<1>5. RemoveAt(s, i) = a \o b
  BY DEF RemoveAt, a, b
<1>6. \A j \in 1 .. Len(s) - 1 :
         (a \o b)[j] = IF j < i THEN s[j] ELSE s[j+1]
  BY <1>1, <1>3, <1>4
<1> QED BY <1>3, <1>5, <1>6

\* list_add adds exactly the new element to the members of the list.
LEMMA PushFrontRange ==
  ASSUME NEW S, NEW s \in Seq(S), NEW e \in S
  PROVE  Range(<<e>> \o s) = Range(s) \cup {e}
<1> DEFINE t == <<e>> \o s
<1>1. /\ t \in Seq(S) /\ Len(t) = Len(s) + 1 /\ t[1] = e
      /\ \A i \in 2 .. Len(t) : t[i] = s[i-1]
  BY PushFront
<1>2. DOMAIN t = 1 .. Len(s) + 1 /\ DOMAIN s = 1 .. Len(s) /\ Len(s) \in Nat
  BY <1>1
<1> HIDE DEF t
<1>3. ASSUME NEW x \in Range(t) PROVE x \in Range(s) \cup {e}
  <2>1. PICK i \in 1 .. Len(s) + 1 : x = t[i]
    BY <1>2 DEF Range
  <2>2. CASE i = 1
    BY <2>1, <2>2, <1>1
  <2>3. CASE i # 1
    <3>1. i - 1 \in DOMAIN s /\ x = s[i-1]
      BY <2>1, <2>3, <1>1, <1>2
    <3> QED BY <3>1 DEF Range
  <2> QED BY <2>2, <2>3
<1>4. ASSUME NEW x \in Range(s) PROVE x \in Range(t)
  <2>1. PICK i \in 1 .. Len(s) : x = s[i]
    BY <1>2 DEF Range
  <2>2. i + 1 \in DOMAIN t /\ t[i+1] = x
    BY <2>1, <1>1, <1>2
  <2> QED BY <2>2 DEF Range
<1>5. e \in Range(t)
  BY <1>1, <1>2 DEF Range
<1> QED BY <1>3, <1>4, <1>5 DEF t

\* list_del takes exactly the deleted element out of a list without repetition.
LEMMA RemoveOneRange ==
  ASSUME NEW S, NEW s \in Seq(S), NEW i \in 1 .. Len(s), IsInjective(s)
  PROVE  Range(RemoveAt(s, i)) = Range(s) \ {s[i]}
<1> DEFINE t == RemoveAt(s, i)
<1>1. /\ t \in Seq(S) /\ Len(t) = Len(s) - 1
      /\ \A j \in 1 .. Len(t) : t[j] = IF j < i THEN s[j] ELSE s[j+1]
  BY RemoveOne
<1>2. DOMAIN t = 1 .. Len(s) - 1 /\ DOMAIN s = 1 .. Len(s) /\ Len(s) \in Nat
  BY <1>1
<1> HIDE DEF t
<1>3. ASSUME NEW x \in Range(t) PROVE x \in Range(s) \ {s[i]}
  <2>1. PICK j \in 1 .. Len(s) - 1 : x = t[j]
    BY <1>2 DEF Range
  <2>2. PICK k \in 1 .. Len(s) : x = s[k] /\ k # i
    BY <2>1, <1>1, <1>2
  <2> QED BY <2>2, <1>2 DEF Range, IsInjective
<1>4. ASSUME NEW x \in Range(s) \ {s[i]} PROVE x \in Range(t)
  <2>1. PICK k \in 1 .. Len(s) : x = s[k] /\ k # i
    BY <1>2 DEF Range
  <2>2. CASE k < i
    <3>1. k \in DOMAIN t /\ t[k] = x
      BY <2>1, <2>2, <1>1, <1>2
    <3> QED BY <3>1 DEF Range
  <2>3. CASE k > i
    <3>1. k - 1 \in DOMAIN t /\ t[k-1] = x
      BY <2>1, <2>3, <1>1, <1>2
    <3> QED BY <3>1 DEF Range
  <2> QED BY <2>1, <2>2, <2>3
<1> QED BY <1>3, <1>4 DEF t

\* A list without repetition stays one when a new element is added.
LEMMA PushFrontInjective ==
  ASSUME NEW S, NEW s \in Seq(S), NEW e \in S \ Range(s), IsInjective(s)
  PROVE  IsInjective(<<e>> \o s)
<1> DEFINE t == <<e>> \o s
<1>1. /\ t \in Seq(S) /\ Len(t) = Len(s) + 1 /\ t[1] = e
      /\ \A i \in 2 .. Len(t) : t[i] = s[i-1]
  BY PushFront
<1>2. DOMAIN t = 1 .. Len(s) + 1 /\ DOMAIN s = 1 .. Len(s) /\ Len(s) \in Nat
  BY <1>1
<1> HIDE DEF t
<1>3. ASSUME NEW i \in 2 .. Len(t) PROVE t[i] \in Range(s)
  <2>1. i - 1 \in DOMAIN s /\ t[i] = s[i-1]
    BY <1>1, <1>2
  <2> QED BY <2>1 DEF Range
<1>4. ASSUME NEW i \in DOMAIN t, NEW j \in DOMAIN t, t[i] = t[j]
      PROVE  i = j
  <2>1. CASE i = 1 /\ j # 1
    BY <2>1, <1>1, <1>2, <1>3, <1>4
  <2>2. CASE i # 1 /\ j = 1
    BY <2>2, <1>1, <1>2, <1>3, <1>4
  <2>3. CASE i # 1 /\ j # 1
    <3>1. i - 1 \in DOMAIN s /\ j - 1 \in DOMAIN s /\ s[i-1] = s[j-1]
      BY <2>3, <1>1, <1>2, <1>4
    <3>2. i - 1 = j - 1
      BY <3>1 DEF IsInjective
    <3> QED BY <3>2, <1>2
  <2> QED BY <2>1, <2>2, <2>3
<1>5. IsInjective(t)
  BY <1>4 DEF IsInjective
<1> QED BY <1>5 DEF t

\* And when one of its elements is deleted.
LEMMA RemoveOneInjective ==
  ASSUME NEW S, NEW s \in Seq(S), NEW i \in 1 .. Len(s), IsInjective(s)
  PROVE  IsInjective(RemoveAt(s, i))
<1> DEFINE t == RemoveAt(s, i)
<1>1. /\ t \in Seq(S) /\ Len(t) = Len(s) - 1
      /\ \A j \in 1 .. Len(t) : t[j] = IF j < i THEN s[j] ELSE s[j+1]
  BY RemoveOne
<1>2. DOMAIN t = 1 .. Len(s) - 1 /\ DOMAIN s = 1 .. Len(s) /\ Len(s) \in Nat
  BY <1>1
<1> HIDE DEF t
<1>3. ASSUME NEW j \in DOMAIN t, NEW k \in DOMAIN t, t[j] = t[k]
      PROVE  j = k
  <2>1. PICK a \in DOMAIN s : t[j] = s[a] /\ a = IF j < i THEN j ELSE j + 1
    BY <1>1, <1>2
  <2>2. PICK b \in DOMAIN s : t[k] = s[b] /\ b = IF k < i THEN k ELSE k + 1
    BY <1>1, <1>2
  <2>3. a = b
    BY <2>1, <2>2, <1>3 DEF IsInjective
  <2> QED BY <2>1, <2>2, <2>3, <1>2
<1>4. IsInjective(t)
  BY <1>3 DEF IsInjective
<1> QED BY <1>4 DEF t

\* list_add_before the head adds exactly the new element, and no repetition.
LEMMA PushBack ==
  ASSUME NEW S, NEW s \in Seq(S), NEW e \in S
  PROVE  /\ Range(Append(s, e)) = Range(s) \cup {e}
         /\ IsInjective(s) /\ e \notin Range(s) => IsInjective(Append(s, e))
<1> DEFINE t == Append(s, e)
<1>1. /\ t \in Seq(S) /\ Len(t) = Len(s) + 1 /\ t[Len(s) + 1] = e
      /\ \A i \in 1 .. Len(s) : t[i] = s[i]
  BY AppendProperties
<1>2. DOMAIN t = 1 .. Len(s) + 1 /\ DOMAIN s = 1 .. Len(s) /\ Len(s) \in Nat
  BY <1>1
<1> HIDE DEF t
<1>3. Range(t) = Range(s) \cup {e}
  <2>1. ASSUME NEW x \in Range(t) PROVE x \in Range(s) \cup {e}
    <3>1. PICK i \in 1 .. Len(s) + 1 : x = t[i]
      BY <1>2 DEF Range
    <3>2. CASE i = Len(s) + 1
      BY <3>1, <3>2, <1>1
    <3>3. CASE i # Len(s) + 1
      <4>1. i \in DOMAIN s /\ x = s[i]
        BY <3>1, <3>3, <1>1, <1>2
      <4> QED BY <4>1 DEF Range
    <3> QED BY <3>2, <3>3
  <2>2. ASSUME NEW x \in Range(s) PROVE x \in Range(t)
    <3>1. PICK i \in 1 .. Len(s) : x = s[i]
      BY <1>2 DEF Range
    <3>2. i \in DOMAIN t /\ t[i] = x
      BY <3>1, <1>1, <1>2
    <3> QED BY <3>2 DEF Range
  <2>3. e \in Range(t)
    BY <1>1, <1>2 DEF Range
  <2> QED BY <2>1, <2>2, <2>3
<1>4. ASSUME IsInjective(s), e \notin Range(s),
             NEW j \in DOMAIN t, NEW k \in DOMAIN t, t[j] = t[k]
      PROVE  j = k
  <2>1. \A i \in 1 .. Len(s) : t[i] # e
    BY <1>4, <1>1, <1>2 DEF Range
  <2>2. CASE j \in DOMAIN s /\ k \in DOMAIN s
    BY <2>2, <1>4, <1>1, <1>2 DEF IsInjective
  <2>3. CASE j = Len(s) + 1 \/ k = Len(s) + 1
    BY <2>1, <2>3, <1>4, <1>1, <1>2
  <2> QED BY <2>2, <2>3, <1>2
<1>5. IsInjective(s) /\ e \notin Range(s) => IsInjective(t)
  BY <1>4 DEF IsInjective
<1> QED BY <1>3, <1>5 DEF t
\* One list behind another.
LEMMA Joined ==
  ASSUME NEW S, NEW s \in Seq(S), NEW t \in Seq(S)
  PROVE  /\ s \o t \in Seq(S)
         /\ Range(s \o t) = Range(s) \cup Range(t)
         /\ IsInjective(s) /\ IsInjective(t) /\ Range(s) \cap Range(t) = {}
              => IsInjective(s \o t)
<1> DEFINE u == s \o t
<1>1. /\ u \in Seq(S)
      /\ Len(u) = Len(s) + Len(t)
      /\ \A j \in 1 .. Len(s) + Len(t) : u[j] = IF j <= Len(s) THEN s[j] ELSE t[j - Len(s)]
  BY ConcatProperties
<1>2. /\ DOMAIN u = 1 .. Len(s) + Len(t) /\ DOMAIN s = 1 .. Len(s) /\ DOMAIN t = 1 .. Len(t)
      /\ Len(s) \in Nat /\ Len(t) \in Nat
  BY <1>1
<1> HIDE DEF u
<1>3. ASSUME NEW j \in DOMAIN u
      PROVE  \/ j \in DOMAIN s /\ u[j] = s[j]
             \/ j - Len(s) \in DOMAIN t /\ ~ (j <= Len(s)) /\ u[j] = t[j - Len(s)]
  BY <1>1, <1>2
<1>4. Range(u) = Range(s) \cup Range(t)
  <2>1. ASSUME NEW x \in Range(u) PROVE x \in Range(s) \cup Range(t)
    <3>1. PICK j \in DOMAIN u : x = u[j]
      BY DEF Range
    <3> QED BY <3>1, <1>3 DEF Range
  <2>2. ASSUME NEW x \in Range(s) PROVE x \in Range(u)
    <3>1. PICK j \in DOMAIN s : x = s[j]
      BY DEF Range
    <3>2. j \in DOMAIN u /\ u[j] = x
      BY <3>1, <1>1, <1>2
    <3> QED BY <3>2 DEF Range
  <2>3. ASSUME NEW x \in Range(t) PROVE x \in Range(u)
    <3>1. PICK j \in DOMAIN t : x = t[j]
      BY DEF Range
    <3>2. /\ j + Len(s) \in 1 .. Len(s) + Len(t) /\ ~ (j + Len(s) <= Len(s))
          /\ (j + Len(s)) - Len(s) = j
      BY <3>1, <1>2
    <3>3. j + Len(s) \in DOMAIN u /\ u[j + Len(s)] = x
      BY <3>1, <3>2, <1>1, <1>2
    <3> QED BY <3>3 DEF Range
  <2> QED BY <2>1, <2>2, <2>3
<1>5. ASSUME IsInjective(s), IsInjective(t), Range(s) \cap Range(t) = {},
             NEW j \in DOMAIN u, NEW k \in DOMAIN u, u[j] = u[k]
      PROVE  j = k
  <2>1. CASE j \in DOMAIN s /\ u[j] = s[j] /\ k \in DOMAIN s /\ u[k] = s[k]
    BY <2>1, <1>5 DEF IsInjective
  <2>2. CASE /\ j - Len(s) \in DOMAIN t /\ u[j] = t[j - Len(s)]
             /\ k - Len(s) \in DOMAIN t /\ u[k] = t[k - Len(s)]
    <3>1. j - Len(s) = k - Len(s)
      BY <2>2, <1>5 DEF IsInjective
    <3> QED BY <3>1, <1>2
  <2>3. CASE \/ j \in DOMAIN s /\ u[j] = s[j] /\ k - Len(s) \in DOMAIN t /\ u[k] = t[k - Len(s)]
             \/ k \in DOMAIN s /\ u[k] = s[k] /\ j - Len(s) \in DOMAIN t /\ u[j] = t[j - Len(s)]
    <3>1. u[j] \in Range(s) \cap Range(t)
      BY <2>3, <1>5 DEF Range
    <3> QED BY <3>1, <1>5
  <2> QED BY <1>3, <2>1, <2>2, <2>3
<1>6. IsInjective(s) /\ IsInjective(t) /\ Range(s) \cap Range(t) = {} => IsInjective(u)
  BY <1>5 DEF IsInjective
<1> QED BY <1>1, <1>4, <1>6 DEF u

\* A list cut in two.
LEMMA Cut ==
  ASSUME NEW S, NEW s \in Seq(S), NEW k \in 0 .. Len(s), IsInjective(s)
  PROVE  LET a == SubSeq(s, 1, k)
             b == SubSeq(s, k + 1, Len(s))
         IN  /\ a \in Seq(S) /\ Len(a) = k /\ \A i \in 1 .. k : a[i] = s[i]
             /\ b \in Seq(S) /\ Len(b) = Len(s) - k
             /\ \A i \in 1 .. Len(s) - k : b[i] = s[k + i]
             /\ IsInjective(a) /\ IsInjective(b)
             /\ Range(s) = Range(a) \cup Range(b) /\ Range(a) \cap Range(b) = {}
<1> DEFINE a == SubSeq(s, 1, k)
           b == SubSeq(s, k + 1, Len(s))
<1>1. /\ a \in Seq(S) /\ Len(a) = k /\ \A i \in 1 .. k : a[i] = s[i]
      /\ b \in Seq(S) /\ Len(b) = Len(s) - k /\ \A i \in 1 .. Len(s) - k : b[i] = s[k + i]
  OBVIOUS
<1>2. /\ DOMAIN a = 1 .. k /\ DOMAIN b = 1 .. Len(s) - k /\ DOMAIN s = 1 .. Len(s)
      /\ Len(s) \in Nat
  BY <1>1
<1> HIDE DEF a, b
<1>3. ASSUME NEW i \in DOMAIN b PROVE k + i \in DOMAIN s /\ k + i > k /\ b[i] = s[k + i]
  BY <1>1, <1>2
<1>4. ASSUME NEW i \in DOMAIN a PROVE i \in DOMAIN s /\ i <= k /\ a[i] = s[i]
  BY <1>1, <1>2
<1>5. IsInjective(a)
  BY <1>4 DEF IsInjective
<1>6. IsInjective(b)
  <2>1. ASSUME NEW i \in DOMAIN b, NEW j \in DOMAIN b, b[i] = b[j] PROVE i = j
    <3>1. k + i = k + j
      BY <2>1, <1>3 DEF IsInjective
    <3> QED BY <3>1, <1>2
  <2> QED BY <2>1 DEF IsInjective
<1>7. Range(s) = Range(a) \cup Range(b)
  <2>1. ASSUME NEW x \in Range(s) PROVE x \in Range(a) \cup Range(b)
    <3>1. PICK i \in DOMAIN s : x = s[i]
      BY DEF Range
    <3>2. CASE i <= k
      <4>1. i \in DOMAIN a /\ a[i] = x
        BY <3>1, <3>2, <1>1, <1>2
      <4> QED BY <4>1 DEF Range
    <3>3. CASE ~ (i <= k)
      <4>1. i - k \in DOMAIN b /\ k + (i - k) = i
        BY <3>3, <1>2
      <4>2. b[i - k] = x
        BY <3>1, <4>1, <1>3
      <4> QED BY <4>1, <4>2 DEF Range
    <3> QED BY <3>2, <3>3
  <2>2. ASSUME NEW x \in Range(a) PROVE x \in Range(s)
    BY <2>2, <1>4 DEF Range
  <2>3. ASSUME NEW x \in Range(b) PROVE x \in Range(s)
    BY <2>3, <1>3 DEF Range
  <2> QED BY <2>1, <2>2, <2>3
<1>8. ASSUME NEW x \in Range(a), x \in Range(b) PROVE FALSE
  <2>1. PICK i \in DOMAIN a : x = a[i]
    BY DEF Range
  <2>2. PICK j \in DOMAIN b : x = b[j]
    BY <1>8 DEF Range
  <2>3. i \in DOMAIN s /\ i <= k /\ s[i] = x
    BY <2>1, <1>4
  <2>4. k + j \in DOMAIN s /\ k + j > k /\ s[k + j] = x
    BY <2>2, <1>3
  <2>5. i = k + j
    BY <2>3, <2>4 DEF IsInjective
  <2> QED BY <2>3, <2>4, <2>5, <1>2
<1> QED BY <1>1, <1>5, <1>6, <1>7, <1>8 DEF a, b

\* An element inserted behind the first i of a list.
LEMMA InsertOne ==
  ASSUME NEW S, NEW s \in Seq(S), NEW i \in 0 .. Len(s), NEW e \in S, e \notin Range(s),
         IsInjective(s)
  PROVE  LET t == InsertAt(s, i + 1, e)
         IN  /\ t \in Seq(S) /\ Len(t) = Len(s) + 1
             /\ \A j \in 1 .. Len(t) :
                  t[j] = IF j <= i THEN s[j] ELSE IF j = i + 1 THEN e ELSE s[j-1]
             /\ IsInjective(t) /\ Range(t) = Range(s) \cup {e}
<1> DEFINE a == SubSeq(s, 1, i)
           b == SubSeq(s, i + 1, Len(s))
           c == <<e>> \o b
           t == InsertAt(s, i + 1, e)
<1>1. /\ a \in Seq(S) /\ Len(a) = i /\ \A j \in 1 .. i : a[j] = s[j]
      /\ b \in Seq(S) /\ Len(b) = Len(s) - i
      /\ \A j \in 1 .. Len(s) - i : b[j] = s[i + j]
      /\ IsInjective(a) /\ IsInjective(b)
      /\ Range(s) = Range(a) \cup Range(b) /\ Range(a) \cap Range(b) = {}
  BY Cut
<1>2. t = (a \o <<e>>) \o b
  <2>1. (i + 1) - 1 = i
    OBVIOUS
  <2>2. t = (SubSeq(s, 1, (i + 1) - 1) \o <<e>>) \o b
    BY DEF InsertAt
  <2> QED BY <2>1, <2>2
<1> HIDE DEF a, b, t
<1>3. /\ c \in Seq(S) /\ Len(c) = Len(b) + 1 /\ c[1] = e
      /\ \A j \in 2 .. Len(c) : c[j] = b[j-1]
      /\ Range(c) = Range(b) \cup {e}
      /\ IsInjective(c)
  <2>1. b \in Seq(S) /\ e \in S \ Range(b) /\ IsInjective(b)
    BY <1>1
  <2>2. /\ c \in Seq(S) /\ Len(c) = Len(b) + 1 /\ c[1] = e
        /\ \A j \in 2 .. Len(c) : c[j] = b[j-1]
    BY <2>1, PushFront
  <2>3. Range(c) = Range(b) \cup {e}
    BY <2>1, PushFrontRange
  <2>4. IsInjective(c)
    BY <2>1, PushFrontInjective
  <2> QED BY <2>2, <2>3, <2>4
<1>4. t = a \o c
  <2>1. <<e>> \in Seq(S)
    OBVIOUS
  <2> QED BY <1>1, <1>2, <2>1, ConcatAssociative
<1> HIDE DEF c
<1>5. /\ t \in Seq(S)
      /\ Range(t) = Range(a) \cup Range(c)
      /\ IsInjective(t)
  <2>1. Range(a) \cap Range(c) = {}
    BY <1>1, <1>3
  <2> QED BY <2>1, <1>1, <1>3, <1>4, Joined
<1>6. /\ Len(t) = Len(s) + 1
      /\ \A j \in 1 .. Len(t) : t[j] = IF j <= i THEN a[j] ELSE c[j - i]
  <2>1. /\ Len(t) = Len(a) + Len(c)
        /\ \A j \in 1 .. Len(a) + Len(c) :
              t[j] = IF j <= Len(a) THEN a[j] ELSE c[j - Len(a)]
    BY <1>1, <1>3, <1>4, ConcatProperties
  <2>2. Len(a) + Len(c) = Len(s) + 1
    BY <1>1, <1>3
  <2> QED BY <1>1, <2>1, <2>2
<1>7. ASSUME NEW j \in 1 .. Len(t)
      PROVE  t[j] = IF j <= i THEN s[j] ELSE IF j = i + 1 THEN e ELSE s[j-1]
  <2>1. CASE j <= i
    BY <2>1, <1>1, <1>6
  <2>2. CASE j = i + 1
    BY <2>2, <1>3, <1>6
  <2>3. CASE j > i + 1
    <3>1. /\ j - i \in 2 .. Len(c) /\ (j - i) - 1 \in 1 .. Len(s) - i
          /\ i + ((j - i) - 1) = j - 1
      BY <2>3, <1>1, <1>3, <1>6
    <3>2. c[j - i] = b[(j - i) - 1] /\ b[(j - i) - 1] = s[i + ((j - i) - 1)]
      BY <3>1, <1>1, <1>3
    <3> QED BY <2>3, <3>1, <3>2, <1>6
  <2> QED BY <2>1, <2>2, <2>3
<1> QED BY <1>1, <1>3, <1>5, <1>6, <1>7 DEF t

\* The first of a list without repetition is taken off it.
LEMMA PopFront ==
  ASSUME NEW S, NEW s \in Seq(S), s # <<>>, IsInjective(s)
  PROVE  /\ Head(s) \in S /\ Tail(s) \in Seq(S) /\ IsInjective(Tail(s))
         /\ Head(s) \in Range(s) /\ Range(Tail(s)) = Range(s) \ {Head(s)}
<1>1. Len(s) \in Nat /\ Len(s) # 0 /\ DOMAIN s = 1 .. Len(s)
  BY EmptySeq
<1>2. /\ Tail(s) \in Seq(S) /\ Len(Tail(s)) = Len(s) - 1
      /\ \A i \in 1 .. Len(s) - 1 : Tail(s)[i] = s[i+1]
      /\ DOMAIN Tail(s) = 1 .. Len(s) - 1
  BY <1>1
<1>3. Head(s) = s[1] /\ 1 \in DOMAIN s /\ s[1] \in S
  BY <1>1
<1> DEFINE t == Tail(s)
<1> HIDE DEF t
<1>4. ASSUME NEW i \in DOMAIN t PROVE i + 1 \in DOMAIN s /\ i + 1 # 1 /\ t[i] = s[i+1]
  BY <1>1, <1>2 DEF t
<1>5. IsInjective(t)
  <2>1. ASSUME NEW i \in DOMAIN t, NEW j \in DOMAIN t, t[i] = t[j] PROVE i = j
    <3>1. i + 1 = j + 1
      BY <2>1, <1>4 DEF IsInjective
    <3>2. i \in Int /\ j \in Int
      BY <1>1, <1>2 DEF t
    <3> QED BY <3>1, <3>2
  <2> QED BY <2>1 DEF IsInjective
<1>6. ASSUME NEW x \in Range(t) PROVE x \in Range(s) \ {s[1]}
  <2>1. PICK i \in DOMAIN t : x = t[i]
    BY DEF Range
  <2>2. x = s[i+1] /\ i + 1 \in DOMAIN s /\ i + 1 # 1
    BY <2>1, <1>4
  <2>3. s[i+1] # s[1]
    BY <2>2, <1>3 DEF IsInjective
  <2> QED BY <2>2, <2>3 DEF Range
<1>7. ASSUME NEW x \in Range(s) \ {s[1]} PROVE x \in Range(t)
  <2>1. PICK i \in DOMAIN s : x = s[i] /\ i # 1
    BY DEF Range
  <2>2. i - 1 \in DOMAIN t /\ (i - 1) + 1 = i
    BY <2>1, <1>1, <1>2 DEF t
  <2>3. t[i-1] = x
    BY <2>1, <2>2, <1>4
  <2> QED BY <2>2, <2>3 DEF Range
<1>8. s[1] \in Range(s)
  BY <1>3 DEF Range
<1>9. Range(t) = Range(s) \ {s[1]}
  BY <1>6, <1>7
<1> QED BY <1>2, <1>3, <1>5, <1>8, <1>9 DEF t
-----------------------------------------------------------------------------
(* Induction along a list *)

\* Induction on places: what is true of 0, and of i when it is of i - 1, is true of all.
LEMMA PlaceInduction ==
  ASSUME NEW n \in Nat, NEW T, 0 \in T, \A i \in 1 .. n : i - 1 \in T => i \in T
  PROVE  \A i \in 0 .. n : i \in T
<1> DEFINE B == {i \in 0 .. n : i \notin T}
<1> SUFFICES ASSUME B # {} PROVE FALSE
  OBVIOUS
<1>1. B \subseteq Nat
  OBVIOUS
<1>2. \E i \in B : \A k \in B : ~ (<<k, i>> \in OpToRel(<, Nat))
  BY <1>1, NatLessThanWellFounded, WFMin
<1>3. PICK i \in B : \A k \in B : ~ (<<k, i>> \in OpToRel(<, Nat))
  BY <1>2
<1>4. i \in 0 .. n /\ i \notin T /\ i # 0
  BY <1>3
<1>5. i \in 1 .. n /\ i - 1 \in 0 .. n /\ i - 1 < i /\ i - 1 \in Nat /\ i \in Nat
  BY <1>4
<1>6. i - 1 \in B
  BY <1>4, <1>5
<1>7. <<i - 1, i>> \in OpToRel(<, Nat)
  BY <1>5 DEF OpToRel
<1> QED BY <1>3, <1>6, <1>7

\* f is built from a step by step, up to place n.
Builds(f, n, A, a, step) ==
  /\ f \in [0 .. n -> A]
  /\ f[0] = a
  /\ \A i \in 1 .. n : f[i] = step[<<f[i-1], i>>]

\* A function that is defined by a step for every place exists,
LEMMA BuildsExists ==
  ASSUME NEW n \in Nat, NEW A, NEW a \in A, NEW step \in [A \X (1 .. n) -> A]
  PROVE  \E f : Builds(f, n, A, a, step)
<1> DEFINE T == {m \in 0 .. n : \E f : Builds(f, m, A, a, step)}
<1>1. 0 \in T
  <2> DEFINE f == [i \in 0 .. 0 |-> a]
  <2>1. Builds(f, 0, A, a, step)
    BY DEF Builds
  <2> HIDE DEF f
  <2> QED BY <2>1
<1>2. ASSUME NEW m \in 1 .. n, m - 1 \in T PROVE m \in T
  <2>1. PICK f : Builds(f, m - 1, A, a, step)
    BY <1>2
  <2> DEFINE b == step[<<f[m-1], m>>]
             g == [i \in 0 .. m |-> IF i = m THEN b ELSE f[i]]
  <2>2. m - 1 \in 0 .. m - 1 /\ f[m-1] \in A
    BY <2>1 DEF Builds
  <2>3. b \in A
    BY <2>2
  <2> HIDE DEF b
  <2>4. g \in [0 .. m -> A]
    <3>1. ASSUME NEW i \in 0 .. m PROVE g[i] \in A
      <4>1. CASE i = m
        BY <4>1, <2>3
      <4>2. CASE i # m
        <5>1. i \in 0 .. m - 1
          BY <4>2
        <5> QED BY <5>1, <4>2, <2>1 DEF Builds
      <4> QED BY <4>1, <4>2
    <3> QED BY <3>1
  <2>5. g[0] = a
    BY <2>1 DEF Builds
  <2>6. ASSUME NEW i \in 1 .. m PROVE g[i] = step[<<g[i-1], i>>]
    <3>1. CASE i = m
      <4>1. m - 1 \in 0 .. m /\ m - 1 # m
        OBVIOUS
      <4>2. g[m] = b /\ g[m-1] = f[m-1]
        BY <4>1
      <4> QED BY <3>1, <4>2 DEF b
    <3>2. CASE i # m
      <4>1. i \in 1 .. m - 1 /\ i - 1 \in 0 .. m /\ i - 1 # m
        BY <3>2
      <4>2. f[i] = step[<<f[i-1], i>>]
        BY <4>1, <2>1 DEF Builds
      <4> QED BY <4>1, <4>2, <3>2
    <3> QED BY <3>1, <3>2
  <2> HIDE DEF g
  <2>7. Builds(g, m, A, a, step)
    BY <2>4, <2>5, <2>6 DEF Builds
  <2> QED BY <2>7
<1>3. \A m \in 0 .. n : m \in T
  <2> HIDE DEF T
  <2> QED BY <1>1, <1>2, PlaceInduction
<1> QED BY <1>3

\* and is the only one.
LEMMA BuildsOne ==
  ASSUME NEW n \in Nat, NEW m \in 0 .. n, NEW A, NEW a, NEW step, NEW f, NEW g,
         Builds(f, n, A, a, step), g[0] = a, \A i \in 1 .. m : g[i] = step[<<g[i-1], i>>]
  PROVE  g[m] = f[m]
<1> DEFINE T == {i \in 0 .. m : g[i] = f[i]}
<1>1. 0 \in T
  BY DEF Builds
<1>2. ASSUME NEW i \in 1 .. m, i - 1 \in T PROVE i \in T
  <2>1. i \in 1 .. n /\ i \in 0 .. m
    OBVIOUS
  <2>2. f[i] = step[<<f[i-1], i>>]
    BY <2>1 DEF Builds
  <2>3. g[i-1] = f[i-1]
    BY <1>2
  <2> QED BY <2>1, <2>2, <2>3
<1>3. \A i \in 0 .. m : i \in T
  <2> HIDE DEF T
  <2> QED BY <1>1, <1>2, PlaceInduction
<1> QED BY <1>3
=============================================================================
