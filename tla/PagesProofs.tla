---------------------------- MODULE PagesProofs ----------------------------
(***************************************************************************)
(* For every page size, every list and any number of changes to it: a read *)
(* that nothing disturbs yields the list, whatever its length is a         *)
(* multiple of, and one that is disturbed misses and repeats no more than  *)
(* the changes account for.                                                *)
(***************************************************************************)
EXTENDS Pages, SequenceTheorems, FiniteSetTheorems, TLAPS

Still == inserted + removed = 0

\* A still list has its pages so far in got, and the next offset is within
\* it.
Inv ==
    /\ inserted \in Nat /\ removed \in Nat
    /\ pc = "idle" => Still
    /\ Still => list \in Seq(Elements)
    /\ Still /\ pc = "reading" /\ paged =>
          first \in 0..Len(list) /\ got = SubSeq(list, 1, first)
    /\ StillListIsReadExactly

LEMMA MinOfTwo ==
    ASSUME NEW a \in Nat, NEW b \in Nat
    PROVE  Min({a, b}) = IF a <= b THEN a ELSE b
  BY DEF Min

LEMMA InvInit == Init => Inv
  <1> SUFFICES ASSUME Init PROVE Inv
    OBVIOUS
  <1>1. list \in Seq(Elements)
    BY PagesAssumption DEF Init
  <1> QED
    BY <1>1 DEF Init, Inv, Still, StillListIsReadExactly

\* The page at an offset within the list goes on where the pages before end;
\* it is the last one only if it reaches the end of the list.
LEMMA PageAppends ==
    ASSUME list \in Seq(Elements), first \in 0..Len(list), got = SubSeq(list, 1, first)
    PROVE  /\ LastPage(Page(first)) => got \o Page(first) = list
           /\ ~LastPage(Page(first)) =>
                 /\ first + PageSize \in 0..Len(list)
                 /\ got \o Page(first) = SubSeq(list, 1, first + PageSize)
  <1> DEFINE m == IF first + PageSize <= Len(list) THEN first + PageSize ELSE Len(list)
  <1>1. PageSize \in Nat \ {0} /\ Len(list) \in Nat /\ first \in Nat
    BY PagesAssumption
  <1>2. Page(first) = SubSeq(list, first + 1, m)
    BY <1>1, MinOfTwo DEF Page
  <1>3. m \in first..Len(list)
    BY <1>1
  <1>4. got \o Page(first) = SubSeq(list, 1, m)
    <2>1. 1 \in 1..Len(list) + 1 /\ first \in 1 - 1..Len(list) /\ m \in first..Len(list)
      BY <1>1, <1>3
    <2> HIDE DEF m
    <2>2. SubSeq(list, 1, first) \o SubSeq(list, first + 1, m) = SubSeq(list, 1, m)
      BY <2>1, ConcatAdjacentSubSeq
    <2> QED
      BY <1>2, <2>2
  <1>5. Len(Page(first)) = m - first
    <2>1. /\ first + 1 \in Int /\ m \in Int
          /\ \A i \in first + 1..m : list[i] \in Elements
      BY <1>1, <1>3
    <2> HIDE DEF m
    <2>2. Len(SubSeq(list, first + 1, m)) = IF first + 1 <= m THEN m - (first + 1) + 1 ELSE 0
      BY <2>1, SubSeqProperties
    <2> QED
      BY <1>1, <1>2, <1>3, <2>1, <2>2
  <1>6. SubSeq(list, 1, Len(list)) = list
    BY SubSeqFull
  <1>7. LastPage(Page(first)) <=> m - first < PageSize
    <2>1. Page(first) = <<>> => Len(Page(first)) = 0
      OBVIOUS
    <2> HIDE DEF m
    <2> QED
      BY <1>1, <1>3, <1>5, <2>1 DEF LastPage
  <1>8. CASE first + PageSize <= Len(list)
    <2>1. m = first + PageSize
      BY <1>8
    <2>2. LastPage(Page(first)) <=> FALSE
      BY <1>1, <1>7, <2>1
    <2> QED
      BY <1>1, <1>4, <1>8, <2>1, <2>2
  <1>9. CASE ~(first + PageSize <= Len(list))
    <2>1. m = Len(list)
      BY <1>9
    <2>2. LastPage(Page(first))
      BY <1>1, <1>7, <1>9, <2>1
    <2> QED
      BY <1>4, <1>6, <2>1, <2>2
  <1> QED
    BY <1>8, <1>9

LEMMA InvNext == Inv /\ [Next]_vars => Inv'
  <1> SUFFICES ASSUME Inv, [Next]_vars PROVE Inv'
    OBVIOUS
  <1> USE DEF Inv, Still, StillListIsReadExactly
  <1>1. CASE Add
    BY <1>1 DEF Add, MayChange, readVars
  <1>2. CASE Delete
    BY <1>2 DEF Delete, MayChange, readVars
  <1>3. CASE Authenticate \/ Expire
    BY <1>3 DEF Authenticate, Expire, kcVars, readVars, history
  <1>4. CASE Begin
    <2>1. list \in Seq(Elements) /\ Still
      BY <1>4 DEF Begin
    <2>2. SubSeq(list, 1, 0) = <<>> /\ Len(list) \in Nat
      BY <2>1, SubSeqEmpty
    <2> QED
      BY <1>4, <2>1, <2>2 DEF Begin, kcVars
  <1>5. CASE Fetch
    <2>1. CASE Still
      BY <1>5, <2>1, PageAppends DEF Fetch, NextOffset, kcVars, history
    <2>2. CASE ~Still
      BY <1>5, <2>2 DEF Fetch, kcVars, history
    <2> QED
      BY <2>1, <2>2
  <1>6. CASE FetchWhole
    BY <1>6 DEF FetchWhole, kcVars, history
  <1>7. CASE Raise
    BY <1>7 DEF Raise, kcVars, history
  <1>8. CASE UNCHANGED vars
    BY <1>8 DEF vars, kcVars, readVars, history
  <1> QED
    BY <1>1, <1>2, <1>3, <1>4, <1>5, <1>6, <1>7, <1>8 DEF Next, Client, Settled

\* A list that nobody touches is read whole, in its order and once, for every
\* page size and every length.
THEOREM StillListsAreReadExactly == Spec => []StillListIsReadExactly
  BY InvInit, InvNext, PTL DEF Spec, Inv

-----------------------------------------------------------------------------
\* Sequences: what InsertAt and RemoveAt make of one, element by element.

LEMMA Inserted ==
    ASSUME NEW S, NEW s \in Seq(S), NEW i \in 1..Len(s) + 1, NEW e \in S
    PROVE  /\ InsertAt(s, i, e) \in Seq(S)
           /\ Len(InsertAt(s, i, e)) = Len(s) + 1
           /\ \A j \in 1..Len(s) + 1 :
                 InsertAt(s, i, e)[j] = IF j < i THEN s[j] ELSE IF j = i THEN e ELSE s[j - 1]
  <1> DEFINE a == SubSeq(s, 1, i - 1)
             b == SubSeq(s, i, Len(s))
             t == a \o <<e>>
  <1>1. Len(s) \in Nat /\ i \in Nat /\ \A j \in 1..Len(s) : s[j] \in S
    OBVIOUS
  <1>2. a \in Seq(S) /\ Len(a) = i - 1 /\ \A j \in 1..i - 1 : a[j] = s[j]
    <2>1. 1 \in Int /\ i - 1 \in Int /\ \A j \in 1..i - 1 : s[j] \in S
      BY <1>1
    <2> QED
      BY <1>1, <2>1, SubSeqProperties
  <1>3. /\ b \in Seq(S) /\ Len(b) = Len(s) - i + 1
        /\ \A j \in 1..Len(s) - i + 1 : b[j] = s[i + j - 1]
    <2>1. i \in Int /\ Len(s) \in Int /\ \A j \in i..Len(s) : s[j] \in S
      BY <1>1
    <2> QED
      BY <1>1, <2>1, SubSeqProperties
  <1> HIDE DEF a, b
  <1>4. t \in Seq(S) /\ Len(t) = i /\ t[i] = e /\ \A j \in 1..i - 1 : t[j] = s[j]
    BY <1>1, <1>2
  <1>5. InsertAt(s, i, e) = t \o b
    BY DEF InsertAt, a, b
  <1> HIDE DEF t
  <1>6. /\ t \o b \in Seq(S) /\ Len(t \o b) = Len(t) + Len(b)
        /\ \A j \in 1..Len(t) + Len(b) :
              (t \o b)[j] = IF j <= Len(t) THEN t[j] ELSE b[j - Len(t)]
    BY <1>3, <1>4, ConcatProperties
  <1>7. Len(t) + Len(b) = Len(s) + 1
    BY <1>1, <1>3, <1>4
  <1>8. ASSUME NEW j \in 1..Len(s) + 1
        PROVE (t \o b)[j] = IF j < i THEN s[j] ELSE IF j = i THEN e ELSE s[j - 1]
    <2>1. CASE j <= i
      BY <1>1, <1>4, <1>6, <1>7, <2>1
    <2>2. CASE ~(j <= i)
      <3>1. (t \o b)[j] = b[j - i] /\ j - i \in 1..Len(s) - i + 1
        BY <1>1, <1>4, <1>6, <1>7, <2>2
      <3>2. i + (j - i) - 1 = j - 1
        BY <1>1
      <3> QED
        BY <1>1, <1>3, <2>2, <3>1, <3>2
    <2> QED
      BY <2>1, <2>2
  <1> QED
    BY <1>5, <1>6, <1>7, <1>8

LEMMA Removed ==
    ASSUME NEW S, NEW s \in Seq(S), NEW i \in 1..Len(s)
    PROVE  /\ RemoveAt(s, i) \in Seq(S)
           /\ Len(RemoveAt(s, i)) = Len(s) - 1
           /\ \A j \in 1..Len(s) - 1 : RemoveAt(s, i)[j] = IF j < i THEN s[j] ELSE s[j + 1]
  <1> DEFINE a == SubSeq(s, 1, i - 1)
             b == SubSeq(s, i + 1, Len(s))
  <1>1. Len(s) \in Nat /\ i \in Nat /\ \A j \in 1..Len(s) : s[j] \in S
    OBVIOUS
  <1>2. a \in Seq(S) /\ Len(a) = i - 1 /\ \A j \in 1..i - 1 : a[j] = s[j]
    <2>1. 1 \in Int /\ i - 1 \in Int /\ \A j \in 1..i - 1 : s[j] \in S
      BY <1>1
    <2> QED
      BY <1>1, <2>1, SubSeqProperties
  <1>3. b \in Seq(S) /\ Len(b) = Len(s) - i /\ \A j \in 1..Len(s) - i : b[j] = s[i + j]
    <2>1. i + 1 \in Int /\ Len(s) \in Int /\ \A j \in i + 1..Len(s) : s[j] \in S
      BY <1>1
    <2>2. /\ b \in Seq(S)
          /\ Len(b) = IF i + 1 <= Len(s) THEN Len(s) - (i + 1) + 1 ELSE 0
          /\ \A j \in 1..Len(s) - (i + 1) + 1 : b[j] = s[i + 1 + j - 1]
      BY <2>1, SubSeqProperties
    <2> HIDE DEF b
    <2>3. Len(b) = Len(s) - i
      BY <1>1, <2>2
    <2>4. ASSUME NEW j \in 1..Len(s) - i PROVE b[j] = s[i + j]
      <3>1. j \in 1..Len(s) - (i + 1) + 1 /\ i + 1 + j - 1 = i + j
        BY <1>1
      <3> QED
        BY <2>2, <3>1
    <2> QED
      BY <2>2, <2>3, <2>4
  <1>5. RemoveAt(s, i) = a \o b
    BY DEF RemoveAt
  <1> HIDE DEF a, b
  <1>6. /\ a \o b \in Seq(S) /\ Len(a \o b) = Len(a) + Len(b)
        /\ \A j \in 1..Len(a) + Len(b) :
              (a \o b)[j] = IF j <= Len(a) THEN a[j] ELSE b[j - Len(a)]
    BY <1>2, <1>3, ConcatProperties
  <1>7. Len(a) + Len(b) = Len(s) - 1
    BY <1>1, <1>2, <1>3
  <1>8. ASSUME NEW j \in 1..Len(s) - 1
        PROVE (a \o b)[j] = IF j < i THEN s[j] ELSE s[j + 1]
    <2>1. CASE j < i
      BY <1>1, <1>2, <1>6, <1>7, <2>1
    <2>2. CASE ~(j < i)
      <3>1. (a \o b)[j] = b[j - (i - 1)] /\ j - (i - 1) \in 1..Len(s) - i
        BY <1>1, <1>2, <1>6, <1>7, <2>2
      <3>2. i + (j - (i - 1)) = j + 1
        BY <1>1
      <3> QED
        BY <1>1, <1>3, <2>2, <3>1, <3>2
    <2> QED
      BY <2>1, <2>2
  <1> QED
    BY <1>5, <1>6, <1>7, <1>8

LEMMA NextIsAPage ==
    ASSUME NEW n \in Nat, n % PageSize = 0
    PROVE  (n + PageSize) % PageSize = 0
  BY PagesAssumption

LEMMA InsertedSet ==
    ASSUME NEW S, NEW s \in Seq(S), IsInjective(s), NEW i \in 1..Len(s) + 1,
           NEW e \in S \ ToSet(s)
    PROVE  /\ IsInjective(InsertAt(s, i, e))
           /\ ToSet(InsertAt(s, i, e)) = ToSet(s) \cup {e}
  <1> DEFINE t == InsertAt(s, i, e)
  <1>1. /\ t \in Seq(S) /\ Len(t) = Len(s) + 1
        /\ \A j \in 1..Len(s) + 1 : t[j] = IF j < i THEN s[j] ELSE IF j = i THEN e ELSE s[j - 1]
    BY Inserted
  <1>2. /\ Len(s) \in Nat /\ i \in Nat
        /\ DOMAIN s = 1..Len(s) /\ DOMAIN t = 1..Len(s) + 1
    BY <1>1
  <1> HIDE DEF t
  <1>3. \A j \in 1..Len(s) : s[j] # e
    BY <1>2 DEF ToSet
  <1>4. ASSUME NEW j \in 1..Len(s) + 1, NEW k \in 1..Len(s) + 1, t[j] = t[k]
        PROVE  j = k
    <2>1. \A m, n \in 1..Len(s) : s[m] = s[n] => m = n
      BY <1>2 DEF IsInjective
    <2>2. /\ j < i => j \in 1..Len(s) /\ t[j] = s[j]
          /\ j = i => t[j] = e
          /\ j > i => j - 1 \in 1..Len(s) /\ t[j] = s[j - 1]
      BY <1>1, <1>2
    <2>3. /\ k < i => k \in 1..Len(s) /\ t[k] = s[k]
          /\ k = i => t[k] = e
          /\ k > i => k - 1 \in 1..Len(s) /\ t[k] = s[k - 1]
      BY <1>1, <1>2
    <2> QED
      BY <1>2, <1>3, <1>4, <2>1, <2>2, <2>3
  <1>5. ASSUME NEW x \in ToSet(s) \cup {e} PROVE x \in ToSet(t)
    <2>1. CASE x = e
      BY <1>1, <1>2, <2>1 DEF ToSet
    <2>2. CASE x \in ToSet(s)
      <3>1. PICK j \in 1..Len(s) : x = s[j]
        BY <1>2, <2>2 DEF ToSet
      <3>2. CASE j < i
        BY <1>1, <1>2, <3>1, <3>2 DEF ToSet
      <3>3. CASE ~(j < i)
        <4>1. j + 1 \in 1..Len(s) + 1 /\ t[j + 1] = s[j]
          BY <1>1, <1>2, <3>3
        <4> QED
          BY <1>2, <3>1, <4>1 DEF ToSet
      <3> QED
        BY <3>2, <3>3
    <2> QED
      BY <2>1, <2>2
  <1>6. ASSUME NEW x \in ToSet(t) PROVE x \in ToSet(s) \cup {e}
    <2>1. PICK j \in 1..Len(s) + 1 : x = t[j]
      BY <1>2 DEF ToSet
    <2>2. CASE j < i
      BY <1>1, <1>2, <2>1, <2>2 DEF ToSet
    <2>3. CASE j = i
      BY <1>1, <1>2, <2>1, <2>3
    <2>4. CASE ~(j < i) /\ j # i
      <3>1. j - 1 \in 1..Len(s) /\ t[j] = s[j - 1]
        BY <1>1, <1>2, <2>4
      <3> QED
        BY <1>2, <2>1, <3>1 DEF ToSet
    <2> QED
      BY <2>2, <2>3, <2>4
  <1>7. IsInjective(t)
    BY <1>2, <1>4 DEF IsInjective
  <1> QED
    BY <1>5, <1>6, <1>7 DEF t

LEMMA RemovedSet ==
    ASSUME NEW S, NEW s \in Seq(S), IsInjective(s), NEW i \in 1..Len(s)
    PROVE  /\ IsInjective(RemoveAt(s, i))
           /\ ToSet(RemoveAt(s, i)) = ToSet(s) \ {s[i]}
  <1> DEFINE t == RemoveAt(s, i)
  <1>1. /\ t \in Seq(S) /\ Len(t) = Len(s) - 1
        /\ \A j \in 1..Len(s) - 1 : t[j] = IF j < i THEN s[j] ELSE s[j + 1]
    BY Removed
  <1>2. /\ Len(s) \in Nat /\ i \in Nat
        /\ DOMAIN s = 1..Len(s) /\ DOMAIN t = 1..Len(s) - 1
    BY <1>1
  <1> HIDE DEF t
  <1>3. \A m, n \in 1..Len(s) : s[m] = s[n] => m = n
    BY <1>2 DEF IsInjective
  <1>4. ASSUME NEW j \in 1..Len(s) - 1, NEW k \in 1..Len(s) - 1, t[j] = t[k]
        PROVE  j = k
    <2>1. /\ j < i => j \in 1..Len(s) /\ t[j] = s[j]
          /\ ~(j < i) => j + 1 \in 1..Len(s) /\ t[j] = s[j + 1]
      BY <1>1, <1>2
    <2>2. /\ k < i => k \in 1..Len(s) /\ t[k] = s[k]
          /\ ~(k < i) => k + 1 \in 1..Len(s) /\ t[k] = s[k + 1]
      BY <1>1, <1>2
    <2> QED
      BY <1>2, <1>3, <1>4, <2>1, <2>2
  <1>5. ASSUME NEW x \in ToSet(s) \ {s[i]} PROVE x \in ToSet(t)
    <2>1. PICK j \in 1..Len(s) : x = s[j] /\ j # i
      BY <1>2 DEF ToSet
    <2>2. CASE j < i
      BY <1>1, <1>2, <2>1, <2>2 DEF ToSet
    <2>3. CASE ~(j < i)
      <3>1. j - 1 \in 1..Len(s) - 1 /\ t[j - 1] = s[j]
        BY <1>1, <1>2, <2>1, <2>3
      <3> QED
        BY <1>2, <2>1, <3>1 DEF ToSet
    <2> QED
      BY <2>2, <2>3
  <1>6. ASSUME NEW x \in ToSet(t) PROVE x \in ToSet(s) \ {s[i]}
    <2>1. PICK j \in 1..Len(s) - 1 : x = t[j]
      BY <1>2 DEF ToSet
    <2>2. PICK k \in 1..Len(s) : k # i /\ t[j] = s[k]
      BY <1>1, <1>2
    <2>3. s[k] # s[i]
      BY <1>3, <2>2
    <2> QED
      BY <1>2, <2>1, <2>2, <2>3 DEF ToSet
  <1>7. IsInjective(t)
    BY <1>2, <1>4 DEF IsInjective
  <1> QED
    BY <1>5, <1>6, <1>7 DEF t

LEMMA FiniteRange ==
    ASSUME NEW S, NEW s \in Seq(S)
    PROVE  /\ IsFiniteSet(ToSet(s)) /\ Cardinality(ToSet(s)) \in Nat
           /\ Cardinality(ToSet(s)) <= Len(s)
           /\ IsInjective(s) => Cardinality(ToSet(s)) = Len(s)
  <1>1. Len(s) \in Nat /\ DOMAIN s = 1..Len(s)
    OBVIOUS
  <1>2. IsFiniteSet(1..Len(s)) /\ Cardinality(1..Len(s)) = Len(s)
    BY <1>1, FS_Interval
  <1>3. s \in Surjection(1..Len(s), ToSet(s))
    BY <1>1 DEF Surjection, ToSet
  <1>4. /\ IsFiniteSet(ToSet(s))
        /\ Cardinality(ToSet(s)) <= Cardinality(1..Len(s))
        /\ Cardinality(ToSet(s)) = Cardinality(1..Len(s)) <=> s \in Injection(1..Len(s), ToSet(s))
    BY <1>2, <1>3, FS_Surjection
  <1>5. IsInjective(s) => s \in Injection(1..Len(s), ToSet(s))
    BY <1>1, <1>3 DEF Injection, Surjection
  <1> QED
    BY <1>2, <1>4, <1>5, FS_CardinalityType

LEMMA ConcatSet ==
    ASSUME NEW S, NEW s \in Seq(S), NEW t \in Seq(S)
    PROVE  /\ s \o t \in Seq(S) /\ Len(s \o t) = Len(s) + Len(t)
           /\ ToSet(s \o t) = ToSet(s) \cup ToSet(t)
  <1>1. /\ s \o t \in Seq(S) /\ Len(s \o t) = Len(s) + Len(t)
        /\ \A i \in 1..Len(s) + Len(t) : (s \o t)[i] = IF i <= Len(s) THEN s[i] ELSE t[i - Len(s)]
    BY ConcatProperties
  <1>2. /\ Len(s) \in Nat /\ Len(t) \in Nat /\ DOMAIN s = 1..Len(s) /\ DOMAIN t = 1..Len(t)
        /\ DOMAIN (s \o t) = 1..Len(s) + Len(t)
    BY <1>1
  <1> DEFINE u == s \o t
  <1> HIDE DEF u
  <1>3. ASSUME NEW x \in ToSet(u) PROVE x \in ToSet(s) \cup ToSet(t)
    <2>1. PICK i \in 1..Len(s) + Len(t) : x = u[i]
      BY <1>2 DEF ToSet, u
    <2>2. CASE i <= Len(s)
      BY <1>1, <1>2, <2>1, <2>2 DEF ToSet, u
    <2>3. CASE ~(i <= Len(s))
      <3>1. i - Len(s) \in 1..Len(t) /\ u[i] = t[i - Len(s)]
        BY <1>1, <1>2, <2>3 DEF u
      <3> QED
        BY <1>2, <2>1, <3>1 DEF ToSet
    <2> QED
      BY <2>2, <2>3
  <1>4. ASSUME NEW x \in ToSet(s) PROVE x \in ToSet(u)
    <2>1. PICK i \in 1..Len(s) : x = s[i]
      BY <1>2 DEF ToSet
    <2>2. i \in 1..Len(s) + Len(t) /\ u[i] = s[i]
      BY <1>1, <1>2 DEF u
    <2> QED
      BY <1>2, <2>1, <2>2 DEF ToSet, u
  <1>5. ASSUME NEW x \in ToSet(t) PROVE x \in ToSet(u)
    <2>1. PICK i \in 1..Len(t) : x = t[i]
      BY <1>2 DEF ToSet
    <2>2. /\ i + Len(s) \in 1..Len(s) + Len(t) /\ ~(i + Len(s) <= Len(s))
          /\ i + Len(s) - Len(s) = i
      BY <1>2
    <2>3. u[i + Len(s)] = t[i]
      BY <1>1, <2>2 DEF u
    <2> QED
      BY <1>2, <2>1, <2>2, <2>3 DEF ToSet, u
  <1> QED
    BY <1>1, <1>3, <1>4, <1>5 DEF u

LEMMA OneMore ==
    ASSUME NEW A, IsFiniteSet(A), NEW x, NEW B \in SUBSET (A \cup {x})
    PROVE  IsFiniteSet(B) /\ Cardinality(B) \in Nat /\ Cardinality(B) <= Cardinality(A) + 1
  <1>1. /\ IsFiniteSet(A \cup {x}) /\ Cardinality(A) \in Nat
        /\ Cardinality(A \cup {x}) = IF x \in A THEN Cardinality(A) ELSE Cardinality(A) + 1
    BY FS_AddElement, FS_CardinalityType
  <1>2. IsFiniteSet(B) /\ Cardinality(B) <= Cardinality(A \cup {x})
    BY <1>1, FS_Subset
  <1>3. Cardinality(B) \in Nat /\ Cardinality(A \cup {x}) \in Nat
    BY <1>1, <1>2, FS_CardinalityType
  <1> QED
    BY <1>1, <1>2, <1>3

-----------------------------------------------------------------------------
\* Types.

LEMMA TypeInit == Init => TypeOK
  <1> SUFFICES ASSUME Init PROVE TypeOK
    OBVIOUS
  <1>1. list \in Seq(Elements) /\ IsInjective(list)
    BY PagesAssumption DEF Init
  <1>2. ToSet(list) \subseteq Elements
    <2>1. DOMAIN list = 1..Len(list) /\ \A i \in 1..Len(list) : list[i] \in Elements
      BY <1>1
    <2> QED
      BY <2>1 DEF ToSet
  <1>3. 0 % PageSize = 0
    BY PagesAssumption
  <1> QED
    BY <1>1, <1>2, <1>3 DEF Init, TypeOK

\* A page is what the list has from the offset on, and it ends where the next
\* one begins or with the list.
LEMMA PageIs ==
    ASSUME list \in Seq(Elements), first \in Nat
    PROVE  /\ Page(first) \in Seq(Elements)
           /\ \A j \in 1..Len(Page(first)) :
                 first + j \in 1..Len(list) /\ j <= PageSize /\ Page(first)[j] = list[first + j]
           /\ \A i \in 1..Len(list) :
                 first < i /\ i <= first + PageSize => i - first \in 1..Len(Page(first))
           /\ LastPage(Page(first)) => Len(list) <= first + PageSize
  <1> DEFINE m == IF first + PageSize <= Len(list) THEN first + PageSize ELSE Len(list)
  <1>1. PageSize \in Nat \ {0} /\ Len(list) \in Nat /\ first \in Nat
    BY PagesAssumption
  <1>2. Page(first) = SubSeq(list, first + 1, m)
    <2>1. first + PageSize \in Nat
      BY <1>1
    <2>2. Min({first + PageSize, Len(list)}) = m
      BY <1>1, <2>1, MinOfTwo
    <2> QED
      BY <2>2 DEF Page
  <1>3. m \in Nat /\ m <= Len(list) /\ m <= first + PageSize
    BY <1>1
  <1>4. \A i \in 1..Len(list) : i <= first + PageSize => i <= m
    BY <1>1
  <1>5. m = first + PageSize \/ m = Len(list)
    BY <1>1
  <1>6. m = Len(list) => Len(list) <= first + PageSize
    BY <1>1
  <1> HIDE DEF m
  <1>7. /\ Page(first) \in Seq(Elements)
        /\ Len(Page(first)) = IF first + 1 <= m THEN m - (first + 1) + 1 ELSE 0
        /\ \A j \in 1..m - (first + 1) + 1 : Page(first)[j] = list[first + 1 + j - 1]
    <2>1. first + 1 \in Int /\ m \in Int /\ \A i \in first + 1..m : list[i] \in Elements
      BY <1>1, <1>3
    <2> QED
      BY <1>2, <2>1, SubSeqProperties
  <1>8. ASSUME NEW j \in 1..Len(Page(first))
        PROVE  first + j \in 1..Len(list) /\ j <= PageSize /\ Page(first)[j] = list[first + j]
    <2>1. j \in 1..m - (first + 1) + 1 /\ first + 1 + j - 1 = first + j
      BY <1>1, <1>3, <1>7
    <2> QED
      BY <1>1, <1>3, <1>7, <2>1
  <1>9. ASSUME NEW i \in 1..Len(list), first < i, i <= first + PageSize
        PROVE  i - first \in 1..Len(Page(first))
    BY <1>1, <1>3, <1>4, <1>7, <1>9
  <1>10. ASSUME LastPage(Page(first)) PROVE Len(list) <= first + PageSize
    <2>1. Len(Page(first)) < PageSize
      BY <1>1, <1>10 DEF LastPage
    <2> QED
      BY <1>1, <1>3, <1>5, <1>6, <1>7, <2>1
  <1> QED
    BY <1>7, <1>8, <1>9, <1>10

LEMMA TypeNext == TypeOK /\ [Next]_vars => TypeOK'
  <1> SUFFICES ASSUME TypeOK, [Next]_vars PROVE TypeOK'
    OBVIOUS
  <1>0. Len(list) \in Nat /\ DOMAIN list = 1..Len(list)
    BY DEF TypeOK
  <1>1. CASE Add
    <2>1. PICK i \in 1..Len(list) + 1, e \in Elements \ used :
             list' = InsertAt(list, i, e) /\ used' = used \cup {e}
      BY <1>1 DEF Add
    <2>2. list \in Seq(Elements) /\ e \in Elements \ ToSet(list)
      BY <2>1 DEF TypeOK
    <2>3. list' \in Seq(Elements)
      BY <2>1, <2>2, Inserted
    <2>4. IsInjective(list') /\ ToSet(list') = ToSet(list) \cup {e}
      BY <2>1, <2>2, InsertedSet DEF TypeOK
    <2> QED
      BY <1>1, <2>1, <2>3, <2>4 DEF Add, TypeOK, readVars
  <1>2. CASE Delete
    <2>1. PICK i \in 1..Len(list) :
             list' = RemoveAt(list, i) /\ stayed' = stayed \ {list[i]}
      BY <1>2 DEF Delete
    <2>2. list \in Seq(Elements)
      BY DEF TypeOK
    <2>3. list' \in Seq(Elements)
      BY <2>1, <2>2, Removed
    <2>4. IsInjective(list') /\ ToSet(list') = ToSet(list) \ {list[i]}
      BY <2>1, <2>2, RemovedSet DEF TypeOK
    <2> QED
      BY <1>2, <2>1, <2>3, <2>4 DEF Delete, TypeOK, readVars
  <1>3. CASE Authenticate \/ Expire
    BY <1>3 DEF Authenticate, Expire, TypeOK, kcVars, readVars, history
  <1>4. CASE Begin
    <2>1. 0 % PageSize = 0 /\ <<>> \in Seq(Elements)
      BY PagesAssumption
    <2> QED
      BY <1>4, <2>1 DEF Begin, TypeOK, kcVars
  <1>5. CASE Fetch
    <2>1. Page(first) \in Seq(Elements)
      BY PageIs DEF TypeOK
    <2>2. got \o Page(first) \in Seq(Elements)
      BY <2>1 DEF TypeOK
    <2>3. first + PageSize \in Nat /\ (first + PageSize) % PageSize = 0
      <3>1. first \in Nat /\ first % PageSize = 0
        BY DEF TypeOK
      <3>2. first + PageSize \in Nat
        BY <3>1, PagesAssumption
      <3>3. (first + PageSize) % PageSize = 0
        BY <3>1, NextIsAPage
      <3> QED
        BY <3>2, <3>3
    <2> QED
      BY <1>5, <2>2, <2>3 DEF Fetch, NextOffset, TypeOK, kcVars, history
  <1>6. CASE FetchWhole
    BY <1>6 DEF FetchWhole, TypeOK, kcVars, history
  <1>7. CASE Raise
    BY <1>7 DEF Raise, TypeOK, kcVars, history
  <1>8. CASE UNCHANGED vars
    BY <1>8 DEF TypeOK, vars, kcVars, readVars, history
  <1> QED
    BY <1>1, <1>2, <1>3, <1>4, <1>5, <1>6, <1>7, <1>8 DEF Next, Client, Settled

\* The variables of a read stay in their domains, and an unfinished read stands
\* at the beginning of a page, whatever becomes of the list.
THEOREM TypeCorrect == Spec => []TypeOK
  BY TypeInit, TypeNext, PTL DEF Spec

-----------------------------------------------------------------------------
\* Drift.  The offset divides the list; got need not be the part before it any
\* more once the list has changed.

Before(s, n) == {e \in ToSet(s) : \E i \in DOMAIN s : i <= n /\ s[i] = e}
After(s, n) == {e \in ToSet(s) : \E i \in DOMAIN s : i > n /\ s[i] = e}

\* What stayed and is behind the offset without having been yielded, and what
\* was yielded and will be once more.
Missed == (Before(list, first) \cap stayed) \ ToSet(got)
Again == After(list, first) \cap ToSet(got)
Repeats == Len(got) - Cardinality(ToSet(got))

\* Only elements that once were in the list are yielded; each that is missed
\* has a removal, and each that was or will be repeated an insertion.
DriftInv ==
    /\ TypeOK
    /\ ToSet(got) \subseteq used
    /\ pc = "idle" => got = <<>>
    /\ pc = "reading" /\ ~paged => got = <<>>
    /\ pc = "reading" /\ paged =>
          /\ Cardinality(Missed) <= removed
          /\ Repeats + Cardinality(Again) <= inserted
    /\ DriftBounded

LEMMA NothingYet ==
    /\ ToSet(<<>>) = {} /\ Cardinality({}) = 0 /\ IsFiniteSet({})
    /\ \A s : s = <<>> => Len(s) - Cardinality(ToSet(s)) = 0
  <1>1. ToSet(<<>>) = {}
    BY DEF ToSet
  <1>2. Len(<<>>) = 0
    OBVIOUS
  <1> QED
    BY <1>1, <1>2, FS_EmptySet

LEMMA DriftInit == Init => DriftInv
  <1> SUFFICES ASSUME Init PROVE DriftInv
    OBVIOUS
  <1>1. TypeOK
    BY TypeInit
  <1>2. got = <<>> /\ pc = "idle" /\ inserted = 0
    BY DEF Init
  <1>3. DriftBounded
    BY <1>2, NothingYet DEF DriftBounded
  <1> QED
    BY <1>1, <1>2, <1>3, NothingYet DEF DriftInv

\* What an insertion moves across the offset, and what a removal does.
LEMMA AddShifts ==
    ASSUME NEW S, NEW s \in Seq(S), IsInjective(s), NEW n \in Nat,
           NEW i \in 1..Len(s) + 1, NEW e \in S \ ToSet(s)
    PROVE  /\ Before(InsertAt(s, i, e), n) \subseteq Before(s, n) \cup {e}
           /\ After(InsertAt(s, i, e), n) \subseteq After(s, n) \cup {s[n], e}
  <1> DEFINE t == InsertAt(s, i, e)
  <1>1. /\ t \in Seq(S) /\ Len(t) = Len(s) + 1
        /\ \A j \in 1..Len(s) + 1 : t[j] = IF j < i THEN s[j] ELSE IF j = i THEN e ELSE s[j - 1]
    <2>1. e \in S
      OBVIOUS
    <2> QED
      BY <2>1, Inserted
  <1>2. /\ Len(s) \in Nat /\ i \in Nat
        /\ DOMAIN s = 1..Len(s) /\ DOMAIN t = 1..Len(s) + 1
    BY <1>1
  <1> HIDE DEF t
  <1>3. ASSUME NEW x \in Before(t, n) PROVE x \in Before(s, n) \cup {e}
    <2>1. PICK j \in 1..Len(s) + 1 : j <= n /\ x = t[j]
      BY <1>2, <1>3 DEF Before
    <2>2. x = e \/ \E k \in 1..Len(s) : k <= n /\ x = s[k]
      <3>1. CASE j < i
        BY <1>1, <1>2, <2>1, <3>1
      <3>2. CASE j = i
        BY <1>1, <1>2, <2>1, <3>2
      <3>3. CASE j > i
        <4>1. j - 1 \in 1..Len(s) /\ j - 1 <= n /\ x = s[j - 1]
          BY <1>1, <1>2, <2>1, <3>3
        <4> QED
          BY <4>1
      <3> QED
        BY <1>2, <3>1, <3>2, <3>3
    <2> QED
      BY <1>2, <2>2 DEF Before, ToSet
  <1>4. ASSUME NEW x \in After(t, n) PROVE x \in After(s, n) \cup {s[n], e}
    <2>1. PICK j \in 1..Len(s) + 1 : j > n /\ x = t[j]
      BY <1>2, <1>4 DEF After
    <2>2. x = e \/ x = s[n] \/ \E k \in 1..Len(s) : k > n /\ x = s[k]
      <3>1. CASE j < i
        BY <1>1, <1>2, <2>1, <3>1
      <3>2. CASE j = i
        BY <1>1, <1>2, <2>1, <3>2
      <3>3. CASE j > i /\ j - 1 > n
        BY <1>1, <1>2, <2>1, <3>3
      <3>4. CASE j > i /\ ~(j - 1 > n)
        <4>1. j - 1 = n
          BY <1>2, <2>1, <3>4
        <4> QED
          BY <1>1, <1>2, <2>1, <3>4, <4>1
      <3> QED
        BY <1>2, <3>1, <3>2, <3>3, <3>4
    <2> QED
      BY <1>2, <2>2 DEF After, ToSet
  <1> QED
    BY <1>3, <1>4 DEF t

LEMMA DeleteShifts ==
    ASSUME NEW S, NEW s \in Seq(S), IsInjective(s), NEW n \in Nat, NEW i \in 1..Len(s)
    PROVE  /\ Before(RemoveAt(s, i), n) \subseteq Before(s, n) \cup {s[n + 1]}
           /\ After(RemoveAt(s, i), n) \subseteq After(s, n)
  <1> DEFINE t == RemoveAt(s, i)
  <1>1. /\ t \in Seq(S) /\ Len(t) = Len(s) - 1
        /\ \A j \in 1..Len(s) - 1 : t[j] = IF j < i THEN s[j] ELSE s[j + 1]
    BY Removed
  <1>2. /\ Len(s) \in Nat /\ i \in Nat
        /\ DOMAIN s = 1..Len(s) /\ DOMAIN t = 1..Len(s) - 1
    BY <1>1
  <1> HIDE DEF t
  <1>3. ASSUME NEW x \in Before(t, n) PROVE x \in Before(s, n) \cup {s[n + 1]}
    <2>1. PICK j \in 1..Len(s) - 1 : j <= n /\ x = t[j]
      BY <1>2, <1>3 DEF Before
    <2>2. x = s[n + 1] \/ \E k \in 1..Len(s) : k <= n /\ x = s[k]
      <3>1. CASE j < i
        BY <1>1, <1>2, <2>1, <3>1
      <3>2. CASE ~(j < i) /\ j + 1 <= n
        BY <1>1, <1>2, <2>1, <3>2
      <3>3. CASE ~(j < i) /\ ~(j + 1 <= n)
        <4>1. j = n
          BY <1>2, <2>1, <3>3
        <4> QED
          BY <1>1, <1>2, <2>1, <3>3, <4>1
      <3> QED
        BY <3>1, <3>2, <3>3
    <2> QED
      BY <1>2, <2>2 DEF Before, ToSet
  <1>4. ASSUME NEW x \in After(t, n) PROVE x \in After(s, n)
    <2>1. PICK j \in 1..Len(s) - 1 : j > n /\ x = t[j]
      BY <1>2, <1>4 DEF After
    <2>2. \E k \in 1..Len(s) : k > n /\ x = s[k]
      BY <1>1, <1>2, <2>1
    <2> QED
      BY <1>2, <2>2 DEF After, ToSet
  <1> QED
    BY <1>3, <1>4 DEF t

\* A page is what the next offset has before it and this one has not.
LEMMA PageParts ==
    ASSUME TypeOK
    PROVE  /\ IsInjective(Page(first))
           /\ ToSet(Page(first)) \subseteq After(list, first)
           /\ Before(list, first + PageSize) = Before(list, first) \cup ToSet(Page(first))
           /\ After(list, first + PageSize) = After(list, first) \ ToSet(Page(first))
           /\ LastPage(Page(first)) =>
                 ToSet(list) \subseteq Before(list, first) \cup ToSet(Page(first))
  <1> DEFINE p == Page(first)
  <1>1. /\ list \in Seq(Elements) /\ first \in Nat /\ PageSize \in Nat \ {0}
        /\ Len(list) \in Nat /\ DOMAIN list = 1..Len(list)
        /\ \A i, j \in 1..Len(list) : list[i] = list[j] => i = j
    BY PagesAssumption DEF TypeOK, IsInjective
  <1>2. /\ p \in Seq(Elements)
        /\ \A j \in 1..Len(p) :
              first + j \in 1..Len(list) /\ j <= PageSize /\ p[j] = list[first + j]
        /\ \A i \in 1..Len(list) :
              first < i /\ i <= first + PageSize => i - first \in 1..Len(p)
        /\ LastPage(p) => Len(list) <= first + PageSize
    BY <1>1, PageIs
  <1> HIDE DEF p
  <1>3. Len(p) \in Nat /\ DOMAIN p = 1..Len(p)
    BY <1>2
  <1>4. ASSUME NEW x PROVE
           x \in ToSet(p) <=> \E i \in 1..Len(list) : first < i /\ i <= first + PageSize /\ x = list[i]
    <2>1. ASSUME x \in ToSet(p)
          PROVE  \E i \in 1..Len(list) : first < i /\ i <= first + PageSize /\ x = list[i]
      <3>1. PICK j \in 1..Len(p) : x = p[j]
        BY <1>3, <2>1 DEF ToSet
      <3>2. first < first + j /\ first + j <= first + PageSize
        BY <1>1, <1>2
      <3> QED
        BY <1>2, <3>1, <3>2
    <2>2. ASSUME NEW i \in 1..Len(list), first < i, i <= first + PageSize, x = list[i]
          PROVE  x \in ToSet(p)
      <3>1. i - first \in 1..Len(p)
        BY <1>2, <2>2
      <3>2. p[i - first] = list[first + (i - first)] /\ first + (i - first) = i
        BY <1>1, <1>2, <3>1
      <3> QED
        BY <1>3, <2>2, <3>1, <3>2 DEF ToSet
    <2> QED
      BY <2>1, <2>2
  <1>5. IsInjective(p)
    <2> SUFFICES ASSUME NEW a \in 1..Len(p), NEW b \in 1..Len(p), p[a] = p[b] PROVE a = b
      BY <1>3 DEF IsInjective
    <2>1. first + a = first + b
      BY <1>1, <1>2
    <2> QED
      BY <1>1, <2>1
  <1>6. \A n \in Nat : \A x : /\ x \in Before(list, n) <=> \E i \in 1..Len(list) : i <= n /\ x = list[i]
                              /\ x \in After(list, n) <=> \E i \in 1..Len(list) : i > n /\ x = list[i]
    BY <1>1 DEF Before, After, ToSet
  <1>7. first + PageSize \in Nat
    BY <1>1
  <1>8. ToSet(p) \subseteq After(list, first)
    BY <1>1, <1>4, <1>6
  <1>9. ASSUME NEW x
        PROVE  x \in Before(list, first + PageSize) <=> x \in Before(list, first) \cup ToSet(p)
    BY <1>1, <1>4, <1>6, <1>7
  <1>10. ASSUME NEW x
         PROVE  x \in After(list, first + PageSize) <=> x \in After(list, first) \ ToSet(p)
    <2>1. ASSUME x \in After(list, first + PageSize)
          PROVE  x \in After(list, first) /\ x \notin ToSet(p)
      <3>1. PICK i \in 1..Len(list) : i > first + PageSize /\ x = list[i]
        BY <1>6, <1>7, <2>1
      <3>2. i > first
        BY <1>1, <3>1
      <3>3. ~ \E j \in 1..Len(list) : j <= first + PageSize /\ x = list[j]
        BY <1>1, <1>7, <3>1
      <3> QED
        BY <1>1, <1>4, <1>6, <3>1, <3>2, <3>3
    <2>2. ASSUME x \in After(list, first), x \notin ToSet(p)
          PROVE  x \in After(list, first + PageSize)
      <3>1. PICK i \in 1..Len(list) : i > first /\ x = list[i]
        BY <1>1, <1>6, <2>2
      <3>2. ~(i <= first + PageSize)
        BY <1>1, <1>4, <2>2, <3>1
      <3>3. i > first + PageSize
        BY <1>7, <3>2
      <3> QED
        BY <1>6, <1>7, <3>1, <3>3
    <2> QED
      BY <2>1, <2>2
  <1>11. ASSUME LastPage(p), NEW x \in ToSet(list)
         PROVE  x \in Before(list, first) \cup ToSet(p)
    <2>1. PICK i \in 1..Len(list) : x = list[i]
      BY <1>1, <1>11 DEF ToSet
    <2>2. i <= first + PageSize
      BY <1>1, <1>2, <1>11
    <2>3. x \in Before(list, first + PageSize)
      BY <1>6, <1>7, <2>1, <2>2
    <2> QED
      BY <1>9, <2>3
  <1>12. Before(list, first + PageSize) = Before(list, first) \cup ToSet(p)
    BY <1>9
  <1>13. After(list, first + PageSize) = After(list, first) \ ToSet(p)
    BY <1>10
  <1> QED
    BY <1>5, <1>8, <1>11, <1>12, <1>13 DEF p

LEMMA Finite ==
    ASSUME TypeOK
    PROVE  /\ IsFiniteSet(ToSet(got)) /\ Cardinality(ToSet(got)) \in Nat /\ Len(got) \in Nat
           /\ Repeats \in Int
           /\ IsFiniteSet(Missed) /\ Cardinality(Missed) \in Nat
           /\ IsFiniteSet(Again) /\ Cardinality(Again) \in Nat
  <1>1. list \in Seq(Elements) /\ got \in Seq(Elements)
    BY DEF TypeOK
  <1>2. IsFiniteSet(ToSet(got)) /\ Cardinality(ToSet(got)) \in Nat
    BY <1>1, FiniteRange
  <1>3. IsFiniteSet(ToSet(list))
    BY <1>1, FiniteRange
  <1>4. Missed \subseteq ToSet(list) /\ Again \subseteq ToSet(list)
    BY DEF Missed, Again, Before, After
  <1>5. IsFiniteSet(Missed) /\ IsFiniteSet(Again)
    BY <1>3, <1>4, FS_Subset
  <1>6. Cardinality(Missed) \in Nat /\ Cardinality(Again) \in Nat
    BY <1>5, FS_CardinalityType
  <1>7. Len(got) \in Nat
    BY <1>1
  <1> QED
    BY <1>2, <1>5, <1>6, <1>7 DEF Repeats

\* An insertion can put one element that was yielded behind the offset, and
\* hides none.
LEMMA DriftAdd ==
    ASSUME DriftInv, TypeOK', Add
    PROVE  DriftInv'
  <1>1. PICK i \in 1..Len(list) + 1, e \in Elements \ used :
           list' = InsertAt(list, i, e) /\ used' = used \cup {e}
    BY DEF Add
  <1>2. UNCHANGED <<pc, paged, first, got, removed, stayed>> /\ inserted' = inserted + 1
    BY DEF Add, readVars
  <1>3. /\ list \in Seq(Elements) /\ IsInjective(list) /\ first \in Nat
        /\ e \in Elements \ ToSet(list)
    BY <1>1 DEF DriftInv, TypeOK
  <1>4. /\ Before(list', first) \subseteq Before(list, first) \cup {e}
        /\ After(list', first) \subseteq After(list, first) \cup {list[first], e}
    BY <1>1, <1>3, AddShifts
  <1>5. e \notin stayed /\ e \notin ToSet(got)
    BY <1>1 DEF DriftInv, TypeOK
  <1>6. Missed' \subseteq Missed
    BY <1>2, <1>4, <1>5 DEF Missed
  <1>7. Again' \subseteq Again \cup {list[first]}
    BY <1>2, <1>4, <1>5 DEF Again
  <1>8. Cardinality(Missed') <= Cardinality(Missed) /\ Cardinality(Missed') \in Nat
    BY <1>6, Finite, FS_Subset, FS_CardinalityType DEF DriftInv
  <1>9. Cardinality(Again') <= Cardinality(Again) + 1 /\ Cardinality(Again') \in Nat
    BY <1>7, Finite, OneMore DEF DriftInv
  <1>10. /\ Repeats' = Repeats /\ Repeats \in Int
         /\ Cardinality(Missed) \in Nat /\ Cardinality(Again) \in Nat
         /\ inserted \in Nat /\ removed \in Nat
    BY <1>2, Finite DEF DriftInv, Repeats, TypeOK
  <1>11. pc' = "reading" /\ paged' =>
            /\ Cardinality(Missed') <= removed'
            /\ Repeats' + Cardinality(Again') <= inserted'
    BY <1>2, <1>8, <1>9, <1>10 DEF DriftInv
  <1>12. pc = "reading"
    BY DEF Add, MayChange
  <1>13. Repeats' <= inserted'
    BY <1>2, <1>10 DEF DriftInv, DriftBounded, Repeats
  <1> QED
    BY <1>1, <1>2, <1>11, <1>12, <1>13 DEF DriftInv, DriftBounded, Repeats

\* A removal can put one element before the offset that was not yielded, and
\* repeats none.
LEMMA DriftDelete ==
    ASSUME DriftInv, TypeOK', Delete
    PROVE  DriftInv'
  <1>1. PICK i \in 1..Len(list) :
           list' = RemoveAt(list, i) /\ stayed' = stayed \ {list[i]}
    BY DEF Delete
  <1>2. UNCHANGED <<pc, paged, first, got, inserted, used>> /\ removed' = removed + 1
    BY DEF Delete, readVars
  <1>3. list \in Seq(Elements) /\ IsInjective(list) /\ first \in Nat
    BY DEF DriftInv, TypeOK
  <1>4. /\ Before(list', first) \subseteq Before(list, first) \cup {list[first + 1]}
        /\ After(list', first) \subseteq After(list, first)
    BY <1>1, <1>3, DeleteShifts
  <1>5. Missed' \subseteq Missed \cup {list[first + 1]}
    BY <1>1, <1>2, <1>4 DEF Missed
  <1>6. Again' \subseteq Again
    BY <1>2, <1>4 DEF Again
  <1>7. Cardinality(Missed') <= Cardinality(Missed) + 1 /\ Cardinality(Missed') \in Nat
    BY <1>5, Finite, OneMore DEF DriftInv
  <1>8. Cardinality(Again') <= Cardinality(Again) /\ Cardinality(Again') \in Nat
    BY <1>6, Finite, FS_Subset, FS_CardinalityType DEF DriftInv
  <1>9. /\ Repeats' = Repeats /\ Repeats \in Int
        /\ Cardinality(Missed) \in Nat /\ Cardinality(Again) \in Nat
        /\ inserted \in Nat /\ removed \in Nat
    BY <1>2, Finite DEF DriftInv, Repeats, TypeOK
  <1>10. pc' = "reading" /\ paged' =>
            /\ Cardinality(Missed') <= removed'
            /\ Repeats' + Cardinality(Again') <= inserted'
    BY <1>2, <1>7, <1>8, <1>9 DEF DriftInv
  <1>11. pc = "reading"
    BY DEF Delete, MayChange
  <1> QED
    BY <1>2, <1>10, <1>11 DEF DriftInv, DriftBounded

\* A page moves what it repeats from Again to Repeats, and whatever the offset
\* passes is yielded; the last page leaves nothing behind it.
LEMMA DriftFetch ==
    ASSUME DriftInv, TypeOK', Fetch
    PROVE  DriftInv'
  <1> DEFINE G == ToSet(got)
             P == ToSet(Page(first))
             A == After(list, first)
  <1>1. /\ pc = "reading" /\ paged /\ UNCHANGED <<list, used, paged, inserted, removed, stayed>>
        /\ got' = got \o Page(first)
        /\ \/ LastPage(Page(first)) /\ pc' = "done" /\ first' = first
           \/ ~LastPage(Page(first)) /\ pc' = "reading" /\ first' = first + PageSize
    BY DEF Fetch, NextOffset, kcVars, history
  <1>2. /\ Page(first) \in Seq(Elements) /\ got \in Seq(Elements)
        /\ inserted \in Nat /\ removed \in Nat
        /\ list \in Seq(Elements) /\ first \in Nat
    BY PageIs DEF DriftInv, TypeOK
  <1>3. /\ IsInjective(Page(first))
        /\ P \subseteq A
        /\ Before(list, first + PageSize) = Before(list, first) \cup P
        /\ After(list, first + PageSize) = A \ P
        /\ LastPage(Page(first)) => ToSet(list) \subseteq Before(list, first) \cup P
    BY PageParts DEF DriftInv
  <1>4. ToSet(got') = G \cup P /\ Len(got') = Len(got) + Len(Page(first))
    BY <1>1, <1>2, ConcatSet
  <1>5. IsFiniteSet(P) /\ Cardinality(P) = Len(Page(first)) /\ Cardinality(P) \in Nat
    BY <1>2, <1>3, FiniteRange
  <1>6. /\ IsFiniteSet(G) /\ Cardinality(G) \in Nat /\ Len(got) \in Nat
        /\ IsFiniteSet(A \cap G) /\ Cardinality(A \cap G) \in Nat
        /\ IsFiniteSet(Missed) /\ Cardinality(Missed) \in Nat
    BY Finite DEF DriftInv, Again
  <1>7. /\ Cardinality(Missed) <= removed
        /\ Len(got) - Cardinality(G) + Cardinality(A \cap G) <= inserted
    BY <1>1 DEF DriftInv, Again, Repeats
  <1>8. A \subseteq used /\ G \subseteq used
    BY DEF DriftInv, TypeOK, After
  <1>9. stayed \subseteq ToSet(list)
    BY DEF DriftInv, TypeOK
  <1>10. Missed = (Before(list, first) \cap stayed) \ G
    BY DEF Missed
  <1> HIDE DEF G, P, A
  <1>11. /\ Cardinality(G \cup P) = Cardinality(G) + Cardinality(P) - Cardinality(G \cap P)
         /\ IsFiniteSet(G \cap P) /\ Cardinality(G \cap P) \in Nat
         /\ Cardinality(G \cup P) \in Nat
    BY <1>5, <1>6, FS_Union, FS_Intersection, FS_CardinalityType
  <1>12. /\ Cardinality((A \cap G) \ P) = Cardinality(A \cap G) - Cardinality(G \cap P)
         /\ Cardinality((A \cap G) \ P) \in Nat
    <2>1. (A \cap G) \cap P = G \cap P
      BY <1>3
    <2>2. /\ IsFiniteSet((A \cap G) \ P)
          /\ Cardinality((A \cap G) \ P) = Cardinality(A \cap G) - Cardinality((A \cap G) \cap P)
      BY <1>6, FS_Difference
    <2> QED
      BY <2>1, <2>2, FS_CardinalityType
  <1>13. /\ Repeats' = Len(got) - Cardinality(G) + Cardinality(G \cap P)
         /\ Repeats' + Cardinality((A \cap G) \ P) <= inserted
         /\ Repeats' <= inserted
    <2>1. Repeats' = Len(got') - Cardinality(ToSet(got'))
      BY DEF Repeats
    <2>2. Len(got') = Len(got) + Cardinality(P)
      BY <1>4, <1>5
    <2>3. Repeats' = Len(got) + Cardinality(P) - Cardinality(G \cup P)
      <3>1. Cardinality(ToSet(got')) = Cardinality(G \cup P)
        BY <1>4, Zenon
      <3> QED
        BY <2>1, <2>2, <3>1, <1>5, <1>6, <1>11
    <2> DEFINE g == Cardinality(G)
               p == Cardinality(P)
               u == Cardinality(G \cup P)
               o == Cardinality(G \cap P)
               a == Cardinality(A \cap G)
               b == Cardinality((A \cap G) \ P)
               l == Len(got)
    <2>4. /\ g \in Nat /\ p \in Nat /\ u \in Nat /\ o \in Nat /\ a \in Nat /\ b \in Nat
          /\ l \in Nat /\ inserted \in Nat
          /\ u = g + p - o /\ b = a - o /\ l - g + a <= inserted
          /\ Repeats' = l + p - u
      BY <2>3, <1>2, <1>5, <1>6, <1>7, <1>11, <1>12
    <2> HIDE DEF g, p, u, o, a, b, l
    <2>5. Repeats' = l - g + o /\ Repeats' + b <= inserted /\ Repeats' <= inserted
      BY <2>4
    <2> QED
      BY <2>5 DEF g, p, u, o, a, b, l
  <1>14. ToSet(got') \subseteq used'
    BY <1>1, <1>3, <1>4, <1>8
  <1>15. CASE LastPage(Page(first))
    <2>1. stayed \ ToSet(got') \subseteq Missed
      BY <1>3, <1>4, <1>9, <1>10, <1>15
    <2>2. Cardinality(stayed \ ToSet(got')) <= Cardinality(Missed)
      BY <2>1, <1>6, FS_Subset
    <2>3. Cardinality(stayed \ ToSet(got')) \in Nat
      BY <2>1, <1>6, FS_Subset, FS_CardinalityType
    <2>4. DriftBounded'
      BY <2>2, <2>3, <1>1, <1>2, <1>6, <1>7, <1>13 DEF DriftBounded, Repeats
    <2> QED
      BY <2>4, <1>1, <1>14, <1>15 DEF DriftInv
  <1>16. CASE ~LastPage(Page(first))
    <2>1. first' = first + PageSize /\ pc' = "reading"
      BY <1>1, <1>16
    <2>2. Missed' \subseteq Missed
      BY <2>1, <1>1, <1>3, <1>4, <1>10 DEF Missed
    <2>3. Cardinality(Missed') <= removed'
      <3>1. Cardinality(Missed') <= Cardinality(Missed) /\ IsFiniteSet(Missed')
        BY <2>2, <1>6, FS_Subset
      <3>2. Cardinality(Missed') \in Nat
        BY <3>1, FS_CardinalityType
      <3> QED
        BY <3>1, <3>2, <1>1, <1>2, <1>6, <1>7
    <2>4. Again' = (A \cap G) \ P
      <3>1. Again' = (A \ P) \cap (G \cup P)
        BY <2>1, <1>1, <1>3, <1>4 DEF Again
      <3> QED
        BY <3>1
    <2>5. Repeats' + Cardinality(Again') <= inserted'
      BY <2>4, <1>1, <1>13
    <2>6. DriftBounded'
      BY <2>1, <1>1, <1>13 DEF DriftBounded, Repeats
    <2> QED
      BY <2>1, <2>3, <2>5, <2>6, <1>1, <1>14 DEF DriftInv
  <1> QED
    BY <1>15, <1>16

LEMMA DriftNext == DriftInv /\ [Next]_vars => DriftInv'
  <1> SUFFICES ASSUME DriftInv, [Next]_vars PROVE DriftInv'
    OBVIOUS
  <1>0. TypeOK'
    BY TypeNext DEF DriftInv
  <1>1. CASE Add
    BY <1>0, <1>1, DriftAdd
  <1>2. CASE Delete
    BY <1>0, <1>2, DriftDelete
  <1>3. CASE Authenticate \/ Expire
    <2>1. UNCHANGED <<list, used, pc, paged, first, got, inserted, removed, stayed>>
      BY <1>3 DEF Authenticate, Expire, kcVars, readVars, history
    <2> QED
      BY <1>0, <2>1 DEF DriftInv, DriftBounded, Missed, Again, Repeats
  <1>4. CASE Begin
    <2>1. /\ got' = <<>> /\ first' = 0 /\ pc' = "reading" /\ stayed' = ToSet(list)
          /\ UNCHANGED <<list, used, inserted, removed>>
      BY <1>4 DEF Begin, kcVars
    <2>2. inserted \in Nat /\ removed \in Nat /\ DOMAIN list = 1..Len(list)
      BY DEF DriftInv, TypeOK
    <2>3. ToSet(got') = {} /\ Repeats' = 0
      BY <2>1, NothingYet DEF Repeats
    <2>4. Before(list, 0) = {}
      BY <2>2 DEF Before
    <2>5. Missed' = {} /\ Again' = {}
      BY <2>1, <2>3, <2>4 DEF Missed, Again
    <2>6. DriftBounded'
      BY <2>1, <2>2, <2>3 DEF DriftBounded, Repeats
    <2> QED
      BY <1>0, <2>1, <2>2, <2>3, <2>5, <2>6, NothingYet DEF DriftInv
  <1>5. CASE Fetch
    BY <1>0, <1>5, DriftFetch
  <1>6. CASE FetchWhole
    <2>1. /\ got' = list /\ pc' = "done"
          /\ UNCHANGED <<list, used, inserted, removed, stayed>>
      BY <1>6 DEF FetchWhole, kcVars, history
    <2>2. /\ list \in Seq(Elements) /\ IsInjective(list) /\ ToSet(list) \subseteq used
          /\ stayed \subseteq ToSet(list) /\ inserted \in Nat /\ removed \in Nat
      BY DEF DriftInv, TypeOK
    <2>3. Len(got') - Cardinality(ToSet(got')) = 0
      BY <2>1, <2>2, FiniteRange
    <2>4. stayed' \ ToSet(got') = {}
      BY <2>1, <2>2
    <2>5. DriftBounded'
      <3>1. Cardinality(stayed' \ ToSet(got')) <= removed'
        <4>1. Cardinality(stayed' \ ToSet(got')) = 0
          BY <2>4, NothingYet, Zenon
        <4> QED
          BY <2>1, <2>2, <4>1
      <3>2. Len(got') - Cardinality(ToSet(got')) <= inserted'
        BY <2>1, <2>2, <2>3
      <3> QED
        BY <3>1, <3>2 DEF DriftBounded
    <2> QED
      BY <1>0, <2>1, <2>2, <2>5 DEF DriftInv
  <1>7. CASE Raise
    <2>1. pc' = "raised" /\ UNCHANGED <<list, used, got, inserted, removed, stayed>>
      BY <1>7 DEF Raise, kcVars, history
    <2>2. DriftBounded'
      BY <2>1 DEF DriftInv, DriftBounded
    <2> QED
      BY <1>0, <2>1, <2>2 DEF DriftInv
  <1>8. CASE UNCHANGED vars
    <2>1. UNCHANGED <<list, used, pc, paged, first, got, inserted, removed, stayed>>
      BY <1>8 DEF vars, kcVars, readVars, history
    <2> QED
      BY <1>0, <2>1 DEF DriftInv, DriftBounded, Missed, Again, Repeats
  <1> QED
    BY <1>1, <1>2, <1>3, <1>4, <1>5, <1>6, <1>7, <1>8 DEF Next, Client, Settled

\* Whatever is inserted and removed during a read, it misses at most as many of
\* the elements that stayed as were removed, and repeats at most as many as were
\* inserted (_paginate, which counts offsets from the front).
THEOREM DriftIsBounded == Spec => []DriftBounded
  <1>1. DriftInv => DriftBounded
    BY DEF DriftInv
  <1> QED
    BY <1>1, DriftInit, DriftNext, PTL DEF Spec
=============================================================================
