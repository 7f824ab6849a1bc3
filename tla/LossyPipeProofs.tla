-------------------------- MODULE LossyPipeProofs --------------------------
(***************************************************************************)
(* Theorems about LossyPipe, for every set of data.                        *)
(***************************************************************************)
EXTENDS LossyPipe, SequenceTheorems, TLAPS

\* Sequences that can be found in one another stay so when both grow by the same
\* element.
LEMMA FoundInAppend ==
    ASSUME NEW S, NEW s \in Seq(S), NEW t \in Seq(S), NEW d \in S, FoundIn(s, t)
    PROVE  FoundIn(Append(s, d), Append(t, d))
<1>1. PICK pos \in [1 .. Len(s) -> 1 .. Len(t)] :
          /\ \A i, j \in 1 .. Len(s) : i < j => pos[i] < pos[j]
          /\ \A i \in 1 .. Len(s) : s[i] = t[pos[i]]
  BY DEF FoundIn
<1> DEFINE m == Len(s)
           n == Len(t)
           new == [i \in 1 .. m + 1 |-> IF i = m + 1 THEN n + 1 ELSE pos[i]]
<1>2. /\ m \in Nat /\ n \in Nat
      /\ Len(Append(s, d)) = m + 1 /\ Len(Append(t, d)) = n + 1
      /\ Append(s, d)[m + 1] = d /\ Append(t, d)[n + 1] = d
      /\ \A i \in 1 .. m : Append(s, d)[i] = s[i]
      /\ \A i \in 1 .. n : Append(t, d)[i] = t[i]
  BY AppendProperties
<1> HIDE DEF m, n
<1>3. \A i \in 1 .. m : pos[i] \in 1 .. n
  BY <1>1 DEF m, n
<1>4. new \in [1 .. m + 1 -> 1 .. n + 1]
  BY <1>2, <1>3
<1>5. ASSUME NEW i \in 1 .. m + 1, NEW j \in 1 .. m + 1, i < j
      PROVE  new[i] < new[j]
  <2>1. i \in 1 .. m /\ new[i] = pos[i]
    BY <1>2, <1>5
  <2>2. CASE j = m + 1
    BY <1>2, <1>3, <2>1, <2>2
  <2>3. CASE j # m + 1
    <3>1. j \in 1 .. m /\ new[j] = pos[j]
      BY <1>2, <2>3
    <3> QED
      BY <1>1, <1>5, <2>1, <3>1 DEF m
  <2> QED
    BY <2>2, <2>3
<1>6. \A i \in 1 .. m + 1 : Append(s, d)[i] = Append(t, d)[new[i]]
  BY <1>1, <1>2, <1>3 DEF m
<1> QED
  BY <1>2, <1>4, <1>5, <1>6 DEF FoundIn

\* What is left of s when its i-th element is lost, element by element.
LEMMA WithoutElements ==
    ASSUME NEW S, NEW s \in Seq(S), NEW i \in 1 .. Len(s)
    PROVE  /\ Without(s, i) \in Seq(S)
           /\ Len(Without(s, i)) = Len(s) - 1
           /\ \A j \in 1 .. Len(s) - 1 :
                  Without(s, i)[j] = IF j < i THEN s[j] ELSE s[j + 1]
<1> DEFINE front == SubSeq(s, 1, i - 1)
           back == SubSeq(s, i + 1, Len(s))
<1>1. Len(s) \in Nat
  BY LenProperties
<1>2. /\ front \in Seq(S) /\ Len(front) = i - 1
      /\ \A j \in 1 .. i - 1 : front[j] = s[j]
  BY <1>1
<1>3. /\ back \in Seq(S) /\ Len(back) = Len(s) - i
      /\ \A j \in 1 .. Len(s) - i : back[j] = s[i + j]
  BY <1>1
<1>4. Without(s, i) = front \o back
  BY DEF Without
<1> HIDE DEF front, back
<1>5. /\ front \o back \in Seq(S)
      /\ Len(front \o back) = Len(front) + Len(back)
      /\ \A j \in 1 .. Len(front) + Len(back) :
             (front \o back)[j] = IF j <= Len(front) THEN front[j]
                                  ELSE back[j - Len(front)]
  BY <1>2, <1>3, ConcatProperties
<1>6. ASSUME NEW j \in 1 .. Len(s) - 1
      PROVE  (front \o back)[j] = IF j < i THEN s[j] ELSE s[j + 1]
  <2>1. CASE j < i
    BY <1>1, <1>2, <1>3, <1>5, <2>1
  <2>2. CASE ~(j < i)
    <3>1. (front \o back)[j] = back[j - (i - 1)]
      BY <1>1, <1>2, <1>3, <1>5, <2>2
    <3>2. j - (i - 1) \in 1 .. Len(s) - i
      BY <1>1, <2>2
    <3>3. back[j - (i - 1)] = s[i + (j - (i - 1))]
      BY <1>3, <3>2
    <3> QED
      BY <1>1, <2>2, <3>1, <3>3
  <2> QED
    BY <2>1, <2>2
<1> QED
  BY <1>1, <1>2, <1>3, <1>4, <1>5, <1>6

\* Losing an element of s leaves s where it was found.
LEMMA FoundInWithout ==
    ASSUME NEW S, NEW s \in Seq(S), NEW t \in Seq(S), NEW k \in 1 .. Len(s),
           FoundIn(s, t)
    PROVE  FoundIn(Without(s, k), t)
<1>1. PICK pos \in [1 .. Len(s) -> 1 .. Len(t)] :
          /\ \A i, j \in 1 .. Len(s) : i < j => pos[i] < pos[j]
          /\ \A i \in 1 .. Len(s) : s[i] = t[pos[i]]
  BY DEF FoundIn
<1> DEFINE m == Len(s) - 1
           new == [i \in 1 .. m |-> IF i < k THEN pos[i] ELSE pos[i + 1]]
<1>2. /\ m \in Nat /\ Len(s) = m + 1 /\ Len(t) \in Nat
      /\ Len(Without(s, k)) = m
      /\ \A j \in 1 .. m : Without(s, k)[j] = IF j < k THEN s[j] ELSE s[j + 1]
  <2>1. Len(s) \in Nat /\ Len(t) \in Nat
    BY LenProperties
  <2>2. /\ Len(Without(s, k)) = Len(s) - 1
        /\ \A j \in 1 .. Len(s) - 1 :
               Without(s, k)[j] = IF j < k THEN s[j] ELSE s[j + 1]
    BY WithoutElements
  <2>3. m \in Nat /\ Len(s) = m + 1
    BY <2>1
  <2> QED
    BY <2>1, <2>2, <2>3, Zenon
<1> HIDE DEF m
<1>3. new \in [1 .. m -> 1 .. Len(t)]
  BY <1>1, <1>2
<1>4. \A i, j \in 1 .. m : i < j => new[i] < new[j]
  BY <1>1, <1>2
<1>5. \A i \in 1 .. m : Without(s, k)[i] = t[new[i]]
  BY <1>1, <1>2
<1> QED
  BY <1>2, <1>3, <1>4, <1>5 DEF FoundIn

\* So does losing everything between two parts of it.
LEMMA FoundInParts ==
    ASSUME NEW S, NEW a \in Seq(S), NEW b \in Seq(S), NEW c \in Seq(S), NEW t \in Seq(S),
           FoundIn((a \o b) \o c, t)
    PROVE  FoundIn(a \o c, t)
<1> DEFINE s == (a \o b) \o c
           u == a \o c
           la == Len(a)
           lb == Len(b)
           n == Len(a) + Len(c)
<1>1. PICK pos \in [1 .. Len(s) -> 1 .. Len(t)] :
          /\ \A i, j \in 1 .. Len(s) : i < j => pos[i] < pos[j]
          /\ \A i \in 1 .. Len(s) : s[i] = t[pos[i]]
  BY DEF FoundIn
<1>2. la \in Nat /\ lb \in Nat /\ Len(c) \in Nat /\ n \in Nat
  BY LenProperties
<1>3. /\ a \o b \in Seq(S) /\ Len(a \o b) = la + lb
      /\ \A i \in 1 .. la : (a \o b)[i] = a[i]
  BY <1>2, ConcatProperties
<1>4. /\ Len(s) = n + lb
      /\ \A i \in 1 .. la : s[i] = a[i]
      /\ \A i \in 1 .. Len(c) : s[la + lb + i] = c[i]
  <2>1. /\ Len(s) = (la + lb) + Len(c)
        /\ \A i \in 1 .. (la + lb) + Len(c) :
               s[i] = IF i <= la + lb THEN (a \o b)[i] ELSE c[i - (la + lb)]
    BY <1>3, ConcatProperties
  <2>2. ASSUME NEW i \in 1 .. la PROVE s[i] = a[i]
    BY <1>2, <1>3, <2>1
  <2>3. ASSUME NEW i \in 1 .. Len(c) PROVE s[la + lb + i] = c[i]
    <3>1. la + lb + i \in 1 .. (la + lb) + Len(c) /\ ~(la + lb + i <= la + lb)
           /\ (la + lb + i) - (la + lb) = i
      BY <1>2
    <3> QED
      BY <2>1, <3>1
  <2>4. Len(s) = n + lb
    BY <1>2, <2>1
  <2> HIDE DEF s, la, lb, n
  <2> QED
    BY <2>2, <2>3, <2>4
<1>5. /\ Len(u) = n
      /\ \A i \in 1 .. n : u[i] = IF i <= la THEN a[i] ELSE c[i - la]
  BY ConcatProperties
<1> DEFINE new == [i \in 1 .. n |-> IF i <= la THEN pos[i] ELSE pos[i + lb]]
<1> HIDE DEF s, u, la, lb
<1>6. n = la + Len(c)
  BY DEF la
<1> HIDE DEF n
<1>7. new \in [1 .. n -> 1 .. Len(t)]
  BY <1>1, <1>2, <1>4
<1>8. ASSUME NEW i \in 1 .. n, NEW j \in 1 .. n, i < j PROVE new[i] < new[j]
  BY <1>1, <1>2, <1>4, <1>8
<1>9. ASSUME NEW i \in 1 .. n PROVE u[i] = t[new[i]]
  <2>1. CASE i <= la
    <3>1. i \in 1 .. la /\ i \in 1 .. Len(s)
      BY <1>2, <1>4, <2>1
    <3>2. u[i] = a[i] /\ s[i] = a[i]
      BY <1>4, <1>5, <2>1, <3>1
    <3> QED
      BY <1>1, <2>1, <3>1, <3>2
  <2>2. CASE ~(i <= la)
    <3>1. i - la \in 1 .. Len(c) /\ la + lb + (i - la) = i + lb /\ i + lb \in 1 .. Len(s)
      BY <1>2, <1>4, <1>6, <2>2
    <3>2. u[i] = c[i - la] /\ s[i + lb] = c[i - la]
      BY <1>4, <1>5, <2>2, <3>1
    <3> QED
      BY <1>1, <2>2, <3>1, <3>2
  <2> QED
    BY <2>1, <2>2
<1> QED
  BY <1>5, <1>7, <1>8, <1>9 DEF FoundIn, u

-----------------------------------------------------------------------------
\* Losing an element of the pipe is losing one of all that comes after the data
\* already fetched.
LEMMA WithoutInPipe ==
    ASSUME NEW S, NEW s \in Seq(S), NEW t \in Seq(S), NEW i \in 1 .. Len(t)
    PROVE  s \o Without(t, i) = Without(s \o t, Len(s) + i)
<1>1. /\ Len(s) \in Nat /\ Len(t) \in Nat
      /\ s \o t \in Seq(S) /\ Len(s \o t) = Len(s) + Len(t)
      /\ \A j \in 1 .. Len(s) + Len(t) :
             (s \o t)[j] = IF j <= Len(s) THEN s[j] ELSE t[j - Len(s)]
  BY ConcatProperties, LenProperties
<1>2. /\ Without(t, i) \in Seq(S) /\ Len(Without(t, i)) = Len(t) - 1
      /\ \A j \in 1 .. Len(t) - 1 :
             Without(t, i)[j] = IF j < i THEN t[j] ELSE t[j + 1]
  BY WithoutElements
<1> DEFINE w == Without(t, i)
           v == Without(s \o t, Len(s) + i)
           n == Len(s) + Len(t) - 1
<1>3. /\ v \in Seq(S) /\ Len(v) = n
      /\ \A j \in 1 .. n :
             v[j] = IF j < Len(s) + i THEN (s \o t)[j] ELSE (s \o t)[j + 1]
  <2>1. Len(s) + i \in 1 .. Len(s \o t)
    BY <1>1
  <2>2. /\ v \in Seq(S) /\ Len(v) = Len(s \o t) - 1
        /\ \A j \in 1 .. Len(s \o t) - 1 :
               v[j] = IF j < Len(s) + i THEN (s \o t)[j] ELSE (s \o t)[j + 1]
    BY <1>1, <2>1, WithoutElements
  <2>3. Len(s \o t) - 1 = n
    BY <1>1
  <2> HIDE DEF v, n
  <2> QED
    BY <2>2, <2>3
<1>4. /\ s \o w \in Seq(S) /\ Len(s \o w) = n
      /\ \A j \in 1 .. n :
             (s \o w)[j] = IF j <= Len(s) THEN s[j] ELSE w[j - Len(s)]
  <2>1. /\ s \o w \in Seq(S) /\ Len(s \o w) = Len(s) + Len(w)
        /\ \A j \in 1 .. Len(s) + Len(w) :
               (s \o w)[j] = IF j <= Len(s) THEN s[j] ELSE w[j - Len(s)]
    BY <1>2, ConcatProperties
  <2> QED
    BY <1>1, <1>2, <2>1
<1> HIDE DEF w, v
<1>5. ASSUME NEW j \in 1 .. n PROVE (s \o w)[j] = v[j]
  <2>1. CASE j <= Len(s)
    BY <1>1, <1>3, <1>4, <2>1
  <2>2. CASE ~(j <= Len(s))
    <3>1. j - Len(s) \in 1 .. Len(t) - 1
      BY <1>1, <2>2
    <3>2. (s \o w)[j] = IF j - Len(s) < i THEN t[j - Len(s)] ELSE t[j - Len(s) + 1]
      BY <1>2, <1>4, <2>2, <3>1 DEF w
    <3>3. (s \o t)[j] = t[j - Len(s)] /\ (s \o t)[j + 1] = t[j + 1 - Len(s)]
      BY <1>1, <2>2
    <3> QED
      BY <1>1, <1>3, <3>1, <3>2, <3>3
  <2> QED
    BY <2>1, <2>2
<1> QED
  <2>1. s \o w = v
    BY <1>3, <1>4, <1>5, SeqEqual
  <2> QED
    BY <2>1 DEF w, v

\* The three sequences stay sequences of data.
LEMMA PipeType == Spec => []TypeOK
<1>1. Init => TypeOK
  BY DEF Init, TypeOK
<1>2. TypeOK /\ [Next]_vars => TypeOK'
  <2> SUFFICES ASSUME TypeOK, [Next]_vars PROVE TypeOK'
    OBVIOUS
  <2>1. ASSUME NEW d \in Data, Put(d) PROVE TypeOK'
    <3>1. pipe # <<>> => Without(pipe, Len(pipe)) \in Seq(Data)
      <4>1. pipe # <<>> => Len(pipe) \in 1 .. Len(pipe)
        BY DEF TypeOK
      <4> QED
        BY <4>1, WithoutElements DEF TypeOK
    <3>2. pipe' \in Seq(Data)
      <4>1. CASE pipe' = Append(pipe, d)
        BY <4>1, AppendProperties DEF TypeOK
      <4>2. CASE pipe # <<>> /\ pipe' = Append(Without(pipe, Len(pipe)), d)
        BY <3>1, <4>2, AppendProperties
      <4> QED
        BY <2>1, <4>1, <4>2 DEF Put
    <3>3. sent' \in Seq(Data) /\ got' \in Seq(Data)
      BY <2>1, AppendProperties DEF TypeOK, Put
    <3> QED
      BY <3>2, <3>3 DEF TypeOK
  <2>2. CASE Lose
    <3>1. Without(pipe, 1) \in Seq(Data)
      <4>1. 1 \in 1 .. Len(pipe)
        BY <2>2 DEF Lose, Capacity
      <4> QED
        BY <4>1, WithoutElements DEF TypeOK
    <3> QED
      BY <2>2, <3>1 DEF TypeOK, Lose
  <2>3. CASE Get
    BY <2>3 DEF TypeOK, Get
  <2>4. CASE UNCHANGED vars
    BY <2>4 DEF TypeOK, vars
  <2> QED
    BY <2>1, <2>2, <2>3, <2>4 DEF Next
<1> QED
  BY <1>1, <1>2, PTL DEF Spec

\* The pipe promises what its name says: it may lose data, but what comes out of
\* it has been put in, in the order in which it comes out and as often at least
\* (usb3_ep_fifo_t, loopback_process).
THEOREM PipeInOrder == Spec => []InOrder
<1>1. Init => InOrder
  <2> SUFFICES ASSUME Init PROVE InOrder
    OBVIOUS
  <2>1. got \o pipe = <<>> /\ sent = <<>>
    BY DEF Init
  <2>2. [i \in 1 .. 0 |-> i] \in [1 .. Len(<<>>) -> 1 .. Len(<<>>)]
    OBVIOUS
  <2> QED
    BY <2>1, <2>2 DEF InOrder, FoundIn
<1>2. TypeOK /\ InOrder /\ [Next]_vars => InOrder'
  <2> SUFFICES ASSUME TypeOK, InOrder, [Next]_vars PROVE InOrder'
    OBVIOUS
  <2> DEFINE out == got \o pipe
  <2>1. /\ sent \in Seq(Data) /\ got \in Seq(Data) /\ pipe \in Seq(Data)
        /\ out \in Seq(Data) /\ Len(out) = Len(got) + Len(pipe)
    BY ConcatProperties DEF TypeOK
  <2>2. ASSUME NEW d \in Data, Put(d) PROVE InOrder'
    <3>1. CASE pipe' = Append(pipe, d)
      <4>1. got' \o pipe' = Append(out, d)
        BY <2>1, <2>2, <3>1, AppendIsConcat, ConcatAssociative DEF Put
      <4> QED
        BY <2>1, <2>2, <4>1, FoundInAppend DEF InOrder, Put
    <3>2. CASE pipe # <<>> /\ pipe' = Append(Without(pipe, Len(pipe)), d)
      <4> DEFINE rest == Without(pipe, Len(pipe))
      <4>1. Len(pipe) \in 1 .. Len(pipe)
        BY <2>1, <3>2
      <4>2. rest \in Seq(Data)
        BY <2>1, <4>1, WithoutElements
      <4>3. got \o rest = Without(out, Len(got) + Len(pipe))
        BY <2>1, <4>1, WithoutInPipe
      <4>4. Len(got) + Len(pipe) \in 1 .. Len(out)
        BY <2>1, <4>1
      <4>5. got \o rest \in Seq(Data) /\ FoundIn(got \o rest, sent)
        BY <2>1, <4>3, <4>4, FoundInWithout, WithoutElements DEF InOrder
      <4>6. got' \o pipe' = Append(got \o rest, d)
        BY <2>1, <2>2, <3>2, <4>2, AppendIsConcat, ConcatAssociative DEF Put
      <4> QED
        BY <2>1, <2>2, <4>5, <4>6, FoundInAppend DEF InOrder, Put
    <3> QED
      BY <2>2, <3>1, <3>2 DEF Put
  <2>3. CASE Lose
    <3>1. 1 \in 1 .. Len(pipe) /\ Len(got) + 1 \in 1 .. Len(out)
      BY <2>1, <2>3 DEF Lose, Capacity
    <3>2. got' \o pipe' = Without(out, Len(got) + 1)
      BY <2>1, <2>3, <3>1, WithoutInPipe DEF Lose
    <3> QED
      BY <2>1, <2>3, <3>1, <3>2, FoundInWithout DEF InOrder, Lose
  <2>4. CASE Get
    <3>1. /\ pipe # <<>> /\ Head(pipe) \in Data /\ Tail(pipe) \in Seq(Data)
          /\ pipe = <<Head(pipe)>> \o Tail(pipe)
      BY <2>1, <2>4 DEF Get
    <3>2. got' \o pipe' = out
      <4>1. got' = got \o <<Head(pipe)>>
        BY <2>1, <2>4, <3>1, AppendIsConcat DEF Get
      <4>2. (got \o <<Head(pipe)>>) \o Tail(pipe) = got \o (<<Head(pipe)>> \o Tail(pipe))
        BY <2>1, <3>1, ConcatAssociative
      <4> QED
        BY <2>4, <3>1, <4>1, <4>2 DEF Get
    <3> QED
      BY <2>4, <3>2 DEF InOrder, Get
  <2>5. CASE UNCHANGED vars
    BY <2>5 DEF InOrder, vars
  <2> QED
    BY <2>2, <2>3, <2>4, <2>5 DEF Next
<1> QED
  BY <1>1, <1>2, PipeType, PTL DEF Spec
=============================================================================
