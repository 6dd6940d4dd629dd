---------------------------- MODULE Vec0QueryProofs ----------------------------
(***************************************************************************)
(* Proofs that a query on a flat or rescore table is answered right, for   *)
(* any declarations, rows and queries, any number of rows and chunks: from *)
(* what Vec0Proofs knows of the shadow tables, through each filter, the    *)
(* scan of a chunk, the merge of the chunks and the rescoring, to the plan *)
(* and the statement.                                                      *)
(***************************************************************************)
EXTENDS Vec0Proofs

\* The k nearest of the answers E: out lists, by distance, n of them, and if
\* there are others these are k and no other is nearer.
Nearer(out, n, E) ==
    /\ n \in Nat
    /\ out \in [1..n -> E]
    /\ \A i, j \in 1..n : i < j => out[i].distance <= out[j].distance
    /\ \A i, j \in 1..n : out[i] = out[j] => i = j
Best(out, n, E, k) ==
    /\ Nearer(out, n, E)
    /\ n <= k
    /\ \A x \in E : \/ \E i \in 1..n : out[i] = x
                    \/ n = k /\ \A i \in 1..n : out[i].distance <= x.distance

\* Merged so far: the first p of a and the first q of b, none farther than what
\* is left.
Took(z, p, q, a, m, b, n, E) ==
    /\ p \in 0..m
    /\ q \in 0..n
    /\ Nearer(z, p + q, E)
    /\ \A i \in 1..p : \E j \in 1..(p + q) : z[j] = a[i]
    /\ \A i \in 1..q : \E j \in 1..(p + q) : z[j] = b[i]
    /\ \A j \in 1..(p + q) : \/ \E i \in 1..p : z[j] = a[i]
                             \/ \E i \in 1..q : z[j] = b[i]
    /\ \A j \in 1..(p + q) : /\ \A i \in (p + 1)..m : z[j].distance <= a[i].distance
                             /\ \A i \in (q + 1)..n : z[j].distance <= b[i].distance

LEMMA TookEither ==
    ASSUME NEW z, NEW m \in Nat, NEW n \in Nat, NEW p \in 0..m, NEW q \in 0..n, NEW a, NEW b, NEW E,
           Took(z, p, q, a, m, b, n, E)
    PROVE  Took(z, q, p, b, n, a, m, E)
<1>1. p + q = q + p
  OBVIOUS
<1> QED
  BY <1>1 DEF Took

LEMMA TookOne ==
    ASSUME NEW E, \A x \in E : x.distance \in Int,
           NEW m \in Nat, NEW n \in Nat, NEW a, NEW b, NEW z,
           Nearer(a, m, E), Nearer(b, n, E), \A i \in 1..m, j \in 1..n : a[i] # b[j],
           NEW p \in 0..m, NEW q \in 0..n, Took(z, p, q, a, m, b, n, E), p # m,
           \A i \in (q + 1)..n : a[p + 1].distance <= b[i].distance
    PROVE  Took(Append(z, a[p + 1]), p + 1, q, a, m, b, n, E)
<1> DEFINE e == a[p + 1]
           w == Append(z, e)
           k == p + q
<1>1. p \in Nat /\ q \in Nat /\ p + 1 \in 1..m /\ p + 1 \in 0..m /\ k \in Nat /\ (p + 1) + q = k + 1
  OBVIOUS
<1>2. /\ a \in [1..m -> E]
      /\ \A i, j \in 1..m : i < j => a[i].distance <= a[j].distance
      /\ \A i, j \in 1..m : a[i] = a[j] => i = j
  BY DEF Nearer
<1>3. e \in E /\ e.distance \in Int
  BY <1>1, <1>2
<1>4. /\ z \in [1..k -> E]
      /\ \A i, j \in 1..k : i < j => z[i].distance <= z[j].distance
      /\ \A i, j \in 1..k : z[i] = z[j] => i = j
      /\ \A i \in 1..p : \E j \in 1..k : z[j] = a[i]
      /\ \A i \in 1..q : \E j \in 1..k : z[j] = b[i]
      /\ \A j \in 1..k : \/ \E i \in 1..p : z[j] = a[i]
                         \/ \E i \in 1..q : z[j] = b[i]
      /\ \A j \in 1..k : /\ \A i \in (p + 1)..m : z[j].distance <= a[i].distance
                         /\ \A i \in (q + 1)..n : z[j].distance <= b[i].distance
  BY DEF Took, Nearer
<1> HIDE DEF k
<1>5. w \in [1..(k + 1) -> E] /\ w[k + 1] = e /\ \A j \in 1..k : w[j] = z[j]
  <2> HIDE DEF e
  <2>1. Len(z) = k /\ z \in Seq(E)
    BY <1>1, <1>4
  <2>2. w \in Seq(E) /\ Len(w) = k + 1
    BY <1>3, <2>1
  <2>3. w[k + 1] = e
    BY <1>3, <2>1
  <2>4. \A j \in 1..k : w[j] = z[j]
    BY <1>3, <2>1
  <2>5. w \in [1..(k + 1) -> E]
    <3> HIDE DEF w
    <3> QED
      BY <2>2
  <2> QED
    BY <2>3, <2>4, <2>5
<1> HIDE DEF w
<1>6. \A j \in 1..k : z[j].distance <= e.distance
  <2>1. p + 1 \in (p + 1)..m
    BY <1>1
  <2> QED
    BY <1>4, <2>1
<1>7. \A j \in 1..k : z[j] # e
  <2> SUFFICES ASSUME NEW j \in 1..k, z[j] = e PROVE FALSE
    OBVIOUS
  <2>1. CASE \E i \in 1..p : z[j] = a[i]
    <3>1. PICK i \in 1..p : z[j] = a[i]
      BY <2>1
    <3>2. i \in 1..m /\ i # p + 1
      BY <1>1
    <3> QED
      BY <1>1, <1>2, <3>1, <3>2
  <2>2. CASE \E i \in 1..q : z[j] = b[i]
    <3>1. PICK i \in 1..q : z[j] = b[i]
      BY <2>2
    <3>2. i \in 1..n
      BY <1>1
    <3> QED
      BY <1>1, <3>1, <3>2
  <2> QED
    BY <1>4, <2>1, <2>2
<1> HIDE DEF e
<1>8. Nearer(w, k + 1, E)
  <2>1. ASSUME NEW i \in 1..(k + 1), NEW j \in 1..(k + 1), i < j PROVE w[i].distance <= w[j].distance
    <3>1. i \in 1..k
      BY <1>1, <2>1
    <3>2. CASE j = k + 1
      BY <1>5, <1>6, <3>1, <3>2
    <3>3. CASE j # k + 1
      <4>1. j \in 1..k
        BY <1>1, <3>3
      <4> QED
        BY <1>4, <1>5, <2>1, <3>1, <4>1
    <3> QED
      BY <3>2, <3>3
  <2>2. ASSUME NEW i \in 1..(k + 1), NEW j \in 1..(k + 1), w[i] = w[j] PROVE i = j
    <3>1. \A x \in 1..(k + 1) : x \in 1..k \/ x = k + 1
      BY <1>1
    <3> QED
      BY <1>4, <1>5, <1>7, <2>2, <3>1
  <2>3. k + 1 \in Nat
    BY <1>1
  <2> QED
    BY <1>5, <2>1, <2>2, <2>3 DEF Nearer
<1>9. ASSUME NEW i \in 1..(p + 1) PROVE \E j \in 1..(k + 1) : w[j] = a[i]
  <2>1. CASE i = p + 1
    <3>1. k + 1 \in 1..(k + 1)
      BY <1>1
    <3> QED
      BY <1>5, <2>1, <3>1 DEF e
  <2>2. CASE i # p + 1
    <3>1. i \in 1..p
      BY <1>1, <2>2
    <3>2. PICK j \in 1..k : z[j] = a[i]
      BY <1>4, <3>1
    <3>3. j \in 1..(k + 1)
      BY <1>1
    <3> QED
      BY <1>5, <3>2, <3>3
  <2> QED
    BY <2>1, <2>2
<1>10. ASSUME NEW i \in 1..q PROVE \E j \in 1..(k + 1) : w[j] = b[i]
  <2>1. PICK j \in 1..k : z[j] = b[i]
    BY <1>4
  <2>2. j \in 1..(k + 1)
    BY <1>1
  <2> QED
    BY <1>5, <2>1, <2>2
<1>11. ASSUME NEW j \in 1..(k + 1)
       PROVE  (\E i \in 1..(p + 1) : w[j] = a[i]) \/ (\E i \in 1..q : w[j] = b[i])
  <2>1. CASE j = k + 1
    <3>1. p + 1 \in 1..(p + 1)
      BY <1>1
    <3> QED
      BY <1>5, <2>1, <3>1 DEF e
  <2>2. CASE j # k + 1
    <3>1. j \in 1..k /\ \A i \in 1..p : i \in 1..(p + 1)
      BY <1>1, <2>2
    <3>2. w[j] = z[j] /\ ((\E i \in 1..p : z[j] = a[i]) \/ (\E i \in 1..q : z[j] = b[i]))
      BY <1>4, <1>5, <3>1
    <3> QED
      BY <3>1, <3>2
  <2> QED
    BY <2>1, <2>2
<1>12. ASSUME NEW j \in 1..(k + 1)
       PROVE  /\ \A i \in (p + 2)..m : w[j].distance <= a[i].distance
              /\ \A i \in (q + 1)..n : w[j].distance <= b[i].distance
  <2>1. CASE j = k + 1
    <3>1. \A i \in (p + 2)..m : i \in 1..m /\ p + 1 < i
      BY <1>1
    <3>2. \A i \in (p + 2)..m : e.distance <= a[i].distance
      BY <1>1, <1>2, <3>1 DEF e
    <3> QED
      BY <1>5, <2>1, <3>2 DEF e
  <2>2. CASE j # k + 1
    <3>1. j \in 1..k /\ \A i \in (p + 2)..m : i \in (p + 1)..m
      BY <1>1, <2>2
    <3> QED
      BY <1>4, <1>5, <3>1
  <2> QED
    BY <2>1, <2>2
<1>13. (p + 1) + 1 = p + 2
  BY <1>1
<1> QED
  BY <1>1, <1>8, <1>9, <1>10, <1>11, <1>12, <1>13 DEF Took, w, e

\* What is left of a sequence of n after the first p.
Rest(a, n, p) == [i \in 1..(n - p) |-> a[p + i]]
Left(x, a, n, p) ==
    /\ x = <<>> <=> p = n
    /\ p # n => x[1] = a[p + 1] /\ Tail(x) = Rest(a, n, p + 1)

LEMMA RestIs ==
    ASSUME NEW E, NEW n \in Nat, NEW a \in [1..n -> E], NEW p \in 0..n
    PROVE  Rest(a, n, p) \in Seq(E) /\ Left(Rest(a, n, p), a, n, p)
<1> DEFINE r == Rest(a, n, p)
           s == Rest(a, n, p + 1)
<1>1. n - p \in Nat /\ \A i \in 1..(n - p) : p + i \in 1..n
  OBVIOUS
<1>2. r \in [1..(n - p) -> E]
  BY <1>1 DEF Rest
<1>3. r \in Seq(E) /\ Len(r) = n - p
  <2> HIDE DEF r
  <2> QED
    BY <1>1, <1>2
<1>4. r = <<>> <=> p = n
  <2> HIDE DEF r
  <2> QED
    BY <1>1, <1>2, <1>3
<1>5. ASSUME p # n PROVE r[1] = a[p + 1] /\ Tail(r) = s
  <2>1. 1 \in 1..(n - p) /\ n - (p + 1) \in Nat
    BY <1>1, <1>5
  <2>2. r[1] = a[p + 1]
    BY <2>1 DEF Rest
  <2>3. Len(r) # 0
    BY <1>3, <2>1
  <2>4. Tail(r) \in Seq(E) /\ Len(Tail(r)) = (n - p) - 1 /\ \A i \in 1..((n - p) - 1) : Tail(r)[i] = r[i + 1]
    <3> HIDE DEF r
    <3> QED
      BY <1>3, <2>3
  <2>5. (n - p) - 1 = n - (p + 1) /\ \A i \in 1..((n - p) - 1) : i + 1 \in 1..(n - p) /\ p + (i + 1) = (p + 1) + i
    OBVIOUS
  <2>6. \A i \in 1..((n - p) - 1) : Tail(r)[i] = a[(p + 1) + i]
    <3>1. \A j \in 1..(n - p) : r[j] = a[p + j]
      BY DEF Rest
    <3> HIDE DEF r
    <3> QED
      BY <2>4, <2>5, <3>1
  <2>7. Tail(r) = [i \in 1..((n - p) - 1) |-> Tail(r)[i]]
    <3> DEFINE tl == Tail(r)
               k == (n - p) - 1
    <3>1. tl \in Seq(E) /\ Len(tl) = k
      BY <2>4
    <3> HIDE DEF tl, k
    <3>2. tl = [i \in 1..k |-> tl[i]]
      BY <3>1
    <3> QED
      BY <3>2 DEF tl, k
  <2>8. Tail(r) = [i \in 1..(n - (p + 1)) |-> a[(p + 1) + i]]
    <3> HIDE DEF r
    <3> QED
      BY <2>5, <2>6, <2>7
  <2> QED
    BY <2>2, <2>8 DEF Rest
<1> QED
  BY <1>3, <1>4, <1>5 DEF Left

\* A turn of merge_sorted_lists.
Taken(st) ==
    CASE st.a = <<>> /\ st.b = <<>> -> st
      [] st.a # <<>> /\ (st.b = <<>> \/ st.a[1].distance <= st.b[1].distance) ->
           [st EXCEPT !.a = Tail(@), !.out = Append(@, st.a[1])]
      [] OTHER -> [st EXCEPT !.b = Tail(@), !.out = Append(@, st.b[1])]
Merging(x, y, z) == [a |-> x, b |-> y, out |-> z]
IsMerging(st, p, q, a, m, b, n, E) ==
    \E z : /\ st = Merging(Rest(a, m, p), Rest(b, n, q), z)
           /\ Took(z, p, q, a, m, b, n, E)

LEMMA TakenIs ==
    ASSUME NEW E, \A x \in E : x.distance \in Int,
           NEW m \in Nat, NEW n \in Nat, NEW a, NEW b, NEW st,
           Nearer(a, m, E), Nearer(b, n, E), \A i \in 1..m, j \in 1..n : a[i] # b[j],
           NEW p \in 0..m, NEW q \in 0..n, IsMerging(st, p, q, a, m, b, n, E)
    PROVE  \/ p = m /\ q = n /\ Taken(st) = st
           \/ p # m /\ IsMerging(Taken(st), p + 1, q, a, m, b, n, E)
           \/ q # n /\ IsMerging(Taken(st), p, q + 1, a, m, b, n, E)
<1>1. PICK z : st = Merging(Rest(a, m, p), Rest(b, n, q), z) /\ Took(z, p, q, a, m, b, n, E)
  BY DEF IsMerging
<1> DEFINE x == Rest(a, m, p)
           y == Rest(b, n, q)
<1>2. st.a = x /\ st.b = y /\ st.out = z
  BY <1>1 DEF Merging
<1>3. /\ a \in [1..m -> E] /\ b \in [1..n -> E]
      /\ \A i, j \in 1..m : i < j => a[i].distance <= a[j].distance
      /\ \A i, j \in 1..n : i < j => b[i].distance <= b[j].distance
  BY DEF Nearer
<1>4. Left(x, a, m, p)
  <2>1. m \in Nat /\ p \in 0..m /\ a \in [1..m -> E]
    BY <1>3
  <2> QED
    BY <2>1, RestIs
<1>5. Left(y, b, n, q)
  <2>1. n \in Nat /\ q \in 0..n /\ b \in [1..n -> E]
    BY <1>3
  <2> QED
    BY <2>1, RestIs
<1> HIDE DEF x, y
<1>6. CASE p = m /\ q = n
  BY <1>2, <1>4, <1>5, <1>6 DEF Taken, Left
<1>7. CASE p # m /\ (q = n \/ a[p + 1].distance <= b[q + 1].distance)
  <2> DEFINE w == Append(z, a[p + 1])
  <2>1. Taken(st) = [st EXCEPT !.a = Tail(x), !.out = w]
    <3>1. x # <<>> /\ (y = <<>> \/ x[1].distance <= y[1].distance) /\ x[1] = a[p + 1]
      BY <1>4, <1>5, <1>7 DEF Left
    <3>2. Taken(st) = [st EXCEPT !.a = Tail(@), !.out = Append(@, st.a[1])]
      BY <1>2, <3>1, Zenon DEF Taken
    <3> QED
      BY <1>2, <3>1, <3>2
  <2>2. Taken(st) = Merging(Rest(a, m, p + 1), y, w)
    <3>1. Tail(x) = Rest(a, m, p + 1)
      BY <1>4, <1>7 DEF Left
    <3>2. st = Merging(x, y, z)
      BY <1>1 DEF x, y
    <3> HIDE DEF w
    <3> QED
      BY <2>1, <3>1, <3>2 DEF Merging
  <2>3. \A i \in (q + 1)..n : a[p + 1].distance <= b[i].distance
    <3> SUFFICES ASSUME NEW i \in (q + 1)..n PROVE a[p + 1].distance <= b[i].distance
      OBVIOUS
    <3>1. q # n /\ q + 1 \in 1..n /\ i \in 1..n /\ p + 1 \in 1..m
      BY <1>7
    <3>2. a[p + 1].distance <= b[q + 1].distance
      BY <1>7, <3>1
    <3>3. a[p + 1].distance \in Int /\ b[q + 1].distance \in Int /\ b[i].distance \in Int
      BY <1>3, <3>1
    <3>4. b[q + 1].distance <= b[i].distance
      <4>1. q + 1 < i \/ q + 1 = i
        OBVIOUS
      <4> QED
        BY <1>3, <3>1, <3>3, <4>1
    <3> QED
      BY <3>2, <3>3, <3>4
  <2>4. Took(w, p + 1, q, a, m, b, n, E)
    BY <1>1, <1>7, <2>3, TookOne
  <2> QED
    BY <1>7, <2>2, <2>4 DEF IsMerging, y
<1>8. CASE q # n /\ (p = m \/ ~(a[p + 1].distance <= b[q + 1].distance))
  <2> DEFINE w == Append(z, b[q + 1])
  <2>1. Taken(st) = [st EXCEPT !.b = Tail(y), !.out = w]
    <3>1. /\ ~(x # <<>> /\ (y = <<>> \/ x[1].distance <= y[1].distance)) /\ y[1] = b[q + 1]
          /\ ~(x = <<>> /\ y = <<>>)
      BY <1>4, <1>5, <1>8 DEF Left
    <3>2. Taken(st) = [st EXCEPT !.b = Tail(@), !.out = Append(@, st.b[1])]
      BY <1>2, <3>1, Zenon DEF Taken
    <3> QED
      BY <1>2, <3>1, <3>2
  <2>2. Taken(st) = Merging(x, Rest(b, n, q + 1), w)
    <3>1. Tail(y) = Rest(b, n, q + 1)
      BY <1>5, <1>8 DEF Left
    <3>2. st = Merging(x, y, z)
      BY <1>1 DEF x, y
    <3> HIDE DEF w
    <3> QED
      BY <2>1, <3>1, <3>2 DEF Merging
  <2>3. \A i \in (p + 1)..m : b[q + 1].distance <= a[i].distance
    <3> SUFFICES ASSUME NEW i \in (p + 1)..m PROVE b[q + 1].distance <= a[i].distance
      OBVIOUS
    <3>1. p # m /\ p + 1 \in 1..m /\ i \in 1..m /\ q + 1 \in 1..n
      BY <1>8
    <3>2. ~(a[p + 1].distance <= b[q + 1].distance)
      BY <1>8, <3>1
    <3>3. a[p + 1].distance \in Int /\ b[q + 1].distance \in Int /\ a[i].distance \in Int
      BY <1>3, <3>1
    <3>4. a[p + 1].distance <= a[i].distance
      <4>1. p + 1 < i \/ p + 1 = i
        OBVIOUS
      <4> QED
        BY <1>3, <3>1, <3>3, <4>1
    <3> QED
      BY <3>2, <3>3, <3>4
  <2>4. Took(z, q, p, b, n, a, m, E)
    BY <1>1, TookEither
  <2>5. Took(w, q + 1, p, b, n, a, m, E)
    <3>1. \A i \in 1..n, j \in 1..m : b[i] # a[j]
      OBVIOUS
    <3> HIDE DEF w
    <3> QED
      BY <1>8, <2>3, <2>4, <3>1, TookOne DEF w
  <2>6. Took(w, p, q + 1, a, m, b, n, E)
    <3>1. q + 1 \in 0..n
      BY <1>8
    <3> HIDE DEF w
    <3> QED
      BY <2>5, <3>1, TookEither
  <2> QED
    BY <1>8, <2>2, <2>6 DEF IsMerging, x
<1> QED
  BY <1>6, <1>7, <1>8

MergingStates(E) == [a : Seq(E), b : Seq(E), out : Seq(E)]

LEMMA TakenStays ==
    ASSUME NEW E, NEW st \in MergingStates(E)
    PROVE  Taken(st) \in MergingStates(E)
<1> DEFINE S == Seq(E)
           x == st.a
           y == st.b
           z == st.out
<1>1. x \in S /\ y \in S /\ z \in S /\ st = Merging(x, y, z)
  BY DEF MergingStates, Merging
<1>2. CASE x = <<>> /\ y = <<>>
  BY <1>2 DEF Taken
<1>3. CASE x # <<>> /\ (y = <<>> \/ x[1].distance <= y[1].distance)
  <2>1. x[1] \in E /\ Tail(x) \in S
    <3> HIDE DEF x
    <3> QED
      BY <1>1, <1>3
  <2>2. Append(z, x[1]) \in S
    <3> HIDE DEF x, z
    <3> QED
      BY <1>1, <2>1
  <2>3. Taken(st) = [st EXCEPT !.a = Tail(@), !.out = Append(@, st.a[1])]
    BY <1>3, Zenon DEF Taken
  <2> HIDE DEF S
  <2>4. [st EXCEPT !.a = Tail(@), !.out = Append(@, st.a[1])] \in [a : S, b : S, out : S]
    <3>1. Tail(st.a) \in S /\ Append(st.out, st.a[1]) \in S
      BY <2>1, <2>2
    <3> QED
      BY <3>1 DEF MergingStates, S
  <2> QED
    BY <2>3, <2>4 DEF MergingStates, S
<1>4. CASE ~(x = <<>> /\ y = <<>>) /\ ~(x # <<>> /\ (y = <<>> \/ x[1].distance <= y[1].distance))
  <2>0. y # <<>>
    BY <1>4
  <2>1. y[1] \in E /\ Tail(y) \in S
    <3> HIDE DEF y
    <3> QED
      BY <1>1, <2>0
  <2>2. Append(z, y[1]) \in S
    <3> HIDE DEF y, z
    <3> QED
      BY <1>1, <2>1
  <2>3. Taken(st) = [st EXCEPT !.b = Tail(@), !.out = Append(@, st.b[1])]
    BY <1>4, Zenon DEF Taken
  <2> HIDE DEF S
  <2>4. [st EXCEPT !.b = Tail(@), !.out = Append(@, st.b[1])] \in [a : S, b : S, out : S]
    <3>1. Tail(st.b) \in S /\ Append(st.out, st.b[1]) \in S
      BY <2>1, <2>2
    <3> QED
      BY <3>1 DEF MergingStates, S
  <2> QED
    BY <2>3, <2>4 DEF MergingStates, S
<1> QED
  BY <1>2, <1>3, <1>4

\* The turns of merge_sorted_lists, one after the other.
Turns(w, k, a, b) ==
    /\ w[0] = Merging(a, b, <<>>)
    /\ \A i \in 1..k : w[i] = Taken(w[i - 1])

LEMMA MergeTurns ==
    ASSUME NEW E, NEW k \in Nat, NEW a \in Seq(E), NEW b \in Seq(E)
    PROVE  \E w : Turns(w, k, a, b) /\ MergeSortedLists(a, b, k) = w[k].out
<1> DEFINE D == MergingStates(E)
           base == Merging(a, b, <<>>)
           positions == [i \in 1..k |-> i]
           Step(st, i) == Taken(st)
           F == [x \in D \X (1..k) |-> Step(x[1], x[2])]
           G(h) == [s \in SUBSET (1..k) |-> IF s = {} THEN base ELSE Step(h[s \ {Top(s)}], Top(s))]
           it == CHOOSE h : h = G(h)
           w == [i \in 0..k |-> it[1..i]]
<1>d. DOMAIN positions = 1..k /\ \A i \in 1..k : positions[i] = i
  OBVIOUS
<1> HIDE DEF positions
<1>0. base \in D
  <2>1. <<>> \in Seq(E)
    OBVIOUS
  <2> QED
    BY <2>1 DEF MergingStates, Merging
<1>1. ASSUME NEW st \in D, NEW i \in 1..k PROVE Step(st, i) \in D
  BY TakenStays
<1>2. PICK h \in [SUBSET (1..k) -> D] : IsChain(F, base, k, h)
  <2>1. \A st \in D, i \in 1..k : F[<<st, i>>] \in D
    <3> HIDE DEF D, Step
    <3> QED
      BY <1>1
  <2> HIDE DEF F, D, base
  <2> QED
    BY <1>0, <2>1, ChainExists
<1> HIDE DEF base
<1>3. h = G(h)
  <2> HIDE DEF D, Step
  <2>1. ASSUME NEW s \in SUBSET (1..k), s # {} PROVE F[<<h[s \ {Top(s)}], Top(s)>>] = Step(h[s \ {Top(s)}], Top(s))
    <3>1. Top(s) \in 1..k
      BY <2>1, TopIs
    <3>2. s \ {Top(s)} \in SUBSET (1..k)
      OBVIOUS
    <3> QED
      BY <3>1, <3>2
  <2> HIDE DEF F
  <2> QED
    BY <1>2, <2>1 DEF IsChain
<1>4. it = G(it)
  <2> HIDE DEF G
  <2> QED
    BY <1>3
<1>5. MergeSortedLists(a, b, k) = it[1..k].out
  BY <1>d, Zenon DEF MergeSortedLists, FoldLeft, MapThenFoldSet, Max, Top, positions, Taken, base, Merging
<1> HIDE DEF it, Step
<1>6. it[1..0] = base /\ \A i \in 1..k : it[1..i] = Taken(it[1..(i - 1)])
  <2>1. it[1..0] = base
    BY <1>4
  <2>2. ASSUME NEW i \in 1..k PROVE it[1..i] = Taken(it[1..(i - 1)])
    <3>0. i \in Nat /\ i # 0 /\ i \in 1..i
      OBVIOUS
    <3>s. 1..i \in SUBSET (1..k)
      OBVIOUS
    <3>1. Top(1..i) = i /\ (1..i) \ {i} = 1..(i - 1) /\ 1..i # {} /\ 1..i \in SUBSET (1..k)
      BY <3>0, <3>s, TopOfInterval
    <3>2. it[1..i] = Step(it[1..(i - 1)], i)
      BY <1>4, <3>1
    <3> QED
      BY <3>2 DEF Step
  <2> QED
    BY <2>1, <2>2
<1>7. w[k] = it[1..k] /\ w[0] = it[1..0] /\ \A i \in 1..k : w[i] = it[1..i] /\ w[i - 1] = it[1..(i - 1)]
  OBVIOUS
<1> HIDE DEF w
<1>8. Turns(w, k, a, b)
  BY <1>6, <1>7 DEF Turns, base
<1> QED
  BY <1>5, <1>7, <1>8

LEMMA MergedAreTyped ==
    ASSUME NEW E, NEW k \in Nat, NEW a \in Seq(E), NEW b \in Seq(E)
    PROVE  MergeSortedLists(a, b, k) \in Seq(E)
<1>1. PICK w : Turns(w, k, a, b) /\ MergeSortedLists(a, b, k) = w[k].out
  BY MergeTurns
<1> DEFINE D == MergingStates(E)
           S == {i \in 0..k : w[i] \in D}
<1>2. 0 \in S
  <2>1. <<>> \in Seq(E)
    OBVIOUS
  <2>2. w[0] \in D
    BY <1>1, <2>1 DEF Turns, MergingStates, Merging
  <2> QED
    BY <2>2
<1>3. ASSUME NEW i \in 1..k, i - 1 \in S PROVE i \in S
  <2>1. w[i - 1] \in D /\ w[i] = Taken(w[i - 1])
    BY <1>1, <1>3 DEF Turns
  <2>2. w[i] \in D
    <3> DEFINE st == w[i - 1]
    <3> HIDE DEF st, D
    <3>1. Taken(st) \in D
      BY <2>1, TakenStays DEF st, D
    <3> QED
      BY <2>1, <3>1 DEF st
  <2> QED
    BY <2>2
<1>4. k \in S
  <2> HIDE DEF S
  <2>1. \A i \in 0..k : i \in S
    BY <1>2, <1>3, UpTo
  <2> QED
    BY <2>1
<1> QED
  BY <1>1, <1>4 DEF MergingStates

\* After j turns, the first of both together.
Turned(st, j, a, m, b, n, E) ==
    \E p \in 0..m, q \in 0..n : /\ IsMerging(st, p, q, a, m, b, n, E)
                                /\ p + q = IF j < m + n THEN j ELSE m + n

LEMMA MergeEnds ==
    ASSUME NEW E, \A x \in E : x.distance \in Int, NEW k \in Nat,
           NEW m \in Nat, NEW n \in Nat, NEW a, NEW b,
           Nearer(a, m, E), Nearer(b, n, E), \A i \in 1..m, j \in 1..n : a[i] # b[j]
    PROVE  \E st : Turned(st, k, a, m, b, n, E) /\ MergeSortedLists(a, b, k) = st.out
<1>1. a \in [1..m -> E] /\ b \in [1..n -> E]
  BY DEF Nearer
<1>2. PICK w : Turns(w, k, a, b) /\ MergeSortedLists(a, b, k) = w[k].out
  <2>1. a \in Seq(E) /\ b \in Seq(E)
    BY <1>1
  <2> QED
    BY <2>1, MergeTurns
<1>3. IsMerging(w[0], 0, 0, a, m, b, n, E)
  <2>1. a = Rest(a, m, 0)
    <3>1. a = [i \in 1..(m - 0) |-> a[0 + i]]
      BY <1>1
    <3> QED
      BY <3>1 DEF Rest
  <2>2. b = Rest(b, n, 0)
    <3>1. b = [i \in 1..(n - 0) |-> b[0 + i]]
      BY <1>1
    <3> QED
      BY <3>1 DEF Rest
  <2>3. Took(<<>>, 0, 0, a, m, b, n, E)
    BY DEF Took, Nearer
  <2> QED
    BY <1>2, <2>1, <2>2, <2>3 DEF IsMerging, Turns
<1> DEFINE S == {i \in 0..k : Turned(w[i], i, a, m, b, n, E)}
<1>7. 0 \in S
  <2>1. 0 = IF 0 < m + n THEN 0 ELSE m + n
    OBVIOUS
  <2>2. 0 \in 0..m /\ 0 \in 0..n /\ 0 + 0 = 0 /\ 0 \in 0..k
    OBVIOUS
  <2> QED
    BY <1>3, <2>1, <2>2 DEF Turned
<1>8. ASSUME NEW i \in 1..k, i - 1 \in S PROVE i \in S
  <2> DEFINE st == w[i - 1]
  <2>1. PICK p \in 0..m, q \in 0..n : /\ IsMerging(st, p, q, a, m, b, n, E)
                                      /\ p + q = IF i - 1 < m + n THEN i - 1 ELSE m + n
    BY <1>8 DEF Turned
  <2>2. w[i] = Taken(st)
    BY <1>2 DEF Turns
  <2> HIDE DEF st
  <2>3. \/ p = m /\ q = n /\ Taken(st) = st
        \/ p # m /\ IsMerging(Taken(st), p + 1, q, a, m, b, n, E)
        \/ q # n /\ IsMerging(Taken(st), p, q + 1, a, m, b, n, E)
    BY <2>1, TakenIs
  <2>4. CASE p = m /\ q = n /\ Taken(st) = st
    <3>1. p + q = IF i < m + n THEN i ELSE m + n
      BY <2>1, <2>4
    <3> QED
      BY <2>1, <2>2, <2>4, <3>1 DEF Turned
  <2>5. CASE p # m /\ IsMerging(Taken(st), p + 1, q, a, m, b, n, E)
    <3>1. p + 1 \in 0..m /\ (p + 1) + q = IF i < m + n THEN i ELSE m + n
      BY <2>1, <2>5
    <3> QED
      BY <2>2, <2>5, <3>1 DEF Turned
  <2>6. CASE q # n /\ IsMerging(Taken(st), p, q + 1, a, m, b, n, E)
    <3>1. q + 1 \in 0..n /\ p + (q + 1) = IF i < m + n THEN i ELSE m + n
      BY <2>1, <2>6
    <3> QED
      BY <2>2, <2>6, <3>1 DEF Turned
  <2> QED
    BY <2>3, <2>4, <2>5, <2>6
<1>9. k \in S
  <2> HIDE DEF S
  <2>1. \A i \in 0..k : i \in S
    BY <1>7, <1>8, UpTo
  <2> QED
    BY <2>1
<1> QED
  BY <1>2, <1>9

\* merge_sorted_lists: of two lists of nearest answers, the nearest of both.
LEMMA MergedAreBest ==
    ASSUME NEW A, NEW B, A \cap B = {}, \A x \in A \cup B : x.distance \in Int, NEW k \in Nat,
           NEW a, NEW m, NEW b, NEW n, Best(a, m, A, k), Best(b, n, B, k)
    PROVE  \E l : Best(MergeSortedLists(a, b, k), l, A \cup B, k)
<1> DEFINE E == A \cup B
           z == MergeSortedLists(a, b, k)
<1>1. /\ m \in Nat /\ n \in Nat /\ m <= k /\ n <= k
      /\ a \in [1..m -> A] /\ b \in [1..n -> B]
      /\ Nearer(a, m, A) /\ Nearer(b, n, B)
      /\ \A x \in A : \/ \E i \in 1..m : a[i] = x
                      \/ m = k /\ \A i \in 1..m : a[i].distance <= x.distance
      /\ \A x \in B : \/ \E i \in 1..n : b[i] = x
                      \/ n = k /\ \A i \in 1..n : b[i].distance <= x.distance
  BY DEF Best, Nearer
<1>2. Nearer(a, m, E) /\ Nearer(b, n, E) /\ \A i \in 1..m, j \in 1..n : a[i] # b[j]
  <2>1. a \in [1..m -> E] /\ b \in [1..n -> E] /\ \A i \in 1..m, j \in 1..n : a[i] # b[j]
    BY <1>1
  <2> HIDE DEF E
  <2>2. Nearer(a, m, E)
    BY <1>1, <2>1 DEF Nearer
  <2>3. Nearer(b, n, E)
    BY <1>1, <2>1 DEF Nearer
  <2> QED
    BY <2>1, <2>2, <2>3
<1>3. \A x \in E : x.distance \in Int
  OBVIOUS
<1> HIDE DEF E
<1>4. PICK st : Turned(st, k, a, m, b, n, E) /\ z = st.out
  <2>1. m \in Nat /\ n \in Nat /\ Nearer(a, m, E) /\ Nearer(b, n, E)
    BY <1>1, <1>2
  <2>2. \A i \in 1..m, j \in 1..n : a[i] # b[j]
    BY <1>2
  <2> HIDE DEF z
  <2>3. \E st : Turned(st, k, a, m, b, n, E) /\ MergeSortedLists(a, b, k) = st.out
    BY <1>3, <2>1, <2>2, MergeEnds
  <2> QED
    BY <2>3 DEF z
<1> HIDE DEF z
<1>5. PICK p \in 0..m, q \in 0..n : /\ Took(z, p, q, a, m, b, n, E)
                                    /\ p + q = IF k < m + n THEN k ELSE m + n
  BY <1>4 DEF Turned, IsMerging, Merging
<1> DEFINE l == p + q
<1>6. /\ Nearer(z, l, E)
      /\ l \in Nat
      /\ z \in [1..l -> E]
      /\ \A i \in 1..p : \E j \in 1..l : z[j] = a[i]
      /\ \A i \in 1..q : \E j \in 1..l : z[j] = b[i]
      /\ \A j \in 1..l : \/ \E i \in 1..p : z[j] = a[i]
                         \/ \E i \in 1..q : z[j] = b[i]
      /\ \A j \in 1..l : /\ \A i \in (p + 1)..m : z[j].distance <= a[i].distance
                         /\ \A i \in (q + 1)..n : z[j].distance <= b[i].distance
  BY <1>5 DEF Took, Nearer
<1>7. l <= k /\ (l = k \/ (p = m /\ q = n))
  BY <1>1, <1>5
<1>8. ASSUME NEW x \in A
      PROVE  (\E j \in 1..l : z[j] = x) \/ (l = k /\ \A j \in 1..l : z[j].distance <= x.distance)
  <2>1. CASE \E i \in 1..m : a[i] = x
    <3>1. PICK i \in 1..m : a[i] = x
      BY <2>1
    <3>2. CASE i \in 1..p
      BY <1>6, <3>1, <3>2
    <3>3. CASE i \notin 1..p
      <4>1. i \in (p + 1)..m /\ p # m
        BY <1>1, <3>3
      <4> QED
        BY <1>6, <1>7, <3>1, <4>1
    <3> QED
      BY <3>2, <3>3
  <2>2. CASE ~ \E i \in 1..m : a[i] = x
    <3>1. m = k /\ \A i \in 1..m : a[i].distance <= x.distance
      BY <1>1, <2>2
    <3>2. l = k
      BY <1>1, <1>5, <3>1
    <3>3. ASSUME NEW j \in 1..l PROVE z[j].distance <= x.distance
      <4>1. CASE p # m
        <5>1. m \in (p + 1)..m /\ m \in 1..m
          BY <1>1, <4>1
        <5>2. z[j].distance <= a[m].distance /\ a[m].distance <= x.distance
          BY <1>6, <3>1, <5>1
        <5>3. z[j] \in E /\ a[m] \in A /\ a[m] \in E /\ x \in E
          BY <1>1, <1>6, <5>1 DEF E
        <5>4. z[j].distance \in Int /\ a[m].distance \in Int /\ x.distance \in Int
          BY <1>3, <5>3
        <5> QED
          BY <5>2, <5>4
      <4>2. CASE p = m
        <5>1. q = 0
          <6>1. p = k /\ p + q = k /\ q \in Nat
            BY <3>1, <3>2, <4>2
          <6> QED
            BY <6>1
        <5>2. PICK i \in 1..p : z[j] = a[i]
          BY <1>6, <5>1
        <5> QED
          BY <3>1, <4>2, <5>2
      <4> QED
        BY <4>1, <4>2
    <3> QED
      BY <3>2, <3>3
  <2> QED
    BY <2>1, <2>2
<1>9. ASSUME NEW x \in B
      PROVE  (\E j \in 1..l : z[j] = x) \/ (l = k /\ \A j \in 1..l : z[j].distance <= x.distance)
  <2>1. CASE \E i \in 1..n : b[i] = x
    <3>1. PICK i \in 1..n : b[i] = x
      BY <2>1
    <3>2. CASE i \in 1..q
      BY <1>6, <3>1, <3>2
    <3>3. CASE i \notin 1..q
      <4>1. i \in (q + 1)..n /\ q # n
        BY <1>1, <3>3
      <4> QED
        BY <1>6, <1>7, <3>1, <4>1
    <3> QED
      BY <3>2, <3>3
  <2>2. CASE ~ \E i \in 1..n : b[i] = x
    <3>1. n = k /\ \A i \in 1..n : b[i].distance <= x.distance
      BY <1>1, <2>2
    <3>2. l = k
      BY <1>1, <1>5, <3>1
    <3>3. ASSUME NEW j \in 1..l PROVE z[j].distance <= x.distance
      <4>1. CASE q # n
        <5>1. n \in (q + 1)..n /\ n \in 1..n
          BY <1>1, <4>1
        <5>2. z[j].distance <= b[n].distance /\ b[n].distance <= x.distance
          BY <1>6, <3>1, <5>1
        <5>3. z[j] \in E /\ b[n] \in B /\ b[n] \in E /\ x \in E
          BY <1>1, <1>6, <5>1 DEF E
        <5>4. z[j].distance \in Int /\ b[n].distance \in Int /\ x.distance \in Int
          BY <1>3, <5>3
        <5> QED
          BY <5>2, <5>4
      <4>2. CASE q = n
        <5>1. p = 0
          <6>1. q = k /\ p + q = k /\ p \in Nat
            BY <3>1, <3>2, <4>2
          <6> QED
            BY <6>1
        <5>2. PICK i \in 1..q : z[j] = b[i]
          BY <1>6, <5>1
        <5> QED
          BY <3>1, <4>2, <5>2
      <4> QED
        BY <4>1, <4>2
    <3> QED
      BY <3>2, <3>3
  <2> QED
    BY <2>1, <2>2
<1>10. \A x \in E : \/ \E j \in 1..l : z[j] = x
                    \/ l = k /\ \A j \in 1..l : z[j].distance <= x.distance
  BY <1>8, <1>9 DEF E
<1> HIDE DEF l
<1>11. Best(z, l, E, k)
  BY <1>6, <1>7, <1>10 DEF Best
<1> QED
  BY <1>11 DEF z, E

-----------------------------------------------------------------------------
Entry(ids, dist, o) == [rowid |-> ids[o], distance |-> dist[o]]
Entries(S, ids, dist) == {Entry(ids, dist, o) : o \in S}
InTurn(order, ids, dist) == [i \in 1..Len(order) |-> [rowid |-> ids[order[i]], distance |-> dist[order[i]]]]

Closer(S, dist) ==
    {p \in S \X S : \/ dist[p[1]] < dist[p[2]]
                    \/ dist[p[1]] = dist[p[2]] /\ p[1] > p[2]}

LEMMA CloserOrders ==
    ASSUME NEW S \in SUBSET Int, NEW dist, \A o \in S : dist[o] \in Int
    PROVE  Orders(Closer(S, dist), S)
<1> DEFINE R == Closer(S, dist)
<1>1. \A x, y \in S : <<x, y>> \in R <=> (dist[x] < dist[y] \/ (dist[x] = dist[y] /\ x > y))
  BY DEF Closer
<1>2. \A x \in S : x \in Int /\ dist[x] \in Int
  OBVIOUS
<1> HIDE DEF R
<1>3. \A x, y, z \in S : <<x, y>> \in R /\ <<y, z>> \in R => <<x, z>> \in R
  <2> SUFFICES ASSUME NEW x \in S, NEW y \in S, NEW z \in S, <<x, y>> \in R, <<y, z>> \in R
               PROVE  <<x, z>> \in R
    OBVIOUS
  <2>1. /\ x \in Int /\ y \in Int /\ z \in Int /\ dist[x] \in Int /\ dist[y] \in Int /\ dist[z] \in Int
        /\ dist[x] < dist[y] \/ (dist[x] = dist[y] /\ x > y)
        /\ dist[y] < dist[z] \/ (dist[y] = dist[z] /\ y > z)
    BY <1>1, <1>2
  <2>2. dist[x] < dist[z] \/ (dist[x] = dist[z] /\ x > z)
    BY <2>1
  <2> QED
    BY <1>1, <2>2
<1>4. \A x \in S : <<x, x>> \notin R
  BY <1>1, <1>2
<1>5. \A x, y \in S : x # y => <<x, y>> \in R \/ <<y, x>> \in R
  <2> SUFFICES ASSUME NEW x \in S, NEW y \in S, x # y PROVE <<x, y>> \in R \/ <<y, x>> \in R
    OBVIOUS
  <2>1. x \in Int /\ y \in Int /\ dist[x] \in Int /\ dist[y] \in Int
    BY <1>2
  <2>2. \/ dist[x] < dist[y] \/ (dist[x] = dist[y] /\ x > y)
        \/ dist[y] < dist[x] \/ (dist[y] = dist[x] /\ y > x)
    BY <2>1
  <2> QED
    BY <1>1, <2>2
<1> QED
  BY <1>3, <1>4, <1>5 DEF Orders, R

Before(S, dist, x) == {y \in S : \/ dist[y] < dist[x]
                                 \/ dist[y] = dist[x] /\ y > x}

LEMMA BeforeIsBelow ==
    ASSUME NEW S, NEW dist, NEW x \in S
    PROVE  Before(S, dist, x) = Below(S, Closer(S, dist), x)
<1>1. \A y \in S : <<y, x>> \in Closer(S, dist) <=> (dist[y] < dist[x] \/ (dist[y] = dist[x] /\ y > x))
  BY DEF Closer
<1> QED
  BY <1>1 DEF Below, Before

\* What min_idx lists are the nearest of the candidates.
LEMMA MinIdxIsBest ==
    ASSUME NEW S \in SUBSET Int, IsFiniteSet(S), NEW dist, \A o \in S : dist[o] \in Int,
           NEW ids, \A o, p \in S : ids[o] = ids[p] => o = p,
           NEW k \in Nat, NEW size \in Nat, Cardinality(S) <= size
    PROVE  \E l : Best(InTurn(MinIdx(dist, S, AtMost(k, size)), ids, dist), l,
                       Entries(S, ids, dist), k)
<1> DEFINE R == Closer(S, dist)
           n == Cardinality(S)
           order == RankedBy(S, R)
           K == AtMost(k, size)
           E == Entries(S, ids, dist)
           l == AtMost(k, n)
           part == MinIdx(dist, S, K)
           out == InTurn(part, ids, dist)
<1>1. Listing(order, n, S, R)
  BY CloserOrders, RankedByIs
<1> DEFINE First(i) == CHOOSE x \in S : Cardinality(Before(S, dist, x)) = i - 1
           Other(i) == CHOOSE x \in S : Cardinality(Below(S, R, x)) = i - 1
<1>2. [i \in 1..n |-> First(i)] = order
  <2>1. ASSUME NEW x \in S PROVE Before(S, dist, x) = Below(S, R, x)
    BY BeforeIsBelow
  <2>2. order = [i \in 1..n |-> Other(i)]
    BY Zenon DEF RankedBy
  <2> HIDE DEF R
  <2>3. ASSUME NEW i \in 1..n PROVE First(i) = Other(i)
    <3>1. \A x \in S : Cardinality(Before(S, dist, x)) = i - 1 <=> Cardinality(Below(S, R, x)) = i - 1
      BY <2>1
    <3> QED
      BY <3>1, Zenon
  <2> HIDE DEF First, Other, order, n
  <2> QED
    BY <2>2, <2>3
<1>3. part = FirstN(order, K)
  <2>1. part = FirstN([i \in 1..n |-> First(i)], K)
    <3> HIDE DEF K
    <3> QED
      BY Zenon DEF MinIdx, Ranked, Before
  <2> HIDE DEF First, part, order, K
  <2> QED
    BY <1>2, <2>1
<1> HIDE DEF order, R
<1>4. /\ n \in Nat /\ order \in [1..n -> S]
      /\ \A i, j \in 1..n : i < j => <<order[i], order[j]>> \in R
      /\ \A i, j \in 1..n : order[i] = order[j] => i = j
      /\ \A x \in S : \E i \in 1..n : order[i] = x
  BY <1>1 DEF Listing
<1> HIDE DEF n
<1>5. l \in Nat /\ l <= n /\ l <= k /\ (l = k \/ l = n) /\ AtMost(K, n) = l
  <2>1. n <= size /\ n \in Nat
    BY <1>4 DEF n
  <2> QED
    BY <2>1 DEF AtMost
<1> HIDE DEF K, l
<1>6. part = SubSeq(order, 1, l)
  <2>1. Len(order) = n
    BY <1>4
  <2> QED
    BY <1>3, <1>5, <2>1 DEF FirstN
<1>7. Len(part) = l /\ \A i \in 1..l : part[i] = order[i]
  <2>1. order \in Seq(S) /\ Len(order) = n
    BY <1>4
  <2>2. l <= Len(order) /\ l \in Nat
    BY <1>5, <2>1
  <2>3. Len(SubSeq(order, 1, l)) = l
    BY <2>1, <2>2
  <2>4. ASSUME NEW i \in 1..l PROVE SubSeq(order, 1, l)[i] = order[i]
    BY <2>1, <2>2
  <2> QED
    BY <1>6, <2>3, <2>4
<1> HIDE DEF part
<1>8. out = [i \in 1..l |-> Entry(ids, dist, order[i])]
  BY <1>7 DEF InTurn, Entry
<1> HIDE DEF out
<1>9. \A i \in 1..l : i \in 1..n /\ order[i] \in S /\ out[i] = Entry(ids, dist, order[i])
  BY <1>4, <1>5, <1>8
<1>10. \A o \in S : Entry(ids, dist, o).distance = dist[o] /\ Entry(ids, dist, o).rowid = ids[o]
  BY DEF Entry
<1>11. out \in [1..l -> E]
  BY <1>8, <1>9 DEF Entries
<1>12. ASSUME NEW i \in 1..n, NEW j \in 1..n, i < j PROVE dist[order[i]] <= dist[order[j]]
  <2>1. <<order[i], order[j]>> \in R
    BY <1>4, <1>12
  <2>2. dist[order[i]] < dist[order[j]] \/ dist[order[i]] = dist[order[j]]
    BY <2>1 DEF R, Closer
  <2>3. dist[order[i]] \in Int /\ dist[order[j]] \in Int
    BY <1>4
  <2> QED
    BY <2>2, <2>3
<1>13. \A i, j \in 1..l : i < j => out[i].distance <= out[j].distance
  <2> SUFFICES ASSUME NEW i \in 1..l, NEW j \in 1..l, i < j PROVE out[i].distance <= out[j].distance
    OBVIOUS
  <2>1. out[i].distance = dist[order[i]] /\ out[j].distance = dist[order[j]]
    BY <1>9, <1>10
  <2>2. i \in 1..n /\ j \in 1..n
    BY <1>9
  <2>3. dist[order[i]] <= dist[order[j]]
    BY <1>12, <2>2
  <2>4. dist[order[i]] \in Int /\ dist[order[j]] \in Int
    BY <1>9
  <2> QED
    BY <2>1, <2>3, <2>4
<1>14. \A i, j \in 1..l : out[i] = out[j] => i = j
  <2> SUFFICES ASSUME NEW i \in 1..l, NEW j \in 1..l, out[i] = out[j] PROVE i = j
    OBVIOUS
  <2>0. out[i] = Entry(ids, dist, order[i]) /\ out[j] = Entry(ids, dist, order[j])
        /\ order[i] \in S /\ order[j] \in S
    BY <1>9
  <2>a. Entry(ids, dist, order[i]).rowid = ids[order[i]] /\ Entry(ids, dist, order[j]).rowid = ids[order[j]]
    BY <1>10, <2>0
  <2>1. ids[order[i]] = ids[order[j]]
    BY <2>0, <2>a
  <2> QED
    BY <1>4, <1>9, <2>1
<1>15. ASSUME NEW x \in E
       PROVE  (\E i \in 1..l : out[i] = x) \/ (l = k /\ \A i \in 1..l : out[i].distance <= x.distance)
  <2>1. PICK o \in S : x = Entry(ids, dist, o)
    BY DEF Entries
  <2>2. PICK j \in 1..n : order[j] = o
    BY <1>4
  <2>3. CASE j \in 1..l
    BY <1>9, <2>1, <2>2, <2>3
  <2>4. CASE j \notin 1..l
    <3>1. l < j
      BY <1>4, <1>5, <2>4
    <3>2. l = k
      BY <1>4, <1>5, <3>1
    <3>3. ASSUME NEW i \in 1..l PROVE out[i].distance <= x.distance
      <4>1. i \in 1..n /\ i < j
        BY <1>4, <1>5, <3>1
      <4>2. dist[order[i]] <= dist[order[j]]
        BY <1>12, <4>1
      <4> QED
        BY <1>9, <1>10, <2>1, <2>2, <4>2
    <3> QED
      BY <3>2, <3>3
  <2> QED
    BY <2>3, <2>4
<1> HIDE DEF E
<1>16. Best(out, l, E, k)
  BY <1>5, <1>11, <1>13, <1>14, <1>15 DEF Best, Nearer
<1> QED
  BY <1>16 DEF out, part, E, K

-----------------------------------------------------------------------------
\* What is found in the first j of the places.
UpToPlace(E, j) == UNION {E[i] : i \in 1..j}
MergedSoFar(best, E, j, k) == \E l : Best(best, l, UpToPlace(E, j), k)

\* The nearest of every place merged into the nearest so far, place by place.
LEMMA MergedInTurn ==
    ASSUME NEW n \in Nat, NEW k \in Nat, NEW E, NEW found, NEW w,
           \A i \in 1..n : \E l : Best(found[i], l, E[i], k),
           \A i \in 1..n : \A x \in E[i] : x.distance \in Int,
           \A i, j \in 1..n : i # j => E[i] \cap E[j] = {},
           w[0] = <<>>, \A i \in 1..n : w[i] = MergeSortedLists(w[i - 1], found[i], k)
    PROVE  MergedSoFar(w[n], E, n, k)
<1> DEFINE S == {j \in 0..n : MergedSoFar(w[j], E, j, k)}
<1>1. 0 \in S
  <2>1. UpToPlace(E, 0) = {}
    BY DEF UpToPlace
  <2>2. Best(<<>>, 0, {}, k)
    BY DEF Best, Nearer
  <2>3. MergedSoFar(w[0], E, 0, k)
    BY <2>1, <2>2, Zenon DEF MergedSoFar
  <2>4. 0 \in 0..n
    OBVIOUS
  <2> QED
    BY <2>3, <2>4
<1>2. ASSUME NEW i \in 1..n, i - 1 \in S PROVE i \in S
  <2> DEFINE A == UpToPlace(E, i - 1)
             B == E[i]
  <2>1. PICK m : Best(w[i - 1], m, A, k)
    BY <1>2 DEF MergedSoFar
  <2>2. PICK l : Best(found[i], l, B, k)
    OBVIOUS
  <2>3. \A j \in 1..(i - 1) : j \in 1..n /\ j # i
    OBVIOUS
  <2>4. A \cap B = {}
    <3> SUFFICES ASSUME NEW x \in A, x \in B PROVE FALSE
      OBVIOUS
    <3>1. PICK j \in 1..(i - 1) : x \in E[j]
      BY DEF UpToPlace
    <3>2. E[i] \cap E[j] = {}
      BY <2>3
    <3> QED
      BY <3>1, <3>2
  <2>5. A \cup B = UpToPlace(E, i)
    <3>1. \A j \in 1..i : j \in 1..(i - 1) \/ j = i
      OBVIOUS
    <3>2. i \in 1..i /\ \A j \in 1..(i - 1) : j \in 1..i
      OBVIOUS
    <3>3. \A x : x \in UpToPlace(E, i) <=> \E j \in 1..i : x \in E[j]
      BY DEF UpToPlace
    <3>4. \A x : x \in A <=> \E j \in 1..(i - 1) : x \in E[j]
      BY DEF UpToPlace
    <3> HIDE DEF A
    <3>5. \A x : x \in A \cup B <=> x \in UpToPlace(E, i)
      BY <3>1, <3>2, <3>3, <3>4
    <3> HIDE DEF B
    <3> QED
      BY <3>5
  <2>6. \A x \in A \cup B : x.distance \in Int
    <3> SUFFICES ASSUME NEW x \in A \cup B PROVE x.distance \in Int
      OBVIOUS
    <3>1. x \in UpToPlace(E, i)
      BY <2>5
    <3>2. PICK j \in 1..i : x \in E[j]
      BY <3>1 DEF UpToPlace
    <3>3. j \in 1..n
      OBVIOUS
    <3> QED
      BY <3>2, <3>3
  <2> HIDE DEF A, B
  <2>7. \E z : Best(MergeSortedLists(w[i - 1], found[i], k), z, A \cup B, k)
    BY <2>1, <2>2, <2>4, <2>6, MergedAreBest
  <2>8. MergedSoFar(w[i], E, i, k)
    BY <2>5, <2>7 DEF MergedSoFar
  <2> QED
    BY <2>8
<1>3. n \in S
  <2> HIDE DEF S
  <2>1. \A i \in 0..n : i \in S
    BY <1>1, <1>2, UpTo
  <2> QED
    BY <2>1
<1> QED
  BY <1>3

-----------------------------------------------------------------------------
\* The slots of a chunk the scan considers, and what it makes of them.
Near(s, t, rowidIn, metadata, far, dist, chunk) ==
    {o \in ChunkCandidates(s, t, chunk, rowidIn, RowidsIn(s, t, rowidIn), metadata) :
        WithinDistance(far, dist[chunk][o])}
FoundIn(s, t, rowidIn, metadata, far, k, dist, chunk) ==
    InTurn(MinIdx(dist[chunk], Near(s, t, rowidIn, metadata, far, dist, chunk), AtMost(k, t.chunkSize)),
           s.chunks[chunk].rowids, dist[chunk])
EntriesIn(s, t, rowidIn, metadata, far, dist, chunk) ==
    Entries(Near(s, t, rowidIn, metadata, far, dist, chunk), s.chunks[chunk].rowids, dist[chunk])

Finds(w, n, s, t, chunks, rowidIn, metadata, far, k, dist) ==
    /\ w[0] = <<>>
    /\ \A i \in 1..n :
          w[i] = MergeSortedLists(w[i - 1], FoundIn(s, t, rowidIn, metadata, far, k, dist, chunks[i]), k)

\* vec0Filter_knn_chunks_iter, chunk by chunk.
LEMMA ScanTurns ==
    ASSUME NEW s, NEW t, NEW rowidIn, NEW metadata, NEW far, NEW k \in Nat, NEW dist,
           NEW n \in Nat, NEW chunks, DOMAIN chunks = 1..n, Len(chunks) = n, NEW X,
           \A i \in 1..n : FoundIn(s, t, rowidIn, metadata, far, k, dist, chunks[i]) \in Seq(X)
    PROVE  \E w : /\ Finds(w, n, s, t, chunks, rowidIn, metadata, far, k, dist)
                  /\ ScanChunks(s, t, chunks, rowidIn, metadata, far, k, dist) = w[n]
<1> DEFINE D == Seq(X)
           Step(best, c) == MergeSortedLists(best, FoundIn(s, t, rowidIn, metadata, far, k, dist, c), k)
           F == [x \in D \X (1..n) |-> Step(x[1], chunks[x[2]])]
           G(h) == [S \in SUBSET (1..n) |-> IF S = {} THEN <<>> ELSE Step(h[S \ {Top(S)}], chunks[Top(S)])]
           it == CHOOSE h : h = G(h)
           w == [i \in 0..n |-> it[1..i]]
<1>1. ASSUME NEW best \in D, NEW i \in 1..n PROVE Step(best, chunks[i]) \in D
  BY MergedAreTyped
<1>0. <<>> \in D
  OBVIOUS
<1>2. PICK h \in [SUBSET (1..n) -> D] : IsChain(F, <<>>, n, h)
  <2>1. \A best \in D, i \in 1..n : F[<<best, i>>] \in D
    <3> HIDE DEF D, Step
    <3> QED
      BY <1>1
  <2> HIDE DEF F, D
  <2> QED
    BY <1>0, <2>1, ChainExists
<1>3. h = G(h)
  <2> HIDE DEF D, Step
  <2>1. ASSUME NEW S \in SUBSET (1..n), S # {}
        PROVE  F[<<h[S \ {Top(S)}], Top(S)>>] = Step(h[S \ {Top(S)}], chunks[Top(S)])
    <3>1. Top(S) \in 1..n
      BY <2>1, TopIs
    <3>2. S \ {Top(S)} \in SUBSET (1..n)
      OBVIOUS
    <3> QED
      BY <3>1, <3>2
  <2> HIDE DEF F
  <2> QED
    BY <1>2, <2>1 DEF IsChain
<1>4. it = G(it)
  <2> HIDE DEF G
  <2> QED
    BY <1>3
<1>5. ScanChunks(s, t, chunks, rowidIn, metadata, far, k, dist) = it[1..n]
  BY Zenon DEF ScanChunks, FoldLeft, MapThenFoldSet, Max, Top, FoundIn, InTurn, Near
<1> HIDE DEF it, Step, D
<1>6. it[1..0] = <<>>
  BY <1>4
<1>7. ASSUME NEW i \in 1..n PROVE it[1..i] = Step(it[1..(i - 1)], chunks[i])
  <2>0. i \in Nat /\ i # 0 /\ i \in 1..i
    OBVIOUS
  <2>s. 1..i \in SUBSET (1..n)
    OBVIOUS
  <2>1. Top(1..i) = i /\ (1..i) \ {i} = 1..(i - 1) /\ 1..i # {}
    BY <2>0, TopOfInterval
  <2> QED
    BY <1>4, <2>s, <2>1
<1>8. w[n] = it[1..n] /\ w[0] = it[1..0] /\ \A i \in 1..n : w[i] = it[1..i] /\ w[i - 1] = it[1..(i - 1)]
  OBVIOUS
<1> HIDE DEF w
<1>9. Finds(w, n, s, t, chunks, rowidIn, metadata, far, k, dist)
  BY <1>6, <1>7, <1>8 DEF Finds, Step
<1> QED
  BY <1>5, <1>8, <1>9

-----------------------------------------------------------------------------
\* What a row must be to be found, and what is found of it.
InPartition(s, partition, c) ==
    \A p \in partition : s.chunks[c].part # None /\ Holds(p.op, s.chunks[c].part - p.value)
SlotPasses(s, t, rowidIn, metadata, far, dist, c, o) ==
    /\ rowidIn # {} => s.chunks[c].rowids[o] \in RowidsIn(s, t, rowidIn)
    /\ \A m \in metadata : MetadataVerdict(s, t, c, o, m) = "keep"
    /\ WithinDistance(far, dist[c][o])
RowPasses(s, t, partition, rowidIn, metadata, far, dist, r) ==
    /\ InPartition(s, partition, s.rowids[r].chunk)
    /\ SlotPasses(s, t, rowidIn, metadata, far, dist, s.rowids[r].chunk, s.rowids[r].offset)
RowEntry(s, dist, r) == [rowid |-> r, distance |-> dist[s.rowids[r].chunk][s.rowids[r].offset]]
RowEntries(s, t, partition, rowidIn, metadata, far, dist) ==
    {RowEntry(s, dist, r) : r \in {q \in DOMAIN s.rowids :
                                     RowPasses(s, t, partition, rowidIn, metadata, far, dist, q)}}

LEMMA NearIs ==
    ASSUME NEW s, NEW t, NEW rowidIn, NEW metadata, NEW far, NEW dist, NEW c
    PROVE  Near(s, t, rowidIn, metadata, far, dist, c)
             = {o \in s.chunks[c].validity : SlotPasses(s, t, rowidIn, metadata, far, dist, c, o)}
<1> DEFINE N == Near(s, t, rowidIn, metadata, far, dist, c)
           listed == RowidsIn(s, t, rowidIn)
           V == s.chunks[c].validity
<1>1. \A o : o \in N <=> /\ o \in ChunkCandidates(s, t, c, rowidIn, listed, metadata)
                         /\ WithinDistance(far, dist[c][o])
  BY DEF Near
<1>2. \A o : o \in ChunkCandidates(s, t, c, rowidIn, listed, metadata)
               <=> /\ o \in V
                   /\ rowidIn # {} => s.chunks[c].rowids[o] \in listed
                   /\ \A m \in metadata : MetadataVerdict(s, t, c, o, m) = "keep"
  BY Zenon DEF ChunkCandidates
<1> HIDE DEF N, listed, V
<1>3. \A o : o \in N <=> o \in V /\ SlotPasses(s, t, rowidIn, metadata, far, dist, c, o)
  BY <1>1, <1>2, Zenon DEF SlotPasses, listed
<1> QED
  BY <1>3, Zenon DEF N, V

\* Valid slots name different rows, each of which is there.
LEMMA SlotsNameRows ==
    ASSUME NEW s, NEW t, ChunksShape(s, t), Placed(s, t),
           NEW c \in DOMAIN s.chunks, NEW o \in s.chunks[c].validity
    PROVE  /\ o \in Offsets(t)
           /\ s.chunks[c].rowids[o] \in DOMAIN s.rowids
           /\ s.rowids[s.chunks[c].rowids[o]].chunk = c
           /\ s.rowids[s.chunks[c].rowids[o]].offset = o
<1>1. o \in Offsets(t)
  BY DEF ChunksShape
<1>2. SlotAgrees(s, c, o)
  BY <1>1 DEF Placed
<1> QED
  BY <1>1, <1>2 DEF SlotAgrees

LEMMA ChunkFinds ==
    ASSUME NEW s, NEW t, IsDeclared(t), ChunksShape(s, t), Placed(s, t),
           NEW rowidIn, NEW metadata, NEW far, NEW k \in Nat, NEW dist,
           NEW c \in DOMAIN s.chunks, \A o \in s.chunks[c].validity : dist[c][o] \in Int
    PROVE  \E l : Best(FoundIn(s, t, rowidIn, metadata, far, k, dist, c), l,
                       EntriesIn(s, t, rowidIn, metadata, far, dist, c), k)
<1> DEFINE S == Near(s, t, rowidIn, metadata, far, dist, c)
           size == t.chunkSize
           ids == s.chunks[c].rowids
           d == dist[c]
<1>1. S \in SUBSET s.chunks[c].validity
  BY NearIs
<1>2. s.chunks[c].validity \in SUBSET Offsets(t)
  BY DEF ChunksShape
<1>3. size \in Nat /\ size # 0
  BY DEF IsDeclared
<1>4. \A o \in s.chunks[c].validity : ids[o] \in DOMAIN s.rowids /\ s.rowids[ids[o]].offset = o
  BY SlotsNameRows
<1>5. \A o \in S : d[o] \in Int
  BY <1>1
<1> HIDE DEF size, ids, d, S
<1>6. \A o, p \in S : ids[o] = ids[p] => o = p
  BY <1>1, <1>4
<1>7. S \in SUBSET (0..(size - 1))
  BY <1>1, <1>2 DEF Offsets, size
<1>8. IsFiniteSet(0..(size - 1)) /\ Cardinality(0..(size - 1)) = size
  <2>1. 0 \in Int /\ size - 1 \in Int /\ ~(0 > size - 1) /\ (size - 1) - 0 + 1 = size
    BY <1>3
  <2>2. IsFiniteSet(0..(size - 1)) /\ Cardinality(0..(size - 1)) = IF 0 > size - 1 THEN 0 ELSE (size - 1) - 0 + 1
    BY <2>1, FS_Interval
  <2> QED
    BY <2>1, <2>2
<1>9. IsFiniteSet(S) /\ Cardinality(S) <= size /\ S \in SUBSET Int
  <2>1. IsFiniteSet(S) /\ Cardinality(S) <= Cardinality(0..(size - 1))
    BY <1>7, <1>8, FS_Subset
  <2>2. S \in SUBSET Int
    BY <1>7
  <2> QED
    BY <1>8, <2>1, <2>2
<1>10. \E l : Best(InTurn(MinIdx(d, S, AtMost(k, size)), ids, d), l, Entries(S, ids, d), k)
  BY <1>3, <1>5, <1>6, <1>9, MinIdxIsBest
<1> QED
  BY <1>10 DEF FoundIn, EntriesIn, S, size, ids, d

\* A list of chunks, each once.
Chunklist(chunks, n, C) ==
    /\ n \in Nat
    /\ chunks \in [1..n -> C]
    /\ \A i, j \in 1..n : chunks[i] = chunks[j] => i = j
    /\ \A c \in C : \E i \in 1..n : chunks[i] = c

LEMMA ChunksInOrder ==
    ASSUME NEW k \in Nat, NEW C \in SUBSET (1..k)
    PROVE  Chunklist(InOrder(C), Cardinality(C), C)
<1> DEFINE n == Cardinality(C)
           chunks == Ranked(C, <)
<1>1. Increasing(chunks, n, C) /\ n \in Nat
  BY RankedIs, Enumerated
<1>2. InOrder(C) = chunks
  BY Zenon DEF InOrder
<1> HIDE DEF chunks
<1>3. Ranks(chunks, n, C)
  BY <1>1, RankOf
<1> HIDE DEF n
<1>4. chunks \in [1..n -> C] /\ \A c \in C : c \in Nat
  BY <1>1 DEF Increasing
<1>6. \A i \in 1..n : chunks[i] \in C /\ chunks[i] \in Nat
  <2> HIDE DEF Increasing
  <2> QED
    BY <1>4
<1>5. \A i, j \in 1..n : chunks[i] = chunks[j] => i = j
  BY <1>1, <1>6 DEF Increasing
<1> QED
  BY <1>1, <1>2, <1>3, <1>5 DEF Chunklist, Increasing, Ranks, n

ScanIsRight(best, s, t, partition, rowidIn, metadata, far, k, dist) ==
    \E l : Best(best, l, RowEntries(s, t, partition, rowidIn, metadata, far, dist), k)

\* The scan finds the nearest of the rows that pass.
LEMMA ScanFinds ==
    ASSUME NEW s, NEW t, IsDeclared(t), RowsShape(s), ChunksShape(s, t), Placed(s, t),
           NEW partition, NEW rowidIn, NEW metadata, NEW far, NEW k \in Nat, NEW dist,
           \A c \in DOMAIN s.chunks : \A o \in s.chunks[c].validity : dist[c][o] \in Int
    PROVE  ScanIsRight(ScanChunks(s, t, ChunksIter(s, partition), rowidIn, metadata, far, k, dist),
                       s, t, partition, rowidIn, metadata, far, k, dist)
<1> DEFINE C == {c \in DOMAIN s.chunks : InPartition(s, partition, c)}
           n == Cardinality(C)
           chunks == ChunksIter(s, partition)
           Here(c) == FoundIn(s, t, rowidIn, metadata, far, k, dist, c)
           In(c) == EntriesIn(s, t, rowidIn, metadata, far, dist, c)
           E == [i \in 1..n |-> In(chunks[i])]
           found == [i \in 1..n |-> Here(chunks[i])]
           X == UNION {In(c) : c \in C}
           all == RowEntries(s, t, partition, rowidIn, metadata, far, dist)
<1>1. Chunklist(chunks, n, C)
  <2>1. s.chunkSeq \in Nat /\ C \in SUBSET (1..s.chunkSeq)
    BY DEF RowsShape, ChunksShape
  <2>2. chunks = InOrder(C)
    BY Zenon DEF ChunksIter, InPartition
  <2> HIDE DEF C, chunks
  <2> QED
    BY <2>1, <2>2, ChunksInOrder
<1>2. C \in SUBSET DOMAIN s.chunks
  OBVIOUS
<1> HIDE DEF C, n, chunks
<1>3. /\ n \in Nat /\ chunks \in [1..n -> C]
      /\ \A i, j \in 1..n : chunks[i] = chunks[j] => i = j
      /\ \A c \in C : \E i \in 1..n : chunks[i] = c
  BY <1>1 DEF Chunklist
<1>4. ASSUME NEW c \in C PROVE \E l : Best(Here(c), l, In(c), k)
  <2>1. \A o \in s.chunks[c].validity : dist[c][o] \in Int
    BY <1>2
  <2> QED
    BY <1>2, <2>1, ChunkFinds
<1>5. ASSUME NEW c \in C, NEW x \in In(c)
      PROVE  \E o \in s.chunks[c].validity :
                /\ SlotPasses(s, t, rowidIn, metadata, far, dist, c, o)
                /\ x = RowEntry(s, dist, s.chunks[c].rowids[o])
                /\ x.distance \in Int
                /\ x.rowid = s.chunks[c].rowids[o]
  <2>1. PICK o \in Near(s, t, rowidIn, metadata, far, dist, c) :
               x = Entry(s.chunks[c].rowids, dist[c], o)
    BY <1>5 DEF EntriesIn, Entries
  <2>2. o \in s.chunks[c].validity /\ SlotPasses(s, t, rowidIn, metadata, far, dist, c, o)
    BY <2>1, NearIs
  <2>3. c \in DOMAIN s.chunks
    BY <1>2
  <2>4. s.rowids[s.chunks[c].rowids[o]].chunk = c /\ s.rowids[s.chunks[c].rowids[o]].offset = o
    BY <2>2, <2>3, SlotsNameRows
  <2>5. x = RowEntry(s, dist, s.chunks[c].rowids[o])
    BY <2>1, <2>4 DEF Entry, RowEntry
  <2>6. x.distance = dist[c][o] /\ x.rowid = s.chunks[c].rowids[o]
    BY <2>1 DEF Entry
  <2>7. x.distance \in Int
    BY <2>2, <2>3, <2>6
  <2> QED
    BY <2>2, <2>5, <2>6, <2>7
<1>6. ASSUME NEW i \in 1..n PROVE Here(chunks[i]) \in Seq(X)
  <2>1. PICK l : Best(Here(chunks[i]), l, In(chunks[i]), k)
    BY <1>3, <1>4
  <2>2. chunks[i] \in C
    BY <1>3
  <2> DEFINE f == Here(chunks[i])
             I == In(chunks[i])
  <2>3. \A x \in I : x \in X
    BY <2>2
  <2> HIDE DEF f, I, X
  <2>4. l \in Nat /\ f \in [1..l -> I]
    BY <2>1 DEF Best, Nearer, f, I
  <2>5. f \in [1..l -> X]
    BY <2>3, <2>4
  <2>6. f \in Seq(X)
    BY <2>4, <2>5
  <2> QED
    BY <2>6 DEF f
<1>7. PICK w : /\ Finds(w, n, s, t, chunks, rowidIn, metadata, far, k, dist)
               /\ ScanChunks(s, t, chunks, rowidIn, metadata, far, k, dist) = w[n]
  <2>1. DOMAIN chunks = 1..n /\ Len(chunks) = n
    BY <1>3
  <2>2. n \in Nat
    BY <1>3
  <2> HIDE DEF X, Here
  <2>3. \A i \in 1..n : Here(chunks[i]) \in Seq(X)
    BY <1>6
  <2>4. \A i \in 1..n : FoundIn(s, t, rowidIn, metadata, far, k, dist, chunks[i]) \in Seq(X)
    BY <2>3 DEF Here
  <2> QED
    BY ONLY <2>1, <2>2, <2>4, k \in Nat, ScanTurns
<1>8. w[0] = <<>> /\ \A i \in 1..n : w[i] = MergeSortedLists(w[i - 1], found[i], k)
  BY <1>7 DEF Finds
<1>9. \A i \in 1..n : \E l : Best(found[i], l, E[i], k)
  <2> SUFFICES ASSUME NEW i \in 1..n PROVE \E l : Best(found[i], l, E[i], k)
    OBVIOUS
  <2>1. chunks[i] \in C
    BY <1>3
  <2>2. found[i] = Here(chunks[i]) /\ E[i] = In(chunks[i])
    OBVIOUS
  <2> HIDE DEF Here, In, found, E
  <2> QED
    BY <1>4, <2>1, <2>2
<1>10. \A i \in 1..n : \A x \in E[i] : x.distance \in Int
  <2> SUFFICES ASSUME NEW i \in 1..n, NEW x \in E[i] PROVE x.distance \in Int
    OBVIOUS
  <2>1. chunks[i] \in C /\ x \in In(chunks[i])
    BY <1>3
  <2> HIDE DEF In, E
  <2> QED
    BY <1>5, <2>1
<1>11. \A i, j \in 1..n : i # j => E[i] \cap E[j] = {}
  <2> SUFFICES ASSUME NEW i \in 1..n, NEW j \in 1..n, NEW x \in E[i], x \in E[j] PROVE i = j
    OBVIOUS
  <2>1. chunks[i] \in C /\ x \in In(chunks[i]) /\ chunks[j] \in C /\ x \in In(chunks[j])
    BY <1>3
  <2> HIDE DEF In, E
  <2>2. PICK o \in s.chunks[chunks[i]].validity : x.rowid = s.chunks[chunks[i]].rowids[o]
    BY <1>5, <2>1
  <2>3. PICK p \in s.chunks[chunks[j]].validity : x.rowid = s.chunks[chunks[j]].rowids[p]
    BY <1>5, <2>1
  <2>4. s.rowids[x.rowid].chunk = chunks[i]
    BY <1>2, <2>1, <2>2, SlotsNameRows
  <2>5. s.rowids[x.rowid].chunk = chunks[j]
    BY <1>2, <2>1, <2>3, SlotsNameRows
  <2> QED
    BY <1>3, <2>4, <2>5
<1> HIDE DEF E, found
<1>12. MergedSoFar(w[n], E, n, k)
  BY <1>3, <1>8, <1>9, <1>10, <1>11, MergedInTurn
<1>13. ASSUME NEW i \in 1..n, NEW x \in E[i] PROVE x \in all
  <2>1. chunks[i] \in C /\ x \in In(chunks[i])
    BY <1>3 DEF E
  <2> HIDE DEF In
  <2>2. PICK o \in s.chunks[chunks[i]].validity :
               /\ SlotPasses(s, t, rowidIn, metadata, far, dist, chunks[i], o)
               /\ x = RowEntry(s, dist, s.chunks[chunks[i]].rowids[o])
    BY <1>5, <2>1
  <2> DEFINE r == s.chunks[chunks[i]].rowids[o]
  <2>5. chunks[i] \in DOMAIN s.chunks
    BY <1>2, <2>1
  <2>6. o \in s.chunks[chunks[i]].validity
    OBVIOUS
  <2>3. r \in DOMAIN s.rowids /\ s.rowids[r].chunk = chunks[i] /\ s.rowids[r].offset = o
    BY <2>5, <2>6, SlotsNameRows
  <2>4. InPartition(s, partition, chunks[i])
    BY <2>1 DEF C
  <2> HIDE DEF r
  <2>7. RowPasses(s, t, partition, rowidIn, metadata, far, dist, r)
    BY <2>2, <2>3, <2>4 DEF RowPasses
  <2> QED
    BY <2>2, <2>3, <2>7 DEF RowEntries, r
<1>14. ASSUME NEW x \in all PROVE \E i \in 1..n : x \in E[i]
  <2>1. PICK r \in DOMAIN s.rowids : /\ RowPasses(s, t, partition, rowidIn, metadata, far, dist, r)
                                     /\ x = RowEntry(s, dist, r)
    BY <1>14 DEF RowEntries
  <2> DEFINE c == s.rowids[r].chunk
             o == s.rowids[r].offset
  <2>2. c \in DOMAIN s.chunks /\ o \in s.chunks[c].validity /\ s.chunks[c].rowids[o] = r
    BY DEF Placed, RowPlaced
  <2>3. c \in C /\ SlotPasses(s, t, rowidIn, metadata, far, dist, c, o)
    BY <2>1, <2>2 DEF RowPasses, C
  <2>4. x = Entry(s.chunks[c].rowids, dist[c], o)
    BY <2>1, <2>2 DEF RowEntry, Entry
  <2> HIDE DEF c, o
  <2>5. o \in Near(s, t, rowidIn, metadata, far, dist, c)
    BY <2>2, <2>3, NearIs
  <2>6. x \in In(c)
    BY <2>4, <2>5 DEF EntriesIn, Entries
  <2>7. PICK i \in 1..n : chunks[i] = c
    BY <1>3, <2>3
  <2> HIDE DEF In
  <2> QED
    BY <2>6, <2>7 DEF E
<1>15. UpToPlace(E, n) = all
  <2>1. \A x : x \in UpToPlace(E, n) <=> \E i \in 1..n : x \in E[i]
    BY DEF UpToPlace
  <2>2. \A x : x \in UpToPlace(E, n) <=> x \in all
    <3> HIDE DEF all
    <3> QED
      BY <1>13, <1>14, <2>1
  <2> HIDE DEF all
  <2> QED
    BY <2>2
<1> QED
  BY <1>7, <1>12, <1>15 DEF MergedSoFar, ScanIsRight, chunks

-----------------------------------------------------------------------------
SameSign(x, y) == (x < 0 <=> y < 0) /\ (x = 0 <=> y = 0)
FirstDiff(a, b, i) ==
    /\ i \in Nat \ {0}
    /\ ByteAt(a, i) # ByteAt(b, i)
    /\ \A j \in 1..(i - 1) : ByteAt(a, j) = ByteAt(b, j)
Bytes(a) == /\ Len(a) \in Nat
            /\ \A i \in Nat \ {0} : ByteAt(a, i) \in Nat /\ (ByteAt(a, i) = 0 <=> i > Len(a))
            /\ \A i \in 1..Len(a) : ByteAt(a, i) = a[i]

LEMMA HoldsBySign ==
    ASSUME NEW op \in CompareOps, NEW x \in Int, NEW y \in Int, SameSign(x, y)
    PROVE  Holds(op, x) <=> Holds(op, y)
  BY DEF CompareOps, Holds, SameSign

LEMMA BytesOf ==
    ASSUME NEW a \in Texts
    PROVE  Bytes(a)
<1>1. Len(a) \in Nat /\ \A i \in 1..Len(a) : a[i] \in Nat \ {0}
  BY DEF Texts
<1>2. \A i \in 1..Len(a) : ByteAt(a, i) = a[i]
  BY <1>1 DEF ByteAt
<1>3. ASSUME NEW i \in Nat \ {0}
      PROVE  ByteAt(a, i) \in Nat /\ (ByteAt(a, i) = 0 <=> i > Len(a))
  <2>1. CASE i <= Len(a)
    <3>1. i \in 1..Len(a)
      BY <1>1, <2>1
    <3> QED
      BY <1>1, <1>2, <2>1, <3>1
  <2>2. CASE i > Len(a)
    <3>1. ByteAt(a, i) = 0
      BY <1>1, <2>2 DEF ByteAt
    <3> QED
      BY <2>2, <3>1
  <2> QED
    BY <1>1, <2>1, <2>2
<1> QED
  BY <1>1, <1>2, <1>3 DEF Bytes

\* Two texts are the same or there is a first byte in which they differ.
LEMMA SameOrDiffer ==
    ASSUME NEW a \in Texts, NEW b \in Texts
    PROVE  a = b \/ \E i : FirstDiff(a, b, i)
<1> DEFINE S == {i \in Nat \ {0} : ByteAt(a, i) # ByteAt(b, i)}
<1>1. CASE S # {}
  <2>1. S \in SUBSET Nat
    OBVIOUS
  <2>2. PICK i \in S : \A j \in S : i <= j
    <3> HIDE DEF S
    <3> QED
      BY <1>1, <2>1, SmallestExists
  <2>3. i \in Nat \ {0} /\ ByteAt(a, i) # ByteAt(b, i)
    OBVIOUS
  <2>4. \A j \in 1..(i - 1) : ByteAt(a, j) = ByteAt(b, j)
    <3> SUFFICES ASSUME NEW j \in 1..(i - 1), ByteAt(a, j) # ByteAt(b, j) PROVE FALSE
      OBVIOUS
    <3>1. j \in Nat \ {0} /\ j < i
      BY <2>3
    <3>2. j \in S
      BY <3>1
    <3> QED
      BY <2>2, <2>3, <3>1, <3>2
  <2> QED
    BY <2>3, <2>4 DEF FirstDiff
<1>2. CASE S = {}
  <2>1. \A i \in Nat \ {0} : ByteAt(a, i) = ByteAt(b, i)
    BY <1>2
  <2>2. Bytes(a) /\ Bytes(b)
    BY BytesOf
  <2>3. Len(a) = Len(b)
    <3>1. Len(a) + 1 \in Nat \ {0} /\ Len(b) + 1 \in Nat \ {0} /\ Len(a) \in Nat /\ Len(b) \in Nat
      BY <2>2 DEF Bytes
    <3>2. Len(a) + 1 > Len(b) /\ Len(b) + 1 > Len(a)
      <4>1. Len(a) + 1 > Len(a) /\ Len(b) + 1 > Len(b)
        BY <3>1
      <4> QED
        BY <2>1, <2>2, <3>1, <4>1 DEF Bytes
    <3> QED
      BY <3>1, <3>2
  <2>4. \A i \in 1..Len(a) : a[i] = b[i]
    BY <2>1, <2>2, <2>3 DEF Bytes
  <2>5. a = b
    BY <2>3, <2>4, SMTT(30) DEF Texts
  <2> QED
    BY <2>5
<1> QED
  BY <1>1, <1>2

\* strncmp looks at the first difference, if it is among the first n bytes.
LEMMA StrNCmpIs ==
    ASSUME NEW a \in Texts, NEW b \in Texts, NEW n \in Nat
    PROVE  /\ StrNCmp(a, b, n) \in Int
           /\ StrNCmp(a, b, n) = 0 <=> \A j \in 1..n : ByteAt(a, j) = ByteAt(b, j)
           /\ \A i \in 1..n : FirstDiff(a, b, i) => StrNCmp(a, b, n) = ByteAt(a, i) - ByteAt(b, i)
<1> DEFINE D == {i \in 1..n : ByteAt(a, i) # ByteAt(b, i)}
           m == Smallest(D)
<1>1. \A i \in 1..n : ByteAt(a, i) \in Nat /\ ByteAt(b, i) \in Nat
  BY BytesOf DEF Bytes
<1>2. StrNCmp(a, b, n) = IF D = {} THEN 0 ELSE ByteAt(a, m) - ByteAt(b, m)
  BY DEF StrNCmp
<1>3. CASE D = {}
  <2>1. \A j \in 1..n : ByteAt(a, j) = ByteAt(b, j)
    BY <1>3
  <2>2. StrNCmp(a, b, n) = 0
    BY <1>2, <1>3
  <2> QED
    BY <2>1, <2>2 DEF FirstDiff
<1>4. CASE D # {}
  <2>1. D \in SUBSET Nat
    OBVIOUS
  <2>2. m \in D /\ \A y \in D : m <= y
    <3> HIDE DEF D
    <3>1. \E x \in D : \A y \in D : x <= y
      BY <1>4, <2>1, SmallestExists
    <3> QED
      BY <3>1 DEF Smallest
  <2>3. m \in 1..n /\ ByteAt(a, m) # ByteAt(b, m)
    BY <2>2
  <2>4. \A i \in 1..n : FirstDiff(a, b, i) => i = m
    <3> SUFFICES ASSUME NEW i \in 1..n, FirstDiff(a, b, i) PROVE i = m
      OBVIOUS
    <3>1. i \in D
      BY DEF FirstDiff
    <3>2. m <= i
      BY <2>2, <3>1
    <3>3. ~ (m < i)
      <4> HIDE DEF m
      <4> SUFFICES ASSUME m < i PROVE FALSE
        OBVIOUS
      <4>1. m \in 1..(i - 1)
        BY <2>3
      <4> QED
        BY <2>3, <4>1 DEF FirstDiff
    <3> HIDE DEF m
    <3> QED
      BY <2>3, <3>2, <3>3
  <2> HIDE DEF m, D
  <2>5. StrNCmp(a, b, n) = ByteAt(a, m) - ByteAt(b, m)
    BY <1>2, <1>4
  <2>6. ByteAt(a, m) \in Nat /\ ByteAt(b, m) \in Nat
    BY <1>1, <2>3
  <2> QED
    BY <2>3, <2>4, <2>5, <2>6
<1> QED
  BY <1>3, <1>4

\* Only the bytes up to n matter.
LEMMA StrNCmpSame ==
    ASSUME NEW a, NEW a2, NEW b, NEW n \in Nat, \A j \in 1..n : ByteAt(a, j) = ByteAt(a2, j)
    PROVE  StrNCmp(a, b, n) = StrNCmp(a2, b, n)
<1> DEFINE D == {i \in 1..n : ByteAt(a, i) # ByteAt(b, i)}
           m == Smallest(D)
<1>1. D = {i \in 1..n : ByteAt(a2, i) # ByteAt(b, i)}
  OBVIOUS
<1>2. StrNCmp(a, b, n) = IF D = {} THEN 0 ELSE ByteAt(a, m) - ByteAt(b, m)
  BY DEF StrNCmp
<1>3. StrNCmp(a2, b, n) = IF D = {} THEN 0 ELSE ByteAt(a2, m) - ByteAt(b, m)
  <2> HIDE DEF D
  <2> QED
    BY <1>1 DEF StrNCmp
<1>4. D # {} => m \in D
  <2>1. D \in SUBSET Nat
    OBVIOUS
  <2> HIDE DEF D
  <2>2. D # {} => \E x \in D : \A y \in D : x <= y
    BY <2>1, SmallestExists
  <2> QED
    BY <2>2 DEF Smallest
<1>5. D # {} => ByteAt(a, m) = ByteAt(a2, m)
  <2> HIDE DEF m
  <2> QED
    BY <1>4
<1> HIDE DEF D, m
<1> QED
  BY <1>2, <1>3, <1>5

-----------------------------------------------------------------------------
\* A prefix ends before the first difference.
LEMMA PrefixIs ==
    ASSUME NEW a \in Texts, NEW b \in Texts, NEW i, FirstDiff(a, b, i)
    PROVE  IsPrefix(a, b) <=> Len(a) < i
<1>b. Bytes(a) /\ Bytes(b)
  BY BytesOf
<1>l. Len(a) \in Nat /\ Len(b) \in Nat
  BY <1>b DEF Bytes
<1>s. a \in Seq(Nat) /\ b \in Seq(Nat)
  BY DEF Texts
<1>d. /\ i \in Nat \ {0}
      /\ ByteAt(a, i) # ByteAt(b, i)
      /\ \A j \in 1..(i - 1) : ByteAt(a, j) = ByteAt(b, j)
  BY DEF FirstDiff
<1>1. ASSUME Len(a) < i PROVE IsPrefix(a, b)
  <2>1. ByteAt(a, i) = 0 /\ ByteAt(b, i) # 0
    BY <1>b, <1>d, <1>1 DEF Bytes
  <2>2. i <= Len(b)
    BY <1>b, <1>d, <1>l, <2>1 DEF Bytes
  <2>3. Len(a) <= Len(b)
    BY <1>d, <1>l, <1>1, <2>2
  <2>4. \A j \in 1..Len(a) : a[j] = b[j]
    <3> SUFFICES ASSUME NEW j \in 1..Len(a) PROVE a[j] = b[j]
      OBVIOUS
    <3>1. j \in 1..(i - 1) /\ j \in 1..Len(b)
      BY <1>d, <1>l, <1>1, <2>3
    <3> QED
      BY <1>d, <1>b, <3>1 DEF Bytes
  <2>5. SubSeq(a, 1, Len(a)) = SubSeq(b, 1, Len(a))
    BY <1>s, <1>l, <2>3, <2>4
  <2> QED
    BY <2>3, <2>5 DEF IsPrefix
<1>2. ASSUME IsPrefix(a, b) PROVE Len(a) < i
  <2>1. Len(a) <= Len(b) /\ SubSeq(a, 1, Len(a)) = SubSeq(b, 1, Len(a))
    BY <1>2 DEF IsPrefix
  <2>2. \A j \in 1..Len(a) : a[j] = b[j]
    <3>1. \A j \in 1..Len(a) : SubSeq(a, 1, Len(a))[j] = a[j] /\ SubSeq(b, 1, Len(a))[j] = b[j]
      BY <1>s, <1>l, <2>1
    <3> QED
      BY <2>1, <3>1
  <2> SUFFICES ASSUME i <= Len(a) PROVE FALSE
    BY <1>d, <1>l
  <2>3. i \in 1..Len(a) /\ i \in 1..Len(b)
    BY <1>d, <1>l, <2>1
  <2> QED
    BY <1>d, <1>b, <2>2, <2>3 DEF Bytes
<1> QED
  BY <1>1, <1>2

\* TextOrder is decided by the first byte in which two texts differ.
LEMMA TextOrderIs ==
    ASSUME NEW a \in Texts, NEW b \in Texts
    PROVE  /\ a = b => TextOrder(a, b) = 0
           /\ \A i : FirstDiff(a, b, i) =>
                /\ TextOrder(a, b) \in Int
                /\ SameSign(TextOrder(a, b), ByteAt(a, i) - ByteAt(b, i))
<1>b. Bytes(a) /\ Bytes(b)
  BY BytesOf
<1>l. Len(a) \in Nat /\ Len(b) \in Nat
  BY <1>b DEF Bytes
<1>s. a \in Seq(Nat) /\ b \in Seq(Nat)
  BY DEF Texts
<1>0. a = b => TextOrder(a, b) = 0
  BY DEF TextOrder
<1> SUFFICES ASSUME NEW i, FirstDiff(a, b, i)
             PROVE  /\ TextOrder(a, b) \in Int
                    /\ SameSign(TextOrder(a, b), ByteAt(a, i) - ByteAt(b, i))
  BY <1>0
<1>1. /\ i \in Nat \ {0}
      /\ ByteAt(a, i) # ByteAt(b, i)
      /\ \A j \in 1..(i - 1) : ByteAt(a, j) = ByteAt(b, j)
  BY DEF FirstDiff
<1>2. /\ ByteAt(a, i) \in Nat /\ (ByteAt(a, i) = 0 <=> i > Len(a))
      /\ ByteAt(b, i) \in Nat /\ (ByteAt(b, i) = 0 <=> i > Len(b))
  BY <1>1, <1>b DEF Bytes
<1>3. a # b
  BY <1>1
<1>4. IsPrefix(a, b) <=> Len(a) < i
  BY PrefixIs
<1>5. IsPrefix(b, a) <=> Len(b) < i
  <2>1. FirstDiff(b, a, i)
    BY DEF FirstDiff
  <2> QED
    BY <2>1, PrefixIs
<1>6. CASE Len(a) < i
  <2>1. TextOrder(a, b) = -1
    <3>1. IsPrefix(a, b) /\ ~ IsPrefix(b, a)
      BY <1>1, <1>2, <1>l, <1>4, <1>5, <1>6
    <3> QED
      BY <1>3, <3>1, Zenon DEF TextOrder
  <2>2. ByteAt(a, i) - ByteAt(b, i) < 0
    BY <1>1, <1>2, <1>6, <1>l
  <2> QED
    BY <2>1, <2>2, <1>2 DEF SameSign
<1>7. CASE Len(a) >= i /\ Len(b) < i
  <2>1. TextOrder(a, b) = 1
    <3>1. ~ IsPrefix(a, b) /\ IsPrefix(b, a)
      BY <1>1, <1>l, <1>4, <1>5, <1>7
    <3> QED
      BY <1>3, <3>1, Zenon DEF TextOrder
  <2>2. ByteAt(a, i) - ByteAt(b, i) > 0 /\ ByteAt(a, i) - ByteAt(b, i) \in Int
    BY <1>1, <1>2, <1>7, <1>l
  <2> QED
    BY ONLY <2>1, <2>2 DEF SameSign
<1>8. CASE Len(a) >= i /\ Len(b) >= i
  <2> DEFINE P(j) == j <= Len(b) /\ a[j] # b[j] /\ SubSeq(a, 1, j - 1) = SubSeq(b, 1, j - 1)
             m == CHOOSE j \in 1..Len(a) : P(j)
  <2>1. i \in 1..Len(a) /\ i \in 1..Len(b)
    BY <1>1, <1>l, <1>8
  <2>2. a[i] = ByteAt(a, i) /\ b[i] = ByteAt(b, i)
    BY <1>b, <2>1 DEF Bytes
  <2>3. P(i)
    <3>1. \A j \in 1..(i - 1) : a[j] = b[j]
      <4> SUFFICES ASSUME NEW j \in 1..(i - 1) PROVE a[j] = b[j]
        OBVIOUS
      <4>1. j \in 1..Len(a) /\ j \in 1..Len(b)
        BY <1>1, <1>l, <1>8
      <4> QED
        BY <1>1, <1>b, <4>1 DEF Bytes
    <3>2. SubSeq(a, 1, i - 1) = SubSeq(b, 1, i - 1)
      BY <1>1, <1>s, <1>l, <1>8, <3>1
    <3> QED
      BY <1>1, <2>1, <2>2, <3>2
  <2>4. \A j \in 1..Len(a) : P(j) => j = i
    <3> SUFFICES ASSUME NEW j \in 1..Len(a), P(j) PROVE j = i
      OBVIOUS
    <3>1. j <= Len(b) /\ a[j] # b[j] /\ SubSeq(a, 1, j - 1) = SubSeq(b, 1, j - 1)
      OBVIOUS
    <3>2. j \in 1..Len(b)
      BY <1>l, <3>1
    <3>3. ByteAt(a, j) # ByteAt(b, j)
      BY <1>b, <3>1, <3>2 DEF Bytes
    <3>4. ~ (j < i)
      BY <1>1, <1>l, <3>3
    <3>5. ~ (i < j)
      <4> SUFFICES ASSUME i < j PROVE FALSE
        OBVIOUS
      <4>0. i \in 1..(j - 1) /\ j - 1 \in 0..Len(a) /\ j - 1 \in 0..Len(b)
        BY <1>1, <1>l, <3>2
      <4>1. SubSeq(a, 1, j - 1)[i] = a[i] /\ SubSeq(b, 1, j - 1)[i] = b[i]
        BY <1>s, <4>0
      <4> QED
        BY <1>1, <2>2, <3>1, <4>1
    <3> QED
      BY <1>1, <1>l, <3>4, <3>5
  <2>5. m = i
    <3> HIDE DEF P
    <3> QED
      BY <2>1, <2>3, <2>4
  <2>6. TextOrder(a, b) = a[m] - b[m]
    <3>1. ~ IsPrefix(a, b) /\ ~ IsPrefix(b, a)
      BY <1>1, <1>l, <1>4, <1>5, <1>8
    <3> QED
      BY <1>3, <3>1, Zenon DEF TextOrder
  <2> HIDE DEF m
  <2>7. TextOrder(a, b) = ByteAt(a, i) - ByteAt(b, i)
    BY <2>2, <2>5, <2>6
  <2> QED
    BY <1>2, <2>7 DEF SameSign
<1> QED
  BY <1>1, <1>l, <1>6, <1>7, <1>8

-----------------------------------------------------------------------------
\* Within its view a text reads as itself.
LEMMA ViewReads ==
    ASSUME NEW v \in Texts, NEW n \in Nat, n <= Len(v), n <= ViewLength
    PROVE  /\ \A j \in 1..n : ByteAt(TextView(v).data, j) = ByteAt(v, j)
           /\ TextView(v).n = Len(v)
<1> DEFINE size == IF Len(v) < ViewLength THEN Len(v) ELSE ViewLength
           d == SubSeq(v, 1, size)
<1>1. Len(v) \in Nat /\ ViewLength \in Nat /\ v \in Seq(Nat)
  BY Vec0StoreAssumption DEF Texts
<1>2. size \in 0..Len(v) /\ n <= size
  BY <1>1
<1>3. TextView(v).n = Len(v) /\ TextView(v).data = d
  BY DEF TextView
<1> HIDE DEF size
<1>4. Len(d) = size /\ \A j \in 1..size : d[j] = v[j]
  BY <1>1, <1>2
<1> HIDE DEF d
<1>5. ASSUME NEW j \in 1..n PROVE ByteAt(d, j) = ByteAt(v, j)
  <2>1. j \in 1..size /\ j <= size /\ j <= Len(v)
    BY <1>1, <1>2
  <2> QED
    BY <1>4, <2>1 DEF ByteAt
<1> QED
  BY <1>3, <1>5

\* What the text table must hold for a text.
LongIs(s, r, v) == Len(v) > ViewLength => r \in DOMAIN s.text /\ s.text[r] = v

\* vec0_metadata_filter_text with "=".
LEMMA TextEqualIs ==
    ASSUME NEW s, NEW r, NEW v \in Texts, NEW w \in Texts, LongIs(s, r, v)
    PROVE  TextEqual(s, TextView(v), r, w) = Verdict(v = w)
<1> DEFINE n == Len(v)
           view == TextView(v)
           m == AtMost(n, ViewLength)
           samePrefix == StrNCmp(view.data, w, m) = 0
<1>1. n \in Nat /\ Len(w) \in Nat /\ ViewLength \in Nat
  BY Vec0StoreAssumption DEF Texts
<1>2. m \in Nat /\ m <= n /\ m <= ViewLength /\ (n <= ViewLength => m = n)
  BY <1>1 DEF AtMost
<1> HIDE DEF m
<1>3. view.n = n /\ StrNCmp(view.data, w, m) = StrNCmp(v, w, m)
  BY <1>1, <1>2, ViewReads, StrNCmpSame
<1>4. v = w => samePrefix
  BY <1>2, <1>3, StrNCmpIs
<1>5. ASSUME n = Len(w), \A j \in 1..n : ByteAt(v, j) = ByteAt(w, j) PROVE v = w
  <2>1. Bytes(v) /\ Bytes(w)
    BY BytesOf
  <2>2. \A j \in 1..n : v[j] = w[j]
    BY <1>5, <2>1 DEF Bytes
  <2> QED
    BY <1>1, <1>5, <2>2, SMTT(30) DEF Texts
<1>6. ASSUME n = Len(w), samePrefix, n <= ViewLength PROVE v = w
  <2>1. m = n /\ StrNCmp(v, w, m) = 0
    BY <1>2, <1>3, <1>6
  <2>2. \A j \in 1..n : ByteAt(v, j) = ByteAt(w, j)
    BY <1>1, <2>1, StrNCmpIs
  <2> QED
    BY <1>5, <1>6, <2>2
<1>7. n = Len(w) => (StrNCmp(v, w, n) = 0 <=> v = w)
  BY <1>1, <1>5, StrNCmpIs
<1> HIDE DEF samePrefix
<1>8. TextEqual(s, view, r, w)
        = CASE n # Len(w) \/ ~samePrefix -> "drop"
            [] n = Len(w) /\ samePrefix /\ n <= ViewLength -> "keep"
            [] OTHER -> IF HasLongText(s, r, n) THEN Verdict(StrNCmp(s.text[r], w, n) = 0) ELSE "error"
  BY <1>3 DEF TextEqual, samePrefix, m
<1> HIDE DEF view
<1>9. CASE n # Len(w) \/ ~samePrefix
  <2>1. v # w
    BY <1>4, <1>9
  <2>2. TextEqual(s, view, r, w) = "drop"
    BY <1>8, <1>9, Zenon
  <2> QED
    BY <2>1, <2>2 DEF Verdict, view
<1>10. CASE n = Len(w) /\ samePrefix /\ n <= ViewLength
  <2>1. v = w
    BY <1>6, <1>10
  <2>2. TextEqual(s, view, r, w) = "keep"
    BY <1>8, <1>10, Zenon
  <2> QED
    BY <2>1, <2>2 DEF Verdict, view
<1>11. CASE n = Len(w) /\ samePrefix /\ ~(n <= ViewLength)
  <2>1. s.text[r] = v /\ HasLongText(s, r, n)
    BY <1>1, <1>11 DEF LongIs, HasLongText
  <2>2. TextEqual(s, view, r, w) = Verdict(StrNCmp(s.text[r], w, n) = 0)
    BY <1>8, <1>11, <2>1, Zenon
  <2> QED
    BY <1>7, <1>11, <2>1, <2>2 DEF Verdict, view
<1> QED
  BY <1>9, <1>10, <1>11

\* And with an order, for the texts it is right for.
LEMMA TextRangeIs ==
    ASSUME NEW s, NEW r, NEW v \in Texts, NEW w \in Texts, LongIs(s, r, v), NEW op \in DistanceOps,
           Len(v) # ViewLength, Len(v) > ViewLength => ~IsStrictPrefix(v, w)
    PROVE  TextRange(s, TextView(v), r, op, w) = Verdict(Holds(op, TextOrder(v, w)))
<1> DEFINE n == Len(v)
           view == TextView(v)
           m == AtMost(AtMost(n, ViewLength), Len(w))
           cmp == StrNCmp(view.data, w, m)
<1>1. n \in Nat /\ Len(w) \in Nat /\ ViewLength \in Nat
  BY Vec0StoreAssumption DEF Texts
<1>o. op \in CompareOps
  BY DEF DistanceOps, CompareOps
<1>2. m \in Nat /\ m <= n /\ m <= ViewLength /\ m <= Len(w)
      /\ (n < ViewLength => m = n \/ m = Len(w))
  BY <1>1 DEF AtMost
<1> HIDE DEF m
<1>3. view.n = n /\ cmp = StrNCmp(v, w, m)
  BY <1>1, <1>2, ViewReads, StrNCmpSame
<1>4. TextRange(s, view, r, op, w)
        = IF n < ViewLength THEN Verdict(Holds(op, IF cmp = 0 THEN n - Len(w) ELSE cmp))
          ELSE IF HasLongText(s, r, n) THEN Verdict(Holds(op, StrNCmp(s.text[r], w, n))) ELSE "error"
  BY <1>3 DEF TextRange, m
<1>b. Bytes(v) /\ Bytes(w)
  BY BytesOf
<1> HIDE DEF view, cmp
<1> DEFINE x == IF cmp = 0 THEN n - Len(w) ELSE cmp
<1>5. ASSUME v = w
      PROVE  TextRange(s, view, r, op, w) = Verdict(Holds(op, TextOrder(v, w)))
  <2>1. TextOrder(v, w) = 0
    BY <1>5, TextOrderIs
  <2>2. StrNCmp(v, w, n) = 0 /\ StrNCmp(v, w, m) = 0
    BY <1>1, <1>2, <1>5, StrNCmpIs
  <2>3. x = 0
    BY <1>1, <1>3, <1>5, <2>2
  <2>4. n > ViewLength => s.text[r] = v /\ HasLongText(s, r, n)
    BY DEF LongIs, HasLongText
  <2> QED
    BY <1>1, <1>4, <2>1, <2>2, <2>3, <2>4
<1>6. ASSUME v # w
      PROVE  TextRange(s, view, r, op, w) = Verdict(Holds(op, TextOrder(v, w)))
  <2>1. PICK i : FirstDiff(v, w, i)
    BY <1>6, SameOrDiffer
  <2> DEFINE d == ByteAt(v, i) - ByteAt(w, i)
  <2>2. /\ i \in Nat \ {0} /\ ByteAt(v, i) # ByteAt(w, i)
        /\ \A j \in 1..(i - 1) : ByteAt(v, j) = ByteAt(w, j)
    BY <2>1 DEF FirstDiff
  <2>3. /\ ByteAt(v, i) \in Nat /\ (ByteAt(v, i) = 0 <=> i > n)
        /\ ByteAt(w, i) \in Nat /\ (ByteAt(w, i) = 0 <=> i > Len(w))
    BY <1>b, <2>2 DEF Bytes
  <2>4. TextOrder(v, w) \in Int /\ SameSign(TextOrder(v, w), d)
    BY <2>1, TextOrderIs
  <2>5. d \in Int
    BY <2>3
  <2>6. \A k \in Nat : StrNCmp(v, w, k) = IF i <= k THEN d ELSE 0
    <3> SUFFICES ASSUME NEW k \in Nat PROVE StrNCmp(v, w, k) = IF i <= k THEN d ELSE 0
      OBVIOUS
    <3>1. CASE i <= k
      <4>1. i \in 1..k
        BY <2>2, <3>1
      <4> QED
        BY <2>1, <3>1, <4>1, StrNCmpIs
    <3>2. CASE ~(i <= k)
      <4>1. \A j \in 1..k : ByteAt(v, j) = ByteAt(w, j)
        <5> SUFFICES ASSUME NEW j \in 1..k PROVE ByteAt(v, j) = ByteAt(w, j)
          OBVIOUS
        <5>1. j \in 1..(i - 1)
          BY <2>2, <3>2
        <5> QED
          BY <2>2, <5>1
      <4> QED
        BY <3>2, <4>1, StrNCmpIs
    <3> QED
      BY <3>1, <3>2
  <2>7. CASE n < ViewLength
    <3>1. x \in Int /\ SameSign(x, d)
      <4>1. CASE i <= m
        <5>1. cmp = d
          BY <1>2, <1>3, <2>6, <4>1
        <5>2. d # 0
          BY <2>2, <2>3
        <5> QED
          BY <2>5, <5>1, <5>2 DEF SameSign
      <4>2. CASE ~(i <= m)
        <5>1. cmp = 0
          BY <1>2, <1>3, <2>6, <4>2
        <5>2. x = n - Len(w)
          BY <5>1
        <5> HIDE DEF x, d
        <5>3. i > n \/ i > Len(w)
          BY <1>1, <1>2, <2>2, <2>7, <4>2
        <5>4. (n < Len(w) <=> d < 0) /\ (n = Len(w) <=> d = 0)
          <6>1. CASE i > n
            <7>1. ByteAt(v, i) = 0 /\ ByteAt(w, i) # 0 /\ i <= Len(w)
              BY <1>1, <2>2, <2>3, <6>1
            <7> QED
              BY <1>1, <2>2, <2>3, <6>1, <7>1 DEF d
          <6>2. CASE i > Len(w)
            <7>1. ByteAt(w, i) = 0 /\ ByteAt(v, i) # 0 /\ i <= n
              BY <1>1, <2>2, <2>3, <6>2
            <7> QED
              BY <1>1, <2>2, <2>3, <6>2, <7>1 DEF d
          <6> QED
            BY <5>3, <6>1, <6>2
        <5> QED
          BY <1>1, <5>2, <5>4 DEF SameSign
      <4> QED
        BY <4>1, <4>2
    <3> HIDE DEF x, d
    <3>2. SameSign(x, TextOrder(v, w))
      BY <2>4, <3>1 DEF SameSign
    <3>3. Holds(op, x) <=> Holds(op, TextOrder(v, w))
      BY <1>o, <2>4, <3>1, <3>2, HoldsBySign
    <3>4. TextRange(s, view, r, op, w) = Verdict(Holds(op, x))
      BY <1>4, <2>7 DEF x
    <3> QED
      BY <3>3, <3>4 DEF Verdict
  <2>8. CASE n > ViewLength
    <3>1. s.text[r] = v /\ HasLongText(s, r, n)
      BY <2>8 DEF LongIs, HasLongText
    <3>2. i <= n
      <4> SUFFICES ASSUME n < i PROVE FALSE
        BY <1>1, <2>2
      <4>1. IsPrefix(v, w)
        BY <2>1, PrefixIs
      <4> QED
        BY <1>6, <2>8, <4>1 DEF IsStrictPrefix
    <3>3. StrNCmp(v, w, n) = d
      BY <1>1, <2>6, <3>2
    <3> HIDE DEF d
    <3>4. Holds(op, d) <=> Holds(op, TextOrder(v, w))
      <4>1. SameSign(d, TextOrder(v, w))
        BY <2>4 DEF SameSign
      <4> QED
        BY <1>o, <2>4, <2>5, <4>1, HoldsBySign
    <3>5. TextRange(s, view, r, op, w) = Verdict(Holds(op, d))
      BY <1>1, <1>4, <2>8, <3>1, <3>3
    <3> QED
      BY <3>4, <3>5 DEF Verdict
  <2> QED
    BY <1>1, <2>7, <2>8
<1> QED
  BY <1>5, <1>6 DEF view

-----------------------------------------------------------------------------
\* An order the text filter decides for v.
Decided(v, t, c) ==
    (t.meta = "text" /\ c.op \in DistanceOps) =>
        /\ Len(v) # ViewLength
        /\ Len(v) > ViewLength => ~IsStrictPrefix(v, c.value)

LEMMA TextFilterIs ==
    ASSUME NEW s, NEW r, NEW t, t.meta = "text", NEW v \in Texts, LongIs(s, r, v),
           NEW c, MetaTerm(c, t), Decided(v, t, c)
    PROVE  TextFilter(s, TextView(v), r, c) = Verdict(MetaSatisfies(t, v, c))
<1> DEFINE view == TextView(v)
           w == c.value
           found == TextFilter(s, view, r, c)
<1>1. /\ c.op \in CompareOps /\ c.isIn \in BOOLEAN
      /\ c.isIn => w \subseteq Texts
      /\ ~c.isIn => w \in Texts
  BY DEF MetaTerm
<1>2. CASE c.isIn
  <2> DEFINE verdicts == {TextEqual(s, view, r, x) : x \in w}
  <2>1. \A x \in w : TextEqual(s, view, r, x) = Verdict(v = x)
    BY <1>1, <1>2, TextEqualIs
  <2>2. found = TextIn(s, view, r, w)
    BY <1>2, Zenon DEF TextFilter
  <2>3. TextIn(s, view, r, w) = IF "error" \in verdicts THEN "error" ELSE Verdict("keep" \in verdicts)
    BY Zenon DEF TextIn
  <2>4. "error" \notin verdicts
    BY <2>1 DEF Verdict
  <2>5. "keep" \in verdicts <=> v \in w
    BY <2>1 DEF Verdict
  <2>6. MetaSatisfies(t, v, c) <=> v \in w
    BY <1>2, Zenon DEF MetaSatisfies
  <2> QED
    BY <2>2, <2>3, <2>4, <2>5, <2>6 DEF Verdict
<1>3. CASE ~c.isIn
  <2>1. w \in Texts
    BY <1>1, <1>3
  <2>2. MetaSatisfies(t, v, c) <=> Holds(c.op, TextOrder(v, w))
    BY <1>3, Zenon DEF MetaSatisfies
  <2>3. TextOrder(v, w) = 0 <=> v = w
    <3>1. v = w => TextOrder(v, w) = 0
      BY <2>1, TextOrderIs
    <3>2. ASSUME v # w PROVE TextOrder(v, w) # 0
      <4>1. PICK i : FirstDiff(v, w, i)
        BY <2>1, <3>2, SameOrDiffer
      <4>2. SameSign(TextOrder(v, w), ByteAt(v, i) - ByteAt(w, i))
        BY <2>1, <4>1, TextOrderIs
      <4>3. ByteAt(v, i) \in Nat /\ ByteAt(w, i) \in Nat /\ ByteAt(v, i) # ByteAt(w, i)
        BY <2>1, <4>1, BytesOf DEF FirstDiff, Bytes
      <4>4. ByteAt(v, i) - ByteAt(w, i) # 0
        BY <4>3
      <4> QED
        BY <4>2, <4>4 DEF SameSign
    <3> QED
      BY <3>1, <3>2
  <2>4. TextEqual(s, view, r, w) = Verdict(v = w)
    BY <2>1, TextEqualIs
  <2>5. CASE c.op = "EQ"
    <3>1. found = TextEqual(s, view, r, w)
      BY <1>3, <2>5, Zenon DEF TextFilter
    <3>2. Holds(c.op, TextOrder(v, w)) <=> TextOrder(v, w) = 0
      BY <2>5 DEF Holds
    <3> QED
      BY <2>2, <2>3, <2>4, <3>1, <3>2 DEF Verdict
  <2>6. CASE c.op = "NE"
    <3>1. found = Opposite(TextEqual(s, view, r, w))
      BY <1>3, <2>6 DEF TextFilter
    <3>2. Holds(c.op, TextOrder(v, w)) <=> TextOrder(v, w) # 0
      BY <2>6 DEF Holds
    <3>3. Opposite("keep") = "drop" /\ Opposite("drop") = "keep"
      BY DEF Opposite
    <3> QED
      BY <2>2, <2>3, <2>4, <3>1, <3>2, <3>3 DEF Verdict
  <2>7. CASE c.op \notin {"EQ", "NE"}
    <3>1. found = TextRange(s, view, r, c.op, w)
      BY <1>3, <2>7 DEF TextFilter
    <3>2. c.op \in DistanceOps
      BY <1>1, <2>7 DEF CompareOps, DistanceOps
    <3>3. Len(v) # ViewLength /\ (Len(v) > ViewLength => ~IsStrictPrefix(v, w))
      BY <3>2 DEF Decided
    <3>4. TextRange(s, view, r, c.op, w) = Verdict(Holds(c.op, TextOrder(v, w)))
      BY <2>1, <3>2, <3>3, TextRangeIs
    <3> QED
      BY <2>2, <3>1, <3>4 DEF Verdict
  <2> QED
    BY <2>5, <2>6, <2>7
<1> QED
  BY <1>1, <1>2, <1>3

\* vec0_set_metadata_filter_bitmap decides for a valid slot what the term says of
\* the row.
LEMMA MetadataVerdictIs ==
    ASSUME NEW s, NEW t, IsDeclared(t), NEW chunk, NEW o, NEW v, MetaValue(v, t),
           s.meta[chunk][o] = Written(v, t),
           t.meta = "text" => LongIs(s, s.chunks[chunk].rowids[o], v),
           NEW c, MetaTerm(c, t), Decided(v, t, c)
    PROVE  MetadataVerdict(s, t, chunk, o, c) = Verdict(MetaSatisfies(t, v, c))
<1>1. CASE t.meta = "text"
  <2>1. MetadataVerdict(s, t, chunk, o, c) = TextFilter(s, TextView(v), s.chunks[chunk].rowids[o], c)
    BY <1>1 DEF MetadataVerdict, Written
  <2>2. v \in Texts
    BY <1>1 DEF MetaValue
  <2> QED
    BY <1>1, <2>1, <2>2, TextFilterIs
<1>2. CASE t.meta = "boolean"
  <2>1. MetadataVerdict(s, t, chunk, o, c) = BooleanFilter(v, c)
    BY <1>2 DEF MetadataVerdict, Written
  <2>2. v \in {0, 1} /\ c.value \in {0, 1} /\ ~c.isIn /\ c.op \in {"EQ", "NE"}
    BY <1>2 DEF MetaValue, MetaTerm
  <2>3. MetaSatisfies(t, v, c) <=> Holds(c.op, v - c.value)
    BY <1>2, <2>2 DEF MetaSatisfies
  <2>4. Holds(c.op, v - c.value) <=> IF c.op = "EQ" THEN v = c.value ELSE v # c.value
    <3>1. v - c.value = 0 <=> v = c.value
      BY <2>2
    <3>2. c.op = "EQ" => (Holds(c.op, v - c.value) <=> v - c.value = 0)
      BY DEF Holds
    <3>3. c.op = "NE" => (Holds(c.op, v - c.value) <=> v - c.value # 0)
      BY DEF Holds
    <3> QED
      BY ONLY <2>2, <3>1, <3>2, <3>3
  <2> QED
    BY <2>1, <2>2, <2>3, <2>4 DEF BooleanFilter, Verdict
<1>3. CASE t.meta = "integer"
  <2>1. MetadataVerdict(s, t, chunk, o, c) = IntegerFilter(v, c)
    BY <1>3 DEF MetadataVerdict, Written
  <2>2. MetaSatisfies(t, v, c) <=> IF c.isIn THEN v \in c.value ELSE Holds(c.op, v - c.value)
    BY <1>3 DEF MetaSatisfies
  <2> QED
    BY <2>1, <2>2 DEF IntegerFilter, Verdict
<1> QED
  BY <1>1, <1>2, <1>3 DEF MetaTerm, IsDeclared

\* A slot that holds no row has a verdict too, and never fails the query.
LEMMA BlankNeverFails ==
    ASSUME NEW s, NEW t, IsDeclared(t), NEW chunk, NEW o,
           t.meta = "text" => s.meta[chunk][o] = ZeroMeta(t), NEW c, MetaTerm(c, t)
    PROVE  MetadataVerdict(s, t, chunk, o, c) # "error"
<1> DEFINE r == s.chunks[chunk].rowids[o]
           view == [n |-> 0, data |-> <<>>]
<1>0. \A b : Verdict(b) # "error"
  BY DEF Verdict
<1>1. CASE t.meta = "text"
  <2>0. 0 < ViewLength /\ 0 <= ViewLength
    BY Vec0StoreAssumption
  <2>1. MetadataVerdict(s, t, chunk, o, c) = TextFilter(s, view, r, c)
    BY <1>1 DEF MetadataVerdict, ZeroMeta
  <2>2. view.n = 0
    OBVIOUS
  <2> HIDE DEF view
  <2>3. \A w : TextEqual(s, view, r, w) \in {"keep", "drop"}
    BY <2>0, <2>2 DEF TextEqual
  <2>4. \A op, w : TextRange(s, view, r, op, w) # "error"
    BY <2>0, <2>2, <1>0 DEF TextRange
  <2>5. \A W : TextIn(s, view, r, W) # "error"
    BY <2>3, <1>0 DEF TextIn
  <2>6. \A w : Opposite(TextEqual(s, view, r, w)) # "error"
    BY <2>3 DEF Opposite
  <2> QED
    BY <2>1, <2>3, <2>4, <2>5, <2>6 DEF TextFilter
<1>2. CASE t.meta = "boolean"
  BY <1>0, <1>2 DEF MetadataVerdict, BooleanFilter
<1>3. CASE t.meta = "integer"
  BY <1>0, <1>3 DEF MetadataVerdict, IntegerFilter
<1> QED
  BY <1>1, <1>2, <1>3 DEF MetaTerm, IsDeclared

-----------------------------------------------------------------------------
\* What the columns store: integers, bits, and views of texts, that of the empty
\* one in every slot that is not valid.
Cells(f, V) == \A x \in DOMAIN f : \A y \in DOMAIN f[x] : f[x][y] \in V
Views == {TextView(v) : v \in Texts}
BlankSlots(s, t) ==
    \A c \in DOMAIN s.meta : \A o \in Offsets(t) :
        o \notin s.chunks[c].validity => s.meta[c][o] = ZeroMeta(t)
TextValues(s, t) ==
    /\ Cells(s.meta, Views)
    /\ \A r \in DOMAIN s.text : s.text[r] \in Texts
    /\ BlankSlots(s, t)
ValuesOK(s, t) ==
    /\ t.index = "flat" => Cells(s.vectors, Int)
    /\ t.index = "rescore" => Cells(s.coarse, Int) /\ \A r \in DOMAIN s.full : s.full[r] \in Int
    /\ t.meta = "boolean" => Cells(s.meta, {0, 1})
    /\ t.meta = "text" => TextValues(s, t)

LEMMA CellsOfSet ==
    ASSUME NEW f, NEW g, NEW V, NEW c, NEW o, NEW v \in V, Cells(f, V), CellSet(g, f, c, o, v)
    PROVE  Cells(g, V)
<1> SUFFICES ASSUME NEW x \in DOMAIN g, NEW y \in DOMAIN g[x] PROVE g[x][y] \in V
  BY DEF Cells
<1>1. x \in DOMAIN f /\ y \in DOMAIN f[x] /\ f[x][y] \in V
  BY DEF CellSet, Cells
<1>2. CASE x = c
  BY <1>1, <1>2 DEF CellSet
<1>3. CASE x # c
  BY <1>1, <1>3 DEF CellSet
<1> QED
  BY <1>2, <1>3

LEMMA CellsOfPut ==
    ASSUME NEW f, NEW V, NEW c, NEW t, NEW z \in V, Cells(f, V)
    PROVE  Cells(Put(f, c, Blank(t, z)), V)
  BY DEF Cells, Put, Blank

LEMMA CellsWithout ==
    ASSUME NEW f, NEW V, NEW c, Cells(f, V)
    PROVE  Cells(Without(f, c), V)
  BY DEF Cells, Without

LEMMA EmptyView ==
    ASSUME NEW t, t.meta = "text"
    PROVE  ZeroMeta(t) \in Views
<1>1. <<>> \in Texts /\ Len(<<>>) = 0
  BY DEF Texts
<1>2. TextView(<<>>) = [n |-> 0, data |-> <<>>]
  <2>1. 0 < ViewLength
    BY Vec0StoreAssumption
  <2>2. SubSeq(<<>>, 1, 0) = <<>>
    OBVIOUS
  <2> QED
    BY <1>1, <2>1, <2>2 DEF TextView
<1>3. ZeroMeta(t) = TextView(<<>>)
  BY <1>2 DEF ZeroMeta
<1> QED
  BY <1>1, <1>3 DEF Views

\* The store with the rowid and the chunk for a new row.
LEMMA GrownKeepsValues ==
    ASSUME NEW s, NEW t, NEW b, NEW c, IsDeclared(t), Chunked(t), ValuesOK(s, t), ColumnsShape(s, t),
           Grown(b, s, t, c), b.full = s.full, b.text = s.text
    PROVE  ValuesOK(b, t)
<1>1. t.index = "flat" => Cells(b.vectors, Int)
  BY CellsOfPut DEF ValuesOK, Grown
<1>2. t.index = "rescore" => Cells(b.coarse, Int) /\ \A r \in DOMAIN b.full : b.full[r] \in Int
  BY CellsOfPut DEF ValuesOK, Grown
<1>3. t.meta = "boolean" => Cells(b.meta, {0, 1})
  BY CellsOfPut DEF ValuesOK, Grown, ZeroMeta
<1>4. ASSUME t.meta = "text" PROVE TextValues(b, t)
  <2>1. b.meta = Put(s.meta, c, Blank(t, ZeroMeta(t))) /\ DOMAIN s.meta = DOMAIN s.chunks
    BY <1>4 DEF Grown, ColumnsShape, Column
  <2>2. Cells(b.meta, Views)
    BY <1>4, <2>1, EmptyView, CellsOfPut DEF ValuesOK, TextValues
  <2>3. ASSUME NEW x \in DOMAIN b.meta, NEW y \in Offsets(t), y \notin b.chunks[x].validity
        PROVE  b.meta[x][y] = ZeroMeta(t)
    <3>1. CASE x = c
      BY <2>1, <3>1 DEF Put, Blank
    <3>2. CASE x # c
      <4>1. x \in DOMAIN s.meta /\ b.meta[x] = s.meta[x]
        BY <2>1, <3>2 DEF Put
      <4>2. b.chunks[x] = s.chunks[x]
        BY <2>1, <4>1 DEF Grown
      <4> QED
        BY <1>4, <2>3, <4>1, <4>2 DEF ValuesOK, TextValues, BlankSlots
    <3> QED
      BY <3>1, <3>2
  <2> QED
    BY <1>4, <2>2, <2>3 DEF ValuesOK, TextValues, BlankSlots
<1> QED
  BY <1>1, <1>2, <1>3, <1>4 DEF ValuesOK

\* What is kept of a value of a row in its slot.
LEMMA WrittenValue ==
    ASSUME NEW v, NEW t, MetaValue(v, t)
    PROVE  /\ t.meta = "boolean" => Written(v, t) \in {0, 1}
           /\ t.meta = "text" => v \in Texts /\ Written(v, t) \in Views
  BY DEF MetaValue, Written, Views

\* Text of a row in the slot <<c, o>>, which is valid then.
LEMMA TextKeepsValues ==
    ASSUME NEW b, NEW t, NEW m, NEW r, NEW c, NEW o, NEW v \in Texts, t.meta = "text",
           TextValues(b, t), CellSet(m.meta, b.meta, c, o, TextView(v)), TextWritten(m, b, r, v),
           ColumnsShape(b, t), DOMAIN m.chunks = DOMAIN b.chunks,
           \A x \in DOMAIN b.chunks : x # c => m.chunks[x] = b.chunks[x],
           m.chunks[c].validity = b.chunks[c].validity \cup {o}
    PROVE  TextValues(m, t)
<1>1. TextView(v) \in Views
  BY DEF Views
<1>2. Cells(m.meta, Views)
  BY <1>1, CellsOfSet DEF TextValues
<1>3. \A q \in DOMAIN m.text : m.text[q] \in Texts
  BY DEF TextWritten, TextValues
<1>4. ASSUME NEW x \in DOMAIN m.meta, NEW y \in Offsets(t), y \notin m.chunks[x].validity
      PROVE  m.meta[x][y] = ZeroMeta(t)
  <2>1. x \in DOMAIN b.meta /\ x \in DOMAIN b.chunks /\ y \in DOMAIN b.meta[x]
    BY DEF CellSet, ColumnsShape, Column
  <2>2. y \notin b.chunks[x].validity /\ (x = c => y # o)
    BY <1>4, <2>1
  <2>3. m.meta[x][y] = b.meta[x][y]
    BY <2>1, <2>2 DEF CellSet
  <2> QED
    BY <2>1, <2>2, <2>3 DEF TextValues, BlankSlots
<1> QED
  BY <1>2, <1>3, <1>4 DEF TextValues, BlankSlots

LEMMA InsertedKeepsValues ==
    ASSUME NEW s, NEW t, NEW id, NEW r, NEW row, NEW m, NEW b, NEW c, NEW o,
           IsDeclared(t), Chunked(t), StoreOK(s, t), ValuesOK(s, t), ValuesFit(row, t),
           RowInserted(m, s, t, id, r, row, b, c, o)
    PROVE  ValuesOK(m, t)
<1> DEFINE s1 == InsertRowid(s, t, id, r)
<1>1. /\ SameRows(b, s1) /\ (b = s1 \/ Grown(b, s1, t, c))
      /\ RowWritten(m, b, t, r, c, o, row) /\ ColumnsWritten(m, b, t, r, c, o, row)
      /\ t.meta # "none" => CellSet(m.meta, b.meta, c, o, Written(row.meta, t))
      /\ t.meta = "text" => TextWritten(m, b, r, row.meta)
      /\ ColumnsShape(b, t)
  BY DEF RowInserted, Ready
<1>2. /\ s1.vectors = s.vectors /\ s1.coarse = s.coarse /\ s1.full = s.full
      /\ s1.meta = s.meta /\ s1.text = s.text /\ s1.chunks = s.chunks
  BY DEF InsertRowid, StoreOK, RowsShape, Fields
<1>3. ValuesOK(s1, t) /\ ColumnsShape(s1, t)
  <2>1. ColumnsShape(s, t)
    BY DEF StoreOK
  <2> HIDE DEF s1
  <2>2. TextValues(s, t) => TextValues(s1, t)
    BY <1>2 DEF TextValues, BlankSlots
  <2> QED
    BY <1>2, <2>1, <2>2 DEF ValuesOK, ColumnsShape, Column
<1> HIDE DEF s1
<1>4. ValuesOK(b, t)
  BY <1>1, <1>3, GrownKeepsValues DEF SameRows
<1>5. row.vector \in Int /\ RescoreQuantize(row.vector) \in Int /\ MetaValue(row.meta, t)
  BY DEF ValuesFit, RescoreQuantize
<1>6. t.index = "flat" => Cells(m.vectors, Int)
  BY <1>1, <1>4, <1>5, CellsOfSet DEF ColumnsWritten, ValuesOK
<1>7. t.index = "rescore" => Cells(m.coarse, Int) /\ \A q \in DOMAIN m.full : m.full[q] \in Int
  <2>1. t.index = "rescore" => Cells(m.coarse, Int)
    BY <1>1, <1>4, <1>5, CellsOfSet DEF ColumnsWritten, ValuesOK
  <2>2. t.index = "rescore" => \A q \in DOMAIN m.full : m.full[q] \in Int
    BY <1>1, <1>4, <1>5 DEF ColumnsWritten, ValuesOK, Put
  <2> QED
    BY <2>1, <2>2
<1>8. t.meta = "boolean" => Cells(m.meta, {0, 1})
  BY <1>1, <1>4, <1>5, WrittenValue, CellsOfSet DEF ValuesOK
<1>9. ASSUME t.meta = "text" PROVE TextValues(m, t)
  <2>1. row.meta \in Texts /\ Written(row.meta, t) = TextView(row.meta)
    BY <1>5, <1>9 DEF MetaValue, Written
  <2>2. /\ DOMAIN m.chunks = DOMAIN b.chunks
        /\ \A x \in DOMAIN b.chunks : x # c => m.chunks[x] = b.chunks[x]
        /\ m.chunks[c].validity = b.chunks[c].validity \cup {o}
    BY <1>1 DEF RowWritten
  <2>3. /\ TextValues(b, t) /\ TextWritten(m, b, r, row.meta) /\ ColumnsShape(b, t)
        /\ CellSet(m.meta, b.meta, c, o, TextView(row.meta))
    BY <1>1, <1>4, <1>9, <2>1 DEF ValuesOK
  <2> QED
    BY ONLY <1>9, <2>1, <2>2, <2>3, TextKeepsValues
<1> QED
  BY <1>6, <1>7, <1>8, <1>9 DEF ValuesOK

LEMMA InsertKeepsValues ==
    ASSUME NEW s, NEW t, NEW id, NEW row, IsDeclared(t), StoreOK(s, t), Chunked(t),
           ValuesOK(s, t), ValuesFit(row, t),
           t.pk = "int" => id \in Int \cup {None}, InsertRow(s, t, id, row).ok
    PROVE  ValuesOK(InsertRow(s, t, id, row).store, t)
<1> DEFINE r == NewRowid(s, t, id)
           s1 == InsertRowid(s, t, id, r)
           taken == IF id = None THEN t.pk = "text" ELSE HasId(s, t, id)
           m == InsertChunked(s1, t, r, row).store
<1>1. ~taken
  BY DEF InsertRow
<1>2. InsertRow(s, t, id, row).store = m
  BY <1>1 DEF InsertRow
<1>3. r \in Int /\ r \notin DOMAIN s.rowids
  <2>1. s.rowidSeq + 1 \in Int /\ s.rowidSeq + 1 \notin DOMAIN s.rowids
    BY DEF StoreOK, RowsShape
  <2> QED
    BY <1>1, <2>1 DEF NewRowid, HasId, IsDeclared
<1>4. t.pk = "text" => ~HasId(s, t, id)
  BY <1>1
<1> HIDE DEF r, taken
<1>5. PICK b, c, o : RowInserted(m, s, t, id, r, row, b, c, o)
  BY <1>3, <1>4, InsertChunkedIs
<1> HIDE DEF m
<1> QED
  BY <1>2, <1>5, InsertedKeepsValues

\* vec0Update_Delete: the slot is zeroed, and a chunk without rows goes.
LEMMA ClearedKeepsValues ==
    ASSUME NEW s, NEW t, NEW d, NEW r, NEW c, NEW o,
           ColumnsShape(s, t), ValuesOK(s, t),
           RowCleared(d, s, t, r, c, o), ColumnsCleared(d, s, t, r, c, o)
    PROVE  ValuesOK(d, t)
<1>1. t.index = "flat" => Cells(d.vectors, Int)
  BY CellsOfSet DEF ColumnsCleared, ValuesOK
<1>2. t.index = "rescore" => Cells(d.coarse, Int)
  BY CellsOfSet DEF ColumnsCleared, ValuesOK
<1>3. t.index = "rescore" => \A q \in DOMAIN d.full : d.full[q] \in Int
  BY DEF ColumnsCleared, ValuesOK, Without
<1>4. t.meta = "boolean" => Cells(d.meta, {0, 1})
  BY CellsOfSet DEF ColumnsCleared, ValuesOK, ZeroMeta
<1>5. ASSUME t.meta = "text" PROVE TextValues(d, t)
  <2>1. CellSet(d.meta, s.meta, c, o, ZeroMeta(t)) /\ TextValues(s, t)
    BY <1>5 DEF ColumnsCleared, ValuesOK
  <2>2. Cells(d.meta, Views)
    BY <1>5, <2>1, EmptyView, CellsOfSet DEF TextValues
  <2>3. \A q \in DOMAIN d.text : d.text[q] \in Texts
    BY <1>5, <2>1 DEF ColumnsCleared, TextValues, Without
  <2>4. ASSUME NEW x \in DOMAIN d.meta, NEW y \in Offsets(t), y \notin d.chunks[x].validity
        PROVE  d.meta[x][y] = ZeroMeta(t)
    <3>1. x \in DOMAIN s.meta /\ x \in DOMAIN s.chunks /\ y \in DOMAIN s.meta[x]
      BY <1>5, <2>1 DEF CellSet, ColumnsShape, Column
    <3>2. CASE x = c /\ y = o
      BY <2>1, <3>1, <3>2 DEF CellSet
    <3>3. CASE ~(x = c /\ y = o)
      <4>1. d.meta[x][y] = s.meta[x][y]
        BY <2>1, <3>1, <3>3 DEF CellSet
      <4>2. y \notin s.chunks[x].validity
        BY <2>4, <3>1, <3>3 DEF RowCleared
      <4> QED
        BY <2>1, <3>1, <4>1, <4>2 DEF TextValues, BlankSlots
    <3> QED
      BY <3>2, <3>3
  <2> QED
    BY <2>2, <2>3, <2>4 DEF TextValues, BlankSlots
<1> QED
  BY <1>1, <1>2, <1>3, <1>4, <1>5 DEF ValuesOK

LEMMA EmptyChunkKeepsValues ==
    ASSUME NEW d, NEW t, NEW c, DOMAIN d = Fields, ColumnsShape(d, t), ValuesOK(d, t)
    PROVE  ValuesOK(DeleteChunkIfEmpty(d, t, c), t)
<1> DEFINE m == DeleteChunkIfEmpty(d, t, c)
<1>1. CASE d.chunks[c].validity # {}
  BY <1>1 DEF DeleteChunkIfEmpty
<1>2. CASE d.chunks[c].validity = {}
  <2>1. /\ m.chunks = Without(d.chunks, c) /\ m.vectors = Without(d.vectors, c)
        /\ m.coarse = Without(d.coarse, c) /\ m.meta = Without(d.meta, c)
        /\ m.full = d.full /\ m.text = d.text
    BY <1>2 DEF DeleteChunkIfEmpty, DeleteRescoreChunk, Fields
  <2> HIDE DEF m
  <2>2. ASSUME t.meta = "text" PROVE TextValues(m, t)
    <3>1. TextValues(d, t) /\ DOMAIN d.meta = DOMAIN d.chunks
      BY <2>2 DEF ValuesOK, ColumnsShape, Column
    <3>2. Cells(m.meta, Views)
      BY <2>1, <3>1, CellsWithout DEF TextValues
    <3>3. BlankSlots(m, t)
      BY <2>1, <3>1 DEF TextValues, BlankSlots, Without
    <3> QED
      BY <2>1, <3>1, <3>2, <3>3 DEF TextValues
  <2>3. ValuesOK(m, t)
    BY <2>1, <2>2, CellsWithout DEF ValuesOK
  <2> QED
    BY <2>3 DEF m
<1> QED
  BY <1>1, <1>2

LEMMA DeleteKeepsValues ==
    ASSUME NEW s, NEW t, NEW id, IsDeclared(t), StoreOK(s, t), Chunked(t), ValuesOK(s, t),
           RowidFromId(s, t, id) \in DOMAIN s.rowids
    PROVE  ValuesOK(DeleteRow(s, t, id), t)
<1> DEFINE r == RowidFromId(s, t, id)
           c == s.rowids[r].chunk
           o == s.rowids[r].offset
           d == ClearRow(s, t, r, c, o)
<1>1. DeleteRow(s, t, id) = DeleteChunkIfEmpty(d, t, c)
  BY DEF DeleteRow, DeleteChunked, ClearRow
<1>2. r \in DOMAIN s.rowids
  OBVIOUS
<1> HIDE DEF r
<1>3. /\ ColumnsShape(s, t) /\ DOMAIN s = Fields
      /\ c \in DOMAIN s.chunks
      /\ DOMAIN s.chunks[c] = {"part", "validity", "rowids"}
  BY <1>2 DEF StoreOK, RowsShape, ChunksShape, Placed, RowPlaced
<1>4. RowCleared(d, s, t, r, c, o) /\ ColumnsCleared(d, s, t, r, c, o)
  BY <1>3, RowIsCleared
<1> HIDE DEF d
<1>5. Vacated(d, t, c)
  BY <1>2, <1>4, ClearedIsVacated
<1>6. ValuesOK(d, t)
  BY <1>3, <1>4, ClearedKeepsValues
<1> QED
  BY <1>1, <1>5, <1>6, EmptyChunkKeepsValues DEF Vacated, RowsShape

LEMMA ReplaceKeepsValues ==
    ASSUME NEW s, NEW t, NEW id, NEW row, IsDeclared(t), StoreOK(s, t), Chunked(t),
           ValuesOK(s, t), ValuesFit(row, t),
           t.pk = "int" => id \in Int \cup {None}, ReplaceRow(s, t, id, row).ok
    PROVE  ValuesOK(ReplaceRow(s, t, id, row).store, t)
<1>1. HasId(s, t, id) => RowidFromId(s, t, id) \in DOMAIN s.rowids
  BY DEF HasId, RowidFromId
<1> DEFINE d == IF id # None /\ HasId(s, t, id) THEN DeleteRow(s, t, id) ELSE s
<1>2. ReplaceRow(s, t, id, row) = InsertRow(d, t, id, row)
  BY DEF ReplaceRow
<1>3. StoreOK(d, t) /\ ValuesOK(d, t)
  BY <1>1, DeleteRowKeeps, DeleteKeepsValues
<1> HIDE DEF d
<1> QED
  BY <1>2, <1>3, InsertKeepsValues

\* A change sets a column to a value, or leaves it alone.
ChangeHolds(change, t) ==
    /\ change.vector = None \/ change.vector \in Int
    /\ change.meta = None \/ MetaValue(change.meta, t)

\* Metadata of a row that is there.
LEMMA MetadataKeepsValues ==
    ASSUME NEW s, NEW t, NEW v, IsDeclared(t), Chunked(t), StoreOK(s, t), ValuesOK(s, t),
           MetaValue(v, t), NEW r \in DOMAIN s.rowids,
           NEW c, NEW o, c = s.rowids[r].chunk, o = s.rowids[r].offset
    PROVE  ValuesOK(UpdateMetadata(s, t, r, c, o, v), t)
<1> DEFINE m == UpdateMetadata(s, t, r, c, o, v)
<1>1. /\ DOMAIN s = Fields /\ ColumnsShape(s, t)
      /\ c \in DOMAIN s.chunks /\ o \in s.chunks[c].validity
      /\ t.meta # "none" => c \in DOMAIN s.meta
  BY DEF StoreOK, RowsShape, Placed, RowPlaced, ColumnsShape, Column
<1>2. t.meta = "text" => (r \in DOMAIN s.text <=> s.meta[c][o].n > ViewLength)
  BY DEF StoreOK, Filled, TextAgrees, Cell
<1>3. NewMetadata(m, s, t, r, c, o, v)
  BY <1>1, <1>2, OldMetadataIs
<1> HIDE DEF m
<1>4. /\ m.vectors = s.vectors /\ m.coarse = s.coarse /\ m.full = s.full /\ m.chunks = s.chunks
      /\ t.meta # "none" => CellSet(m.meta, s.meta, c, o, Written(v, t))
      /\ t.meta = "text" => TextWritten(m, s, r, v)
  BY <1>3 DEF NewMetadata, Fields
<1>5. t.meta = "boolean" => Cells(m.meta, {0, 1})
  BY <1>4, WrittenValue, CellsOfSet DEF ValuesOK
<1>6. ASSUME t.meta = "text" PROVE TextValues(m, t)
  <2>1. v \in Texts /\ CellSet(m.meta, s.meta, c, o, TextView(v)) /\ TextWritten(m, s, r, v)
    BY <1>4, <1>6 DEF MetaValue, Written
  <2>2. TextValues(s, t) /\ m.chunks[c].validity = s.chunks[c].validity \cup {o}
    BY <1>1, <1>4, <1>6 DEF ValuesOK
  <2> QED
    BY ONLY <1>1, <1>4, <1>6, <2>1, <2>2, TextKeepsValues
<1>7. ValuesOK(m, t)
  BY <1>4, <1>5, <1>6 DEF ValuesOK
<1> QED
  BY <1>7 DEF m

LEMMA VectorKeepsValues ==
    ASSUME NEW s, NEW t, NEW v, IsDeclared(t), Chunked(t), StoreOK(s, t), ValuesOK(s, t),
           v = None \/ v \in Int, NEW r \in DOMAIN s.rowids
    PROVE  ValuesOK(UpdateVector(s, t, r, v), t)
<1> DEFINE c == s.rowids[r].chunk
           o == s.rowids[r].offset
           m == UpdateVector(s, t, r, v)
<1>1. CASE v = None
  BY <1>1 DEF UpdateVector
<1>2. CASE v # None
  <2>1. /\ DOMAIN s = Fields /\ ColumnsShape(s, t) /\ v \in Int /\ RescoreQuantize(v) \in Int
        /\ c \in DOMAIN s.chunks
        /\ t.index = "rescore" \/ t.index = "flat"
    BY <1>2 DEF StoreOK, RowsShape, Placed, RowPlaced, RescoreQuantize, Chunked, IsDeclared
  <2> HIDE DEF c, o
  <2>2. CASE t.index = "flat"
    <3>1. m = [s EXCEPT !.vectors[c][o] = v]
      BY <1>2, <2>2 DEF UpdateVector, WriteVector, c, o
    <3>2. /\ m.vectors = [s.vectors EXCEPT ![c][o] = v]
          /\ m.meta = s.meta /\ m.text = s.text /\ m.chunks = s.chunks
      BY <2>1, <3>1 DEF Fields
    <3> HIDE DEF m
    <3>3. Cells(m.vectors, Int)
      <4>1. c \in DOMAIN s.vectors /\ Cells(s.vectors, Int)
        BY <2>1, <2>2 DEF ColumnsShape, Column, ValuesOK
      <4>2. CellSet(m.vectors, s.vectors, c, o, v)
        BY <3>2, <4>1, CellIsSet
      <4> QED
        BY <2>1, <4>1, <4>2, CellsOfSet
    <3>4. ValuesOK(m, t)
      BY <2>2, <3>2, <3>3 DEF ValuesOK, TextValues, BlankSlots
    <3> QED
      BY <3>4 DEF m
  <2>3. CASE t.index = "rescore"
    <3>1. m = [s EXCEPT !.coarse[c][o] = RescoreQuantize(v), !.full = Put(@, r, v)]
      BY <1>2, <2>3 DEF UpdateVector, RescoreWrite, c, o
    <3>2. /\ m.coarse = [s.coarse EXCEPT ![c][o] = RescoreQuantize(v)]
          /\ m.full = Put(s.full, r, v)
          /\ m.meta = s.meta /\ m.text = s.text /\ m.chunks = s.chunks
      BY <2>1, <3>1 DEF Fields
    <3> HIDE DEF m
    <3>3. Cells(m.coarse, Int)
      <4>1. c \in DOMAIN s.coarse /\ Cells(s.coarse, Int)
        BY <2>1, <2>3 DEF ColumnsShape, Column, ValuesOK
      <4>2. CellSet(m.coarse, s.coarse, c, o, RescoreQuantize(v))
        BY <3>2, <4>1, CellIsSet
      <4> QED
        BY <2>1, <4>1, <4>2, CellsOfSet
    <3>4. \A q \in DOMAIN m.full : m.full[q] \in Int
      BY <2>1, <2>3, <3>2 DEF ValuesOK, Put
    <3>5. ValuesOK(m, t)
      BY <2>3, <3>2, <3>3, <3>4 DEF ValuesOK, TextValues, BlankSlots
    <3> QED
      BY <3>5 DEF m
  <2> QED
    BY <2>1, <2>2, <2>3
<1> QED
  BY <1>1, <1>2

LEMMA AuxKeepsValues ==
    ASSUME NEW s, NEW t, NEW r, NEW v, DOMAIN s = Fields, ValuesOK(s, t)
    PROVE  ValuesOK(UpdateAux(s, t, r, v), t)
<1> DEFINE m == UpdateAux(s, t, r, v)
<1>1. /\ m.vectors = s.vectors /\ m.coarse = s.coarse /\ m.full = s.full
      /\ m.meta = s.meta /\ m.text = s.text /\ m.chunks = s.chunks
  BY DEF UpdateAux, WriteAux, Fields
<1> HIDE DEF m
<1>2. TextValues(s, t) => TextValues(m, t)
  BY <1>1 DEF TextValues, BlankSlots
<1>3. ValuesOK(m, t)
  BY <1>1, <1>2 DEF ValuesOK
<1> QED
  BY <1>3 DEF m

LEMMA UpdateKeepsValues ==
    ASSUME NEW s, NEW t, NEW id, NEW newId, NEW change, IsDeclared(t), StoreOK(s, t), Chunked(t),
           ValuesOK(s, t), ChangeHolds(change, t), RowidFromId(s, t, id) \in DOMAIN s.rowids
    PROVE  ValuesOK(UpdateRow(s, t, id, newId, change).store, t)
<1> DEFINE r == RowidFromId(s, t, id)
           c == s.rowids[r].chunk
           o == s.rowids[r].offset
           s1 == UpdateAux(s, t, r, change.aux)
           w == UpdateMetadata(s1, t, r, c, o, change.meta)
           s2 == IF change.meta = None THEN s1 ELSE w
<1>1. UpdateRow(s, t, id, newId, change).store = UpdateVector(s2, t, r, change.vector)
  BY DEF UpdateRow, UpdateMetadata
<1>2. r \in DOMAIN s.rowids
  OBVIOUS
<1> HIDE DEF r
<1>3. StoreOK(s1, t) /\ s1.rowids = s.rowids
  BY UpdateAuxKeeps
<1>4. ValuesOK(s1, t)
  BY AuxKeepsValues DEF StoreOK, RowsShape
<1> HIDE DEF s1
<1>5. r \in DOMAIN s1.rowids /\ c = s1.rowids[r].chunk /\ o = s1.rowids[r].offset
  BY <1>2, <1>3
<1> HIDE DEF c, o
<1>6. StoreOK(w, t) /\ w.rowids = s1.rowids
  <2>1. StoreOK(s1, t)
    BY <1>3
  <2>2. /\ StoreOK(UpdateMetadata(s1, t, r, c, o, change.meta), t)
        /\ UpdateMetadata(s1, t, r, c, o, change.meta).rowids = s1.rowids
    <3> HIDE DEF w, s2
    <3> QED
      BY <1>5, <2>1, UpdateMetadataKeeps
  <2> QED
    BY <2>2
<1>7. change.meta # None => ValuesOK(w, t)
  BY <1>3, <1>4, <1>5, MetadataKeepsValues DEF ChangeHolds
<1> HIDE DEF w
<1>8. StoreOK(s2, t) /\ ValuesOK(s2, t) /\ r \in DOMAIN s2.rowids
  BY <1>3, <1>4, <1>5, <1>6, <1>7
<1> HIDE DEF s2
<1>9. change.vector = None \/ change.vector \in Int
  BY DEF ChangeHolds
<1> QED
  BY <1>1, <1>8, <1>9, VectorKeepsValues

LEMMA EmptyHasValues ==
    ASSUME NEW t
    PROVE  ValuesOK(EmptyStore(t), t)
<1> DEFINE s == EmptyStore(t)
<1>1. /\ DOMAIN s.vectors = {} /\ DOMAIN s.coarse = {} /\ DOMAIN s.full = {}
      /\ DOMAIN s.meta = {} /\ DOMAIN s.text = {}
  BY DEF EmptyStore
<1> HIDE DEF s
<1>2. ValuesOK(s, t)
  BY <1>1 DEF ValuesOK, TextValues, BlankSlots, Cells
<1> QED
  BY <1>2 DEF s

-----------------------------------------------------------------------------
Valued(s, t) == Chunked(t) => ValuesOK(s, t)
Sized(t) == /\ {"oversample", "oversampleSearch"} \subseteq DOMAIN t
            /\ t.index = "rescore" => t.oversample \in Nat \ {0} /\ t.oversampleSearch \in Nat
ValuesInv == /\ schema # Absent => Valued(store, TableOf[schema.args])
             /\ table # Absent => Sized(table)

\* What commands leave alone decides which values fit.
LEMMA KindValues ==
    ASSUME NEW t, NEW u, SameKind(t, u)
    PROVE  /\ \A s : Valued(s, t) <=> Valued(s, u)
           /\ \A row : ValuesFit(row, t) <=> ValuesFit(row, u)
           /\ \A change : ChangeHolds(change, t) <=> ChangeHolds(change, u)
<1>1. t.meta = u.meta /\ t.index = u.index /\ Offsets(t) = Offsets(u)
  BY SameKindIs DEF Offsets
<1>2. \A v : MetaValue(v, t) <=> MetaValue(v, u)
  BY <1>1 DEF MetaValue
<1>3. ZeroMeta(t) = ZeroMeta(u)
  BY <1>1 DEF ZeroMeta
<1>4. \A s : TextValues(s, t) <=> TextValues(s, u)
  BY <1>1, <1>3 DEF TextValues, BlankSlots
<1>5. \A s : ValuesOK(s, t) <=> ValuesOK(s, u)
  BY <1>1, <1>4 DEF ValuesOK
<1> QED
  BY <1>1, <1>2, <1>5 DEF Valued, Chunked, ValuesFit, ChangeHolds

\* The rows put into a table and the changes to it, and how it is sized.
LEMMA DeclaredHolds ==
    ASSUME NEW args, Accepts(args), NEW t, t = TableOf[args]
    PROVE  /\ \A row \in RowsOf(t) : ValuesFit(row, t)
           /\ \A change \in ChangesOf(t) : ChangeHolds(change, t)
           /\ Sized(t)
           /\ t.index = "rescore" => \A command \in CommandsOf(t) : command[2] \in Int
<1>1. /\ \A row \in RowsOf(t) : ValuesFit(row, t)
      /\ Oversamples(t)
  BY Vec0CorrectAssumption DEF Accepts
<1>2. \A change \in ChangesOf(t) : ChangeHolds(change, t)
  <2> TAKE change \in ChangesOf(t)
  <2>1. /\ change.vector \in {row["vector"] : row \in RowsOf(t)} \cup {None}
        /\ change.meta \in {row["meta"] : row \in RowsOf(t)} \cup {None}
    BY DEF ChangesOf, Values
  <2> QED
    BY <1>1, <2>1 DEF ChangeHolds, ValuesFit
<1>3. {"oversample", "oversampleSearch"} \subseteq DOMAIN t
  <2>1. t = Declare(args).table
    BY DEF Accepts, TableOf
  <2>2. PICK d : Declare(args) = Declared(d)
    BY DEF Declare
  <2>3. Declare(args).table = TableRecord(d, d.vector)
    BY <2>2 DEF Accepts, Declared
  <2> QED
    BY <2>1, <2>3 DEF TableRecord
<1> QED
  BY <1>1, <1>2, <1>3 DEF Sized, Oversamples

LEMMA StatementKeepsValues ==
    ASSUME IInv, ValuesInv, table # Absent, NEW result, Statement(result),
           Valued(store, table) => Valued(result.store, table)
    PROVE  ValuesInv'
<1>1. store' = result.store /\ schema' = schema /\ table' = table
  BY DEF Statement
<1>2. SameKind(table, TableOf[schema.args]) /\ schema # Absent
  BY SchemaIsThere DEF IInv, TableInv
<1>3. Valued(store, table) /\ Sized(table)
  BY <1>2, KindValues DEF ValuesInv
<1>4. Valued(store', TableOf[schema.args])
  BY <1>1, <1>2, <1>3, KindValues
<1> QED
  BY <1>1, <1>3, <1>4 DEF ValuesInv

\* A connected table takes the rows and the changes it is given.
LEMMA GivenHolds ==
    ASSUME IInv, table # Absent
    PROVE  /\ \A row \in RowsOf(TableOf[schema.args]) : ValuesFit(row, table)
           /\ \A change \in ChangesOf(TableOf[schema.args]) : ChangeHolds(change, table)
           /\ table.index = "rescore" =>
                \A command \in CommandsOf(TableOf[schema.args]) : command[2] \in Int
<1> DEFINE t == TableOf[schema.args]
<1>1. Accepts(schema.args) /\ SameKind(table, t)
  BY SchemaIsThere DEF IInv, TableInv
<1>2. /\ \A row \in RowsOf(t) : ValuesFit(row, t)
      /\ \A change \in ChangesOf(t) : ChangeHolds(change, t)
      /\ t.index = "rescore" => \A command \in CommandsOf(t) : command[2] \in Int
  BY <1>1, DeclaredHolds
<1>3. table.index = t.index
  BY <1>1, SameKindIs
<1> HIDE DEF t
<1>4. /\ \A row \in RowsOf(t) : ValuesFit(row, table)
      /\ \A change \in ChangesOf(t) : ChangeHolds(change, table)
  BY <1>1, <1>2, KindValues
<1> QED
  BY <1>2, <1>3, <1>4 DEF t

LEMMA NextKeepsValues == IInv /\ ValuesInv /\ [Next]_vars => ValuesInv'
<1> SUFFICES ASSUME IInv, ValuesInv, [Next]_vars PROVE ValuesInv'
  OBVIOUS
<1>1. ASSUME NEW args \in Declarations, NEW n \in NamesOf(TableOf[args]), Create(n, args)
      PROVE  ValuesInv'
  <2>1. /\ schema' = [name |-> n, args |-> args]
        /\ table' = TableOf[args] /\ store' = EmptyStore(table')
    BY <1>1 DEF Create, TableOf
  <2>2. schema'.args = args
    BY <2>1
  <2>3. Sized(TableOf[args])
    BY <1>1, DeclaredHolds DEF Create, Accepts
  <2>4. Valued(EmptyStore(TableOf[args]), TableOf[args])
    BY EmptyHasValues DEF Valued
  <2> QED
    BY <2>1, <2>2, <2>3, <2>4 DEF ValuesInv
<1>2. CASE Connect
  <2>1. schema # Absent /\ Accepts(schema.args)
    BY <1>2 DEF Connect, IInv, SchemaInv
  <2>2. table' = TableOf[schema.args] /\ schema' = schema /\ store' = store
    BY <1>2, <2>1 DEF Connect, TableOf, Accepts
  <2>3. Sized(table')
    BY <2>1, <2>2, DeclaredHolds
  <2> QED
    BY <2>2, <2>3 DEF ValuesInv
<1>3. CASE Disconnect
  BY <1>3 DEF Disconnect, ValuesInv
<1>4. CASE Destroy
  BY <1>4 DEF Destroy, ValuesInv
<1>5. ASSUME NEW new \in ForTable(NamesOf), Rename(new) PROVE ValuesInv'
  <2>1. /\ schema # Absent /\ schema' = [schema EXCEPT !.name = new] /\ store' = store
        /\ DOMAIN schema = {"name", "args"} /\ table' = table
    BY <1>5, SchemaIsThere DEF Rename
  <2>2. schema'.args = schema.args
    BY <2>1
  <2> QED
    BY <2>1, <2>2 DEF ValuesInv
<1>6. ASSUME NEW command \in ForTable(CommandsOf), HandleCommand(command[1], command[2])
      PROVE  ValuesInv'
  <2> DEFINE val == command[2]
             field == command[1]
  <2>1. table # Absent /\ command \in CommandsOf(TableOf[schema.args])
    BY <1>6 DEF ForTable
  <2>2. /\ table' = IF field = "oversampleSearch" THEN RescoreCommand(table, val)
                    ELSE DiskannCommand(table, field, val)
        /\ val >= 1
        /\ field = "oversampleSearch" \/ (table.index = "diskann" /\ field \in DiskannSettings)
        /\ schema' = schema /\ store' = store
    BY <1>6 DEF HandleCommand
  <2>3. table.index = "rescore" => val \in Int
    BY <2>1, GivenHolds
  <2>4. Sized(table)
    BY <2>1 DEF ValuesInv
  <2>7. "index" \in DOMAIN table
    BY <2>1 DEF IInv, TableInv, SameKind, KindFields
  <2> HIDE DEF val, field
  <2>5. Sized(table')
    <3>1. CASE field = "oversampleSearch"
      <4>1. CASE table.index = "rescore"
        <5>1. table' = [table EXCEPT !.oversampleSearch = val] /\ val \in Nat
          BY <2>2, <2>3, <3>1, <4>1 DEF RescoreCommand
        <5> QED
          BY <2>4, <4>1, <5>1 DEF Sized
      <4>2. CASE table.index # "rescore"
        BY <2>2, <2>4, <3>1, <4>2 DEF RescoreCommand
      <4> QED
        BY <4>1, <4>2
    <3>2. CASE field # "oversampleSearch"
      <4>1. /\ table' = [table EXCEPT ![field] = val] /\ table.index = "diskann"
            /\ field \in DiskannSettings
        BY <2>2, <3>2 DEF DiskannCommand
      <4>2. table'.index = "diskann" /\ DOMAIN table' = DOMAIN table
        BY <2>7, <4>1 DEF DiskannSettings
      <4> QED
        BY <2>4, <4>2 DEF Sized
    <3> QED
      BY <3>1, <3>2
  <2> QED
    BY <2>2, <2>5 DEF ValuesInv
<1>7. ASSUME NEW row \in ForTable(RowsOf), NEW id \in ForTable(KeysOf) \cup {None},
             InsertStatement(id, row)
      PROVE  ValuesInv'
  <2>1. /\ table # Absent /\ id \in KeysOf(TableOf[schema.args]) \cup {None}
        /\ row \in RowsOf(TableOf[schema.args])
    BY <1>7 DEF ForTable
  <2>2. /\ IsDeclared(table) /\ StoreOK(store, table) /\ (table.pk = "int" => id \in Int \cup {None})
        /\ ValuesFit(row, table)
    BY <2>1, SchemaIsThere, GivenHolds
  <2>3. Statement(InsertRow(store, table, id, row)) /\ InsertRow(store, table, id, row).ok
    BY <1>7 DEF InsertStatement, Statement
  <2>4. Valued(store, table) => Valued(InsertRow(store, table, id, row).store, table)
    BY <2>2, <2>3, InsertKeepsValues DEF Valued
  <2> QED
    BY <2>1, <2>3, <2>4, StatementKeepsValues
<1>8. ASSUME NEW row \in ForTable(RowsOf), NEW id \in ForTable(KeysOf), ReplaceStatement(id, row)
      PROVE  ValuesInv'
  <2>1. /\ table # Absent /\ id \in KeysOf(TableOf[schema.args])
        /\ row \in RowsOf(TableOf[schema.args])
    BY <1>8 DEF ForTable
  <2>2. /\ IsDeclared(table) /\ StoreOK(store, table) /\ (table.pk = "int" => id \in Int \cup {None})
        /\ ValuesFit(row, table)
    BY <2>1, SchemaIsThere, GivenHolds
  <2>3. Statement(ReplaceRow(store, table, id, row)) /\ ReplaceRow(store, table, id, row).ok
    BY <1>8 DEF ReplaceStatement, Statement
  <2>4. Valued(store, table) => Valued(ReplaceRow(store, table, id, row).store, table)
    BY <2>2, <2>3, ReplaceKeepsValues DEF Valued
  <2> QED
    BY <2>1, <2>3, <2>4, StatementKeepsValues
<1>9. ASSUME NEW id \in ForTable(KeysOf), NEW newId \in ForTable(KeysOf),
             NEW change \in ForTable(ChangesOf),
             UpdateByKey(id, newId, change) \/ UpdateByScan(id, newId, change)
      PROVE  ValuesInv'
  <2> DEFINE result == UpdateRow(store, table, id, newId, change)
  <2>1. table # Absent /\ Statement(result) /\ change \in ChangesOf(TableOf[schema.args])
    BY <1>9 DEF ForTable, UpdateByKey, UpdateByScan
  <2>2. IsDeclared(table) /\ StoreOK(store, table) /\ ChangeHolds(change, table)
    BY <2>1, SchemaIsThere, GivenHolds
  <2>3. Chunked(table) => RowidFromId(store, table, id) \in DOMAIN store.rowids
    <3>1. CASE UpdateByKey(id, newId, change)
      BY <2>2, <3>1, FoundIsThere DEF UpdateByKey, Found
    <3>2. CASE UpdateByScan(id, newId, change)
      BY <3>2 DEF UpdateByScan, HasId, RowidFromId
    <3> QED
      BY <1>9, <3>1, <3>2
  <2>4. Valued(store, table) => Valued(result.store, table)
    BY <2>2, <2>3, UpdateKeepsValues DEF Valued
  <2> HIDE DEF result
  <2> QED
    BY <2>1, <2>4, StatementKeepsValues
<1>10. ASSUME NEW id \in ForTable(KeysOf), DeleteStatement(id) PROVE ValuesInv'
  <2> DEFINE result == [ok |-> TRUE, store |-> DeleteRow(store, table, id)]
  <2>1. table # Absent /\ Statement(result) /\ result.store = DeleteRow(store, table, id)
    BY <1>10 DEF ForTable, DeleteStatement
  <2>2. IsDeclared(table) /\ StoreOK(store, table)
    BY <2>1, SchemaIsThere
  <2>3. Chunked(table) => RowidFromId(store, table, id) \in DOMAIN store.rowids
    BY <1>10, <2>2, FoundIsThere DEF DeleteStatement, Found
  <2> HIDE DEF result
  <2>4. Valued(store, table) => Valued(result.store, table)
    BY <2>1, <2>2, <2>3, DeleteKeepsValues DEF Valued
  <2> QED
    BY <2>1, <2>4, StatementKeepsValues
<1>11. CASE UNCHANGED vars
  BY <1>11 DEF vars, ValuesInv
<1> QED
  BY <1>1, <1>2, <1>3, <1>4, <1>5, <1>6, <1>7, <1>8, <1>9, <1>10, <1>11 DEF Next

-----------------------------------------------------------------------------
\* What is read of a row, and what its cell holds.
RowValued(s, t, r) ==
    /\ GetVector(s, t, r) \in Int
    /\ t.meta # "none" => /\ MetaValue(GetMetadata(s, t, r), t)
                          /\ Cell(s, r) = Written(GetMetadata(s, t, r), t)
    /\ t.meta = "text" => LongIs(s, r, GetMetadata(s, t, r))

LEMMA RowValues ==
    ASSUME NEW s, NEW t, IsDeclared(t), Chunked(t), StoreOK(s, t), ValuesOK(s, t),
           NEW r \in DOMAIN s.rowids
    PROVE  RowValued(s, t, r)
<1> DEFINE c == s.rowids[r].chunk
           o == s.rowids[r].offset
           v == GetMetadata(s, t, r)
<1>1. c \in DOMAIN s.chunks /\ o \in Offsets(t) /\ ColumnsShape(s, t) /\ ChunksShape(s, t)
  <2>1. Placed(s, t) /\ ColumnsShape(s, t) /\ ChunksShape(s, t)
    BY DEF StoreOK
  <2>2. c \in DOMAIN s.chunks /\ o \in s.chunks[c].validity
    BY <2>1 DEF Placed, RowPlaced
  <2> QED
    BY <2>1, <2>2 DEF ChunksShape
<1>2. GetVector(s, t, r) \in Int
  <2>1. CASE t.index = "flat"
    <3>1. Cells(s.vectors, Int) /\ c \in DOMAIN s.vectors /\ o \in DOMAIN s.vectors[c]
      BY <1>1, <2>1 DEF ValuesOK, ColumnsShape, Column
    <3>2. GetVector(s, t, r) = s.vectors[c][o]
      BY <2>1 DEF GetVector
    <3> QED
      BY <3>1, <3>2 DEF Cells
  <2>2. CASE t.index = "rescore"
    <3>1. r \in DOMAIN s.full /\ s.full[r] \in Int
      BY <2>2 DEF ValuesOK, StoreOK, Filled
    <3>2. GetVector(s, t, r) = s.full[r]
      BY <2>2 DEF GetVector
    <3> QED
      BY <3>1, <3>2
  <2> QED
    BY <2>1, <2>2 DEF IsDeclared, Chunked
<1>3. ASSUME t.meta # "none" PROVE Cell(s, r) = s.meta[c][o] /\ c \in DOMAIN s.meta /\ o \in DOMAIN s.meta[c]
  BY <1>1, <1>3 DEF Cell, ColumnsShape, Column
<1>4. CASE t.meta \in {"integer", "boolean"}
  <2>1. v = Cell(s, r) /\ Written(v, t) = v
    BY <1>4 DEF GetMetadata, Cell, Written
  <2>2. t.meta = "boolean" => Cell(s, r) \in {0, 1}
    BY <1>3, <1>4 DEF ValuesOK, Cells
  <2>3. MetaValue(v, t)
    BY <1>4, <2>1, <2>2 DEF MetaValue
  <2> QED
    BY <1>2, <1>4, <2>1, <2>3 DEF RowValued
<1>5. CASE t.meta = "text"
  <2>1. TextAgrees(s, r) /\ TextValues(s, t)
    BY <1>5 DEF StoreOK, Filled, ValuesOK
  <2>2. Cell(s, r) \in Views
    BY <1>3, <1>5, <2>1 DEF TextValues, Cells
  <2>3. PICK w \in Texts : Cell(s, r) = TextView(w)
    BY <2>2 DEF Views
  <2>4. Cell(s, r).n = Len(w) /\ Len(w) \in Nat /\ w \in Seq(Nat)
    BY <2>3 DEF TextView, Texts
  <2>5. CASE Cell(s, r).n > ViewLength
    <3>1. r \in DOMAIN s.text /\ TextView(s.text[r]) = Cell(s, r) /\ s.text[r] \in Texts
      BY <2>1, <2>5 DEF TextAgrees, TextValues
    <3>2. v = s.text[r]
      BY <1>5, <2>5 DEF GetMetadata, Cell
    <3>3. LongIs(s, r, v)
      BY <3>1, <3>2 DEF LongIs
    <3>4. Cell(s, r) = Written(v, t) /\ MetaValue(v, t)
      BY <1>5, <3>1, <3>2 DEF Written, MetaValue
    <3> QED
      BY <1>2, <1>5, <3>3, <3>4 DEF RowValued
  <2>6. CASE ~(Cell(s, r).n > ViewLength)
    <3>1. ~(Len(w) > ViewLength)
      BY <2>4, <2>6
    <3>2. v = w
      BY <1>5, <2>3, <2>4, <3>1, TextReads
    <3>3. Cell(s, r) = Written(v, t) /\ MetaValue(v, t)
      BY <1>5, <2>3, <3>2 DEF Written, MetaValue
    <3>4. LongIs(s, r, v)
      BY <3>1, <3>2 DEF LongIs
    <3> QED
      BY <1>2, <1>5, <3>3, <3>4 DEF RowValued
  <2> QED
    BY <2>5, <2>6
<1>6. CASE t.meta = "none"
  BY <1>2, <1>6 DEF RowValued
<1> QED
  BY <1>4, <1>5, <1>6 DEF IsDeclared

-----------------------------------------------------------------------------
\* q lists the members of X.
Spans(q, X) == q \in Seq(X) /\ \A x \in X : \E i \in 1..Len(q) : q[i] = x

LEMMA SpansBoth ==
    ASSUME NEW p, NEW q, NEW X, NEW Y, Spans(p, X), Spans(q, Y)
    PROVE  Spans(p \o q, X \cup Y) /\ \A i \in 1..Len(p) : i \in 1..Len(p \o q) /\ (p \o q)[i] = p[i]
<1> DEFINE Z == X \cup Y
<1>1. p \in Seq(Z) /\ q \in Seq(Z)
  <2>1. \A x \in X : x \in Z
    OBVIOUS
  <2>2. \A x \in Y : x \in Z
    OBVIOUS
  <2> HIDE DEF Z
  <2> QED
    BY <2>1, <2>2 DEF Spans
<1>2. \A x \in Z : x \in X \/ x \in Y
  OBVIOUS
<1> HIDE DEF Z
<1> DEFINE w == p \o q
<1>3. /\ w \in Seq(Z) /\ Len(w) = Len(p) + Len(q)
      /\ \A i \in 1..Len(p) : w[i] = p[i]
      /\ \A i \in 1..Len(q) : w[Len(p) + i] = q[i]
  BY <1>1
<1>4. Len(p) \in Nat /\ Len(q) \in Nat
  BY <1>1
<1> HIDE DEF w
<1>5. ASSUME NEW x \in Z PROVE \E i \in 1..Len(w) : w[i] = x
  <2>1. CASE x \in X
    <3>1. PICK i \in 1..Len(p) : p[i] = x
      BY <2>1 DEF Spans
    <3> QED
      BY <1>3, <1>4, <3>1
  <2>2. CASE x \in Y
    <3>1. PICK i \in 1..Len(q) : q[i] = x
      BY <2>2 DEF Spans
    <3>2. Len(p) + i \in 1..Len(w) /\ w[Len(p) + i] = x
      BY <1>3, <1>4, <3>1
    <3> QED
      BY <3>2
  <2> QED
    BY <1>2, <2>1, <2>2
<1>6. \A i \in 1..Len(p) : i \in 1..Len(w)
  BY <1>3, <1>4
<1> QED
  BY <1>3, <1>5, <1>6 DEF Spans, Z, w

\* A list that begins with a and b goes on doing so.
Leads(s, X, a, b) == Spans(s, X) /\ 1 \in 1..Len(s) /\ 2 \in 1..Len(s) /\ s[1] = a /\ s[2] = b

LEMMA LeadsOn ==
    ASSUME NEW p, NEW q, NEW X, NEW Y, NEW a, NEW b, Leads(p, X, a, b), Spans(q, Y)
    PROVE  Leads(p \o q, X \cup Y, a, b)
<1> DEFINE both == p \o q
           all == X \cup Y
<1>1. Spans(both, all) /\ \A i \in 1..Len(p) : i \in 1..Len(both) /\ both[i] = p[i]
  BY SpansBoth DEF Leads
<1> HIDE DEF both, all
<1>2. 1 \in 1..Len(p) /\ 2 \in 1..Len(p) /\ p[1] = a /\ p[2] = b
  BY DEF Leads
<1>3. 1 \in 1..Len(both) /\ 2 \in 1..Len(both) /\ both[1] = a /\ both[2] = b
  BY <1>1, <1>2
<1>4. Leads(both, all, a, b)
  BY <1>1, <1>3 DEF Leads
<1> QED
  BY <1>4 DEF both, all

LEMMA InOrderSpans ==
    ASSUME NEW n \in Nat, NEW C \in SUBSET (1..n)
    PROVE  Spans(InOrder(C), C)
<1>1. Chunklist(InOrder(C), Cardinality(C), C)
  BY ChunksInOrder
<1> DEFINE q == InOrder(C)
           m == Cardinality(C)
<1> HIDE DEF q, m
<1>2. m \in Nat /\ q \in [1..m -> C] /\ \A c \in C : \E i \in 1..m : q[i] = c
  BY <1>1 DEF Chunklist, q, m
<1>3. Len(q) = m /\ q \in Seq(C)
  BY <1>2
<1> QED
  BY <1>2, <1>3 DEF Spans, q

\* The constraints a plan hands over, of those at the positions S.
On(cs, S) == {cs[i] : i \in S}

\* The terms of a KNN query, each of which the plan takes.
TermsFit(cs, t) == /\ Len(cs) \in Nat
                  /\ \A i \in 1..Len(cs) : cs[i].usable /\ KnnTerm(cs[i], t)

LEMMA TermsAre ==
    ASSUME NEW cs, NEW t, TermsFit(cs, t)
    PROVE  /\ Usable(cs) = 1..Len(cs)
           /\ MatchTerms(cs) = {i \in 1..Len(cs) : cs[i].col = "vector"}
           /\ \A i \in LimitTerms(cs) \cup KTerms(cs) : /\ i \in 1..Len(cs)
                                                        /\ cs[i].col \in {"k", "none"}
                                                        /\ cs[i].value \in 0..MaxK
           /\ RowidInTerms(cs) = {i \in 1..Len(cs) : cs[i].col = "id"}
           /\ PartitionTerms(cs) = {i \in 1..Len(cs) : cs[i].col = "part"}
           /\ MetadataTerms(cs) = {i \in 1..Len(cs) : cs[i].col = "meta"}
           /\ DistanceTerms(cs) = {i \in 1..Len(cs) : cs[i].col = "distance"}
<1> DEFINE n == Len(cs)
<1>1. \A i \in 1..n : cs[i].usable /\ KnnTerm(cs[i], t)
  BY DEF TermsFit
<1> HIDE DEF n
<1>2. Usable(cs) = 1..n
  BY <1>1 DEF Usable, n
<1>3. MatchTerms(cs) = {i \in 1..n : cs[i].col = "vector"}
  BY <1>1, <1>2 DEF MatchTerms, TermsOn, KnnTerm
<1>4. ASSUME NEW i \in LimitTerms(cs) PROVE i \in 1..n /\ cs[i].col \in {"k", "none"} /\ cs[i].value \in 0..MaxK
  <2>1. i \in 1..n /\ cs[i].op = "LIMIT"
    BY <1>2 DEF LimitTerms
  <2>2. KnnTerm(cs[i], t)
    BY <1>1, <2>1
  <2> QED
    BY <2>1, <2>2 DEF KnnTerm, CompareOps, DistanceOps, MetaTerm
<1>5. ASSUME NEW i \in KTerms(cs) PROVE i \in 1..n /\ cs[i].col \in {"k", "none"} /\ cs[i].value \in 0..MaxK
  <2>1. i \in 1..n /\ cs[i].op = "EQ" /\ cs[i].col = "k"
    BY <1>2 DEF KTerms, TermsOn
  <2>2. KnnTerm(cs[i], t)
    BY <1>1, <2>1
  <2> QED
    BY <2>1, <2>2 DEF KnnTerm
<1>6. RowidInTerms(cs) = {i \in 1..n : cs[i].col = "id"}
  BY <1>1, <1>2 DEF RowidInTerms, TermsOn, KnnTerm
<1>7. PartitionTerms(cs) = {i \in 1..n : cs[i].col = "part"}
  BY <1>1, <1>2 DEF PartitionTerms, TermsOn, KnnTerm
<1>8. MetadataTerms(cs) = {i \in 1..n : cs[i].col = "meta"}
  BY <1>1, <1>2 DEF MetadataTerms, ConstraintsOn, KnnTerm, MetaTerm, CompareOps, NotOnColumns
<1>9. DistanceTerms(cs) = {i \in 1..n : cs[i].col = "distance"}
  BY <1>1, <1>2 DEF DistanceTerms, ConstraintsOn, KnnTerm, DistanceOps, NotOnColumns
<1> QED
  BY <1>2, <1>3, <1>4, <1>5, <1>6, <1>7, <1>8, <1>9 DEF n

LEMMA LargestIn ==
    ASSUME NEW n \in Nat, NEW S \in SUBSET (1..n), S # {}
    PROVE  Largest(S) \in S
<1>1. \E x \in S : \A y \in S : y <= x
  BY LargestExists
<1> QED
  BY <1>1 DEF Largest

\* The argv of a KNN plan: the vector, the k, and every other term.
Argv(args, cs) ==
    /\ cs[args[1]] = cs[Largest(MatchTerms(cs))]
    /\ cs[args[2]].value \in 0..MaxK
    /\ cs[args[1]].col = "vector"
    /\ Chosen(cs, args, RowidInTerms(cs)) = On(cs, RowidInTerms(cs))
    /\ Chosen(cs, args, PartitionTerms(cs)) = On(cs, PartitionTerms(cs))
    /\ Chosen(cs, args, MetadataTerms(cs)) = On(cs, MetadataTerms(cs))
    /\ Chosen(cs, args, DistanceTerms(cs)) = On(cs, DistanceTerms(cs))

LEMMA ChosenAre ==
    ASSUME NEW cs, NEW args, NEW X, Spans(args, X), NEW S \in SUBSET X
    PROVE  Chosen(cs, args, S) = On(cs, S)
<1>1. \A i \in 1..Len(args) : args[i] \in X
  BY DEF Spans
<1>2. ASSUME NEW x \in Chosen(cs, args, S) PROVE x \in On(cs, S)
  BY <1>2 DEF Chosen, On
<1>3. ASSUME NEW x \in On(cs, S) PROVE x \in Chosen(cs, args, S)
  <2>1. PICK j \in S : x = cs[j]
    BY <1>3 DEF On
  <2>2. PICK i \in 1..Len(args) : args[i] = j
    BY <2>1 DEF Spans
  <2>3. i \in {n \in 1..Len(args) : args[n] \in S} /\ x = cs[args[i]]
    BY <2>1, <2>2
  <2> QED
    BY <2>3 DEF Chosen
<1> QED
  BY <1>2, <1>3

LEMMA ArgvIs ==
    ASSUME NEW cs, NEW t, TermsFit(cs, t), MatchTerms(cs) # {},
           (LimitTerms(cs) = {}) # (KTerms(cs) = {})
    PROVE  Argv(KnnArgs(cs), cs)
<1> DEFINE n == Len(cs)
           M == MatchTerms(cs)
           L == LimitTerms(cs) \cup KTerms(cs)
           R == RowidInTerms(cs)
           P == PartitionTerms(cs)
           Q == MetadataTerms(cs)
           D == DistanceTerms(cs)
           a == Largest(M)
           b == Largest(L)
           two == <<a, b>>
           pair == {a, b}
           s1 == two \o InOrder(R)
           s2 == s1 \o InOrder(P)
           s3 == s2 \o InOrder(Q)
           args == s3 \o InOrder(D)
<1>1. n \in Nat
  BY DEF TermsFit
<1>2. KnnArgs(cs) = args
  BY DEF KnnArgs
<1>3. M # {} /\ L # {}
  OBVIOUS
<1>4. M \in SUBSET (1..n) /\ L \in SUBSET (1..n) /\ R \in SUBSET (1..n) /\ P \in SUBSET (1..n)
      /\ Q \in SUBSET (1..n) /\ D \in SUBSET (1..n)
  BY TermsAre
<1>t. /\ \A i \in M : cs[i].col = "vector"
      /\ \A i \in L : cs[i].value \in 0..MaxK
  BY TermsAre
<1> HIDE DEF n, M, L, R, P, Q, D
<1>5. a \in M /\ b \in L
  BY <1>1, <1>3, <1>4, LargestIn
<1>o. Spans(InOrder(R), R) /\ Spans(InOrder(P), P) /\ Spans(InOrder(Q), Q) /\ Spans(InOrder(D), D)
  BY <1>1, <1>4, InOrderSpans
<1> HIDE DEF a, b
<1>6. Spans(two, pair) /\ Len(two) = 2 /\ two[1] = a /\ two[2] = b
  <2>1. Len(two) = 2 /\ two[1] = a /\ two[2] = b /\ two \in Seq(pair)
    OBVIOUS
  <2>2. 1 \in 1..Len(two) /\ 2 \in 1..Len(two)
    BY <2>1
  <2>3. \A x \in pair : x = a \/ x = b
    OBVIOUS
  <2> HIDE DEF two, pair
  <2> QED
    BY <2>1, <2>2, <2>3 DEF Spans
<1>i. 1 \in 1..Len(two) /\ 2 \in 1..Len(two)
  BY <1>6
<1> DEFINE X1 == pair \cup R
           X2 == X1 \cup P
           X3 == X2 \cup Q
           X4 == X3 \cup D
           r == InOrder(R)
           p == InOrder(P)
           q == InOrder(Q)
           d == InOrder(D)
<1>s. R \in SUBSET X4 /\ P \in SUBSET X4 /\ Q \in SUBSET X4 /\ D \in SUBSET X4
  OBVIOUS
<1> HIDE DEF two, pair, r, p, q, d
<1>v. Spans(r, R) /\ Spans(p, P) /\ Spans(q, Q) /\ Spans(d, D)
  BY <1>o DEF r, p, q, d
<1>7. Leads(two, pair, a, b)
  BY <1>6, <1>i DEF Leads
<1>8. Leads(s1, X1, a, b)
  BY <1>7, <1>v, LeadsOn DEF r
<1> HIDE DEF s1, X1
<1>9. Leads(s2, X2, a, b)
  BY <1>8, <1>v, LeadsOn DEF p
<1> HIDE DEF s2, X2
<1>10. Leads(s3, X3, a, b)
  BY <1>9, <1>v, LeadsOn DEF q
<1> HIDE DEF s3, X3
<1>10a. Leads(args, X4, a, b)
  BY <1>10, <1>v, LeadsOn DEF d
<1>10b. Spans(args, X4) /\ args[1] = a /\ args[2] = b
  BY <1>10a DEF Leads
<1> HIDE DEF args, X4
<1>11. /\ Chosen(cs, args, R) = On(cs, R) /\ Chosen(cs, args, P) = On(cs, P)
       /\ Chosen(cs, args, Q) = On(cs, Q) /\ Chosen(cs, args, D) = On(cs, D)
  BY <1>10b, <1>s, ChosenAre
<1>12. /\ cs[args[1]] = cs[Largest(M)] /\ cs[args[2]].value \in 0..MaxK /\ cs[args[1]].col = "vector"
  BY <1>5, <1>10b, <1>t DEF a
<1> QED
  BY <1>2, <1>11, <1>12 DEF Argv, M, R, P, Q, D

-----------------------------------------------------------------------------
\* The rows of a table that satisfy every term, by rowid.
Fulfills(s, t, cs, query, r) ==
    \A i \in 1..Len(cs) : Satisfies(t, IdOfRowid(s, t, r), Reads(s, t, r), query, cs[i])
Asking(s, t, cs) ==
    /\ TermsFit(cs, t)
    /\ Cardinality(RowidInTerms(cs)) <= 1
    /\ \A i \in 1..Len(cs) : Answerable(t, Rows(s, t), cs[i])
\* What the scan is given of a query, and the test it makes of a row.
Qualifies(s, t, cs, dist, r) ==
    RowPasses(s, t, On(cs, PartitionTerms(cs)), On(cs, RowidInTerms(cs)),
              On(cs, MetadataTerms(cs)), On(cs, DistanceTerms(cs)), dist, r)
DistancesAt(s, t, dist, query, r) ==
    t.index = "flat" => dist[s.rowids[r].chunk][s.rowids[r].offset] = Distance(GetVector(s, t, r), query)

LEMMA PartitionPasses ==
    ASSUME NEW s, NEW t, NEW cs, Asking(s, t, cs), NEW query, NEW r \in DOMAIN s.rowids
    PROVE  InPartition(s, On(cs, PartitionTerms(cs)), s.rowids[r].chunk)
             <=> \A i \in PartitionTerms(cs) :
                    Satisfies(t, IdOfRowid(s, t, r), Reads(s, t, r), query, cs[i])
<1> DEFINE part == s.chunks[s.rowids[r].chunk].part
           S == PartitionTerms(cs)
<1>1. S = {i \in 1..Len(cs) : cs[i].col = "part"} /\ \A i \in 1..Len(cs) : KnnTerm(cs[i], t)
  BY TermsAre DEF Asking, TermsFit
<1>2. ASSUME NEW i \in S PROVE t.part /\ cs[i].col = "part"
  BY <1>1 DEF KnnTerm
<1>3. ASSUME NEW i \in S
      PROVE  Satisfies(t, IdOfRowid(s, t, r), Reads(s, t, r), query, cs[i])
               <=> part # None /\ Holds(cs[i].op, part - cs[i].value)
  <2>1. Reads(s, t, r).part = part
    BY <1>2 DEF Reads, GetPartition
  <2> QED
    BY <1>2, <2>1 DEF Satisfies
<1>4. InPartition(s, On(cs, S), s.rowids[r].chunk) <=> \A i \in S : part # None /\ Holds(cs[i].op, part - cs[i].value)
  <2> HIDE DEF S
  <2> QED
    BY DEF InPartition, On
<1> HIDE DEF S, part
<1> QED
  BY <1>3, <1>4 DEF S

LEMMA DistancePasses ==
    ASSUME NEW s, NEW t, NEW cs, Asking(s, t, cs), NEW query, NEW r \in DOMAIN s.rowids,
           NEW dist, DistancesAt(s, t, dist, query, r)
    PROVE  WithinDistance(On(cs, DistanceTerms(cs)), dist[s.rowids[r].chunk][s.rowids[r].offset])
             <=> \A i \in DistanceTerms(cs) :
                    Satisfies(t, IdOfRowid(s, t, r), Reads(s, t, r), query, cs[i])
<1> DEFINE d == dist[s.rowids[r].chunk][s.rowids[r].offset]
           S == DistanceTerms(cs)
<1>1. S = {i \in 1..Len(cs) : cs[i].col = "distance"} /\ \A i \in 1..Len(cs) : KnnTerm(cs[i], t)
  BY TermsAre DEF Asking, TermsFit
<1>2. ASSUME NEW i \in S PROVE t.index = "flat" /\ cs[i].col = "distance"
  BY <1>1 DEF KnnTerm
<1>3. ASSUME NEW i \in S
      PROVE  Satisfies(t, IdOfRowid(s, t, r), Reads(s, t, r), query, cs[i])
               <=> Holds(cs[i].op, d - cs[i].value)
  <2>1. d = Distance(Reads(s, t, r).vector, query)
    BY <1>2 DEF Reads, DistancesAt
  <2> QED
    BY <1>2, <2>1 DEF Satisfies
<1>4. WithinDistance(On(cs, S), d) <=> \A i \in S : Holds(cs[i].op, d - cs[i].value)
  <2> HIDE DEF S, d
  <2> QED
    BY DEF WithinDistance, On
<1> HIDE DEF S, d
<1> QED
  BY <1>3, <1>4 DEF S, d

LEMMA RowidPasses ==
    ASSUME NEW s, NEW t, StoreOK(s, t), NEW cs, Asking(s, t, cs), NEW query, NEW r \in DOMAIN s.rowids
    PROVE  (On(cs, RowidInTerms(cs)) # {} => r \in RowidsIn(s, t, On(cs, RowidInTerms(cs))))
             <=> \A i \in RowidInTerms(cs) :
                    Satisfies(t, IdOfRowid(s, t, r), Reads(s, t, r), query, cs[i])
<1> DEFINE S == RowidInTerms(cs)
           id == IdOfRowid(s, t, r)
           C == On(cs, S)
<1>1. S = {i \in 1..Len(cs) : cs[i].col = "id"} /\ \A i \in 1..Len(cs) : KnnTerm(cs[i], t)
  BY TermsAre DEF Asking, TermsFit
<1>2. ASSUME NEW i \in S PROVE cs[i].col = "id" /\ cs[i].isIn /\ i \in 1..Len(cs)
  BY <1>1 DEF KnnTerm
<1>3. ASSUME NEW i \in S, NEW j \in S PROVE i = j
  <2>1. Len(cs) \in Nat /\ Cardinality(S) <= 1
    BY DEF Asking, TermsFit
  <2>2. S \in SUBSET (1..Len(cs))
    BY <1>1
  <2> HIDE DEF S
  <2>3. IsFiniteSet(1..Len(cs))
    BY <2>1, FS_Interval
  <2>4. IsFiniteSet(S) /\ IsFiniteSet({i, j})
    BY <2>2, <2>3, FS_Subset
  <2>5. Cardinality({i, j}) <= Cardinality(S)
    BY <2>4, FS_Subset
  <2>6. i # j => Cardinality({i, j}) = 2
    <3> SUFFICES ASSUME i # j PROVE Cardinality({i, j}) = 2
      OBVIOUS
    <3>1. IsFiniteSet({i}) /\ Cardinality({i}) = 1 /\ j \notin {i} /\ {i} \cup {j} = {i, j}
      BY FS_Singleton
    <3>2. Cardinality({i} \cup {j}) = Cardinality({i}) + 1
      BY <3>1, FS_AddElement
    <3> QED
      BY <3>1, <3>2
  <2>7. Cardinality(S) \in Nat
    BY <2>4, FS_CardinalityType
  <2> QED
    BY <2>1, <2>5, <2>6, <2>7
<1>4. CASE S = {}
  <2>1. C = {}
    BY <1>4 DEF On
  <2> QED
    BY <1>4, <2>1
<1>5. CASE S # {}
  <2>1. PICK i \in S : S = {i}
    BY <1>3, <1>5
  <2>2. C = {cs[i]}
    BY <2>1 DEF On
  <2> DEFINE ids == cs[i].value
             hits == {RowidFromId(s, t, x) : x \in ids}
  <2>3. RowidsIn(s, t, C) = hits
    BY <2>2 DEF RowidsIn
  <2>4. Satisfies(t, id, Reads(s, t, r), query, cs[i]) <=> id \in ids
    BY <1>2 DEF Satisfies
  <2>5. r \in hits <=> id \in ids
    <3>1. id \in ids => r \in hits
      <4>1. RowidFromId(s, t, id) = r
        BY KeyOfRow DEF StoreOK
      <4> QED
        BY <4>1
    <3>2. ASSUME NEW x \in ids, r = RowidFromId(s, t, x) PROVE x = id
      <4>1. CASE t.pk = "text"
        <5>1. ids \in SUBSET DOMAIN Rows(s, t)
          <6>1. Answerable(t, Rows(s, t), cs[i])
            BY <1>2 DEF Asking
          <6> QED
            BY <1>2, <4>1, <6>1 DEF Answerable
        <5>2. KeysDiffer(s, t)
          BY DEF StoreOK
        <5>3. PICK q \in DOMAIN s.rowids : x = IdOfRowid(s, t, q) /\ RowidFromId(s, t, x) = q
          BY <5>1, <5>2, ScannedKey
        <5> QED
          BY <3>2, <5>3
      <4>2. CASE t.pk # "text"
        BY <3>2, <4>2 DEF RowidFromId, IdOfRowid
      <4> QED
        BY <4>1, <4>2
    <3> QED
      BY <3>1, <3>2
  <2> HIDE DEF hits, ids, id, C
  <2>6. C # {}
    BY <2>2
  <2>7. (C # {} => r \in RowidsIn(s, t, C)) <=> id \in ids
    BY <2>3, <2>5, <2>6
  <2>8. (\A j \in S : Satisfies(t, id, Reads(s, t, r), query, cs[j])) <=> id \in ids
    <3> HIDE DEF S
    <3> QED
      BY <2>1, <2>4
  <2> QED
    BY <2>7, <2>8 DEF id, C
<1> QED
  BY <1>4, <1>5

LEMMA MetadataPasses ==
    ASSUME NEW s, NEW t, IsDeclared(t), Chunked(t), StoreOK(s, t), ValuesOK(s, t),
           NEW cs, Asking(s, t, cs), NEW query, NEW r \in DOMAIN s.rowids,
           NEW c, NEW o, c = s.rowids[r].chunk, o = s.rowids[r].offset
    PROVE  /\ \A i \in MetadataTerms(cs) : MetadataVerdict(s, t, c, o, cs[i]) \in {"keep", "drop"}
           /\ (\A m \in On(cs, MetadataTerms(cs)) : MetadataVerdict(s, t, c, o, m) = "keep")
                <=> \A i \in MetadataTerms(cs) :
                       Satisfies(t, IdOfRowid(s, t, r), Reads(s, t, r), query, cs[i])
<1> DEFINE S == MetadataTerms(cs)
           v == GetMetadata(s, t, r)
           id == IdOfRowid(s, t, r)
<1>1. S = {i \in 1..Len(cs) : cs[i].col = "meta"} /\ \A i \in 1..Len(cs) : KnnTerm(cs[i], t)
  BY TermsAre DEF Asking, TermsFit
<1>2. ASSUME NEW i \in S PROVE MetaTerm(cs[i], t) /\ cs[i].col = "meta" /\ i \in 1..Len(cs)
  BY <1>1 DEF KnnTerm
<1>3. RowValued(s, t, r)
  BY RowValues
<1>4. s.chunks[c].rowids[o] = r
  BY DEF StoreOK, Placed, RowPlaced
<1>5. ASSUME NEW i \in S PROVE Decided(v, t, cs[i])
  <2>1. Answerable(t, Rows(s, t), cs[i])
    BY <1>2 DEF Asking
  <2>2. Scanned(Rows(s, t), s, t)
    BY RowsAre DEF StoreOK
  <2>3. id \in DOMAIN Rows(s, t) /\ Rows(s, t)[id] = Reads(s, t, r)
    BY <2>2 DEF Scanned
  <2>4. Rows(s, t)[id].meta = v
    BY <2>3 DEF Reads
  <2> HIDE DEF id, v
  <2> QED
    BY <1>2, <2>1, <2>3, <2>4 DEF Answerable, Decided
<1>6. ASSUME NEW i \in S
      PROVE  MetadataVerdict(s, t, c, o, cs[i]) = Verdict(MetaSatisfies(t, v, cs[i]))
  <2>1. MetaTerm(cs[i], t) /\ t.meta # "none"
    BY <1>2 DEF MetaTerm
  <2>2. MetaValue(v, t) /\ s.meta[c][o] = Written(v, t)
    BY <1>3, <2>1 DEF RowValued, Cell
  <2>3. t.meta = "text" => LongIs(s, s.chunks[c].rowids[o], v)
    BY <1>3, <1>4 DEF RowValued
  <2>4. Decided(v, t, cs[i])
    BY <1>5
  <2> HIDE DEF v, S
  <2> QED
    BY <2>1, <2>2, <2>3, <2>4, MetadataVerdictIs
<1>7. ASSUME NEW i \in S
      PROVE  Satisfies(t, id, Reads(s, t, r), query, cs[i]) <=> MetaSatisfies(t, v, cs[i])
  <2>1. Reads(s, t, r).meta = v
    BY DEF Reads
  <2> QED
    BY <1>2, <2>1 DEF Satisfies
<1> HIDE DEF S, v, id
<1>8. ASSUME NEW i \in S
      PROVE  /\ MetadataVerdict(s, t, c, o, cs[i]) \in {"keep", "drop"}
             /\ MetadataVerdict(s, t, c, o, cs[i]) = "keep"
                  <=> Satisfies(t, id, Reads(s, t, r), query, cs[i])
  BY <1>6, <1>7 DEF Verdict
<1>9. (\A m \in On(cs, S) : MetadataVerdict(s, t, c, o, m) = "keep")
        <=> \A i \in S : MetadataVerdict(s, t, c, o, cs[i]) = "keep"
  BY DEF On
<1> QED
  BY <1>8, <1>9 DEF S, id

\* The scan passes the rows that satisfy the query.
LEMMA WantedRow ==
    ASSUME NEW s, NEW t, IsDeclared(t), Chunked(t), StoreOK(s, t), ValuesOK(s, t),
           NEW cs, Asking(s, t, cs), NEW query, NEW r \in DOMAIN s.rowids,
           NEW dist, DistancesAt(s, t, dist, query, r)
    PROVE  Qualifies(s, t, cs, dist, r) <=> Fulfills(s, t, cs, query, r)
<1> DEFINE c == s.rowids[r].chunk
           o == s.rowids[r].offset
           Sat(i) == Satisfies(t, IdOfRowid(s, t, r), Reads(s, t, r), query, cs[i])
           P == PartitionTerms(cs)
           R == RowidInTerms(cs)
           M == MetadataTerms(cs)
           D == DistanceTerms(cs)
<1>1. InPartition(s, On(cs, P), c) <=> \A i \in P : Sat(i)
  BY PartitionPasses
<1>2. WithinDistance(On(cs, D), dist[c][o]) <=> \A i \in D : Sat(i)
  BY DistancePasses
<1>3. (On(cs, R) # {} => r \in RowidsIn(s, t, On(cs, R))) <=> \A i \in R : Sat(i)
  BY RowidPasses
<1>4. (\A m \in On(cs, M) : MetadataVerdict(s, t, c, o, m) = "keep") <=> \A i \in M : Sat(i)
  BY MetadataPasses
<1>5. s.chunks[c].rowids[o] = r
  BY DEF StoreOK, Placed, RowPlaced
<1>6. ASSUME NEW i \in 1..Len(cs) PROVE i \in P \cup R \cup M \cup D \/ Sat(i)
  <2>1. KnnTerm(cs[i], t)
    BY DEF Asking, TermsFit
  <2>2. CASE cs[i].col \in {"id", "part", "meta", "distance"}
    <3>1. TermsFit(cs, t)
      BY DEF Asking
    <3> QED
      BY <2>2, <3>1, TermsAre
  <2>3. CASE cs[i].col \in {"vector", "k", "none"}
    BY <2>3 DEF Satisfies
  <2> QED
    BY <2>1, <2>2, <2>3 DEF KnnTerm
<1>7. P \cup R \cup M \cup D \in SUBSET (1..Len(cs))
  <2>1. TermsFit(cs, t)
    BY DEF Asking
  <2> QED
    BY <2>1, TermsAre
<1> HIDE DEF P, R, M, D, Sat
<1>8. Fulfills(s, t, cs, query, r)
        <=> (\A i \in P : Sat(i)) /\ (\A i \in R : Sat(i)) /\ (\A i \in M : Sat(i)) /\ (\A i \in D : Sat(i))
  BY <1>6, <1>7 DEF Fulfills, Sat
<1> HIDE DEF c, o
<1>9. SlotPasses(s, t, On(cs, R), On(cs, M), On(cs, D), dist, c, o)
        <=> (\A i \in R : Sat(i)) /\ (\A i \in M : Sat(i)) /\ (\A i \in D : Sat(i))
  BY <1>2, <1>3, <1>4, <1>5, Zenon DEF SlotPasses
<1>10. Qualifies(s, t, cs, dist, r)
         <=> InPartition(s, On(cs, P), c) /\ SlotPasses(s, t, On(cs, R), On(cs, M), On(cs, D), dist, c, o)
  BY Zenon DEF Qualifies, RowPasses, P, R, M, D, c, o
<1> QED
  BY <1>1, <1>8, <1>9, <1>10, Zenon

-----------------------------------------------------------------------------
\* A list of different members of a finite set.
LEMMA ListedOnce ==
    ASSUME NEW W, IsFiniteSet(W), NEW n \in Nat, NEW f \in [1..n -> W],
           \A i, j \in 1..n : f[i] = f[j] => i = j
    PROVE  /\ n <= Cardinality(W)
           /\ n = Cardinality(W) <=> \A x \in W : \E i \in 1..n : f[i] = x
<1>1. f \in Injection(1..n, W)
  BY DEF Injection, IsInjective
<1>2. IsFiniteSet(1..n) /\ Cardinality(1..n) = n
  BY FS_Interval
<1>3. n <= Cardinality(W) /\ (n = Cardinality(W) <=> f \in Surjection(1..n, W))
  BY <1>1, <1>2, FS_Injection
<1>4. f \in Surjection(1..n, W) <=> \A x \in W : \E i \in 1..n : f[i] = x
  BY DEF Surjection
<1> QED
  BY <1>3, <1>4

\* A row has a slot of its own, and the slots are finite in number.
LEMMA RowsAreFinite ==
    ASSUME NEW s, NEW t, IsDeclared(t), Chunked(t), StoreOK(s, t)
    PROVE  IsFiniteSet(DOMAIN s.rowids)
<1> DEFINE R == DOMAIN s.rowids
           C == 1..s.chunkSeq
           O == 0..(t.chunkSize - 1)
           f == [r \in R |-> <<s.rowids[r].chunk, s.rowids[r].offset>>]
           P == C \X O
<1>1. IsFiniteSet(P)
  <2>1. s.chunkSeq \in Int /\ t.chunkSize - 1 \in Int
    BY DEF StoreOK, RowsShape, IsDeclared
  <2>2. IsFiniteSet(C) /\ IsFiniteSet(O)
    BY <2>1, FS_Interval
  <2> HIDE DEF C, O
  <2> QED
    BY <2>2, FS_Product
<1>2. ASSUME NEW r \in R PROVE f[r] \in P
  <2>1. RowPlaced(s, r) /\ ChunksShape(s, t)
    BY DEF StoreOK, Placed
  <2>2. s.rowids[r].chunk \in C /\ s.rowids[r].offset \in O
    BY <2>1 DEF RowPlaced, ChunksShape, Offsets
  <2> HIDE DEF C, O
  <2> QED
    BY <2>2
<1>3. ASSUME NEW r \in R, NEW q \in R, f[r] = f[q] PROVE r = q
  <2>1. RowPlaced(s, r) /\ RowPlaced(s, q)
    BY DEF StoreOK, Placed
  <2>2. s.rowids[r].chunk = s.rowids[q].chunk /\ s.rowids[r].offset = s.rowids[q].offset
    BY <1>3
  <2> QED
    BY <2>1, <2>2 DEF RowPlaced
<1>4. DOMAIN f = R /\ f = [r \in R |-> f[r]]
  OBVIOUS
<1> HIDE DEF f, P, R
<1>5. f \in Injection(R, P)
  BY <1>2, <1>3, <1>4 DEF Injection, IsInjective
<1> QED
  BY <1>1, <1>5, FS_Injection DEF R

\* The nearest rows, by rowid.
Answered(a, n, W, D, k, every) ==
    /\ DOMAIN a = 1..n
    /\ \A i \in 1..n : a[i].rowid \in W /\ a[i] = [rowid |-> a[i].rowid, distance |-> D[a[i].rowid]]
    /\ \A i, j \in 1..n : a[i].rowid = a[j].rowid => i = j
    /\ \A i, j \in 1..n : i < j => a[i].distance <= a[j].distance
    /\ n = AtMost(k, Cardinality(W))
    /\ every => \A r \in W : \/ \E i \in 1..n : a[i].rowid = r
                             \/ \A i \in 1..n : a[i].distance <= D[r]
DistancesOf(s, t, query) == [r \in DOMAIN s.rowids |-> Distance(GetVector(s, t, r), query)]
Wanted(s, t, cs, query) == {r \in DOMAIN s.rowids : Fulfills(s, t, cs, query, r)}

LEMMA MatchingAre ==
    ASSUME NEW s, NEW t, StoreOK(s, t), NEW cs, NEW query
    PROVE  Matching(t, Rows(s, t), query, cs) = {IdOfRowid(s, t, r) : r \in Wanted(s, t, cs, query)}
<1> DEFINE rows == Rows(s, t)
           M == Matching(t, rows, query, cs)
           W == Wanted(s, t, cs, query)
<1>1. KeysDiffer(s, t)
  BY DEF StoreOK
<1>2. Scanned(rows, s, t)
  BY <1>1, RowsAre
<1>3. ASSUME NEW id \in M PROVE \E r \in W : id = IdOfRowid(s, t, r)
  <2>1. id \in DOMAIN rows /\ \A i \in 1..Len(cs) : Satisfies(t, id, rows[id], query, cs[i])
    BY <1>3 DEF Matching
  <2>2. PICK r \in DOMAIN s.rowids : id = IdOfRowid(s, t, r) /\ rows[id] = Reads(s, t, r)
    BY <1>1, <2>1, ScannedKey
  <2> HIDE DEF rows
  <2> QED
    BY <2>1, <2>2 DEF Wanted, Fulfills
<1>4. ASSUME NEW r \in W PROVE IdOfRowid(s, t, r) \in M
  <2>1. r \in DOMAIN s.rowids /\ Fulfills(s, t, cs, query, r)
    BY <1>4 DEF Wanted
  <2> HIDE DEF rows
  <2>2. IdOfRowid(s, t, r) \in DOMAIN rows /\ rows[IdOfRowid(s, t, r)] = Reads(s, t, r)
    BY <1>2, <2>1 DEF Scanned
  <2> QED
    BY <2>1, <2>2 DEF Matching, Fulfills
<1> HIDE DEF M, W
<1> QED
  BY <1>3, <1>4 DEF M, W, rows

LEMMA IdsCount ==
    ASSUME NEW s, NEW t, IsDeclared(t), Chunked(t), StoreOK(s, t), NEW W \in SUBSET DOMAIN s.rowids
    PROVE  Cardinality({IdOfRowid(s, t, r) : r \in W}) = Cardinality(W)
<1> DEFINE ids == {IdOfRowid(s, t, r) : r \in W}
           f == [r \in W |-> IdOfRowid(s, t, r)]
<1>1. IsFiniteSet(W)
  BY RowsAreFinite, FS_Subset
<1>2. f \in [W -> ids] /\ \A x \in ids : \E r \in W : f[r] = x
  OBVIOUS
<1>3. \A r, q \in W : f[r] = f[q] => r = q
  <2>1. Scanned(Rows(s, t), s, t)
    BY RowsAre DEF StoreOK
  <2> QED
    BY <2>1 DEF Scanned
<1> HIDE DEF f, ids
<1>4. f \in Surjection(W, ids)
  BY <1>2 DEF Surjection
<1>5. f \in Injection(W, ids)
  BY <1>2, <1>3 DEF Injection, IsInjective
<1> QED
  BY <1>1, <1>4, <1>5, FS_Surjection DEF ids

LEMMA AnsweredIsNearest ==
    ASSUME NEW s, NEW t, IsDeclared(t), Chunked(t), StoreOK(s, t), NEW query, NEW k, NEW every,
           NEW n \in Nat, NEW W \in SUBSET DOMAIN s.rowids, NEW a,
           Answered(a, n, W, DistancesOf(s, t, query), k, every)
    PROVE  IsNearest(WithIds(s, t, a), Rows(s, t), {IdOfRowid(s, t, r) : r \in W}, query, k, every)
<1> DEFINE rows == Rows(s, t)
           dist == DistancesOf(s, t, query)
           matching == {IdOfRowid(s, t, r) : r \in W}
           answer == WithIds(s, t, a)
           D(id) == Distance(rows[id].vector, query)
           ids == [i \in 1..Len(answer) |-> answer[i].id]
<1>1. Len(a) = n
  BY DEF Answered
<1>2. answer = [i \in 1..n |-> [id |-> IdOfRowid(s, t, a[i].rowid), distance |-> a[i].distance]]
  BY <1>1 DEF WithIds
<1> HIDE DEF answer
<1>3. Len(answer) = n
  BY <1>2
<1>4. DOMAIN ids = 1..n /\ \A i \in 1..n : ids[i] = IdOfRowid(s, t, a[i].rowid) /\ answer[i].distance = a[i].distance
  BY <1>2, <1>3
<1>5. Scanned(rows, s, t)
  BY RowsAre DEF StoreOK
<1> HIDE DEF ids, rows, dist
<1>6. ASSUME NEW r \in W PROVE D(IdOfRowid(s, t, r)) = dist[r]
  <2>1. r \in DOMAIN s.rowids
    OBVIOUS
  <2>2. rows[IdOfRowid(s, t, r)] = Reads(s, t, r)
    BY <1>5, <2>1 DEF Scanned
  <2>3. rows[IdOfRowid(s, t, r)].vector = GetVector(s, t, r)
    BY <2>2 DEF Reads
  <2> QED
    BY <2>1, <2>3 DEF dist, DistancesOf
<1>7. ASSUME NEW r \in W, NEW q \in W, IdOfRowid(s, t, r) = IdOfRowid(s, t, q) PROVE r = q
  BY <1>5, <1>7 DEF Scanned
<1>8. Cardinality(matching) = Cardinality(W)
  BY IdsCount
<1>b. \A i \in 1..n : a[i].rowid \in W /\ a[i] = [rowid |-> a[i].rowid, distance |-> dist[a[i].rowid]]
  BY DEF Answered, dist
<1>a. /\ \A i \in 1..n : a[i].rowid \in W /\ a[i].distance = dist[a[i].rowid]
      /\ \A i, j \in 1..n : a[i].rowid = a[j].rowid => i = j
      /\ \A i, j \in 1..n : i < j => a[i].distance <= a[j].distance
      /\ n = AtMost(k, Cardinality(W))
      /\ every => \A r \in W : \/ \E i \in 1..n : a[i].rowid = r
                               \/ \A i \in 1..n : a[i].distance <= dist[r]
  BY <1>b DEF Answered, dist
<1>9. \A i \in 1..n : D(ids[i]) = a[i].distance /\ ids[i] \in matching
  BY <1>4, <1>6, <1>a
<1>10. Len(answer) = AtMost(k, Cardinality(matching))
  BY <1>3, <1>8, <1>a
<1>11. Range(ids) \subseteq matching
  BY <1>4, <1>9 DEF Range
<1>12. IsInjective(ids)
  <2> SUFFICES ASSUME NEW i \in 1..n, NEW j \in 1..n, ids[i] = ids[j] PROVE i = j
    BY <1>4 DEF IsInjective
  <2>1. a[i].rowid \in W /\ a[j].rowid \in W
    BY <1>a
  <2>2. IdOfRowid(s, t, a[i].rowid) = IdOfRowid(s, t, a[j].rowid)
    BY <1>4
  <2>3. a[i].rowid = a[j].rowid
    BY <1>7, <2>1, <2>2
  <2> QED
    BY <1>a, <2>3
<1>13. \A i \in 1..n : answer[i].distance = D(ids[i])
  BY <1>4, <1>9
<1>14. \A i, j \in 1..n : i < j => D(ids[i]) <= D(ids[j])
  BY <1>9, <1>a
<1>15. ASSUME every, NEW id \in matching \ Range(ids), NEW i \in 1..n PROVE D(ids[i]) <= D(id)
  <2>1. PICK r \in W : id = IdOfRowid(s, t, r)
    BY <1>15
  <2>2. ASSUME NEW j \in 1..n, a[j].rowid = r PROVE FALSE
    <3>1. ids[j] = id
      BY <1>4, <2>1, <2>2
    <3> QED
      BY <1>4, <1>15, <3>1 DEF Range
  <2>3. \A j \in 1..n : a[j].distance <= dist[r]
    BY <1>15, <1>a, <2>2
  <2>4. D(id) = dist[r]
    BY <1>6, <2>1
  <2>5. D(ids[i]) = a[i].distance
    BY <1>9
  <2> HIDE DEF D
  <2> QED
    BY <2>3, <2>4, <2>5
<1> HIDE DEF matching, D
<1>16. ids = [i \in 1..Len(answer) |-> answer[i].id]
  BY DEF ids
<1>17. \A id : D(id) = Distance(rows[id].vector, query)
  BY DEF D
<1>18. IsNearest(answer, rows, matching, query, k, every)
  BY <1>3, <1>10, <1>11, <1>12, <1>13, <1>14, <1>15, <1>16, <1>17, Zenon DEF IsNearest, D
<1> QED
  BY <1>18 DEF answer, rows, matching

-----------------------------------------------------------------------------
\* The distance of the slot a row is in.
SlotDistances(s, dist) == [r \in DOMAIN s.rowids |-> dist[s.rowids[r].chunk][s.rowids[r].offset]]

LEMMA BestIsAnswered ==
    ASSUME NEW s, NEW dist, NEW W \in SUBSET DOMAIN s.rowids, IsFiniteSet(W), NEW a, NEW l,
           NEW k \in Nat, Best(a, l, {RowEntry(s, dist, r) : r \in W}, k)
    PROVE  l \in Nat /\ Answered(a, l, W, SlotDistances(s, dist), k, TRUE)
<1> DEFINE D == SlotDistances(s, dist)
           E == {RowEntry(s, dist, r) : r \in W}
           n == Cardinality(W)
<1>1. \A r \in W : RowEntry(s, dist, r) = [rowid |-> r, distance |-> D[r]]
  BY DEF RowEntry, SlotDistances
<1>2. \A x \in E : x.rowid \in W /\ x = [rowid |-> x.rowid, distance |-> D[x.rowid]]
  BY <1>1
<1>2a. \A x \in E : x.distance = D[x.rowid]
  BY <1>1
<1>3. \A r \in W : [rowid |-> r, distance |-> D[r]] \in E
  BY <1>1
<1> HIDE DEF D, E
<1>4. /\ l \in Nat /\ l <= k /\ a \in [1..l -> E]
      /\ \A i, j \in 1..l : i < j => a[i].distance <= a[j].distance
      /\ \A i, j \in 1..l : a[i] = a[j] => i = j
      /\ \A x \in E : \/ \E i \in 1..l : a[i] = x
                      \/ l = k /\ \A i \in 1..l : a[i].distance <= x.distance
  BY DEF Best, Nearer, E
<1>5. \A i \in 1..l : a[i] \in E /\ a[i].rowid \in W /\ a[i] = [rowid |-> a[i].rowid, distance |-> D[a[i].rowid]]
  BY <1>2, <1>2a, <1>4
<1>6. ASSUME NEW i \in 1..l, NEW j \in 1..l, a[i].rowid = a[j].rowid PROVE i = j
  <2>1. a[i] = a[j]
    BY <1>2, <1>5, <1>6
  <2> QED
    BY <1>4, <2>1
<1>7. ASSUME NEW r \in W
      PROVE  \/ \E i \in 1..l : a[i].rowid = r
             \/ l = k /\ \A i \in 1..l : a[i].distance <= D[r]
  <2> DEFINE x == [rowid |-> r, distance |-> D[r]]
  <2>1. x \in E /\ x.rowid = r /\ x.distance = D[r]
    BY <1>3
  <2> HIDE DEF x
  <2>2. \/ \E i \in 1..l : a[i] = x
        \/ l = k /\ \A i \in 1..l : a[i].distance <= x.distance
    BY <1>4, <2>1
  <2> QED
    BY <2>1, <2>2
<1>8. l = AtMost(k, n)
  <2> DEFINE f == [i \in 1..l |-> a[i].rowid]
  <2>1. f \in [1..l -> W]
    BY <1>5
  <2>2. \A i \in 1..l : f[i] = a[i].rowid
    OBVIOUS
  <2> HIDE DEF f
  <2>3. \A i, j \in 1..l : f[i] = f[j] => i = j
    BY <1>6, <2>2
  <2>4. l <= n /\ (l = n <=> \A r \in W : \E i \in 1..l : f[i] = r)
    BY <1>4, <2>1, <2>3, ListedOnce
  <2>5. n \in Nat
    BY FS_CardinalityType
  <2>6. l = k \/ l = n
    BY <1>7, <2>2, <2>4
  <2> HIDE DEF n
  <2> QED
    BY <1>4, <2>4, <2>5, <2>6 DEF AtMost
<1>9. DOMAIN a = 1..l
  BY <1>4
<1>10. \A r \in W : (\E i \in 1..l : a[i].rowid = r) \/ (\A i \in 1..l : a[i].distance <= D[r])
  BY <1>7
<1> QED
  BY <1>4, <1>5, <1>6, <1>8, <1>9, <1>10 DEF Answered, D, n

LEMMA RowHasVerdict ==
    ASSUME NEW s, NEW t, IsDeclared(t), Chunked(t), StoreOK(s, t), ValuesOK(s, t),
           NEW cs, Asking(s, t, cs), NEW r \in DOMAIN s.rowids
    PROVE  \A x \in MetadataTerms(cs) :
              MetadataVerdict(s, t, s.rowids[r].chunk, s.rowids[r].offset, cs[x]) \in {"keep", "drop"}
<1> DEFINE c == s.rowids[r].chunk
           o == s.rowids[r].offset
           query == 0
<1> HIDE DEF query
<1>1. /\ \A x \in MetadataTerms(cs) : MetadataVerdict(s, t, c, o, cs[x]) \in {"keep", "drop"}
      /\ (\A x \in On(cs, MetadataTerms(cs)) : MetadataVerdict(s, t, c, o, x) = "keep")
           <=> \A x \in MetadataTerms(cs) :
                  Satisfies(t, IdOfRowid(s, t, r), Reads(s, t, r), query, cs[x])
  BY MetadataPasses
<1> QED
  BY <1>1

\* No filter fails on any slot, in use or not.
LEMMA NoMetadataError ==
    ASSUME NEW s, NEW t, IsDeclared(t), Chunked(t), StoreOK(s, t), ValuesOK(s, t),
           NEW cs, Asking(s, t, cs), NEW n, NEW C \in SUBSET DOMAIN s.chunks, NEW chunks, Chunklist(chunks, n, C)
    PROVE  ~MetadataError(s, t, chunks, On(cs, MetadataTerms(cs)))
<1> SUFFICES ASSUME NEW i \in 1..Len(chunks), NEW o \in Offsets(t), NEW m \in On(cs, MetadataTerms(cs)),
                    MetadataVerdict(s, t, chunks[i], o, m) = "error"
             PROVE  FALSE
  BY DEF MetadataError
<1> DEFINE c == chunks[i]
<1>1. c \in DOMAIN s.chunks
  <2>1. n \in Nat /\ chunks \in [1..n -> C]
    BY DEF Chunklist
  <2>2. Len(chunks) = n
    BY <2>1
  <2> QED
    BY <2>1, <2>2
<1>2. PICK j \in MetadataTerms(cs) : m = cs[j]
  BY DEF On
<1>3. MetaTerm(m, t)
  <2>1. TermsFit(cs, t)
    BY DEF Asking
  <2>2. j \in 1..Len(cs) /\ cs[j].col = "meta"
    BY <2>1, TermsAre
  <2>3. KnnTerm(cs[j], t)
    BY <2>1, <2>2 DEF TermsFit
  <2> QED
    BY <1>2, <2>2, <2>3 DEF KnnTerm
<1> HIDE DEF c
<1>4. CASE o \in s.chunks[c].validity
  <2> DEFINE r == s.chunks[c].rowids[o]
  <2>1. r \in DOMAIN s.rowids /\ c = s.rowids[r].chunk /\ o = s.rowids[r].offset
    BY <1>1, <1>4, SlotsNameRows DEF StoreOK
  <2> HIDE DEF r
  <2>2. \A x \in MetadataTerms(cs) : MetadataVerdict(s, t, s.rowids[r].chunk, s.rowids[r].offset, cs[x]) \in {"keep", "drop"}
    BY <2>1, RowHasVerdict
  <2>3. MetadataVerdict(s, t, c, o, cs[j]) \in {"keep", "drop"}
    BY <2>1, <2>2
  <2> QED
    BY <1>2, <2>3 DEF c
<1>5. CASE o \notin s.chunks[c].validity
  <2>1. t.meta = "text" => s.meta[c][o] = ZeroMeta(t)
    <3> SUFFICES ASSUME t.meta = "text" PROVE s.meta[c][o] = ZeroMeta(t)
      OBVIOUS
    <3>1. BlankSlots(s, t) /\ DOMAIN s.meta = DOMAIN s.chunks
      BY DEF ValuesOK, TextValues, StoreOK, ColumnsShape, Column
    <3> QED
      BY <1>1, <1>5, <3>1 DEF BlankSlots
  <2>2. MetadataVerdict(s, t, c, o, m) # "error"
    BY <1>3, <2>1, BlankNeverFails
  <2> QED
    BY <2>2 DEF c
<1> QED
  BY <1>4, <1>5

LEMMA IteratedChunks ==
    ASSUME NEW s, NEW t, StoreOK(s, t), Chunked(t), NEW partition
    PROVE  \E n : \E C \in SUBSET DOMAIN s.chunks : Chunklist(ChunksIter(s, partition), n, C)
<1> DEFINE C == {c \in DOMAIN s.chunks : InPartition(s, partition, c)}
<1>1. s.chunkSeq \in Nat /\ C \in SUBSET (1..s.chunkSeq)
  BY DEF StoreOK, RowsShape, ChunksShape
<1>2. ChunksIter(s, partition) = InOrder(C)
  BY Zenon DEF ChunksIter, InPartition
<1>3. C \in SUBSET DOMAIN s.chunks
  OBVIOUS
<1> HIDE DEF C
<1>4. Chunklist(InOrder(C), Cardinality(C), C)
  BY <1>1, ChunksInOrder
<1> QED
  BY <1>2, <1>3, <1>4

\* A scan by distances that every row's slot has: the nearest wanted rows.
LEMMA ScanAnswers ==
    ASSUME NEW s, NEW t, IsDeclared(t), Chunked(t), StoreOK(s, t), ValuesOK(s, t),
           NEW cs, Asking(s, t, cs), NEW query, NEW k \in Nat, NEW dist,
           \A c \in DOMAIN s.chunks : \A o \in s.chunks[c].validity : dist[c][o] \in Int,
           \A r \in DOMAIN s.rowids : DistancesAt(s, t, dist, query, r)
    PROVE  \E l \in Nat :
              Answered(ScanChunks(s, t, ChunksIter(s, On(cs, PartitionTerms(cs))), On(cs, RowidInTerms(cs)),
                                  On(cs, MetadataTerms(cs)), On(cs, DistanceTerms(cs)), k, dist),
                       l, Wanted(s, t, cs, query), SlotDistances(s, dist), k, TRUE)
<1> DEFINE P == On(cs, PartitionTerms(cs))
           R == On(cs, RowidInTerms(cs))
           M == On(cs, MetadataTerms(cs))
           F == On(cs, DistanceTerms(cs))
           best == ScanChunks(s, t, ChunksIter(s, P), R, M, F, k, dist)
           W == Wanted(s, t, cs, query)
<1>1. RowsShape(s) /\ ChunksShape(s, t) /\ Placed(s, t)
  BY DEF StoreOK
<1>2. \A r \in DOMAIN s.rowids : RowPasses(s, t, P, R, M, F, dist, r) <=> r \in W
  BY WantedRow DEF Qualifies, Wanted
<1>w. W \in SUBSET DOMAIN s.rowids
  BY DEF Wanted
<1> HIDE DEF P, R, M, F, best, W
<1>3. ScanIsRight(best, s, t, P, R, M, F, k, dist)
  BY <1>1, ScanFinds DEF best
<1>4. PICK l : Best(best, l, RowEntries(s, t, P, R, M, F, dist), k)
  BY <1>3 DEF ScanIsRight
<1>5. RowEntries(s, t, P, R, M, F, dist) = {RowEntry(s, dist, r) : r \in W}
  BY <1>2, <1>w DEF RowEntries
<1>6. IsFiniteSet(W)
  BY <1>w, RowsAreFinite, FS_Subset
<1>7. l \in Nat /\ Answered(best, l, W, SlotDistances(s, dist), k, TRUE)
  BY <1>4, <1>5, <1>6, <1>w, BestIsAnswered
<1> QED
  BY <1>7 DEF best, P, R, M, F, W

\* vec0Filter_knn_chunks_iter answers with the nearest of the rows that satisfy
\* the query.
LEMMA FlatIsNearest ==
    ASSUME NEW s, NEW t, IsDeclared(t), t.index = "flat", StoreOK(s, t), ValuesOK(s, t),
           NEW cs, Asking(s, t, cs), NEW query \in Int, NEW k \in Nat, NEW answer,
           answer = FlatKnn(s, t, ChunksIter(s, On(cs, PartitionTerms(cs))), On(cs, RowidInTerms(cs)),
                            On(cs, MetadataTerms(cs)), On(cs, DistanceTerms(cs)), query, k)
    PROVE  /\ answer.ok
           /\ IsNearest(WithIds(s, t, answer.rows), Rows(s, t), Matching(t, Rows(s, t), query, cs), query, k, TRUE)
<1> DEFINE P == On(cs, PartitionTerms(cs))
           R == On(cs, RowidInTerms(cs))
           M == On(cs, MetadataTerms(cs))
           F == On(cs, DistanceTerms(cs))
           dist == [c \in DOMAIN s.chunks |-> [o \in Offsets(t) |-> Distance(s.vectors[c][o], query)]]
           best == ScanChunks(s, t, ChunksIter(s, P), R, M, F, k, dist)
           W == Wanted(s, t, cs, query)
<1>0. Chunked(t)
  BY DEF Chunked
<1>1. answer.ok = ~MetadataError(s, t, ChunksIter(s, P), M) /\ answer.rows = best
  BY DEF FlatKnn
<1>2. answer.ok
  <2>1. PICK n, C : C \in SUBSET DOMAIN s.chunks /\ Chunklist(ChunksIter(s, P), n, C)
    <3>1. \E n : \E C \in SUBSET DOMAIN s.chunks : Chunklist(ChunksIter(s, P), n, C)
      BY <1>0, IteratedChunks
    <3> QED
      BY <3>1
  <2>2. ~MetadataError(s, t, ChunksIter(s, P), M)
    BY <1>0, <2>1, NoMetadataError
  <2> QED
    BY <1>1, <2>2
<1>3. ChunksShape(s, t) /\ Column(s.vectors, s, t) /\ Cells(s.vectors, Int)
  BY <1>0 DEF StoreOK, ColumnsShape, ValuesOK
<1>4. \A c \in DOMAIN s.chunks : \A o \in s.chunks[c].validity : dist[c][o] \in Int
  <2> SUFFICES ASSUME NEW c \in DOMAIN s.chunks, NEW o \in s.chunks[c].validity PROVE dist[c][o] \in Int
    OBVIOUS
  <2>1. o \in Offsets(t)
    BY <1>3 DEF ChunksShape
  <2>2. s.vectors[c][o] \in Int
    BY <1>3, <2>1 DEF Column, Cells
  <2>3. Distance(s.vectors[c][o], query) \in Int
    BY <2>2 DEF Distance
  <2> QED
    BY <2>1, <2>3
<1>5. ASSUME NEW r \in DOMAIN s.rowids
      PROVE  dist[s.rowids[r].chunk][s.rowids[r].offset] = Distance(GetVector(s, t, r), query)
  <2>1. s.rowids[r].chunk \in DOMAIN s.chunks /\ s.rowids[r].offset \in Offsets(t)
    BY <1>0, <1>3 DEF StoreOK, Placed, RowPlaced, ChunksShape
  <2>2. GetVector(s, t, r) = s.vectors[s.rowids[r].chunk][s.rowids[r].offset]
    BY DEF GetVector
  <2> QED
    BY <2>1, <2>2
<1> HIDE DEF dist
<1>6. \A r \in DOMAIN s.rowids : DistancesAt(s, t, dist, query, r)
  BY <1>5 DEF DistancesAt
<1>7. PICK l \in Nat : Answered(best, l, W, SlotDistances(s, dist), k, TRUE)
  BY <1>0, <1>4, <1>6, ScanAnswers
<1>8. SlotDistances(s, dist) = DistancesOf(s, t, query)
  BY <1>5 DEF SlotDistances, DistancesOf
<1>9. W \in SUBSET DOMAIN s.rowids
  BY DEF Wanted
<1> HIDE DEF best, W
<1>10. IsNearest(WithIds(s, t, best), Rows(s, t), {IdOfRowid(s, t, r) : r \in W}, query, k, TRUE)
  BY <1>0, <1>7, <1>8, <1>9, AnsweredIsNearest
<1>11. Matching(t, Rows(s, t), query, cs) = {IdOfRowid(s, t, r) : r \in W}
  BY MatchingAre DEF W
<1> QED
  BY <1>1, <1>2, <1>10, <1>11

-----------------------------------------------------------------------------
\* Lists of E, each member at most once.
OneEach(n, E) == {s \in [1..n -> E] : \A i, j \in 1..n : s[i] = s[j] => i = j}

LEMMA SwapKeepsEach ==
    ASSUME NEW E, NEW n \in Nat, NEW s \in OneEach(n, E), NEW i \in 1..n, NEW j \in 1..n
    PROVE  /\ Swapped(s, i, j) \in OneEach(n, E)
           /\ \A m \in 1..n : Swapped(s, i, j)[m] = IF m = i THEN s[j] ELSE IF m = j THEN s[i] ELSE s[m]
<1> DEFINE w == Swapped(s, i, j)
<1>1. s \in [1..n -> E] /\ \A a, b \in 1..n : s[a] = s[b] => a = b
  BY DEF OneEach
<1>2. Len(s) = n
  BY <1>1
<1>3. w = [m \in 1..n |-> IF m = i THEN s[j] ELSE IF m = j THEN s[i] ELSE s[m]]
  BY <1>2 DEF Swapped
<1> HIDE DEF w
<1>4. w \in [1..n -> E]
  BY <1>1, <1>3
<1>5. ASSUME NEW a \in 1..n, NEW b \in 1..n, w[a] = w[b] PROVE a = b
  BY <1>1, <1>3, <1>5
<1> QED
  BY <1>3, <1>4, <1>5 DEF OneEach, w

\* The first of the nearest from place i on.
Least(s, i) == CHOOSE j \in i..Len(s) : /\ \A n \in i..Len(s) : s[j].distance <= s[n].distance
                                        /\ \A n \in i..(j - 1) : s[j].distance < s[n].distance

LEMMA LeastIs ==
    ASSUME NEW E, \A x \in E : x.distance \in Nat, NEW n \in Nat, NEW s \in [1..n -> E], NEW i \in 1..n
    PROVE  /\ Least(s, i) \in 1..n /\ Least(s, i) >= i
           /\ \A m \in i..n : s[Least(s, i)].distance <= s[m].distance
<1> DEFINE T == {s[m].distance : m \in i..n}
<1>1. Len(s) = n /\ \A m \in 1..n : s[m].distance \in Nat
  OBVIOUS
<1>2. \A m \in i..n : m \in 1..n
  OBVIOUS
<1>3. T \in SUBSET Nat /\ T # {}
  <2>1. s[i].distance \in T
    BY <1>1
  <2> QED
    BY <1>1, <1>2, <2>1
<1>4. PICK d \in T : \A x \in T : d <= x
  <2> HIDE DEF T
  <2> QED
    BY <1>3, SmallestExists
<1> DEFINE J == {m \in i..n : s[m].distance = d}
<1>5. J \in SUBSET Nat /\ J # {}
  BY <1>2
<1>6. PICK j \in J : \A m \in J : j <= m
  <2> HIDE DEF J
  <2> QED
    BY <1>5, SmallestExists
<1>7. \A m \in i..n : s[j].distance <= s[m].distance
  BY <1>4
<1>8. ASSUME NEW m \in i..(j - 1) PROVE s[j].distance < s[m].distance
  <2>1. m \in i..n /\ j \in i..n
    OBVIOUS
  <2>2. m \notin J
    BY <1>6
  <2>3. s[m].distance # d /\ s[j].distance = d
    BY <2>1, <2>2
  <2>4. d <= s[m].distance /\ s[m].distance \in Nat /\ s[j].distance \in Nat
    BY <1>1, <1>2, <1>4, <2>1
  <2> QED
    BY <2>3, <2>4
<1>9. j \in i..n
  OBVIOUS
<1>10. \E j2 \in i..n : /\ \A m \in i..n : s[j2].distance <= s[m].distance
                        /\ \A m \in i..(j2 - 1) : s[j2].distance < s[m].distance
  BY <1>7, <1>8, <1>9
<1>11. Least(s, i) = CHOOSE j2 \in i..n : /\ \A m \in i..n : s[j2].distance <= s[m].distance
                                          /\ \A m \in i..(j2 - 1) : s[j2].distance < s[m].distance
  BY <1>1, Zenon DEF Least
<1>12. Least(s, i) \in i..n /\ \A m \in i..n : s[Least(s, i)].distance <= s[m].distance
  BY <1>10, <1>11
<1> QED
  BY <1>2, <1>12

\* Sorted up to place j, with nothing nearer after it.
SortedTo(s, j, n) == \A a \in 1..j, b \in 1..n : a < b => s[a].distance <= s[b].distance

LEMMA SortsOne ==
    ASSUME NEW E, \A x \in E : x.distance \in Nat, NEW n \in Nat, NEW s \in OneEach(n, E), NEW i \in 1..n,
           SortedTo(s, i - 1, n)
    PROVE  SortedTo(Swapped(s, i, Least(s, i)), i, n)
<1> DEFINE j == Least(s, i)
           w == Swapped(s, i, j)
<1>1. s \in [1..n -> E]
  BY DEF OneEach
<1>2. j \in 1..n /\ j >= i /\ \A m \in i..n : s[j].distance <= s[m].distance
  BY <1>1, LeastIs
<1> HIDE DEF j
<1>3. \A m \in 1..n : w[m] = IF m = i THEN s[j] ELSE IF m = j THEN s[i] ELSE s[m]
  BY <1>2, SwapKeepsEach
<1> HIDE DEF w
<1>4. ASSUME NEW a \in 1..i, NEW b \in 1..n, a < b PROVE w[a].distance <= w[b].distance
  <2>1. CASE a = i
    <3>1. w[a] = s[j] /\ \E m \in i..n : w[b] = s[m]
      BY <1>2, <1>3, <1>4, <2>1
    <3> QED
      BY <1>2, <3>1
  <2>2. CASE a # i
    <3>1. a \in 1..(i - 1) /\ a # j /\ a \in 1..n /\ i \in 1..n
      BY <1>2, <2>2
    <3>2. w[a] = s[a]
      BY <1>3, <2>2, <3>1
    <3>3. PICK m \in 1..n : w[b] = s[m] /\ a < m
      BY <1>2, <1>3, <1>4, <3>1
    <3> QED
      BY <3>1, <3>2, <3>3 DEF SortedTo
  <2> QED
    BY <2>1, <2>2
<1> QED
  BY <1>4 DEF SortedTo, w, j

LEMMA SelectionSorts ==
    ASSUME NEW E, \A x \in E : x.distance \in Nat, NEW n \in Nat, NEW found \in OneEach(n, E)
    PROVE  Nearer(SelectionSort(found), n, E)
<1> DEFINE D == OneEach(n, E)
           positions == [i \in 1..Len(found) |-> i]
           Step(s, a) == Swapped(s, positions[a], Least(s, positions[a]))
           F == [p \in D \X (1..n) |-> Step(p[1], p[2])]
           G(h) == [s \in SUBSET (1..n) |-> IF s = {} THEN found ELSE Step(h[s \ {Top(s)}], Top(s))]
           it == CHOOSE h : h = G(h)
<1>l. Len(found) = n
  <2>1. found \in [1..n -> E]
    BY DEF OneEach
  <2> QED
    BY <2>1
<1>d. DOMAIN positions = 1..n /\ \A a \in 1..n : positions[a] = a
  BY <1>l
<1> HIDE DEF positions
<1>1. ASSUME NEW s \in D, NEW a \in 1..n PROVE Step(s, a) \in D
  <2>1. s \in [1..n -> E]
    BY DEF OneEach
  <2>2. Least(s, a) \in 1..n
    BY <2>1, LeastIs
  <2>3. Swapped(s, a, Least(s, a)) \in D
    BY <2>2, SwapKeepsEach
  <2> QED
    BY <1>d, <2>3
<1>2. PICK h \in [SUBSET (1..n) -> D] : IsChain(F, found, n, h)
  <2>1. \A s \in D, a \in 1..n : F[<<s, a>>] \in D
    <3> HIDE DEF D, Step
    <3> QED
      BY <1>1
  <2> HIDE DEF F, D
  <2>2. found \in D
    BY DEF D
  <2> QED
    BY <2>1, <2>2, ChainExists
<1>3. h = G(h)
  <2> HIDE DEF D, Step
  <2>1. ASSUME NEW s \in SUBSET (1..n), s # {} PROVE F[<<h[s \ {Top(s)}], Top(s)>>] = Step(h[s \ {Top(s)}], Top(s))
    <3>1. Top(s) \in 1..n
      BY <2>1, TopIs
    <3>2. s \ {Top(s)} \in SUBSET (1..n)
      OBVIOUS
    <3> QED
      BY <3>1, <3>2
  <2> HIDE DEF F
  <2> QED
    BY <1>2, <2>1 DEF IsChain
<1>4. it = G(it)
  <2> HIDE DEF G
  <2> QED
    BY <1>3
<1>5. SelectionSort(found) = it[1..n]
  BY <1>d, Zenon DEF SelectionSort, Least, FoldLeft, MapThenFoldSet, Max, Top, positions
<1> HIDE DEF it, Step
<1>6. it[1..0] = found /\ \A a \in 1..n : it[1..a] = Step(it[1..(a - 1)], a)
  <2>1. it[1..0] = found
    BY <1>4
  <2>2. ASSUME NEW a \in 1..n PROVE it[1..a] = Step(it[1..(a - 1)], a)
    <3>1. Top(1..a) = a /\ (1..a) \ {a} = 1..(a - 1) /\ 1..a # {} /\ 1..a \in SUBSET (1..n)
      BY TopOfInterval
    <3> QED
      BY <1>4, <3>1
  <2> QED
    BY <2>1, <2>2
<1> DEFINE S == {a \in 0..n : it[1..a] \in D /\ SortedTo(it[1..a], a, n)}
<1> HIDE DEF D
<1>7. 0 \in S
  <2>1. found \in D
    BY DEF D
  <2>2. SortedTo(found, 0, n)
    BY DEF SortedTo
  <2> QED
    BY <1>6, <2>1, <2>2
<1>8. ASSUME NEW a \in 1..n, a - 1 \in S PROVE a \in S
  <2> DEFINE s == it[1..(a - 1)]
  <2>1. s \in D /\ SortedTo(s, a - 1, n) /\ it[1..a] = Step(s, a)
    BY <1>6, <1>8
  <2> HIDE DEF s
  <2>2. Step(s, a) \in D
    BY <1>1, <2>1
  <2>3. Step(s, a) = Swapped(s, a, Least(s, a))
    BY <1>d DEF Step
  <2>4. SortedTo(Step(s, a), a, n)
    BY <2>1, <2>3, SortsOne DEF D
  <2> QED
    BY <2>1, <2>2, <2>4
<1>9. n \in S
  <2> HIDE DEF S
  <2>1. \A a \in 0..n : a \in S
    BY <1>7, <1>8, UpTo
  <2> QED
    BY <2>1
<1> DEFINE w == SelectionSort(found)
<1> HIDE DEF w
<1>10. w \in D /\ SortedTo(w, n, n)
  BY <1>5, <1>9 DEF w
<1> QED
  BY <1>10 DEF Nearer, SortedTo, OneEach, D, w

-----------------------------------------------------------------------------
\* Oversampling asks for no fewer candidates than k.
LEMMA OversampledIs ==
    ASSUME NEW t, Sized(t), t.index = "rescore", NEW k \in 0..MaxK
    PROVE  Oversampled(t, k) \in Nat /\ Oversampled(t, k) >= k
<1> DEFINE f == IF t.oversampleSearch > 0 THEN t.oversampleSearch ELSE t.oversample
<1>1. f \in Nat /\ f >= 1
  BY DEF Sized
<1>2. Oversampled(t, k) = AtMost(k * f, MaxK)
  BY DEF Oversampled
<1> HIDE DEF f
<1>3. k \in Nat /\ k <= MaxK /\ MaxK \in Nat
  BY Vec0QueryAssumption
<1>4. k * f \in Nat /\ k * f >= k
  BY <1>1, <1>3
<1> DEFINE p == k * f
<1> HIDE DEF p
<1>5. AtMost(p, MaxK) \in Nat /\ AtMost(p, MaxK) >= k
  BY <1>3, <1>4 DEF AtMost, p
<1> QED
  BY <1>2, <1>5 DEF p

\* Sorting the candidates by the full vectors: the first k of them are the
\* nearest of the wanted rows if every wanted row is a candidate.
LEMMA RescoredIsAnswered ==
    ASSUME NEW s, NEW W, IsFiniteSet(W), NEW query, NEW D, NEW C, NEW l \in Nat, NEW k \in Nat, NEW wide \in Nat,
           wide >= k, NEW coarse, Answered(coarse, l, W, C, wide, TRUE),
           \A r \in W : r \in DOMAIN s.full /\ D[r] = Distance(s.full[r], query) /\ D[r] \in Nat,
           NEW every, every => wide >= Cardinality(W)
    PROVE  LET answer == Rescored(s, coarse, query, k)
           IN  answer.ok /\ \E n \in Nat : Answered(answer.rows, n, W, D, k, every)
<1> DEFINE exact == [i \in 1..Len(coarse) |-> [coarse[i] EXCEPT !.distance = Distance(s.full[coarse[i].rowid], query)]]
           E == {exact[i] : i \in 1..l}
           sorted == SelectionSort(exact)
           N == Cardinality(W)
           m == AtMost(k, l)
           rows == FirstN(sorted, k)
<1>1. /\ DOMAIN coarse = 1..l
      /\ \A i \in 1..l : coarse[i].rowid \in W /\ coarse[i] = [rowid |-> coarse[i].rowid, distance |-> C[coarse[i].rowid]]
      /\ \A i, j \in 1..l : coarse[i].rowid = coarse[j].rowid => i = j
      /\ l = AtMost(wide, N)
  BY DEF Answered
<1>2. Len(coarse) = l
  BY <1>1
<1>3. N \in Nat
  BY FS_CardinalityType
<1>4. ASSUME NEW i \in 1..l
      PROVE  exact[i] = [rowid |-> coarse[i].rowid, distance |-> D[coarse[i].rowid]]
  <2> DEFINE r == coarse[i].rowid
             d == Distance(s.full[r], query)
  <2>1. coarse[i] = [rowid |-> r, distance |-> C[r]] /\ r \in W
    BY <1>1
  <2>2. exact[i] = [coarse[i] EXCEPT !.distance = d]
    BY <1>2
  <2>3. d = D[r]
    BY <2>1
  <2> HIDE DEF r, d
  <2> QED
    BY <2>1, <2>2, <2>3 DEF r
<1>5. DOMAIN exact = 1..l
  BY <1>2
<1>6. Rescored(s, coarse, query, k).ok /\ Rescored(s, coarse, query, k).rows = rows
  <2>1. \A i \in 1..Len(coarse) : coarse[i].rowid \in DOMAIN s.full
    BY <1>1, <1>2
  <2>2. Rescored(s, coarse, query, k).ok = \A i \in 1..Len(coarse) : coarse[i].rowid \in DOMAIN s.full
    BY DEF Rescored
  <2>3. Rescored(s, coarse, query, k).rows = rows
    BY DEF Rescored
  <2> QED
    BY <2>1, <2>2, <2>3
<1>7. exact = [i \in 1..l |-> exact[i]]
  BY <1>5
<1> HIDE DEF exact
<1>8. ASSUME NEW i \in 1..l PROVE exact[i].rowid = coarse[i].rowid /\ exact[i].distance = D[coarse[i].rowid]
  <2> DEFINE r == coarse[i].rowid
             d == D[r]
             e == exact[i]
  <2>1. e = [rowid |-> r, distance |-> d]
    BY <1>4
  <2> HIDE DEF r, d, e
  <2>2. e.rowid = r /\ e.distance = d
    BY ONLY <2>1
  <2> QED
    BY <2>2 DEF r, d, e
<1>9. exact \in OneEach(l, E)
  <2>1. exact \in [1..l -> E]
    BY <1>7
  <2>2. \A i, j \in 1..l : exact[i] = exact[j] => i = j
    BY <1>1, <1>8
  <2> HIDE DEF E
  <2> QED
    BY <2>1, <2>2 DEF OneEach
<1>10. ASSUME NEW x \in E
       PROVE  /\ x.distance = D[x.rowid] /\ x.distance \in Nat /\ x.rowid \in W
              /\ x = [rowid |-> x.rowid, distance |-> D[x.rowid]]
  <2>1. PICK i \in 1..l : x = exact[i]
    OBVIOUS
  <2>2. x = [rowid |-> coarse[i].rowid, distance |-> D[coarse[i].rowid]]
    BY <1>4, <2>1
  <2>3. x.rowid = coarse[i].rowid /\ x.distance = D[coarse[i].rowid]
    BY <1>8, <2>1
  <2>4. coarse[i].rowid \in W
    BY <1>1
  <2> HIDE DEF E
  <2> QED
    BY <2>2, <2>3, <2>4
<1>11. \A i \in 1..l : exact[i] \in E
  OBVIOUS
<1>12. \A x \in E : \E i \in 1..l : exact[i] = x
  OBVIOUS
<1> HIDE DEF E, sorted, N, m, rows
<1>13. Nearer(sorted, l, E)
  BY <1>9, <1>10, SelectionSorts DEF sorted
<1>14. /\ sorted \in [1..l -> E]
       /\ \A i, j \in 1..l : i < j => sorted[i].distance <= sorted[j].distance
       /\ \A i, j \in 1..l : sorted[i] = sorted[j] => i = j
  BY <1>13 DEF Nearer
<1>15. IsFiniteSet(E)
  <2>1. exact \in [1..l -> E]
    BY <1>9 DEF OneEach
  <2>2. exact \in Surjection(1..l, E)
    BY <1>12, <2>1 DEF Surjection
  <2>3. IsFiniteSet(1..l)
    BY FS_Interval
  <2> QED
    BY <2>2, <2>3, FS_Surjection
<1>16. \A x \in E : \E i \in 1..l : sorted[i] = x
  <2>1. exact \in [1..l -> E] /\ \A i, j \in 1..l : exact[i] = exact[j] => i = j
    BY <1>9 DEF OneEach
  <2>2. l = Cardinality(E) <=> \A x \in E : \E i \in 1..l : exact[i] = x
    BY ONLY <1>15, <2>1, l \in Nat, ListedOnce
  <2>3. l = Cardinality(E) <=> \A x \in E : \E i \in 1..l : sorted[i] = x
    BY ONLY <1>14, <1>15, l \in Nat, ListedOnce
  <2> QED
    BY <1>12, <2>2, <2>3
<1>17. m \in Nat /\ m <= l /\ m <= k /\ (m = k \/ m = l)
  BY DEF m, AtMost
<1>18. Len(sorted) = l /\ sorted \in Seq(E)
  BY <1>14
<1>19. rows = [i \in 1..m |-> sorted[i]]
  <2>1. rows = SubSeq(sorted, 1, m)
    BY <1>18 DEF rows, FirstN, m
  <2>2. SubSeq(sorted, 1, m) = [i \in 1..m |-> sorted[i]]
    BY ONLY <1>17, <1>18, l \in Nat, k \in Nat, SMTT(30)
  <2> QED
    BY <2>1, <2>2
<1>20. DOMAIN rows = 1..m /\ \A i \in 1..m : rows[i] = sorted[i] /\ i \in 1..l
  BY <1>17, <1>19
<1>21. \A i \in 1..m : rows[i] \in E
  BY <1>14, <1>20
<1>22. ASSUME NEW i \in 1..m
       PROVE  rows[i].rowid \in W /\ rows[i] = [rowid |-> rows[i].rowid, distance |-> D[rows[i].rowid]]
  BY <1>10, <1>21
<1>23. ASSUME NEW i \in 1..m, NEW j \in 1..m, rows[i].rowid = rows[j].rowid PROVE i = j
  <2>1. rows[i] = rows[j]
    BY <1>10, <1>21, <1>23
  <2> QED
    BY <1>14, <1>20, <2>1
<1>24. \A i, j \in 1..m : i < j => rows[i].distance <= rows[j].distance
  BY <1>14, <1>20
<1>25. m = AtMost(k, N)
  BY <1>1, <1>3 DEF AtMost, m
<1>26. ASSUME every, NEW r \in W
       PROVE  \/ \E i \in 1..m : rows[i].rowid = r
              \/ \A i \in 1..m : rows[i].distance <= D[r]
  <2>1. l = N
    BY <1>1, <1>3, <1>26 DEF AtMost, N
  <2> DEFINE f == [i \in 1..l |-> coarse[i].rowid]
  <2>2. f \in [1..l -> W] /\ \A i \in 1..l : f[i] = coarse[i].rowid
    BY <1>1
  <2> HIDE DEF f
  <2>3. \A i, j \in 1..l : f[i] = f[j] => i = j
    BY <1>1, <2>2
  <2>4. \E i \in 1..l : f[i] = r
    BY <2>1, <2>2, <2>3, ListedOnce DEF N
  <2>5. PICK i \in 1..l : coarse[i].rowid = r
    BY <2>2, <2>4
  <2>6. PICK j \in 1..l : sorted[j] = exact[i]
    BY <1>11, <1>16
  <2>7. sorted[j].rowid = r /\ sorted[j].distance = D[r]
    BY <1>8, <2>5, <2>6
  <2>8. CASE j \in 1..m
    BY <1>20, <2>7, <2>8
  <2>9. CASE j \notin 1..m
    BY <1>14, <1>17, <1>20, <2>7, <2>9
  <2> QED
    BY <2>8, <2>9
<1>27. Answered(rows, m, W, D, k, every)
  BY <1>20, <1>22, <1>23, <1>24, <1>25, <1>26 DEF Answered, N
<1> QED
  BY <1>6, <1>17, <1>27

\* A rescore column is given no filters but rowids, having no other columns.
LEMMA NoOtherTerms ==
    ASSUME NEW s, NEW t, IsDeclared(t), t.index = "rescore", NEW cs, Asking(s, t, cs)
    PROVE  On(cs, MetadataTerms(cs)) = {} /\ On(cs, DistanceTerms(cs)) = {}
<1>1. t.meta = "none"
  BY DEF IsDeclared
<1>2. TermsFit(cs, t)
  BY DEF Asking
<1>3. \A i \in 1..Len(cs) : KnnTerm(cs[i], t) /\ cs[i].col # "meta" /\ cs[i].col # "distance"
  BY <1>1, <1>2 DEF TermsFit, KnnTerm, MetaTerm
<1>4. MetadataTerms(cs) = {} /\ DistanceTerms(cs) = {}
  BY <1>2, <1>3, TermsAre
<1> QED
  BY <1>4 DEF On

\* rescore_knn answers with the nearest, exact if oversampling reaches all rows.
LEMMA RescoreIsNearest ==
    ASSUME NEW s, NEW t, IsDeclared(t), t.index = "rescore", Sized(t), StoreOK(s, t), ValuesOK(s, t),
           NEW cs, Asking(s, t, cs), NEW query \in Int, NEW k \in 0..MaxK, NEW answer,
           answer = RescoreKnn(s, t, ChunksIter(s, On(cs, PartitionTerms(cs))), On(cs, RowidInTerms(cs)), query, k)
    PROVE  /\ answer.ok
           /\ IsNearest(WithIds(s, t, answer.rows), Rows(s, t), Matching(t, Rows(s, t), query, cs), query, k,
                        Oversampled(t, k) >= Cardinality(DOMAIN Rows(s, t)))
<1> DEFINE P == On(cs, PartitionTerms(cs))
           R == On(cs, RowidInTerms(cs))
           wide == Oversampled(t, k)
           dist == [c \in DOMAIN s.chunks |-> [o \in Offsets(t) |-> Distance(s.coarse[c][o], RescoreQuantize(query))]]
           best == ScanChunks(s, t, ChunksIter(s, P), R, {}, {}, wide, dist)
           W == Wanted(s, t, cs, query)
           all == Cardinality(DOMAIN Rows(s, t))
           every == wide >= all
<1>0. Chunked(t)
  BY DEF Chunked
<1>1. answer = Rescored(s, best, query, k)
  BY DEF RescoreKnn
<1>2. wide \in Nat /\ wide >= k /\ k \in Nat
  BY OversampledIs
<1>3. ChunksShape(s, t) /\ Column(s.coarse, s, t) /\ Cells(s.coarse, Int)
      /\ DOMAIN s.full = DOMAIN s.rowids /\ \A r \in DOMAIN s.full : s.full[r] \in Int
  BY <1>0 DEF StoreOK, ColumnsShape, ValuesOK, Filled
<1>4. \A c \in DOMAIN s.chunks : \A o \in s.chunks[c].validity : dist[c][o] \in Int
  <2> SUFFICES ASSUME NEW c \in DOMAIN s.chunks, NEW o \in s.chunks[c].validity PROVE dist[c][o] \in Int
    OBVIOUS
  <2>1. o \in Offsets(t)
    BY <1>3 DEF ChunksShape
  <2>2. s.coarse[c][o] \in Int /\ RescoreQuantize(query) \in Int
    BY <1>3, <2>1 DEF Column, Cells, RescoreQuantize
  <2>3. Distance(s.coarse[c][o], RescoreQuantize(query)) \in Int
    BY <2>2 DEF Distance
  <2> QED
    BY <2>1, <2>3
<1> HIDE DEF dist
<1>5. \A r \in DOMAIN s.rowids : DistancesAt(s, t, dist, query, r)
  BY DEF DistancesAt
<1>6. On(cs, MetadataTerms(cs)) = {} /\ On(cs, DistanceTerms(cs)) = {}
  BY NoOtherTerms
<1> HIDE DEF wide
<1>7. \E l \in Nat :
         Answered(ScanChunks(s, t, ChunksIter(s, P), R, On(cs, MetadataTerms(cs)), On(cs, DistanceTerms(cs)), wide, dist),
                  l, W, SlotDistances(s, dist), wide, TRUE)
  BY <1>0, <1>2, <1>4, <1>5, ScanAnswers
<1>8. PICK l \in Nat : Answered(best, l, W, SlotDistances(s, dist), wide, TRUE)
  BY <1>6, <1>7
<1>9. W \in SUBSET DOMAIN s.rowids
  BY DEF Wanted
<1> HIDE DEF best, W
<1>10. IsFiniteSet(DOMAIN s.rowids) /\ IsFiniteSet(W) /\ Cardinality(W) <= Cardinality(DOMAIN s.rowids)
  <2>1. IsFiniteSet(DOMAIN s.rowids)
    BY <1>0, RowsAreFinite
  <2> QED
    BY <1>9, <2>1, FS_Subset
<1>11. all = Cardinality(DOMAIN s.rowids)
  <2>1. DOMAIN Rows(s, t) = {IdOfRowid(s, t, r) : r \in DOMAIN s.rowids}
    BY DEF Rows
  <2>2. DOMAIN s.rowids \in SUBSET DOMAIN s.rowids
    OBVIOUS
  <2>3. Cardinality({IdOfRowid(s, t, r) : r \in DOMAIN s.rowids}) = Cardinality(DOMAIN s.rowids)
    BY <1>0, <2>2, IdsCount
  <2> QED
    BY <2>1, <2>3
<1>12. every => wide >= Cardinality(W)
  <2>1. Cardinality(W) \in Nat /\ Cardinality(DOMAIN s.rowids) \in Nat
    BY <1>10, FS_CardinalityType
  <2> HIDE DEF all
  <2> QED
    BY <1>2, <1>10, <1>11, <2>1
<1>13. \A r \in W : /\ r \in DOMAIN s.full /\ DistancesOf(s, t, query)[r] = Distance(s.full[r], query)
                    /\ DistancesOf(s, t, query)[r] \in Nat
  <2> SUFFICES ASSUME NEW r \in W
               PROVE  /\ r \in DOMAIN s.full /\ DistancesOf(s, t, query)[r] = Distance(s.full[r], query)
                      /\ DistancesOf(s, t, query)[r] \in Nat
    OBVIOUS
  <2>1. r \in DOMAIN s.rowids /\ r \in DOMAIN s.full /\ s.full[r] \in Int
    BY <1>3, <1>9
  <2>2. GetVector(s, t, r) = s.full[r]
    BY DEF GetVector
  <2>3. DistancesOf(s, t, query)[r] = Distance(s.full[r], query)
    BY <2>1, <2>2 DEF DistancesOf
  <2>4. Distance(s.full[r], query) \in Nat
    BY <2>1 DEF Distance
  <2> QED
    BY <2>1, <2>3, <2>4
<1> HIDE DEF every, all
<1>14. Rescored(s, best, query, k).ok
       /\ \E n \in Nat : Answered(Rescored(s, best, query, k).rows, n, W, DistancesOf(s, t, query), k, every)
  BY <1>2, <1>8, <1>10, <1>12, <1>13, RescoredIsAnswered
<1>15. PICK n \in Nat : Answered(answer.rows, n, W, DistancesOf(s, t, query), k, every)
  BY <1>1, <1>14
<1>16. IsNearest(WithIds(s, t, answer.rows), Rows(s, t), {IdOfRowid(s, t, r) : r \in W}, query, k, every)
  BY <1>0, <1>9, <1>15, AnsweredIsNearest
<1>17. Matching(t, Rows(s, t), query, cs) = {IdOfRowid(s, t, r) : r \in W}
  BY MatchingAre DEF W
<1> QED
  BY <1>1, <1>14, <1>16, <1>17 DEF every, wide, all

-----------------------------------------------------------------------------
\* The order of a full scan, by chunk and offset.
Precedes(s, a, b) ==
    IF s.rowids[a].chunk = s.rowids[b].chunk
    THEN IF s.rowids[a].offset = s.rowids[b].offset THEN a < b
         ELSE s.rowids[a].offset < s.rowids[b].offset
    ELSE s.rowids[a].chunk < s.rowids[b].chunk
InOrderOf(S, f, g) ==
    {p \in S \X S : \/ f[p[1]] < f[p[2]]
                    \/ f[p[1]] = f[p[2]] /\ g[p[1]] < g[p[2]]
                    \/ f[p[1]] = f[p[2]] /\ g[p[1]] = g[p[2]] /\ p[1] < p[2]}
ScanOrder(s) == InOrderOf(DOMAIN s.rowids, [r \in DOMAIN s.rowids |-> s.rowids[r].chunk],
                          [r \in DOMAIN s.rowids |-> s.rowids[r].offset])
BeforeInScan(s, x) == {y \in DOMAIN s.rowids : Precedes(s, y, x)}

LEMMA InOrderOfOrders ==
    ASSUME NEW S, NEW f, NEW g, \A x \in S : x \in Int /\ f[x] \in Int /\ g[x] \in Int
    PROVE  Orders(InOrderOf(S, f, g), S)
<1> DEFINE R == InOrderOf(S, f, g)
           Less(x, y) == \/ f[x] < f[y]
                         \/ f[x] = f[y] /\ g[x] < g[y]
                         \/ f[x] = f[y] /\ g[x] = g[y] /\ x < y
<1>1. \A x, y \in S : <<x, y>> \in R <=> Less(x, y)
  BY DEF InOrderOf
<1> HIDE DEF R
<1>3. \A x, y, z \in S : <<x, y>> \in R /\ <<y, z>> \in R => <<x, z>> \in R
  <2> SUFFICES ASSUME NEW x \in S, NEW y \in S, NEW z \in S, <<x, y>> \in R, <<y, z>> \in R
               PROVE  <<x, z>> \in R
    OBVIOUS
  <2>1. /\ x \in Int /\ y \in Int /\ z \in Int /\ f[x] \in Int /\ f[y] \in Int /\ f[z] \in Int
        /\ g[x] \in Int /\ g[y] \in Int /\ g[z] \in Int
        /\ Less(x, y) /\ Less(y, z)
    BY <1>1
  <2>2. Less(x, z)
    BY <2>1
  <2> HIDE DEF Less
  <2> QED
    BY <1>1, <2>2
<1>4. \A x \in S : <<x, x>> \notin R
  BY <1>1
<1>5. \A x, y \in S : x # y => <<x, y>> \in R \/ <<y, x>> \in R
  <2> SUFFICES ASSUME NEW x \in S, NEW y \in S, x # y PROVE <<x, y>> \in R \/ <<y, x>> \in R
    OBVIOUS
  <2>1. x \in Int /\ y \in Int /\ f[x] \in Int /\ f[y] \in Int /\ g[x] \in Int /\ g[y] \in Int
    OBVIOUS
  <2>2. Less(x, y) \/ Less(y, x)
    BY <2>1
  <2> HIDE DEF Less
  <2> QED
    BY <1>1, <2>2
<1> QED
  BY <1>3, <1>4, <1>5 DEF Orders, R

LEMMA ScanOrders ==
    ASSUME NEW s, \A r \in DOMAIN s.rowids : r \in Int /\ s.rowids[r].chunk \in Int /\ s.rowids[r].offset \in Int
    PROVE  /\ Orders(ScanOrder(s), DOMAIN s.rowids)
           /\ \A x, y \in DOMAIN s.rowids : <<x, y>> \in ScanOrder(s) <=> Precedes(s, x, y)
<1> DEFINE S == DOMAIN s.rowids
           f == [r \in S |-> s.rowids[r].chunk]
           g == [r \in S |-> s.rowids[r].offset]
<1>1. \A x \in S : /\ x \in Int /\ f[x] \in Int /\ g[x] \in Int
                   /\ f[x] = s.rowids[x].chunk /\ g[x] = s.rowids[x].offset
  OBVIOUS
<1>2. ScanOrder(s) = InOrderOf(S, f, g)
  BY Zenon DEF ScanOrder
<1> HIDE DEF S, f, g
<1>3. \A x, y \in S : <<x, y>> \in InOrderOf(S, f, g)
                         <=> \/ f[x] < f[y]
                             \/ f[x] = f[y] /\ g[x] < g[y]
                             \/ f[x] = f[y] /\ g[x] = g[y] /\ x < y
  BY DEF InOrderOf
<1>4. \A x, y \in S : <<x, y>> \in InOrderOf(S, f, g) <=> Precedes(s, x, y)
  <2> SUFFICES ASSUME NEW x \in S, NEW y \in S PROVE <<x, y>> \in InOrderOf(S, f, g) <=> Precedes(s, x, y)
    OBVIOUS
  <2> DEFINE Less == \/ f[x] < f[y]
                     \/ f[x] = f[y] /\ g[x] < g[y]
                     \/ f[x] = f[y] /\ g[x] = g[y] /\ x < y
  <2>1. Precedes(s, x, y) <=> Less
    <3>1. Precedes(s, x, y) <=> IF f[x] = f[y] THEN IF g[x] = g[y] THEN x < y ELSE g[x] < g[y]
                                ELSE f[x] < f[y]
      BY <1>1, Zenon DEF Precedes
    <3>2. f[x] \in Int /\ f[y] \in Int /\ g[x] \in Int /\ g[y] \in Int /\ x \in Int /\ y \in Int
      BY <1>1
    <3> QED
      BY <3>1, <3>2
  <2> HIDE DEF Less
  <2>2. <<x, y>> \in InOrderOf(S, f, g) <=> Less
    BY <1>3 DEF Less
  <2> QED
    BY <2>1, <2>2
<1>5. Orders(InOrderOf(S, f, g), S)
  BY <1>1, InOrderOfOrders
<1> QED
  BY <1>2, <1>4, <1>5 DEF S

LEMMA FullScanLists ==
    ASSUME NEW s, NEW t, IsDeclared(t), Chunked(t), StoreOK(s, t)
    PROVE  /\ Len(FullScan(s)) \in Nat
           /\ \A i \in 1..Len(FullScan(s)) : FullScan(s)[i] \in DOMAIN s.rowids
           /\ \A r \in DOMAIN s.rowids : \E i \in 1..Len(FullScan(s)) : FullScan(s)[i] = r
<1> DEFINE S == DOMAIN s.rowids
           R == ScanOrder(s)
           n == Cardinality(S)
           order == RankedBy(S, R)
           First(i) == CHOOSE x \in S : Cardinality(BeforeInScan(s, x)) = i - 1
           Other(i) == CHOOSE x \in S : Cardinality(Below(S, R, x)) = i - 1
<1>1. \A r \in S : r \in Int /\ s.rowids[r].chunk \in Int /\ s.rowids[r].offset \in Int
  <2> SUFFICES ASSUME NEW r \in S PROVE r \in Int /\ s.rowids[r].chunk \in Int /\ s.rowids[r].offset \in Int
    OBVIOUS
  <2>1. RowPlaced(s, r) /\ ChunksShape(s, t) /\ s.chunkSeq \in Nat /\ r \in Int
    BY DEF StoreOK, Placed, RowsShape
  <2>2. s.rowids[r].chunk \in 1..s.chunkSeq /\ s.rowids[r].offset \in 0..(t.chunkSize - 1)
    BY <2>1 DEF RowPlaced, ChunksShape, Offsets
  <2>3. t.chunkSize \in Nat
    BY DEF IsDeclared
  <2> QED
    BY <2>1, <2>2, <2>3
<1>2. Orders(R, S)
  BY <1>1, ScanOrders
<1>3. IsFiniteSet(S)
  BY RowsAreFinite
<1>4. ASSUME NEW x \in S PROVE BeforeInScan(s, x) = Below(S, R, x)
  <2>1. \A y \in S : <<y, x>> \in R <=> Precedes(s, y, x)
    BY <1>1, ScanOrders
  <2> HIDE DEF R
  <2>2. \A y : y \in BeforeInScan(s, x) <=> y \in S /\ Precedes(s, y, x)
    BY DEF BeforeInScan
  <2>3. \A y : y \in Below(S, R, x) <=> y \in S /\ <<y, x>> \in R
    BY DEF Below
  <2> QED
    BY <2>1, <2>2, <2>3
<1>5. FullScan(s) = [i \in 1..n |-> First(i)]
  BY Zenon DEF FullScan, Ranked, BeforeInScan, Precedes
<1> HIDE DEF R, S
<1>6. Listing(order, n, S, R)
  BY <1>2, <1>3, RankedByIs
<1>7. [i \in 1..n |-> First(i)] = order
  <2>1. order = [i \in 1..n |-> Other(i)]
    BY Zenon DEF RankedBy
  <2>2. ASSUME NEW i \in 1..n PROVE First(i) = Other(i)
    <3>1. \A x \in S : Cardinality(BeforeInScan(s, x)) = i - 1 <=> Cardinality(Below(S, R, x)) = i - 1
      BY <1>4
    <3> QED
      BY <3>1, Zenon
  <2> HIDE DEF First, Other, order, n
  <2> QED
    BY <2>1, <2>2
<1>8. FullScan(s) = order
  BY <1>5, <1>7
<1> HIDE DEF order, n
<1>9. n \in Nat /\ order \in [1..n -> S] /\ \A x \in S : \E i \in 1..n : order[i] = x
  BY <1>6 DEF Listing
<1>10. Len(order) = n
  BY <1>9
<1> QED
  BY <1>8, <1>9, <1>10 DEF S

-----------------------------------------------------------------------------
\* A listed text key that is a row's has a rowid.
LEMMA KeysOfRows ==
    ASSUME NEW s, NEW t, StoreOK(s, t), NEW id
    PROVE  id \in DOMAIN Rows(s, t) <=> HasId(s, t, id)
<1>1. id \in DOMAIN Rows(s, t) <=> \E r \in DOMAIN s.rowids : IdOfRowid(s, t, r) = id
  BY DEF Rows
<1> QED
  BY <1>1 DEF HasId, IdOfRowid

KnnRight(s, t, cs, answer, query, k) ==
    /\ answer.ok
    /\ IsNearest(WithIds(s, t, answer.rows), Rows(s, t), Matching(t, Rows(s, t), query, cs), query, k,
                 t.index = "flat" \/ Oversampled(t, k) >= Cardinality(DOMAIN Rows(s, t)))

\* LIMIT 0 asks for nothing.
LEMMA NothingIsNearest ==
    ASSUME NEW s, NEW t, IsDeclared(t), Chunked(t), StoreOK(s, t), NEW cs, NEW query, NEW k, k = 0, NEW every,
           NEW a, a = <<>>
    PROVE  IsNearest(WithIds(s, t, a), Rows(s, t), Matching(t, Rows(s, t), query, cs), query, k, every)
<1> DEFINE W == Wanted(s, t, cs, query)
           D == DistancesOf(s, t, query)
           n == 0
<1>1. W \in SUBSET DOMAIN s.rowids
  BY DEF Wanted
<1>2. IsFiniteSet(W)
  BY <1>1, RowsAreFinite, FS_Subset
<1>3. Cardinality(W) \in Nat
  BY <1>2, FS_CardinalityType
<1>4. DOMAIN a = 1..n /\ 1..n = {}
  OBVIOUS
<1>5. n = AtMost(k, Cardinality(W))
  BY <1>3 DEF AtMost
<1>6. n \in Nat
  OBVIOUS
<1> HIDE DEF n, W, D
<1>7. Answered(a, n, W, D, k, every)
  <2>1. every => \A r \in W : \A i \in 1..n : a[i].distance <= D[r]
    BY <1>4
  <2> QED
    BY <1>4, <1>5, <2>1, Zenon DEF Answered
<1>8. Matching(t, Rows(s, t), query, cs) = {IdOfRowid(s, t, r) : r \in W}
  BY MatchingAre DEF W
<1>9. IsNearest(WithIds(s, t, a), Rows(s, t), {IdOfRowid(s, t, r) : r \in W}, query, k, every)
  BY <1>1, <1>6, <1>7, AnsweredIsNearest DEF D
<1> QED
  BY <1>8, <1>9

LEMMA KnnIsRight ==
    ASSUME NEW s, NEW t, IsDeclared(t), Chunked(t), Sized(t), StoreOK(s, t), ValuesOK(s, t),
           NEW cs, Asking(s, t, cs), NEW args, Argv(args, cs), NEW query, query = cs[args[1]].value, query \in Int,
           NEW k, k = cs[args[2]].value
    PROVE  KnnRight(s, t, cs, FilterKnn(s, t, cs, args), query, k)
<1> DEFINE lists == On(cs, RowidInTerms(cs))
           parts == On(cs, PartitionTerms(cs))
           chunks == ChunksIter(s, parts)
           answer == FilterKnn(s, t, cs, args)
           unknown == t.pk = "text" /\ \E c \in lists : \E id \in c.value : ~HasId(s, t, id)
           nothing == [ok |-> TRUE, ended |-> TRUE, rows |-> <<>>]
           rest == ScanKnn(s, t, cs, args, chunks, lists, query, k)
           every == t.index = "flat" \/ Oversampled(t, k) >= Cardinality(DOMAIN Rows(s, t))
<1>1. /\ k \in 0..MaxK
      /\ Chosen(cs, args, RowidInTerms(cs)) = lists
      /\ Chosen(cs, args, PartitionTerms(cs)) = parts
      /\ Chosen(cs, args, MetadataTerms(cs)) = On(cs, MetadataTerms(cs))
      /\ Chosen(cs, args, DistanceTerms(cs)) = On(cs, DistanceTerms(cs))
  BY DEF Argv
<1>2. MaxK \in Nat /\ k \in Nat /\ ~(k < 0) /\ ~(k > MaxK)
  BY <1>1, Vec0QueryAssumption
<1>3. t.index \in {"flat", "rescore"}
  BY DEF IsDeclared, Chunked
<1>4. ~unknown
  <2> SUFFICES ASSUME t.pk = "text", NEW c \in lists, NEW id \in c.value PROVE HasId(s, t, id)
    OBVIOUS
  <2>1. PICK i \in RowidInTerms(cs) : c = cs[i]
    BY DEF On
  <2>2. i \in 1..Len(cs) /\ cs[i].col = "id" /\ cs[i].isIn
    BY <2>1, Zenon DEF RowidInTerms, TermsOn, Usable
  <2>3. Answerable(t, Rows(s, t), cs[i])
    BY <2>2 DEF Asking
  <2>4. c.value \subseteq DOMAIN Rows(s, t)
    BY <2>1, <2>2, <2>3 DEF Answerable
  <2> QED
    BY <2>4, KeysOfRows
<1>5. answer = IF k = 0 THEN nothing ELSE rest
  <2> DEFINE whole(l, p, u) ==
               CASE t.index = "diskann" -> Knn(s.graph, query, k, SearchBeam(t))
                 [] t.index # "diskann" /\ (k < 0 \/ k > MaxK) -> [nothing EXCEPT !.ok = FALSE]
                 [] t.index # "diskann" /\ k \in 0..MaxK /\ (k = 0 \/ u) -> nothing
                 [] OTHER -> ScanKnn(s, t, cs, args, ChunksIter(s, p), l, query, k)
  <2>1. answer = whole(lists, parts, unknown)
    <3> HIDE DEF lists, parts
    <3>1. Chosen(cs, args, RowidInTerms(cs)) = lists /\ Chosen(cs, args, PartitionTerms(cs)) = parts
          /\ query = cs[args[1]].value /\ k = cs[args[2]].value
      BY <1>1
    <3> QED
      BY <3>1, Zenon DEF FilterKnn
  <2> HIDE DEF lists, parts, unknown, nothing, answer
  <2>2. t.index # "diskann"
    BY <1>3
  <2>3. whole(lists, parts, unknown) = IF k = 0 THEN nothing ELSE rest
    BY <1>1, <1>2, <1>4, <2>2, Zenon DEF rest
  <2> QED
    BY <2>1, <2>3
<1>6. CASE k = 0
  <2>1. answer = nothing
    BY <1>5, <1>6, Zenon
  <2>2. answer.ok /\ answer.rows = <<>>
    BY <2>1
  <2> HIDE DEF answer, every
  <2>3. IsNearest(WithIds(s, t, answer.rows), Rows(s, t), Matching(t, Rows(s, t), query, cs), query, k, every)
    BY <1>6, <2>2, NothingIsNearest
  <2> QED
    BY <2>2, <2>3, Zenon DEF KnnRight, answer, every
<1>7. CASE k # 0 /\ t.index = "flat"
  <2>1. answer = FlatKnn(s, t, chunks, lists, On(cs, MetadataTerms(cs)), On(cs, DistanceTerms(cs)), query, k)
    <3>1. answer = rest
      BY <1>5, <1>7, Zenon
    <3>2. t.index # "rescore"
      BY <1>7
    <3> HIDE DEF answer, chunks, lists
    <3> QED
      BY <1>1, <3>1, <3>2, Zenon DEF ScanKnn
  <2> HIDE DEF answer
  <2>2. answer.ok /\ IsNearest(WithIds(s, t, answer.rows), Rows(s, t), Matching(t, Rows(s, t), query, cs), query, k, TRUE)
    BY <1>2, <1>7, <2>1, FlatIsNearest
  <2>3. every = TRUE
    BY <1>7
  <2> HIDE DEF every
  <2> QED
    BY <2>2, <2>3, Zenon DEF KnnRight, every, answer
<1>8. CASE k # 0 /\ t.index = "rescore"
  <2>1. answer = RescoreKnn(s, t, chunks, lists, query, k)
    <3>1. answer = rest
      BY <1>5, <1>8, Zenon
    <3> HIDE DEF answer, chunks, lists
    <3> QED
      BY <1>8, <3>1, Zenon DEF ScanKnn
  <2> HIDE DEF answer
  <2>2. answer.ok /\ IsNearest(WithIds(s, t, answer.rows), Rows(s, t), Matching(t, Rows(s, t), query, cs), query, k,
                               Oversampled(t, k) >= Cardinality(DOMAIN Rows(s, t)))
    BY <1>1, <1>8, <2>1, RescoreIsNearest
  <2>3. every = (Oversampled(t, k) >= Cardinality(DOMAIN Rows(s, t)))
    BY <1>8
  <2> HIDE DEF every
  <2> QED
    BY <2>2, <2>3, Zenon DEF KnnRight, every, answer
<1> QED
  BY <1>3, <1>6, <1>7, <1>8

-----------------------------------------------------------------------------
\* A query without MATCH: SQLite tests the terms its plan did not take.
ListedRight(s, t, cs, answer, query) ==
    /\ answer.ok
    /\ Matching(t, Rows(s, t), query, cs)
         = {id \in {IdOfRowid(s, t, answer.rows[i].rowid) : i \in 1..Len(answer.rows)} :
              \A i \in 1..Len(cs) : Satisfies(t, id, Rows(s, t)[id], query, cs[i])}

LEMMA ListsEnough ==
    ASSUME NEW s, NEW t, NEW cs, NEW query, NEW listed \in SUBSET DOMAIN Rows(s, t),
           Matching(t, Rows(s, t), query, cs) \subseteq listed
    PROVE  Matching(t, Rows(s, t), query, cs)
             = {id \in listed : \A i \in 1..Len(cs) : Satisfies(t, id, Rows(s, t)[id], query, cs[i])}
<1> DEFINE rows == Rows(s, t)
           Sat(id) == \A i \in 1..Len(cs) : Satisfies(t, id, rows[id], query, cs[i])
<1>1. Matching(t, rows, query, cs) = {id \in DOMAIN rows : Sat(id)}
  BY Zenon DEF Matching
<1> HIDE DEF rows, Sat
<1>2. Matching(t, rows, query, cs) = {id \in listed : Sat(id)}
  BY <1>1 DEF rows
<1> QED
  BY <1>2, Zenon DEF rows, Sat

LEMMA FullscanIsRight ==
    ASSUME NEW s, NEW t, IsDeclared(t), Chunked(t), StoreOK(s, t), NEW cs, NEW query
    PROVE  ListedRight(s, t, cs, FilterFullscan(s), query)
<1> DEFINE scan == FullScan(s)
           answer == FilterFullscan(s)
           listed == {IdOfRowid(s, t, answer.rows[i].rowid) : i \in 1..Len(answer.rows)}
           M == Matching(t, Rows(s, t), query, cs)
<1>1. /\ Len(scan) \in Nat
      /\ \A i \in 1..Len(scan) : scan[i] \in DOMAIN s.rowids
      /\ \A r \in DOMAIN s.rowids : \E i \in 1..Len(scan) : scan[i] = r
  BY FullScanLists
<1>2. answer.ok /\ answer.rows = [i \in 1..Len(scan) |-> [rowid |-> scan[i]]]
  BY DEF FilterFullscan
<1> HIDE DEF scan, answer
<1>3. Len(answer.rows) = Len(scan) /\ \A i \in 1..Len(scan) : answer.rows[i].rowid = scan[i]
  BY <1>1, <1>2
<1>4. DOMAIN Rows(s, t) = {IdOfRowid(s, t, r) : r \in DOMAIN s.rowids}
  BY DEF Rows
<1>5. listed = DOMAIN Rows(s, t)
  <2>1. ASSUME NEW id \in listed PROVE id \in DOMAIN Rows(s, t)
    <3>1. PICK i \in 1..Len(answer.rows) : id = IdOfRowid(s, t, answer.rows[i].rowid)
      OBVIOUS
    <3>2. answer.rows[i].rowid \in DOMAIN s.rowids
      BY <1>1, <1>3
    <3> QED
      BY <1>4, <3>1, <3>2
  <2>2. ASSUME NEW id \in DOMAIN Rows(s, t) PROVE id \in listed
    <3>1. PICK r \in DOMAIN s.rowids : id = IdOfRowid(s, t, r)
      BY <1>4
    <3>2. PICK i \in 1..Len(scan) : scan[i] = r
      BY <1>1
    <3>3. i \in 1..Len(answer.rows) /\ answer.rows[i].rowid = r
      BY <1>3, <3>2
    <3> QED
      BY <3>1, <3>3
  <2> HIDE DEF listed
  <2> QED
    BY <2>1, <2>2
<1>6. M \subseteq DOMAIN Rows(s, t)
  BY Zenon DEF Matching
<1>7. M = {id \in listed : \A i \in 1..Len(cs) : Satisfies(t, id, Rows(s, t)[id], query, cs[i])}
  <2> HIDE DEF listed
  <2> QED
    BY <1>5, <1>6, ListsEnough
<1> QED
  BY <1>2, <1>7, Zenon DEF ListedRight, answer

LEMMA PointFinds ==
    ASSUME NEW s, NEW t, IsDeclared(t), Chunked(t), StoreOK(s, t), NEW id, NEW answer,
           answer = FilterPoint(s, t, id), NEW r, r = RowidFromId(s, t, id),
           t.pk = "int" /\ t.index # "flat" => HasId(s, t, id)
    PROVE  /\ answer.ok
           /\ answer.rows = IF HasId(s, t, id) THEN <<[rowid |-> r]>> ELSE <<>>
           /\ HasId(s, t, id) => r \in DOMAIN s.rowids /\ IdOfRowid(s, t, r) = id
<1> DEFINE there == CASE t.index = "diskann" -> r \in DOMAIN s.graph.vectors
                      [] t.index = "rescore" -> r \in DOMAIN s.full
                      [] t.index = "flat" -> r \in DOMAIN s.rowids
           empty == t.pk = "text" /\ ~HasId(s, t, id)
<1>1. t.index \in {"flat", "rescore"} /\ t.pk \in {"int", "text"}
  BY DEF IsDeclared, Chunked
<1>2. t.index = "rescore" => DOMAIN s.full = DOMAIN s.rowids
  BY DEF StoreOK, ColumnsShape, Filled
<1>3. there <=> r \in DOMAIN s.rowids
  <2>1. CASE t.index = "flat"
    BY <2>1
  <2>2. CASE t.index = "rescore"
    BY <1>2, <2>2
  <2> QED
    BY <1>1, <2>1, <2>2
<1>4. HasId(s, t, id) => r \in DOMAIN s.rowids /\ IdOfRowid(s, t, r) = id
  BY <1>1 DEF HasId, RowidFromId, IdOfRowid
<1>5. t.pk = "int" => (r \in DOMAIN s.rowids <=> HasId(s, t, id))
  BY DEF HasId, RowidFromId
<1>6. answer = [ok |-> empty \/ t.index = "flat" \/ there, ended |-> TRUE,
                rows |-> IF ~empty /\ there THEN <<[rowid |-> r]>> ELSE <<>>]
  BY Zenon DEF FilterPoint
<1> HIDE DEF there
<1>7. ~empty /\ there <=> HasId(s, t, id)
  BY <1>1, <1>3, <1>4, <1>5
<1>8. empty \/ t.index = "flat" \/ there
  BY <1>1, <1>3, <1>4
<1> HIDE DEF empty
<1>9. answer.ok = (empty \/ t.index = "flat" \/ there)
  BY <1>6
<1>10. answer.rows = IF ~empty /\ there THEN <<[rowid |-> r]>> ELSE <<>>
  BY <1>6
<1> QED
  BY <1>4, <1>7, <1>8, <1>9, <1>10

LEMMA PointIsRight ==
    ASSUME NEW s, NEW t, IsDeclared(t), Chunked(t), StoreOK(s, t), NEW cs, NEW query,
           NEW n \in 1..Len(cs), cs[n].col = "id", ~cs[n].isIn, Answerable(t, Rows(s, t), cs[n]),
           NEW id, id = cs[n].value
    PROVE  ListedRight(s, t, cs, FilterPoint(s, t, id), query)
<1> DEFINE answer == FilterPoint(s, t, id)
           r == RowidFromId(s, t, id)
           listed == {IdOfRowid(s, t, answer.rows[i].rowid) : i \in 1..Len(answer.rows)}
           M == Matching(t, Rows(s, t), query, cs)
<1>1. t.pk = "int" /\ t.index # "flat" => HasId(s, t, id)
  BY KeysOfRows DEF Answerable
<1>2. /\ answer.ok
      /\ answer.rows = IF HasId(s, t, id) THEN <<[rowid |-> r]>> ELSE <<>>
      /\ HasId(s, t, id) => r \in DOMAIN s.rowids /\ IdOfRowid(s, t, r) = id
  <2> HIDE DEF answer, r
  <2> QED
    BY <1>1, PointFinds DEF answer, r
<1> HIDE DEF answer, r
<1>3. listed = IF HasId(s, t, id) THEN {id} ELSE {}
  <2>1. CASE HasId(s, t, id)
    <3>1. Len(answer.rows) = 1 /\ answer.rows[1].rowid = r
      BY <1>2, <2>1
    <3>2. listed = {IdOfRowid(s, t, answer.rows[1].rowid)}
      <4>1. 1..Len(answer.rows) = {1}
        BY <3>1
      <4> QED
        BY <4>1
    <3> QED
      BY <1>2, <2>1, <3>1, <3>2
  <2>2. CASE ~HasId(s, t, id)
    <3>1. 1..Len(answer.rows) = {}
      BY <1>2, <2>2
    <3> QED
      BY <2>2, <3>1
  <2> QED
    BY <2>1, <2>2
<1>4. listed \subseteq DOMAIN Rows(s, t)
  BY <1>3, KeysOfRows
<1>5. M \subseteq listed
  <2> SUFFICES ASSUME NEW x \in M PROVE x \in listed
    OBVIOUS
  <2>1. x \in DOMAIN Rows(s, t) /\ Satisfies(t, x, Rows(s, t)[x], query, cs[n])
    BY Zenon DEF Matching
  <2>2. x = id
    BY <2>1, Zenon DEF Satisfies
  <2>3. HasId(s, t, id)
    BY <2>1, <2>2, KeysOfRows
  <2> QED
    BY <1>3, <2>2, <2>3
<1>6. M = {x \in listed : \A i \in 1..Len(cs) : Satisfies(t, x, Rows(s, t)[x], query, cs[i])}
  <2> HIDE DEF listed
  <2> QED
    BY <1>4, <1>5, ListsEnough
<1> QED
  BY <1>2, <1>6, Zenon DEF ListedRight, answer

-----------------------------------------------------------------------------
\* What commands leave alone decides which terms fit.
LEMMA QueryKind ==
    ASSUME NEW t, NEW u, SameKind(t, u), NEW q
    PROVE  IsQuery(q, t) <=> IsQuery(q, u)
<1>1. t.part = u.part /\ t.meta = u.meta /\ t.index = u.index
  BY SameKindIs
<1>2. \A c : KnnTerm(c, t) <=> KnnTerm(c, u)
  BY <1>1 DEF KnnTerm, MetaTerm
<1> QED
  BY <1>2 DEF IsQuery

\* What is asked of a table that is there is what its declaration is asked.
LEMMA AskedAreQueries ==
    ASSUME IInv, table # Absent, NEW n \in 1..Len(Asked)
    PROVE  IsQuery(Asked[n], table)
<1>1. Accepts(schema.args) /\ SameKind(table, TableOf[schema.args])
  BY SchemaIsThere DEF IInv, TableInv
<1>2. IsQuery(Asked[n], TableOf[schema.args])
  BY <1>1, Vec0CorrectAssumption DEF Accepts, Asked
<1> QED
  BY <1>1, <1>2, QueryKind

\* vec0BestIndex takes one plan of three.
LEMMA PlanIs ==
    ASSUME NEW t, NEW cs, NEW orderBy, NEW plan, plan = BestIndex(t, cs, orderBy), plan.ok
    PROVE  /\ Cardinality(RowidInTerms(cs)) <= 1
           /\ MatchTerms(cs) # {} => /\ plan.plan = "knn" /\ plan.args = KnnArgs(cs)
                                     /\ (LimitTerms(cs) = {}) # (KTerms(cs) = {})
           /\ MatchTerms(cs) = {} /\ RowidTerms(cs) # {} =>
                plan.plan = "point" /\ plan.args = <<Largest(RowidTerms(cs))>>
           /\ MatchTerms(cs) = {} /\ RowidTerms(cs) = {} => plan.plan = "fullscan"
<1> DEFINE knn == MatchTerms(cs) # {}
           ok == /\ Cardinality(MatchTerms(cs)) <= 1
                 /\ Cardinality(RowidInTerms(cs)) <= 1
                 /\ knn => /\ KnnAllowed(cs, orderBy)
                           /\ \A i \in MetadataTerms(cs) : MetadataAllowed(t, cs[i])
                           /\ \A i \in DistanceTerms(cs) : cs[i].op \in DistanceOps
           point == RowidTerms(cs) # {}
           args == KnnArgs(cs)
           one == <<Largest(RowidTerms(cs))>>
<1>1. plan = [ok |-> ok,
              plan |-> IF knn THEN "knn" ELSE IF point THEN "point" ELSE "fullscan",
              args |-> IF ~ok THEN <<>> ELSE IF knn THEN args ELSE IF point THEN one ELSE <<>>]
  BY Zenon DEF BestIndex
<1>2. ok => Cardinality(RowidInTerms(cs)) <= 1 /\ (knn => KnnAllowed(cs, orderBy))
  OBVIOUS
<1> HIDE DEF ok, knn, point, args, one
<1>3. /\ plan.ok = ok
      /\ plan.plan = IF knn THEN "knn" ELSE IF point THEN "point" ELSE "fullscan"
      /\ plan.args = IF ~ok THEN <<>> ELSE IF knn THEN args ELSE IF point THEN one ELSE <<>>
  BY ONLY <1>1
<1>4. ok
  BY <1>3
<1>5. /\ knn => plan.plan = "knn" /\ plan.args = args
      /\ ~knn /\ point => plan.plan = "point" /\ plan.args = one
      /\ ~knn /\ ~point => plan.plan = "fullscan"
  BY ONLY <1>3, <1>4
<1>6. KnnAllowed(cs, orderBy) => (LimitTerms(cs) = {}) # (KTerms(cs) = {})
  BY DEF KnnAllowed
<1> QED
  BY <1>2, <1>4, <1>5, <1>6 DEF knn, point, args, one

LEMMA SelectsRight == IInv /\ ValuesInv => SelectIsRight
<1> SUFFICES ASSUME IInv, ValuesInv, Kept, Chunked(table), NEW n \in 1..Len(Asked),
                    NEW q, q = Asked[n], NEW cs, cs = q.cs,
                    NEW plan, plan = BestIndex(table, cs, q.orderBy), plan.ok,
                    NEW rows, rows = Rows(store, table),
                    \A i \in 1..Len(cs) : Answerable(table, rows, cs[i])
             PROVE  IsRight(q, plan, Filter(store, table, cs, plan), rows,
                            Matching(table, rows, VectorOf(q), cs))
  BY Zenon DEF SelectIsRight, AnswersRight
<1> DEFINE answer == Filter(store, table, cs, plan)
<1>1. /\ IsDeclared(table) /\ StoreOK(store, table)
      /\ schema # Absent /\ SameKind(table, TableOf[schema.args]) /\ Sized(table)
  BY SchemaIsThere DEF Kept, IInv, TableInv, ValuesInv
<1>2. ValuesOK(store, table)
  BY <1>1, KindValues DEF ValuesInv, Valued
<1>3. IsQuery(q, table)
  BY AskedAreQueries DEF Kept
<1>4. Len(cs) \in Nat /\ (MatchTerms(cs) # {} => TermsFit(cs, table))
  BY <1>3 DEF IsQuery, TermsFit
<1>5. /\ Cardinality(RowidInTerms(cs)) <= 1
      /\ MatchTerms(cs) # {} => /\ plan.plan = "knn" /\ plan.args = KnnArgs(cs)
                                /\ (LimitTerms(cs) = {}) # (KTerms(cs) = {})
      /\ MatchTerms(cs) = {} /\ RowidTerms(cs) # {} =>
           plan.plan = "point" /\ plan.args = <<Largest(RowidTerms(cs))>>
      /\ MatchTerms(cs) = {} /\ RowidTerms(cs) = {} => plan.plan = "fullscan"
  BY PlanIs
<1>6. CASE MatchTerms(cs) # {}
  <2> DEFINE query == VectorOf(q)
             args == plan.args
             k == cs[args[2]].value
             top == Largest(MatchTerms(cs))
  <2>1. Asking(store, table, cs)
    BY <1>4, <1>5, <1>6 DEF Asking
  <2>2. Argv(args, cs)
    BY <1>4, <1>5, <1>6, ArgvIs
  <2>3. query = cs[top].value
    BY <1>6, Zenon DEF VectorOf
  <2>4. top \in 1..Len(cs) /\ cs[top].col = "vector"
    <3>1. MatchTerms(cs) = {i \in 1..Len(cs) : cs[i].col = "vector"}
      BY <1>4, <1>6, TermsAre
    <3>2. MatchTerms(cs) \in SUBSET (1..Len(cs))
      BY <3>1
    <3>3. top \in MatchTerms(cs)
      BY <1>4, <1>6, <3>2, LargestIn
    <3> QED
      BY <3>1, <3>3
  <2>5. query \in Int
    BY <1>4, <1>6, <2>3, <2>4 DEF TermsFit, KnnTerm
  <2>6. cs[args[1]] = cs[top]
    BY <2>2 DEF Argv
  <2>7. answer = FilterKnn(store, table, cs, args)
    BY <1>5, <1>6, Zenon DEF Filter
  <2>8. KOf(q, plan) = k
    BY Zenon DEF KOf
  <2> HIDE DEF answer, query, k, args
  <2>9. KnnRight(store, table, cs, answer, query, k)
    BY <1>1, <1>2, <2>1, <2>2, <2>3, <2>5, <2>6, <2>7, KnnIsRight DEF k
  <2>10. plan.plan = "knn"
    BY <1>5, <1>6
  <2>11. IsExact(k, Cardinality(DOMAIN rows))
           = (table.index = "flat" \/ Oversampled(table, k) >= Cardinality(DOMAIN Rows(store, table)))
    BY Zenon DEF IsExact
  <2>12. /\ answer.ok
         /\ IsNearest(WithIds(store, table, answer.rows), rows, Matching(table, rows, query, cs), query, k,
                      IsExact(k, Cardinality(DOMAIN rows)))
    BY <2>9, <2>11, Zenon DEF KnnRight
  <2>13. IsRight(q, plan, answer, rows, Matching(table, rows, query, cs))
    BY <2>8, <2>10, <2>12, Zenon DEF IsRight, query
  <2> QED
    BY <2>13, Zenon DEF answer, query
<1>7. CASE MatchTerms(cs) = {}
  <2> DEFINE zero == 0
  <2>1. VectorOf(q) = zero
    BY <1>7, Zenon DEF VectorOf
  <2>2. ListedRight(store, table, cs, answer, zero)
    <3> HIDE DEF zero
    <3>1. CASE RowidTerms(cs) = {}
      <4>1. answer = FilterFullscan(store)
        BY <1>5, <1>7, <3>1, Zenon DEF Filter
      <4> HIDE DEF answer
      <4> QED
        BY <1>1, <4>1, FullscanIsRight
    <3>2. CASE RowidTerms(cs) # {}
      <4> DEFINE i == Largest(RowidTerms(cs))
      <4>1. \A x : x \in RowidTerms(cs) <=> x \in 1..Len(cs) /\ cs[x].usable /\ cs[x].col = "id"
                                            /\ cs[x].op \in {"EQ"} /\ ~cs[x].isIn
        BY DEF RowidTerms, RowidInTerms, TermsOn, Usable
      <4>2. RowidTerms(cs) \in SUBSET (1..Len(cs))
        BY <4>1
      <4>3. i \in RowidTerms(cs)
        BY <1>4, <3>2, <4>2, LargestIn
      <4>4. i \in 1..Len(cs) /\ cs[i].col = "id" /\ ~cs[i].isIn
        BY <4>1, <4>3
      <4>5. plan.args[1] = i /\ plan.plan = "point"
        BY <1>5, <1>7, <3>2
      <4>6. answer = FilterPoint(store, table, cs[i].value)
        BY <4>5, Zenon DEF Filter
      <4>7. Answerable(table, Rows(store, table), cs[i])
        BY <4>4
      <4> HIDE DEF answer, i
      <4> QED
        BY <1>1, <4>4, <4>6, <4>7, PointIsRight
    <3> QED
      BY <3>1, <3>2
  <2>3. plan.plan # "knn"
    BY <1>5, <1>7
  <2> HIDE DEF answer
  <2>4. IsRight(q, plan, answer, rows, Matching(table, rows, zero, cs))
    BY <2>2, <2>3, Zenon DEF IsRight, ListedRight
  <2> QED
    BY <2>1, <2>4, Zenon DEF answer
<1> QED
  BY <1>6, <1>7

\* On a flat or rescore table every query that is planned is answered, and
\* right, whatever was inserted, changed and deleted before.
THEOREM Vec0SelectIsRight == Spec => []SelectIsRight
<1>1. Init => ValuesInv
  BY DEF Init, ValuesInv
<1> QED
  BY <1>1, Vec0Invariant, NextKeepsValues, SelectsRight, PTL DEF Spec
================================================================================
